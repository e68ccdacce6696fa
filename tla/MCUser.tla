------------------------------- MODULE MCUser -------------------------------
(***************************************************************************)
(* The user programs: every sequence of malloc() and free() of two sizes   *)
(* on a small heap; grep of every well-formed pattern of up to four        *)
(* characters on inputs with empty, long and unterminated lines; the       *)
(* string functions on every memory of four cells; the shell on command    *)
(* lines that nest each operator in each, and on lines that do not parse.  *)
(***************************************************************************)
EXTENDS User

MCPatterns ==
    {re \in UNION {[1..k -> {"a", "b", ".", "*", "$", "^"}] : k \in 0..4} : WellFormed(re)}

\* The last one has a line that does not fit the buffer.
MCInputs == {<<"a", "b", "\n", "b", "\n", "a", "a", "\n", "\n", "b">>,
             <<"b", "a", "a", "b", "\n", "b", "a", "\n", "b">>,
             <<"\n", "b", "a", "b", "a", "b", "\n", "a", "\n">>}

MCNumbers == -20..40

echo == execcmd(<<"echo", "x">>)
cat == execcmd(<<"cat">>)
none == execcmd(<<"missing">>)

\* An operator on two commands, and on one.
Over(c, d) == {pipecmd(c, d), listcmd(c, d), backcmd(c), redircmd(c, "f", 1), redircmd(c, "f", 0)}

\* One operator over programs that run; two over programs that do not exist.
MCCommands ==
    UNION {Over(c, d) : c \in {echo, cat}, d \in {echo, cat}}
      \cup UNION {Over(c, none) \cup Over(none, c) : c \in Over(none, none)}
      \cup {pipecmd(echo, pipecmd(cat, cat)), pipecmd(backcmd(echo), cat),
            listcmd(backcmd(echo), pipecmd(echo, cat)), redircmd(redircmd(cat, "f", 0), "g", 1)}

MCScripts ==
    {<<Typed(c)>> : c \in MCCommands}
      \cup {<<Typed(backcmd(echo)), Typed(pipecmd(echo, cat))>>,
            <<Wrong(<<>>), Wrong(<<"cd", "f">>), Wrong(<<"echo", "&", "echo">>)>>,
            <<Wrong(<<"(", "echo">>), Wrong(<<"echo", "<", "|">>)>>,
            <<Wrong(<<"echo", "x", "x">>), Wrong(<<"echo", "(", "x">>)>>}
=============================================================================
