--------------------------------- MODULE Sh ---------------------------------
(***************************************************************************)
(* The shell (user/sh.c): its parser, runcmd() and the main loop, over the *)
(* kernel's processes, descriptors and pipes as the shell uses them.  A    *)
(* command line is a sequence of tokens; a token that is no symbol is a    *)
(* word.                                                                   *)
(***************************************************************************)
EXTENDS Integers, Sequences, FiniteSets, SequencesExt

CONSTANTS MAXARGS, Procs, Shell,
          Scripts,   \* what is typed: sequences of command lines
          Faults,    \* how many calls of fork(), pipe() and open() may fail
          PIPESIZE, Writes

ASSUME ShAssumption == Shell \in Procs /\ MAXARGS > 0 /\ PIPESIZE > 0

VARIABLES ps,      \* the processes
          pipes,   \* bytes in each pipe
          typed,   \* the lines still to be typed
          meant,   \* history: the command that the current line stands for
          faults   \* calls that may still fail

shvars == <<ps, pipes, typed, meant, faults>>

-----------------------------------------------------------------------------
(* Commands. *)

execcmd(argv) == [type |-> "EXEC", argv |-> argv]
redircmd(c, file, fd) == [type |-> "REDIR", cmd |-> c, file |-> file, fd |-> fd]
pipecmd(l, r) == [type |-> "PIPE", left |-> l, right |-> r]
listcmd(l, r) == [type |-> "LIST", left |-> l, right |-> r]
backcmd(c) == [type |-> "BACK", cmd |-> c]
Null == [type |-> "none"]

-----------------------------------------------------------------------------
(* Parsing.  A parser returns the set of the command it parsed with the    *)
(* tokens that are left, and the empty set when it panics.                 *)

Symbols == {"<", "|", ">", "+", "&", ";", "(", ")"}   \* + is the token of >>
peek(s, toks) == s # <<>> /\ s[1] \in toks
Parsed(c, s) == [cmd |-> c, rest |-> s]

RECURSIVE parseline(_), parsepipe(_), parseexec(_), parseargs(_, _, _),
          parseredirs(_, _), parserest(_, _), AddArg(_, _)

\* Each redirection wraps the command parsed so far.
parseredirs(c, s) ==
    IF ~peek(s, {"<", ">", "+"}) THEN {Parsed(c, s)}
    ELSE IF Len(s) < 2 \/ s[2] \in Symbols THEN {}   \* missing file for redirection
    ELSE parseredirs(redircmd(c, s[2], IF s[1] = "<" THEN 0 ELSE 1), SubSeq(s, 3, Len(s)))

\* cmd->argv[argc] = q: the word goes to the innermost command of ret.
AddArg(c, w) ==
    IF c.type = "REDIR" THEN [c EXCEPT !.cmd = AddArg(@, w)] ELSE [c EXCEPT !.argv = Append(@, w)]

\* The loop of parseexec() over the words.
parseargs(ret, argc, s) ==
    IF s = <<>> \/ peek(s, {"|", ")", "&", ";"}) THEN {Parsed(ret, s)}
    ELSE IF s[1] \in Symbols \/ argc + 1 >= MAXARGS THEN {}   \* syntax, too many args
    ELSE UNION {parseargs(r.cmd, argc + 1, r.rest) : r \in parseredirs(AddArg(ret, s[1]), Tail(s))}

parseblock(s) ==
    UNION {IF peek(r.rest, {")"}) THEN parseredirs(r.cmd, Tail(r.rest)) ELSE {} :
           r \in parseline(Tail(s))}

parseexec(s) ==
    IF peek(s, {"("}) THEN parseblock(s)
    ELSE UNION {parseargs(r.cmd, 0, r.rest) : r \in parseredirs(execcmd(<<>>), s)}

parsepipe(s) ==
    UNION {IF peek(r.rest, {"|"})
           THEN {Parsed(pipecmd(r.cmd, q.cmd), q.rest) : q \in parsepipe(Tail(r.rest))}
           ELSE {r} : r \in parseexec(s)}

\* What parseline() does behind its first pipeline.
parserest(c, s) ==
    IF peek(s, {"&"}) THEN parserest(backcmd(c), Tail(s))
    ELSE IF peek(s, {";"})
         THEN {Parsed(listcmd(c, q.cmd), q.rest) : q \in parseline(Tail(s))}
         ELSE {Parsed(c, s)}

parseline(s) == UNION {parserest(r.cmd, r.rest) : r \in parsepipe(s)}

\* Tokens that are left over are a panic, too.
parsecmd(s) == {r.cmd : r \in {q \in parseline(s) : q.rest = <<>>}}

-----------------------------------------------------------------------------
(* The kernel's calls, as the shell uses them.  A descriptor refers to the *)
(* console, to a file, or to the read or write end of a pipe.              *)

Free == [pc |-> "free"]
Live(p) == ps[p].pc \notin {"free", "zombie"}
Kids(p) == {q \in Procs : ps[q].pc # "free" /\ ps[q].parent = p}

Without(fds, K) == [k \in DOMAIN fds \ K |-> fds[k]]
lowest(fds) == CHOOSE k \in 0..8 : k \notin DOMAIN fds /\ \A j \in 0..k-1 : j \in DOMAIN fds
With(fds, f) == [k \in DOMAIN fds \cup {lowest(fds)} |-> IF k \in DOMAIN fds THEN fds[k] ELSE f]

Open(f) == \E p \in Procs : Live(p) /\ \E k \in DOMAIN ps[p].fds : ps[p].fds[k] = f

\* exit(): the children go to init, which waits for them.
exit(p) ==
    LET up == ps[p].parent IN
    ps' = [q \in Procs |->
              IF q = p THEN IF up = 0 THEN Free 
                                          ELSE [pc |-> "zombie", parent |-> up, back |-> ps[p].back]
              ELSE IF q \in Kids(p) THEN IF ps[q].pc = "zombie" THEN Free
                                         ELSE [ps[q] EXCEPT !.parent = 0]
              ELSE ps[q]]

\* fork1() of a child that starts as c, the parent going on as np; or a
\* failing fork(), after which fork1() exits.
fork1(p, np, c) ==
    LET slots == {q \in Procs : ps[q] = Free}
        q == CHOOSE q \in slots : \A r \in slots : q <= r IN
    \/ /\ slots # {}
       /\ ps' = [ps EXCEPT ![p] = np, ![q] = [c EXCEPT !.parent = p]]
       /\ UNCHANGED faults
    \/ faults > 0 /\ faults' = faults - 1 /\ exit(p)

\* wait(0): reaps a zombie child, or returns at once when there is no child.
wait(p, np) ==
    \/ Kids(p) = {} /\ ps' = [ps EXCEPT ![p] = np]
    \/ \E q \in Kids(p) : ps[q].pc = "zombie" /\ ps' = [ps EXCEPT ![p] = np, ![q] = Free]

-----------------------------------------------------------------------------
(* runcmd(), one operation per case of its switch. *)

Running(p, t) == ps[p].pc = "run" /\ ps[p].cmd.type = t

\* exec() of a program that does not exist fails, and the process exits.
run_EXEC(p) ==
    /\ Running(p, "EXEC")
    /\ LET argv == ps[p].cmd.argv IN
       IF argv = <<>> \/ argv[1] = "missing" THEN exit(p)
       ELSE ps' = [ps EXCEPT ![p].pc = argv[1], ![p].left = IF argv[1] = "echo" THEN Writes ELSE 0]
    /\ UNCHANGED <<pipes, typed, meant, faults>>

run_REDIR(p) ==
    /\ Running(p, "REDIR")
    /\ LET c == ps[p].cmd IN
       \/ /\ ps' = [ps EXCEPT ![p].cmd = c.cmd,
                              ![p].fds = With(Without(@, {c.fd}), <<c.file, 0>>)]
          /\ UNCHANGED faults
       \/ faults > 0 /\ faults' = faults - 1 /\ exit(p)
    /\ UNCHANGED <<pipes, typed, meant>>

run_LIST(p) ==
    /\ Running(p, "LIST")
    /\ fork1(p, [ps[p] EXCEPT !.pc = "list_wait"], [ps[p] EXCEPT !.cmd = @.left])
    /\ UNCHANGED <<pipes, typed, meant>>

list_wait(p) ==
    /\ ps[p].pc = "list_wait"
    /\ wait(p, [ps[p] EXCEPT !.pc = "run", !.cmd = @.right])
    /\ UNCHANGED <<pipes, typed, meant, faults>>

\* pipe(p): the two lowest descriptors; p[0] reads, p[1] writes.
run_PIPE(p) ==
    LET k == CHOOSE k \in DOMAIN pipes :
               /\ ~Open(<<"r", k>>) /\ ~Open(<<"w", k>>)
               /\ \A j \in 1..k-1 : Open(<<"r", j>>) \/ Open(<<"w", j>>)
        fds == ps[p].fds
        with == With(With(fds, <<"r", k>>), <<"w", k>>) IN
    /\ Running(p, "PIPE")
    /\ \/ /\ ps' = [ps EXCEPT ![p].pc = "fork_left", ![p].fds = with,
                              ![p].p = <<lowest(fds), lowest(With(fds, <<"r", k>>))>>]
          /\ pipes' = [pipes EXCEPT ![k] = 0]
          /\ UNCHANGED faults
       \/ /\ faults > 0 /\ faults' = faults - 1
          /\ exit(p) /\ UNCHANGED pipes
    /\ UNCHANGED <<typed, meant>>

\* A child's side: close(fd), dup(p[1 - fd's end]), and close() of both ends.
Plug(fds, ends, fd, end) == Without(With(Without(fds, {fd}), fds[end]), {ends[1], ends[2]})

fork_left(p) ==
    LET ends == ps[p].p IN
    /\ ps[p].pc = "fork_left"
    /\ fork1(p, [ps[p] EXCEPT !.pc = "fork_right"],
             [ps[p] EXCEPT !.pc = "run", !.cmd = @.left, !.fds = Plug(@, ends, 1, ends[2])])
    /\ UNCHANGED <<pipes, typed, meant>>

\* Mutant: the parent keeps the write end of the pipe open.
fork_right_open(p) ==
    LET ends == ps[p].p IN
    /\ ps[p].pc = "fork_right"
    /\ fork1(p, [ps[p] EXCEPT !.pc = "wait_one", !.fds = Without(@, {ends[1]})],
             [ps[p] EXCEPT !.pc = "run", !.cmd = @.right, !.fds = Plug(@, ends, 0, ends[1])])
    /\ UNCHANGED <<pipes, typed, meant>>

\* The second child, and the parent's own close() of both ends.
fork_right(p) ==
    LET ends == ps[p].p IN
    /\ ps[p].pc = "fork_right"
    /\ fork1(p, [ps[p] EXCEPT !.pc = "wait_one", !.fds = Without(@, {ends[1], ends[2]})],
             [ps[p] EXCEPT !.pc = "run", !.cmd = @.right, !.fds = Plug(@, ends, 0, ends[1])])
    /\ UNCHANGED <<pipes, typed, meant>>

\* Mutant: the process of a pipeline waits for one of the two only.
pipe_wait_one(p) ==
    /\ ps[p].pc = "wait_one"
    /\ wait(p, [ps[p] EXCEPT !.pc = "exit"])
    /\ UNCHANGED <<pipes, typed, meant, faults>>

pipe_wait(p) ==
    /\ ps[p].pc \in {"wait_one", "wait_two"}
    /\ wait(p, [ps[p] EXCEPT !.pc = IF @ = "wait_one" THEN "wait_two" ELSE "exit"])
    /\ UNCHANGED <<pipes, typed, meant, faults>>

run_BACK(p) ==
    /\ Running(p, "BACK")
    /\ fork1(p, [ps[p] EXCEPT !.pc = "exit"], [ps[p] EXCEPT !.cmd = @.cmd, !.back = TRUE])
    /\ UNCHANGED <<pipes, typed, meant>>

run_exit(p) ==
    /\ ps[p].pc = "exit" /\ exit(p)
    /\ UNCHANGED <<pipes, typed, meant, faults>>

-----------------------------------------------------------------------------
(* The programs that are run: echo writes and exits; cat writes what it    *)
(* reads until the end of its input.  The console and files have no input. *)

Readable(f) == f[1] = "r" => pipes[f[2]] > 0 \/ ~Open(<<"w", f[2]>>)
Writable(f) == f[1] = "w" => pipes[f[2]] < PIPESIZE \/ ~Open(<<"r", f[2]>>)

read_in(p) ==
    LET f == ps[p].fds[0] IN
    /\ ps[p].pc = "cat" /\ ps[p].left = 0 /\ Readable(f)
    /\ IF f[1] = "r" /\ pipes[f[2]] > 0
       THEN ps' = [ps EXCEPT ![p].left = 1] /\ pipes' = [pipes EXCEPT ![f[2]] = @ - 1]
       ELSE exit(p) /\ UNCHANGED pipes
    /\ UNCHANGED <<typed, meant, faults>>

write_out(p) ==
    LET f == ps[p].fds[1] IN
    /\ ps[p].pc \in {"echo", "cat"} /\ ps[p].left > 0 /\ Writable(f)
    /\ IF f[1] = "w" /\ ~Open(<<"r", f[2]>>)
       THEN exit(p) /\ UNCHANGED pipes
       ELSE /\ ps' = [ps EXCEPT ![p].left = @ - 1]
            /\ pipes' = IF f[1] = "w" THEN [pipes EXCEPT ![f[2]] = @ + 1] ELSE pipes
    /\ UNCHANGED <<typed, meant, faults>>

echo_exit(p) ==
    /\ ps[p].pc = "echo" /\ ps[p].left = 0 /\ exit(p)
    /\ UNCHANGED <<pipes, typed, meant, faults>>

-----------------------------------------------------------------------------
(* main(). *)

\* getcmd() and the line it read: a blank line and cd need no child; the child
\* of any other parses it and runs it, unless the parser panics.
main(p) ==
    /\ ps[p].pc = "prompt"
    /\ IF typed = <<>> THEN exit(p) /\ UNCHANGED <<typed, meant, faults>>
       ELSE LET line == typed[1] IN
            /\ typed' = Tail(typed)
            /\ meant' = line.cmd
            /\ IF line.toks = <<>> \/ line.toks[1] = "cd" THEN UNCHANGED <<ps, faults>>
               ELSE \E cmds \in {parsecmd(line.toks)} :
                    fork1(p, [ps[p] EXCEPT !.pc = "main_wait"],
                          [ps[p] EXCEPT !.pc = IF cmds = {} THEN "exit" ELSE "run",
                                        !.cmd = IF cmds = {} THEN Null ELSE CHOOSE c \in cmds : TRUE])
    /\ UNCHANGED pipes

main_wait(p) ==
    /\ ps[p].pc = "main_wait" /\ wait(p, [ps[p] EXCEPT !.pc = "prompt"])
    /\ UNCHANGED <<pipes, typed, meant, faults>>

cons == <<"cons", 0>>

\* main() has opened the console as 0, 1 and 2.
ShStart(script) ==
    /\ typed = script
    /\ ps = [p \in Procs |->
               IF p # Shell THEN Free
               ELSE [pc |-> "prompt", parent |-> 0, cmd |-> Null, back |-> FALSE, left |-> 0,
                     fds |-> (0 :> cons @@ 1 :> cons @@ 2 :> cons), p |-> <<0, 0>>]]
    /\ pipes = [k \in 1..Cardinality(Procs) |-> 0]
    /\ meant = Null
    /\ faults = Faults

ShInit == \E script \in Scripts : ShStart(script)

\* One step of process p.
step(p) ==
    \/ main(p) \/ main_wait(p)
    \/ run_EXEC(p) \/ run_REDIR(p) \/ run_LIST(p) \/ list_wait(p)
    \/ run_PIPE(p) \/ fork_left(p) \/ fork_right(p) \/ pipe_wait(p)
    \/ run_BACK(p) \/ run_exit(p)
    \/ read_in(p) \/ write_out(p) \/ echo_exit(p)

ShNext == \E p \in Procs : step(p)

-----------------------------------------------------------------------------
(* Properties. *)

\* A command as it is typed, with ( ) only where the grammar needs them.
RECURSIVE Unparse(_)
Unparse(c) ==
    LET In(d, types) == IF d.type \in types THEN Unparse(d) ELSE <<"(">> \o Unparse(d) \o <<")">>
        simple == {"EXEC", "REDIR"} IN
    CASE c.type = "EXEC"  -> c.argv
      [] c.type = "REDIR" -> In(c.cmd, simple) \o <<IF c.fd = 0 THEN "<" ELSE ">", c.file>>
      [] c.type = "PIPE"  -> In(c.left, simple) \o <<"|">> \o In(c.right, simple \cup {"PIPE"})
      [] c.type = "BACK"  -> In(c.cmd, simple \cup {"PIPE", "BACK"}) \o <<"&">>
      [] c.type = "LIST"  -> In(c.left, simple \cup {"PIPE", "BACK"}) \o <<";">> \o Unparse(c.right)

\* A line that stands for the command c, and one that stands for none.
Typed(c) == [toks |-> Unparse(c), cmd |-> c]
Wrong(toks) == [toks |-> toks, cmd |-> Null]

\* The programs of a command, each with its input and its output.
RECURSIVE Ends(_, _, _)
Ends(c, in, out) ==
    CASE c.type = "EXEC"  -> {<<c.argv, in, out>>}
      [] c.type = "REDIR" -> IF c.fd = 0 THEN Ends(c.cmd, c.file, out) ELSE Ends(c.cmd, in, c.file)
      [] c.type = "PIPE"  -> Ends(c.left, in, "w") \cup Ends(c.right, "r", out)
      [] c.type = "BACK"  -> Ends(c.cmd, in, out)
      [] c.type = "LIST"  -> Ends(c.left, in, out) \cup Ends(c.right, in, out)
      [] c.type = "none"  -> {}

\* The shell runs what the line says (parsecmd() and runcmd() of sh.c): each
\* program of the foreground is one of the command that was typed, reads and writes
\* where the command puts it, and holds no other descriptor, so that no pipe is
\* kept open by a process that does not use it.  And it prompts only when the
\* command is done: unless a fork(), pipe() or open() failed, what still runs at
\* the prompt was started with &.
ShellExact ==
    /\ \A p \in Procs : ps[p].pc \in {"echo", "cat"} =>
         /\ DOMAIN ps[p].fds = 0..2
         /\ ~ps[p].back =>
              <<ps[p].cmd.argv, ps[p].fds[0][1], ps[p].fds[1][1]>> \in Ends(meant, "cons", "cons")
    /\ ps[Shell].pc = "prompt" /\ faults = Faults =>
         \A p \in Procs \ {Shell} : ps[p].pc # "free" => ps[p].back

\* The shell prompts again: a command line whose programs end at the end of their
\* input comes back to the prompt (the close() calls of the pipe ends in runcmd()).
PromptReturns == ps[Shell].pc = "main_wait" ~> ps[Shell].pc = "prompt"
=============================================================================
