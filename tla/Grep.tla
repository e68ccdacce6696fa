-------------------------------- MODULE Grep --------------------------------
(***************************************************************************)
(* The program grep (user/grep.c): its reading of lines through a buffer   *)
(* and its matcher, with strchr() and memmove() of user/ulib.c.            *)
(***************************************************************************)
EXTENDS Integers, Sequences, FiniteSets, SequencesExt

CONSTANTS BUF,       \* sizeof(buf)
          Patterns,  \* patterns and inputs that are tried: sequences of characters
          Inputs

\* A pattern in the notation grep.c names: ^ only begins it, $ only ends it, and
\* a star follows a character.
WellFormed(re) ==
    /\ \A k \in DOMAIN re : (re[k] = "^" => k = 1) /\ (re[k] = "$" => k = Len(re))
    /\ \A k \in DOMAIN re : re[k] = "*" => k > 1 /\ re[k-1] \notin {"*", "^"}

ASSUME GrepAssumption == BUF \in Nat /\ BUF > 1 /\ \A re \in Patterns : WellFormed(re)

VARIABLES grep,   \* pattern, input not yet read, buf, m, pc
          given,  \* history: the input
          out     \* the lines written

grepvars == <<grep, given, out>>

-----------------------------------------------------------------------------
(* The matcher.  A string is a sequence; '\0' is its end. *)

RECURSIVE matchhere(_, _), matchstar(_, _, _)

\* Mutant: a star does not match nothing.
matchstar_plus(c, re, text) ==
    /\ text # <<>> /\ c \in {".", text[1]}
    /\ matchhere(re, Tail(text)) \/ matchstar(c, re, Tail(text))

matchstar(c, re, text) ==
    \/ matchhere(re, text)
    \/ text # <<>> /\ c \in {".", text[1]} /\ matchstar(c, re, Tail(text))

matchhere(re, text) ==
    IF re = <<>> THEN TRUE
    ELSE IF Len(re) > 1 /\ re[2] = "*" THEN matchstar(re[1], SubSeq(re, 3, Len(re)), text)
    ELSE IF re = <<"$">> THEN text = <<>>
    ELSE text # <<>> /\ re[1] \in {".", text[1]} /\ matchhere(Tail(re), Tail(text))

match(re, text) ==
    IF re # <<>> /\ re[1] = "^" THEN matchhere(Tail(re), text)
    ELSE \E k \in 0..Len(text) : matchhere(re, SubSeq(text, k + 1, Len(text)))

-----------------------------------------------------------------------------
(* grep(). *)

GrepInit ==
    /\ \E re \in Patterns, text \in Inputs :
         /\ grep = [pc |-> "read", re |-> re, left |-> text, buf |-> <<>>, p |-> 0]
         /\ given = text
    /\ out = <<>>

\* read() of what fits behind the m bytes in the buffer: any number of bytes
\* from 1 on, or 0 at the end of the input and when nothing fits.
read(k) ==
    LET room == BUF - Len(grep.buf) - 1 IN
    /\ grep.pc = "read" /\ k <= room /\ k <= Len(grep.left)
    /\ k = 0 => room = 0 \/ grep.left = <<>>
    /\ grep' = [grep EXCEPT !.pc = IF k = 0 THEN "done" ELSE "line", !.p = 0,
                            !.buf = @ \o SubSeq(grep.left, 1, k),
                            !.left = SubSeq(@, k + 1, Len(@))]
    /\ UNCHANGED <<given, out>>

\* strchr(p, '\n'): where the line ends that begins at p, 0 if it does not.
strchr(s, p, c) ==
    LET at == {k \in p+1..Len(s) : s[k] = c} IN
    IF at = {} THEN 0 ELSE CHOOSE k \in at : \A j \in at : k <= j

\* One turn of the loop over the lines in the buffer, or memmove() of what is
\* left to its beginning.
line ==
    LET q == strchr(grep.buf, grep.p, "\n")
        text == SubSeq(grep.buf, grep.p + 1, q - 1) IN
    /\ grep.pc = "line"
    /\ \/ /\ q # 0
          /\ out' = IF match(grep.re, text) THEN Append(out, text) ELSE out
          /\ grep' = [grep EXCEPT !.p = q]
       \/ /\ q = 0
          /\ grep' = [grep EXCEPT !.pc = "read", !.p = 0,
                                  !.buf = SubSeq(@, grep.p + 1, Len(@))]
          /\ UNCHANGED out
    /\ UNCHANGED given

GrepNext == line \/ \E k \in 0..BUF-1 : read(k)

-----------------------------------------------------------------------------
(* What grep is to write. *)

\* The items of a pattern without anchors: a character, and whether a star
\* follows.
Items(re) ==
    LET heads == {k \in DOMAIN re : re[k] # "*"}
        at == SetToSortSeq(heads, <) IN
    [j \in DOMAIN at |-> [c |-> re[at[j]], star |-> at[j] < Len(re) /\ re[at[j]+1] = "*"]]

\* text is cut at cuts[1] <= cuts[2] <= ...: one piece per item, each of the
\* item's character, and one long unless the item has a star.
Cuts(items, text) ==
    \E cuts \in [0..Len(items) -> 0..Len(text)] :
        /\ cuts[0] = 0 /\ cuts[Len(items)] = Len(text)
        /\ \A j \in DOMAIN items :
             /\ cuts[j-1] <= cuts[j]
             /\ items[j].star \/ cuts[j] = cuts[j-1] + 1
             /\ \A k \in cuts[j-1]+1..cuts[j] : items[j].c \in {".", text[k]}

\* A text has a match: some part of it, from the beginning if the pattern
\* begins with ^, and up to the end if it ends with $.
Matches(re, text) ==
    LET head == re # <<>> /\ re[1] = "^"
        body == IF head THEN Tail(re) ELSE re
        tail == body # <<>> /\ Last(body) = "$"
        items == Items(IF tail THEN Front(body) ELSE body) IN
    \E i, j \in 0..Len(text) :
        /\ i <= j /\ (head => i = 0) /\ (tail => j = Len(text))
        /\ Cuts(items, SubSeq(text, i + 1, j))

\* The complete lines of the input.
LineEnds == SetToSortSeq({k \in DOMAIN given : given[k] = "\n"}, <)
Line(j) == SubSeq(given, IF j = 1 THEN 1 ELSE LineEnds[j-1] + 1, LineEnds[j] - 1)
AllLines == [j \in DOMAIN LineEnds |-> Line(j)]

\* grep writes the lines that match, in order, however read() cuts the input
\* (grep.c): when it is done it has written exactly the matching ones among the
\* complete lines, or among those before the first that does not fit the buffer.
GrepExact ==
    LET fits == {j \in 0..Len(AllLines) : \A i \in 1..j : Len(AllLines[i]) + 1 < BUF}
        upto == CHOOSE j \in fits : \A i \in fits : i <= j IN
    grep.pc = "done" =>
        out = SelectSeq(SubSeq(AllLines, 1, upto), LAMBDA t : Matches(grep.re, t))
=============================================================================
