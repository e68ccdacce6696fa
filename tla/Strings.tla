------------------------------- MODULE Strings -------------------------------
(***************************************************************************)
(* The byte and string functions of the kernel (kernel/string.c) and of    *)
(* the C library (user/ulib.c), and the printing of integers               *)
(* (kernel/printf.c, user/printf.c), one step per turn of their loops.     *)
(* Memory is a small array of characters; 0 is '\0'.                       *)
(***************************************************************************)
EXTENDS Integers, Sequences, FiniteSets, SequencesExt

CONSTANTS Cells,   \* cells of memory
          Chars,   \* the characters, 0 among them
          Uint,    \* 2 ^ the width of a uint
          Numbers  \* numbers that are printed

ASSUME StringsAssumption == Cells > 0 /\ 0 \in Chars /\ Chars \subseteq Nat /\ Uint > 0

VARIABLES cells,  \* memory
          fn,     \* the call: what is called, its pointers and count, its result
          was     \* history: the memory at the call

strvars == <<cells, fn, was>>

Addrs == 0..Cells-1
Fits(a, n) == a + n <= Cells
Terminated(a) == \E k \in Addrs : k >= a /\ cells[k] = 0

-----------------------------------------------------------------------------
(* The calls.  Arguments are such that the call stays within memory: a     *)
(* string is terminated, a buffer has n cells.                             *)

Call(name, d, s, n) ==
    [name |-> name, pc |-> "loop", d |-> d, s |-> s, n |-> n, ret |-> 0,
     arg |-> [d |-> d, s |-> s, n |-> n], out |-> <<>>]

StringsInit ==
    /\ cells \in [Addrs -> Chars]
    /\ was = cells
    /\ \E d, s \in Addrs, n \in 0..Cells :
         \/ /\ Fits(d, n) /\ Fits(s, n)
            /\ \E name \in {"memmove_k", "memmove_u"} : fn = [Call(name, d, s, n) EXCEPT !.pc = "call"]
         \/ Fits(d, n) /\ Fits(s, n) /\ fn = Call("memcmp", d, s, n)
         \/ Fits(d, n) /\ s = 0 /\ fn = Call("memset", d, s, n)
         \/ /\ Fits(d, n) /\ Terminated(s)
            /\ {d+k : k \in 0..n-1} \cap {k \in Addrs : k >= s} = {}   \* they do not overlap
            /\ \E name \in {"strncpy", "safestrcpy"} : fn = Call(name, d, s, n)
         \/ Terminated(d) /\ Terminated(s) /\ fn = Call("strncmp", d, s, n)
         \/ Terminated(d) /\ Terminated(s) /\ n = 0 /\ fn = Call("strcmp", d, s, n)
         \/ Terminated(s) /\ d = 0 /\ n = 0 /\ fn = Call("strlen", d, s, n)

-----------------------------------------------------------------------------
(* The functions. *)

Is(names) == fn.pc = "loop" /\ fn.name \in names
Put(a, c) == cells' = [cells EXCEPT ![a] = c]
Return(r) == fn' = [fn EXCEPT !.pc = "done", !.ret = r] /\ UNCHANGED <<cells, was>>

\* Mutant: bytes are moved upwards whenever the source is not behind the destination.
memmove_swap ==
    /\ fn.pc = "call"
    /\ LET down == fn.s > fn.d IN
       fn' = [fn EXCEPT !.pc = IF down THEN "down" ELSE "up",
                        !.d = IF down THEN @ + fn.n ELSE @, !.s = IF down THEN @ + fn.n ELSE @]
    /\ UNCHANGED <<cells, was>>

\* memmove() chooses the direction: the kernel's moves down only when the
\* destination begins within the source, the library's unless the source is behind.
memmove ==
    /\ fn.pc = "call"
    /\ LET down == IF fn.name = "memmove_k" THEN fn.s < fn.d /\ fn.s + fn.n > fn.d
                   ELSE ~(fn.s > fn.d) IN
       fn' = [fn EXCEPT !.pc = IF down THEN "down" ELSE "up",
                        !.d = IF down THEN @ + fn.n ELSE @, !.s = IF down THEN @ + fn.n ELSE @]
    /\ UNCHANGED <<cells, was>>

move_up ==
    /\ fn.pc = "up"
    /\ IF fn.n = 0 THEN Return(0)
       ELSE /\ Put(fn.d, cells[fn.s])
            /\ fn' = [fn EXCEPT !.d = @ + 1, !.s = @ + 1, !.n = @ - 1]
            /\ UNCHANGED was

move_down ==
    /\ fn.pc = "down"
    /\ IF fn.n = 0 THEN Return(0)
       ELSE /\ Put(fn.d - 1, cells[fn.s - 1])
            /\ fn' = [fn EXCEPT !.d = @ - 1, !.s = @ - 1, !.n = @ - 1]
            /\ UNCHANGED was

\* memset() of the character 1.
memset ==
    /\ Is({"memset"})
    /\ IF fn.n = 0 THEN Return(0)
       ELSE Put(fn.d, 1) /\ fn' = [fn EXCEPT !.d = @ + 1, !.n = @ - 1] /\ UNCHANGED was

memcmp ==
    /\ Is({"memcmp"})
    /\ IF fn.n = 0 THEN Return(0)
       ELSE IF cells[fn.d] # cells[fn.s] THEN Return(cells[fn.d] - cells[fn.s])
       ELSE fn' = [fn EXCEPT !.d = @ + 1, !.s = @ + 1, !.n = @ - 1] /\ UNCHANGED <<cells, was>>

strncmp ==
    /\ Is({"strncmp"})
    /\ IF fn.n > 0 /\ cells[fn.d] # 0 /\ cells[fn.d] = cells[fn.s]
       THEN fn' = [fn EXCEPT !.d = @ + 1, !.s = @ + 1, !.n = @ - 1] /\ UNCHANGED <<cells, was>>
       ELSE Return(IF fn.n = 0 THEN 0 ELSE cells[fn.d] - cells[fn.s])

strcmp ==
    /\ Is({"strcmp"})
    /\ IF cells[fn.d] # 0 /\ cells[fn.d] = cells[fn.s]
       THEN fn' = [fn EXCEPT !.d = @ + 1, !.s = @ + 1] /\ UNCHANGED <<cells, was>>
       ELSE Return(cells[fn.d] - cells[fn.s])

strlen ==
    /\ Is({"strlen"})
    /\ IF cells[fn.s + fn.n] # 0 THEN fn' = [fn EXCEPT !.n = @ + 1] /\ UNCHANGED <<cells, was>>
       ELSE Return(fn.n)

\* The copying loop, then the loop that pads with zeros.
strncpy ==
    \/ /\ Is({"strncpy"}) /\ fn.n > 0
       /\ Put(fn.d, cells[fn.s])
       /\ fn' = [fn EXCEPT !.d = @ + 1, !.s = @ + 1, !.n = @ - 1,
                           !.pc = IF cells[fn.s] = 0 THEN "pad" ELSE "loop"]
       /\ UNCHANGED was
    \/ /\ fn.pc = "pad" /\ fn.n > 0
       /\ Put(fn.d, 0) /\ fn' = [fn EXCEPT !.d = @ + 1, !.n = @ - 1] /\ UNCHANGED was
    \/ (Is({"strncpy"}) \/ fn.pc = "pad") /\ fn.n = 0 /\ Return(0)

\* Its loop leaves the last cell for the zero that is always written.
safestrcpy ==
    /\ Is({"safestrcpy"})
    /\ \/ fn.n <= 0 /\ Return(0)
       \/ /\ fn.n > 1 /\ Put(fn.d, cells[fn.s])
          /\ fn' = [fn EXCEPT !.d = @ + 1, !.s = @ + 1, !.n = IF cells[fn.s] = 0 THEN 1 ELSE @ - 1]
          /\ UNCHANGED was
       \/ /\ fn.n = 1 /\ Put(fn.d, 0)
          /\ fn' = [fn EXCEPT !.pc = "done"] /\ UNCHANGED was

-----------------------------------------------------------------------------
(* printint().  The digits come out in front of each other; -1 is '-'.     *)
(* The kernel's x has 64 bits, the library's is a uint.                    *)

Width(name) == IF name = "printint_k" THEN Uint * Uint ELSE Uint

PrintInit ==
    /\ cells = [a \in Addrs |-> 0] /\ was = cells
    /\ \E name \in {"printint_k", "printint_u"}, xx \in Numbers, base \in {10, 16}, sgn \in {0, 1} :
         /\ xx < 0 => sgn = 1
         /\ LET neg == sgn = 1 /\ xx < 0 IN
            fn = [Call(name, base, sgn, xx) EXCEPT !.n = (IF neg THEN -xx ELSE xx) % Width(name)]

printint ==
    /\ Is({"printint_k", "printint_u"})
    /\ LET x == fn.n \div fn.d
           out == <<fn.n % fn.d>> \o fn.out IN
       fn' = [fn EXCEPT !.n = x, !.pc = IF x = 0 THEN "done" ELSE "loop",
                        !.out = IF x = 0 /\ fn.arg.n < 0 THEN <<-1>> \o out ELSE out]
    /\ UNCHANGED <<cells, was>>

StringsNext ==
    \/ memmove \/ move_up \/ move_down \/ memset \/ memcmp \/ strncmp \/ strcmp
    \/ strlen \/ strncpy \/ safestrcpy \/ printint

-----------------------------------------------------------------------------
(* What the functions are to do. *)

\* The length of a string, and whether it is below another in the order of their
\* first different characters.
Length(a) == CHOOSE n \in 0..Cells : was[a+n] = 0 /\ \A k \in 0..n-1 : was[a+k] # 0
Diff(a, b, n) ==
    LET at == {k \in 0..n-1 : was[a+k] # was[b+k]} IN
    IF at = {} THEN 0
    ELSE LET k == CHOOSE k \in at : \A j \in at : k <= j IN was[a+k] - was[b+k]

\* Memory is as it was but for the n cells at a, where F says what is there.
Only(a, n, F(_)) ==
    \A k \in Addrs : cells[k] = IF a <= k /\ k < a + n THEN F(k - a) ELSE was[k]

Least(a, b) == IF a < b THEN a ELSE b
Value(digits, base) ==
    FoldLeft(LAMBDA v, d : v * base + d, 0, digits)

\* The loops compute what their callers rely on (string.c, ulib.c, printf.c): a
\* move is right however the two areas overlap; a copy of a name fills exactly its
\* n cells and safestrcpy() always terminates it; a comparison looks no further
\* than the end of the shorter string or n; a number is printed with its sign and
\* without leading zeros, up to the width that printint() keeps of it.
StringsExact ==
    LET d == fn.arg.d
        s == fn.arg.s
        n == fn.arg.n
        name == fn.name IN
    fn.pc = "done" =>
        /\ name \in {"memmove_k", "memmove_u"} => Only(d, n, LAMBDA k : was[s+k])
        /\ name = "memset" => Only(d, n, LAMBDA k : 1)
        /\ name = "strncpy" =>
             Only(d, n, LAMBDA k : IF k < Length(s) THEN was[s+k] ELSE 0)
        /\ name = "safestrcpy" =>
             LET m == Least(Length(s), n - 1) IN
             /\ n > 0 => \A k \in 0..m : cells[d+k] = IF k < m THEN was[s+k] ELSE 0
             /\ \A k \in Addrs \ (d..d+n-1) : cells[k] = was[k]
        /\ name = "memcmp" => fn.ret = Diff(d, s, n)
        /\ name = "strcmp" => fn.ret = Diff(d, s, Least(Length(d), Length(s)) + 1)
        /\ name = "strncmp" => fn.ret = Diff(d, s, Least(n, Least(Length(d), Length(s)) + 1))
        /\ name = "strlen" => fn.ret = Length(s)
        /\ name \in {"printint_k", "printint_u"} =>
             LET digits == IF n < 0 THEN Tail(fn.out) ELSE fn.out IN
             /\ n < 0 => fn.out[1] = -1
             /\ \A k \in DOMAIN digits : digits[k] \in 0..d-1
             /\ digits[1] = 0 => Len(digits) = 1
             /\ Value(digits, d) = (IF n < 0 THEN -n ELSE n) % Width(name)
=============================================================================
