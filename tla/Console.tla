------------------------------- MODULE Console -------------------------------
(***************************************************************************)
(* Console input and output (kernel/console.c) over the serial port        *)
(* (kernel/uart.c) and, external, the port itself.                         *)
(*                                                                         *)
(* cons.lock and tx_lock are spin locks.  The interrupt handler holds      *)
(* cons.lock while it echoes a character, which waits for the port.  The   *)
(* port sends and receives on its own and asks for an interrupt while      *)
(* input is there and after it has sent everything.                        *)
(***************************************************************************)
EXTENDS Plic, SequencesExt

CONSTANTS INPUT_BUF_SIZE,
          UINT,      \* 2^32: the indices of the buffer wrap around here
          Char,      \* ordinary characters
          CHUNK,     \* bytes that consolewrite() hands to uartwrite() at a time
          FIFO,      \* bound on the characters that wait in the port
          Lines      \* empty lines typed and read before the behaviour starts

ASSUME ConsoleAssumption ==
    /\ {INPUT_BUF_SIZE, UINT, CHUNK, FIFO, Lines} \subseteq Nat \ {0}
    /\ UINT > INPUT_BUF_SIZE /\ UINT % INPUT_BUF_SIZE = 0

\* The keys with a meaning: end of line, end of file, erase one, erase all,
\* list processes.
Key == Char \cup {"\n", "D", "H", "U", "P"}

VARIABLES cons,    \* cons: buf, r, w, e and the holder of the lock
          tx,      \* tx_busy
          port,    \* the port: received, to send, transmit interrupt pending
          input,   \* history: complete lines not yet read
          line     \* history: the line being edited

consvars == <<cons, tx, port, input, line>>

\* After uartinit(): idle, and both interrupts are on.
PortInit == tx = FALSE /\ port = [rx |-> <<>>, tx |-> <<>>, thre |-> FALSE]

ConsoleInit ==
    /\ LET at == Lines % UINT IN
       cons = [buf |-> [i \in 0..INPUT_BUF_SIZE-1 |-> "\n"], r |-> at, w |-> at, e |-> at,
               lock |-> None]
    /\ PortInit
    /\ input = <<>> /\ line = <<>>

\* Differences and sums of unsigned indices.
Minus(x, y) == (x - y + UINT) % UINT
Plus(x, k) == (x + k) % UINT

\* What the buffer holds from index x up to index y.
Held(x, y) == [k \in 1..Minus(y, x) |-> cons.buf[Plus(x, k - 1) % INPUT_BUF_SIZE]]

-----------------------------------------------------------------------------
(* consoleread(). *)

\* th[p].n is what is left of the n bytes asked for, th[p].some whether any
\* was copied.
consoleread(p, n) ==
    /\ th[p].pc = "user" /\ ~th[p].killed
    /\ th' = [th EXCEPT ![p].pc = "consoleread", ![p].n = n, ![p].some = FALSE]
    /\ UNCHANGED <<hart, panic, consvars>>

\* Take k characters and return, or wait for more.
Take(p, k, l) ==
    /\ cons' = [cons EXCEPT !.r = Plus(@, k), !.lock = IF l = "read_sleep" THEN p ELSE None]
    /\ input' = SubSeq(input, k + 1, Len(input))
    /\ th' = [th EXCEPT ![p].pc = l, ![p].n = IF l = "user" THEN 0 ELSE @ - k,
                        ![p].some = l # "user" /\ (@ \/ k > 0)]

\* The loop under cons.lock: up to the end of a line, up to an end of file,
\* which is left for the next call if this one has copied something, up to n
\* characters; or all there are, and then sleep unless killed.  A failing
\* either_copyout() ends the call too, and its character is gone.
read_loop(p) ==
    LET there == Held(cons.r, cons.w)
        n == Min({Len(there), th[p].n})
        ends == {k \in 1..n : there[k] \in {"\n", "D"}}
        k == Min(ends) IN
    /\ th[p].pc = "consoleread" /\ cons.lock = None
    /\ \/ /\ ends # {}
          /\ Take(p, IF there[k] = "D" /\ (k > 1 \/ th[p].some) THEN k - 1 ELSE k, "user")
       \/ /\ ends = {} /\ n = th[p].n
          /\ Take(p, n, "user")
       \/ /\ ends = {} /\ n < th[p].n
          /\ Take(p, n, IF th[p].killed THEN "user" ELSE "read_sleep")
       \/ \E j \in 1..n : /\ \A i \in 1..j : there[i] # "D" /\ (i < j => there[i] # "\n")
                          /\ Take(p, j, "user")
    /\ UNCHANGED <<hart, panic, tx, port, line>>

\* sleep(&cons.r, &cons.lock).
read_sleep(p) ==
    /\ th[p].pc = "read_sleep"
    /\ cons' = [cons EXCEPT !.lock = None]
    /\ Goes(p, "read_wait")
    /\ UNCHANGED <<hart, panic, tx, port, input, line>>

-----------------------------------------------------------------------------
(* consolewrite() and uartwrite(). *)

\* WriteReg(THR, c): the transmit interrupt is withdrawn.
THR(c) == port' = [port EXCEPT !.tx = Append(@, c), !.thre = FALSE]

consolewrite(p, s) ==
    /\ th[p].pc = "user" /\ ~th[p].killed
    /\ th' = [th EXCEPT ![p].pc = "consolewrite", ![p].s = s]
    /\ UNCHANGED <<hart, panic, consvars>>

\* The next piece, unless there is none or either_copyin() fails.
write_piece(p) ==
    /\ th[p].pc = "consolewrite"
    /\ \/ th' = [th EXCEPT ![p].pc = "user", ![p].s = <<>>]
       \/ /\ th[p].s # <<>>
          /\ th' = [th EXCEPT ![p].pc = "uartwrite", ![p].n = Min({CHUNK, Len(th[p].s)})]
    /\ UNCHANGED <<hart, panic, consvars>>

\* uartwrite() under tx_lock: wait while the port is busy, else give it one
\* character; with more to send it then waits.
uartwrite(p) ==
    /\ th[p].pc = "uartwrite"
    /\ \/ tx /\ Goes(p, "tx_wait") /\ UNCHANGED <<port, tx>>
       \/ /\ ~tx /\ tx' = TRUE
          /\ THR(Head(th[p].s))
          /\ th' = [th EXCEPT ![p].pc = IF th[p].n = 1 THEN "consolewrite" ELSE "tx_wait",
                              ![p].n = @ - 1, ![p].s = Tail(@)]
    /\ UNCHANGED <<hart, panic, cons, input, line>>

-----------------------------------------------------------------------------
(* uartintr() and consoleintr(). *)

\* ReadReg(ISR) withdraws the transmit interrupt, if input does not come first.
uartintr(h) ==
    /\ hart[h].pc = "uartintr"
    /\ port' = [port EXCEPT !.thre = @ /\ port.rx # <<>>]
    /\ Turns(h, "uart_tx")
    /\ UNCHANGED <<th, panic, cons, tx, input, line>>

\* Mutant: tx_busy is cleared without wakeup(&tx_chan).
uart_tx_silent(h) ==
    /\ hart[h].pc = "uart_tx"
    /\ tx' = (tx /\ port.tx # <<>>)
    /\ Turns(h, "uartgetc")
    /\ UNCHANGED <<th, panic, cons, port, input, line>>

\* Under tx_lock: all is sent, so wake a writer.
uart_tx(h) ==
    /\ hart[h].pc = "uart_tx"
    /\ IF port.tx = <<>> THEN tx' = FALSE /\ th' = Wakeup(th, "tx_wait", "uartwrite")
       ELSE UNCHANGED <<tx, th>>
    /\ Turns(h, "uartgetc")
    /\ UNCHANGED <<panic, cons, port, input, line>>

uartgetc(h) ==
    /\ hart[h].pc = "uartgetc"
    /\ \/ port.rx = <<>> /\ Turns(h, "plic_complete") /\ UNCHANGED port
       \/ /\ port.rx # <<>>
          /\ hart' = [hart EXCEPT ![h].pc = "consoleintr", ![h].c = Head(port.rx)]
          /\ port' = [port EXCEPT !.rx = Tail(@)]
    /\ UNCHANGED <<th, panic, cons, tx, input, line>>

\* What a key does to the lines: an abstract view of the switch.
Full == Len(input) + Len(line) >= INPUT_BUF_SIZE
Commits(c) == c \in {"\n", "D"} \/ Len(input) + Len(line) + 1 = INPUT_BUF_SIZE
Edit(c) ==
    CASE c = "P" -> UNCHANGED <<input, line>>
      [] c = "U" -> line' = <<>> /\ UNCHANGED input
      [] c = "H" -> line' = (IF line = <<>> THEN line ELSE Front(line)) /\ UNCHANGED input
      [] OTHER -> IF Full THEN UNCHANGED <<input, line>>
                  ELSE IF Commits(c) THEN input' = input \o Append(line, c) /\ line' = <<>>
                  ELSE line' = Append(line, c) /\ UNCHANGED input

\* Mutant: room is judged by the line being edited alone.
Room_edit == Minus(cons.e, cons.w) < INPUT_BUF_SIZE

\* cons.e-cons.r < INPUT_BUF_SIZE.
Room == Minus(cons.e, cons.r) < INPUT_BUF_SIZE

\* consoleintr() takes the lock and decides: back to uartgetc() if the key does
\* nothing, else on to the loop of ^U, the echo of an erased character, or the
\* echo of a new one.
consoleintr(h) ==
    LET c == hart[h].c
        idle == \/ c = "P"
                \/ c = "H" /\ cons.e = cons.w
                \/ c \notin {"P", "H", "U"} /\ ~Room IN
    /\ hart[h].pc = "consoleintr" /\ cons.lock = None
    /\ Edit(c)
    /\ \/ idle /\ Turns(h, "uartgetc") /\ UNCHANGED cons
       \/ /\ ~idle
          /\ cons' = [cons EXCEPT !.lock = h, !.e = IF c = "H" THEN Minus(@, 1) ELSE @]
          /\ Turns(h, IF c = "U" THEN "kill_line" ELSE "echo")
    /\ UNCHANGED <<th, panic, tx, port>>

\* One turn of the loop of ^U.
kill_line(h) ==
    /\ hart[h].pc = "kill_line"
    /\ \/ /\ cons.e # cons.w /\ cons.buf[Minus(cons.e, 1) % INPUT_BUF_SIZE] # "\n"
          /\ cons' = [cons EXCEPT !.e = Minus(@, 1)]
          /\ Turns(h, "echo")
       \/ /\ cons.e = cons.w \/ cons.buf[Minus(cons.e, 1) % INPUT_BUF_SIZE] = "\n"
          /\ cons' = [cons EXCEPT !.lock = None]
          /\ Turns(h, "uartgetc")
    /\ UNCHANGED <<th, panic, tx, port, input, line>>

\* uartputc_sync(): spin until everything is sent.
uartputc_sync(c) == port.tx = <<>> /\ THR(c)

\* consputc() with the lock held.  An erased character is echoed as one
\* character here.
echo(h) ==
    LET c == hart[h].c IN
    /\ hart[h].pc = "echo"
    /\ uartputc_sync(c)
    /\ \/ c = "U" /\ Turns(h, "kill_line") /\ UNCHANGED cons
       \/ c = "H" /\ Turns(h, "uartgetc") /\ cons' = [cons EXCEPT !.lock = None]
       \/ c \notin {"U", "H"} /\ Turns(h, "store") /\ UNCHANGED cons
    /\ UNCHANGED <<th, panic, tx, input, line>>

\* Store the character; a complete line, or a full buffer, wakes the readers.
store(h) ==
    LET c == hart[h].c
        e == Plus(cons.e, 1)
        done == c \in {"\n", "D"} \/ Minus(e, cons.r) = INPUT_BUF_SIZE IN
    /\ hart[h].pc = "store"
    /\ cons' = [cons EXCEPT !.buf[cons.e % INPUT_BUF_SIZE] = c, !.e = e,
                            !.w = IF done THEN e ELSE @, !.lock = None]
    /\ th' = IF done THEN Wakeup(th, "read_wait", "consoleread") ELSE th
    /\ Turns(h, "uartgetc")
    /\ UNCHANGED <<panic, tx, port, input, line>>

-----------------------------------------------------------------------------
(* External: the port. *)

\* A key is pressed and there is room in the port's buffer.
receive(c) ==
    /\ Len(port.rx) < FIFO
    /\ port' = [port EXCEPT !.rx = Append(@, c)]
    /\ UNCHANGED <<plicvars, cons, tx, input, line>>

\* A character is sent.
send ==
    /\ port.tx # <<>>
    /\ port' = [port EXCEPT !.tx = Tail(@), !.thre = Len(port.tx) = 1]
    /\ UNCHANGED <<plicvars, cons, tx, input, line>>

ConsoleLine == IF port.rx # <<>> \/ port.thre THEN {UART0_IRQ} ELSE {}

-----------------------------------------------------------------------------

\* The buffer is what a terminal promises (consoleintr(), consoleread()): up to
\* cons.w it holds the complete lines nobody has read, then the line being
\* edited, as if every key took effect at once, also when the buffer is full,
\* when an end of file is put back, and when the indices wrap around.
ConsoleExact ==
    cons.lock \notin Hart =>
        /\ Minus(cons.e, cons.r) <= INPUT_BUF_SIZE
        /\ Held(cons.r, cons.w) = input
        /\ Held(cons.w, cons.e) = line

\* No lost wakeup in console.c and uart.c: a reader sleeps only while there is
\* no complete line; a writer sleeps only while the port has something to send
\* or will interrupt.
ConsoleSleepersWait ==
    \A p \in Proc :
        /\ th[p].pc = "read_wait" => cons.r = cons.w
        /\ th[p].pc = "tx_wait" =>
             tx /\ (port.tx # <<>> \/ port.thre \/ \E h \in Hart : hart[h].pc = "uart_tx")
=============================================================================
