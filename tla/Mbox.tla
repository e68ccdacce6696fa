-------------------------------- MODULE Mbox --------------------------------
(***************************************************************************)
(* Mailboxes (kernel/mbox.c): a fixed table of bounded ring buffers that   *)
(* processes find by key and use by index.                                 *)
(*                                                                         *)
(* Every stretch of code between acquire(&m->lock) and the release() or    *)
(* the sleep() that gives the lock up is one step: nothing else reads or   *)
(* writes the box meanwhile.  sleep() and wakeup() are those of proc.c:    *)
(* sleep() gives up the lock and sleeps in one step, wakeup() makes every  *)
(* sleeper on the channel runnable.                                        *)
(***************************************************************************)
EXTENDS Naturals, Sequences, FiniteSets

CONSTANTS Proc, Key, Msg,
          MAX_MBOX,     \* boxes
          MBOX_SIZE,    \* messages a box holds
          None,         \* key -1, and no message
          CreatedOnly   \* whether programs use only indices mbox_create() returned

ASSUME MboxAssumption ==
    /\ MAX_MBOX \in Nat \ {0} /\ MBOX_SIZE \in Nat \ {0}
    /\ None \notin Key \cup Msg
    /\ CreatedOnly \in BOOLEAN

VARIABLES box,    \* mbox.box
          th,     \* the kernel thread of each process
          killed  \* p->killed

vars == <<box, th, killed>>

Box == 0..MAX_MBOX-1
Idx == 0..MBOX_SIZE-1

\* "send" and "recv" are about to test m->count, "copyout" holds the message
\* that sys_mbox_recv() has taken and not yet delivered.
PC == {"user", "create", "send", "send_sleep", "recv", "recv_sleep",
       "copyout", "dead"}
Thread == [pc : PC, i : 0..MAX_MBOX, key : Key \cup {None}, msg : Msg \cup {None}]
At(l, i, key, m) == [pc |-> l, i |-> i, key |-> key, msg |-> m]
User == At("user", 0, None, None)

Mailbox == [key : Key \cup {None}, buf : [Idx -> Msg \cup {None}],
            head : Idx, tail : Idx, count : 0..MBOX_SIZE]

\* mboxinit(); the rest of the table is in the bss.
Init ==
    /\ box = [b \in Box |-> [key |-> None, buf |-> [j \in Idx |-> None],
                             head |-> 0, tail |-> 0, count |-> 0]]
    /\ th = [p \in Proc |-> User]
    /\ killed = [p \in Proc |-> FALSE]

\* wakeup(&mbox.box[b]), after thread p moves on to record r.
Wakeup(b, p, r) ==
    [q \in Proc |->
        IF q = p THEN r
        ELSE IF th[q].i # b THEN th[q]
        ELSE IF th[q].pc = "send_sleep" THEN [th[q] EXCEPT !.pc = "send"]
        ELSE IF th[q].pc = "recv_sleep" THEN [th[q] EXCEPT !.pc = "recv"]
        ELSE th[q]]

-----------------------------------------------------------------------------

\* A program enters mbox_create(key).
Create(p, key) ==
    /\ th[p].pc = "user" /\ ~killed[p]
    /\ th' = [th EXCEPT ![p] = At("create", 0, key, None)]
    /\ UNCHANGED <<box, killed>>

\* Mutant: the scan takes the next empty box without looking for the key.
mbox_create_twice(p) ==
    LET i == th[p].i  key == th[p].key IN
    /\ th[p].pc = "create"
    /\ \/ /\ i < MAX_MBOX /\ box[i].key = None
          /\ box' = [box EXCEPT ![i].key = key, ![i].head = 0,
                                ![i].tail = 0, ![i].count = 0]
          /\ th' = [th EXCEPT ![p] = User]
       \/ /\ i < MAX_MBOX /\ box[i].key # None
          /\ th' = [th EXCEPT ![p].i = i + 1]
          /\ UNCHANGED box
       \/ /\ i = MAX_MBOX
          /\ th' = [th EXCEPT ![p] = User]
          /\ UNCHANGED box
    /\ UNCHANGED killed

\* mbox_create(): one box of the scan, under its lock: it has the key, it is
\* free and is claimed, or the scan goes on; -1 after the last.
mbox_create(p) ==
    LET i == th[p].i  key == th[p].key IN
    /\ th[p].pc = "create"
    /\ \/ /\ i < MAX_MBOX /\ box[i].key = key
          /\ th' = [th EXCEPT ![p] = User]
          /\ UNCHANGED box
       \/ /\ i < MAX_MBOX /\ box[i].key = None
          /\ box' = [box EXCEPT ![i].key = key, ![i].head = 0,
                                ![i].tail = 0, ![i].count = 0]
          /\ th' = [th EXCEPT ![p] = User]
       \/ /\ i < MAX_MBOX /\ box[i].key \notin {key, None}
          /\ th' = [th EXCEPT ![p].i = i + 1]
          /\ UNCHANGED box
       \/ /\ i = MAX_MBOX
          /\ th' = [th EXCEPT ![p] = User]
          /\ UNCHANGED box
    /\ UNCHANGED killed

\* The indices that programs pass; one out of range returns -1 at once.
Usable == IF CreatedOnly THEN {b \in Box : box[b].key # None} ELSE Box

\* A program enters mbox_send(b, m) or mbox_recv(b, ..).
Call(p, pc, b, m) ==
    /\ th[p].pc = "user" /\ ~killed[p] /\ b \in Usable
    /\ th' = [th EXCEPT ![p] = At(pc, b, None, m)]
    /\ UNCHANGED <<box, killed>>

\* Mutant: the wakeup() is left out.
mbox_send_silent(p) ==
    LET b == th[p].i IN
    /\ th[p].pc = "send"
    /\ \/ /\ box[b].count = MBOX_SIZE
          /\ th' = [th EXCEPT ![p].pc = "send_sleep"]
          /\ UNCHANGED box
       \/ /\ box[b].count # MBOX_SIZE
          /\ box' = [box EXCEPT ![b].buf[box[b].tail] = th[p].msg,
                                ![b].tail = (@ + 1) % MBOX_SIZE,
                                ![b].count = @ + 1]
          /\ th' = [th EXCEPT ![p] = User]
    /\ UNCHANGED killed

\* mbox_send(): sleep while the box is full, else append and wake everybody.
mbox_send(p) ==
    LET b == th[p].i IN
    /\ th[p].pc = "send"
    /\ \/ /\ box[b].count = MBOX_SIZE
          /\ th' = [th EXCEPT ![p].pc = "send_sleep"]
          /\ UNCHANGED box
       \/ /\ box[b].count # MBOX_SIZE
          /\ box' = [box EXCEPT ![b].buf[box[b].tail] = th[p].msg,
                                ![b].tail = (@ + 1) % MBOX_SIZE,
                                ![b].count = @ + 1]
          /\ th' = Wakeup(b, p, User)
    /\ UNCHANGED killed

\* Mutant: the wakeup() is left out.
mbox_recv_silent(p) ==
    LET b == th[p].i IN
    /\ th[p].pc = "recv"
    /\ \/ /\ box[b].count = 0
          /\ th' = [th EXCEPT ![p].pc = "recv_sleep"]
          /\ UNCHANGED box
       \/ /\ box[b].count # 0
          /\ box' = [box EXCEPT ![b].head = (@ + 1) % MBOX_SIZE,
                                ![b].count = @ - 1]
          /\ th' = [th EXCEPT ![p] = At("copyout", 0, None, box[b].buf[box[b].head])]
    /\ UNCHANGED killed

\* Mutant: the head moves on before the message is read.
mbox_recv_next(p) ==
    LET b == th[p].i
        h == (box[b].head + 1) % MBOX_SIZE IN
    /\ th[p].pc = "recv" /\ box[b].count # 0
    /\ box' = [box EXCEPT ![b].head = h, ![b].count = @ - 1]
    /\ th' = Wakeup(b, p, At("copyout", 0, None, box[b].buf[h]))
    /\ UNCHANGED killed

\* Mutant: a killed receiver goes around its loop without looking at the box.
mbox_recv_spin(p) ==
    LET b == th[p].i IN
    /\ th[p].pc = "recv" /\ ~killed[p]
    /\ \/ /\ box[b].count = 0
          /\ th' = [th EXCEPT ![p].pc = "recv_sleep"]
          /\ UNCHANGED box
       \/ /\ box[b].count # 0
          /\ box' = [box EXCEPT ![b].head = (@ + 1) % MBOX_SIZE,
                                ![b].count = @ - 1]
          /\ th' = Wakeup(b, p, At("copyout", 0, None, box[b].buf[box[b].head]))
    /\ UNCHANGED killed

\* mbox_recv(): sleep while the box is empty, else take the oldest message
\* and wake everybody.
mbox_recv(p) ==
    LET b == th[p].i IN
    /\ th[p].pc = "recv"
    /\ \/ /\ box[b].count = 0
          /\ th' = [th EXCEPT ![p].pc = "recv_sleep"]
          /\ UNCHANGED box
       \/ /\ box[b].count # 0
          /\ box' = [box EXCEPT ![b].head = (@ + 1) % MBOX_SIZE,
                                ![b].count = @ - 1]
          /\ th' = Wakeup(b, p, At("copyout", 0, None, box[b].buf[box[b].head]))
    /\ UNCHANGED killed

\* sys_mbox_recv(): copyout(), and back to the program.
sys_mbox_recv(p) ==
    /\ th[p].pc = "copyout"
    /\ th' = [th EXCEPT ![p] = User]
    /\ UNCHANGED <<box, killed>>

\* kkill(): mark the victim and make it runnable if it sleeps.
kkill(p) ==
    /\ th[p].pc # "dead" /\ ~killed[p]
    /\ killed' = [killed EXCEPT ![p] = TRUE]
    /\ th' = [th EXCEPT ![p].pc = IF @ = "send_sleep" THEN "send"
                                  ELSE IF @ = "recv_sleep" THEN "recv" ELSE @]
    /\ UNCHANGED box

\* usertrap() on the way back to user space: if(killed(p)) kexit(-1).
kexit(p) ==
    /\ th[p].pc = "user" /\ killed[p]
    /\ th' = [th EXCEPT ![p].pc = "dead"]
    /\ UNCHANGED <<box, killed>>

\* The steps a thread takes on its own once it is in the kernel.
Kernel(p) == mbox_create(p) \/ mbox_send(p) \/ mbox_recv(p)
             \/ sys_mbox_recv(p) \/ kexit(p)

Next == \E p \in Proc :
    \/ \E key \in Key : Create(p, key)
    \/ \E b \in Box, m \in Msg : Call(p, "send", b, m)
    \/ \E b \in Box : Call(p, "recv", b, None)
    \/ kkill(p) \/ Kernel(p)

Spec == Init /\ [][Next]_vars

-----------------------------------------------------------------------------
(* Safety. *)

\* Every field holds a value of its C type; head and tail index buf.
TypeOK ==
    /\ box \in [Box -> Mailbox]
    /\ th \in [Proc -> Thread]
    /\ killed \in [Proc -> BOOLEAN]

\* Two boxes never get the same key, however the scans of mbox_create() on
\* several CPUs interleave, each holding one box lock at a time.
KeysUnique == \A b, c \in Box : box[b].key # None /\ box[b].key = box[c].key => b = c

\* The index mbox_create() returned for a key stays the index of that key.
KeysPermanent == [][\A b \in Box : box[b].key # None => box'[b].key = box[b].key]_vars

\* A sleeping receiver has nothing to receive: no wakeup() is lost although
\* senders and receivers share one channel.
ReceiversWait == \A p \in Proc : th[p].pc = "recv_sleep" => box[th[p].i].count = 0

\* A sleeping sender has no room.  This needs programs that use only boxes
\* that mbox_create() returned: claiming a box empties it without a wakeup().
SendersWait == \A p \in Proc : th[p].pc = "send_sleep" => box[th[p].i].count = MBOX_SIZE

\* The ring arithmetic of mbox_send() and mbox_recv() implements the queue,
\* and the value a receiver gets is the oldest message.
Queue == INSTANCE MessageQueue WITH
    Size <- MBOX_SIZE,
    queue <- [b \in Box |-> [j \in 1..box[b].count |->
                box[b].buf[(box[b].head + j - 1) % MBOX_SIZE]]],
    got <- [p \in Proc |-> IF th[p].pc = "copyout" THEN th[p].msg ELSE None]
QueueSpec == Queue!Spec

-----------------------------------------------------------------------------
(* Liveness: the scheduler keeps running every thread that is not asleep.    *)

FairSpec == Spec /\ \A p \in Proc : WF_vars(Kernel(p))

\* While a box stays non-empty, no receiver on it is stuck, not even when
\* each wakeup() makes all the senders run first.
ReceiversServed == \A p \in Proc, b \in Box :
    (th[p].pc \in {"recv", "recv_sleep"} /\ th[p].i = b /\ box[b].count > 0)
        ~> (th[p].pc = "user" \/ box[b].count = 0)
=============================================================================
