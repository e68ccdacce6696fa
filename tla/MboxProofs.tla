----------------------------- MODULE MboxProofs -----------------------------
(***************************************************************************)
(* Proofs about the mailboxes, for any number of processes, keys, boxes    *)
(* and messages per box.                                                   *)
(***************************************************************************)
EXTENDS Mbox, SequenceTheorems, TLAPS

USE MboxAssumption

Caller == {"send", "send_sleep", "recv", "recv_sleep"}

\* The index of a call that passed the range check of mbox_send() and
\* mbox_recv() is a box, claimed if programs use only created boxes.
CallersInv == \A p \in Proc :
    /\ th[p].pc \in Caller =>
         th[p].i \in Box /\ (CreatedOnly => box[th[p].i].key # None)
    /\ th[p].pc = "create" => th[p].key \in Key

\* Boxes are claimed in the order of the table.
PrefixInv == \A b, c \in Box : b < c /\ box[b].key = None => box[c].key = None

\* What a scan has passed is claimed, by other keys.
ScanInv == \A p \in Proc : th[p].pc = "create" =>
    \A b \in Box : b < th[p].i => box[b].key \notin {None, th[p].key}

\* Sleeping senders, for programs that use only created boxes.
SendersInv == CreatedOnly => SendersWait

IInv == /\ TypeOK /\ CallersInv /\ PrefixInv /\ ScanInv
        /\ KeysUnique /\ ReceiversWait /\ SendersInv

\* mbox_send() and mbox_recv() advance head and tail within the ring.
LEMMA RingStep == \A j \in Idx : (j + 1) % MBOX_SIZE \in Idx
  BY DEF Idx

\* A step that leaves the boxes alone, and moves thread p to a state from
\* which neither a scan nor a wait on a box goes on, keeps the invariant.
LEMMA Leaves ==
  ASSUME IInv, NEW p \in Proc, UNCHANGED box, killed' \in [Proc -> BOOLEAN],
         NEW r \in Thread, th' = [th EXCEPT ![p] = r],
         r.pc \notin Caller \cup {"create"}
  PROVE  IInv'
<1> USE DEF IInv
<1>1. TypeOK'
  BY Zenon DEF TypeOK
<1>2. \A q \in Proc : q # p => th'[q] = th[q]
  BY Zenon DEF TypeOK
<1>3. th'[p] = r
  BY Zenon DEF TypeOK
<1>4. CallersInv' /\ ScanInv'
  BY <1>2, <1>3 DEF CallersInv, ScanInv, Caller
<1>5. ReceiversWait'
  BY <1>2, <1>3 DEF ReceiversWait, Caller
<1>6. SendersInv'
  BY <1>2, <1>3, Zenon DEF SendersInv, SendersWait, Caller
<1>7. KeysUnique' /\ PrefixInv'
  BY Zenon DEF KeysUnique, PrefixInv
<1> QED BY <1>1, <1>4, <1>5, <1>6, <1>7, Zenon

\* The counts and indices that an operation on a box writes are in range.
LEMMA BoxStep ==
  ASSUME NEW m \in Mailbox
  PROVE  /\ m.count # MBOX_SIZE => m.count + 1 \in 0..MBOX_SIZE
         /\ m.count # 0 => m.count - 1 \in 0..MBOX_SIZE
         /\ 0 \in Idx /\ 0 \in 0..MBOX_SIZE
<1>1. m.count \in 0..MBOX_SIZE
  BY Zenon DEF Mailbox
<1>2. MBOX_SIZE \in Nat \ {0}
  BY MboxAssumption, Zenon
<1>3. 0 \in Idx /\ 0 \in 0..MBOX_SIZE
  BY <1>2 DEF Idx
<1> QED BY <1>1, <1>2, <1>3

\* What mbox_send() leaves in a box is a box with the same key.
LEMMA Filled ==
  ASSUME NEW m \in Mailbox, NEW n \in 0..MBOX_SIZE, NEW t \in Idx,
         NEW f \in [Idx -> Msg \cup {None}],
         NEW x, x = [key |-> m.key, head |-> m.head, count |-> n, buf |-> f, tail |-> t]
  PROVE  x \in Mailbox /\ x.key = m.key
  BY Zenon DEF Mailbox

\* wakeup() leaves nobody asleep on the channel and changes nothing else.
LEMMA WakeupEffect ==
  ASSUME TypeOK, NEW b \in Box, NEW p \in Proc, NEW r \in Thread, th' = Wakeup(b, p, r)
  PROVE  /\ th' \in [Proc -> Thread]
         /\ th'[p] = r
         /\ \A q \in Proc \ {p} :
              /\ th'[q].i = th[q].i /\ th'[q].key = th[q].key
              /\ th'[q].pc \in Caller <=> th[q].pc \in Caller
              /\ th'[q].pc = "create" <=> th[q].pc = "create"
              /\ th'[q].pc \in {"send_sleep", "recv_sleep"} =>
                   th[q].i # b /\ th'[q] = th[q]
<1>1. \A q \in Proc : th[q] \in Thread
  BY Zenon DEF TypeOK
<1>2. \A q \in Proc \ {p} :
         \/ th'[q] = th[q] /\ (th[q].i # b \/ th[q].pc \notin {"send_sleep", "recv_sleep"})
         \/ th'[q] = [th[q] EXCEPT !.pc = "send"] /\ th[q].pc = "send_sleep"
         \/ th'[q] = [th[q] EXCEPT !.pc = "recv"] /\ th[q].pc = "recv_sleep"
  BY Zenon DEF Wakeup
<1>3. th'[p] = r
  BY Zenon DEF Wakeup
<1>4. ASSUME NEW q \in Proc \ {p}
      PROVE  /\ th'[q] \in Thread
             /\ th'[q].i = th[q].i /\ th'[q].key = th[q].key
             /\ th'[q].pc \in Caller <=> th[q].pc \in Caller
             /\ th'[q].pc = "create" <=> th[q].pc = "create"
             /\ th'[q].pc \in {"send_sleep", "recv_sleep"} =>
                   th[q].i # b /\ th'[q] = th[q]
  <2>1. th[q] \in Thread /\ "send" \in PC /\ "recv" \in PC
    BY <1>1, Zenon DEF PC
  <2>2. CASE th'[q] = th[q] /\ (th[q].i # b \/ th[q].pc \notin {"send_sleep", "recv_sleep"})
    BY <2>1, <2>2, Zenon
  <2>3. CASE th'[q] = [th[q] EXCEPT !.pc = "send"] /\ th[q].pc = "send_sleep"
    BY <2>1, <2>3 DEF Thread, Caller
  <2>4. CASE th'[q] = [th[q] EXCEPT !.pc = "recv"] /\ th[q].pc = "recv_sleep"
    BY <2>1, <2>4 DEF Thread, Caller
  <2> QED BY <1>2, <2>2, <2>3, <2>4, Zenon
<1>5. \A q \in Proc : th'[q] \in Thread
  BY <1>3, <1>4, Zenon
<1>6. th' \in [Proc -> Thread]
  BY <1>5, Zenon DEF Wakeup
<1> QED BY <1>3, <1>4, <1>6, Zenon

\* mbox_send() or mbox_recv() changed box b, not its key, woke the sleepers on
\* it, and thread p is done with it.
LEMMA Woken ==
  ASSUME IInv, NEW p \in Proc, NEW b \in Box, NEW r \in Thread,
         th' = Wakeup(b, p, r), r.pc \notin Caller \cup {"create"},
         box' \in [Box -> Mailbox], killed' = killed,
         \A c \in Box : box'[c].key = box[c].key,
         \A c \in Box : c # b => box'[c] = box[c]
  PROVE  IInv'
<1> USE DEF IInv
<1>1. /\ th' \in [Proc -> Thread]
      /\ th'[p] = r
      /\ \A q \in Proc \ {p} :
           /\ th'[q].i = th[q].i /\ th'[q].key = th[q].key
           /\ th'[q].pc \in Caller <=> th[q].pc \in Caller
           /\ th'[q].pc = "create" <=> th[q].pc = "create"
           /\ th'[q].pc \in {"send_sleep", "recv_sleep"} =>
                th[q].i # b /\ th'[q] = th[q]
  BY WakeupEffect, Zenon
<1>2. TypeOK'
  BY <1>1, Zenon DEF TypeOK
<1>3. CallersInv' /\ ScanInv'
  BY <1>1 DEF CallersInv, ScanInv
<1>4. ASSUME NEW q \in Proc, th'[q].pc \in {"send_sleep", "recv_sleep"}
      PROVE  th'[q] = th[q] /\ box'[th'[q].i] = box[th[q].i]
  <2>1. q # p
    BY <1>1, <1>4 DEF Caller
  <2>2. th'[q] = th[q] /\ th[q].i # b
    BY <1>1, <1>4, <2>1, Zenon
  <2>3. th[q].i \in Box
    BY <1>4, <2>2, Zenon DEF CallersInv, Caller
  <2> QED BY <2>2, <2>3, Zenon
<1>5. ReceiversWait' /\ SendersInv'
  BY <1>4 DEF ReceiversWait, SendersInv, SendersWait
<1>6. KeysUnique' /\ PrefixInv'
  BY DEF KeysUnique, PrefixInv
<1> QED BY <1>2, <1>3, <1>5, <1>6, Zenon

\* Each step of the mailbox code keeps the strengthened invariant.
LEMMA Inductive == IInv /\ [Next]_vars => IInv'
<1> SUFFICES ASSUME IInv, [Next]_vars PROVE IInv'
  OBVIOUS
<1> USE DEF IInv
<1>u. User \in Thread /\ User.pc = "user" /\ User.i = 0
  BY DEF User, At, Thread, PC
<1>1. ASSUME NEW p \in Proc, NEW key \in Key, Create(p, key) PROVE IInv'
  <2> DEFINE r == At("create", 0, key, None)
  <2>0. r \in Thread /\ r.pc = "create" /\ r.i = 0 /\ r.key = key
    BY DEF Thread, PC, At, User
  <2>s. th' = [th EXCEPT ![p] = r] /\ UNCHANGED <<box, killed>>
    BY <1>1, Zenon DEF Create
  <2> HIDE DEF r
  <2>1. TypeOK' /\ th'[p].pc = "create" /\ th'[p].i = 0 /\ th'[p].key = key
    BY <2>0, <2>s, Zenon DEF TypeOK
  <2>2. \A q \in Proc : q # p => th'[q] = th[q]
    BY <2>s, Zenon DEF TypeOK
  <2>3. UNCHANGED box
    BY <1>1, Zenon DEF Create
  <2>4. CallersInv'
    BY <2>1, <2>2, <2>3, Zenon DEF CallersInv, Caller
  <2>5. ScanInv'
    BY <2>1, <2>2, <2>3 DEF ScanInv, Box
  <2>6. ReceiversWait' /\ SendersInv'
    BY <2>1, <2>2, <2>3 DEF ReceiversWait, SendersInv, SendersWait
  <2>7. KeysUnique' /\ PrefixInv'
    BY <2>3, Zenon DEF KeysUnique, PrefixInv
  <2> QED BY <2>1, <2>4, <2>5, <2>6, <2>7, Zenon
<1>2. ASSUME NEW p \in Proc, NEW b \in Box, NEW m \in Msg \cup {None},
             NEW l \in {"send", "recv"}, Call(p, l, b, m)
      PROVE IInv'
  <2> DEFINE r == At(l, b, None, m)
  <2>0. r \in Thread /\ r.pc = l /\ r.i = b
    BY DEF Thread, PC, At, User, Box
  <2>s. th' = [th EXCEPT ![p] = r] /\ UNCHANGED <<box, killed>>
    BY <1>2, Zenon DEF Call
  <2> HIDE DEF r
  <2>1. TypeOK' /\ th'[p].pc = l /\ th'[p].i = b
    BY <2>0, <2>s, Zenon DEF TypeOK
  <2>2. \A q \in Proc : q # p => th'[q] = th[q]
    BY <2>s, Zenon DEF TypeOK
  <2>3. UNCHANGED box
    BY <1>2, Zenon DEF Call
  <2>4. CallersInv'
    BY <1>2, <2>1, <2>2, <2>3 DEF CallersInv, Caller, Call, Usable
  <2>5. ScanInv'
    BY <2>1, <2>2, <2>3, Zenon DEF ScanInv
  <2>6. ReceiversWait' /\ SendersInv'
    BY <2>1, <2>2, <2>3, Zenon DEF ReceiversWait, SendersInv, SendersWait
  <2>7. KeysUnique' /\ PrefixInv'
    BY <2>3, Zenon DEF KeysUnique, PrefixInv
  <2> QED BY <2>1, <2>4, <2>5, <2>6, <2>7, Zenon
<1>3. ASSUME NEW p \in Proc, mbox_create(p) PROVE IInv'
  <2> DEFINE i == th[p].i  key == th[p].key
  <2>a. th[p].pc = "create" /\ i \in 0..MAX_MBOX /\ key \in Key
        /\ killed' = killed /\ killed \in [Proc -> BOOLEAN]
    BY <1>3, Zenon DEF mbox_create, CallersInv, TypeOK, Thread
  <2>1. CASE th' = [th EXCEPT ![p] = User] /\ UNCHANGED box
    BY <1>u, <2>1, <2>a, Leaves, Zenon DEF Caller
  <2>2. CASE /\ i < MAX_MBOX /\ box[i].key = None
             /\ box' = [box EXCEPT ![i].key = key, ![i].head = 0,
                                   ![i].tail = 0, ![i].count = 0]
             /\ th' = [th EXCEPT ![p] = User]
    <3>1. i \in Box
      BY <2>2, <2>a DEF Box
    <3>2. box[i] \in Mailbox /\ 0 \in Idx /\ 0 \in 0..MBOX_SIZE
      <4>1. box[i] \in Mailbox
        BY <3>1, Zenon DEF TypeOK
      <4> QED BY <4>1, BoxStep, Zenon
    <3>3. box'[i] = [box[i] EXCEPT !.key = key, !.head = 0, !.tail = 0, !.count = 0]
      BY <2>2, <3>1, Zenon DEF TypeOK
    <3>4. \A b \in Box : b # i => box'[b] = box[b]
      BY <2>2, <3>1, Zenon DEF TypeOK
    <3>5. box'[i] \in Mailbox /\ box'[i].key = key /\ box'[i].count = 0
      BY <3>2, <3>3, <2>a, ZenonT(40) DEF Mailbox
    <3>6. TypeOK'
      BY <1>u, <2>2, <2>a, <3>1, <3>5, Zenon DEF TypeOK
    <3>7. \A b \in Box : b < i => box[b].key \notin {None, key}
      BY <2>a, Zenon DEF ScanInv
    <3>8. \A b \in Box : i < b => box[b].key = None
      BY <3>1, <2>2, Zenon DEF PrefixInv
    <3>9. \A b \in Box : b = i \/ b < i \/ i < b
      BY <3>1 DEF Box
    <3>10. \A b \in Box : box[b].key # key
      BY <3>1, <3>7, <3>8, <3>9, <2>2, <2>a, Zenon
    <3>11. KeysUnique'
      BY <3>4, <3>5, <3>10 DEF KeysUnique
    <3>12. PrefixInv'
      <4> SUFFICES ASSUME NEW b \in Box, NEW c \in Box, b < c, box'[b].key = None
                   PROVE  box'[c].key = None
        BY Zenon DEF PrefixInv
      <4>1. b # i
        BY <3>5, <2>a, Zenon
      <4>2. box[b].key = None
        BY <4>1, <3>4, Zenon
      <4>3. i < b
        BY <4>1, <4>2, <3>7, <3>9, Zenon
      <4> QED BY <4>2, <4>3, <3>1, <3>4 DEF PrefixInv, Box
    <3>13. \A q \in Proc : q # p => th'[q] = th[q]
      BY <2>2, Zenon DEF TypeOK
    <3>14. th'[p].pc = "user"
      BY <2>2, <1>u, Zenon DEF TypeOK
    <3>15. \A q \in Proc \ {p} : th[q].pc = "create" => ~(i < th[q].i)
      BY <3>1, <2>2, Zenon DEF ScanInv
    <3>16. ScanInv'
      BY <3>4, <3>13, <3>14, <3>15 DEF ScanInv
    <3>17. CallersInv'
      BY <3>4, <3>5, <3>13, <3>14, <2>a DEF CallersInv, Caller
    <3>18. ReceiversWait'
      BY <3>1, <3>4, <3>5, <3>13, <3>14 DEF ReceiversWait, CallersInv, Caller
    <3>19. SendersInv'
      <4> SUFFICES ASSUME CreatedOnly, NEW q \in Proc, th'[q].pc = "send_sleep"
                   PROVE  box'[th'[q].i].count = MBOX_SIZE
        BY Zenon DEF SendersInv, SendersWait
      <4>1. th'[q] = th[q]
        BY <3>13, <3>14, Zenon
      <4>2. th[q].i \in Box /\ box[th[q].i].key # None
        BY <4>1, Zenon DEF CallersInv, Caller
      <4> QED BY <4>1, <4>2, <3>4, <2>2, ZenonT(40) DEF SendersInv, SendersWait
    <3> QED BY <3>6, <3>11, <3>12, <3>16, <3>17, <3>18, <3>19, Zenon
  <2>3. CASE /\ i < MAX_MBOX /\ box[i].key \notin {key, None}
             /\ th' = [th EXCEPT ![p].i = i + 1] /\ UNCHANGED box
    <3>1. /\ TypeOK' /\ th'[p].i = i + 1 /\ th'[p].pc = "create"
          /\ th'[p].key = key
      BY <2>3, <2>a DEF TypeOK, Thread
    <3>2. \A q \in Proc : q # p => th'[q] = th[q]
      BY <2>3, Zenon DEF TypeOK
    <3>3. \A b \in Box : b < i + 1 => b < i \/ b = i
      BY <2>a DEF Box
    <3>4. ScanInv'
      BY <2>3, <2>a, <3>1, <3>2, <3>3 DEF ScanInv
    <3>5. CallersInv'
      BY <2>3, <2>a, <3>1, <3>2 DEF CallersInv, Caller
    <3>6. ReceiversWait' /\ SendersInv'
      BY <2>3, <3>1, <3>2 DEF ReceiversWait, SendersInv, SendersWait
    <3>7. KeysUnique' /\ PrefixInv'
      BY <2>3, Zenon DEF KeysUnique, PrefixInv
    <3> QED BY <3>1, <3>4, <3>5, <3>6, <3>7, Zenon
  <2> QED BY <1>3, <2>1, <2>2, <2>3, Zenon DEF mbox_create
<1>4. ASSUME NEW p \in Proc, mbox_send(p) PROVE IInv'
  <2> DEFINE b == th[p].i
  <2>a. th[p].pc = "send" /\ b \in Box /\ killed' = killed /\ th[p] \in Thread
        /\ box[b] \in Mailbox
    BY <1>4, Zenon DEF mbox_send, CallersInv, Caller, TypeOK
  <2>1. CASE /\ box[b].count = MBOX_SIZE
             /\ th' = [th EXCEPT ![p].pc = "send_sleep"] /\ UNCHANGED box
    <3>1. \A q \in Proc : q # p => th'[q] = th[q]
      BY <2>1, Zenon DEF TypeOK
    <3>2. th'[p] \in Thread /\ th'[p].pc = "send_sleep" /\ th'[p].i = b
      BY <2>1, <2>a, Zenon DEF TypeOK, Thread, PC
    <3>3. TypeOK'
      BY <2>1, <2>a, <3>2, Zenon DEF TypeOK
    <3>4. CallersInv' /\ ScanInv'
      BY <2>1, <2>a, <3>1, <3>2 DEF CallersInv, ScanInv, Caller
    <3>5. ReceiversWait' /\ SendersInv'
      BY <2>1, <3>1, <3>2 DEF ReceiversWait, SendersInv, SendersWait
    <3>6. KeysUnique' /\ PrefixInv'
      BY <2>1, Zenon DEF KeysUnique, PrefixInv
    <3> QED BY <3>3, <3>4, <3>5, <3>6, Zenon
  <2>2. CASE /\ box[b].count # MBOX_SIZE
             /\ box' = [box EXCEPT ![b].buf[box[b].tail] = th[p].msg,
                                   ![b].tail = (@ + 1) % MBOX_SIZE,
                                   ![b].count = @ + 1]
             /\ th' = Wakeup(b, p, User)
    <3>1. box'[b] = [box[b] EXCEPT !.buf[box[b].tail] = th[p].msg,
                                   !.tail = (@ + 1) % MBOX_SIZE,
                                   !.count = @ + 1]
      BY <2>2, <2>a, Zenon DEF TypeOK
    <3>2. \A c \in Box : c # b => box'[c] = box[c]
      BY <2>2, <2>a, Zenon DEF TypeOK
    <3>3. box[b].count + 1 \in 0..MBOX_SIZE
      <4>1. box[b].count # MBOX_SIZE
        BY <2>2, Zenon
      <4> QED BY <4>1, <2>a, BoxStep, Zenon
    <3>t. (box[b].tail + 1) % MBOX_SIZE \in Idx
      BY <2>a, RingStep, Zenon DEF Mailbox
    <3>b. [box[b].buf EXCEPT ![box[b].tail] = th[p].msg] \in [Idx -> Msg \cup {None}]
      BY <2>a, Zenon DEF Mailbox, Thread
    <3>c. box'[b] = [key |-> box[b].key, head |-> box[b].head, count |-> box[b].count + 1,
                     buf |-> [box[b].buf EXCEPT ![box[b].tail] = th[p].msg],
                     tail |-> (box[b].tail + 1) % MBOX_SIZE]
      BY <3>1, <2>a, ZenonT(40) DEF Mailbox
    <3>4. box'[b] \in Mailbox /\ box'[b].key = box[b].key
      <4>1. box[b] \in Mailbox
        BY <2>a, Zenon
      <4> HIDE DEF b
      <4> QED BY ONLY <3>c, <3>3, <3>t, <3>b, <4>1, Filled
    <3>5. box' \in [Box -> Mailbox]
      BY <2>2, <2>a, <3>4, Zenon DEF TypeOK
    <3>6. \A c \in Box : box'[c].key = box[c].key
      BY <3>2, <3>4, Zenon
    <3> QED BY <1>u, <2>2, <2>a, <3>2, <3>5, <3>6, Woken, Zenon DEF Caller
  <2> QED BY <1>4, <2>1, <2>2, Zenon DEF mbox_send
<1>5. ASSUME NEW p \in Proc, mbox_recv(p) PROVE IInv'
  <2> DEFINE b == th[p].i
             r == At("copyout", 0, None, box[b].buf[box[b].head])
  <2>a. th[p].pc = "recv" /\ b \in Box /\ killed' = killed /\ th[p] \in Thread
        /\ box[b] \in Mailbox
    BY <1>5, Zenon DEF mbox_recv, CallersInv, Caller, TypeOK
  <2>1. CASE /\ box[b].count = 0
             /\ th' = [th EXCEPT ![p].pc = "recv_sleep"] /\ UNCHANGED box
    <3>1. \A q \in Proc : q # p => th'[q] = th[q]
      BY <2>1, Zenon DEF TypeOK
    <3>2. th'[p] \in Thread /\ th'[p].pc = "recv_sleep" /\ th'[p].i = b
      BY <2>1, <2>a, Zenon DEF TypeOK, Thread, PC
    <3>3. TypeOK'
      BY <2>1, <2>a, <3>2, Zenon DEF TypeOK
    <3>4. CallersInv' /\ ScanInv'
      BY <2>1, <2>a, <3>1, <3>2 DEF CallersInv, ScanInv, Caller
    <3>5. ReceiversWait' /\ SendersInv'
      BY <2>1, <3>1, <3>2 DEF ReceiversWait, SendersInv, SendersWait
    <3>6. KeysUnique' /\ PrefixInv'
      BY <2>1, Zenon DEF KeysUnique, PrefixInv
    <3> QED BY <3>3, <3>4, <3>5, <3>6, Zenon
  <2>2. CASE /\ box[b].count # 0
             /\ box' = [box EXCEPT ![b].head = (@ + 1) % MBOX_SIZE,
                                   ![b].count = @ - 1]
             /\ th' = Wakeup(b, p, r)
    <3>1. box'[b] = [box[b] EXCEPT !.head = (@ + 1) % MBOX_SIZE, !.count = @ - 1]
      BY <2>2, <2>a, Zenon DEF TypeOK
    <3>2. \A c \in Box : c # b => box'[c] = box[c]
      BY <2>2, <2>a, Zenon DEF TypeOK
    <3>3. box[b].count - 1 \in 0..MBOX_SIZE
      <4>1. box[b].count # 0
        BY <2>2, Zenon
      <4> QED BY <4>1, <2>a, BoxStep, Zenon
    <3>h. (box[b].head + 1) % MBOX_SIZE \in Idx
      BY <2>a, RingStep, Zenon DEF Mailbox
    <3>4. box'[b] \in Mailbox /\ box'[b].key = box[b].key
      BY <3>1, <3>3, <3>h, <2>a, ZenonT(40) DEF Mailbox
    <3>5. box' \in [Box -> Mailbox]
      BY <2>2, <2>a, <3>4, Zenon DEF TypeOK
    <3>6. \A c \in Box : box'[c].key = box[c].key
      BY <3>2, <3>4, Zenon
    <3>7. r \in Thread /\ r.pc = "copyout"
      BY <2>a DEF Thread, PC, At, User, Mailbox
    <3> HIDE DEF r
    <3> QED BY <2>2, <2>a, <3>2, <3>5, <3>6, <3>7, Woken, ZenonT(40) DEF Caller
  <2> QED BY <1>5, <2>1, <2>2, Zenon DEF mbox_recv
<1>6. ASSUME NEW p \in Proc, sys_mbox_recv(p) PROVE IInv'
  BY <1>6, <1>u, Leaves, Zenon DEF sys_mbox_recv, Caller, TypeOK
<1>7. ASSUME NEW p \in Proc, kexit(p) PROVE IInv'
  <2> DEFINE r == [th[p] EXCEPT !.pc = "dead"]
  <2>1. r \in Thread /\ r.pc = "dead"
    BY DEF TypeOK, Thread, PC
  <2>2. th' = [th EXCEPT ![p] = r] /\ UNCHANGED <<box, killed>>
    BY <1>7, Zenon DEF kexit
  <2> HIDE DEF r
  <2> QED BY <2>1, <2>2, Leaves, Zenon DEF Caller, TypeOK
<1>8. ASSUME NEW p \in Proc, kkill(p) PROVE IInv'
  <2>1. th[p] \in Thread
    BY Zenon DEF TypeOK
  <2>2. \A q \in Proc : q # p => th'[q] = th[q]
    BY <1>8, Zenon DEF TypeOK, kkill
  <2>3. /\ th'[p] \in Thread /\ th'[p].i = th[p].i /\ th'[p].key = th[p].key
        /\ th'[p].pc \in Caller <=> th[p].pc \in Caller
        /\ th'[p].pc = "create" <=> th[p].pc = "create"
        /\ th'[p].pc \notin {"send_sleep", "recv_sleep"}
    BY <1>8, <2>1, Zenon DEF TypeOK, kkill, Thread, PC, Caller
  <2>4. TypeOK' /\ UNCHANGED box
    BY <1>8, <2>2, <2>3, Zenon DEF TypeOK, kkill
  <2>5. CallersInv' /\ ScanInv'
    BY <2>2, <2>3, <2>4 DEF CallersInv, ScanInv
  <2>6. ReceiversWait' /\ SendersInv'
    BY <2>2, <2>3, <2>4 DEF ReceiversWait, SendersInv, SendersWait
  <2>7. KeysUnique' /\ PrefixInv'
    BY <2>4, Zenon DEF KeysUnique, PrefixInv
  <2> QED BY <2>4, <2>5, <2>6, <2>7, Zenon
<1>9. CASE UNCHANGED vars
  BY <1>9, Zenon DEF vars, TypeOK, CallersInv, PrefixInv, ScanInv, KeysUnique, ReceiversWait,
     SendersInv, SendersWait
<1> QED BY <1>1, <1>2, <1>3, <1>4, <1>5, <1>6, <1>7, <1>8, <1>9, Zenon DEF Next, Kernel

\* A behaviour of the mailbox code satisfies the strengthened invariant.
THEOREM Invariance == Spec => []IInv
<1>1. Init => IInv
  <2> SUFFICES ASSUME Init PROVE IInv
    OBVIOUS
  <2> DEFINE empty == [key |-> None, buf |-> [j \in Idx |-> None],
                       head |-> 0, tail |-> 0, count |-> 0]
  <2>1. User \in Thread /\ User.pc = "user"
    BY DEF User, At, Thread, PC
  <2>2. empty \in Mailbox /\ empty.key = None
    BY DEF Mailbox, Idx
  <2>3. box = [b \in Box |-> empty] /\ th = [p \in Proc |-> User]
    BY Zenon DEF Init
  <2> HIDE DEF empty
  <2>4. TypeOK
    BY <2>1, <2>2, <2>3, Zenon DEF TypeOK, Init
  <2>5. CallersInv /\ PrefixInv /\ ScanInv /\ KeysUnique
    BY <2>1, <2>2, <2>3, Zenon DEF CallersInv, Caller, PrefixInv, ScanInv, KeysUnique
  <2>6. ReceiversWait /\ SendersInv
    BY <2>1, <2>3, Zenon DEF ReceiversWait, SendersInv, SendersWait
  <2> QED BY <2>4, <2>5, <2>6, Zenon DEF IInv
<1> QED BY <1>1, Inductive, PTL DEF Spec

\* Ring indices and counts never leave their ranges in any mailbox operation.
THEOREM TypeOKThm == Spec => []TypeOK
  BY Invariance, PTL DEF IInv

\* mbox_create() on any number of CPUs never gives one key two boxes.
THEOREM KeysUniqueThm == Spec => []KeysUnique
  BY Invariance, PTL DEF IInv

\* A key keeps its box for ever.
THEOREM KeysPermanentThm == Spec => KeysPermanent
<1> DEFINE Keep == \A b \in Box : box[b].key # None => box'[b].key = box[b].key
<1>1. IInv /\ [Next]_vars => [Keep]_vars
  <2> SUFFICES ASSUME IInv, Next PROVE Keep
    BY Zenon DEF vars
  <2>1. \A p \in Proc : mbox_create(p) => Keep
    BY DEF mbox_create, IInv, TypeOK, Mailbox
  <2>2. \A p \in Proc : mbox_send(p) => Keep
    <3> SUFFICES ASSUME NEW p \in Proc, mbox_send(p), NEW b \in Box
                 PROVE  box'[b].key = box[b].key
      OBVIOUS
    <3>1. box[b] \in Mailbox /\ box \in [Box -> Mailbox]
      BY Zenon DEF IInv, TypeOK
    <3>2. CASE UNCHANGED box
      BY <3>2, Zenon
    <3>3. CASE box' = [box EXCEPT ![th[p].i].buf[box[th[p].i].tail] = th[p].msg,
                                  ![th[p].i].tail = (@ + 1) % MBOX_SIZE,
                                  ![th[p].i].count = @ + 1]
      BY <3>1, <3>3, ZenonT(40) DEF Mailbox
    <3> QED BY <3>2, <3>3, Zenon DEF mbox_send
  <2>3. \A p \in Proc : mbox_recv(p) => Keep
    BY DEF mbox_recv, IInv, TypeOK, Mailbox
  <2>4. UNCHANGED box => Keep
    OBVIOUS
  <2> HIDE DEF Keep
  <2> QED BY <2>1, <2>2, <2>3, <2>4, Zenon DEF Next, Kernel, Create, Call, sys_mbox_recv,
            kkill, kexit
<1> QED BY <1>1, Invariance, PTL DEF Spec, KeysPermanent

\* No wakeup() of a receiver is lost, whatever indices programs pass.
THEOREM ReceiversWaitThm == Spec => []ReceiversWait
  BY Invariance, PTL DEF IInv

\* No wakeup() of a sender is lost when programs use created boxes only.
THEOREM SendersWaitThm == ASSUME CreatedOnly PROVE Spec => []SendersWait
<1>1. IInv => SendersWait
  BY Zenon DEF IInv, SendersInv
<1> QED BY <1>1, Invariance, PTL

-----------------------------------------------------------------------------
(* The refinement of MessageQueue. *)

\* The index where mbox_send() writes is count places behind head.
RingInv == \A b \in Box : box[b].tail = (box[b].head + box[b].count) % MBOX_SIZE

\* A box that nobody claimed is empty, so claiming it loses no message; this
\* holds of programs that use only created boxes.
EmptyInv == \A b \in Box : box[b].key = None => box[b].count = 0

\* A sender has a message.
Sender == {"send", "send_sleep"}
MsgInv == \A p \in Proc : th[p].pc \in Sender => th[p].msg \in Msg

QInv == RingInv /\ EmptyInv /\ MsgInv

\* The messages of a box, oldest first, and what process p has received.
Messages(m) == [j \in 1..m.count |-> m.buf[(m.head + j - 1) % MBOX_SIZE]]
Got(p) == IF th[p].pc = "copyout" THEN th[p].msg ELSE None

\* Indices run up to the size of the ring and start again.
LEMMA Wrap ==
  ASSUME NEW x \in 0..2 * MBOX_SIZE - 1
  PROVE  x % MBOX_SIZE = IF x < MBOX_SIZE THEN x ELSE x - MBOX_SIZE
<1>1. CASE x \in 0..MBOX_SIZE - 1
  BY <1>1
<1>2. CASE x \in MBOX_SIZE..2 * MBOX_SIZE - 1
  BY <1>2
<1> QED BY <1>1, <1>2

\* Advancing the tail, and advancing the head, and then counting n on.
LEMMA RingSum ==
  ASSUME NEW h \in Idx, NEW n \in Idx
  PROVE  /\ (((h + n) % MBOX_SIZE) + 1) % MBOX_SIZE = (h + (n + 1)) % MBOX_SIZE
         /\ (((h + 1) % MBOX_SIZE) + n) % MBOX_SIZE = (h + (n + 1)) % MBOX_SIZE
<1> USE DEF Idx
<1> DEFINE N == MBOX_SIZE  y == h + (n + 1)
<1>1. N \in Nat \ {0} /\ h \in 0..N-1 /\ n \in 0..N-1
  OBVIOUS
<1>2. y % N = IF y < N THEN y ELSE y - N
  BY <1>1, Wrap
<1>3. /\ (h + n) % N = IF h + n < N THEN h + n ELSE h + n - N
      /\ (h + 1) % N = IF h + 1 < N THEN h + 1 ELSE h + 1 - N
  BY <1>1, Wrap
<1>4. /\ ((h + n) % N) + 1 \in 0..2 * N - 1
      /\ ((h + 1) % N) + n \in 0..2 * N - 1
  BY <1>1, <1>3
<1>5. \A x \in 0..2 * N - 1 : x % N = IF x < N THEN x ELSE x - N
  BY Wrap, Zenon
<1> HIDE DEF N
<1>6. (((h + n) % N) + 1) % N = y % N
  BY <1>1, <1>2, <1>3, <1>4, <1>5
<1>7. (((h + 1) % N) + n) % N = y % N
  BY <1>1, <1>2, <1>3, <1>4, <1>5
<1> QED BY <1>6, <1>7, Zenon DEF N

\* Different distances from the head are different places in the ring.
LEMMA RingDistinct ==
  ASSUME NEW h \in Idx, NEW a \in Idx, NEW b \in Idx, a # b
  PROVE  (h + a) % MBOX_SIZE # (h + b) % MBOX_SIZE
<1> DEFINE N == MBOX_SIZE
<1>1. N \in Nat \ {0} /\ h \in 0..N-1 /\ a \in 0..N-1 /\ b \in 0..N-1
  BY Zenon DEF Idx
<1>2. \A x \in 0..2 * N - 1 : x % N = IF x < N THEN x ELSE x - N
  BY Wrap, Zenon
<1> HIDE DEF N
<1>3. /\ (h + a) % N = IF h + a < N THEN h + a ELSE h + a - N
      /\ (h + b) % N = IF h + b < N THEN h + b ELSE h + b - N
  BY <1>1, <1>2
<1>4. (h + a) % N # (h + b) % N
  BY <1>1, <1>3
<1> QED BY <1>4, Zenon DEF N

\* The messages of a box are a sequence of count elements, and those at
\* distance j from the head are in the ring.
LEMMA MessagesSeq ==
  ASSUME NEW m \in Mailbox
  PROVE  /\ Messages(m) \in Seq(Msg \cup {None})
         /\ Len(Messages(m)) = m.count
         /\ \A j \in 1..m.count : /\ j - 1 \in Idx
                                  /\ Messages(m)[j] = m.buf[(m.head + j - 1) % MBOX_SIZE]
<1>1. m.count \in 0..MBOX_SIZE /\ m.head \in Idx /\ m.buf \in [Idx -> Msg \cup {None}]
  BY Zenon DEF Mailbox
<1>2. \A x \in Nat : x % MBOX_SIZE \in Idx
  BY DEF Idx
<1>3. \A j \in 1..m.count : j - 1 \in Idx /\ m.head + j - 1 \in Nat
  BY <1>1 DEF Idx
<1>4. \A j \in 1..m.count : m.buf[(m.head + j - 1) % MBOX_SIZE] \in Msg \cup {None}
  BY <1>1, <1>2, <1>3, Zenon
<1>5. Messages(m) \in [1..m.count -> Msg \cup {None}] /\ m.count \in Nat
  BY <1>1, <1>4 DEF Messages
<1>6. Messages(m) \in Seq(Msg \cup {None}) /\ Len(Messages(m)) = m.count
  BY <1>5
<1> QED BY <1>3, <1>6, Zenon DEF Messages

\* What mbox_send() does to a box appends the message.
LEMMA SendMessages ==
  ASSUME NEW m \in Mailbox, m.count # MBOX_SIZE,
         m.tail = (m.head + m.count) % MBOX_SIZE,
         NEW x \in Msg, NEW n \in Mailbox,
         n = [key |-> m.key, head |-> m.head, count |-> m.count + 1,
              buf |-> [m.buf EXCEPT ![m.tail] = x], tail |-> (m.tail + 1) % MBOX_SIZE]
  PROVE  /\ Len(Messages(m)) < MBOX_SIZE
         /\ Messages(n) = Append(Messages(m), x)
         /\ n.tail = (n.head + n.count) % MBOX_SIZE
<1>1. /\ m.count \in Idx /\ m.head \in Idx /\ m.tail \in Idx
      /\ m.count \in 0..MBOX_SIZE - 1
  BY DEF Mailbox, Idx
<1>2. m.buf \in [Idx -> Msg \cup {None}]
  BY Zenon DEF Mailbox
<1>3. /\ n.head = m.head /\ n.count = m.count + 1 /\ n.tail = (m.tail + 1) % MBOX_SIZE
      /\ n.buf = [m.buf EXCEPT ![m.tail] = x]
  OBVIOUS
<1>4. n.tail = (n.head + n.count) % MBOX_SIZE
  BY <1>1, <1>3, RingSum
<1>5. n.buf[m.tail] = x /\ \A j \in Idx \ {m.tail} : n.buf[j] = m.buf[j]
  BY <1>1, <1>2, <1>3, Zenon
<1>6. /\ Messages(m) \in Seq(Msg \cup {None}) /\ Len(Messages(m)) = m.count
      /\ Messages(n) \in Seq(Msg \cup {None}) /\ Len(Messages(n)) = m.count + 1
  BY <1>3, MessagesSeq, Zenon
<1>7. ASSUME NEW j \in 1..m.count
      PROVE  Messages(n)[j] = Messages(m)[j]
  <2>1. j \in 1..n.count /\ j - 1 \in Idx /\ j - 1 # m.count
    BY <1>1, <1>3, MessagesSeq
  <2>2. m.head + j - 1 = m.head + (j - 1)
    BY <1>1, Zenon DEF Idx
  <2>3. (m.head + (j - 1)) % MBOX_SIZE # m.tail
    BY <1>1, <2>1, RingDistinct, Zenon
  <2>4. (m.head + (j - 1)) % MBOX_SIZE \in Idx
    BY <1>1, <2>1 DEF Idx
  <2>5. n.buf[(m.head + (j - 1)) % MBOX_SIZE] = m.buf[(m.head + (j - 1)) % MBOX_SIZE]
    BY <1>5, <2>3, <2>4, Zenon
  <2>6. /\ Messages(n)[j] = n.buf[(n.head + j - 1) % MBOX_SIZE]
        /\ Messages(m)[j] = m.buf[(m.head + j - 1) % MBOX_SIZE]
    BY <2>1, MessagesSeq, Zenon
  <2> QED BY <1>3, <2>2, <2>5, <2>6, Zenon
<1>8. Messages(n)[m.count + 1] = x
  <2>1. m.count + 1 \in 1..n.count /\ m.head + (m.count + 1) - 1 = m.head + m.count
    BY <1>1, <1>3 DEF Idx
  <2>2. Messages(n)[m.count + 1] = n.buf[(n.head + (m.count + 1) - 1) % MBOX_SIZE]
    BY <2>1, MessagesSeq, Zenon
  <2> QED BY <1>3, <1>5, <2>1, <2>2
<1>9. Messages(n) = Append(Messages(m), x)
  <2> DEFINE s == Messages(m)  t == Messages(n)  u == Append(s, x)  S == Msg \cup {None}
  <2>1. /\ u \in Seq(S) /\ Len(u) = Len(s) + 1 /\ u[Len(s) + 1] = x
        /\ \A i \in 1..Len(s) : u[i] = s[i]
    BY <1>6, AppendProperties
  <2>2. t \in Seq(S) /\ Len(t) = Len(u) /\ Len(s) = m.count /\ m.count \in Nat
    BY <1>1, <1>6, <2>1 DEF Idx
  <2>3. \A i \in 1..m.count : t[i] = u[i]
    BY <1>7, <2>1, <2>2, Zenon
  <2>4. t[m.count + 1] = u[m.count + 1]
    BY <1>8, <2>1, <2>2, Zenon
  <2>5. Len(t) = m.count + 1
    BY <1>6, Zenon
  <2>6. \A i \in 1..Len(t) : t[i] = u[i]
    <3> HIDE DEF t, u
    <3> QED BY <2>2, <2>3, <2>4, <2>5
  <2>7. t = u
    <3> HIDE DEF t, u, S
    <3> QED BY <2>1, <2>2, <2>6, SeqEqual, Zenon
  <2> QED BY <2>7, Zenon
<1>10. Len(Messages(m)) < MBOX_SIZE
  BY <1>1, <1>6
<1> QED BY <1>4, <1>9, <1>10, Zenon

\* What mbox_recv() does to a box takes its oldest message.
LEMMA RecvMessages ==
  ASSUME NEW m \in Mailbox, m.count # 0,
         m.tail = (m.head + m.count) % MBOX_SIZE, NEW n \in Mailbox,
         n.head = (m.head + 1) % MBOX_SIZE, n.count = m.count - 1,
         n.buf = m.buf, n.tail = m.tail
  PROVE  /\ Messages(m) # <<>> /\ Head(Messages(m)) = m.buf[m.head]
         /\ Messages(n) = Tail(Messages(m))
         /\ n.tail = (n.head + n.count) % MBOX_SIZE
<1> DEFINE s == Messages(m)  t == Messages(n)  S == Msg \cup {None}
<1>1. m.count \in 1..MBOX_SIZE /\ m.head \in Idx /\ m.count - 1 \in Idx
  BY DEF Mailbox, Idx
<1>2. n.tail = (n.head + n.count) % MBOX_SIZE
  <2>1. (m.count - 1) + 1 = m.count
    BY <1>1
  <2> QED BY <1>1, <2>1, RingSum, Zenon
<1>3. /\ s \in Seq(S) /\ Len(s) = m.count
      /\ t \in Seq(S) /\ Len(t) = m.count - 1
  BY MessagesSeq, Zenon
<1>4. s # <<>>
  BY <1>1, <1>3, Zenon
<1>5. s[1] = m.buf[m.head]
  <2>1. 1 \in 1..m.count /\ m.head + 1 - 1 = m.head
    BY <1>1 DEF Idx
  <2>2. m.head % MBOX_SIZE = m.head
    <3>1. m.head \in 0..2 * MBOX_SIZE - 1 /\ m.head < MBOX_SIZE
      BY <1>1 DEF Idx
    <3> QED BY <3>1, Wrap, Zenon
  <2>3. s[1] = m.buf[(m.head + 1 - 1) % MBOX_SIZE]
    BY <2>1, MessagesSeq, Zenon
  <2> QED BY <2>1, <2>2, <2>3, Zenon
<1>6. ASSUME NEW j \in 1..m.count - 1
      PROVE  t[j] = s[j + 1]
  <2>1. /\ j \in 1..n.count /\ j + 1 \in 1..m.count
        /\ (j - 1) + 1 = j /\ m.head + (j + 1) - 1 = m.head + j
    BY <1>1 DEF Idx
  <2>2. j - 1 \in Idx
    BY <2>1, MessagesSeq, Zenon
  <2>3. n.head + j - 1 = n.head + (j - 1)
    BY <1>1, Zenon DEF Idx, Mailbox
  <2>4. (((m.head + 1) % MBOX_SIZE) + (j - 1)) % MBOX_SIZE = (m.head + j) % MBOX_SIZE
    BY <1>1, <2>1, <2>2, RingSum
  <2>5. /\ t[j] = n.buf[(n.head + j - 1) % MBOX_SIZE]
        /\ s[j + 1] = m.buf[(m.head + (j + 1) - 1) % MBOX_SIZE]
    BY <2>1, MessagesSeq, Zenon
  <2> QED BY <2>1, <2>3, <2>4, <2>5, Zenon
<1> HIDE DEF s, t, S
<1>7. Head(s) = m.buf[m.head]
  BY <1>3, <1>4, <1>5
<1>8. /\ Tail(s) \in Seq(S) /\ Len(Tail(s)) = Len(s) - 1
      /\ \A i \in 1..Len(Tail(s)) : Tail(s)[i] = s[i + 1]
  BY <1>3, <1>4, HeadTailProperties, Zenon
<1>9. t = Tail(s)
  <2>1. Len(t) = Len(Tail(s)) /\ \A i \in 1..Len(t) : t[i] = Tail(s)[i]
    BY <1>1, <1>3, <1>6, <1>8
  <2> QED BY <1>3, <1>8, <2>1, SeqEqual, Zenon
<1> QED BY <1>2, <1>4, <1>7, <1>9, Zenon DEF s, t

\* The mapped state of the queue, as Queue substitutes it.
QueueOf == [b \in Box |-> Messages(box[b])]
GotOf == [p \in Proc |-> Got(p)]

\* A thread keeps its message, what it has received and whether it sends.
Alike(q) == /\ th'[q].msg = th[q].msg
            /\ th'[q].pc = "copyout" <=> th[q].pc = "copyout"
            /\ th'[q].pc \in Sender <=> th[q].pc \in Sender

\* wakeup() changes no message.
LEMMA WakeupAlike ==
  ASSUME TypeOK, NEW b \in Box, NEW p \in Proc, NEW r, th' = Wakeup(b, p, r)
  PROVE  th'[p] = r /\ \A q \in Proc \ {p} : Alike(q)
<1>1. \A q \in Proc : th[q] \in Thread
  BY Zenon DEF TypeOK
<1>2. ASSUME NEW q \in Proc \ {p} PROVE Alike(q)
  <2>1. \/ th'[q] = th[q]
        \/ th'[q] = [th[q] EXCEPT !.pc = "send"] /\ th[q].pc = "send_sleep"
        \/ th'[q] = [th[q] EXCEPT !.pc = "recv"] /\ th[q].pc = "recv_sleep"
    BY Zenon DEF Wakeup
  <2> QED BY <1>1, <2>1 DEF Alike, Thread, Sender
<1> QED BY <1>2, Zenon DEF Wakeup

\* The queue stutters when the code changes no message and delivers none.
LEMMA QueueStutter ==
  ASSUME QueueOf' = QueueOf, GotOf' = GotOf
  PROVE  UNCHANGED Queue!vars
  BY Zenon DEF Queue!vars, QueueOf, GotOf, Messages, Got

\* A message behind the others of a box that has room is a Send.
LEMMA QueueSend ==
  ASSUME NEW p \in Proc, NEW b \in Box, NEW m \in Msg,
         Len(QueueOf[b]) < MBOX_SIZE, GotOf' = GotOf,
         QueueOf' = [QueueOf EXCEPT ![b] = Append(@, m)]
  PROVE  Queue!Next
<1>1. Queue!Send(b, m)
  BY Zenon DEF Queue!Send, QueueOf, GotOf, Messages, Got
<1> QED BY <1>1, Zenon DEF Queue!Next

\* Taking the first message of a box is a Receive.
LEMMA QueueReceive ==
  ASSUME NEW p \in Proc, NEW b \in Box, QueueOf[b] # <<>>,
         GotOf' = [GotOf EXCEPT ![p] = Head(QueueOf[b])],
         QueueOf' = [QueueOf EXCEPT ![b] = Tail(@)]
  PROVE  Queue!Next
<1>1. Queue!Receive(p, b)
  BY Zenon DEF Queue!Receive, QueueOf, GotOf, Messages, Got
<1> QED BY <1>1, Zenon DEF Queue!Next

\* Delivering it is a Return.
LEMMA QueueReturn ==
  ASSUME NEW p \in Proc, QueueOf' = QueueOf, GotOf' = [GotOf EXCEPT ![p] = None]
  PROVE  Queue!Next
<1>1. Queue!Return(p)
  BY Zenon DEF Queue!Return, QueueOf, GotOf, Messages, Got
<1> QED BY <1>1, Zenon DEF Queue!Next

\* A step in which the boxes stay and every thread keeps its message.
LEMMA QuietStep ==
  ASSUME QInv, UNCHANGED box, NEW p \in Proc,
         \A q \in Proc \ {p} : Alike(q),
         th'[p].pc # "copyout", th[p].pc # "copyout",
         th'[p].pc \in Sender => th'[p].msg \in Msg
  PROVE  QInv' /\ UNCHANGED Queue!vars
<1>1. QueueOf' = QueueOf
  BY Zenon DEF QueueOf, Messages
<1>2. \A q \in Proc : Got(q)' = Got(q)
  BY Zenon DEF Got, Alike
<1>3. GotOf' = GotOf
  BY <1>2, Zenon DEF GotOf
<1>4. RingInv' /\ EmptyInv'
  BY Zenon DEF QInv, RingInv, EmptyInv
<1>5. MsgInv'
  BY Zenon DEF QInv, MsgInv, Alike
<1> QED BY <1>1, <1>3, <1>4, <1>5, QueueStutter, Zenon DEF QInv

\* mbox_create() empties a box that is empty already.
LEMMA ClaimStep ==
  ASSUME IInv, QInv, NEW p \in Proc, NEW i \in Box, box[i].key = None,
         \A b \in Box : b # i => box'[b] = box[b],
         box'[i].key # None, box'[i].head = 0, box'[i].tail = 0, box'[i].count = 0,
         th[p].pc = "create", th'[p] = User, \A q \in Proc \ {p} : th'[q] = th[q]
  PROVE  QInv' /\ UNCHANGED Queue!vars
<1>1. box[i].count = 0
  BY Zenon DEF QInv, EmptyInv
<1>2. QueueOf' = QueueOf
  <2>1. 1..0 = {}
    OBVIOUS
  <2>2. Messages(box'[i]) = Messages(box[i])
    BY <1>1, <2>1, Zenon DEF Messages
  <2>3. \A b \in Box : Messages(box'[b]) = Messages(box[b])
    BY <2>2, Zenon
  <2> QED BY <2>3, Zenon DEF QueueOf, Messages
<1>3. GotOf' = GotOf
  <2>1. \A q \in Proc : Got(q)' = Got(q)
    BY DEF Got, User, At
  <2> QED BY <2>1, Zenon DEF GotOf
<1>4. RingInv' /\ EmptyInv'
  <2>1. 0 = (0 + 0) % MBOX_SIZE
    OBVIOUS
  <2> QED BY <2>1 DEF QInv, RingInv, EmptyInv
<1>5. MsgInv'
  BY DEF QInv, MsgInv, Sender, User, At
<1> QED BY <1>2, <1>3, <1>4, <1>5, QueueStutter, Zenon DEF QInv

\* mbox_send() with room is a Send.
LEMMA SendStep ==
  ASSUME QInv, NEW p \in Proc, th[p].pc = "send",
         NEW b \in Box, box[b] \in Mailbox, box'[b] \in Mailbox,
         box[b].key # None, box[b].count # MBOX_SIZE,
         \A c \in Box : c # b => box'[c] = box[c],
         box'[b] = [key |-> box[b].key, head |-> box[b].head, count |-> box[b].count + 1,
                    buf |-> [box[b].buf EXCEPT ![box[b].tail] = th[p].msg],
                    tail |-> (box[b].tail + 1) % MBOX_SIZE],
         th'[p] = User, \A q \in Proc \ {p} : Alike(q)
  PROVE  QInv' /\ Queue!Next
<1>1. th[p].msg \in Msg
  BY Zenon DEF QInv, MsgInv, Sender
<1>2. box[b].tail = (box[b].head + box[b].count) % MBOX_SIZE
  BY Zenon DEF QInv, RingInv
<1>3. /\ Len(Messages(box[b])) < MBOX_SIZE
      /\ Messages(box'[b]) = Append(Messages(box[b]), th[p].msg)
      /\ box'[b].tail = (box'[b].head + box'[b].count) % MBOX_SIZE
  BY <1>1, <1>2, SendMessages, Zenon
<1>4. box'[b].key = box[b].key
  OBVIOUS
<1>5. th'[p].pc = "user"
  BY DEF User, At
<1>6. GotOf' = GotOf
  <2>1. \A q \in Proc : Got(q)' = Got(q)
    BY <1>5 DEF Got, Alike
  <2> QED BY <2>1, Zenon DEF GotOf
<1>7. QueueOf' = [QueueOf EXCEPT ![b] = Append(@, th[p].msg)]
  <2>1. \A c \in Box : Messages(box'[c]) =
           IF c = b THEN Append(Messages(box[b]), th[p].msg) ELSE Messages(box[c])
    BY <1>3, Zenon
  <2>2. QueueOf' = [c \in Box |-> Messages(box'[c])]
    BY Zenon DEF QueueOf, Messages
  <2> QED BY <2>1, <2>2, Zenon DEF QueueOf
<1>8. Len(QueueOf[b]) < MBOX_SIZE
  BY <1>3, Zenon DEF QueueOf
<1>9. Queue!Next
  BY <1>1, <1>6, <1>7, <1>8, QueueSend, Zenon
<1>10. RingInv' /\ EmptyInv'
  BY <1>3, <1>4 DEF QInv, RingInv, EmptyInv
<1>11. MsgInv'
  BY <1>5, Zenon DEF QInv, MsgInv, Alike, Sender
<1> QED BY <1>9, <1>10, <1>11, Zenon DEF QInv

\* mbox_recv() of a box that is not empty is a Receive.
LEMMA RecvStep ==
  ASSUME QInv, NEW p \in Proc, th[p].pc = "recv",
         NEW b \in Box, box[b] \in Mailbox, box'[b] \in Mailbox,
         box[b].key # None, box[b].count # 0,
         \A c \in Box : c # b => box'[c] = box[c],
         box'[b].key = box[b].key, box'[b].buf = box[b].buf, box'[b].tail = box[b].tail,
         box'[b].head = (box[b].head + 1) % MBOX_SIZE, box'[b].count = box[b].count - 1,
         th'[p] = At("copyout", 0, None, box[b].buf[box[b].head]),
         \A q \in Proc \ {p} : Alike(q)
  PROVE  QInv' /\ Queue!Next
<1>1. box[b].tail = (box[b].head + box[b].count) % MBOX_SIZE
  BY Zenon DEF QInv, RingInv
<1>2. /\ Messages(box[b]) # <<>> /\ Head(Messages(box[b])) = box[b].buf[box[b].head]
      /\ Messages(box'[b]) = Tail(Messages(box[b]))
      /\ box'[b].tail = (box'[b].head + box'[b].count) % MBOX_SIZE
  BY <1>1, RecvMessages, Zenon
<1>3. th'[p].pc = "copyout" /\ th'[p].msg = Head(Messages(box[b]))
  BY <1>2 DEF At
<1>4. GotOf' = [GotOf EXCEPT ![p] = Head(QueueOf[b])]
  <2>1. \A q \in Proc \ {p} : Got(q)' = Got(q)
    BY DEF Got, Alike
  <2>2. Got(p)' = Head(QueueOf[b])
    BY <1>3, Zenon DEF Got, QueueOf
  <2> QED BY <2>1, <2>2, Zenon DEF GotOf
<1>5. QueueOf' = [QueueOf EXCEPT ![b] = Tail(@)]
  <2>1. \A c \in Box : Messages(box'[c]) =
           IF c = b THEN Tail(Messages(box[b])) ELSE Messages(box[c])
    BY <1>2, Zenon
  <2>2. QueueOf' = [c \in Box |-> Messages(box'[c])]
    BY Zenon DEF QueueOf, Messages
  <2> QED BY <2>1, <2>2, Zenon DEF QueueOf
<1>6. QueueOf[b] # <<>>
  BY <1>2, Zenon DEF QueueOf
<1>7. Queue!Next
  BY <1>4, <1>5, <1>6, QueueReceive, Zenon
<1>8. RingInv' /\ EmptyInv'
  BY <1>2 DEF QInv, RingInv, EmptyInv
<1>9. MsgInv'
  BY <1>3, Zenon DEF QInv, MsgInv, Alike, Sender
<1> QED BY <1>7, <1>8, <1>9, Zenon DEF QInv

\* Every step keeps the ring in order and is a step of the queue or none.
LEMMA QueueInductive ==
  ASSUME CreatedOnly, IInv, QInv, [Next]_vars, TypeOK'
  PROVE  QInv' /\ [Queue!Next]_(Queue!vars)
<1>t. /\ box \in [Box -> Mailbox] /\ th \in [Proc -> Thread] /\ CallersInv
      /\ box' \in [Box -> Mailbox]
  BY Zenon DEF IInv, TypeOK
<1>u. User.pc = "user"
  BY Zenon DEF User, At
<1>a. \A p, q \in Proc : th'[q] = th[q] => Alike(q)
  BY Zenon DEF Alike
<1>1. ASSUME NEW p \in Proc, NEW key \in Key, Create(p, key)
      PROVE  QInv' /\ UNCHANGED Queue!vars
  <2>1. th[p].pc = "user" /\ UNCHANGED box /\ th'[p].pc = "create"
    BY <1>1, <1>t, Zenon DEF Create, At
  <2>2. \A q \in Proc \ {p} : th'[q] = th[q]
    BY <1>1, <1>t, Zenon DEF Create
  <2> QED BY <2>1, <2>2, <1>a, QuietStep, Zenon DEF Sender
<1>2. ASSUME NEW p \in Proc, NEW b \in Box, NEW m \in Msg \cup {None},
             NEW l \in {"send", "recv"}, l = "send" => m \in Msg, Call(p, l, b, m)
      PROVE  QInv' /\ UNCHANGED Queue!vars
  <2>1. th[p].pc = "user" /\ UNCHANGED box /\ th'[p].pc = l /\ th'[p].msg = m
    BY <1>2, <1>t, Zenon DEF Call, At
  <2>2. \A q \in Proc \ {p} : th'[q] = th[q]
    BY <1>2, <1>t, Zenon DEF Call
  <2> QED BY <1>2, <2>1, <2>2, <1>a, QuietStep, Zenon DEF Sender
<1>3. ASSUME NEW p \in Proc, mbox_create(p)
      PROVE  QInv' /\ UNCHANGED Queue!vars
  <2> DEFINE i == th[p].i  key == th[p].key
  <2>a. th[p].pc = "create" /\ th[p] \in Thread /\ key \in Key /\ i \in 0..MAX_MBOX
    BY <1>3, <1>t, Zenon DEF mbox_create, CallersInv, Thread
  <2>1. CASE th' = [th EXCEPT ![p] = User] /\ UNCHANGED box
    <3>1. th'[p].pc = "user" /\ \A q \in Proc \ {p} : th'[q] = th[q]
      BY <2>1, <1>t, <1>u, Zenon
    <3> QED BY <2>1, <2>a, <3>1, <1>a, QuietStep, Zenon DEF Sender
  <2>2. CASE /\ i < MAX_MBOX /\ box[i].key = None
             /\ box' = [box EXCEPT ![i].key = key, ![i].head = 0,
                                   ![i].tail = 0, ![i].count = 0]
             /\ th' = [th EXCEPT ![p] = User]
    <3>1. i \in Box
      BY <2>2, <2>a DEF Box
    <3>2. box'[i] = [box[i] EXCEPT !.key = key, !.head = 0, !.tail = 0, !.count = 0]
      BY <2>2, <3>1, <1>t, Zenon
    <3>3. \A b \in Box : b # i => box'[b] = box[b]
      BY <2>2, <3>1, <1>t, Zenon
    <3>4. box[i] \in Mailbox
      BY <3>1, <1>t, Zenon
    <3>5. /\ box'[i].key = key /\ box'[i].head = 0 /\ box'[i].tail = 0
          /\ box'[i].count = 0
      BY <3>2, <3>4, Zenon DEF Mailbox
    <3>6. box'[i].key # None
      BY <3>5, <2>a, Zenon
    <3>7. th'[p] = User /\ \A q \in Proc \ {p} : th'[q] = th[q]
      BY <2>2, <1>t, Zenon
    <3> HIDE DEF i, key
    <3>8. box[i].key = None
      BY <2>2, Zenon
    <3> QED BY <2>a, <3>1, <3>3, <3>5, <3>6, <3>7, <3>8, ClaimStep
  <2>3. CASE th' = [th EXCEPT ![p].i = i + 1] /\ UNCHANGED box
    <3>1. th'[p].pc = "create" /\ \A q \in Proc \ {p} : th'[q] = th[q]
      BY <2>3, <2>a, <1>t, Zenon DEF Thread
    <3> QED BY <2>3, <2>a, <3>1, <1>a, QuietStep, Zenon DEF Sender
  <2> QED BY <1>3, <2>1, <2>2, <2>3, Zenon DEF mbox_create
<1>4. ASSUME NEW p \in Proc, mbox_send(p)
      PROVE  QInv' /\ [Queue!Next]_(Queue!vars)
  <2> DEFINE b == th[p].i
  <2>a. th[p].pc = "send" /\ b \in Box /\ box[b].key # None /\ th[p] \in Thread
        /\ box[b] \in Mailbox /\ box'[b] \in Mailbox
    BY <1>4, <1>t, Zenon DEF mbox_send, CallersInv, Caller
  <2>1. CASE th' = [th EXCEPT ![p].pc = "send_sleep"] /\ UNCHANGED box
    <3>1. /\ th'[p].pc = "send_sleep" /\ th'[p].msg = th[p].msg
          /\ \A q \in Proc \ {p} : th'[q] = th[q]
      BY <2>1, <2>a, <1>t, Zenon DEF Thread
    <3>2. th[p].msg \in Msg
      BY <2>a, Zenon DEF QInv, MsgInv, Sender
    <3> QED BY <2>1, <2>a, <3>1, <3>2, <1>a, QuietStep DEF Sender
  <2>2. CASE /\ box[b].count # MBOX_SIZE
             /\ box' = [box EXCEPT ![b].buf[box[b].tail] = th[p].msg,
                                   ![b].tail = (@ + 1) % MBOX_SIZE,
                                   ![b].count = @ + 1]
             /\ th' = Wakeup(b, p, User)
    <3>1. box'[b] = [box[b] EXCEPT !.buf[box[b].tail] = th[p].msg,
                                   !.tail = (@ + 1) % MBOX_SIZE, !.count = @ + 1]
      BY <2>2, <2>a, <1>t, Zenon
    <3>2. \A c \in Box : c # b => box'[c] = box[c]
      BY <2>2, <2>a, <1>t, Zenon
    <3>3. box'[b] = [key |-> box[b].key, head |-> box[b].head, count |-> box[b].count + 1,
                     buf |-> [box[b].buf EXCEPT ![box[b].tail] = th[p].msg],
                     tail |-> (box[b].tail + 1) % MBOX_SIZE]
      BY <3>1, <2>a, ZenonT(40) DEF Mailbox
    <3>4. th'[p] = User /\ \A q \in Proc \ {p} : Alike(q)
      BY <2>2, <2>a, WakeupAlike, Zenon DEF IInv
    <3>5. box[b].count # MBOX_SIZE
      BY <2>2, Zenon
    <3> HIDE DEF b
    <3> QED BY <2>a, <3>2, <3>3, <3>4, <3>5, SendStep, Zenon
  <2> QED BY <1>4, <2>1, <2>2, Zenon DEF mbox_send
<1>5. ASSUME NEW p \in Proc, mbox_recv(p)
      PROVE  QInv' /\ [Queue!Next]_(Queue!vars)
  <2> DEFINE b == th[p].i
  <2>a. th[p].pc = "recv" /\ b \in Box /\ box[b].key # None /\ th[p] \in Thread
        /\ box[b] \in Mailbox /\ box'[b] \in Mailbox
    BY <1>5, <1>t, Zenon DEF mbox_recv, CallersInv, Caller
  <2>1. CASE th' = [th EXCEPT ![p].pc = "recv_sleep"] /\ UNCHANGED box
    <3>1. th'[p].pc = "recv_sleep" /\ \A q \in Proc \ {p} : th'[q] = th[q]
      BY <2>1, <2>a, <1>t, Zenon DEF Thread
    <3> QED BY <2>1, <2>a, <3>1, <1>a, QuietStep, Zenon DEF Sender
  <2>2. CASE /\ box[b].count # 0
             /\ box' = [box EXCEPT ![b].head = (@ + 1) % MBOX_SIZE,
                                   ![b].count = @ - 1]
             /\ th' = Wakeup(b, p, At("copyout", 0, None, box[b].buf[box[b].head]))
    <3>1. box'[b] = [box[b] EXCEPT !.head = (@ + 1) % MBOX_SIZE, !.count = @ - 1]
      BY <2>2, <2>a, <1>t, Zenon
    <3>2. \A c \in Box : c # b => box'[c] = box[c]
      BY <2>2, <2>a, <1>t, Zenon
    <3>3. /\ box'[b].key = box[b].key /\ box'[b].buf = box[b].buf
          /\ box'[b].tail = box[b].tail /\ box'[b].count = box[b].count - 1
          /\ box'[b].head = (box[b].head + 1) % MBOX_SIZE
      BY <3>1, <2>a, Zenon DEF Mailbox
    <3>4. /\ th'[p] = At("copyout", 0, None, box[b].buf[box[b].head])
          /\ \A q \in Proc \ {p} : Alike(q)
      <4> DEFINE r == At("copyout", 0, None, box[b].buf[box[b].head])
      <4>1. th' = Wakeup(b, p, r) /\ TypeOK
        BY <2>2, Zenon DEF IInv
      <4> HIDE DEF r
      <4>2. th'[p] = r /\ \A q \in Proc \ {p} : Alike(q)
        BY <4>1, <2>a, WakeupAlike, Zenon
      <4> QED BY <4>2, Zenon DEF r
    <3>5. box[b].count # 0
      BY <2>2, Zenon
    <3> HIDE DEF b
    <3> QED BY <2>a, <3>2, <3>3, <3>4, <3>5, RecvStep
  <2> QED BY <1>5, <2>1, <2>2, Zenon DEF mbox_recv
<1>6. ASSUME NEW p \in Proc, sys_mbox_recv(p)
      PROVE  QInv' /\ Queue!Next
  <2>1. th'[p].pc = "user" /\ UNCHANGED box /\ \A q \in Proc \ {p} : th'[q] = th[q]
    BY <1>6, <1>t, <1>u, Zenon DEF sys_mbox_recv
  <2>2. GotOf' = [GotOf EXCEPT ![p] = None]
    BY <2>1, Zenon DEF GotOf, Got
  <2>3. QueueOf' = QueueOf
    BY <2>1, Zenon DEF QueueOf, Messages
  <2>4. QInv'
    BY <2>1, Zenon DEF QInv, RingInv, EmptyInv, MsgInv, Sender
  <2> QED BY <2>2, <2>3, <2>4, QueueReturn, Zenon
<1>7. ASSUME NEW p \in Proc, kexit(p)
      PROVE  QInv' /\ UNCHANGED Queue!vars
  <2>1. /\ th[p].pc = "user" /\ th'[p].pc = "dead" /\ UNCHANGED box
        /\ \A q \in Proc \ {p} : th'[q] = th[q]
    BY <1>7, <1>t DEF kexit, Thread
  <2> QED BY <2>1, <1>a, QuietStep, Zenon DEF Sender
<1>8. ASSUME NEW p \in Proc, kkill(p)
      PROVE  QInv' /\ UNCHANGED Queue!vars
  <2>1. UNCHANGED box /\ \A q \in Proc \ {p} : th'[q] = th[q]
    BY <1>8, <1>t, Zenon DEF kkill
  <2>2. th[p] \in Thread
    BY <1>t, Zenon
  <2>3. /\ th'[p].msg = th[p].msg
        /\ th'[p].pc = IF th[p].pc = "send_sleep" THEN "send"
                       ELSE IF th[p].pc = "recv_sleep" THEN "recv" ELSE th[p].pc
    BY <1>8, <1>t, <2>2, Zenon DEF kkill, Thread
  <2>4. \A q \in Proc : Alike(q)
    BY <2>1, <2>3, Zenon DEF Alike, Sender
  <2>5. QueueOf' = QueueOf /\ RingInv' /\ EmptyInv'
    BY <2>1, Zenon DEF QueueOf, Messages, QInv, RingInv, EmptyInv
  <2>6. \A q \in Proc : Got(q)' = Got(q)
    BY <2>4, Zenon DEF Got, Alike
  <2>7. GotOf' = GotOf /\ MsgInv'
    BY <2>4, <2>6, Zenon DEF GotOf, QInv, MsgInv, Alike
  <2> QED BY <2>5, <2>7, QueueStutter, Zenon DEF QInv
<1>9. ASSUME UNCHANGED vars PROVE QInv' /\ UNCHANGED Queue!vars
  <2>1. QueueOf' = QueueOf /\ GotOf' = GotOf
    BY <1>9, Zenon DEF vars, QueueOf, GotOf, Messages, Got
  <2>2. QInv'
    BY <1>9, Zenon DEF vars, QInv, RingInv, EmptyInv, MsgInv
  <2> QED BY <2>1, <2>2, QueueStutter, Zenon
<1> QED BY <1>1, <1>2, <1>3, <1>4, <1>5, <1>6, <1>7, <1>8, <1>9, Zenon DEF Next, Kernel

\* The rings, the counts and the sleeping loops of mbox.c implement bounded
\* first-in first-out queues: a receiver gets the oldest message and nobody
\* else gets it, when programs use created boxes only.
THEOREM QueueSpecThm == ASSUME CreatedOnly PROVE Spec => QueueSpec
<1>1. Init => QInv /\ Queue!Init
  <2> SUFFICES ASSUME Init PROVE QInv /\ Queue!Init
    OBVIOUS
  <2>1. \A b \in Box : box[b].head = 0 /\ box[b].tail = 0 /\ box[b].count = 0
    BY Zenon DEF Init
  <2>2. \A p \in Proc : th[p].pc = "user"
    BY Zenon DEF Init, User, At
  <2>3. RingInv /\ EmptyInv
    <3>1. 0 = (0 + 0) % MBOX_SIZE
      OBVIOUS
    <3> QED BY <2>1, <3>1, Zenon DEF RingInv, EmptyInv
  <2>4. MsgInv
    BY <2>2, Zenon DEF MsgInv, Sender
  <2>5. QueueOf = [b \in Box |-> <<>>]
    <3>1. 1..0 = {} /\ \A m : [j \in {} |-> m.buf[(m.head + j - 1) % MBOX_SIZE]] = <<>>
      OBVIOUS
    <3>2. \A b \in Box : Messages(box[b]) = <<>>
      BY <2>1, <3>1, Zenon DEF Messages
    <3> QED BY <3>2, Zenon DEF QueueOf
  <2>6. GotOf = [p \in Proc |-> None]
    BY <2>2, Zenon DEF GotOf, Got
  <2>7. Queue!Init
    BY <2>5, <2>6, Zenon DEF Queue!Init, QueueOf, GotOf, Messages, Got
  <2> QED BY <2>3, <2>4, <2>7, Zenon DEF QInv
<1>2. IInv' => TypeOK'
  BY Zenon DEF IInv
<1>3. IInv /\ IInv' /\ QInv /\ [Next]_vars => QInv' /\ [Queue!Next]_(Queue!vars)
  BY <1>2, QueueInductive, Zenon
<1> QED BY <1>1, <1>3, Invariance, PTL DEF Spec, QueueSpec, Queue!Spec
=============================================================================
