------------------------- MODULE ClientQueueProofs -------------------------
(***************************************************************************)
(* Proofs about ClientQueue for every number of publishers, cells and      *)
(* messages: the writer never dereferences a null or freed packet, the     *)
(* pointers always form the list of pending packets, the counter never     *)
(* exceeds it, and the queue implements the FIFO of module Outbox.         *)
(***************************************************************************)
EXTENDS ClientQueue, SequenceTheorems, TLAPS

(* The pieces of the actions. *)
USE DEF Unlocked, LinkBehind, Counted, ClearCurrent, TailAfterTake

(* Who holds sending_lock, and what a holder loaded. *)
LockInv ==
    /\ pc[Owner] \in OwnerPcs
    /\ \A t \in Publishers : pc[t] \in PublisherPcs
    /\ \A t \in Threads : pc[t] = "count" <=> sending_lock = t
    /\ \A t \in Threads : pc[t] = "count" =>
          /\ loaded[t] + 1 <= Backlog
          /\ ~lossy => loaded[t] + 1 = Backlog

(* A packet that a thread has built and not yet linked is private to it.   *)
Private(c) ==
    /\ c \in live
    /\ c # sending_cur_packet
    /\ next[c] = NULL
    /\ msg[c] \in 1..made
    /\ wcur[c] = 0
    /\ \A i \in Pending : at[i] # c
    /\ \A i \in 1..Len(put) : put[i] # msg[c]

PrivateInv ==
    /\ \A t \in Threads : pc[t] = "built" => Private(new_packet[t])
    /\ \A t, u \in Threads :
          (t # u /\ pc[t] = "built" /\ pc[u] = "built") =>
              /\ new_packet[t] # new_packet[u]
              /\ msg[new_packet[t]] # msg[new_packet[u]]

(* Messages are numbered once and taken in the order they were appended.   *)
OrderInv ==
    /\ \A i \in 1..Len(put) : put[i] <= made
    /\ \A i, j \in 1..Len(put) : put[i] = put[j] => i = j
    /\ Len(got) <= Len(put)
    /\ \A i \in 1..Len(got) : got[i] = put[i]

(* The attempts the writer still has to make are covered by the counter.   *)
WriterInv ==
    /\ sending_cur_packet \in live \cup {NULL}
    /\ pc[Owner] = "send" => sending_cur_packet \in live
    /\ pc[Owner] = "take" => num_sending >= 1
    /\ pc[Owner] \in {"take", "send"} =>
          /\ num_sending <= num_sending_pack
          /\ \A t \in Threads : pc[t] = "count" => num_sending <= loaded[t]

(* The inductive invariant. *)
IInv ==
    /\ TypeOK
    /\ ListIntact
    /\ CountBounded
    /\ LockInv
    /\ PrivateInv
    /\ OrderInv
    /\ WriterInv

(* Offsets and lengths of the packets that can still be written. *)
ByteInv ==
    /\ \A c \in live : wlen[c] \in Lens
    /\ \A i \in Pending : wcur[at[i]] = 0
    /\ sending_cur_packet = NULL => sent = 0
    /\ sending_cur_packet # NULL =>
          \/ wcur[sending_cur_packet] <= sent
          \/ wcur[sending_cur_packet] >= wlen[sending_cur_packet]
-----------------------------------------------------------------------------
(* Every state the program starts in satisfies the inductive invariant. *)
LEMMA InitIInv == Init => IInv
<1> SUFFICES ASSUME Init PROVE IInv
  OBVIOUS
<1> USE QueueAssumption DEF Init, Threads
<1>0. FlagsOK
  BY Zenon DEF FlagsOK
<1>1. TypeOK
  BY <1>0 DEF TypeOK, Nullable, OwnerPcs, PublisherPcs
<1>2. ListIntact
  BY DEF ListIntact, Backlog, Pending
<1>3. CountBounded
  BY DEF CountBounded, Backlog
<1>4. LockInv
  BY DEF LockInv, OwnerPcs, PublisherPcs
<1>5. PrivateInv
  BY DEF PrivateInv
<1>6. OrderInv
  BY DEF OrderInv
<1>7. WriterInv
  BY DEF WriterInv
<1> QED
  BY <1>1, <1>2, <1>3, <1>4, <1>5, <1>6, <1>7 DEF IInv

(* The list stays intact when the cells in it do. *)
LEMMA ListFrame ==
    ASSUME ListIntact, put \in Seq(Msgs), got \in Seq(Msgs),
           UNCHANGED <<sending_packet, sending_packet_tail, put, got, at>>,
           \A i \in Pending : /\ at[i] \in live'
                             /\ at[i] # sending_cur_packet'
                             /\ next'[at[i]] = next[at[i]]
                             /\ msg'[at[i]] = msg[at[i]]
    PROVE  ListIntact'
<1>1. Pending' = Pending /\ Backlog' = Backlog
  BY DEF Pending, Backlog
<1>2. Len(put) \in Nat /\ Len(got) \in Nat
  BY LenProperties
<1>3. Backlog > 0 => Len(put) \in Pending
  BY <1>2 DEF Backlog, Pending
<1>4. ASSUME NEW i \in Pending, NEW j \in Pending, j = i + 1
      PROVE  next'[at'[i]] = at'[j]
  BY <1>4 DEF ListIntact
<1>5. \A i \in Pending : /\ at'[i] \in live'
                         /\ at'[i] # sending_cur_packet'
                         /\ msg'[at'[i]] = put'[i]
  BY DEF ListIntact
<1>6. Backlog > 0 => next'[at'[Len(put')]] = NULL
  BY <1>3 DEF ListIntact
<1> QED
  BY <1>1, <1>4, <1>5, <1>6 DEF ListIntact

(* Taking the lock and linking a private packet behind the tail (the       *)
(* critical section of publish_msg and ack_msg) keeps the invariant.       *)
LEMMA LinkKeeps ==
    ASSUME IInv, NEW t \in Threads, Link(t)
    PROVE  IInv'
<1> DEFINE c == new_packet[t]
<1>1. /\ c \in Cells /\ c \in live /\ c # sending_cur_packet /\ c # NULL
      /\ next[c] = NULL /\ msg[c] \in Msgs
      /\ \A i \in Pending : at[i] # c
  BY QueueAssumption DEF IInv, TypeOK, PrivateInv, Private, Link, Msgs
<1>2. /\ put' = Append(put, msg[c]) /\ put' \in Seq(Msgs)
      /\ Len(put') = Len(put) + 1 /\ put'[Len(put) + 1] = msg[c]
      /\ \A i \in 1..Len(put) : put'[i] = put[i]
  BY <1>1, AppendProperties DEF IInv, TypeOK, Link
<1>3. Len(at) = Len(put) /\ Len(got) <= Len(put) /\ Len(put) \in Nat /\ Len(got) \in Nat
  BY DEF IInv, TypeOK, ListIntact
<1>4. /\ at' = Append(at, c) /\ at' \in Seq(Cells)
      /\ Len(at') = Len(put) + 1 /\ at'[Len(put) + 1] = c
      /\ \A i \in 1..Len(put) : at'[i] = at[i]
  BY <1>1, <1>3, AppendProperties DEF IInv, TypeOK, Link
<1>5. /\ got' = got /\ live' = live /\ sending_cur_packet' = sending_cur_packet
      /\ msg' = msg /\ wcur' = wcur
      /\ Pending' = Pending \cup {Len(put) + 1}
      /\ Pending \subseteq 1..Len(put)
  BY <1>2, <1>3 DEF Link, Pending
<1>6. FlagsOK' /\ (~lossy' => ~lossy)
  BY Zenon DEF IInv, TypeOK, FlagsOK, Link
<1>7. TypeOK'
  BY <1>1, <1>2, <1>4, <1>6 DEF IInv, TypeOK, Link, Goto, Nullable, OwnerPcs, PublisherPcs
<1>8. ListIntact'
  <2>1. CASE Backlog = 0
    <3>1. Pending = {} /\ sending_packet_tail = NULL
      BY <2>1, <1>3 DEF IInv, ListIntact, Backlog, Pending
    <3>2. sending_packet' = c /\ sending_packet_tail' = c /\ next' = next
      BY <3>1 DEF Link
    <3> QED
      BY <1>1, <1>2, <1>3, <1>4, <1>5, <2>1, <3>1, <3>2 DEF IInv, ListIntact, Backlog
  <2>2. CASE Backlog > 0
    <3>1. /\ sending_packet_tail = at[Len(put)] /\ sending_packet_tail # NULL
          /\ Len(put) \in Pending /\ Len(got) + 1 \in Pending
      <4>1. Len(put) \in Pending /\ Len(got) + 1 \in Pending
        BY <2>2, <1>3 DEF Backlog, Pending
      <4>2. sending_packet_tail = at[Len(put)] /\ at[Len(put)] \in live
        BY <2>2, <4>1 DEF IInv, ListIntact
      <4> QED
        BY <4>1, <4>2, QueueAssumption DEF IInv, TypeOK
    <3>2. /\ sending_packet' = sending_packet /\ sending_packet_tail' = c
          /\ next' = [next EXCEPT ![at[Len(put)]] = c]
      BY <3>1 DEF Link
    <3>3. /\ next'[c] = NULL
          /\ next'[at[Len(put)]] = c
          /\ \A i \in Pending : i # Len(put) => next'[at[i]] = next[at[i]]
      BY <1>1, <3>1, <3>2 DEF IInv, TypeOK, ListIntact
    <3>4. \A i, j \in Pending' : at'[i] = at'[j] => i = j
      BY <1>1, <1>3, <1>4, <1>5 DEF IInv, ListIntact
    <3>5. \A i, j \in Pending' : j = i + 1 => next'[at'[i]] = at'[j]
      BY <1>3, <1>4, <1>5, <3>3 DEF IInv, ListIntact
    <3>6. \A i \in Pending' : /\ at'[i] \in live'
                              /\ at'[i] # sending_cur_packet'
                              /\ msg'[at'[i]] = put'[i]
      BY <1>1, <1>2, <1>4, <1>5 DEF IInv, ListIntact
    <3>7. sending_packet' = at'[Len(got') + 1]
      BY <1>4, <1>5, <2>2, <3>1, <3>2 DEF IInv, ListIntact
    <3> QED
      BY <1>2, <1>3, <1>4, <1>5, <2>2, <3>2, <3>3, <3>4, <3>5, <3>6, <3>7 DEF ListIntact, Backlog
  <2> QED
    BY <1>3, <2>1, <2>2 DEF Backlog
<1>9. CountBounded'
  BY <1>2, <1>6, QueueAssumption DEF IInv, TypeOK, Link, CountBounded, Backlog, Threads
<1>10. LockInv'
  <2>1. pc[t] = "built" /\ pc' = [pc EXCEPT ![t] = "count"] /\ sending_lock' = t
    BY DEF Link, Goto
  <2>2. \A u \in Threads : pc[u] # "count"
    BY QueueAssumption DEF IInv, LockInv, Link
  <2>3. loaded'[t] + 1 <= Backlog' /\ (~lossy' => loaded'[t] + 1 = Backlog')
    BY <1>2, <1>6 DEF IInv, TypeOK, Link, CountBounded, Backlog
  <2> QED
    BY <2>1, <2>2, <2>3 DEF IInv, TypeOK, LockInv, Threads, OwnerPcs, PublisherPcs
<1>11. PrivateInv'
  <2>1. /\ pc' = [pc EXCEPT ![t] = "count"] /\ new_packet' = new_packet /\ made' = made
        /\ pc[t] = "built"
    BY DEF Link, Goto
  <2>2. ASSUME NEW u \in Threads, pc'[u] = "built"
        PROVE  Private(new_packet[u])'
    <3>1. u # t /\ pc[u] = "built" /\ Private(new_packet[u])
      BY <2>1, <2>2 DEF IInv, TypeOK, PrivateInv
    <3>2. new_packet[u] # c /\ msg[new_packet[u]] # msg[c]
      BY <2>1, <3>1 DEF IInv, PrivateInv
    <3>3. sending_packet_tail # NULL => sending_packet_tail # new_packet[u]
      BY <1>3, <3>1 DEF IInv, ListIntact, Private, Pending, Backlog
    <3>4. next'[new_packet[u]] = NULL
      BY <3>1, <3>3 DEF IInv, TypeOK, Link, Private
    <3> QED
      BY <1>2, <1>4, <1>5, <2>1, <3>1, <3>2, <3>4 DEF Private
  <2> QED
    BY <1>5, <2>1, <2>2 DEF IInv, TypeOK, PrivateInv
<1>12. OrderInv'
  BY <1>1, <1>2 DEF IInv, TypeOK, Link, OrderInv, PrivateInv, Private
<1>13. WriterInv'
  BY <1>2 DEF IInv, TypeOK, Link, Goto, WriterInv, LockInv, CountBounded
<1> QED
  BY <1>7, <1>8, <1>9, <1>10, <1>11, <1>12, <1>13 DEF IInv

(* Storing the counter and releasing the lock (the end of publish_msg and  *)
(* ack_msg) keeps the invariant.                                           *)
LEMMA CountKeeps ==
    ASSUME IInv, NEW t \in Threads, Count(t)
    PROVE  IInv'
<1>1. /\ pc[t] = "count" /\ sending_lock = t /\ sending_lock # NULL
      /\ \A u \in Threads : u # t => pc[u] # "count"
      /\ loaded[t] + 1 <= Backlog /\ (~lossy => loaded[t] + 1 = Backlog)
      /\ loaded[t] \in Nat
  BY QueueAssumption DEF IInv, TypeOK, LockInv, Count
<1>2. pc' = [pc EXCEPT ![t] = AfterAppend(t)]
  BY DEF Count, Goto
<1>3. /\ AfterAppend(t) \in OwnerPcs \cup PublisherPcs
      /\ t = Owner => AfterAppend(t) \in {"look", "remove", "publish"}
      /\ t # Owner => AfterAppend(t) = "idle"
  BY DEF IInv, TypeOK, AfterAppend, OwnerPcs, PublisherPcs
<1>4. FlagsOK' /\ (~lossy' => ~lossy)
  BY Zenon DEF IInv, TypeOK, FlagsOK, Count, histVars
<1>5. TypeOK'
  BY <1>1, <1>2, <1>3, <1>4 DEF IInv, TypeOK, Count, heapVars, histVars, Nullable
<1>6. ListIntact'
  BY DEF IInv, ListIntact, Count, heapVars, histVars, Backlog, Pending
<1>7. CountBounded'
  BY <1>1, <1>4 DEF Count, CountBounded, Backlog, histVars
<1>8. LockInv'
  BY <1>1, <1>2, <1>3, QueueAssumption DEF IInv, TypeOK, LockInv, Count, Threads, OwnerPcs, PublisherPcs
<1>9. PrivateInv'
  <2>1. \A u \in Threads : pc'[u] = "built" =>
            pc[u] = "built" /\ u # t /\ new_packet'[u] = new_packet[u]
    BY <1>1, <1>2, <1>3 DEF IInv, TypeOK, Count
  <2>2. \A c : Private(c)' <=> Private(c)
    BY DEF Private, Count, heapVars, histVars, Pending
  <2> QED
    BY <2>1, <2>2 DEF IInv, PrivateInv, Count, heapVars
<1>10. OrderInv'
  BY DEF IInv, OrderInv, Count, histVars
<1>11. WriterInv'
  <2>1. pc'[Owner] \in {"take", "send"} => t # Owner /\ pc'[Owner] = pc[Owner]
    BY <1>2, <1>3 DEF IInv, TypeOK, Threads
  <2>2. /\ sending_cur_packet' = sending_cur_packet /\ live' = live
        /\ num_sending' = num_sending /\ num_sending_pack' = loaded[t] + 1
        /\ \A u \in Threads : pc'[u] # "count"
    BY <1>1, <1>2, <1>3 DEF IInv, TypeOK, Count, heapVars
  <2> QED
    BY <1>1, <2>1, <2>2 DEF IInv, TypeOK, WriterInv
<1> QED
  BY <1>5, <1>6, <1>7, <1>8, <1>9, <1>10, <1>11 DEF IInv

(* A thread that is not in the middle of anything builds a private packet  *)
(* (the first half of publish_msg and ack_msg); the rest of the step may   *)
(* change the client's flags and counter.                                  *)
LEMMA BuildKeeps ==
    ASSUME IInv, NEW t \in Threads, Build(t),
           pc[t] = "idle" \/ pc[t] = "poll" \/ pc[t] = "publish",
           UNCHANGED <<sending_packet, sending_packet_tail, sending_cur_packet,
                       sending_lock, loaded, num_sending, put, got, at, sent>>,
           t # Owner => num_sending_pack' = num_sending_pack,
           num_sending_pack' \in Nat,
           FlagsOK', ~lossy' => ~lossy, CountBounded',
           state' \in {"cs_new", "cs_connected"},
           after' \in {"look", "remove", "publish"}
    PROVE  IInv'
<1>1. PICK c \in Cells \ live, n \in Lens :
          /\ live'       = live \cup {c}
          /\ next'       = [next EXCEPT ![c] = NULL]
          /\ msg'        = [msg EXCEPT ![c] = made + 1]
          /\ wcur'       = [wcur EXCEPT ![c] = 0]
          /\ wlen'       = [wlen EXCEPT ![c] = n]
          /\ new_packet' = [new_packet EXCEPT ![t] = c]
  BY DEF Build
<1>2. /\ made < MaxMsgs /\ made' = made + 1 /\ made \in Nat
      /\ pc' = [pc EXCEPT ![t] = "built"]
  BY DEF Build, Goto, IInv, TypeOK
<1>3. TypeOK'
  BY <1>1, <1>2, QueueAssumption DEF IInv, TypeOK, Nullable, OwnerPcs, PublisherPcs
<1>4. \A d \in live : d # c /\ next'[d] = next[d] /\ msg'[d] = msg[d] /\ wcur'[d] = wcur[d]
  BY <1>1 DEF IInv, TypeOK
<1>5. \A i \in Pending : at[i] \in live
  BY DEF IInv, ListIntact
<1>6. ListIntact'
  <2>1. \A i \in Pending : at[i] \in live' /\ at[i] # sending_cur_packet'
    BY <1>1, <1>5 DEF IInv, ListIntact
  <2> QED
    BY <1>4, <1>5, <2>1, ListFrame DEF IInv, TypeOK
<1>7. LockInv'
  BY <1>2 DEF IInv, TypeOK, LockInv, Backlog, Threads, OwnerPcs, PublisherPcs
<1>8. PrivateInv'
  <2>1. Private(c)'
    <3>1. c \in live' /\ c # sending_cur_packet'
      BY <1>1, QueueAssumption DEF IInv, WriterInv
    <3>2. next'[c] = NULL /\ msg'[c] = made + 1 /\ wcur'[c] = 0 /\ made + 1 \in 1..made'
      BY <1>1, <1>2 DEF IInv, TypeOK
    <3>3. \A i \in Pending' : at'[i] # c
      BY <1>4, <1>5 DEF Pending
    <3>4. \A i \in 1..Len(put) : put[i] # made + 1
      BY <1>2 DEF IInv, OrderInv
    <3> QED
      BY <3>1, <3>2, <3>3, <3>4 DEF Private
  <2>2. ASSUME NEW u \in Threads, u # t, pc'[u] = "built"
        PROVE  /\ new_packet'[u] = new_packet[u] /\ pc[u] = "built"
               /\ Private(new_packet[u])' /\ new_packet[u] # c
               /\ msg'[new_packet[u]] # msg'[c]
    <3>1. new_packet'[u] = new_packet[u] /\ pc[u] = "built" /\ Private(new_packet[u])
      BY <1>1, <1>2, <2>2 DEF IInv, TypeOK, PrivateInv
    <3> QED
      BY <1>1, <1>2, <1>4, <3>1 DEF IInv, TypeOK, Private, Pending
  <2>3. new_packet'[t] = c
    BY <1>1 DEF IInv, TypeOK
  <2>4. \A u \in Threads : pc'[u] = "built" => Private(new_packet[u])'
    BY <2>1, <2>2, <2>3
  <2>5. ASSUME NEW u \in Threads, NEW v \in Threads, u # v, pc'[u] = "built", pc'[v] = "built"
        PROVE  new_packet'[u] # new_packet'[v] /\ msg'[new_packet'[u]] # msg'[new_packet'[v]]
    <3>1. CASE u = t
      BY <2>2, <2>3, <2>5, <3>1
    <3>2. CASE v = t
      BY <2>2, <2>3, <2>5, <3>2
    <3>3. CASE u # t /\ v # t
      BY <1>4, <2>2, <2>5, <3>3 DEF IInv, PrivateInv, Private
    <3> QED
      BY <3>1, <3>2, <3>3
  <2> QED
    BY <2>4, <2>5 DEF PrivateInv
<1>9. OrderInv'
  <2>0. \A i \in 1..Len(put) : put[i] \in Msgs
    BY ElementOfSeq DEF IInv, TypeOK
  <2>1. \A i \in 1..Len(put) : put[i] \in Nat
    BY <2>0 DEF Msgs
  <2>2. \A i \in 1..Len(put) : put[i] <= made + 1
    BY <1>2, <2>1 DEF IInv, OrderInv
  <2> QED
    BY <1>2, <2>2 DEF IInv, OrderInv
<1>10. WriterInv'
  BY <1>1, <1>2 DEF IInv, TypeOK, WriterInv, Threads
<1> QED
  BY <1>3, <1>6, <1>7, <1>8, <1>9, <1>10 DEF IInv

(* A step of the owner outside an append that only moves its program       *)
(* counter, to a place where it has no attempt at a write ahead of it.     *)
LEMMA GotoKeeps ==
    ASSUME IInv, pc[Owner] # "built", pc[Owner] # "count",
           NEW to \in {"poll", "publish", "look", "remove"}, Goto(Owner, to),
           UNCHANGED <<ctxVars, heapVars, new_packet, loaded, after, histVars>>,
           num_sending' \in Nat
    PROVE  IInv'
<1> USE DEF ctxVars, heapVars, histVars
<1>1. pc' = [pc EXCEPT ![Owner] = to]
  BY DEF Goto
<1>2. FlagsOK' /\ (~lossy' => ~lossy)
  BY Zenon DEF IInv, TypeOK, FlagsOK
<1>3. TypeOK'
  BY <1>1, <1>2 DEF IInv, TypeOK, OwnerPcs, PublisherPcs
<1>4. ListIntact'
  BY ListFrame DEF IInv, TypeOK, ListIntact
<1>5. CountBounded'
  BY <1>2 DEF IInv, CountBounded, Backlog
<1>6. LockInv'
  BY <1>1, <1>2, QueueAssumption DEF IInv, TypeOK, LockInv, Backlog, Threads, OwnerPcs
<1>7. PrivateInv'
  BY <1>1 DEF IInv, TypeOK, PrivateInv, Private, Pending
<1>8. OrderInv'
  BY DEF IInv, OrderInv
<1>9. WriterInv'
  BY <1>1 DEF IInv, TypeOK, WriterInv, Threads
<1> QED
  BY <1>3, <1>4, <1>5, <1>6, <1>7, <1>8, <1>9 DEF IInv

(* Overwriting the counter with 0 (add_client, clean_context) is safe for  *)
(* its bound, whoever holds the lock.                                      *)
LEMMA ResetBounds ==
    ASSUME IInv, ResetCount, UNCHANGED <<sending_lock, put, got>>
    PROVE  CountBounded' /\ (~lossy' => ~lossy) /\ lossy' \in BOOLEAN
<1>1. Backlog \in Nat /\ Backlog' = Backlog
  BY DEF IInv, TypeOK, ListIntact, Backlog
<1>2. sending_lock # NULL => Backlog >= 1
  BY <1>1 DEF IInv, TypeOK, LockInv, Nullable
<1>3. /\ num_sending_pack' = 0
      /\ ~lossy' => ~lossy /\ ~(Backlog > 0)
      /\ lossy' \in BOOLEAN
  BY Zenon DEF IInv, TypeOK, FlagsOK, ResetCount
<1>4. CountBounded'
  BY <1>1, <1>2, <1>3 DEF CountBounded
<1> QED
  BY <1>3, <1>4

(* Leaving the counter alone keeps its bound. *)
LEMMA SameBounds ==
    ASSUME IInv, UNCHANGED <<num_sending_pack, lossy, sending_lock, put, got>>
    PROVE  CountBounded' /\ (~lossy' => ~lossy)
<1>1. ~lossy' => ~lossy
  BY Zenon
<1> QED
  BY <1>1 DEF IInv, CountBounded, Backlog

(* Every handler that appends a packet keeps the invariant. *)
LEMMA AppendersKeep ==
    ASSUME IInv,
           \/ \E t \in Threads : Publish(t)
           \/ HandleConnect \/ HandleConnectRefused
           \/ HandleSubscribe \/ HandleOther
    PROVE  IInv'
<1> USE DEF ctxVars
<1>1. ASSUME NEW t \in Threads, Publish(t) PROVE IInv'
  <2>1. FlagsOK'
    BY <1>1, Zenon DEF IInv, TypeOK, FlagsOK, Publish
  <2>2. CountBounded' /\ (~lossy' => ~lossy)
    BY <1>1, SameBounds DEF Publish
  <2> QED
    BY <1>1, <2>1, <2>2, BuildKeeps DEF IInv, TypeOK, Publish
<1>2. Owner \in Threads
  BY DEF Threads
<1>3. ASSUME HandleConnect PROVE IInv'
  <2>1. CountBounded' /\ (~lossy' => ~lossy) /\ lossy' \in BOOLEAN
    BY <1>3, ResetBounds DEF HandleConnect, Reply
  <2>2. FlagsOK'
    BY <1>3, <2>1, Zenon DEF IInv, TypeOK, FlagsOK, HandleConnect, Reply
  <2> QED
    BY <1>2, <1>3, <2>1, <2>2, BuildKeeps DEF IInv, TypeOK, HandleConnect, Reply, ResetCount
<1>4. ASSUME NEW to \in {"look", "remove"}, Reply(to),
             UNCHANGED <<num_sending_pack, lossy, state>>, is_subscribe' \in BOOLEAN
      PROVE  IInv'
  <2>1. CountBounded' /\ (~lossy' => ~lossy)
    BY <1>4, SameBounds DEF Reply
  <2>2. FlagsOK'
    BY <1>4, Zenon DEF IInv, TypeOK, FlagsOK, Reply
  <2> QED
    BY <1>2, <1>4, <2>1, <2>2, BuildKeeps DEF IInv, TypeOK, Reply
<1>5. ASSUME HandleConnectRefused \/ HandleOther PROVE IInv'
  <2>1. is_subscribe' \in BOOLEAN
    BY <1>5, Zenon DEF IInv, TypeOK, FlagsOK, HandleConnectRefused, HandleOther
  <2> QED
    BY <1>4, <1>5, <2>1 DEF HandleConnectRefused, HandleOther
<1>6. ASSUME HandleSubscribe PROVE IInv'
  <2>1. is_subscribe' \in BOOLEAN
    BY <1>6, Zenon DEF IInv, TypeOK, FlagsOK, HandleSubscribe
  <2>2. PICK to \in {"look", "remove"} : Reply(to)
    BY <1>6 DEF HandleSubscribe
  <2> QED
    BY <1>4, <1>6, <2>1, <2>2 DEF HandleSubscribe
<1> QED
  BY <1>1, <1>3, <1>5, <1>6

(* A new connection in the slot keeps the invariant: nothing the list is   *)
(* made of changes, and what an earlier client left in it is still there.  *)
LEMMA AcceptKeeps ==
    ASSUME IInv, Accept
    PROVE  IInv'
<1> USE DEF Accept, heapVars, thrVars, histVars
<1>1. FlagsOK' /\ CountBounded' /\ (~lossy' => ~lossy)
  <2>1. FlagsOK'
    BY Zenon DEF IInv, TypeOK, FlagsOK
  <2> QED
    BY <2>1, SameBounds
<1>2. TypeOK'
  BY <1>1 DEF IInv, TypeOK
<1>3. ListIntact'
  BY ListFrame DEF IInv, TypeOK, ListIntact
<1>4. LockInv' /\ PrivateInv' /\ OrderInv' /\ WriterInv'
  BY <1>1 DEF IInv, LockInv, PrivateInv, Private, OrderInv, WriterInv, Backlog, Pending
<1> QED
  BY <1>1, <1>2, <1>3, <1>4 DEF IInv

(* Freeing the packet being written, and forgetting it, keeps the list:    *)
(* no other pointer leads to it.                                           *)
LEMMA FreeKeeps ==
    ASSUME IInv, live' = live \ {sending_cur_packet}, sending_cur_packet' = NULL,
           UNCHANGED <<sending_packet, sending_packet_tail, next, msg, wcur, new_packet,
                       made, put, got, at>>,
           NEW to \in {"poll", "take"}, Goto(Owner, to)
    PROVE  ListIntact' /\ PrivateInv' /\ OrderInv'
<1>1. \A i \in Pending : at[i] \in live' /\ at[i] # sending_cur_packet'
  BY QueueAssumption DEF IInv, TypeOK, ListIntact
<1>2. ListIntact'
  BY <1>1, ListFrame DEF IInv, TypeOK
<1>3. \A u \in Threads : pc'[u] = "built" => pc[u] = "built"
  BY DEF IInv, TypeOK, Goto
<1>4. \A c \in Cells : Private(c) => Private(c)'
  BY QueueAssumption DEF Private, Pending
<1>5. \A u \in Threads : pc[u] = "built" => new_packet[u] \in Cells
  BY DEF IInv, TypeOK, PrivateInv, Private
<1>6. PrivateInv'
  BY <1>3, <1>4, <1>5 DEF IInv, PrivateInv
<1>7. OrderInv'
  BY DEF IInv, OrderInv
<1> QED
  BY <1>2, <1>6, <1>7

(* remove_client keeps the invariant. *)
LEMMA RemoveKeeps ==
    ASSUME IInv, Remove
    PROVE  IInv'
<1>1. pc[Owner] = "remove" /\ pc' = [pc EXCEPT ![Owner] = "poll"]
  BY DEF Remove, Goto
<1>2. ListIntact' /\ PrivateInv' /\ OrderInv'
  BY FreeKeeps DEF Remove
<1>3. CountBounded' /\ (~lossy' => ~lossy) /\ lossy' \in BOOLEAN
  BY ResetBounds DEF Remove
<1>4. FlagsOK'
  BY <1>3, Zenon DEF IInv, TypeOK, FlagsOK, Remove
<1>5. TypeOK'
  BY <1>1, <1>4 DEF IInv, TypeOK, Remove, ResetCount, Nullable, OwnerPcs, PublisherPcs
<1>6. LockInv'
  BY <1>1, <1>3 DEF IInv, TypeOK, LockInv, Backlog, Remove, Threads, OwnerPcs, PublisherPcs
<1>7. WriterInv'
  BY <1>1 DEF IInv, TypeOK, WriterInv, Remove, Threads
<1> QED
  BY <1>2, <1>3, <1>5, <1>6, <1>7 DEF IInv

(* Freeing a packet that counts as sent keeps the invariant. *)
LEMMA RetireKeeps ==
    ASSUME IInv, Retire
    PROVE  IInv'
<1> DEFINE to == IF num_sending > 0 THEN "take" ELSE "poll"
<1>1. pc[Owner] = "send" /\ pc' = [pc EXCEPT ![Owner] = to]
  BY DEF Retire, Goto
<1>2. ListIntact' /\ PrivateInv' /\ OrderInv'
  BY FreeKeeps DEF Retire, cur
<1>3. CountBounded' /\ (~lossy' => ~lossy)
  BY SameBounds DEF Retire
<1>4. FlagsOK'
  BY Zenon DEF IInv, TypeOK, FlagsOK, Retire
<1>5. TypeOK'
  BY <1>1, <1>4 DEF IInv, TypeOK, Retire, Nullable, OwnerPcs, PublisherPcs
<1>6. LockInv'
  BY <1>1, <1>3 DEF IInv, TypeOK, LockInv, Backlog, Retire, Threads, OwnerPcs, PublisherPcs
<1>7. WriterInv'
  BY <1>1 DEF IInv, TypeOK, WriterInv, Retire, Threads
<1> QED
  BY <1>2, <1>3, <1>5, <1>6, <1>7 DEF IInv

(* Reading the counter starts a round of attempts that the counter covers. *)
LEMMA LookKeeps ==
    ASSUME IInv, Look
    PROVE  IInv'
<1>1. CASE num_sending_pack < 1
  BY <1>1, GotoKeeps DEF IInv, TypeOK, Look
<1>2. CASE ~(num_sending_pack < 1)
  <2> USE DEF ctxVars, heapVars, histVars
  <2>1. /\ pc[Owner] = "look" /\ pc' = [pc EXCEPT ![Owner] = "take"]
        /\ num_sending' = num_sending_pack /\ sending_lock = NULL
        /\ \A t \in Threads : pc'[t] # "count"
    BY <1>2, QueueAssumption DEF Look, Goto, IInv, TypeOK, LockInv
  <2>2. FlagsOK' /\ CountBounded' /\ (~lossy' => ~lossy)
    <3>1. FlagsOK'
      BY Zenon DEF IInv, TypeOK, FlagsOK, Look
    <3> QED
      BY <3>1, SameBounds DEF Look
  <2>3. TypeOK'
    BY <2>1, <2>2 DEF IInv, TypeOK, Look, OwnerPcs, PublisherPcs
  <2>4. ListIntact'
    BY ListFrame DEF IInv, TypeOK, ListIntact, Look
  <2>5. LockInv'
    BY <2>1, QueueAssumption DEF IInv, TypeOK, LockInv, Look, Threads, OwnerPcs
  <2>6. PrivateInv'
    BY <2>1 DEF IInv, TypeOK, PrivateInv, Private, Pending, Look
  <2>7. OrderInv'
    BY DEF IInv, OrderInv, Look
  <2>8. WriterInv'
    BY <1>2, <2>1 DEF IInv, TypeOK, WriterInv, Threads, Look
  <2> QED
    BY <2>2, <2>3, <2>4, <2>5, <2>6, <2>7, <2>8 DEF IInv
<1> QED
  BY <1>1, <1>2

(* Whatever send returns, moving the offset of the current packet keeps    *)
(* the invariant.                                                          *)
LEMMA AdvanceKeeps ==
    ASSUME IInv, pc[Owner] = "send", NEW r \in Int, Advance(r), sent' \in Nat
    PROVE  IInv'
<1> USE DEF Advance, ctxVars, thrVars
<1>1. (wcur[cur] + (r % UINT)) % UINT \in 0..(UINT - 1) /\ cur \in Cells
  BY QueueAssumption DEF IInv, TypeOK, WriterInv, cur
<1>2. FlagsOK' /\ CountBounded' /\ (~lossy' => ~lossy)
  <2>1. FlagsOK'
    BY Zenon DEF IInv, TypeOK, FlagsOK
  <2> QED
    BY <2>1, SameBounds
<1>3. TypeOK'
  BY <1>1, <1>2 DEF IInv, TypeOK
<1>4. ListIntact'
  BY ListFrame DEF IInv, TypeOK, ListIntact
<1>5. \A c \in Cells : Private(c) => Private(c)'
  BY <1>1 DEF IInv, TypeOK, Private, Pending, cur
<1>6. PrivateInv'
  <2>1. \A u \in Threads : pc[u] = "built" => new_packet[u] \in Cells
    BY DEF IInv, TypeOK, PrivateInv, Private
  <2>2. UNCHANGED <<pc, new_packet, msg>>
    OBVIOUS
  <2> QED
    BY <1>5, <2>1, <2>2 DEF IInv, PrivateInv
<1>7. LockInv' /\ OrderInv' /\ WriterInv'
  BY <1>2 DEF IInv, LockInv, OrderInv, WriterInv, Backlog
<1> QED
  BY <1>2, <1>3, <1>4, <1>6, <1>7 DEF IInv

(* One attempt finds what the counter promised: a packet in the list, or   *)
(* an unfinished one.                                                      *)
LEMMA TakeKeeps ==
    ASSUME IInv, Take
    PROVE  IInv'
<1>1. /\ pc[Owner] = "take" /\ pc' = [pc EXCEPT ![Owner] = "send"]
      /\ sending_lock = NULL /\ sending_lock' = NULL
      /\ \A t \in Threads : pc[t] # "count" /\ pc'[t] # "count"
      /\ num_sending >= 1 /\ num_sending <= num_sending_pack
      /\ num_sending_pack' = num_sending_pack - 1 /\ num_sending' = num_sending - 1
      /\ num_sending \in Nat /\ num_sending_pack \in Nat
      /\ UNCHANGED <<state, after, sent>>
  BY QueueAssumption DEF Take, Goto, IInv, TypeOK, LockInv, WriterInv
<1>2. /\ Len(put) \in Nat /\ Len(got) \in Nat /\ Len(at) = Len(put)
      /\ Backlog = Len(put) - Len(got) /\ Backlog >= 1
      /\ Len(got) + 1 \in Pending /\ sending_packet = at[Len(got) + 1]
      /\ sending_packet \in live /\ sending_packet # NULL
      /\ msg[sending_packet] = put[Len(got) + 1]
  <2>1. Len(put) \in Nat /\ Len(got) \in Nat /\ Len(at) = Len(put)
    BY LenProperties DEF IInv, TypeOK, ListIntact
  <2>2. Backlog = Len(put) - Len(got) /\ Backlog >= 1
    BY <1>1, <2>1 DEF IInv, TypeOK, CountBounded, Backlog
  <2>3. Len(got) + 1 \in Pending
    BY <2>1, <2>2 DEF Pending
  <2> QED
    BY <2>1, <2>2, <2>3, QueueAssumption DEF IInv, TypeOK, ListIntact
<1>3. ~lossy' => ~lossy /\ sending_cur_packet = NULL
  BY Zenon DEF Take
<1>4. FlagsOK'
  BY Zenon DEF IInv, TypeOK, FlagsOK, Take
<1>5. CASE sending_cur_packet # NULL
  <2>1. UNCHANGED <<sending_packet, sending_packet_tail, sending_cur_packet, got,
                    live, next, msg, wcur, wlen, new_packet, loaded, made, put, at>>
    BY <1>5 DEF Take, heapVars
  <2>2. TypeOK'
    <3>1. pc' \in [Threads -> OwnerPcs \cup PublisherPcs]
      BY <1>1 DEF IInv, TypeOK, OwnerPcs, PublisherPcs
    <3>2. num_sending' \in Nat /\ num_sending_pack' \in Nat /\ sending_lock' \in Nullable(Threads)
      BY <1>1 DEF Nullable
    <3> QED
      BY <1>1, <1>4, <2>1, <3>1, <3>2 DEF IInv, TypeOK
  <2>3. ListIntact'
    BY <2>1, ListFrame DEF IInv, TypeOK, ListIntact
  <2>4. CountBounded'
    BY <1>1, <1>3, <1>5, <2>1 DEF IInv, TypeOK, CountBounded, Backlog
  <2>5. LockInv'
    BY <1>1, QueueAssumption DEF IInv, TypeOK, LockInv, Threads, OwnerPcs
  <2>6. PrivateInv'
    BY <1>1, <2>1 DEF IInv, TypeOK, PrivateInv, Private, Pending
  <2>7. OrderInv'
    BY <2>1 DEF IInv, OrderInv
  <2>8. WriterInv'
    BY <1>1, <1>5, <2>1 DEF IInv, TypeOK, WriterInv, Threads
  <2> QED
    BY <2>2, <2>3, <2>4, <2>5, <2>6, <2>7, <2>8 DEF IInv
<1>6. CASE sending_cur_packet = NULL
  <2>1. /\ sending_cur_packet' = sending_packet
        /\ sending_packet' = next[sending_packet]
        /\ sending_packet_tail' = IF next[sending_packet] = NULL
                                  THEN NULL ELSE sending_packet_tail
        /\ got' = Append(got, put[Len(got) + 1])
        /\ UNCHANGED <<live, next, msg, wcur, wlen, new_packet, loaded, made, put, at>>
    BY <1>2, <1>6 DEF Take, heapVars
  <2>2. put[Len(got) + 1] \in Msgs
    BY <1>2, ElementOfSeq DEF IInv, TypeOK, Pending
  <2>3. /\ got' \in Seq(Msgs) /\ Len(got') = Len(got) + 1
        /\ got'[Len(got) + 1] = put[Len(got) + 1]
        /\ \A i \in 1..Len(got) : got'[i] = got[i]
    BY <2>1, <2>2, AppendProperties DEF IInv, TypeOK
  <2>4. Pending' \subseteq Pending /\ Pending = Pending' \cup {Len(got) + 1}
        /\ Len(got) + 1 \notin Pending' /\ Backlog' = Backlog - 1
    BY <1>2, <2>1, <2>3 DEF Pending, Backlog
  <2>5. TypeOK'
    <3>1. sending_packet \in Cells /\ next[sending_packet] \in Nullable(Cells)
      BY <1>2 DEF IInv, TypeOK
    <3>2. sending_packet_tail' \in Nullable(Cells)
      BY <2>1 DEF IInv, TypeOK, Nullable
    <3>3. pc' \in [Threads -> OwnerPcs \cup PublisherPcs]
      BY <1>1 DEF IInv, TypeOK, OwnerPcs, PublisherPcs
    <3>4. num_sending' \in Nat /\ num_sending_pack' \in Nat
      BY <1>1
    <3> QED
      BY <1>1, <1>4, <2>1, <2>3, <3>1, <3>2, <3>3, <3>4 DEF IInv, TypeOK, Nullable
  <2>6. ListIntact'
    <3>1. \A i \in Pending' : /\ at[i] \in live /\ at[i] # sending_packet
                              /\ msg[at[i]] = put[i]
      BY <1>2, <2>4 DEF IInv, ListIntact
    <3>2. \A i, j \in Pending' : /\ j = i + 1 => next[at[i]] = at[j]
                                 /\ at[i] = at[j] => i = j
      BY <2>4 DEF IInv, ListIntact
    <3>3. CASE Backlog = 1
      <4>1. next[sending_packet] = NULL
        BY <1>2, <3>3 DEF IInv, ListIntact
      <4> QED
        BY <1>2, <2>1, <2>3, <2>4, <3>1, <3>2, <3>3, <4>1 DEF ListIntact
    <3>4. CASE Backlog > 1
      <4>1. Len(got) + 2 \in Pending
        BY <1>2, <3>4 DEF Pending
      <4>2. next[sending_packet] = at[Len(got) + 2] /\ at[Len(got) + 2] \in live
        BY <1>2, <4>1 DEF IInv, ListIntact
      <4>4. at[Len(got) + 2] # NULL
        BY <4>2, QueueAssumption DEF IInv, TypeOK
      <4>3. sending_packet_tail = at[Len(put)] /\ next[at[Len(put)]] = NULL
        BY <1>2, <3>4 DEF IInv, ListIntact
      <4> QED
        BY <1>2, <2>1, <2>3, <2>4, <3>1, <3>2, <3>4, <4>2, <4>4, <4>3 DEF ListIntact
    <3> QED
      BY <1>2, <3>3, <3>4
  <2>7. CountBounded'
    BY <1>1, <1>2, <1>3, <2>4 DEF IInv, TypeOK, CountBounded
  <2>8. LockInv'
    BY <1>1, QueueAssumption DEF IInv, TypeOK, LockInv, Threads, OwnerPcs
  <2>9. PrivateInv'
    <3>1. \A u \in Threads : pc'[u] = "built" => pc[u] = "built"
      BY <1>1 DEF IInv, TypeOK
    <3>2. \A c : Private(c) => Private(c)'
      BY <1>2, <2>1, <2>4 DEF Private
    <3> QED
      BY <2>1, <3>1, <3>2 DEF IInv, PrivateInv
  <2>10. OrderInv'
    BY <1>2, <2>1, <2>3 DEF IInv, OrderInv
  <2>11. WriterInv'
    BY <1>1, <1>2, <2>1 DEF IInv, TypeOK, WriterInv, Threads
  <2> QED
    BY <2>5, <2>6, <2>7, <2>8, <2>9, <2>10, <2>11 DEF IInv
<1> QED
  BY <1>5, <1>6

(* Steps that change none of the variables keep the invariant. *)
LEMMA StutterKeeps ==
    ASSUME IInv, UNCHANGED vars
    PROVE  IInv'
<1> USE DEF vars, ctxVars, heapVars, thrVars, histVars
<1>1. FlagsOK' /\ (~lossy' => ~lossy) /\ CountBounded'
  <2>1. FlagsOK'
    BY Zenon DEF IInv, TypeOK, FlagsOK
  <2> QED
    BY <2>1, SameBounds
<1>2. TypeOK'
  BY <1>1 DEF IInv, TypeOK
<1>3. ListIntact'
  BY ListFrame DEF IInv, TypeOK, ListIntact
<1>4. LockInv' /\ PrivateInv' /\ OrderInv' /\ WriterInv'
  BY <1>1 DEF IInv, LockInv, PrivateInv, Private, OrderInv, WriterInv, Backlog, Pending
<1> QED
  BY <1>1, <1>2, <1>3, <1>4 DEF IInv

(* The invariant is inductive: every action of every thread keeps it. *)
THEOREM Inductive == Spec => []IInv
<1>1. ASSUME IInv, [Next]_vars PROVE IInv'
  <2>1. ASSUME NEW t \in Threads, Link(t) \/ Count(t) PROVE IInv'
    BY <1>1, <2>1, LinkKeeps, CountKeeps
  <2>2. CASE \/ \E t \in Threads : Publish(t)
             \/ HandleConnect \/ HandleConnectRefused
             \/ HandleSubscribe \/ HandleOther
    BY <1>1, <2>2, AppendersKeep
  <2>3. CASE Accept
    BY <1>1, <2>3, AcceptKeeps
  <2>4. CASE HandleClose \/ NoEvent \/ HandlePublish \/ PublishDone \/ SendNothing
    <3>1. /\ pc[Owner] # "built" /\ pc[Owner] # "count"
          /\ \E to \in {"poll", "publish", "look", "remove"} : Goto(Owner, to)
          /\ UNCHANGED <<ctxVars, heapVars, new_packet, loaded, num_sending, after, histVars>>
      BY <2>4 DEF HandleClose, NoEvent, HandlePublish, PublishDone, SendNothing, MoreToSend
    <3> QED
      BY <1>1, <3>1, GotoKeeps DEF IInv, TypeOK
  <2>5. CASE Remove
    BY <1>1, <2>5, RemoveKeeps
  <2>6. CASE Look
    BY <1>1, <2>6, LookKeeps
  <2>7. CASE Take
    BY <1>1, <2>7, TakeKeeps
  <2>8. CASE SendSome
    <3>1. PICK n \in 1..(wlen[cur] - wcur[cur]) :
              /\ Advance(n)
              /\ sent' = IF wcur[cur] <= sent /\ sent < wcur[cur] + n
                         THEN wcur[cur] + n ELSE sent
      BY <2>8 DEF SendSome
    <3>2. n \in Int /\ sent' \in Nat /\ pc[Owner] = "send"
      BY <1>1, <2>8, <3>1 DEF IInv, TypeOK, WriterInv, cur, SendSome, MoreToSend
    <3> QED
      BY <1>1, <3>1, <3>2, AdvanceKeeps
  <2>9. CASE SendFails
    <3>1. -1 \in Int /\ Advance(-1) /\ sent' \in Nat /\ pc[Owner] = "send"
      BY <1>1, <2>9 DEF SendFails, MoreToSend, IInv, TypeOK
    <3> QED
      BY <1>1, <3>1, AdvanceKeeps
  <2>10. CASE Retire
    BY <1>1, <2>10, RetireKeeps
  <2>11. CASE UNCHANGED vars
    BY <1>1, <2>11, StutterKeeps
  <2> QED
    BY <1>1, <2>1, <2>2, <2>3, <2>4, <2>5, <2>6, <2>7, <2>8, <2>9, <2>10, <2>11
    DEF Next, ReadPhase, WritePhase
<1> QED
  BY <1>1, InitIInv, PTL DEF Spec

(* Every variable of the queue and of its threads keeps its type; in       *)
(* particular num_sending_pack is never negative, although the writer      *)
(* decrements it unconditionally (loop_run).                               *)
THEOREM TypeCorrect == Spec => []TypeOK
BY Inductive, PTL DEF IInv

(* The send loop of loop_run never dereferences a null or freed packet,    *)
(* whatever the publishers append and however often the counter was        *)
(* overwritten by add_client or clean_context.                             *)
THEOREM WriterSafe == Spec => []CurrentAllocated
<1>1. IInv => CurrentAllocated
  BY DEF IInv, WriterInv, CurrentAllocated
<1> QED
  BY <1>1, Inductive, PTL

(* The pointers sending_packet, sending_packet_tail and next always form   *)
(* the list of the packets appended and not yet taken.                     *)
THEOREM ListCorrect == Spec => []ListIntact
BY Inductive, PTL DEF IInv

(* num_sending_pack never exceeds the number of packets in the list, and   *)
(* equals it until a store without the lock or a retry makes it fall back. *)
THEOREM CountCorrect == Spec => []CountBounded
BY Inductive, PTL DEF IInv

(* Packets are taken by the writer in the order in which the publishers    *)
(* and the acknowledgements were appended, each at most once: the linked   *)
(* list of struct packet implements the abstract FIFO.                     *)
THEOREM QueueIsFifo == Spec => ImplementsOutbox
<1>1. Init => Box!Init
  BY DEF Init, Box!Init
<1>2. ASSUME IInv, [Next]_vars PROVE [Box!Next]_(Box!vars)
  <2>1. ASSUME NEW t \in Threads, Link(t) PROVE Box!Next
    <3>1. /\ Private(new_packet[t]) /\ msg[new_packet[t]] \in Msgs
          /\ put' = Append(put, msg[new_packet[t]]) /\ got' = got
      BY <1>2, <2>1 DEF IInv, TypeOK, PrivateInv, Private, Link, Msgs
    <3>2. Box!Put(msg[new_packet[t]])
      BY <3>1 DEF Private, Box!Put
    <3> QED
      BY <3>1, <3>2 DEF Box!Next
  <2>2. CASE Take
    <3>1. CASE sending_packet # NULL /\ sending_cur_packet = NULL
      <4>1. /\ got' = Append(got, msg[sending_packet]) /\ put' = put
        BY <2>2, <3>1 DEF Take
      <4>2. Len(put) \in Nat /\ Len(got) \in Nat /\ Len(got) <= Len(put)
        BY <1>2, LenProperties DEF IInv, TypeOK, ListIntact
      <4>3. Backlog > 0
        BY <1>2, <3>1, <4>2 DEF IInv, ListIntact, Backlog
      <4>4. Len(got) + 1 \in Pending /\ Len(got) < Len(put)
        BY <4>2, <4>3 DEF Backlog, Pending
      <4>5. msg[sending_packet] = put[Len(got) + 1]
        BY <1>2, <4>3, <4>4 DEF IInv, ListIntact
      <4> QED
        BY <4>1, <4>4, <4>5 DEF Box!Get, Box!Next
    <3>2. CASE ~(sending_packet # NULL /\ sending_cur_packet = NULL)
      BY <2>2, <3>2 DEF Take, Box!vars
    <3> QED
      BY <3>1, <3>2
  <2>3. CASE \/ \E t \in Threads : Count(t) \/ Publish(t)
             \/ Accept \/ ReadPhase
             \/ Look \/ SendSome \/ SendFails \/ SendNothing \/ Retire
             \/ UNCHANGED vars
    <3> USE DEF histVars, Box!vars
    <3>1. CASE \/ \E t \in Threads : Count(t) \/ Publish(t)
               \/ Accept \/ Look \/ SendNothing \/ Retire
      BY <3>1 DEF Count, Publish, Accept, Look, SendNothing, Retire
    <3>2. CASE SendSome \/ SendFails
      BY <3>2 DEF SendSome, SendFails, Advance
    <3>3. CASE ReadPhase
      BY <3>3 DEF ReadPhase, HandleConnect, HandleConnectRefused, HandleSubscribe,
                  HandleOther, HandlePublish, PublishDone, HandleClose, NoEvent,
                  Remove, Reply
    <3>4. CASE UNCHANGED vars
      BY <3>4 DEF vars
    <3> QED
      BY <2>3, <3>1, <3>2, <3>3, <3>4
  <2> QED
    BY <1>2, <2>1, <2>2, <2>3 DEF Next, WritePhase
<1> QED
  BY <1>1, <1>2, Inductive, PTL DEF Spec, ImplementsOutbox, Box!Spec
-----------------------------------------------------------------------------
(* Sums of uint32_t values: no wrap below 2^32, and adding (uint32_t)-1    *)
(* subtracts one, or wraps to the largest value from zero.                 *)
LEMMA AddNoWrap ==
    ASSUME NEW x \in Nat, NEW n \in Nat, x + n < UINT
    PROVE  (x + (n % UINT)) % UINT = x + n
<1>1. \A k \in Nat : k < UINT => k % UINT = k
  BY QueueAssumption
<1> QED
  BY <1>1, QueueAssumption

LEMMA AddMinusOne ==
    ASSUME NEW x \in Nat, x < UINT
    PROVE  (x + ((-1) % UINT)) % UINT = IF x = 0 THEN UINT - 1 ELSE x - 1
<1>1. (-1) % UINT = UINT - 1
  BY QueueAssumption
<1>2. \A k \in Nat : k < UINT => k % UINT = k
  BY QueueAssumption
<1>3. CASE x = 0
  BY <1>1, <1>2, <1>3, QueueAssumption
<1>4. CASE x # 0
  <2>1. x - 1 \in Nat /\ x - 1 < UINT
    BY <1>4, QueueAssumption
  <2>2. x + (UINT - 1) = (x - 1) + UINT
    BY QueueAssumption
  <2>3. ((x - 1) + UINT) % UINT = (x - 1) % UINT
    BY <2>1, QueueAssumption
  <2> QED
    BY <1>1, <1>2, <1>4, <2>1, <2>2, <2>3
<1> QED
  BY <1>3, <1>4

(* Building a packet does not touch the bytes of those that exist. *)
LEMMA BuildBytes ==
    ASSUME IInv, ByteInv, NEW t \in Threads, Build(t),
           UNCHANGED <<sending_cur_packet, put, got, at, sent>>
    PROVE  ByteInv'
<1>1. PICK c \in Cells \ live, n \in Lens :
          /\ live' = live \cup {c}
          /\ wcur' = [wcur EXCEPT ![c] = 0]
          /\ wlen' = [wlen EXCEPT ![c] = n]
  BY DEF Build
<1>2. \A d \in live : d # c /\ wcur'[d] = wcur[d] /\ wlen'[d] = wlen[d]
  BY <1>1 DEF IInv, TypeOK
<1>3. wlen'[c] = n
  BY <1>1 DEF IInv, TypeOK
<1>4. \A i \in Pending : at[i] \in live
  BY DEF IInv, ListIntact
<1>5. sending_cur_packet # NULL => sending_cur_packet \in live
  BY DEF IInv, WriterInv
<1> QED
  BY <1>1, <1>2, <1>3, <1>4, <1>5 DEF ByteInv, Pending

(* Freeing the current packet leaves nothing written and nothing sent. *)
LEMMA FreeBytes ==
    ASSUME ByteInv, live' = live \ {sending_cur_packet}, sending_cur_packet' = NULL,
           sent' = 0, UNCHANGED <<wcur, wlen, put, got, at>>
    PROVE  ByteInv'
BY DEF ByteInv, Pending

(* A step that leaves the packets, the queue and the writer alone. *)
LEMMA QuietBytes ==
    ASSUME ByteInv,
           UNCHANGED <<live, wcur, wlen, sending_cur_packet, put, got, at, sent>>
    PROVE  ByteInv'
BY DEF ByteInv, Pending

(* After any send, the offset has not passed the bytes sent, or the packet *)
(* counts as complete.                                                     *)
LEMMA SendBytes ==
    ASSUME IInv, ByteInv, SendSome \/ SendFails
    PROVE  ByteInv'
<1> USE DEF cur
<1>1. /\ cur \in live /\ cur \in Cells /\ cur # NULL /\ pc[Owner] = "send"
      /\ wlen[cur] \in Nat /\ wlen[cur] < UINT /\ wcur[cur] \in Nat
      /\ wcur[cur] < wlen[cur] /\ wcur[cur] <= sent /\ sent \in Nat
  <2>1. pc[Owner] = "send" /\ wcur[cur] < wlen[cur]
    BY DEF SendSome, SendFails, MoreToSend
  <2>2. cur \in live /\ cur \in Cells /\ cur # NULL
    BY <2>1, QueueAssumption DEF IInv, TypeOK, WriterInv
  <2>3. wlen[cur] \in Lens /\ wcur[cur] \in Nat /\ sent \in Nat
    BY <2>2 DEF IInv, TypeOK, ByteInv
  <2>4. wlen[cur] \in Nat /\ wlen[cur] < UINT
    BY <2>3, QueueAssumption
  <2>5. wcur[cur] <= sent
    BY <2>1, <2>2, <2>3, <2>4 DEF ByteInv
  <2> QED
    BY <2>1, <2>2, <2>3, <2>4, <2>5
<1>2. \A i \in Pending : at[i] # cur
  BY DEF IInv, ListIntact
<1>3. /\ \E v : wcur' = [wcur EXCEPT ![cur] = v]
      /\ UNCHANGED <<live, wlen, sending_cur_packet, put, got, at>>
  BY DEF SendSome, SendFails, Advance, ctxVars
<1>4. wcur'[cur] <= sent' \/ wcur'[cur] >= wlen[cur]
  <2>1. CASE SendSome
    <3>1. PICK n \in 1..(wlen[cur] - wcur[cur]) :
              /\ Advance(n)
              /\ sent' = IF wcur[cur] <= sent /\ sent < wcur[cur] + n
                         THEN wcur[cur] + n ELSE sent
      BY <2>1 DEF SendSome
    <3>2. n \in Nat /\ n <= wlen[cur] - wcur[cur] /\ wcur[cur] + n < UINT
      BY <1>1, QueueAssumption
    <3>3. wcur'[cur] = wcur[cur] + n
      BY <1>1, <3>1, <3>2, AddNoWrap DEF IInv, TypeOK, Advance
    <3> QED
      BY <1>1, <3>1, <3>2, <3>3
  <2>2. CASE SendFails
    <3>1. wcur'[cur] = IF wcur[cur] = 0 THEN UINT - 1 ELSE wcur[cur] - 1
      <4>1. wcur[cur] < UINT
        BY <1>1, QueueAssumption
      <4>2. (wcur[cur] + ((-1) % UINT)) % UINT = IF wcur[cur] = 0 THEN UINT - 1 ELSE wcur[cur] - 1
        BY <1>1, <4>1, AddMinusOne
      <4>3. wcur' = [wcur EXCEPT ![cur] = (wcur[cur] + ((-1) % UINT)) % UINT]
        BY <2>2 DEF SendFails, Advance
      <4> QED
        BY <1>1, <4>2, <4>3 DEF IInv, TypeOK
    <3> QED
      BY <1>1, <2>2, <3>1, QueueAssumption DEF SendFails
  <2> QED
    BY <2>1, <2>2
<1>5. \A i \in Pending : at[i] \in Cells
  BY DEF IInv, TypeOK, ListIntact
<1> QED
  BY <1>1, <1>2, <1>3, <1>4, <1>5 DEF ByteInv, Pending, IInv, TypeOK

(* Bytes of a packet leave without gaps: the offset the writer sends from  *)
(* never passes the bytes already on the wire, although failed sends move  *)
(* it by 2^32 - 1 (loop_run stores the result of send in a uint32_t).      *)
THEOREM BytesInOrder == Spec => []NoGap
<1>1. Init => ByteInv
  BY QueueAssumption DEF Init, ByteInv, Pending
<1>2. ASSUME IInv, ByteInv, [Next]_vars PROVE ByteInv'
  <2>1. ASSUME NEW t \in Threads, Link(t) PROVE ByteInv'
    <3>1. /\ Private(new_packet[t]) /\ new_packet[t] \in Cells
          /\ at' = Append(at, new_packet[t]) /\ Len(put') = Len(put) + 1
          /\ UNCHANGED <<got, live, wcur, wlen, sending_cur_packet, sent>>
      <4>1. Private(new_packet[t]) /\ new_packet[t] \in Cells /\ msg[new_packet[t]] \in Msgs
        BY <1>2, <2>1 DEF IInv, TypeOK, PrivateInv, Private, Link, Msgs
      <4> QED
        BY <1>2, <2>1, <4>1, AppendProperties DEF IInv, TypeOK, Link
    <3>2. Len(at) = Len(put) /\ Len(put) \in Nat /\ Len(got) \in Nat /\ Len(got) <= Len(put)
      BY <1>2, LenProperties DEF IInv, TypeOK, ListIntact
    <3>3. at'[Len(put) + 1] = new_packet[t] /\ \A i \in 1..Len(put) : at'[i] = at[i]
      BY <1>2, <3>1, <3>2, AppendProperties DEF IInv, TypeOK
    <3>4. Pending' = Pending \cup {Len(put) + 1} /\ Pending \subseteq 1..Len(put)
      BY <3>1, <3>2 DEF Pending
    <3> QED
      BY <1>2, <3>1, <3>3, <3>4 DEF ByteInv, Private
  <2>2. CASE Take
    <3>1. UNCHANGED <<live, wcur, wlen, put, at, sent>>
      BY <2>2 DEF Take, heapVars
    <3>2. CASE ~(sending_packet # NULL /\ sending_cur_packet = NULL)
      BY <1>2, <2>2, <3>1, <3>2, QuietBytes DEF Take
    <3>3. CASE sending_packet # NULL /\ sending_cur_packet = NULL
      <4>1. Len(put) \in Nat /\ Len(got) \in Nat /\ Len(got) <= Len(put)
        BY <1>2, LenProperties DEF IInv, TypeOK, ListIntact
      <4>2. sending_packet = at[Len(got) + 1] /\ Len(got) + 1 \in Pending
        BY <1>2, <3>3, <4>1 DEF IInv, ListIntact, Backlog, Pending
      <4>3. sending_cur_packet' = sending_packet /\ got' = Append(got, msg[sending_packet])
        BY <2>2, <3>3 DEF Take
      <4>4. msg[sending_packet] \in Msgs
        <5>1. put \in Seq(Msgs) /\ Len(got) + 1 \in 1..Len(put)
          BY <1>2, <4>1, <4>2 DEF IInv, TypeOK, Pending
        <5>2. put[Len(got) + 1] \in Msgs
          BY <5>1, ElementOfSeq
        <5>3. msg[sending_packet] = put[Len(got) + 1]
          BY <1>2, <4>2 DEF IInv, ListIntact
        <5> QED
          BY <5>2, <5>3
      <4>5. Len(got') = Len(got) + 1
        BY <1>2, <4>3, <4>4, AppendProperties DEF IInv, TypeOK
      <4>6. Pending' \subseteq Pending
        BY <3>1, <4>1, <4>5 DEF Pending
      <4>7. wcur[sending_packet] = 0 /\ sent = 0
        BY <1>2, <3>3, <4>2 DEF ByteInv
      <4> QED
        BY <1>2, <3>1, <3>3, <4>3, <4>6, <4>7 DEF ByteInv
    <3> QED
      BY <3>2, <3>3
  <2>3. CASE \/ \E t \in Threads : Publish(t)
             \/ HandleConnect \/ HandleConnectRefused \/ HandleSubscribe \/ HandleOther
    <3>1. PICK t \in Threads : /\ Build(t)
                               /\ UNCHANGED <<sending_cur_packet, put, got, at, sent>>
      BY <2>3 DEF Publish, HandleConnect, HandleConnectRefused, HandleSubscribe,
                  HandleOther, Reply, ctxVars, Threads
    <3> QED
      BY <1>2, <3>1, BuildBytes
  <2>4. CASE SendSome \/ SendFails
    BY <1>2, <2>4, SendBytes
  <2>5. CASE Remove \/ Retire
    BY <1>2, <2>5, FreeBytes DEF Remove, Retire, cur
  <2>6. CASE \/ \E t \in Threads : Count(t)
             \/ Accept \/ HandleClose \/ NoEvent \/ HandlePublish \/ PublishDone
             \/ Look \/ SendNothing \/ UNCHANGED vars
    BY <1>2, <2>6, QuietBytes
    DEF Count, Accept, HandleClose, NoEvent, HandlePublish, PublishDone, Look,
        SendNothing, vars, ctxVars, heapVars, histVars
  <2> QED
    BY <1>2, <2>1, <2>2, <2>3, <2>4, <2>5, <2>6 DEF Next, ReadPhase, WritePhase
<1>3. \A l \in Lens : l \in Nat
  BY QueueAssumption
<1>4. IInv /\ ByteInv => NoGap
  <2> USE DEF cur
  <2> SUFFICES ASSUME IInv, ByteInv, pc[Owner] = "send", wcur[cur] < wlen[cur]
               PROVE  wcur[cur] <= sent
    BY DEF NoGap
  <2>1. cur \in live /\ cur \in Cells /\ cur # NULL
    BY QueueAssumption DEF IInv, TypeOK, WriterInv
  <2>2. wlen[cur] \in Lens /\ wcur[cur] \in Nat
    BY <2>1 DEF IInv, TypeOK, ByteInv
  <2>3. wlen[cur] \in Nat
    BY <1>3, <2>2
  <2> QED
    <3>1. wcur[cur] <= sent \/ wcur[cur] >= wlen[cur]
      BY <2>1 DEF ByteInv
    <3> QED
      BY <2>2, <2>3, <3>1
<1> QED
  BY <1>1, <1>2, <1>4, Inductive, PTL DEF Spec
=============================================================================
