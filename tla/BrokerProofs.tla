---------------------------- MODULE BrokerProofs ----------------------------
(***************************************************************************)
(* Proofs about Broker, for any number of threads, slots, filters, topics, *)
(* connections and packets: TypeOK, InOrder, Reached, Isolated and         *)
(* FirstAnswerCounted hold in every reachable state.                       *)
(*                                                                         *)
(* All five follow from one inductive invariant, IInv.  Each of its parts  *)
(* says of the intermediate states what a property says only of some:      *)
(*   OrderInv   where each queued message stands in the searches that are  *)
(*              under way on behalf of the connection it came from;        *)
(*   ReachInv   where each subscription is that a search has yet to        *)
(*              deliver to, and LeafInv that it has a leaf;                *)
(*   IsoInv     what is queued, and what is about to be, not only what was *)
(*              taken;                                                     *)
(*   CountInv   the queue by its lengths, as QueueInv makes them comparable*)
(* and BusyInv, ConnInv and SubInv tie threads, slots, connections and     *)
(* subscriptions together.  There is one lemma per action.                 *)
(***************************************************************************)
EXTENDS Broker, SequenceTheorems, TLAPS

Packets == [kind : {"connack", "other", "suback", "publish"}, from : Nat,
            mid : Nat, filter : Filters \cup {NULL}, to : Nat]

Leaves == Filters \X Slots

(* The variables that hold truth values, and the others. *)
Flags ==
    /\ is_subscribe \in [Slots -> BOOLEAN]
    /\ soiled \in [Slots -> BOOLEAN]

Types ==
    /\ owner \in [Slots -> Threads \cup {NULL}]
    /\ state \in [Slots -> {"new", "connected"}]
    /\ id \in [Slots -> Ids \cup {NULL}]
    /\ num_sending_pack \in [Slots -> Nat]
    /\ put \in [Slots -> Seq(Packets)] /\ got \in [Slots -> Seq(Packets)]
    /\ leaves \subseteq Leaves /\ shared \subseteq Leaves
    /\ pc \in [Threads -> {"idle", "added", "suback", "search", "append"}]
    /\ context \in [Threads -> Slots \cup {NULL}]
    /\ arg \in [Threads -> Filters \cup Topics \cup {NULL}]
    /\ todo \in [Threads -> SUBSET leaves]
    /\ leaf \in [Threads -> Leaves \cup {NULL}]
    /\ conns \in Nat /\ conn \in [Slots -> Nat] /\ taken \in [Slots -> Nat]
    /\ requests \in Nat /\ published \in Nat
    /\ mid \in [Threads -> Nat] /\ heard \in [Threads -> Nat]
    /\ asked \in [Slots -> SUBSET Filters]
    /\ acked \in [Slots -> SUBSET Filters]
    /\ due \in [Threads -> SUBSET Leaves]

(* What the writer has taken is the front of what was appended, and        *)
(* num_sending_pack is at most what is left.                               *)
QueueInv ==
    \A c \in Slots :
        /\ taken[c] <= Len(got[c]) /\ Len(got[c]) <= Len(put[c])
        /\ \A i \in 1..Len(got[c]) : got[c][i] = put[c][i]
        /\ Len(got[c]) + num_sending_pack[c] <= Len(put[c])

(* A thread in a handler; in the handler of PUBLISH. *)
Busy(t) == pc[t] # "idle"
Searching(t) == pc[t] \in {"search", "append"}

(* A thread in a handler serves the slot whose packet it handles; a filter *)
(* it adds has been asked for; publish_msg is called for a leaf of the     *)
(* tree that its search will not meet again.                               *)
BusyInv ==
    /\ \A t \in Threads : Busy(t) =>
          /\ context[t] \in Slots /\ owner[context[t]] = t
    /\ \A t \in Threads : pc[t] \in {"added", "suback"} => arg[t] \in asked[context[t]]
    /\ \A t \in Threads : pc[t] = "append" => leaf[t] \in leaves \ todo[t]

(* Connections are numbered, a slot has one exactly when it has a server,  *)
(* no two slots have the same, and no packet is meant for a connection     *)
(* that is yet to come.                                                    *)
ConnInv ==
    /\ \A c \in Slots : conn[c] <= conns /\ (owner[c] # NULL <=> conn[c] # 0)
    /\ \A c, d \in Slots : owner[c] # NULL /\ conn[c] = conn[d] => c = d
    /\ \A t \in Threads : heard[t] <= conns
    /\ \A c \in Slots : \A i \in 1..Len(put[c]) : put[c][i].to <= conns

(* is_subscribe lies between what was acknowledged and what was asked for, *)
(* and what a search is due belongs to acknowledged filters.               *)
SubInv ==
    /\ \A c \in Slots : is_subscribe[c] => asked[c] # {} 
    /\ \A c \in Slots : asked[c] # {} => owner[c] # NULL
    /\ \A c \in Slots : acked[c] # {} => is_subscribe[c]
    /\ \A t \in Threads : pc[t] = "suback" => is_subscribe[context[t]]
    /\ \A t \in Threads : \A l \in due[t] : l[1] \in acked[l[2]]

(* An acknowledged filter has a leaf of the slot, or the SUBSCRIBE found   *)
(* another slot's; and so it is from when the handler has added it.        *)
LeafInv ==
    /\ \A c \in Slots : \A f \in acked[c] : <<f, c>> \in leaves \cup shared
    /\ \A t \in Threads : pc[t] \in {"added", "suback"} =>
          <<arg[t], context[t]>> \in leaves \cup shared

(* Message x, in the queue of slot c and from the connection that t        *)
(* publishes for, is older than t's message, or is t's message and t's     *)
(* search is past the leaf it was queued for.                              *)
Before(t, c, x) ==
    \/ x.mid < mid[t]
    \/ /\ x.mid = mid[t]
       /\ <<x.filter, c>> \in leaves \ todo[t]
       /\ pc[t] = "append" => leaf[t] # <<x.filter, c>>

(* Messages are numbered up to published, and every queued one is before   *)
(* what is still to be queued for the same connection.                     *)
OrderInv ==
    /\ \A t \in Threads : Searching(t) => mid[t] \in 1..published
    /\ \A c \in Slots : \A i \in 1..Len(put[c]) :
          put[c][i].kind = "publish" => put[c][i].mid <= published
    /\ \A t \in Threads : Searching(t) =>
          \A c \in Slots : \A i \in 1..Len(put[c]) :
             put[c][i].kind = "publish" /\ put[c][i].from = conn[context[t]]
                => Before(t, c, put[c][i])

(* Two messages, one queued before the other, as InOrder has them. *)
Ordered(x, y) ==
    x.kind = "publish" /\ y.kind = "publish" /\ x.from = y.from
       => x.mid < y.mid \/ (x.mid = y.mid /\ x.filter # y.filter)

SortedInv ==
    \A c \in Slots : \A i, j \in 1..Len(put[c]) :
        i < j => Ordered(put[c][i], put[c][j])

(* A subscription that is due is hidden, or its leaf has yet to be met, is *)
(* the one publish_msg is called for, or has its message queued.           *)
ReachInv ==
    \A t \in Threads : Searching(t) => \A l \in due[t] :
        \/ Hidden(l[1])
        \/ l \in todo[t]
        \/ pc[t] = "append" /\ leaf[t] = l
        \/ \E i \in 1..Len(put[l[2]]) :
              put[l[2]][i].mid = mid[t] /\ put[l[2]][i].filter = l[1]

(* Isolated, of what has been queued since the connection was accepted and *)
(* of what publish_msg is about to queue.                                  *)
IsoInv ==
    \A c \in Slots : owner[c] # NULL =>
        /\ \A i \in (taken[c] + 1)..Len(put[c]) :
              IF put[c][i].to = conn[c]
              THEN put[c][i].kind = "publish" => asked[c] # {}
              ELSE soiled[c]
        /\ \A t \in Threads : pc[t] = "append" /\ leaf[t][2] = c =>
              IF heard[t] = conn[c] THEN asked[c] # {} ELSE soiled[c]

(* A queue that nothing was taken from for this connection, and that is    *)
(* not empty, has a packet the writer may take.                            *)
CountInv ==
    \A c \in Slots :
        (/\ owner[c] # NULL /\ ~soiled[c]
         /\ Len(got[c]) = taken[c] /\ Len(put[c]) > Len(got[c]))
        => num_sending_pack[c] > 0

(* The inductive invariant. *)
IInv == /\ Flags /\ Types /\ QueueInv /\ BusyInv /\ ConnInv /\ SubInv /\ LeafInv
        /\ OrderInv /\ SortedInv /\ ReachInv /\ IsoInv /\ CountInv
-----------------------------------------------------------------------------
(* What publish_msg and ack_msg do to the queues: one packet more at the   *)
(* end of one of them.                                                     *)
LEMMA SendFacts ==
    ASSUME put \in [Slots -> Seq(Packets)], NEW c \in Slots, NEW p \in Packets,
           Send(c, p)
    PROVE  /\ put' \in [Slots -> Seq(Packets)]
           /\ \A d \in Slots : Len(put[d]) \in Nat /\ Len(put'[d]) \in Nat
           /\ Len(put'[c]) = Len(put[c]) + 1
           /\ put'[c][Len(put[c]) + 1] = p
           /\ \A d \in Slots : d # c => put'[d] = put[d]
           /\ \A d \in Slots : \A i \in 1..Len(put[d]) : put'[d][i] = put[d][i]
<1>1. put'[c] = Append(put[c], p) /\ \A d \in Slots : d # c => put'[d] = put[d]
  BY DEF Send
<1>2. put[c] \in Seq(Packets) /\ put'[c] \in Seq(Packets)
  BY <1>1, AppendProperties
<1>3. put' \in [Slots -> Seq(Packets)]
  BY <1>1, <1>2 DEF Send
<1>4. \A d \in Slots : Len(put[d]) \in Nat /\ Len(put'[d]) \in Nat
  BY <1>3, LenProperties
<1>5. /\ Len(put'[c]) = Len(put[c]) + 1 /\ put'[c][Len(put[c]) + 1] = p
      /\ \A i \in 1..Len(put[c]) : put'[c][i] = put[c][i]
  BY <1>1, <1>2, AppendProperties
<1> QED
  BY <1>1, <1>3, <1>4, <1>5

(* Queues have lengths. *)
LEMMA Lengths ==
    ASSUME Types
    PROVE  \A c \in Slots : Len(put[c]) \in Nat /\ Len(got[c]) \in Nat
<1>1. \A c \in Slots : put[c] \in Seq(Packets) /\ got[c] \in Seq(Packets)
  BY DEF Types
<1> QED
  BY <1>1, LenProperties

(* A packet that is appended, and counted at most once, leaves QueueInv    *)
(* true.                                                                   *)
LEMMA QueueAfterSend ==
    ASSUME Types, QueueInv, NEW c \in Slots, NEW p \in Packets, Send(c, p),
           UNCHANGED <<got, taken>>,
           num_sending_pack'[c] \in 0..(num_sending_pack[c] + 1),
           \A d \in Slots : d # c => num_sending_pack'[d] = num_sending_pack[d]
    PROVE  QueueInv'
<1>1. /\ \A d \in Slots : Len(put[d]) \in Nat
      /\ Len(put'[c]) = Len(put[c]) + 1
      /\ \A d \in Slots : d # c => put'[d] = put[d]
      /\ \A i \in 1..Len(put[c]) : put'[c][i] = put[c][i]
  BY SendFacts DEF Types
<1> SUFFICES ASSUME NEW d \in Slots
             PROVE  /\ taken[d] <= Len(got[d]) /\ Len(got[d]) <= Len(put'[d])
                    /\ \A i \in 1..Len(got[d]) : got[d][i] = put'[d][i]
                    /\ Len(got[d]) + num_sending_pack'[d] <= Len(put'[d])
  BY DEF QueueInv
<1>2. CASE d # c
  <2>1. put'[d] = put[d] /\ num_sending_pack'[d] = num_sending_pack[d]
    BY <1>1, <1>2
  <2> QED
    BY <2>1, Zenon DEF QueueInv
<1>3. CASE d = c
  <2>1. /\ taken[c] <= Len(got[c]) /\ Len(got[c]) <= Len(put[c])
        /\ \A i \in 1..Len(got[c]) : got[c][i] = put[c][i]
        /\ Len(got[c]) + num_sending_pack[c] <= Len(put[c])
    BY DEF QueueInv
  <2>2. Len(got[c]) \in Nat /\ num_sending_pack[c] \in Nat
    BY Lengths DEF Types
  <2>3. \A i \in 1..Len(got[c]) : i \in 1..Len(put[c])
    BY <2>1, <2>2, <1>1
  <2>4. \A i \in 1..Len(got[c]) : got[c][i] = put'[c][i]
    BY <2>1, <2>3, <1>1
  <2>5. /\ Len(got[c]) <= Len(put'[c])
        /\ Len(got[c]) + num_sending_pack'[c] <= Len(put'[c])
    BY <2>1, <2>2, <1>1
  <2> QED
    BY <1>3, <2>1, <2>4, <2>5
<1> QED
  BY <1>2, <1>3

(* A step that adds no leaf, acknowledges nothing and starts no SUBSCRIBE  *)
(* keeps LeafInv.                                                          *)
LEMMA LeavesKept ==
    ASSUME LeafInv, UNCHANGED <<leaves, acked, shared>>,
           \A u \in Threads : pc'[u] \in {"added", "suback"} =>
               /\ pc[u] \in {"added", "suback"}
               /\ arg'[u] = arg[u] /\ context'[u] = context[u]
    PROVE  LeafInv'
  BY DEF LeafInv

(* What hides a filter is in the tree, and stays there. *)
LEMMA HiddenKept ==
    ASSUME leaves \subseteq leaves', NEW f, Hidden(f)
    PROVE  Hidden(f)'
  BY DEF Hidden

(* A step that adds no leaf, queues nothing and moves no search keeps      *)
(* ReachInv.                                                               *)
LEMMA ReachKept ==
    ASSUME ReachInv, UNCHANGED <<leaves, put>>,
           \A u \in Threads : Searching(u)' =>
               /\ pc'[u] = pc[u] /\ todo'[u] = todo[u] /\ leaf'[u] = leaf[u]
               /\ due'[u] = due[u] /\ mid'[u] = mid[u]
    PROVE  ReachInv'
<1> SUFFICES ASSUME NEW u \in Threads, Searching(u)', NEW l \in due[u], ~Hidden(l[1])
             PROVE  \/ l \in todo[u]
                    \/ pc[u] = "append" /\ leaf[u] = l
                    \/ \E i \in 1..Len(put[l[2]]) :
                          put[l[2]][i].mid = mid[u] /\ put[l[2]][i].filter = l[1]
  <2>1. \A f : Hidden(f) => Hidden(f)'
    BY HiddenKept
  <2> QED
    BY <2>1 DEF ReachInv
<1>1. Searching(u)
  BY DEF Searching
<1> QED
  BY <1>1 DEF ReachInv

(* ack_msg appends a packet that is no message, meant for the connection   *)
(* it answers.                                                             *)
LEMMA AnswerPacket ==
    ASSUME Types, NEW c \in Slots,
           NEW kind \in {"connack", "other", "suback"}, Answer(c, kind)
    PROVE  \E p \in Packets : Send(c, p) /\ p.kind = kind /\ p.to = conn[c]
<1> DEFINE p == [kind |-> kind, from |-> conn[c], mid |-> requests,
                 filter |-> NULL, to |-> conn[c]]
<1>1. conn[c] \in Nat /\ requests \in Nat
  BY DEF Types
<1>2. p \in Packets
  BY <1>1 DEF Packets
<1>3. p.kind = kind /\ p.to = conn[c]
  OBVIOUS
<1> HIDE DEF p
<1>4. Send(c, p)
  BY DEF Answer, p
<1> QED
  BY <1>2, <1>3, <1>4

(* publish_msg appends the message that the thread handles, for the leaf   *)
(* it has met and the connection that was subscribed then.                 *)
LEMMA MessagePacket ==
    ASSUME Types, BusyInv, NEW t \in Threads, PublishMsg(t)
    PROVE  \E c \in Slots, p \in Packets : 
              /\ c = leaf[t][2] /\ Send(c, p) /\ leaf[t] \in Leaves
              /\ p.kind = "publish" /\ p.from = conn[context[t]] /\ p.mid = mid[t]
              /\ p.filter = leaf[t][1] /\ p.to = heard[t]
<1> DEFINE p == [kind |-> "publish", from |-> conn[context[t]], mid |-> mid[t],
                 filter |-> leaf[t][1], to |-> heard[t]]
<1>1. leaf[t] \in Leaves /\ context[t] \in Slots
  BY DEF Types, BusyInv, PublishMsg, Busy
<1>2. leaf[t][1] \in Filters /\ leaf[t][2] \in Slots
  BY <1>1 DEF Leaves
<1>3. conn[context[t]] \in Nat /\ mid[t] \in Nat /\ heard[t] \in Nat
  BY <1>1 DEF Types
<1>4. p \in Packets
  BY <1>2, <1>3 DEF Packets
<1>5. /\ p.kind = "publish" /\ p.from = conn[context[t]] /\ p.mid = mid[t]
      /\ p.filter = leaf[t][1] /\ p.to = heard[t]
  OBVIOUS
<1> HIDE DEF p
<1>6. Send(leaf[t][2], p)
  BY DEF PublishMsg, p
<1> QED
  BY <1>1, <1>2, <1>4, <1>5, <1>6

-----------------------------------------------------------------------------
(* The broker starts with the invariant. *)
LEMMA InitIInv == ASSUME BrokerAssumption, Init PROVE IInv
<1>1. Flags
  BY Zenon DEF Init, Flags
<1>2. \A c \in Slots : put[c] = <<>> /\ got[c] = <<>> /\ Len(put[c]) = 0 /\ Len(got[c]) = 0
  BY DEF Init
<1>3. Types
  <2>1. put \in [Slots -> Seq(Packets)] /\ got \in [Slots -> Seq(Packets)]
    BY DEF Init
  <2> QED
    BY <2>1 DEF Init, Types
<1>4. /\ \A t \in Threads : pc[t] = "idle" /\ heard[t] = 0 /\ due[t] = {}
      /\ \A c \in Slots : owner[c] = NULL /\ conn[c] = 0 /\ taken[c] = 0 /\ num_sending_pack[c] = 0
      /\ conns = 0
  BY DEF Init
<1>5. \A c \in Slots : ~is_subscribe[c] /\ asked[c] = {} /\ acked[c] = {}
  BY Zenon DEF Init
<1>6. QueueInv
  BY <1>2, <1>4 DEF QueueInv
<1>10. CountInv
  BY <1>4 DEF CountInv
<1>7. BusyInv /\ OrderInv /\ ReachInv /\ IsoInv
  BY <1>2, <1>4 DEF BusyInv, OrderInv, ReachInv, IsoInv, Busy, Searching
<1>8. ConnInv /\ SubInv /\ LeafInv
  BY <1>2, <1>4, <1>5 DEF ConnInv, SubInv, LeafInv
<1>9. SortedInv
  BY <1>2 DEF SortedInv
<1> QED
  BY <1>1, <1>3, <1>6, <1>7, <1>8, <1>9, <1>10 DEF IInv

(* The writer keeps it: what it takes is the packet QueueInv says is next. *)
LEMMA TakeIInv ==
    ASSUME IInv, NEW t \in Threads, NEW c \in Slots, Take(t, c)
    PROVE  IInv'
<1> USE DEF IInv
<1>1. /\ UNCHANGED <<owner, state, id, is_subscribe, put, leaves, requests>>
      /\ UNCHANGED <<pc, context, arg, todo, leaf>>
      /\ UNCHANGED <<conns, conn, taken, soiled, asked, acked, shared, due, published, mid, heard>>
  BY Zenon DEF Take, thrVars, connVars, subVars, pubVars
<1>2. /\ num_sending_pack[c] \in Nat /\ num_sending_pack[c] > 0
      /\ num_sending_pack' = [num_sending_pack EXCEPT ![c] = @ - 1]
      /\ got' = [got EXCEPT ![c] = Append(@, put[c][Len(got[c]) + 1])]
  BY DEF Take, MayTake, Types
<1>3. /\ got[c] \in Seq(Packets) /\ put[c] \in Seq(Packets)
      /\ Len(got[c]) \in Nat /\ Len(put[c]) \in Nat /\ Len(got[c]) < Len(put[c])
  <2>1. got[c] \in Seq(Packets) /\ put[c] \in Seq(Packets)
    BY DEF Types
  <2>2. Len(got[c]) \in Nat /\ Len(put[c]) \in Nat
    BY <2>1, LenProperties
  <2> QED
    BY <1>2, <2>1, <2>2 DEF QueueInv
<1> DEFINE p == put[c][Len(got[c]) + 1]
<1>4. p \in Packets
  BY <1>3, ElementOfSeq
<1> HIDE DEF p
<1>5. /\ got'[c] = Append(got[c], p)
      /\ \A d \in Slots : d # c => got'[d] = got[d]
  BY <1>2 DEF p, Types
<1>6. /\ got'[c] \in Seq(Packets) /\ Len(got'[c]) = Len(got[c]) + 1
      /\ \A i \in 1..Len(got[c]) : got'[c][i] = got[c][i]
      /\ got'[c][Len(got[c]) + 1] = p
  BY <1>3, <1>4, <1>5, AppendProperties
<1>7. /\ got' \in [Slots -> Seq(Packets)]
      /\ num_sending_pack' \in [Slots -> Nat]
      /\ num_sending_pack'[c] = num_sending_pack[c] - 1
      /\ \A d \in Slots : d # c => num_sending_pack'[d] = num_sending_pack[d]
  BY <1>2, <1>5, <1>6 DEF p, Types
<1>8. Flags'
  BY <1>1, Zenon DEF Flags
<1>9. Types'
  BY <1>1, <1>7 DEF Types
<1>10. QueueInv'
  <2> SUFFICES ASSUME NEW d \in Slots
               PROVE  /\ taken[d] <= Len(got'[d]) /\ Len(got'[d]) <= Len(put[d])
                      /\ \A i \in 1..Len(got'[d]) : got'[d][i] = put[d][i]
                      /\ Len(got'[d]) + num_sending_pack'[d] <= Len(put[d])
    BY <1>1 DEF QueueInv
  <2>1. CASE d # c
    BY <2>1, <1>5, <1>7 DEF QueueInv
  <2>2. CASE d = c
    <3>1. taken[c] \in Nat /\ taken[c] <= Len(got[c])
      BY DEF QueueInv, Types
    <3>2. \A i \in 1..Len(got[c]) : got[c][i] = put[c][i]
      BY DEF QueueInv
    <3>3. Len(got[c]) + num_sending_pack[c] <= Len(put[c])
      BY DEF QueueInv
    <3>4. \A i \in 1..Len(got'[c]) : got'[c][i] = put[c][i]
      <4> SUFFICES ASSUME NEW i \in 1..Len(got'[c]) PROVE got'[c][i] = put[c][i]
        OBVIOUS
      <4>1. CASE i \in 1..Len(got[c])
        BY <4>1, <3>2, <1>6
      <4>2. CASE i = Len(got[c]) + 1
        BY <4>2, <1>6 DEF p
      <4> QED
        BY <4>1, <4>2, <1>3, <1>6
    <3>5. /\ taken[c] <= Len(got'[c]) /\ Len(got'[c]) <= Len(put[c])
          /\ Len(got'[c]) + num_sending_pack'[c] <= Len(put[c])
      BY <3>1, <3>3, <1>2, <1>3, <1>6, <1>7
    <3> QED
      BY <2>2, <3>4, <3>5
  <2> QED
    BY <2>1, <2>2
<1>11. BusyInv' /\ SubInv'
  BY <1>1 DEF BusyInv, SubInv, Busy
<1>12. ConnInv' /\ OrderInv' /\ SortedInv'
  BY <1>1 DEF ConnInv, OrderInv, SortedInv, Searching, Before
<1>13. ReachInv' /\ LeafInv'
  BY <1>1, ReachKept, LeavesKept
<1>15. IsoInv'
  BY <1>1 DEF IsoInv
<1>14. CountInv'
  <2> SUFFICES ASSUME NEW d \in Slots, owner[d] # NULL, ~soiled[d],
                      Len(got'[d]) = taken[d], Len(put[d]) > Len(got'[d])
               PROVE  num_sending_pack'[d] > 0
    BY <1>1 DEF CountInv
  <2>1. CASE d # c
    BY <2>1, <1>5, <1>7 DEF CountInv
  <2>2. CASE d = c
    BY <2>2, <1>3, <1>6 DEF QueueInv, Types
  <2> QED
    BY <2>1, <2>2
<1> QED
  BY <1>8, <1>9, <1>10, <1>11, <1>12, <1>13, <1>14, <1>15

(* A backlog is the part of the queue that has not been taken. *)
LEMMA BacklogFacts ==
    ASSUME Types, NEW c \in Slots
    PROVE  Backlog(c) > 0 <=> Len(put[c]) > Len(got[c])
<1> DEFINE m == Len(put[c])
           n == Len(got[c])
<1>1. m \in Nat /\ n \in Nat
  BY Lengths
<1>2. Backlog(c) = m - n
  BY DEF Backlog
<1> HIDE DEF m, n
<1>3. m - n > 0 <=> m > n
  BY <1>1
<1> QED
  BY <1>2, <1>3 DEF m, n

(* accept_connection keeps it: the number of the connection is new, so a   *)
(* packet that is queued, or about to be, for the slot is meant for        *)
(* another one, and then the slot is soiled.                               *)
LEMMA AcceptIInv ==
    ASSUME BrokerAssumption, IInv, NEW t \in Threads, NEW c \in Slots, Accept(t, c)
    PROVE  IInv'
<1> USE DEF IInv
<1>1. /\ UNCHANGED <<state, id, is_subscribe, num_sending_pack, put, got, leaves, requests>>
      /\ UNCHANGED <<pc, context, arg, todo, leaf>>
      /\ UNCHANGED <<asked, acked, shared, due, published, mid, heard>>
  BY Zenon DEF Accept, thrVars, subVars, pubVars
<1>2. /\ owner[c] = NULL /\ NULL \notin Threads
      /\ owner' = [owner EXCEPT ![c] = t]
      /\ conns' = conns + 1
      /\ conn' = [conn EXCEPT ![c] = conns + 1]
      /\ taken' = [taken EXCEPT ![c] = Len(got[c])]
  BY Zenon DEF Accept, BrokerAssumption
<1>3. /\ \A d \in Slots : d # c => (soiled'[d] <=> soiled[d])
      /\ Backlog(c) > 0 => soiled'[c]
      /\ \A u \in Threads : pc[u] = "append" /\ leaf[u][2] = c => soiled'[c]
  BY Zenon DEF Accept, Flags
<1>4. Flags'
  BY <1>1, Zenon DEF Flags, Accept
<1>5. Len(got[c]) \in Nat /\ Len(put[c]) \in Nat
  BY Lengths
<1>6. /\ owner'[c] = t /\ conn'[c] = conns + 1 /\ taken'[c] = Len(got[c])
      /\ \A d \in Slots : d # c => owner'[d] = owner[d] /\ conn'[d] = conn[d] /\ taken'[d] = taken[d]
  BY <1>2 DEF Types
<1>7. Types'
  BY <1>1, <1>2, <1>5 DEF Types
<1>8. QueueInv'
  BY <1>1, <1>5, <1>6 DEF QueueInv
<1>9. \A u \in Threads : Busy(u) => context[u] \in Slots \ {c}
  BY <1>2 DEF BusyInv
<1>10. BusyInv'
  BY <1>1, <1>6, <1>9 DEF BusyInv, Busy
<1>11. ConnInv'
  <2>1. \A d \in Slots : conn[d] \in Nat /\ conn[d] <= conns
    BY DEF ConnInv, Types
  <2>2. conns \in Nat /\ \A u \in Threads : heard[u] \in Nat
    BY DEF Types
  <2>3. /\ \A d \in Slots : conn'[d] <= conns' /\ (owner'[d] # NULL <=> conn'[d] # 0)
        /\ \A d, e \in Slots : owner'[d] # NULL /\ conn'[d] = conn'[e] => d = e
        /\ \A u \in Threads : heard[u] <= conns'
    BY <1>2, <1>6, <2>1, <2>2 DEF ConnInv
  <2>4. \A d \in Slots : \A i \in 1..Len(put[d]) : put[d][i].to <= conns'
    <3> SUFFICES ASSUME NEW d \in Slots, NEW i \in 1..Len(put[d])
                 PROVE  put[d][i].to <= conns + 1
      BY <1>2
    <3>1. put[d] \in Seq(Packets)
      BY DEF Types
    <3>2. put[d][i] \in Packets
      BY <3>1, ElementOfSeq
    <3>3. put[d][i].to \in Nat /\ put[d][i].to <= conns
      BY <3>2 DEF ConnInv, Packets
    <3> QED
      BY <3>3, <2>2
  <2> QED
    BY <1>1, <2>3, <2>4 DEF ConnInv
<1>12. SubInv'
  BY <1>1, <1>2, <1>6 DEF SubInv
<1>13. OrderInv'
  <2>1. \A u \in Threads : Searching(u) => conn'[context[u]] = conn[context[u]]
    BY <1>6, <1>9 DEF Searching, Busy
  <2> QED
    <3>1. ASSUME NEW u \in Threads, Searching(u), NEW d \in Slots,
                 NEW i \in 1..Len(put[d]), put[d][i].kind = "publish",
                 put[d][i].from = conn'[context[u]]
          PROVE  Before(u, d, put[d][i])
      BY <2>1, <3>1 DEF OrderInv
    <3>2. \A u \in Threads : \A d \in Slots : \A i \in 1..Len(put[d]) :
             Before(u, d, put[d][i])' <=> Before(u, d, put[d][i])
      BY <1>1 DEF Before
    <3> QED
      BY <1>1, <3>1, <3>2 DEF OrderInv, Searching
<1>16. SortedInv' /\ ReachInv' /\ LeafInv'
  BY <1>1, ReachKept, LeavesKept DEF SortedInv
<1>14. IsoInv'
  <2>1. \A d \in Slots : \A i \in (taken'[d] + 1)..Len(put[d]) :
           owner'[d] # NULL =>
              IF put[d][i].to = conn'[d]
              THEN put[d][i].kind = "publish" => asked[d] # {}
              ELSE soiled'[d]
    <3> SUFFICES ASSUME NEW d \in Slots, NEW i \in (taken'[d] + 1)..Len(put[d]), owner'[d] # NULL
                 PROVE  IF put[d][i].to = conn'[d]
                        THEN put[d][i].kind = "publish" => asked[d] # {}
                        ELSE soiled'[d]
      OBVIOUS
    <3>1. CASE d # c
      BY <3>1, <1>3, <1>6 DEF IsoInv
    <3>2. CASE d = c
      <4>1. i \in 1..Len(put[c]) /\ Len(got[c]) < Len(put[c])
        BY <3>2, <1>5, <1>6
      <4>2. soiled'[c]
        BY <4>1, <1>3, BacklogFacts
      <4>3. put[c][i].to # conns + 1
        BY <4>1 DEF ConnInv, Types
      <4> QED
        BY <4>2, <4>3, <3>2, <1>6
    <3> QED
      BY <3>1, <3>2
  <2>2. \A d \in Slots : \A u \in Threads :
           owner'[d] # NULL /\ pc[u] = "append" /\ leaf[u][2] = d =>
              IF heard[u] = conn'[d] THEN asked[d] # {} ELSE soiled'[d]
    <3> SUFFICES ASSUME NEW d \in Slots, NEW u \in Threads,
                        owner'[d] # NULL, pc[u] = "append", leaf[u][2] = d
                 PROVE  IF heard[u] = conn'[d] THEN asked[d] # {} ELSE soiled'[d]
      OBVIOUS
    <3>1. CASE d # c
      BY <3>1, <1>3, <1>6 DEF IsoInv
    <3>2. CASE d = c
      <4>1. heard[u] # conns + 1
        BY DEF ConnInv, Types
      <4> QED
        BY <4>1, <3>2, <1>3, <1>6
    <3> QED
      BY <3>1, <3>2
  <2> QED
    BY <1>1, <2>1, <2>2 DEF IsoInv
<1>15. CountInv'
  <2> SUFFICES ASSUME NEW d \in Slots, owner'[d] # NULL, ~soiled'[d],
                      Len(got[d]) = taken'[d], Len(put[d]) > Len(got[d])
               PROVE  num_sending_pack[d] > 0
    BY <1>1 DEF CountInv
  <2>1. CASE d # c
    BY <2>1, <1>3, <1>6 DEF CountInv
  <2>2. CASE d = c
    BY <2>2, <1>3, BacklogFacts
  <2> QED
    BY <2>1, <2>2
<1> QED
  BY <1>4, <1>7, <1>8, <1>10, <1>11, <1>12, <1>13, <1>14, <1>15, <1>16

(* What every answer keeps: it is no message, is meant for the connection  *)
(* that is served, and is counted.                                         *)
LEMMA AnswerIInv ==
    ASSUME BrokerAssumption, IInv, NEW c \in Slots, NEW p \in Packets, Send(c, p),
           p.kind # "publish", p.to = conn[c], owner[c] # NULL,
           num_sending_pack' \in [Slots -> Nat],
           num_sending_pack'[c] \in 1..(num_sending_pack[c] + 1),
           \A d \in Slots : d # c => num_sending_pack'[d] = num_sending_pack[d],
           UNCHANGED <<owner, got, leaves, todo, leaf, conns, conn>>,
           UNCHANGED <<taken, soiled, asked, due, published, mid, heard>>,
           \A u \in Threads : pc'[u] \in {"search", "append"} =>
               pc'[u] = pc[u] /\ context'[u] = context[u]
    PROVE  /\ put' \in [Slots -> Seq(Packets)]
           /\ QueueInv' /\ ConnInv' /\ OrderInv' /\ SortedInv' /\ ReachInv'
           /\ IsoInv' /\ CountInv'
<1> USE DEF IInv
<1>1. /\ put' \in [Slots -> Seq(Packets)]
      /\ \A d \in Slots : Len(put[d]) \in Nat /\ Len(put'[d]) \in Nat
      /\ Len(put'[c]) = Len(put[c]) + 1
      /\ put'[c][Len(put[c]) + 1] = p
      /\ \A d \in Slots : d # c => put'[d] = put[d]
      /\ \A d \in Slots : \A i \in 1..Len(put[d]) : put'[d][i] = put[d][i]
  BY SendFacts DEF Types
<1>2. \A d \in Slots : Len(got[d]) \in Nat /\ taken[d] \in Nat /\ num_sending_pack[d] \in Nat
  BY Lengths DEF Types
<1>3. \A d \in Slots : \A i \in 1..Len(put'[d]) :
         \/ i \in 1..Len(put[d]) /\ put'[d][i] = put[d][i]
         \/ d = c /\ i = Len(put[d]) + 1 /\ put'[d][i] = p
  BY <1>1
<1>4. QueueInv'
  <2>1. num_sending_pack'[c] \in 0..(num_sending_pack[c] + 1)
    BY <1>2
  <2> QED
    BY <2>1, QueueAfterSend
<1>5. ConnInv'
  <2>1. conn[c] <= conns
    BY DEF ConnInv
  <2>2. \A d \in Slots : \A i \in 1..Len(put'[d]) : put'[d][i].to <= conns
    BY <1>3, <2>1 DEF ConnInv
  <2> QED
    BY <2>2 DEF ConnInv
<1>6. OrderInv'
  <2>1. \A u \in Threads : Searching(u)' => mid[u] \in 1..published
    BY DEF OrderInv, Searching
  <2>2. \A d \in Slots : \A i \in 1..Len(put'[d]) :
           put'[d][i].kind = "publish" => put'[d][i].mid <= published
    BY <1>3, Zenon DEF OrderInv
  <2>3. ASSUME NEW u \in Threads, Searching(u)', NEW d \in Slots, NEW i \in 1..Len(put'[d]),
               put'[d][i].kind = "publish", put'[d][i].from = conn'[context'[u]]
        PROVE  Before(u, d, put[d][i])'
    <3>1. i \in 1..Len(put[d]) /\ put'[d][i] = put[d][i]
      BY <1>3, <2>3
    <3>2. Searching(u) /\ conn'[context'[u]] = conn[context[u]] /\ pc'[u] = pc[u]
      BY <2>3 DEF Searching
    <3>3. Before(u, d, put[d][i])
      BY <2>3, <3>1, <3>2 DEF OrderInv
    <3> QED
      BY <3>1, <3>2, <3>3 DEF Before
  <2> QED
    BY <2>1, <2>2, <2>3, Zenon DEF OrderInv
<1>7. SortedInv'
  <2> SUFFICES ASSUME NEW d \in Slots, NEW i \in 1..Len(put'[d]), NEW j \in 1..Len(put'[d]), i < j
               PROVE  Ordered(put'[d][i], put'[d][j])
    BY Zenon DEF SortedInv
  <2>1. CASE i \in 1..Len(put[d]) /\ j \in 1..Len(put[d])
    BY <2>1, <1>1 DEF SortedInv
  <2>2. CASE put'[d][i] = p \/ put'[d][j] = p
    BY <2>2 DEF Ordered
  <2> QED
    BY <2>1, <2>2, <1>3
<1>8. ReachInv'
  <2> SUFFICES ASSUME NEW u \in Threads, pc'[u] \in {"search", "append"}, NEW l \in due[u],
                      ~Hidden(l[1])
               PROVE  \/ l \in todo[u]
                      \/ pc'[u] = "append" /\ leaf[u] = l
                      \/ \E i \in 1..Len(put'[l[2]]) :
                            put'[l[2]][i].mid = mid[u] /\ put'[l[2]][i].filter = l[1]
    <3>1. \A f : Hidden(f) => Hidden(f)'
      BY HiddenKept
    <3> QED
      BY <3>1 DEF ReachInv, Searching
  <2>1. l[2] \in Slots
    BY DEF Types, Leaves
  <2>2. CASE \E i \in 1..Len(put[l[2]]) :
                put[l[2]][i].mid = mid[u] /\ put[l[2]][i].filter = l[1]
    <3>1. \A i \in 1..Len(put[l[2]]) : i \in 1..Len(put'[l[2]]) /\ put'[l[2]][i] = put[l[2]][i]
      <4> DEFINE d == l[2]
      <4>1. CASE d = c
        BY <4>1, <2>1, <1>1
      <4>2. CASE d # c
        BY <4>2, <2>1, <1>1
      <4> QED
        BY <4>1, <4>2
    <3> QED
      BY <2>2, <3>1, Zenon
  <2> QED
    BY <2>2, Zenon DEF ReachInv, Searching
<1>9. IsoInv'
  <2>1. \A d \in Slots : \A i \in (taken[d] + 1)..Len(put'[d]) :
           \/ i \in (taken[d] + 1)..Len(put[d]) /\ put'[d][i] = put[d][i]
           \/ d = c /\ put'[d][i] = p
    BY <1>1, <1>2
  <2>2. \A d \in Slots : owner[d] # NULL =>
           \A i \in (taken[d] + 1)..Len(put'[d]) :
              IF put'[d][i].to = conn[d]
              THEN put'[d][i].kind = "publish" => asked[d] # {}
              ELSE soiled[d]
    <3> SUFFICES ASSUME NEW d \in Slots, owner[d] # NULL, NEW i \in (taken[d] + 1)..Len(put'[d])
                 PROVE  IF put'[d][i].to = conn[d]
                        THEN put'[d][i].kind = "publish" => asked[d] # {}
                        ELSE soiled[d]
      OBVIOUS
    <3>1. CASE i \in (taken[d] + 1)..Len(put[d]) /\ put'[d][i] = put[d][i]
      <4>1. IF put[d][i].to = conn[d]
            THEN put[d][i].kind = "publish" => asked[d] # {}
            ELSE soiled[d]
        BY <3>1 DEF IsoInv
      <4> QED
        BY <3>1, <4>1
    <3>2. CASE d = c /\ put'[d][i] = p
      BY <3>2
    <3> QED
      BY <2>1, <3>1, <3>2
  <2>3. \A d \in Slots : owner[d] # NULL =>
           \A u \in Threads : pc'[u] = "append" /\ leaf[u][2] = d =>
              IF heard[u] = conn[d] THEN asked[d] # {} ELSE soiled[d]
    BY DEF IsoInv
  <2> QED
    BY <2>2, <2>3 DEF IsoInv
<1>10. CountInv'
  <2> SUFFICES ASSUME NEW d \in Slots, owner[d] # NULL, ~soiled[d],
                      Len(got[d]) = taken[d], Len(put'[d]) > Len(got[d])
               PROVE  num_sending_pack'[d] > 0
    BY DEF CountInv
  <2>1. CASE d # c
    BY <2>1, <1>1 DEF CountInv
  <2>2. CASE d = c
    BY <2>2, <1>2
  <2> QED
    BY <2>1, <2>2
<1> QED
  BY <1>1, <1>4, <1>5, <1>6, <1>7, <1>8, <1>9, <1>10

(* CONNECT and PINGREQ keep it, add_client's reset of num_sending_pack     *)
(* included.                                                               *)
LEMMA ConnectIInv ==
    ASSUME BrokerAssumption, IInv, NEW t \in Threads, NEW c \in Slots,
           (\E i \in Ids : HandleConnect(t, c, i)) \/ HandleOther(t, c)
    PROVE  IInv'
<1> USE DEF IInv
<1>1. /\ UNCHANGED <<owner, is_subscribe, got, leaves>>
      /\ UNCHANGED <<pc, context, arg, todo, leaf, conns, conn, taken, soiled>>
      /\ UNCHANGED <<asked, acked, shared, due, published, mid, heard>>
  BY DEF HandleConnect, HandleOther, thrVars, connVars, subVars, pubVars
<1>2. /\ owner[c] # NULL
      /\ requests' \in Nat /\ state' \in [Slots -> {"new", "connected"}]
      /\ id' \in [Slots -> Ids \cup {NULL}]
  <2>1. owner[c] # NULL
    BY DEF HandleConnect, HandleOther, Serves, BrokerAssumption
  <2>2. requests' \in Nat
    BY DEF HandleConnect, HandleOther, Request, Types
  <2>3. state' = state \/ state' = [state EXCEPT ![c] = "connected"]
    BY DEF HandleConnect, HandleOther
  <2>4. id' = id \/ \E i \in Ids : id' = [id EXCEPT ![c] = i]
    BY DEF HandleConnect, HandleOther
  <2> QED
    <3>1. id' \in [Slots -> Ids \cup {NULL}]
      BY <2>4 DEF Types
    <3>2. state' \in [Slots -> {"new", "connected"}]
      BY <2>3 DEF Types
    <3> QED
      BY <2>1, <2>2, <3>1, <3>2
<1>9. /\ num_sending_pack' \in [Slots -> Nat]
      /\ num_sending_pack'[c] \in 1..(num_sending_pack[c] + 1)
      /\ \A d \in Slots : d # c => num_sending_pack'[d] = num_sending_pack[d]
  <2>1. num_sending_pack \in [Slots -> Nat]
    BY DEF Types
  <2>2. \/ num_sending_pack' = [num_sending_pack EXCEPT ![c] = 1]
        \/ num_sending_pack' = [num_sending_pack EXCEPT ![c] = @ + 1]
    BY DEF HandleConnect, HandleOther, AddThenAck
  <2> QED
    BY <2>1, <2>2
<1>3. PICK k \in {"connack", "other"} : Answer(c, k)
  BY DEF HandleConnect, HandleOther
<1>4. PICK p \in Packets : Send(c, p) /\ p.kind = k /\ p.to = conn[c]
  BY <1>3, AnswerPacket
<1>5. /\ put' \in [Slots -> Seq(Packets)]
      /\ QueueInv' /\ ConnInv' /\ OrderInv' /\ SortedInv' /\ ReachInv'
      /\ IsoInv' /\ CountInv'
  BY <1>1, <1>2, <1>3, <1>4, <1>9, AnswerIInv
<1>6. Flags'
  BY <1>1, Zenon DEF Flags
<1>7. Types'
  BY <1>1, <1>2, <1>5, <1>9 DEF Types
<1>8. BusyInv' /\ SubInv' /\ LeafInv'
  BY <1>1 DEF BusyInv, SubInv, LeafInv, Busy
<1> QED
  BY <1>5, <1>6, <1>7, <1>8

(* SUBACK 0 keeps it: the filter it acknowledges is in the tree and        *)
(* is_subscribe is set by then.                                            *)
LEMMA SubackIInv ==
    ASSUME BrokerAssumption, IInv, NEW t \in Threads, Suback(t)
    PROVE  IInv'
<1> USE DEF IInv
<1> DEFINE c == context[t]
<1>1. /\ UNCHANGED <<owner, state, id, is_subscribe, got, leaves, todo, leaf>>
      /\ UNCHANGED <<conns, conn, taken, soiled, asked, shared, due>>
      /\ UNCHANGED <<published, mid, heard, requests>>
  BY DEF Suback, connVars, pubVars
<1>2. c \in Slots /\ owner[c] = t /\ arg[t] \in asked[c]
  BY DEF Suback, BusyInv, Busy
<1>3. /\ num_sending_pack' = [num_sending_pack EXCEPT ![c] = @ + 1]
      /\ acked' = [acked EXCEPT ![c] = @ \cup {arg[t]}]
      /\ context' = [context EXCEPT ![t] = NULL]
      /\ arg' = [arg EXCEPT ![t] = NULL]
      /\ pc' = [pc EXCEPT ![t] = "idle"] /\ pc[t] = "suback"
      /\ Answer(c, "suback")
  BY DEF Suback, Goto
<1> HIDE DEF c
<1>4. PICK p \in Packets : Send(c, p) /\ p.kind = "suback" /\ p.to = conn[c]
  BY <1>2, <1>3, AnswerPacket
<1>5. /\ num_sending_pack' \in [Slots -> Nat]
      /\ num_sending_pack'[c] \in 1..(num_sending_pack[c] + 1)
      /\ \A d \in Slots : d # c => num_sending_pack'[d] = num_sending_pack[d]
  BY <1>2, <1>3 DEF Types
<1>6. \A u \in Threads : Busy(u)' =>
          pc'[u] = pc[u] /\ context'[u] = context[u] /\ arg'[u] = arg[u]
  BY <1>3 DEF Types, Busy
<1>7. /\ put' \in [Slots -> Seq(Packets)]
      /\ QueueInv' /\ ConnInv' /\ OrderInv' /\ SortedInv' /\ ReachInv'
      /\ IsoInv' /\ CountInv'
  <2>1. owner[c] # NULL
    BY <1>2 DEF BrokerAssumption
  <2>2. \A u \in Threads : pc'[u] \in {"search", "append"} =>
               pc'[u] = pc[u] /\ context'[u] = context[u]
    BY <1>6 DEF Busy
  <2> QED
    BY <1>1, <1>2, <1>4, <1>5, <2>1, <2>2, AnswerIInv
<1>8. Flags'
  BY <1>1, Zenon DEF Flags
<1>9. Types'
  <2>1. acked' \in [Slots -> SUBSET Filters]
    BY <1>2, <1>3 DEF Types
  <2>2. /\ pc' \in [Threads -> {"idle", "added", "suback", "search", "append"}]
        /\ context' \in [Threads -> Slots \cup {NULL}]
        /\ arg' \in [Threads -> Filters \cup Topics \cup {NULL}]
    BY <1>3 DEF Types
  <2> QED
    BY <1>1, <1>5, <1>7, <2>1, <2>2 DEF Types
<1>10. BusyInv'
  BY <1>1, <1>6 DEF BusyInv, Busy
<1>11. SubInv'
  <2>1. is_subscribe[c]
    BY <1>3, Zenon DEF SubInv, c
  <2>2. \A d \in Slots : acked'[d] # {} => is_subscribe[d]
    BY <1>2, <1>3, <2>1 DEF SubInv, Types
  <2>3. \A d \in Slots : acked[d] \subseteq acked'[d]
    BY <1>2, <1>3 DEF Types
  <2>4. \A u \in Threads : \A l \in due[u] : l[2] \in Slots
    BY DEF Types, Leaves
  <2> QED
    BY <1>1, <1>6, <2>2, <2>3, <2>4 DEF SubInv, Busy
<1>12. LeafInv'
  <2>1. <<arg[t], c>> \in leaves \cup shared
    BY <1>3 DEF LeafInv, c
  <2>2. \A d \in Slots : \A f \in acked'[d] : f \in acked[d] \/ (d = c /\ f = arg[t])
    BY <1>2, <1>3 DEF Types
  <2>3. \A d \in Slots : \A f \in acked'[d] : <<f, d>> \in leaves \cup shared
    BY <2>1, <2>2 DEF LeafInv
  <2> QED
    BY <1>1, <1>6, <2>3 DEF LeafInv, Busy
<1> QED
  BY <1>7, <1>8, <1>9, <1>10, <1>11, <1>12

(* publish_msg keeps it: only the thread that serves the publisher queues  *)
(* messages of its connection, and this search has not queued one for this *)
(* leaf.                                                                   *)
LEMMA PublishMsgIInv ==
    ASSUME BrokerAssumption, IInv, NEW t \in Threads, PublishMsg(t)
    PROVE  IInv'
<1> USE DEF IInv
<1>1. /\ UNCHANGED <<owner, state, id, is_subscribe, got, leaves, context, arg, todo>>
      /\ UNCHANGED <<conns, conn, taken, soiled, asked, acked, shared, due>>
      /\ UNCHANGED <<published, mid, requests>>
  BY DEF PublishMsg, connVars, subVars
<1>2. PICK c \in Slots, p \in Packets :
         /\ c = leaf[t][2] /\ Send(c, p) /\ leaf[t] \in Leaves
         /\ p.kind = "publish" /\ p.from = conn[context[t]] /\ p.mid = mid[t]
         /\ p.filter = leaf[t][1] /\ p.to = heard[t]
  BY MessagePacket
<1>3. /\ pc[t] = "append" /\ pc' = [pc EXCEPT ![t] = "search"]
      /\ num_sending_pack' = [num_sending_pack EXCEPT ![c] = @ + 1]
      /\ leaf' = [leaf EXCEPT ![t] = NULL]
      /\ heard' = [heard EXCEPT ![t] = 0]
  BY <1>2 DEF PublishMsg, Goto
<1>4. /\ put' \in [Slots -> Seq(Packets)]
      /\ \A d \in Slots : Len(put[d]) \in Nat /\ Len(put'[d]) \in Nat
      /\ Len(put'[c]) = Len(put[c]) + 1
      /\ put'[c][Len(put[c]) + 1] = p
      /\ \A d \in Slots : d # c => put'[d] = put[d]
      /\ \A d \in Slots : \A i \in 1..Len(put[d]) : put'[d][i] = put[d][i]
  BY <1>2, SendFacts DEF Types
<1>5. \A d \in Slots : \A i \in 1..Len(put'[d]) :
         \/ i \in 1..Len(put[d]) /\ put'[d][i] = put[d][i]
         \/ d = c /\ i = Len(put[d]) + 1 /\ put'[d][i] = p
  BY <1>4
<1>6. \A d \in Slots : \A i \in 1..Len(put[d]) : i \in 1..Len(put'[d])
  <2> SUFFICES ASSUME NEW d \in Slots, NEW i \in 1..Len(put[d]) PROVE i \in 1..Len(put'[d])
    OBVIOUS
  <2>1. CASE d = c
    BY <2>1, <1>4
  <2>2. CASE d # c
    BY <2>2, <1>4
  <2> QED
    BY <2>1, <2>2
<1>7. /\ num_sending_pack' \in [Slots -> Nat]
      /\ num_sending_pack'[c] = num_sending_pack[c] + 1
      /\ \A d \in Slots : d # c => num_sending_pack'[d] = num_sending_pack[d]
  BY <1>3 DEF Types
<1>8. /\ pc' \in [Threads -> {"idle", "added", "suback", "search", "append"}]
      /\ leaf' \in [Threads -> Leaves \cup {NULL}]
      /\ heard' \in [Threads -> Nat]
      /\ pc'[t] = "search" /\ heard'[t] = 0
      /\ \A u \in Threads : u # t => pc'[u] = pc[u] /\ leaf'[u] = leaf[u] /\ heard'[u] = heard[u]
  BY <1>3 DEF Types
<1>9. context[t] \in Slots /\ owner[context[t]] = t /\ owner[context[t]] # NULL
  BY <1>3 DEF BusyInv, Busy, BrokerAssumption
<1>10. leaf[t] = <<p.filter, c>> /\ leaf[t] \in leaves \ todo[t]
  BY <1>2, <1>3 DEF BusyInv, Leaves
<1>11. Flags'
  BY <1>1, Zenon DEF Flags
<1>12. Types'
  BY <1>1, <1>4, <1>7, <1>8 DEF Types
<1>13. QueueInv'
  <2>1. num_sending_pack'[c] \in 0..(num_sending_pack[c] + 1)
    BY <1>7 DEF Types
  <2> QED
    BY <1>1, <1>2, <1>7, <2>1, QueueAfterSend
<1>14. BusyInv'
  BY <1>1, <1>3, <1>8 DEF BusyInv, Busy
<1>15. ConnInv'
  <2>1. heard[t] <= conns /\ heard'[t] <= conns
    BY <1>8 DEF ConnInv, Types
  <2>2. \A d \in Slots : \A i \in 1..Len(put'[d]) : put'[d][i].to <= conns
    BY <1>2, <1>5, <2>1 DEF ConnInv
  <2>3. \A u \in Threads : heard'[u] <= conns
    BY <1>8, <2>1 DEF ConnInv
  <2> QED
    BY <1>1, <2>2, <2>3 DEF ConnInv
<1>16. SubInv'
  BY <1>1, <1>8 DEF SubInv
<1>17. OrderInv'
  <2>1. \A u \in Threads : Searching(u)' => Searching(u) /\ mid[u] \in 1..published
    BY <1>3, <1>8 DEF OrderInv, Searching
  <2>2. \A d \in Slots : \A i \in 1..Len(put'[d]) :
           put'[d][i].kind = "publish" => put'[d][i].mid <= published
    <3>1. mid[t] <= published
      BY <1>3 DEF OrderInv, Searching, Types
    <3> QED
      BY <3>1, <1>2, <1>5, Zenon DEF OrderInv
  <2>3. ASSUME NEW u \in Threads, Searching(u)', NEW d \in Slots, NEW i \in 1..Len(put'[d]),
               put'[d][i].kind = "publish", put'[d][i].from = conn'[context'[u]]
        PROVE  Before(u, d, put[d][i])'
    <3>1. CASE i \in 1..Len(put[d]) /\ put'[d][i] = put[d][i]
      <4>1. Before(u, d, put[d][i])
        BY <2>1, <2>3, <3>1, <1>1 DEF OrderInv
      <4> QED
        BY <3>1, <4>1, <1>1, <1>8 DEF Before
    <3>2. CASE d = c /\ put'[d][i] = p
      <4>1. context[u] = context[t]
        <5>1. context[u] \in Slots
          BY <2>1, <2>3 DEF BusyInv, Busy, Searching
        <5>2. conn[context[u]] = conn[context[t]]
          BY <1>1, <1>2, <2>3, <3>2
        <5> QED
          BY <5>1, <5>2, <1>9 DEF ConnInv
      <4>2. u = t
        BY <4>1, <2>1, <2>3, <1>9 DEF BusyInv, Busy, Searching
      <4> QED
        BY <4>2, <3>2, <1>1, <1>2, <1>8, <1>10 DEF Before
    <3> QED
      BY <3>1, <3>2, <1>5
  <2> QED
    BY <1>1, <2>1, <2>2, <2>3, Zenon DEF OrderInv
<1>18. SortedInv'
  <2> SUFFICES ASSUME NEW d \in Slots, NEW i \in 1..Len(put'[d]), NEW j \in 1..Len(put'[d]), i < j
               PROVE  Ordered(put'[d][i], put'[d][j])
    BY Zenon DEF SortedInv
  <2>1. CASE i \in 1..Len(put[d]) /\ j \in 1..Len(put[d])
    BY <2>1, <1>4 DEF SortedInv
  <2>2. CASE d = c /\ i \in 1..Len(put[d]) /\ put'[d][i] = put[d][i] /\ put'[d][j] = p
    <3> SUFFICES ASSUME put[c][i].kind = "publish", put[c][i].from = conn[context[t]]
                 PROVE  put[c][i].mid < mid[t] \/ (put[c][i].mid = mid[t] /\ put[c][i].filter # p.filter)
      BY <2>2, <1>2 DEF Ordered
    <3>1. Before(t, c, put[c][i])
      BY <2>2, <1>3 DEF OrderInv, Searching
    <3> QED
      BY <3>1, <1>3, <1>10 DEF Before
  <2> QED
    BY <2>1, <2>2, <1>4, <1>5
<1>19. ReachInv'
  <2> SUFFICES ASSUME NEW u \in Threads, Searching(u)', NEW l \in due[u], ~Hidden(l[1])
               PROVE  \/ l \in todo[u]
                      \/ pc'[u] = "append" /\ leaf'[u] = l
                      \/ \E i \in 1..Len(put'[l[2]]) :
                            put'[l[2]][i].mid = mid[u] /\ put'[l[2]][i].filter = l[1]
    BY <1>1 DEF ReachInv, Hidden
  <2>1. l[2] \in Slots
    BY DEF Types, Leaves
  <2>2. Searching(u)
    BY <1>3, <1>8 DEF Searching
  <2>3. CASE l \in todo[u]
    BY <2>3
  <2>4. CASE pc[u] = "append" /\ leaf[u] = l
    <3>1. CASE u = t
      <4>1. l[2] = c /\ l[1] = p.filter
        BY <3>1, <2>4, <1>2
      <4>2. Len(put[c]) + 1 \in 1..Len(put'[c])
        BY <1>4
      <4> QED
        BY <3>1, <4>1, <4>2, <1>2, <1>4
    <3>2. CASE u # t
      BY <3>2, <2>4, <1>8
    <3> QED
      BY <3>1, <3>2
  <2>5. CASE \E i \in 1..Len(put[l[2]]) :
                put[l[2]][i].mid = mid[u] /\ put[l[2]][i].filter = l[1]
    BY <2>5, <2>1, <1>4, <1>6, Zenon
  <2> QED
    BY <2>2, <2>3, <2>4, <2>5, Zenon DEF ReachInv
<1>20. IsoInv'
  <2>1. \A d \in Slots : \A i \in (taken[d] + 1)..Len(put'[d]) :
           \/ i \in (taken[d] + 1)..Len(put[d]) /\ put'[d][i] = put[d][i]
           \/ d = c /\ put'[d][i] = p
    <3>1. \A d \in Slots : taken[d] \in Nat
      BY DEF Types
    <3> QED
      BY <1>4, <3>1
  <2>2. \A d \in Slots : owner[d] # NULL =>
           \A i \in (taken[d] + 1)..Len(put'[d]) :
              IF put'[d][i].to = conn[d]
              THEN put'[d][i].kind = "publish" => asked[d] # {}
              ELSE soiled[d]
    <3>1. owner[c] # NULL =>
             IF p.to = conn[c] THEN p.kind = "publish" => asked[c] # {} ELSE soiled[c]
      BY <1>2, <1>3 DEF IsoInv
    <3> QED
      BY <2>1, <3>1 DEF IsoInv
  <2>3. \A d \in Slots : owner[d] # NULL =>
           \A u \in Threads : pc'[u] = "append" /\ leaf'[u][2] = d =>
              IF heard'[u] = conn[d] THEN asked[d] # {} ELSE soiled[d]
    BY <1>8 DEF IsoInv
  <2> QED
    BY <1>1, <2>2, <2>3 DEF IsoInv
<1>21. CountInv'
  <2> SUFFICES ASSUME NEW d \in Slots, owner[d] # NULL, ~soiled[d],
                      Len(got[d]) = taken[d], Len(put'[d]) > Len(got[d])
               PROVE  num_sending_pack'[d] > 0
    BY <1>1 DEF CountInv
  <2>1. CASE d # c
    BY <2>1, <1>4, <1>7 DEF CountInv
  <2>2. CASE d = c
    BY <2>2, <1>7 DEF Types
  <2> QED
    BY <2>1, <2>2
<1>22. LeafInv'
  BY <1>1, <1>3, <1>8, LeavesKept
<1> QED
  BY <1>11, <1>12, <1>13, <1>14, <1>15, <1>16, <1>17, <1>18, <1>19, <1>20, <1>21, <1>22

(* The end of a connection keeps it, with or without an answer queued      *)
(* before: no handler serves the slot, and what is due to it is forgotten. *)
LEMMA CleanIInv ==
    ASSUME BrokerAssumption, IInv, NEW t \in Threads, NEW c \in Slots, Serves(t, c), Clean(c),
           UNCHANGED <<got, leaves, conns, taken>>,
           UNCHANGED <<pc, context, arg, todo, leaf, published, mid, heard>>,
           requests' \in Nat,
           UNCHANGED put \/ \E p \in Packets : Send(c, p) /\ p.kind # "publish" /\ p.to = conn[c]
    PROVE  IInv'
<1> USE DEF IInv
<1>1. /\ put' \in [Slots -> Seq(Packets)]
      /\ \A d \in Slots : Len(put[d]) \in Nat /\ Len(put'[d]) \in Nat
      /\ \A d \in Slots : Len(put[d]) <= Len(put'[d])
      /\ \A d \in Slots : d # c => put'[d] = put[d]
      /\ \A d \in Slots : \A i \in 1..Len(put[d]) : put'[d][i] = put[d][i]
      /\ \A d \in Slots : \A i \in 1..Len(put'[d]) :
            \/ i \in 1..Len(put[d]) /\ put'[d][i] = put[d][i]
            \/ put'[d][i].kind # "publish" /\ put'[d][i].to = conn[c]
  <2>0. put \in [Slots -> Seq(Packets)] /\ \A d \in Slots : Len(put[d]) \in Nat
    BY Lengths DEF Types
  <2>1. CASE UNCHANGED put
    BY <2>0, <2>1
  <2>2. CASE \E p \in Packets : Send(c, p) /\ p.kind # "publish" /\ p.to = conn[c]
    <3>1. PICK p \in Packets : Send(c, p) /\ p.kind # "publish" /\ p.to = conn[c]
      BY <2>2
    <3>2. /\ put' \in [Slots -> Seq(Packets)]
          /\ \A d \in Slots : Len(put[d]) \in Nat /\ Len(put'[d]) \in Nat
          /\ Len(put'[c]) = Len(put[c]) + 1
          /\ put'[c][Len(put[c]) + 1] = p
          /\ \A d \in Slots : d # c => put'[d] = put[d]
          /\ \A d \in Slots : \A i \in 1..Len(put[d]) : put'[d][i] = put[d][i]
      BY <3>1, <2>0, SendFacts
    <3>3. \A d \in Slots : Len(put[d]) <= Len(put'[d])
      BY <3>2
    <3>4. \A d \in Slots : \A i \in 1..Len(put'[d]) :
             i \in 1..Len(put[d]) \/ (d = c /\ i = Len(put[d]) + 1)
      BY <3>2
    <3>5. \A d \in Slots : \A i \in 1..Len(put'[d]) :
             \/ i \in 1..Len(put[d]) /\ put'[d][i] = put[d][i]
             \/ put'[d][i].kind # "publish" /\ put'[d][i].to = conn[c]
      BY <3>1, <3>2, <3>4, Zenon
    <3> QED
      BY <3>2, <3>3, <3>5, Zenon
  <2> QED
    BY <2>1, <2>2
<1>2. /\ owner' = [owner EXCEPT ![c] = NULL]
      /\ state' = [state EXCEPT ![c] = "new"]
      /\ num_sending_pack' = [num_sending_pack EXCEPT ![c] = 0]
      /\ conn' = [conn EXCEPT ![c] = 0]
      /\ asked' = [asked EXCEPT ![c] = {}]
      /\ acked' = [acked EXCEPT ![c] = {}]
      /\ id' = [id EXCEPT ![c] = NULL]
      /\ shared' = {l \in shared : l[2] # c}
      /\ due' = [u \in Threads |-> {l \in due[u] : l[2] # c}]
  BY Zenon DEF Clean
<1>3. /\ is_subscribe' \in [Slots -> BOOLEAN] /\ ~is_subscribe'[c]
      /\ \A d \in Slots : d # c => (is_subscribe'[d] <=> is_subscribe[d])
  BY Zenon DEF Clean, Unsubscribed, Flags
<1>4. /\ soiled' \in [Slots -> BOOLEAN]
      /\ \A d \in Slots : d # c => (soiled'[d] <=> soiled[d])
  BY Zenon DEF Clean, Flags
<1>5. Flags'
  BY <1>3, <1>4, Zenon DEF Flags
<1>6. /\ owner'[c] = NULL /\ conn'[c] = 0 /\ asked'[c] = {} /\ acked'[c] = {}
      /\ num_sending_pack'[c] = 0
      /\ \A d \in Slots : d # c => /\ owner'[d] = owner[d] /\ conn'[d] = conn[d]
                                 /\ asked'[d] = asked[d] /\ acked'[d] = acked[d]
                                 /\ num_sending_pack'[d] = num_sending_pack[d]
  BY <1>2 DEF Types
<1>7. Types'
  <2>1. /\ owner' \in [Slots -> Threads \cup {NULL}]
        /\ state' \in [Slots -> {"new", "connected"}]
        /\ id' \in [Slots -> Ids \cup {NULL}]
        /\ num_sending_pack' \in [Slots -> Nat] /\ conn' \in [Slots -> Nat]
    BY <1>2 DEF Types
  <2>2. /\ asked' \in [Slots -> SUBSET Filters]
        /\ acked' \in [Slots -> SUBSET Filters]
        /\ due' \in [Threads -> SUBSET Leaves]
        /\ shared' \subseteq Leaves
    BY <1>2 DEF Types
  <2> QED
    BY <1>1, <2>1, <2>2 DEF Types
<1>8. \A u \in Threads : Busy(u) => context[u] \in Slots \ {c}
  BY DEF BusyInv, Serves, Busy
<1>9. QueueInv'
  <2> SUFFICES ASSUME NEW d \in Slots
               PROVE  /\ taken[d] <= Len(got[d]) /\ Len(got[d]) <= Len(put'[d])
                      /\ \A i \in 1..Len(got[d]) : got[d][i] = put'[d][i]
                      /\ Len(got[d]) + num_sending_pack'[d] <= Len(put'[d])
    BY DEF QueueInv
  <2>1. CASE d # c
    <3>1. put'[d] = put[d] /\ num_sending_pack'[d] = num_sending_pack[d]
      BY <2>1, <1>1, <1>6
    <3> QED
      BY <3>1, Zenon DEF QueueInv
  <2>2. CASE d = c
    <3>1. /\ taken[c] <= Len(got[c]) /\ Len(got[c]) <= Len(put[c])
          /\ \A i \in 1..Len(got[c]) : got[c][i] = put[c][i]
      BY DEF QueueInv
    <3>2. Len(got[c]) \in Nat
      BY Lengths
    <3>3. \A i \in 1..Len(got[c]) : i \in 1..Len(put[c])
      BY <3>1, <3>2, <1>1
    <3>4. \A i \in 1..Len(got[c]) : got[c][i] = put'[c][i]
      BY <3>1, <3>3, <1>1
    <3>5. /\ Len(got[c]) <= Len(put'[c])
          /\ Len(got[c]) + num_sending_pack'[c] <= Len(put'[c])
      BY <3>1, <3>2, <1>1, <1>6
    <3> QED
      BY <2>2, <3>1, <3>4, <3>5
  <2> QED
    BY <2>1, <2>2
<1>10. BusyInv'
  BY <1>6, <1>8 DEF BusyInv, Busy
<1>11. ConnInv'
  <2>1. conn[c] <= conns /\ conns \in Nat
    BY DEF ConnInv, Types
  <2>2. \A d \in Slots : \A i \in 1..Len(put'[d]) : put'[d][i].to <= conns
    BY <1>1, <2>1 DEF ConnInv
  <2>3. \A d \in Slots : conn'[d] <= conns /\ (owner'[d] # NULL <=> conn'[d] # 0)
    BY <1>6, <2>1 DEF ConnInv
  <2>4. \A d, e \in Slots : owner'[d] # NULL /\ conn'[d] = conn'[e] => d = e
    BY <1>6, <2>3 DEF ConnInv
  <2> QED
    BY <2>2, <2>3, <2>4 DEF ConnInv
<1>12. SubInv'
  <2>1. \A u \in Threads : \A l \in due'[u] : l \in due[u] /\ l[2] \in Slots /\ l[2] # c
    BY <1>2 DEF Types, Leaves
  <2>2. \A u \in Threads : pc[u] = "suback" => is_subscribe'[context[u]]
    BY <1>3, <1>8 DEF SubInv, Busy
  <2>3. \A u \in Threads : \A l \in due'[u] : l[1] \in acked'[l[2]]
    BY <2>1, <1>6 DEF SubInv
  <2>4. /\ \A d \in Slots : is_subscribe'[d] => asked'[d] # {}
        /\ \A d \in Slots : asked'[d] # {} => owner'[d] # NULL
        /\ \A d \in Slots : acked'[d] # {} => is_subscribe'[d]
    BY <1>3, <1>6 DEF SubInv
  <2>5. \A u \in Threads : pc'[u] = "suback" => is_subscribe'[context'[u]]
    BY <2>2
  <2> QED
    BY <2>3, <2>4, <2>5, Zenon DEF SubInv
<1>13. OrderInv'
  <2>1. \A u \in Threads : Searching(u)' => Searching(u) /\ mid[u] \in 1..published
    BY DEF OrderInv, Searching
  <2>2. \A d \in Slots : \A i \in 1..Len(put'[d]) :
           put'[d][i].kind = "publish" => put'[d][i].mid <= published
    BY <1>1, Zenon DEF OrderInv
  <2>3. ASSUME NEW u \in Threads, Searching(u)', NEW d \in Slots, NEW i \in 1..Len(put'[d]),
               put'[d][i].kind = "publish", put'[d][i].from = conn'[context'[u]]
        PROVE  Before(u, d, put[d][i])'
    <3>1. i \in 1..Len(put[d]) /\ put'[d][i] = put[d][i]
      BY <1>1, <2>3
    <3>2. Searching(u) /\ conn'[context'[u]] = conn[context[u]]
      BY <2>3, <1>6, <1>8 DEF Searching, Busy
    <3>3. Before(u, d, put[d][i])
      BY <2>3, <3>1, <3>2 DEF OrderInv
    <3> QED
      BY <3>1, <3>3 DEF Before
  <2> QED
    BY <2>1, <2>2, <2>3, Zenon DEF OrderInv
<1>14. SortedInv'
  <2> SUFFICES ASSUME NEW d \in Slots, NEW i \in 1..Len(put'[d]), NEW j \in 1..Len(put'[d]), i < j
               PROVE  Ordered(put'[d][i], put'[d][j])
    BY Zenon DEF SortedInv
  <2>1. CASE i \in 1..Len(put[d]) /\ j \in 1..Len(put[d])
    BY <2>1, <1>1 DEF SortedInv
  <2>2. CASE put'[d][i].kind # "publish" \/ put'[d][j].kind # "publish"
    BY <2>2 DEF Ordered
  <2> QED
    BY <2>1, <2>2, <1>1
<1>15. ReachInv'
  <2> SUFFICES ASSUME NEW u \in Threads, Searching(u), NEW l \in due[u], ~Hidden(l[1])
               PROVE  \/ l \in todo[u]
                      \/ pc[u] = "append" /\ leaf[u] = l
                      \/ \E i \in 1..Len(put'[l[2]]) :
                            put'[l[2]][i].mid = mid[u] /\ put'[l[2]][i].filter = l[1]
    <3>1. \A u \in Threads : due'[u] \subseteq due[u]
      BY <1>2
    <3> QED
      BY <3>1 DEF ReachInv, Searching, Hidden
  <2>1. l[2] \in Slots
    BY DEF Types, Leaves
  <2>2. CASE \E i \in 1..Len(put[l[2]]) :
                put[l[2]][i].mid = mid[u] /\ put[l[2]][i].filter = l[1]
    <3>1. \A d \in Slots : \A i \in 1..Len(put[d]) : i \in 1..Len(put'[d])
      BY <1>1
    <3> QED
      BY <2>1, <2>2, <3>1, <1>1, Zenon
  <2> QED
    BY <2>2, Zenon DEF ReachInv
<1>16. \A d \in Slots : owner'[d] # NULL => /\ d # c /\ put'[d] = put[d]
                                          /\ owner[d] # NULL /\ conn'[d] = conn[d]
                                          /\ asked'[d] = asked[d]
                                          /\ num_sending_pack'[d] = num_sending_pack[d]
  BY <1>1, <1>6
<1>17. IsoInv'
  <2> SUFFICES ASSUME NEW d \in Slots, owner'[d] # NULL
               PROVE  /\ \A i \in (taken[d] + 1)..Len(put[d]) :
                            IF put[d][i].to = conn[d]
                            THEN put[d][i].kind = "publish" => asked[d] # {}
                            ELSE soiled[d]
                      /\ \A u \in Threads : pc[u] = "append" /\ leaf[u][2] = d =>
                            IF heard[u] = conn[d] THEN asked[d] # {} ELSE soiled[d]
    BY <1>4, <1>16 DEF IsoInv
  <2> QED
    BY <1>16 DEF IsoInv
<1>18. CountInv'
  BY <1>4, <1>16 DEF CountInv
<1>19. LeafInv'
  <2>1. \A d \in Slots : \A f : d # c /\ <<f, d>> \in leaves \cup shared
                                => <<f, d>> \in leaves \cup shared'
    BY <1>2
  <2>2. \A d \in Slots : \A f \in acked'[d] : <<f, d>> \in leaves \cup shared'
    BY <1>6, <2>1 DEF LeafInv
  <2>3. \A u \in Threads : pc[u] \in {"added", "suback"} =>
           <<arg[u], context[u]>> \in leaves \cup shared'
    BY <1>8, <2>1 DEF LeafInv, Busy
  <2> QED
    BY <2>2, <2>3 DEF LeafInv
<1> QED
  BY <1>5, <1>7, <1>9, <1>10, <1>11, <1>12, <1>13, <1>14, <1>15, <1>17, <1>18, <1>19

(* remove_client is such an end. *)
LEMMA RemoveClientIInv ==
    ASSUME BrokerAssumption, IInv, NEW t \in Threads, NEW c \in Slots, RemoveClient(t, c)
    PROVE  IInv'
<1>1. /\ Serves(t, c) /\ Clean(c)
      /\ UNCHANGED <<put, got, leaves, conns, taken, requests>>
      /\ UNCHANGED <<pc, context, arg, todo, leaf, published, mid, heard>>
  BY Zenon DEF RemoveClient, thrVars, pubVars
<1>2. requests' \in Nat
  BY <1>1 DEF IInv, Types
<1> QED
  BY <1>1, <1>2, CleanIInv

(* So is a refused request. *)
LEMMA RefuseIInv ==
    ASSUME BrokerAssumption, IInv, NEW t \in Threads, NEW c \in Slots,
           NEW k \in {"connack", "suback"}, Refuse(t, c, k)
    PROVE  IInv'
<1>1. /\ Serves(t, c) /\ Clean(c) /\ Request /\ Answer(c, k)
      /\ UNCHANGED <<got, leaves, conns, taken>>
      /\ UNCHANGED <<pc, context, arg, todo, leaf, published, mid, heard>>
  BY Zenon DEF Refuse, thrVars, pubVars
<1>2. requests' \in Nat
  BY <1>1 DEF IInv, Types, Request
<1>3. \E p \in Packets : Send(c, p) /\ p.kind # "publish" /\ p.to = conn[c]
  BY <1>1, AnswerPacket DEF IInv
<1> QED
  BY <1>1, <1>2, <1>3, CleanIInv

(* mqtt3_sub_add keeps it: a search under way meets the new leaf only if   *)
(* it was not in the tree, and then nothing was queued for it; and a leaf  *)
(* that a search no longer meets is hidden from then on.                   *)
LEMMA SubscribeIInv ==
    ASSUME BrokerAssumption, IInv, NEW t \in Threads, NEW c \in Slots, NEW f \in Filters,
           HandleSubscribe(t, c, f)
    PROVE  IInv'
<1> USE DEF IInv
<1>1. /\ UNCHANGED <<owner, state, id, is_subscribe, num_sending_pack, put, got>>
      /\ UNCHANGED <<leaf, conns, conn, taken, soiled>>
      /\ UNCHANGED <<acked, due, published, mid, heard>>
  BY DEF HandleSubscribe, clientVars, connVars, pubVars
<1>2. /\ owner[c] = t /\ pc[t] = "idle" /\ owner[c] # NULL
      /\ requests' \in Nat
      /\ leaves \subseteq leaves' /\ leaves' \subseteq leaves \cup {<<f, c>>}
      /\ shared' \subseteq shared \cup {<<f, c>>}
      /\ shared \subseteq shared' \cup {<<f, c>>}
      /\ <<f, c>> \in leaves' \cup shared'
      /\ asked' = [asked EXCEPT ![c] = @ \cup {f}]
      /\ context' = [context EXCEPT ![t] = c]
      /\ arg' = [arg EXCEPT ![t] = f]
      /\ pc' = [pc EXCEPT ![t] = "added"]
  <2>1. owner[c] = t /\ pc[t] = "idle" /\ owner[c] # NULL
    BY DEF HandleSubscribe, Serves, BrokerAssumption
  <2>2. requests' \in Nat
    BY DEF HandleSubscribe, Request, Types
  <2> QED
    BY <2>1, <2>2 DEF HandleSubscribe, AddLeaf, Goto
<1>3. /\ todo' \in [Threads -> SUBSET leaves']
      /\ \A u \in Threads :
            /\ \A l \in todo'[u] \ todo[u] : l = <<f, c>> /\ l \notin leaves
            /\ \A l \in todo[u] \ todo'[u] : <<f, l[1]>> \in Hides /\ <<f, c>> \in leaves'
  <2>1. CASE HasLeaf(c, f)
    <3>1. todo' = todo
      BY <2>1 DEF HandleSubscribe
    <3> QED
      BY <3>1, <1>2 DEF Types
  <2>2. CASE ~HasLeaf(c, f)
    <3>1. <<f, c>> \notin leaves
      BY <2>2 DEF HasLeaf
    <3>2. AddLeaf(c, f)
      BY <2>2 DEF HandleSubscribe
    <3>3. PICK S \in SUBSET Threads :
             todo' = [u \in Threads |->
                        IF u \in S
                        THEN {l \in todo[u] : <<f, l[1]>> \notin Hides}
                                \cup {l \in {<<f, c>>} : <<f, arg[u]>> \in Matches}
                        ELSE todo[u]]
      BY <3>2 DEF AddLeaf
    <3>4. leaves' = leaves \cup {<<f, c>>}
      BY <3>2 DEF AddLeaf
    <3> QED
      BY <3>1, <3>3, <3>4 DEF Types
  <2> QED
    BY <2>1, <2>2
<1>4. /\ pc'[t] = "added" /\ context'[t] = c /\ arg'[t] = f
      /\ \A u \in Threads : u # t =>
            pc'[u] = pc[u] /\ context'[u] = context[u] /\ arg'[u] = arg[u]
      /\ f \in asked'[c] /\ \A d \in Slots : asked[d] \subseteq asked'[d]
      /\ \A d \in Slots : d # c => asked'[d] = asked[d]
  BY <1>2 DEF Types
<1>5. Flags'
  BY <1>1, Zenon DEF Flags
<1>6. Types'
  <2>1. /\ leaves' \subseteq Leaves /\ shared' \subseteq Leaves
        /\ asked' \in [Slots -> SUBSET Filters]
        /\ context' \in [Threads -> Slots \cup {NULL}]
        /\ arg' \in [Threads -> Filters \cup Topics \cup {NULL}]
        /\ pc' \in [Threads -> {"idle", "added", "suback", "search", "append"}]
    BY <1>2 DEF Types, Leaves
  <2> QED
    BY <1>1, <1>2, <1>3, <2>1 DEF Types
<1>7. QueueInv' /\ ConnInv' /\ SortedInv' /\ CountInv'
  BY <1>1 DEF QueueInv, ConnInv, SortedInv, CountInv
<1>8. \A u \in Threads : Searching(u)' => u # t /\ Searching(u)
  BY <1>4 DEF Searching
<1>9. BusyInv'
  <2>1. \A u \in Threads : Busy(u)' => context'[u] \in Slots /\ owner[context'[u]] = u
    BY <1>2, <1>4 DEF BusyInv, Busy
  <2>2. \A u \in Threads : pc'[u] \in {"added", "suback"} => arg'[u] \in asked'[context'[u]]
    BY <1>2, <1>4, <2>1 DEF BusyInv, Types, Busy
  <2>3. \A u \in Threads : pc'[u] = "append" => leaf[u] \in leaves' \ todo'[u]
    BY <1>2, <1>3, <1>4 DEF BusyInv
  <2> QED
    BY <1>1, <2>1, <2>2, <2>3 DEF BusyInv
<1>10. SubInv'
  <2>1. \A u \in Threads : pc'[u] = "suback" => is_subscribe[context'[u]]
    BY <1>4 DEF SubInv
  <2>2. \A d \in Slots : is_subscribe'[d] => asked'[d] # {}
    BY <1>1, <1>4 DEF SubInv
  <2>3. \A d \in Slots : asked'[d] # {} => owner'[d] # NULL
    BY <1>1, <1>2, <1>4 DEF SubInv
  <2>4. /\ \A d \in Slots : acked'[d] # {} => is_subscribe'[d]
        /\ \A u \in Threads : \A l \in due'[u] : l[1] \in acked'[l[2]]
    BY <1>1 DEF SubInv
  <2>5. \A u \in Threads : pc'[u] = "suback" => is_subscribe'[context'[u]]
    BY <1>1, <2>1
  <2> QED
    BY <2>2, <2>3, <2>4, <2>5, Zenon DEF SubInv
<1>11. OrderInv'
  <2>1. ASSUME NEW u \in Threads, Searching(u)', NEW d \in Slots, NEW i \in 1..Len(put[d]),
               put[d][i].kind = "publish", put[d][i].from = conn[context'[u]]
        PROVE  Before(u, d, put[d][i])'
    <3>1. Searching(u) /\ context'[u] = context[u] /\ pc'[u] = pc[u]
      BY <2>1, <1>4, <1>8
    <3>2. Before(u, d, put[d][i])
      BY <2>1, <3>1 DEF OrderInv
    <3> QED
      BY <3>1, <3>2, <1>1, <1>2, <1>3 DEF Before
  <2> QED
    BY <1>1, <1>8, <2>1 DEF OrderInv
<1>12. ReachInv'
  <2> SUFFICES ASSUME NEW u \in Threads, Searching(u)', NEW l \in due[u], ~Hidden(l[1])'
               PROVE  \/ l \in todo'[u]
                      \/ pc'[u] = "append" /\ leaf[u] = l
                      \/ \E i \in 1..Len(put[l[2]]) :
                            put[l[2]][i].mid = mid[u] /\ put[l[2]][i].filter = l[1]
    BY <1>1 DEF ReachInv
  <2>1. Searching(u) /\ pc'[u] = pc[u]
    BY <1>4, <1>8
  <2>2. ~Hidden(l[1])
    BY <1>2 DEF Hidden
  <2>3. l \in todo[u] => l \in todo'[u]
    BY <1>3 DEF Hidden
  <2> QED
    BY <2>1, <2>2, <2>3 DEF ReachInv
<1>13. IsoInv'
  <2>1. \A d \in Slots : asked[d] # {} => asked'[d] # {}
    BY <1>4
  <2>2. \A u \in Threads : pc'[u] = "append" => pc[u] = "append"
    BY <1>4
  <2> QED
    BY <1>1, <2>1, <2>2 DEF IsoInv
<1>14. LeafInv'
  <2>1. leaves \cup shared \subseteq leaves' \cup shared'
    BY <1>2
  <2>2. \A d \in Slots : \A g \in acked'[d] : <<g, d>> \in leaves' \cup shared'
    BY <1>1, <2>1 DEF LeafInv
  <2>3. \A u \in Threads : pc'[u] \in {"added", "suback"} =>
           <<arg'[u], context'[u]>> \in leaves' \cup shared'
    BY <1>2, <1>4, <2>1 DEF LeafInv
  <2> QED
    BY <2>2, <2>3 DEF LeafInv
<1> QED
  BY <1>5, <1>6, <1>7, <1>9, <1>10, <1>11, <1>12, <1>13, <1>14

(* Setting is_subscribe keeps it. *)
LEMMA SubscribedIInv ==
    ASSUME BrokerAssumption, IInv, NEW t \in Threads, Subscribed(t)
    PROVE  IInv'
<1> USE DEF IInv
<1>1. /\ UNCHANGED <<owner, state, id, num_sending_pack, put, got, leaves>>
      /\ UNCHANGED <<context, arg, todo, leaf, conns, conn, taken, soiled>>
      /\ UNCHANGED <<asked, acked, shared, due, published, mid, heard, requests>>
  BY Zenon DEF Subscribed, connVars, subVars, pubVars
<1>2. pc[t] = "added" /\ pc' = [pc EXCEPT ![t] = "suback"]
  BY Zenon DEF Subscribed, Goto
<1>3. context[t] \in Slots /\ arg[t] \in asked[context[t]]
  BY <1>2 DEF BusyInv, Busy
<1>4. /\ is_subscribe' \in [Slots -> BOOLEAN] /\ is_subscribe'[context[t]]
      /\ \A d \in Slots : is_subscribe[d] => is_subscribe'[d]
      /\ \A d \in Slots : d # context[t] => (is_subscribe'[d] <=> is_subscribe[d])
  BY <1>3, Zenon DEF Subscribed, Flags
<1>5. /\ pc' \in [Threads -> {"idle", "added", "suback", "search", "append"}]
      /\ pc'[t] = "suback" /\ \A u \in Threads : u # t => pc'[u] = pc[u]
  BY <1>2 DEF Types
<1>6. Flags'
  BY <1>1, <1>4, Zenon DEF Flags
<1>7. Types'
  BY <1>1, <1>5 DEF Types
<1>8. QueueInv' /\ ConnInv' /\ SortedInv' /\ CountInv'
  BY <1>1 DEF QueueInv, ConnInv, SortedInv, CountInv
<1>9. BusyInv'
  BY <1>1, <1>2, <1>5 DEF BusyInv, Busy
<1>10. SubInv'
  <2>1. \A d \in Slots : is_subscribe'[d] => asked[d] # {}
    BY <1>3, <1>4 DEF SubInv
  <2>2. \A d \in Slots : acked[d] # {} => is_subscribe'[d]
    BY <1>4 DEF SubInv
  <2>3. \A u \in Threads : pc'[u] = "suback" => is_subscribe'[context[u]]
    <3> SUFFICES ASSUME NEW u \in Threads, pc'[u] = "suback" PROVE is_subscribe'[context[u]]
      OBVIOUS
    <3>1. CASE u = t
      BY <3>1, <1>4
    <3>2. CASE u # t
      <4>1. pc[u] = "suback" /\ context[u] \in Slots
        BY <3>2, <1>5 DEF BusyInv, Busy
      <4>2. is_subscribe[context[u]]
        BY <4>1 DEF SubInv
      <4> QED
        BY <4>1, <4>2, <1>4
    <3> QED
      BY <3>1, <3>2
  <2> QED
    BY <1>1, <2>1, <2>2, <2>3 DEF SubInv
<1>11. OrderInv' /\ ReachInv'
  <2>1. \A u \in Threads : Searching(u)' => pc'[u] = pc[u]
    BY <1>5 DEF Searching
  <2> QED
    <3>1. ReachInv'
      BY <1>1, <2>1, ReachKept
    <3>2. OrderInv'
      BY <1>1, <1>5 DEF OrderInv, Searching, Before
    <3> QED
      BY <3>1, <3>2
<1>12. IsoInv' /\ LeafInv'
  BY <1>1, <1>2, <1>5, LeavesKept DEF IsoInv
<1> QED
  BY <1>6, <1>7, <1>8, <1>9, <1>10, <1>11, <1>12

(* The begin of a search keeps it: its message is the newest one, and all  *)
(* that is due is to be met.                                               *)
LEMMA PublishIInv ==
    ASSUME BrokerAssumption, IInv, NEW t \in Threads, NEW c \in Slots, NEW topic \in Topics,
           HandlePublish(t, c, topic)
    PROVE  IInv'
<1> USE DEF IInv
<1>1. /\ UNCHANGED <<owner, state, id, is_subscribe, num_sending_pack, put, got, leaves>>
      /\ UNCHANGED <<leaf, conns, conn, taken, soiled>>
      /\ UNCHANGED <<asked, acked, shared, heard, requests>>
  BY DEF HandlePublish, clientVars, connVars
<1>2. /\ owner[c] = t /\ pc[t] = "idle"
      /\ published' = published + 1
      /\ mid' = [mid EXCEPT ![t] = published + 1]
      /\ context' = [context EXCEPT ![t] = c]
      /\ arg' = [arg EXCEPT ![t] = topic]
      /\ todo' = [todo EXCEPT ![t] = Matching(c, topic)]
      /\ due' = [due EXCEPT ![t] = Due(topic)]
      /\ pc' = [pc EXCEPT ![t] = "search"]
  BY DEF HandlePublish, Goto, Serves
<1>3. /\ pc' \in [Threads -> {"idle", "added", "suback", "search", "append"}]
      /\ context' \in [Threads -> Slots \cup {NULL}]
      /\ arg' \in [Threads -> Filters \cup Topics \cup {NULL}]
      /\ mid' \in [Threads -> Nat] /\ published' \in Nat
  BY <1>2 DEF Types
<1>4. /\ todo' \in [Threads -> SUBSET leaves]
      /\ due' \in [Threads -> SUBSET Leaves]
      /\ \A l \in due'[t] : l[1] \in acked[l[2]] /\ (l \in todo'[t] \/ Hidden(l[1]))
  <2>1. due'[t] = Due(topic) /\ todo'[t] = Matching(c, topic)
    BY <1>2 DEF Types
  <2>2. Due(topic) \subseteq Leaves /\ Matching(c, topic) \subseteq leaves
    BY DEF Due, Leaves, Matching
  <2>3. \A l \in Due(topic) : l[1] \in acked[l[2]] /\ <<l[1], topic>> \in Matches
    BY DEF Due
  <2>4. \A l \in Due(topic) : l \in leaves
    BY DEF Due, LeafInv
  <2>5. \A l \in Due(topic) : l \in Matching(c, topic) \/ Hidden(l[1])
    BY <2>3, <2>4 DEF Matching
  <2> QED
    BY <1>2, <2>1, <2>2, <2>3, <2>5 DEF Types
<1>5. /\ pc'[t] = "search" /\ context'[t] = c /\ mid'[t] = published + 1
      /\ \A u \in Threads : u # t =>
            /\ pc'[u] = pc[u] /\ context'[u] = context[u] /\ mid'[u] = mid[u]
            /\ arg'[u] = arg[u] /\ todo'[u] = todo[u] /\ due'[u] = due[u]
  BY <1>2 DEF Types
<1>6. Flags'
  BY <1>1, Zenon DEF Flags
<1>7. Types'
  BY <1>1, <1>3, <1>4 DEF Types
<1>8. QueueInv' /\ ConnInv' /\ SortedInv' /\ CountInv'
  BY <1>1 DEF QueueInv, ConnInv, SortedInv, CountInv
<1>9. BusyInv'
  BY <1>1, <1>2, <1>5 DEF BusyInv, Busy
<1>10. SubInv'
  <2>1. /\ \A d \in Slots : is_subscribe'[d] => asked'[d] # {}
        /\ \A d \in Slots : asked'[d] # {} => owner'[d] # NULL
        /\ \A d \in Slots : acked'[d] # {} => is_subscribe'[d]
    BY <1>1 DEF SubInv
  <2>2. \A u \in Threads : pc'[u] = "suback" => is_subscribe'[context'[u]]
    BY <1>1, <1>5 DEF SubInv
  <2>3. \A u \in Threads : \A l \in due'[u] : l[1] \in acked'[l[2]]
    BY <1>1, <1>4, <1>5 DEF SubInv
  <2> QED
    BY <2>1, <2>2, <2>3, Zenon DEF SubInv
<1>11. OrderInv'
  <2>1. ASSUME NEW d \in Slots, NEW i \in 1..Len(put[d]), put[d][i].kind = "publish"
        PROVE  put[d][i].mid < published + 1 /\ put[d][i].mid <= published + 1
    <3>1. put[d] \in Seq(Packets)
      BY DEF Types
    <3>2. put[d][i] \in Packets
      BY <3>1, ElementOfSeq
    <3>3. put[d][i].mid \in Nat /\ put[d][i].mid <= published
      BY <2>1, <3>2 DEF OrderInv, Packets
    <3>4. published \in Nat
      BY DEF Types
    <3> QED
      BY <3>3, <3>4
  <2>3. \A u \in Threads : Searching(u)' => mid'[u] \in 1..published'
    BY <1>2, <1>5 DEF OrderInv, Searching, Types
  <2>4. ASSUME NEW u \in Threads, Searching(u)', NEW d \in Slots, NEW i \in 1..Len(put[d]),
               put[d][i].kind = "publish", put[d][i].from = conn[context'[u]]
        PROVE  Before(u, d, put[d][i])'
    <3>1. CASE u = t
      BY <3>1, <2>1, <2>4, <1>1, <1>5 DEF Before
    <3>2. CASE u # t
      <4>1. Searching(u) /\ context'[u] = context[u]
        BY <3>2, <2>4, <1>5 DEF Searching
      <4>2. Before(u, d, put[d][i])
        BY <4>1, <2>4 DEF OrderInv
      <4> QED
        BY <3>2, <4>2, <1>1, <1>5 DEF Before
    <3> QED
      BY <3>1, <3>2
  <2> QED
    BY <1>1, <1>2, <2>1, <2>3, <2>4 DEF OrderInv
<1>12. ReachInv'
  <2> SUFFICES ASSUME NEW u \in Threads, Searching(u)', NEW l \in due'[u], ~Hidden(l[1])
               PROVE  \/ l \in todo'[u]
                      \/ pc'[u] = "append" /\ leaf[u] = l
                      \/ \E i \in 1..Len(put[l[2]]) :
                            put[l[2]][i].mid = mid'[u] /\ put[l[2]][i].filter = l[1]
    <3>1. \A f : Hidden(f) => Hidden(f)'
      BY <1>1, HiddenKept
    <3> QED
      BY <1>1, <3>1 DEF ReachInv
  <2>1. CASE u = t
    BY <2>1, <1>4
  <2>2. CASE u # t
    BY <2>2, <1>5 DEF ReachInv, Searching
  <2> QED
    BY <2>1, <2>2
<1>13. IsoInv' /\ LeafInv'
  BY <1>1, <1>5, LeavesKept DEF IsoInv
<1> QED
  BY <1>6, <1>7, <1>8, <1>9, <1>10, <1>11, <1>12, <1>13

(* A step of a search keeps it: a leaf that is due has is_subscribe set,   *)
(* so it is not passed over.                                               *)
LEMMA VisitIInv ==
    ASSUME BrokerAssumption, IInv, NEW t \in Threads, Visit(t)
    PROVE  IInv'
<1> USE DEF IInv
<1>1. /\ UNCHANGED <<owner, state, id, is_subscribe, num_sending_pack, put, got, leaves>>
      /\ UNCHANGED <<context, arg, conns, conn, taken, soiled, asked, acked, shared, due>>
      /\ UNCHANGED <<published, mid, requests>>
  BY DEF Visit, clientVars, connVars, subVars
<1>2. PICK l \in todo[t] :
         /\ todo' = [todo EXCEPT ![t] = @ \ {l}]
         /\ IF is_subscribe[l[2]]
            THEN /\ leaf' = [leaf EXCEPT ![t] = l]
                 /\ heard' = [heard EXCEPT ![t] = conn[l[2]]]
                 /\ pc' = [pc EXCEPT ![t] = "append"]
            ELSE UNCHANGED <<leaf, heard, pc>>
  BY DEF Visit, MetLeaf, Goto
<1>3. pc[t] = "search" /\ l \in leaves /\ l \in Leaves /\ l[1] \in Filters /\ l[2] \in Slots
  BY <1>2 DEF Visit, Types, Leaves
<1>4. /\ todo' \in [Threads -> SUBSET leaves] /\ todo'[t] = todo[t] \ {l}
      /\ \A u \in Threads : u # t => todo'[u] = todo[u]
  BY <1>2 DEF Types
<1>5. /\ pc' \in [Threads -> {"idle", "added", "suback", "search", "append"}]
      /\ leaf' \in [Threads -> Leaves \cup {NULL}]
      /\ heard' \in [Threads -> Nat]
      /\ \A u \in Threads : u # t => pc'[u] = pc[u] /\ leaf'[u] = leaf[u] /\ heard'[u] = heard[u]
  <2>1. conn[l[2]] \in Nat
    BY <1>3 DEF Types
  <2>2. CASE is_subscribe[l[2]]
    <3>1. /\ leaf' = [leaf EXCEPT ![t] = l]
          /\ heard' = [heard EXCEPT ![t] = conn[l[2]]]
          /\ pc' = [pc EXCEPT ![t] = "append"]
      BY <1>2, <2>2
    <3> QED
      BY <1>3, <2>1, <3>1 DEF Types
  <2>3. CASE ~is_subscribe[l[2]]
    BY <1>2, <2>3 DEF Types
  <2> QED
    BY <2>2, <2>3
<1>6. \/ /\ is_subscribe[l[2]] /\ pc'[t] = "append" /\ leaf'[t] = l
         /\ heard'[t] = conn[l[2]]
      \/ /\ ~is_subscribe[l[2]] /\ pc'[t] = "search" /\ heard'[t] = heard[t]
  BY <1>2, <1>3 DEF Types
<1>7. Flags'
  BY <1>1, Zenon DEF Flags
<1>8. Types'
  BY <1>1, <1>4, <1>5 DEF Types
<1>9. QueueInv' /\ SortedInv' /\ CountInv'
  BY <1>1 DEF QueueInv, SortedInv, CountInv
<1>10. BusyInv'
  <2>1. \A u \in Threads : pc'[u] = "append" => leaf'[u] \in leaves \ todo'[u]
    BY <1>3, <1>4, <1>5, <1>6 DEF BusyInv
  <2>2. \A u \in Threads : Busy(u)' => Busy(u)
    BY <1>3, <1>5 DEF Busy
  <2>3. \A u \in Threads : pc'[u] \in {"added", "suback"} => pc[u] \in {"added", "suback"}
    BY <1>5, <1>6
  <2> QED
    BY <1>1, <2>1, <2>2, <2>3 DEF BusyInv
<1>11. ConnInv'
  <2>1. \A u \in Threads : heard'[u] <= conns
    BY <1>3, <1>5, <1>6 DEF ConnInv
  <2> QED
    BY <1>1, <2>1 DEF ConnInv
<1>12. SubInv'
  <2>1. \A u \in Threads : pc'[u] = "suback" => pc[u] = "suback"
    BY <1>5, <1>6
  <2> QED
    BY <1>1, <2>1 DEF SubInv
<1>13. \A u \in Threads : Searching(u)' => Searching(u)
  BY <1>3, <1>5 DEF Searching
<1>14. OrderInv'
  <2>1. ASSUME NEW u \in Threads, Searching(u)', NEW d \in Slots, NEW i \in 1..Len(put[d]),
               put[d][i].kind = "publish", put[d][i].from = conn[context[u]]
        PROVE  Before(u, d, put[d][i])'
    <3>1. Before(u, d, put[d][i])
      BY <2>1, <1>13 DEF OrderInv
    <3>2. CASE u # t
      BY <3>1, <3>2, <1>1, <1>4, <1>5 DEF Before
    <3>3. CASE u = t
      BY <3>1, <3>3, <1>1, <1>2, <1>4, <1>6 DEF Before
    <3> QED
      BY <3>2, <3>3
  <2> QED
    BY <1>1, <1>13, <2>1 DEF OrderInv
<1>15. ReachInv'
  <2> SUFFICES ASSUME NEW u \in Threads, Searching(u)', NEW m \in due[u], ~Hidden(m[1])
               PROVE  \/ m \in todo'[u]
                      \/ pc'[u] = "append" /\ leaf'[u] = m
                      \/ \E i \in 1..Len(put[m[2]]) :
                            put[m[2]][i].mid = mid[u] /\ put[m[2]][i].filter = m[1]
    BY <1>1 DEF ReachInv, Hidden
  <2>1. CASE u = t /\ m = l
    <3>1. is_subscribe[l[2]]
      BY <2>1, <1>3 DEF SubInv
    <3> QED
      BY <2>1, <3>1, <1>6
  <2>2. CASE u = t /\ m # l
    BY <2>2, <1>3, <1>4, <1>13 DEF ReachInv
  <2>3. CASE u # t
    BY <2>3, <1>4, <1>5, <1>13 DEF ReachInv
  <2> QED
    BY <2>1, <2>2, <2>3
<1>16. IsoInv'
  <2>1. \A d \in Slots : owner[d] # NULL =>
           \A u \in Threads : pc'[u] = "append" /\ leaf'[u][2] = d =>
              IF heard'[u] = conn[d] THEN asked[d] # {} ELSE soiled[d]
    BY <1>3, <1>5, <1>6 DEF IsoInv, SubInv
  <2> QED
    BY <1>1, <2>1 DEF IsoInv
<1>17. LeafInv'
  BY <1>1, <1>5, <1>6, LeavesKept
<1> QED
  BY <1>7, <1>8, <1>9, <1>10, <1>11, <1>12, <1>14, <1>15, <1>16, <1>17

(* The end of a search keeps it. *)
LEMMA SearchedIInv ==
    ASSUME BrokerAssumption, IInv, NEW t \in Threads, Searched(t)
    PROVE  IInv'
<1> USE DEF IInv
<1>1. /\ UNCHANGED <<owner, state, id, is_subscribe, num_sending_pack, put, got, leaves>>
      /\ UNCHANGED <<todo, leaf, conns, conn, taken, soiled, asked, acked, shared>>
      /\ UNCHANGED <<published, heard, requests>>
  BY DEF Searched, clientVars, connVars
<1>2. /\ context' = [context EXCEPT ![t] = NULL]
      /\ arg' = [arg EXCEPT ![t] = NULL]
      /\ mid' = [mid EXCEPT ![t] = 0]
      /\ due' = [due EXCEPT ![t] = {}]
      /\ pc' = [pc EXCEPT ![t] = "idle"]
  BY DEF Searched, Goto
<1>3. Types'
  <2>1. /\ pc' \in [Threads -> {"idle", "added", "suback", "search", "append"}]
        /\ context' \in [Threads -> Slots \cup {NULL}]
        /\ arg' \in [Threads -> Filters \cup Topics \cup {NULL}]
        /\ mid' \in [Threads -> Nat]
        /\ due' \in [Threads -> SUBSET Leaves]
    BY <1>2 DEF Types
  <2> QED
    BY <1>1, <2>1 DEF Types
<1>4. /\ pc'[t] = "idle" /\ due'[t] = {}
      /\ \A u \in Threads : u # t =>
            /\ pc'[u] = pc[u] /\ context'[u] = context[u] /\ mid'[u] = mid[u]
            /\ arg'[u] = arg[u] /\ due'[u] = due[u]
  BY <1>2 DEF Types
<1>5. Flags'
  BY <1>1, Zenon DEF Flags
<1>6. QueueInv' /\ ConnInv' /\ SortedInv' /\ CountInv'
  BY <1>1 DEF QueueInv, ConnInv, SortedInv, CountInv
<1>7. BusyInv' /\ IsoInv' /\ LeafInv'
  BY <1>1, <1>4, LeavesKept DEF BusyInv, Busy, IsoInv
<1>8. SubInv'
  <2>1. /\ \A d \in Slots : is_subscribe'[d] => asked'[d] # {}
        /\ \A d \in Slots : asked'[d] # {} => owner'[d] # NULL
        /\ \A d \in Slots : acked'[d] # {} => is_subscribe'[d]
    BY <1>1 DEF SubInv
  <2>2. \A u \in Threads : pc'[u] = "suback" => is_subscribe'[context'[u]]
    BY <1>1, <1>4 DEF SubInv
  <2>3. \A u \in Threads : \A l \in due'[u] : l[1] \in acked'[l[2]]
    BY <1>1, <1>4 DEF SubInv
  <2> QED
    BY <2>1, <2>2, <2>3, Zenon DEF SubInv
<1>9. OrderInv' /\ ReachInv'
  <2>1. \A u \in Threads : Searching(u)' => u # t
    BY <1>4 DEF Searching
  <2> QED
    BY <1>1, <1>4, <2>1, ReachKept DEF OrderInv, Searching, Before
<1> QED
  BY <1>3, <1>5, <1>6, <1>7, <1>8, <1>9
-----------------------------------------------------------------------------
(* Every reachable state of the broker satisfies the invariant. *)
THEOREM Invariant == Spec => []IInv
<1>1. Init => IInv
  BY InitIInv, BrokerAssumption
<1>2. IInv /\ [Next]_vars => IInv'
  <2> SUFFICES ASSUME IInv, [Next]_vars PROVE IInv'
    OBVIOUS
  <2> USE BrokerAssumption
  <2>1. ASSUME NEW t \in Threads, Handler(t) PROVE IInv'
    BY <2>1, SubscribedIInv, SubackIInv, VisitIInv, PublishMsgIInv, SearchedIInv DEF Handler
  <2>2. ASSUME NEW t \in Threads, NEW c \in Slots,
               Take(t, c) \/ Accept(t, c) \/ RemoveClient(t, c)
        PROVE  IInv'
    BY <2>2, TakeIInv, AcceptIInv, RemoveClientIInv
  <2>3. ASSUME NEW t \in Threads, NEW c \in Slots,
               (\E i \in Ids : HandleConnect(t, c, i)) \/ HandleOther(t, c)
        PROVE  IInv'
    BY <2>3, ConnectIInv
  <2>4. ASSUME NEW t \in Threads, NEW c \in Slots, NEW k \in {"connack", "suback"},
               Refuse(t, c, k)
        PROVE  IInv'
    BY <2>4, RefuseIInv
  <2>5. ASSUME NEW t \in Threads, NEW c \in Slots, NEW f \in Filters, HandleSubscribe(t, c, f)
        PROVE  IInv'
    BY <2>5, SubscribeIInv
  <2>6. ASSUME NEW t \in Threads, NEW c \in Slots, NEW topic \in Topics,
               HandlePublish(t, c, topic)
        PROVE  IInv'
    BY <2>6, PublishIInv
  <2>7. CASE UNCHANGED vars
    <3>1. /\ UNCHANGED <<owner, state, id, is_subscribe, num_sending_pack, put, got, leaves>>
          /\ UNCHANGED <<pc, context, arg, todo, leaf, conns, conn, taken, soiled>>
          /\ UNCHANGED <<asked, acked, shared, due, published, mid, heard, requests>>
      BY <2>7 DEF vars, clientVars, thrVars, connVars, subVars, pubVars
    <3>2. Flags' /\ Types'
      BY <3>1 DEF IInv, Flags, Types
    <3>3. QueueInv' /\ BusyInv' /\ ConnInv' /\ SubInv' /\ LeafInv'
      BY <3>1 DEF IInv, QueueInv, BusyInv, ConnInv, SubInv, LeafInv, Busy
    <3>4. OrderInv' /\ SortedInv' /\ IsoInv' /\ CountInv'
      BY <3>1 DEF IInv, OrderInv, SortedInv, IsoInv, CountInv, Searching, Before
    <3>5. ReachInv'
      BY <3>1, ReachKept DEF IInv
    <3> QED
      BY <3>2, <3>3, <3>4, <3>5 DEF IInv
  <2>8. ASSUME NEW t \in Threads, NoEvent(t) PROVE IInv'
    BY <2>7, <2>8 DEF NoEvent
  <2> QED
    BY <2>1, <2>2, <2>3, <2>4, <2>5, <2>6, <2>7, <2>8 DEF Next
<1> QED
  BY <1>1, <1>2, PTL DEF Spec

(* Every variable has its type, and the writer never takes from an empty   *)
(* queue: num_sending_pack is at most what is queued (publish_msg,         *)
(* ack_msg, add_client, clean_context).                                    *)
THEOREM TypeCorrect == Spec => []TypeOK
<1>1. IInv => TypeOK
  <2> SUFFICES ASSUME IInv PROVE TypeOK
    OBVIOUS
  <2>1. \A c \in Slots : num_sending_pack[c] \in 0..Backlog(c)
    <3> SUFFICES ASSUME NEW c \in Slots PROVE num_sending_pack[c] \in 0..Backlog(c)
      OBVIOUS
    <3> DEFINE m == Len(put[c])
               n == Len(got[c])
               k == num_sending_pack[c]
    <3>1. m \in Nat /\ n \in Nat
      BY Lengths DEF IInv
    <3>2. k \in Nat /\ n + k <= m
      BY DEF IInv, QueueInv, Types
    <3> HIDE DEF m, n, k
    <3>3. k \in 0..(m - n)
      BY <3>1, <3>2
    <3> QED
      BY <3>3 DEF m, n, k, Backlog
  <2>2. is_subscribe \in [Slots -> BOOLEAN]
    BY DEF IInv, Flags
  <2> QED
    BY <2>1, <2>2 DEF IInv, Types, Leaves, TypeOK
<1> QED
  BY <1>1, Invariant, PTL

(* Messages of one connection are queued for a slot in the order they were *)
(* published, each once for each filter, however many threads publish and  *)
(* subscribe (mqtt3_sub_tree_process, publish_msg).                        *)
THEOREM KeepsOrder == Spec => []InOrder
<1>1. IInv => InOrder
  <2> SUFFICES ASSUME IInv PROVE InOrder
    OBVIOUS
  <2>1. \A c \in Slots : put[c] \in Seq(Packets)
    BY DEF IInv, Types
  <2>2. \A c \in Slots : DOMAIN put[c] = 1..Len(put[c])
    BY <2>1, LenProperties
  <2> QED
    BY <2>2 DEF IInv, SortedInv, Ordered, InOrder
<1> QED
  BY <1>1, Invariant, PTL

(* When a search is over its message is queued for every client that had   *)
(* SUBACK 0 for a matching filter when it began and is still there, other  *)
(* than for the leaf of another slot with its identifier, or with a '#'    *)
(* that has a node below it (_sub_add, _sub_search).                       *)
THEOREM ReachesAll == Spec => []Reached
<1>1. IInv => Reached
  <2> SUFFICES ASSUME IInv, NEW t \in Threads, pc[t] = "search", todo[t] = {}, NEW l \in due[t],
                      ~Hidden(l[1])
               PROVE  \E i \in DOMAIN put[l[2]] :
                         put[l[2]][i].mid = mid[t] /\ put[l[2]][i].filter = l[1]
    BY DEF Reached
  <2>1. \E i \in 1..Len(put[l[2]]) :
           put[l[2]][i].mid = mid[t] /\ put[l[2]][i].filter = l[1]
    BY DEF IInv, ReachInv, Searching
  <2>2. put[l[2]] \in Seq(Packets)
    BY DEF IInv, Types, Leaves
  <2> QED
    BY <2>1, <2>2, LenProperties
<1> QED
  BY <1>1, Invariant, PTL

(* A client is sent nothing that was meant for an earlier connection in    *)
(* its slot, unless packets were queued for it or about to be when it was  *)
(* accepted, and no message looked up for it before it has subscribed.     *)
THEOREM Isolates == Spec => []Isolated
<1>1. IInv => Isolated
  <2> SUFFICES ASSUME IInv, NEW c \in Slots, owner[c] # NULL, NEW x \in Range(Inbox(c))
               PROVE  IF x.to = conn[c] THEN x.kind = "publish" => asked[c] # {} ELSE soiled[c]
    BY DEF Isolated
  <2>1. /\ got[c] \in Seq(Packets) /\ taken[c] \in Nat
        /\ Len(got[c]) \in Nat /\ Len(put[c]) \in Nat
    BY Lengths DEF IInv, Types
  <2>2. /\ taken[c] <= Len(got[c]) /\ Len(got[c]) <= Len(put[c])
        /\ \A i \in 1..Len(got[c]) : got[c][i] = put[c][i]
    BY DEF IInv, QueueInv
  <2>3. PICK i \in (taken[c] + 1)..Len(got[c]) : x = got[c][i]
    <3>1. PICK k \in DOMAIN Inbox(c) : x = Inbox(c)[k]
      BY DEF Range
    <3>2. k \in 1..(Len(got[c]) - taken[c]) /\ Inbox(c)[k] = got[c][taken[c] + k]
      BY <2>1, <2>2 DEF Inbox
    <3> QED
      BY <3>1, <3>2, <2>1, <2>2
  <2>4. i \in 1..Len(got[c]) /\ i \in (taken[c] + 1)..Len(put[c])
    BY <2>1, <2>2
  <2>5. x = put[c][i]
    BY <2>2, <2>3, <2>4
  <2> QED
    BY <2>4, <2>5 DEF IInv, IsoInv
<1> QED
  BY <1>1, Invariant, PTL

(* num_sending_pack counts the first answer to a connection whose slot had *)
(* nothing queued (add_client, ack_msg, loop_write).                       *)
THEOREM CountsFirstAnswer == Spec => []FirstAnswerCounted
<1>1. IInv => FirstAnswerCounted
  <2> SUFFICES ASSUME IInv, NEW c \in Slots, owner[c] # NULL, ~soiled[c],
                      got[c] # put[c], Inbox(c) = <<>>
               PROVE  num_sending_pack[c] > 0
    BY DEF FirstAnswerCounted
  <2>1. /\ got[c] \in Seq(Packets) /\ put[c] \in Seq(Packets) /\ taken[c] \in Nat
        /\ Len(got[c]) \in Nat /\ Len(put[c]) \in Nat
    BY Lengths DEF IInv, Types
  <2>2. /\ taken[c] <= Len(got[c]) /\ Len(got[c]) <= Len(put[c])
        /\ \A i \in 1..Len(got[c]) : got[c][i] = put[c][i]
    BY DEF IInv, QueueInv
  <2>3. Len(got[c]) = taken[c]
    <3>1. Len(Inbox(c)) = 0
      OBVIOUS
    <3>2. taken[c] + 1 > Len(got[c])
      BY <3>1, <2>1, <2>2 DEF Inbox
    <3> QED
      BY <3>2, <2>1, <2>2
  <2>4. Len(got[c]) # Len(put[c])
    BY <2>1, <2>2, SeqEqual
  <2> QED
    BY <2>1, <2>2, <2>3, <2>4 DEF IInv, CountInv
<1> QED
  BY <1>1, Invariant, PTL
=============================================================================
