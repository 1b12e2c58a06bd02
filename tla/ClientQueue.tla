----------------------------- MODULE ClientQueue -----------------------------
(***************************************************************************)
(* The outgoing queue of one client slot (struct client) and everybody who *)
(* touches it.                                                             *)
(*                                                                         *)
(*   - Owner is the event-loop thread that has the client in its           *)
(*     contexts_by_ptr table.  It handles the client's packets, appends    *)
(*     acknowledgements, writes queued packets to the socket, and closes   *)
(*     the connection.                                                     *)
(*   - Publishers are the event-loop threads of other clients: they append *)
(*     PUBLISH packets to this client's queue (publish_msg).               *)
(*                                                                         *)
(* The queue is the code's linked list: a heap of packet cells with next   *)
(* pointers, sending_packet (head), sending_packet_tail, the packet being  *)
(* written sending_cur_packet, and the counter num_sending_pack.  The      *)
(* counter is what the writer looks at; the list is what it takes from.    *)
(* The list and the counter are guarded by sending_lock, except that       *)
(* add_client and clean_context store 0 into the counter without it: the   *)
(* increment of an appending thread is therefore two steps, the load       *)
(* (with the list update, Link) and the store (Count).                     *)
(***************************************************************************)
EXTENDS Integers, Sequences

CONSTANTS
    Publishers,   \* event-loop threads serving the publishing clients
    Owner,        \* the event-loop thread serving this client
    Cells,        \* memory cells that malloc hands out for struct packet
    NULL,
    MaxMsgs,      \* bound: packets built in a behaviour
    Lens,         \* lengths of serialised packets (wlen)
    UINT          \* 2^32: wcur, wlen and the result of send are uint32_t

Threads == Publishers \cup {Owner}

ASSUME QueueAssumption ==
    /\ Owner \notin Publishers
    /\ NULL \notin Cells
    /\ NULL \notin Threads
    /\ MaxMsgs \in Nat
    /\ UINT \in Nat \ {0}
    /\ Lens \subseteq 1..(UINT - 1)

VARIABLES
    (* struct client *)
    sending_packet,       \* first cell of the list, or NULL
    sending_packet_tail,  \* last cell of the list, or NULL
    sending_cur_packet,   \* cell being written, or NULL
    num_sending_pack,
    sending_lock,         \* thread that holds it for writing, or NULL
    is_subscribe,
    state,                \* cs_new or cs_connected
    in_table,             \* the slot is in the owner's contexts_by_ptr
    (* the heap of struct packet *)
    live, next, msg, wcur, wlen,
    (* the threads *)
    pc,
    new_packet,           \* the packet a thread is appending, or NULL
    loaded,               \* num_sending_pack as a thread loaded it for its ++
    num_sending,          \* owner: attempts left in this round of writing
    after,                \* owner: where it goes when its append is done
    (* history *)
    made,                 \* packets built so far; each gets the next number
    put, got,             \* message numbers appended, handed to the writer
    at,                   \* cell of each appended message
    sent,                 \* leading bytes of the current packet on the wire
    short,                \* a packet was retired before all of it was sent
    lossy                 \* num_sending_pack has lost track of the list

ctxVars  == <<sending_packet, sending_packet_tail, sending_cur_packet,
              num_sending_pack, sending_lock, is_subscribe, state, in_table>>
heapVars == <<live, next, msg, wcur, wlen>>
thrVars  == <<pc, new_packet, loaded, num_sending, after>>
histVars == <<made, put, got, at, sent, short, lossy>>
vars     == <<ctxVars, heapVars, thrVars, histVars>>

Msgs    == 1..MaxMsgs
Backlog == Len(put) - Len(got)             \* how many packets are in the list
Pending == (Len(got) + 1)..Len(put)        \* their positions in put and at

Goto(t, to) == pc' = [pc EXCEPT ![t] = to]
-----------------------------------------------------------------------------
(* Appending a packet: publish_msg and ack_msg. *)

(* malloc and serialise a packet; no other thread can see it yet.  The     *)
(* bound MaxMsgs is on the packets built in one behaviour.                 *)
Build(t) ==
    /\ made < MaxMsgs
    /\ \E c \in Cells \ live, n \in Lens :
          /\ live'       = live \cup {c}
          /\ next'       = [next EXCEPT ![c] = NULL]
          /\ msg'        = [msg EXCEPT ![c] = made + 1]
          /\ wcur'       = [wcur EXCEPT ![c] = 0]
          /\ wlen'       = [wlen EXCEPT ![c] = n]
          /\ new_packet' = [new_packet EXCEPT ![t] = c]
    /\ made' = made + 1
    /\ Goto(t, "built")

(* sending_lock can be taken; mutant: it is not looked at. *)
Unguarded == TRUE
Unlocked  == sending_lock = NULL

(* Link cell c behind the tail; mutant: in front of the head. *)
LinkBefore(c) ==
    /\ next' = [next EXCEPT ![c] = sending_packet]
    /\ sending_packet' = c
    /\ sending_packet_tail' = IF sending_packet = NULL THEN c
                              ELSE sending_packet_tail
LinkBehind(c) ==
    /\ IF sending_packet_tail # NULL
       THEN /\ next' = [next EXCEPT ![sending_packet_tail] = c]
            /\ UNCHANGED sending_packet
       ELSE /\ sending_packet' = c
            /\ UNCHANGED next
    /\ sending_packet_tail' = c

(* Take sending_lock, append the packet to the list, load the counter.     *)
Link(t) ==
    LET c == new_packet[t] IN
    /\ pc[t] = "built"
    /\ Unlocked
    /\ sending_lock' = t
    /\ LinkBehind(c)
    /\ loaded' = [loaded EXCEPT ![t] = num_sending_pack]
    /\ put' = Append(put, msg[c])
    /\ at'  = Append(at, c)
    /\ Goto(t, "count")
    /\ UNCHANGED <<sending_cur_packet, num_sending_pack, is_subscribe, state,
                   in_table, live, msg, wcur, wlen, new_packet, num_sending,
                   after, made, got, sent, short, lossy>>

(* Where a thread goes after its append: a publisher is done with this     *)
(* leaf; the owner goes on publishing, returns to loop_run, or removes the *)
(* client.                                                                 *)
AfterAppend(t) == IF t = Owner THEN after ELSE "idle"

(* The counter as a thread increments it; mutant: it does not. *)
NotCounted(t) == loaded[t]
Counted(t)    == loaded[t] + 1

(* Store the incremented counter and release sending_lock. *)
Count(t) ==
    /\ pc[t] = "count"
    /\ num_sending_pack' = Counted(t)
    /\ sending_lock' = NULL
    /\ new_packet' = [new_packet EXCEPT ![t] = NULL]
    /\ loaded' = [loaded EXCEPT ![t] = 0]
    /\ Goto(t, AfterAppend(t))
    /\ UNCHANGED <<sending_packet, sending_packet_tail, sending_cur_packet,
                   is_subscribe, state, in_table, heapVars, num_sending,
                   after, histVars>>

(* A thread that handles a PUBLISH found this client on a matching topic   *)
(* node, and its flag set: it will append a PUBLISH whatever happens to    *)
(* the client meanwhile.  The owner does so for each matching node when    *)
(* the PUBLISH it handles comes from one of its own clients.               *)
Publish(t) ==
    /\ pc[t] = IF t = Owner THEN "publish" ELSE "idle"
    /\ is_subscribe
    /\ Build(t)
    /\ after' = IF t = Owner THEN "publish" ELSE after
    /\ UNCHANGED <<ctxVars, loaded, num_sending, put, got, at, sent, short,
                   lossy>>
-----------------------------------------------------------------------------
(* The owner's read phase: accept, and one packet of the client. *)

(* The unlocked store num_sending_pack = 0: packets in the list, if any,   *)
(* are no longer counted.                                                  *)
ResetCount ==
    /\ num_sending_pack' = 0
    /\ lossy' = (lossy \/ Backlog > 0)

(* A new connection gets the slot. *)
Accept ==
    /\ pc[Owner] = "poll"
    /\ ~in_table
    /\ in_table' = TRUE
    /\ UNCHANGED <<sending_packet, sending_packet_tail, sending_cur_packet,
                   num_sending_pack, sending_lock, is_subscribe, state,
                   heapVars, thrVars, histVars>>

(* An event of the client whose handling appends a reply to its own queue. *)
Reply(to) ==
    /\ pc[Owner] = "poll"
    /\ in_table
    /\ Build(Owner)
    /\ after' = to
    /\ UNCHANGED <<sending_packet, sending_packet_tail, sending_cur_packet,
                   sending_lock, in_table, loaded, num_sending,
                   put, got, at, sent, short>>

(* CONNECT with an identifier of 1..23 bytes: add_client, then CONNACK 0.  *)
HandleConnect ==
    /\ Reply("look")
    /\ ResetCount
    /\ state' = "cs_connected"
    /\ UNCHANGED is_subscribe

(* CONNECT with a longer identifier: CONNACK 2, then the client goes.      *)
HandleConnectRefused ==
    /\ Reply("remove")
    /\ UNCHANGED <<num_sending_pack, lossy, state, is_subscribe>>

(* SUBSCRIBE: SUBACK 0 if the client is connected and mqtt3_sub_add found  *)
(* the memory it needs, else an error code and the client goes.            *)
HandleSubscribe ==
    /\ \E added \in BOOLEAN :
          LET ok == state = "cs_connected" /\ added IN
          /\ Reply(IF ok THEN "look" ELSE "remove")
          /\ is_subscribe' = (is_subscribe \/ ok)
    /\ UNCHANGED <<num_sending_pack, lossy, state>>

(* PINGREQ, CONNECT with an empty identifier, SUBSCRIBE without a topic:   *)
(* one packet appended, nothing else.                                      *)
HandleOther ==
    /\ Reply("look")
    /\ UNCHANGED <<num_sending_pack, lossy, state, is_subscribe>>

(* The owner starts and ends the walk through the topic tree for a PUBLISH *)
(* that one of its clients sent.                                           *)
HandlePublish ==
    /\ pc[Owner] = "poll"
    /\ in_table
    /\ Goto(Owner, "publish")
    /\ UNCHANGED <<ctxVars, heapVars, new_packet, loaded, num_sending, after,
                   histVars>>

PublishDone ==
    /\ pc[Owner] = "publish"
    /\ Goto(Owner, "look")
    /\ UNCHANGED <<ctxVars, heapVars, new_packet, loaded, num_sending, after,
                   histVars>>

(* End of file, socket or protocol error, DISCONNECT. *)
HandleClose ==
    /\ pc[Owner] = "poll"
    /\ in_table
    /\ Goto(Owner, "remove")
    /\ UNCHANGED <<ctxVars, heapVars, new_packet, loaded, num_sending, after,
                   histVars>>

(* No event for this client in this round. *)
NoEvent ==
    /\ pc[Owner] = "poll"
    /\ in_table
    /\ Goto(Owner, "look")
    /\ UNCHANGED <<ctxVars, heapVars, new_packet, loaded, num_sending, after,
                   histVars>>

(* A packet that is freed is no longer the current one; mutant: the        *)
(* pointer is left behind.                                                 *)
DanglingCurrent == UNCHANGED sending_cur_packet
ClearCurrent    == sending_cur_packet' = NULL

(* remove_client: out of the table, clean_context, close.  The packet      *)
(* being written is freed; the list behind it stays.                       *)
Remove ==
    /\ pc[Owner] = "remove"
    /\ in_table' = FALSE
    /\ is_subscribe' = FALSE
    /\ state' = "cs_new"
    /\ ResetCount
    /\ live' = live \ {sending_cur_packet}
    /\ ClearCurrent
    /\ after' = "look"
    /\ sent' = 0
    /\ Goto(Owner, "poll")
    /\ UNCHANGED <<sending_packet, sending_packet_tail, sending_lock, next,
                   msg, wcur, wlen, new_packet, loaded, num_sending, made,
                   put, got, at, short>>
-----------------------------------------------------------------------------
(* The owner's write phase. *)

(* Read the counter under the lock: that many attempts will be made;       *)
(* mutant: one at least.                                                   *)
LookAnyway ==
    /\ pc[Owner] = "look"
    /\ Unlocked
    /\ num_sending' = num_sending_pack
    /\ Goto(Owner, "take")
    /\ UNCHANGED <<ctxVars, heapVars, new_packet, loaded, after, histVars>>
Look ==
    /\ pc[Owner] = "look"
    /\ Unlocked
    /\ num_sending' = num_sending_pack
    /\ Goto(Owner, IF num_sending_pack < 1 THEN "poll" ELSE "take")
    /\ UNCHANGED <<ctxVars, heapVars, new_packet, loaded, after, histVars>>

(* The tail once the first packet is taken; mutant: always as it was. *)
TailKept      == sending_packet_tail
TailAfterTake == IF next[sending_packet] = NULL
                 THEN NULL ELSE sending_packet_tail

(* One attempt: take the first packet unless an earlier one is unfinished. *)
(* The counter goes down either way.                                       *)
Take ==
    /\ pc[Owner] = "take"
    /\ Unlocked
    /\ IF sending_packet # NULL /\ sending_cur_packet = NULL
       THEN /\ sending_cur_packet' = sending_packet
            /\ sending_packet' = next[sending_packet]
            /\ sending_packet_tail' = TailAfterTake
            /\ got' = Append(got, msg[sending_packet])
       ELSE UNCHANGED <<sending_packet, sending_packet_tail,
                        sending_cur_packet, got>>
    /\ lossy' = (lossy \/ sending_cur_packet # NULL)
    /\ num_sending_pack' = num_sending_pack - 1
    /\ num_sending' = num_sending - 1
    /\ Goto(Owner, "send")
    /\ UNCHANGED <<sending_lock, is_subscribe, state, in_table, heapVars,
                   new_packet, loaded, after, made, put, at, sent, short>>

cur == sending_cur_packet

(* The loop condition of the write: bytes of the current packet are left.  *)
MoreToSend ==
    /\ pc[Owner] = "send"
    /\ wcur[cur] < wlen[cur]

(* The assignments of one turn of the loop when send returned r, which is  *)
(* stored in a uint32_t: -1 becomes UINT - 1, which is not <= 0.  Mutant:  *)
(* a failed send counts as one byte.                                       *)
AdvanceAnyway(r) ==
    /\ wcur' = [wcur EXCEPT ![cur] = (@ + IF r < 0 THEN 1 ELSE r) % UINT]
    /\ UNCHANGED <<ctxVars, live, next, msg, wlen, thrVars, made, put, got,
                   at, short, lossy>>
Advance(r) ==
    /\ wcur' = [wcur EXCEPT ![cur] = (@ + (r % UINT)) % UINT]
    /\ UNCHANGED <<ctxVars, live, next, msg, wlen, thrVars, made, put, got,
                   at, short, lossy>>

(* The socket takes n bytes, from offset wcur on. *)
SendSome ==
    /\ MoreToSend
    /\ \E n \in 1..(wlen[cur] - wcur[cur]) :
          /\ Advance(n)
          /\ sent' = IF wcur[cur] <= sent /\ sent < wcur[cur] + n
                     THEN wcur[cur] + n ELSE sent

(* The socket takes all that is left. *)
SendRest == SendSome /\ wcur'[cur] = wlen[cur]

(* send fails (-1): the socket would block, or the connection is broken.   *)
SendFails ==
    /\ MoreToSend
    /\ Advance(-1)
    /\ UNCHANGED sent

(* send returns 0, the one result the code's test <= 0 lets through: by    *)
(* errno the write is skipped until a later round or the client removed.   *)
SendNothing ==
    /\ MoreToSend
    /\ \E to \in {"poll", "remove"} : Goto(Owner, to)
    /\ UNCHANGED <<ctxVars, heapVars, new_packet, loaded, num_sending, after,
                   histVars>>

(* wcur >= wlen: the packet counts as sent and is freed. *)
Retire ==
    /\ pc[Owner] = "send"
    /\ wcur[cur] >= wlen[cur]
    /\ live' = live \ {cur}
    /\ ClearCurrent
    /\ short' = (short \/ sent < wlen[cur])
    /\ sent' = 0
    /\ Goto(Owner, IF num_sending > 0 THEN "take" ELSE "poll")
    /\ UNCHANGED <<sending_packet, sending_packet_tail, num_sending_pack,
                   sending_lock, is_subscribe, state, in_table, next, msg,
                   wcur, wlen, new_packet, loaded, num_sending, after, made,
                   put, got, at, lossy>>
-----------------------------------------------------------------------------
Init ==
    /\ sending_packet = NULL
    /\ sending_packet_tail = NULL
    /\ sending_cur_packet = NULL
    /\ num_sending_pack = 0
    /\ sending_lock = NULL
    /\ is_subscribe = FALSE
    /\ state = "cs_new"
    /\ in_table = FALSE
    /\ live = {}
    /\ next = [c \in Cells |-> NULL]
    /\ msg  = [c \in Cells |-> 0]
    /\ wcur = [c \in Cells |-> 0]
    /\ wlen = [c \in Cells |-> 0]
    /\ pc = [t \in Threads |-> IF t = Owner THEN "poll" ELSE "idle"]
    /\ new_packet = [t \in Threads |-> NULL]
    /\ loaded = [t \in Threads |-> 0]
    /\ num_sending = 0
    /\ after = "look"
    /\ made = 0
    /\ put = <<>>
    /\ got = <<>>
    /\ at = <<>>
    /\ sent = 0
    /\ short = FALSE
    /\ lossy = FALSE

ReadPhase ==
    \/ HandleConnect
    \/ HandleConnectRefused
    \/ HandleSubscribe
    \/ HandleOther
    \/ HandlePublish
    \/ PublishDone
    \/ HandleClose
    \/ NoEvent
    \/ Remove

WritePhase ==
    \/ Look
    \/ Take
    \/ SendSome
    \/ SendFails
    \/ SendNothing
    \/ Retire

Next ==
    \/ \E t \in Threads : Link(t) \/ Count(t)
    \/ \E t \in Threads : Publish(t)
    \/ Accept
    \/ ReadPhase
    \/ WritePhase

Spec == Init /\ [][Next]_vars

(* Every thread keeps running: an appending thread finishes its append,    *)
(* the owner goes round loop_run (epoll_wait returns after 1 ms).  Nothing *)
(* is assumed of the client: no packet of it need ever arrive.  The last   *)
(* conjunct is about TCP: a socket that keeps accepting bytes and blocking *)
(* in turn does not do so for ever.                                        *)
OwnerStep == ReadPhase \/ WritePhase \/ Link(Owner) \/ Count(Owner)

Fairness ==
    /\ \A t \in Publishers : WF_vars(Link(t)) /\ WF_vars(Count(t))
    /\ WF_vars(OwnerStep)
    /\ SF_vars(SendRest)

FairSpec == Spec /\ Fairness
-----------------------------------------------------------------------------
(* Properties. *)

Nullable(S) == S \cup {NULL}

OwnerPcs     == {"poll", "publish", "built", "count", "remove", "look",
                 "take", "send"}
PublisherPcs == {"idle", "built", "count"}

FlagsOK ==
    /\ is_subscribe \in BOOLEAN
    /\ in_table \in BOOLEAN
    /\ short \in BOOLEAN
    /\ lossy \in BOOLEAN

(* Every variable has the type its declaration in client.h, broker.h or    *)
(* loop_run gives it; the counter is never negative and the linked list    *)
(* only holds numbers of packets that were built.                          *)
TypeOK ==
    /\ FlagsOK
    /\ sending_packet \in Nullable(Cells)
    /\ sending_packet_tail \in Nullable(Cells)
    /\ sending_cur_packet \in Nullable(Cells)
    /\ num_sending_pack \in Nat
    /\ sending_lock \in Nullable(Threads)
    /\ state \in {"cs_new", "cs_connected"}
    /\ live \subseteq Cells
    /\ next \in [Cells -> Nullable(Cells)]
    /\ msg \in [Cells -> 0..MaxMsgs]
    /\ wcur \in [Cells -> 0..(UINT - 1)]
    /\ wlen \in [Cells -> Lens \cup {0}]
    /\ pc \in [Threads -> OwnerPcs \cup PublisherPcs]
    /\ new_packet \in [Threads -> Nullable(Cells)]
    /\ loaded \in [Threads -> Nat]
    /\ num_sending \in Nat
    /\ after \in {"look", "remove", "publish"}
    /\ made \in 0..MaxMsgs
    /\ put \in Seq(Msgs)
    /\ got \in Seq(Msgs)
    /\ at \in Seq(Cells)
    /\ sent \in Nat

(* The writer dereferences sending_cur_packet without a test: when it does *)
(* (the send loop of loop_run), the pointer is a live packet, although     *)
(* what it relies on is the counter, which other threads increment and     *)
(* add_client and clean_context overwrite without the lock.                *)
CurrentAllocated == pc[Owner] = "send" => sending_cur_packet \in live

(* The list the pointers make is exactly the packets appended and not yet  *)
(* taken, oldest first, all of them live and distinct: head, tail and next *)
(* agree even when the list runs empty between two appends, and no freed   *)
(* packet can be reached from them.                                        *)
ListIntact ==
    /\ Len(at) = Len(put)
    /\ Len(got) <= Len(put)
    /\ Backlog = 0 => /\ sending_packet = NULL
                      /\ sending_packet_tail = NULL
    /\ Backlog > 0 => /\ sending_packet = at[Len(got) + 1]
                      /\ sending_packet_tail = at[Len(put)]
                      /\ next[at[Len(put)]] = NULL
    /\ \A i \in Pending : /\ at[i] \in live
                          /\ at[i] # sending_cur_packet
                          /\ msg[at[i]] = put[i]
    /\ \A i, j \in Pending : j = i + 1 => next[at[i]] = at[j]
    /\ \A i, j \in Pending : at[i] = at[j] => i = j

(* The counter never promises the writer a packet that is not there, and   *)
(* as long as it was not overwritten or decremented for a retry it counts  *)
(* the list exactly (one less while an append holds the lock).             *)
CountBounded ==
    LET counted == IF sending_lock = NULL THEN Backlog ELSE Backlog - 1 IN
    /\ num_sending_pack <= counted
    /\ ~lossy => num_sending_pack = counted

(* Bytes of a packet leave without gaps: the offset the writer sends from  *)
(* never passes the bytes already sent, even after failed sends moved it.  *)
NoGap ==
    (pc[Owner] = "send" /\ wcur[cur] < wlen[cur]) => wcur[cur] <= sent

(* A packet is freed as sent only when all of it was sent: this is what    *)
(* the error branch of the send loop ("write error (block)") is there for. *)
WholePackets == ~short

(* The queue is the FIFO that its users expect. *)
Box == INSTANCE Outbox
ImplementsOutbox == Box!Spec

(* A packet in the queue of a connected client is eventually handed to the *)
(* socket, unless the counter has lost track of the list or the connection *)
(* is closed first.                                                        *)
EventuallyTaken ==
    \A m \in Msgs :
        (in_table /\ Len(put) >= m) ~> (Len(got) >= m \/ lossy \/ ~in_table)
=============================================================================
