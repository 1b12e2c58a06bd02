------------------------------- MODULE Broker -------------------------------
(***************************************************************************)
(* The parts put together: event-loop threads that accept connections,     *)
(* handle CONNECT, SUBSCRIBE and PUBLISH, and write, over shared client    *)
(* slots.  A connection passes through EventLoop, LoopRead, the handlers,  *)
(* the topic tree and the queue of each receiver; here each of those is    *)
(* what its own module shows it to be:                                     *)
(*   - a slot has one server at a time, and any thread may be the next     *)
(*     (EventLoop); a packet is handled whole (LoopRead);                  *)
(*   - a search meets every leaf that was there when it began and matches  *)
(*     the topic, in some order, and perhaps leaves added since; it passes *)
(*     a '#' by as soon as a node is below it (TopicTree);                 *)
(*   - a slot gets no leaf on a node that has one of a slot with the same  *)
(*     identifier (TopicTree);                                             *)
(*   - a queue is a sequence, and num_sending_pack says how many packets   *)
(*     the writer may take from its front (Outbox, ClientQueue); to append *)
(*     and to count is one step here, and so is to take and to send.       *)
(* What is left is what happens between them: the test of is_subscribe and *)
(* the append are two steps, a slot changes hands while packets for it are *)
(* queued or on their way, and its leaves and its queue stay.              *)
(***************************************************************************)
EXTENDS Naturals, SequencesExt

CONSTANTS
    Threads, Slots, NULL,
    Ids,          \* client identifiers
    Filters, Topics,
    Matches,      \* the pairs of a filter and a topic it matches
    Hides,        \* the pairs of a filter and one that ends in '#' and whose
                  \* node is above its own; topics have no '#' level
    MaxConns,     \* bound: connections accepted
    MaxPublished, \* bound: PUBLISH packets handled
    MaxRequests,  \* bound: CONNECT and SUBSCRIBE packets handled
    MaxEvents     \* bound: connections and packets in all

ASSUME BrokerAssumption ==
    /\ Matches \subseteq Filters \X Topics
    /\ Hides \subseteq Filters \X Filters
    /\ NULL \notin Threads \cup Slots \cup Ids
    /\ MaxConns \in Nat /\ MaxPublished \in Nat /\ MaxRequests \in Nat
    /\ MaxEvents \in Nat

VARIABLES
    (* struct client *)
    owner,            \* thread that serves the slot, NULL when it is free
    state,            \* "new" or "connected"
    id,               \* NULL unless connected
    is_subscribe,
    num_sending_pack,
    put, got,         \* packets appended to its queue, taken by the writer
    (* the tree *)
    leaves,           \* pairs of a filter and a slot
    (* threads *)
    pc,
    context,          \* slot whose packet is handled, or NULL
    arg,              \* topic or filter of that packet
    todo,             \* leaves the search has yet to meet
    leaf,             \* the one publish_msg is called for
    (* history *)
    conns, conn,      \* connections so far; the one in each slot
    taken,            \* packets taken before it was accepted
    requests,         \* CONNECT and SUBSCRIBE packets so far
    published,        \* PUBLISH packets so far
    mid,              \* number of the one a thread handles
    heard,            \* connection whose is_subscribe was tested
    asked,            \* filters the connection in a slot has asked for
    acked,            \* those it got SUBACK 0 for
    shared,           \* filters and slots for which SUBSCRIBE found only a
                      \* leaf of another slot with the same identifier
    due,              \* subscriptions a search must have delivered to at its
                      \* end, by filter and slot
    soiled            \* packets were queued, or about to be, for a slot
                      \* when its connection was accepted

clientVars == <<owner, state, id, is_subscribe, num_sending_pack, put, got>>
thrVars    == <<pc, context, arg, todo, leaf>>
connVars   == <<conns, conn, taken, soiled>>
subVars    == <<asked, acked, shared, due>>
pubVars    == <<published, mid, heard>>
vars == <<clientVars, leaves, thrVars, connVars, subVars, pubVars, requests>>

Goto(t, to) == pc' = [pc EXCEPT ![t] = to]

Room == conns + requests + published < MaxEvents

Backlog(c) == Len(put[c]) - Len(got[c])
Serves(t, c) == owner[c] = t /\ pc[t] = "idle"

Init ==
    /\ owner = [c \in Slots |-> NULL]
    /\ state = [c \in Slots |-> "new"] /\ id = [c \in Slots |-> NULL]
    /\ is_subscribe = [c \in Slots |-> FALSE]
    /\ num_sending_pack = [c \in Slots |-> 0]
    /\ put = [c \in Slots |-> <<>>] /\ got = [c \in Slots |-> <<>>]
    /\ leaves = {}
    /\ pc = [t \in Threads |-> "idle"]
    /\ context = [t \in Threads |-> NULL] /\ arg = [t \in Threads |-> NULL]
    /\ todo = [t \in Threads |-> {}] /\ leaf = [t \in Threads |-> NULL]
    /\ conns = 0 /\ conn = [c \in Slots |-> 0]
    /\ taken = [c \in Slots |-> 0] /\ requests = 0
    /\ published = 0 /\ mid = [t \in Threads |-> 0]
    /\ heard = [t \in Threads |-> 0]
    /\ asked = [c \in Slots |-> {}] /\ acked = [c \in Slots |-> {}]
    /\ shared = {} /\ due = [t \in Threads |-> {}]
    /\ soiled = [c \in Slots |-> FALSE]
-----------------------------------------------------------------------------
(* Appending: publish_msg, and ack_msg for the answer to a request. *)
Send(c, packet) == put' = [put EXCEPT ![c] = Append(@, packet)]

Answer(c, kind) ==
    Send(c, [kind |-> kind, from |-> conn[c], mid |-> requests,
             filter |-> NULL, to |-> conn[c]])

Request ==
    /\ requests < MaxRequests /\ Room
    /\ requests' = requests + 1

(* The writer may take a packet; mutant: it looks at the list instead. *)
NotEmpty(c) == Backlog(c) > 0
MayTake(c) == num_sending_pack[c] > 0

(* The write phase: the writer takes the first packet of a queue. *)
Take(t, c) ==
    /\ Serves(t, c)
    /\ MayTake(c)
    /\ got' = [got EXCEPT ![c] = Append(@, put[c][Len(@) + 1])]
    /\ num_sending_pack' = [num_sending_pack EXCEPT ![c] = @ - 1]
    /\ UNCHANGED <<owner, state, id, is_subscribe, put, leaves, thrVars,
                   connVars, subVars, pubVars, requests>>
-----------------------------------------------------------------------------
(* Connections. *)

(* accept_connection: an idle thread gets a free slot. *)
Accept(t, c) ==
    /\ pc[t] = "idle" /\ owner[c] = NULL
    /\ conns < MaxConns /\ Room
    /\ owner' = [owner EXCEPT ![c] = t]
    /\ conns' = conns + 1
    /\ conn' = [conn EXCEPT ![c] = conns + 1]
    /\ taken' = [taken EXCEPT ![c] = Len(got[c])]
    /\ soiled' = [soiled EXCEPT ![c] =
          \/ Backlog(c) > 0
          \/ \E u \in Threads : pc[u] = "append" /\ leaf[u][2] = c]
    /\ UNCHANGED <<state, id, is_subscribe, num_sending_pack, put, got, leaves,
                   thrVars, subVars, pubVars, requests>>

(* is_subscribe when a connection has ended; mutant: it stays. *)
SubscribedStill(c) == is_subscribe
Unsubscribed(c) == [is_subscribe EXCEPT ![c] = FALSE]

(* remove_client, clean_context.  Leaves and queue stay. *)
Clean(c) ==
    /\ owner' = [owner EXCEPT ![c] = NULL]
    /\ state' = [state EXCEPT ![c] = "new"]
    /\ id' = [id EXCEPT ![c] = NULL]
    /\ is_subscribe' = Unsubscribed(c)
    /\ num_sending_pack' = [num_sending_pack EXCEPT ![c] = 0]
    /\ conn' = [conn EXCEPT ![c] = 0]
    /\ asked' = [asked EXCEPT ![c] = {}]
    /\ acked' = [acked EXCEPT ![c] = {}]
    /\ shared' = {l \in shared : l[2] # c}
    /\ due' = [t \in Threads |-> {l \in due[t] : l[2] # c}]
    /\ soiled' = [soiled EXCEPT ![c] = FALSE]

(* The socket is closed, fails or DISCONNECT arrives. *)
RemoveClient(t, c) ==
    /\ Serves(t, c)
    /\ Clean(c)
    /\ UNCHANGED <<put, got, leaves, thrVars, conns, taken, pubVars, requests>>

(* CONNECT with an identifier: add_client, which sets the counter to 0,    *)
(* then CONNACK; mutant: the other way round.                              *)
AckThenAdd(c) == [num_sending_pack EXCEPT ![c] = 0]
AddThenAck(c) == [num_sending_pack EXCEPT ![c] = 1]

HandleConnect(t, c, i) ==
    /\ Serves(t, c)
    /\ Request
    /\ Answer(c, "connack")
    /\ num_sending_pack' = AddThenAck(c)
    /\ state' = [state EXCEPT ![c] = "connected"]
    /\ id' = [id EXCEPT ![c] = i]
    /\ UNCHANGED <<owner, is_subscribe, got, leaves, thrVars, connVars, subVars,
                   pubVars>>

(* CONNECT without an identifier, or PINGREQ: just an answer. *)
HandleOther(t, c) ==
    /\ Serves(t, c)
    /\ Request
    /\ Answer(c, "other")
    /\ num_sending_pack' = [num_sending_pack EXCEPT ![c] = @ + 1]
    /\ UNCHANGED <<owner, state, id, is_subscribe, got, leaves, thrVars,
                   connVars, subVars, pubVars>>

(* CONNECT with an identifier that is too long, or SUBSCRIBE before        *)
(* CONNECT: an answer is queued and the client removed.                    *)
Refuse(t, c, kind) ==
    /\ Serves(t, c)
    /\ kind = "suback" => state[c] = "new"
    /\ Request
    /\ Answer(c, kind)
    /\ Clean(c)
    /\ UNCHANGED <<got, leaves, thrVars, conns, taken, pubVars>>
-----------------------------------------------------------------------------
(* SUBSCRIBE: the leaf is there, then is_subscribe, then the answer. *)

(* _sub_add finds a leaf of a slot with the same identifier: its own, or   *)
(* another one's.                                                          *)
HasLeaf(c, f) == \E d \in Slots : <<f, d>> \in leaves /\ id[d] = id[c]

(* It finds none and appends one.  Searches that have yet to come to its   *)
(* node meet it, and pass by a '#' that the node is below.                 *)
AddLeaf(c, f) ==
    /\ leaves' = leaves \cup {<<f, c>>}
    /\ \E S \in SUBSET {u \in Threads : pc[u] \in {"search", "append"}} :
          todo' = [u \in Threads |->
                     IF u \in S
                     THEN {l \in todo[u] : <<f, l[1]>> \notin Hides}
                             \cup {l \in {<<f, c>>} : <<f, arg[u]>> \in Matches}
                     ELSE todo[u]]

(* mqtt3_sub_add; the answer is the same with or without a leaf. *)
HandleSubscribe(t, c, f) ==
    /\ Serves(t, c) /\ state[c] = "connected"
    /\ Request
    /\ IF HasLeaf(c, f)
       THEN /\ shared' = shared \cup ({<<f, c>>} \ leaves)
            /\ UNCHANGED <<leaves, todo>>
       ELSE /\ shared' = shared \ {<<f, c>>}
            /\ AddLeaf(c, f)
    /\ asked' = [asked EXCEPT ![c] = @ \cup {f}]
    /\ context' = [context EXCEPT ![t] = c]
    /\ arg' = [arg EXCEPT ![t] = f]
    /\ Goto(t, "added")
    /\ UNCHANGED <<clientVars, leaf, connVars, acked, due, pubVars>>

Subscribed(t) ==
    /\ pc[t] = "added"
    /\ is_subscribe' = [is_subscribe EXCEPT ![context[t]] = TRUE]
    /\ Goto(t, "suback")
    /\ UNCHANGED <<owner, state, id, num_sending_pack, put, got, leaves,
                   context, arg, todo, leaf, connVars, subVars, pubVars, requests>>

Suback(t) ==
    LET c == context[t] IN
    /\ pc[t] = "suback"
    /\ Answer(c, "suback")
    /\ num_sending_pack' = [num_sending_pack EXCEPT ![c] = @ + 1]
    /\ acked' = [acked EXCEPT ![c] = @ \cup {arg[t]}]
    /\ context' = [context EXCEPT ![t] = NULL]
    /\ arg' = [arg EXCEPT ![t] = NULL]
    /\ Goto(t, "idle")
    /\ UNCHANGED <<owner, state, id, is_subscribe, got, leaves, todo, leaf,
                   connVars, asked, shared, due, pubVars, requests>>
-----------------------------------------------------------------------------
(* PUBLISH. *)

(* The node of a filter that ends in '#' has a child. *)
Hidden(f) == \E l \in leaves : <<l[1], f>> \in Hides

(* The leaves that a search for a topic meets; mutant: not those of the    *)
(* publisher itself.                                                       *)
OthersOnly(c, topic) ==
    {l \in leaves : <<l[1], topic>> \in Matches /\ ~Hidden(l[1]) /\ l[2] # c}
Matching(c, topic) ==
    {l \in leaves : <<l[1], topic>> \in Matches /\ ~Hidden(l[1])}

(* The subscriptions that match a topic and were acknowledged, other than  *)
(* with another slot's leaf.                                               *)
Due(topic) ==
    {l \in (Filters \X Slots) \ shared :
        <<l[1], topic>> \in Matches /\ l[1] \in acked[l[2]]}

(* mqtt3_sub_tree_process begins; CONNECT is not asked for. *)
HandlePublish(t, c, topic) ==
    /\ Serves(t, c)
    /\ published < MaxPublished /\ Room
    /\ published' = published + 1
    /\ mid' = [mid EXCEPT ![t] = published + 1]
    /\ context' = [context EXCEPT ![t] = c]
    /\ arg' = [arg EXCEPT ![t] = topic]
    /\ todo' = [todo EXCEPT ![t] = Matching(c, topic)]
    /\ due' = [due EXCEPT ![t] = Due(topic)]
    /\ Goto(t, "search")
    /\ UNCHANGED <<clientVars, leaves, leaf, connVars, asked, acked, shared,
                   heard, requests>>

(* What is left to meet after leaf l; mutant: l once more. *)
StillThere(t, l) == todo
MetLeaf(t, l) == [todo EXCEPT ![t] = @ \ {l}]

(* _subs_process looks at one leaf: is its slot subscribed? *)
Visit(t) ==
    /\ pc[t] = "search"
    /\ \E l \in todo[t] :
          /\ todo' = MetLeaf(t, l)
          /\ IF is_subscribe[l[2]]
             THEN /\ leaf' = [leaf EXCEPT ![t] = l]
                  /\ heard' = [heard EXCEPT ![t] = conn[l[2]]]
                  /\ Goto(t, "append")
             ELSE UNCHANGED <<leaf, heard, pc>>
    /\ UNCHANGED <<clientVars, leaves, context, arg, connVars, subVars,
                   published, mid, requests>>

(* publish_msg: by now the slot may be free or have another connection. *)
PublishMsg(t) ==
    LET c == leaf[t][2] IN
    /\ pc[t] = "append"
    /\ Send(c, [kind |-> "publish", from |-> conn[context[t]], mid |-> mid[t],
                filter |-> leaf[t][1], to |-> heard[t]])
    /\ num_sending_pack' = [num_sending_pack EXCEPT ![c] = @ + 1]
    /\ leaf' = [leaf EXCEPT ![t] = NULL]
    /\ heard' = [heard EXCEPT ![t] = 0]
    /\ Goto(t, "search")
    /\ UNCHANGED <<owner, state, id, is_subscribe, got, leaves, context, arg,
                   todo, connVars, subVars, published, mid, requests>>

(* The search is over. *)
Searched(t) ==
    /\ pc[t] = "search" /\ todo[t] = {}
    /\ context' = [context EXCEPT ![t] = NULL]
    /\ arg' = [arg EXCEPT ![t] = NULL]
    /\ mid' = [mid EXCEPT ![t] = 0]
    /\ due' = [due EXCEPT ![t] = {}]
    /\ Goto(t, "idle")
    /\ UNCHANGED <<clientVars, leaves, todo, leaf, connVars, asked, acked,
                   shared, published, heard, requests>>
-----------------------------------------------------------------------------
(* A round of loop_run without an event. *)
NoEvent(t) == pc[t] = "idle" /\ UNCHANGED vars

Handler(t) ==
    Subscribed(t) \/ Suback(t) \/ Visit(t) \/ PublishMsg(t) \/ Searched(t)

Next ==
    \E t \in Threads :
        \/ Handler(t) \/ NoEvent(t)
        \/ \E c \in Slots :
              \/ Take(t, c) \/ Accept(t, c) \/ RemoveClient(t, c)
              \/ \E i \in Ids : HandleConnect(t, c, i)
              \/ HandleOther(t, c)
              \/ \E k \in {"connack", "suback"} : Refuse(t, c, k)
              \/ \E f \in Filters : HandleSubscribe(t, c, f)
              \/ \E topic \in Topics : HandlePublish(t, c, topic)

Spec == Init /\ [][Next]_vars
-----------------------------------------------------------------------------
(* Properties. *)

(* What the connection in slot c was sent. *)
Inbox(c) == SubSeq(got[c], taken[c] + 1, Len(got[c]))

(* Every variable has its type, and the writer never takes from an empty   *)
(* queue: num_sending_pack is at most what is in it, over connections that *)
(* end with packets queued and CONNECTs that set it to 0.                  *)
TypeOK ==
    /\ owner \in [Slots -> Threads \cup {NULL}]
    /\ state \in [Slots -> {"new", "connected"}]
    /\ id \in [Slots -> Ids \cup {NULL}]
    /\ is_subscribe \in [Slots -> BOOLEAN]
    /\ leaves \subseteq Filters \X Slots
    /\ pc \in [Threads -> {"idle", "added", "suback", "search", "append"}]
    /\ \A c \in Slots : num_sending_pack[c] \in 0..Backlog(c)
    /\ \A t \in Threads : todo[t] \subseteq leaves

(* Between two clients order is kept: messages of one connection are       *)
(* queued for a slot in the order they were published, each once for each  *)
(* filter, even while other threads publish and subscribe.                 *)
InOrder ==
    \A c \in Slots : \A i, j \in DOMAIN put[c] :
        LET x == put[c][i]
            y == put[c][j]
        IN  i < j /\ x.kind = "publish" /\ y.kind = "publish" /\ x.from = y.from
               => x.mid < y.mid \/ (x.mid = y.mid /\ x.filter # y.filter)

(* When a search is over its message is queued for every client that had   *)
(* SUBACK 0 for a matching filter when it began, unless the connection has *)
(* ended meanwhile: no second CONNECT or SUBSCRIBE makes it miss one.      *)
(* There are two exceptions, and no other: SUBACK 0 was sent although the  *)
(* only leaf was another slot's (substree.c:143), and the filter's '#' has *)
(* a node below it (substree.c:296).                                       *)
Reached ==
    \A t \in Threads : pc[t] = "search" /\ todo[t] = {} =>
        \A l \in due[t] : ~Hidden(l[1]) =>
            \E i \in DOMAIN put[l[2]] :
                put[l[2]][i].mid = mid[t] /\ put[l[2]][i].filter = l[1]

(* A client is sent nothing that was meant for an earlier connection in    *)
(* its slot, unless packets were queued for it or about to be when it was  *)
(* accepted; and no message that was looked up for itself before it has    *)
(* subscribed, although the leaves of earlier connections are in the tree. *)
Isolated ==
    \A c \in Slots : owner[c] # NULL =>
        \A x \in Range(Inbox(c)) :
            IF x.to = conn[c] THEN x.kind = "publish" => asked[c] # {}
                              ELSE soiled[c]

(* The writer comes to the first answer to a connection, as long as        *)
(* nothing was left in the queue of its slot: num_sending_pack counts it.  *)
(* Packets that were left are never counted again: they go out first and   *)
(* the queue stays behind by as many, CONNACK included.                    *)
FirstAnswerCounted ==
    \A c \in Slots :
        owner[c] # NULL /\ ~soiled[c] /\ got[c] # put[c] /\ Inbox(c) = <<>>
            => num_sending_pack[c] > 0
=============================================================================
