----------------------------- MODULE TopicTree -----------------------------
(***************************************************************************)
(* The subscription tree (substree.c), shared by all event-loop threads:   *)
(* SUBSCRIBE handlers add nodes and leaves to it under root_lock, while    *)
(* PUBLISH handlers walk through it without that lock.  Each load or store *)
(* that another thread can observe is a step of its own.                   *)
(*                                                                         *)
(* A node is named by its path from the root: the topics on the way down.  *)
(* Below the root the first token occurs twice, as the root list is keyed  *)
(* by it and _sub_add then starts with the same token again.  The children *)
(* of a node are the sequence of their topics in list order; its leaves    *)
(* are the sequence of the client slots subscribed there.  Nothing is ever *)
(* removed from the tree.                                                  *)
(***************************************************************************)
EXTENDS SequencesExt

CONSTANTS
    Threads,   \* event-loop threads
    Clients,   \* client slots
    NULL,
    Loop,      \* the thread that serves each slot
    IdsOf,     \* the identifiers that may connect in each slot
    FiltersOf, \* the topic filters that each slot's clients subscribe to, as
               \* sequences of levels
    Topics,    \* topic names of PUBLISH packets, as sequences of levels
    Dollar,    \* the levels that begin with '$'
    OOM        \* whether malloc may fail

Empty   == ""      \* the level that topics begin with in the tree
Filters == UNION Range(FiltersOf)
Levels  == UNION {Range(l) : l \in Filters \cup Topics}

ASSUME TreeAssumption ==
    /\ Loop \in [Clients -> Threads]
    /\ NULL \notin Threads \cup Clients \cup Levels \cup {Empty} \cup UNION Range(IdsOf)
    /\ DOMAIN IdsOf = Clients
    /\ DOMAIN FiltersOf = Clients
    /\ OOM \in BOOLEAN
    /\ Dollar \cap {Empty, "+", "#"} = {}
    /\ \A l \in Filters \cup Topics : l \in Seq(Levels) /\ Len(l) > 0

(* _sub_topic_tokenise: the levels, behind an empty one unless the first   *)
(* begins with '$'; mutant: behind an empty one always.                    *)
PlainTokens(levels) == <<Empty>> \o levels
Tokenise(levels) == IF Head(levels) \in Dollar THEN levels
                    ELSE <<Empty>> \o levels

(* The path of the node a filter's leaves hang on; mutant: the child of    *)
(* the root is the node for the first token.                               *)
SinglePath(f) == Tokenise(f)
PathOf(f) == <<Head(Tokenise(f))>> \o Tokenise(f)

Root  == <<>>
Nodes == {Root, <<Empty>>} \cup
         UNION {{SubSeq(PathOf(f), 1, n) : n \in 1..Len(PathOf(f))} : f \in Filters}

VARIABLES
    (* the tree *)
    children,      \* topics of a node's children, in list order
    subs,          \* slots of a node's leaves, in list order
    root_lock,     \* thread that holds it, or NULL
    (* struct client *)
    id,            \* NULL unless the slot is cs_connected
    is_subscribe,
    (* the threads *)
    pc,
    context,       \* the subscribing slot, or NULL
    arg,           \* the filter or topic being handled, <<>> for none
    subhier,       \* node at which _sub_add or _sub_search is
    branch,        \* search: the child looked at, or NULL
    leaf,          \* position in the list of leaves
    (* history *)
    asked,         \* filters each slot ever sent in a SUBSCRIBE
    acked,         \* filters whose SUBACK 0 this connection was sent
    due,           \* the leaves a search has to deliver to
    got            \* the leaves a search has delivered to, in order

treeVars   == <<children, subs, root_lock>>
clientVars == <<id, is_subscribe>>
thrVars    == <<pc, context, arg, subhier, branch, leaf>>
histVars   == <<asked, acked, due, got>>
vars       == <<treeVars, clientVars, thrVars, histVars>>

Goto(t, to) == pc' = [pc EXCEPT ![t] = to]

(* The list walk: the first topic of a list, and the one behind b. *)
First(list)   == IF list = <<>> THEN NULL ELSE Head(list)
Behind(list, b) ==
    LET i == CHOOSE i \in DOMAIN list : list[i] = b
    IN  IF i = Len(list) THEN NULL ELSE list[i + 1]
-----------------------------------------------------------------------------
(* CONNECT, and the end of a connection. *)

(* add_client: the slot gets the identifier, here in one step (it is       *)
(* zeroed first, then copied); mutant: and is as new.                      *)
ConnectAnew(c, i) ==
    /\ pc[Loop[c]] = "idle"
    /\ id' = [id EXCEPT ![c] = i]
    /\ is_subscribe' = [is_subscribe EXCEPT ![c] = FALSE]
    /\ UNCHANGED <<treeVars, thrVars, histVars>>
Connect(c, i) ==
    /\ pc[Loop[c]] = "idle"
    /\ id' = [id EXCEPT ![c] = i]
    /\ UNCHANGED <<treeVars, is_subscribe, thrVars, histVars>>

(* clean_context: the leaves of the slot stay in the tree. *)
Clean(c) ==
    /\ id' = [id EXCEPT ![c] = NULL]
    /\ is_subscribe' = [is_subscribe EXCEPT ![c] = FALSE]
    /\ acked' = [acked EXCEPT ![c] = {}]
    /\ due' = [t \in Threads |-> {l \in due[t] : l.context # c}]

Disconnect(c) ==
    /\ pc[Loop[c]] = "idle"
    /\ Clean(c)
    /\ UNCHANGED <<treeVars, thrVars, asked, got>>
-----------------------------------------------------------------------------
(* SUBSCRIBE: mqtt3_sub_add and _sub_add. *)

(* The handler takes a SUBSCRIBE of a connected client; mqtt3_sub_add      *)
(* returns an error at once if there is no memory for the tokens.          *)
Subscribe(c, f) ==
    LET t == Loop[c] IN
    /\ pc[t] = "idle"
    /\ id[c] # NULL
    /\ context' = [context EXCEPT ![t] = c]
    /\ arg' = [arg EXCEPT ![t] = f]
    /\ asked' = [asked EXCEPT ![c] = @ \cup {f}]
    /\ \/ Goto(t, "lock")
       \/ OOM /\ Goto(t, "failed")
    /\ UNCHANGED <<treeVars, clientVars, subhier, branch, leaf, acked, due, got>>

(* A thread that already holds root_lock gets EDEADLK, which is ignored.   *)
(* Mutant: no waiting, as with rdlock.                                     *)
ReadLock(t) ==
    /\ pc[t] = "lock"
    /\ root_lock' = t
    /\ Goto(t, "root")
    /\ UNCHANGED <<children, subs, clientVars, context, arg, subhier, branch,
                   leaf, histVars>>
Lock(t) ==
    /\ pc[t] = "lock"
    /\ root_lock \in {NULL, t}
    /\ root_lock' = t
    /\ Goto(t, "root")
    /\ UNCHANGED <<children, subs, clientVars, context, arg, subhier, branch,
                   leaf, histVars>>

(* Look for the child of the root that has the first token. *)
FindRoot(t) ==
    LET tok == Head(Tokenise(arg[t])) IN
    /\ pc[t] = "root"
    /\ IF tok \in Range(children[Root])
       THEN Goto(t, "find") /\ subhier' = [subhier EXCEPT ![t] = <<tok>>]
       ELSE Goto(t, "new_root") /\ UNCHANGED subhier
    /\ UNCHANGED <<treeVars, clientVars, context, arg, branch, leaf, histVars>>

(* There is none: put one in front of the others. *)
AddRoot(t) ==
    LET tok == Head(Tokenise(arg[t])) IN
    /\ pc[t] = "new_root"
    /\ children' = [children EXCEPT ![Root] = <<tok>> \o @]
    /\ subhier' = [subhier EXCEPT ![t] = <<tok>>]
    /\ Goto(t, "find")
    /\ UNCHANGED <<subs, root_lock, clientVars, context, arg, branch, leaf,
                   histVars>>

(* No memory for it: mqtt3_sub_add returns, and root_lock stays locked.    *)
AddRootFails(t) ==
    /\ OOM
    /\ pc[t] = "new_root"
    /\ Goto(t, "failed")
    /\ UNCHANGED <<treeVars, clientVars, context, arg, subhier, branch, leaf,
                   histVars>>

(* The token that _sub_add or _sub_search looks for at a node other than   *)
(* the root, unless all have been used up.                                 *)
Token(t)    == Tokenise(arg[t])[Len(subhier[t])]
HasToken(t) == Len(subhier[t]) <= Len(Tokenise(arg[t]))

(* _sub_add goes on at the child for the token. *)
Child(t) == subhier' = [subhier EXCEPT ![t] = Append(@, Token(t))]

(* Look for the child that has the next token. *)
FindBranch(t) ==
    /\ pc[t] = "find"
    /\ HasToken(t)
    /\ IF Token(t) \in Range(children[subhier[t]])
       THEN Child(t) /\ UNCHANGED pc
       ELSE Goto(t, "new_branch") /\ UNCHANGED subhier
    /\ UNCHANGED <<treeVars, clientVars, context, arg, branch, leaf, histVars>>

(* There is none: link one behind the last child. *)
AddBranch(t) ==
    /\ pc[t] = "new_branch"
    /\ children' = [children EXCEPT ![subhier[t]] = Append(@, Token(t))]
    /\ Child(t)
    /\ Goto(t, "find")
    /\ UNCHANGED <<subs, root_lock, clientVars, context, arg, branch, leaf,
                   histVars>>

(* strcmp of two slots' identifiers is 0. *)
SameId(c, d) == id[c] = id[d]

(* Look through the leaves for one whose client has the same identifier.   *)
FindLeaf(t) ==
    /\ pc[t] = "find"
    /\ ~HasToken(t)
    /\ IF leaf[t] > Len(subs[subhier[t]])
       THEN Goto(t, "new_leaf") /\ leaf' = [leaf EXCEPT ![t] = 1]
       ELSE IF SameId(subs[subhier[t]][leaf[t]], context[t])
       THEN Goto(t, "unlock") /\ leaf' = [leaf EXCEPT ![t] = 1]
       ELSE UNCHANGED pc /\ leaf' = [leaf EXCEPT ![t] = @ + 1]
    /\ UNCHANGED <<treeVars, clientVars, context, arg, subhier, branch,
                   histVars>>

(* There is none: append a leaf. *)
AddLeaf(t) ==
    /\ pc[t] = "new_leaf"
    /\ subs' = [subs EXCEPT ![subhier[t]] = Append(@, context[t])]
    /\ Goto(t, "unlock")
    /\ UNCHANGED <<children, root_lock, clientVars, context, arg, subhier,
                   branch, leaf, histVars>>

(* No memory for a node or a leaf: unlock, and return the error. *)
AddFails(t) ==
    /\ OOM
    /\ pc[t] \in {"new_branch", "new_leaf"}
    /\ root_lock' = NULL
    /\ Goto(t, "failed")
    /\ UNCHANGED <<children, subs, clientVars, context, arg, subhier, branch,
                   leaf, histVars>>

(* Release root_lock; mutant: return without doing so. *)
StayLocked(t) ==
    /\ pc[t] = "unlock"
    /\ Goto(t, "added")
    /\ UNCHANGED <<treeVars, clientVars, context, arg, subhier, branch, leaf,
                   histVars>>
Unlock(t) ==
    /\ pc[t] = "unlock"
    /\ root_lock' = NULL
    /\ Goto(t, "added")
    /\ UNCHANGED <<children, subs, clientVars, context, arg, subhier, branch,
                   leaf, histVars>>

(* The thread's handler returns; nothing of its locals is left. *)
Return(t) ==
    /\ Goto(t, "idle")
    /\ context' = [context EXCEPT ![t] = NULL]
    /\ arg' = [arg EXCEPT ![t] = <<>>]
    /\ subhier' = [subhier EXCEPT ![t] = Root]
    /\ UNCHANGED <<branch, leaf>>

(* mqtt3_sub_add returned 0: set is_subscribe, queue SUBACK 0. *)
Acknowledge(t) ==
    LET c == context[t] IN
    /\ pc[t] = "added"
    /\ is_subscribe' = [is_subscribe EXCEPT ![c] = TRUE]
    /\ acked' = [acked EXCEPT ![c] = @ \cup {arg[t]}]
    /\ Return(t)
    /\ UNCHANGED <<treeVars, id, asked, due, got>>

(* It returned an error: SUBACK with it, and the client is removed. *)
Reject(t) ==
    /\ pc[t] = "failed"
    /\ Clean(context[t])
    /\ Return(t)
    /\ UNCHANGED <<treeVars, asked, got>>
-----------------------------------------------------------------------------
(* What a filter means: '+' stands for any one level, a last '#' for any   *)
(* number of levels (the reference that the walk is compared with; MQTT    *)
(* 3.1.1 section 4.7).  A leading wildcard does not stand for a '$' level. *)
Match(f, topic) ==
    LET hash   == Last(f) = "#"
        prefix == IF hash THEN Len(f) - 1 ELSE Len(f)
    IN  /\ IF hash THEN Len(topic) >= prefix ELSE Len(topic) = prefix
        /\ \A i \in 1..prefix : f[i] \in {topic[i], "+"}
        /\ Head(topic) \in Dollar => Head(f) = Head(topic)

(* The leaves of acknowledged subscriptions that match. *)
Leaves == [node : Nodes, context : Clients]
Matching(topic) ==
    {l \in Leaves :
        \E f \in acked[l.context] : PathOf(f) = l.node /\ Match(f, topic)}
-----------------------------------------------------------------------------
(* PUBLISH: mqtt3_sub_tree_process, _sub_search and _subs_process.  The    *)
(* stack of _sub_search is the path subhier: returning from a call goes    *)
(* back to the loop over the children of subhier's parent.                 *)

Search(t, topic) ==
    /\ pc[t] = "idle"
    /\ arg' = [arg EXCEPT ![t] = topic]
    /\ branch' = [branch EXCEPT ![t] = First(children[Root])]
    /\ due' = [due EXCEPT ![t] = Matching(topic)]
    /\ Goto(t, "search")
    /\ UNCHANGED <<treeVars, clientVars, context, subhier, leaf, asked, acked,
                   got>>

(* No memory for the tokens: the handler ignores the error, and the        *)
(* message goes to nobody.                                                 *)
SearchFails(t, topic) ==
    /\ OOM
    /\ pc[t] = "idle"
    /\ UNCHANGED vars

Here(t) == Append(subhier[t], branch[t])

(* The child looked at is the one for the token: for the children of the   *)
(* root the first token, with no wildcard.                                 *)
TokenMatches(t) ==
    IF subhier[t] = Root THEN branch[t] = Head(Tokenise(arg[t]))
    ELSE HasToken(t) /\ branch[t] \in {Token(t), "+"}

(* The child looked at is a '#' with nothing below it; mutant: and tokens  *)
(* are left for it.                                                        *)
HashNeedsToken(t) ==
    /\ subhier[t] # Root
    /\ branch[t] = "#"
    /\ children[Here(t)] = <<>>
    /\ HasToken(t)
HashMatches(t) ==
    /\ subhier[t] # Root
    /\ branch[t] = "#"
    /\ children[Here(t)] = <<>>

(* branch = branch->next in the loop over the children of p *)
NextBranch(t, p, b) == branch' = [branch EXCEPT ![t] = Behind(children[p], b)]

InLoop(t) == pc[t] = "search" /\ branch[t] # NULL

Descend(t) ==
    /\ InLoop(t)
    /\ TokenMatches(t)
    /\ subhier' = [subhier EXCEPT ![t] = Here(t)]
    /\ branch' = [branch EXCEPT ![t] = First(children[Here(t)])]
    /\ UNCHANGED <<treeVars, clientVars, pc, context, arg, leaf, histVars>>

ProcessHash(t) ==
    /\ InLoop(t)
    /\ ~TokenMatches(t)
    /\ HashMatches(t)
    /\ Goto(t, "leaves")
    /\ UNCHANGED <<treeVars, clientVars, context, arg, subhier, branch, leaf,
                   histVars>>

(* branch = branch->next; mutant: the loop goes on without it. *)
Linger(t) ==
    /\ InLoop(t)
    /\ ~TokenMatches(t)
    /\ ~HashMatches(t)
    /\ UNCHANGED vars
Skip(t) ==
    /\ InLoop(t)
    /\ ~TokenMatches(t)
    /\ ~HashMatches(t)
    /\ NextBranch(t, subhier[t], branch[t])
    /\ UNCHANGED <<treeVars, clientVars, pc, context, arg, subhier, leaf,
                   histVars>>

(* The token looked for among the children of p was the last one; mutant:  *)
(* any one.                                                                *)
AnyToken(t, p)  == p # Root
LastToken(t, p) == p # Root /\ Len(p) = Len(Tokenise(arg[t]))

(* The loop is over, and so is this call of _sub_search: back in the       *)
(* calling loop the leaves of the child are next if the token was the      *)
(* last one.                                                               *)
Ascend(t) ==
    LET p == Front(subhier[t])
        b == Last(subhier[t])
    IN  /\ pc[t] = "search"
        /\ branch[t] = NULL
        /\ subhier[t] # Root
        /\ subhier' = [subhier EXCEPT ![t] = p]
        /\ IF LastToken(t, p)
           THEN Goto(t, "leaves") /\ branch' = [branch EXCEPT ![t] = b]
           ELSE UNCHANGED pc /\ NextBranch(t, p, b)
        /\ UNCHANGED <<treeVars, clientVars, context, arg, leaf, histVars>>

(* One turn of the loop over the leaves: the callback publish_msg is       *)
(* called if the client's flag is set.                                     *)
Deliver(t) ==
    LET c == subs[Here(t)][leaf[t]] IN
    /\ pc[t] = "leaves"
    /\ leaf[t] <= Len(subs[Here(t)])
    /\ got' = IF is_subscribe[c]
              THEN [got EXCEPT ![t] = Append(@, [node |-> Here(t), context |-> c])]
              ELSE got
    /\ leaf' = [leaf EXCEPT ![t] = @ + 1]
    /\ UNCHANGED <<treeVars, clientVars, pc, context, arg, subhier, branch,
                   asked, acked, due>>

LeavesDone(t) ==
    /\ pc[t] = "leaves"
    /\ leaf[t] > Len(subs[Here(t)])
    /\ leaf' = [leaf EXCEPT ![t] = 1]
    /\ NextBranch(t, subhier[t], branch[t])
    /\ Goto(t, "search")
    /\ UNCHANGED <<treeVars, clientVars, context, arg, subhier, histVars>>

SearchDone(t) ==
    /\ pc[t] = "search"
    /\ branch[t] = NULL
    /\ subhier[t] = Root
    /\ Goto(t, "searched")
    /\ UNCHANGED <<treeVars, clientVars, context, arg, subhier, branch, leaf,
                   histVars>>

SearchReturn(t) ==
    /\ pc[t] = "searched"
    /\ Return(t)
    /\ due' = [due EXCEPT ![t] = {}]
    /\ got' = [got EXCEPT ![t] = <<>>]
    /\ UNCHANGED <<treeVars, clientVars, asked, acked>>
-----------------------------------------------------------------------------
Init ==
    /\ children = [p \in Nodes |-> IF p = Root THEN <<Empty>> ELSE <<>>]
    /\ subs = [p \in Nodes |-> <<>>]
    /\ root_lock = NULL
    /\ id = [c \in Clients |-> NULL]
    /\ is_subscribe = [c \in Clients |-> FALSE]
    /\ pc = [t \in Threads |-> "idle"]
    /\ context = [t \in Threads |-> NULL]
    /\ arg = [t \in Threads |-> <<>>]
    /\ subhier = [t \in Threads |-> Root]
    /\ branch = [t \in Threads |-> NULL]
    /\ leaf = [t \in Threads |-> 1]
    /\ asked = [c \in Clients |-> {}]
    /\ acked = [c \in Clients |-> {}]
    /\ due = [t \in Threads |-> {}]
    /\ got = [t \in Threads |-> <<>>]

AddStep(t) ==
    \/ FindRoot(t) \/ AddRoot(t) \/ AddRootFails(t)
    \/ FindBranch(t) \/ AddBranch(t)
    \/ FindLeaf(t) \/ AddLeaf(t)
    \/ AddFails(t)
    \/ Unlock(t)
    \/ Acknowledge(t) \/ Reject(t)

SearchStep(t) ==
    \/ Descend(t) \/ ProcessHash(t) \/ Skip(t) \/ Ascend(t)
    \/ Deliver(t) \/ LeavesDone(t)
    \/ SearchDone(t) \/ SearchReturn(t)

Next ==
    \/ \E c \in Clients : \/ \E i \in IdsOf[c] : Connect(c, i)
                          \/ Disconnect(c)
                          \/ \E f \in FiltersOf[c] : Subscribe(c, f)
    \/ \E t \in Threads : \/ Lock(t)
                          \/ AddStep(t)
                          \/ \E topic \in Topics :
                                Search(t, topic) \/ SearchFails(t, topic)
                          \/ SearchStep(t)

Spec == Init /\ [][Next]_vars

(* Threads keep running.  Nothing is assumed of the order in which waiting *)
(* threads get root_lock, or of the clients.                               *)
FairSpec == Spec /\ \A t \in Threads : WF_vars(AddStep(t)) /\ WF_vars(SearchStep(t))
-----------------------------------------------------------------------------
(* Properties. *)

(* Every variable has the type its declaration gives it; a search that     *)
(* loses its place in the tree would leave the set of nodes.               *)
TypeOK ==
    /\ children \in [Nodes -> Seq(Levels \cup {Empty})]
    /\ subs \in [Nodes -> Seq(Clients)]
    /\ root_lock \in Threads \cup {NULL}
    /\ id \in [Clients -> (UNION Range(IdsOf)) \cup {NULL}]
    /\ is_subscribe \in [Clients -> BOOLEAN]
    /\ pc \in [Threads -> {"idle", "lock", "root", "new_root", "find",
                           "new_branch", "new_leaf", "unlock", "added",
                           "failed", "search", "leaves", "searched"}]
    /\ context \in [Threads -> Clients \cup {NULL}]
    /\ arg \in [Threads -> Filters \cup Topics \cup {<<>>}]
    /\ subhier \in [Threads -> Nodes]
    /\ branch \in [Threads -> Levels \cup {Empty, NULL}]
    /\ leaf \in [Threads -> Nat \ {0}]
    /\ asked \in [Clients -> SUBSET Filters]
    /\ acked \in [Clients -> SUBSET Filters]
    /\ due \in [Threads -> SUBSET Leaves]
    /\ got \in [Threads -> Seq(Leaves)]

(* The tree is a tree of sets although it is made of lists that several    *)
(* threads extend: no two siblings have the same topic, and no slot has    *)
(* two leaves on a node, over reconnections too (_sub_add).                *)
NoDuplicates ==
    \A p \in Nodes : IsInjective(children[p]) /\ IsInjective(subs[p])

(* A message goes only to slots that subscribed with a filter that matches *)
(* its topic, and once for each such filter, whatever is added to the tree *)
(* while _sub_search walks through it.                                     *)
OnlyMatching ==
    \A t \in Threads :
        /\ IsInjective(got[t])
        /\ \A l \in Range(got[t]) :
              \E f \in asked[l.context] : PathOf(f) = l.node /\ Match(f, arg[t])

(* When _sub_search is done it has delivered the message to every client   *)
(* that got SUBACK 0 for a matching filter before the search began and     *)
(* whose connection lasted: nodes and leaves added meanwhile hide none.    *)
NoneMissed ==
    \A t \in Threads : pc[t] = "searched" => due[t] \subseteq Range(got[t])

(* A search ends although others may extend the lists it walks through.    *)
SearchEnds == \A t \in Threads : pc[t] \in {"search", "leaves"} ~> pc[t] = "idle"

(* mqtt3_sub_add has returned for want of memory for a new child of the    *)
(* root.                                                                   *)
RootFailed(t) ==
    /\ pc[t] = "failed"
    /\ Head(Tokenise(arg[t])) \notin Range(children[Root])

(* Where a thread is in the tree with root_lock. *)
Adding == {"root", "new_root", "find", "new_branch", "new_leaf", "unlock"}

(* A thread that is in mqtt3_sub_add with root_lock gives it back, whether *)
(* the subscription is added, is there already or fails for want of        *)
(* memory at a node or a leaf.  One way out keeps it, and no other: the    *)
(* return when a new child of the root cannot be allocated                 *)
(* (substree.c:231-242).                                                   *)
LockReleased ==
    \A t \in Threads :
        root_lock = t /\ pc[t] \in Adding ~> root_lock # t \/ RootFailed(t)
=============================================================================
