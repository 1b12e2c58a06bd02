------------------------------ MODULE EventLoop ------------------------------
(***************************************************************************)
(* The event-loop threads of the broker and the slots they share (kernel   *)
(* TCP build: base_sock is 0, so the slot of descriptor fd is clients[fd]  *)
(* whichever thread accepted it).                                          *)
(*                                                                         *)
(* Each thread has a listening socket, an epoll instance and a uthash      *)
(* table contexts_by_ptr of the clients it serves.  What the broker uses   *)
(* of the table is its list in order of insertion, threaded through hh.next*)
(* and hh.prev of the slots themselves: the write phase of every round     *)
(* walks it.  Removal does not reset hh.next and hh.prev of the removed    *)
(* slot, and a slot that was never added looks like the only element of a  *)
(* table (both NULL): HASH_DELETE then frees the table.                    *)
(*                                                                         *)
(* Descriptors are process-wide and the kernel hands out the lowest free   *)
(* one, so a slot changes threads as soon as its descriptor is closed.     *)
(* The descriptors of the epoll instances are not among Fds.               *)
(*                                                                         *)
(* The model ends where the program dereferences NULL (crashed) and where  *)
(* a thread reads or writes the list of another one (astray): what happens *)
(* then is a data race.                                                    *)
(***************************************************************************)
EXTENDS Naturals, FiniteSets, FiniteSetsExt

CONSTANTS
    Threads,          \* event-loop threads
    Fds,              \* descriptors the process may open
    MAX_FD_PER_LOOP,
    MAX_EVENT_PER_LOOP,
    LOOP_COUNT,
    MAX_USER_WATCHES, \* the kernel's limit on registered descriptors
    NULL

ASSUME LoopAssumption ==
    /\ Fds \subseteq Nat \ {0}
    /\ NULL \notin Fds \cup Threads
    /\ MAX_FD_PER_LOOP \in Nat \ {0}
    /\ MAX_EVENT_PER_LOOP \in Nat \ {0}
    /\ LOOP_COUNT \in Nat /\ MAX_USER_WATCHES \in Nat
    /\ IsFiniteSet(Threads) /\ Cardinality(Threads) <= LOOP_COUNT

VARIABLES
    (* kernel *)
    open,             \* open descriptors
    interest,         \* descriptors registered with each thread's epoll
    (* struct epollop *)
    l_sock,
    contexts_by_ptr,  \* head of the thread's table, or NULL
    tail, num_items,  \* fields of the table, meaningful while it has a head
    (* struct client *)
    prev, next,       \* hh.prev and hh.next
    (* the threads *)
    pc,
    events,           \* descriptors epoll_wait returned, not handled yet
    fd,               \* descriptor in hand: accepted, being removed, written
    (* history *)
    crashed,          \* the thread that dereferenced NULL, or NULL
    astray,           \* the thread that follows links of no client in its
                      \* table, or NULL
    overflowed,       \* threads that met a full table
    retaken           \* a slot was added to a table while the thread that
                      \* had just removed it still stood on it

kernelVars == <<open, interest>>
tableVars  == <<contexts_by_ptr, tail, num_items, prev, next>>
loopVars   == <<l_sock, contexts_by_ptr, events>>
vars == <<kernelVars, tableVars, loopVars, pc, fd,
          crashed, astray, overflowed, retaken>>

Running  == crashed = NULL /\ astray = NULL
Goto(t, to) == pc' = [pc EXCEPT ![t] = to]
Free     == Fds \ open
Lowest   == Min(Free)

(***************************************************************************)
(* The table.  Reach(h, nx) is what a walk along the links nx meets from h *)
(* on: the least set that has h and all that its elements are linked to.   *)
(***************************************************************************)
Closed(S, h, nx) ==
    /\ h # NULL => h \in S
    /\ \A c \in S : nx[c] # NULL => nx[c] \in S

Reach(h, nx) == {c \in Fds : \A S \in SUBSET Fds : Closed(S, h, nx) => c \in S}

Linked(t) == Reach(contexts_by_ptr[t], next)

(* HASH_COUNT *)
Count(t) == IF contexts_by_ptr[t] = NULL THEN 0 ELSE num_items[t]

(* HASH_MAKE_TABLE for the first slot. *)
MakeTable(t, c) ==
    /\ contexts_by_ptr' = [contexts_by_ptr EXCEPT ![t] = c]
    /\ next' = [next EXCEPT ![c] = NULL]
    /\ prev' = [prev EXCEPT ![c] = NULL]
    /\ tail' = [tail EXCEPT ![t] = c]
    /\ num_items' = [num_items EXCEPT ![t] = 1]

(* HASH_ADD_PTR(contexts_by_ptr, itself, c): append to the list, or make a *)
(* new table.                                                              *)
HashAdd(t, c) ==
    IF contexts_by_ptr[t] = NULL
    THEN MakeTable(t, c)
    ELSE /\ next' = [next EXCEPT ![c] = NULL, ![tail[t]] = c]
         /\ prev' = [prev EXCEPT ![c] = tail[t]]
         /\ tail' = [tail EXCEPT ![t] = c]
         /\ num_items' = [num_items EXCEPT ![t] = @ + 1]
         /\ UNCHANGED contexts_by_ptr

(* HASH_DELETE takes slot c for the only one of its table. *)
Alone(c) == prev[c] = NULL /\ next[c] = NULL

(* The tail when slot c leaves; mutant: it stays. *)
TailKept(t, c)  == tail
TailAfter(t, c) == [tail EXCEPT ![t] = IF @ = c THEN prev[c] ELSE @]

(* hh.prev when slot c leaves: its successor's leads to its predecessor. *)
PrevAfter(c) == [n \in Fds |-> IF n = next[c] THEN prev[c] ELSE prev[n]]

(* HASH_DEL(contexts_by_ptr, c).  Both branches read the table through its *)
(* head.  A slot without neighbours is taken for the last one, and the     *)
(* whole table is freed.                                                   *)
HashDel(t, c) ==
    \/ /\ contexts_by_ptr[t] = NULL
       /\ crashed' = t
       /\ UNCHANGED <<tableVars, astray>>
    \/ /\ contexts_by_ptr[t] # NULL
       /\ ~Alone(c) /\ c \notin Linked(t)
       /\ astray' = t
       /\ UNCHANGED <<tableVars, crashed>>
    \/ /\ contexts_by_ptr[t] # NULL
       /\ Alone(c)
       /\ contexts_by_ptr' = [contexts_by_ptr EXCEPT ![t] = NULL]
       /\ tail' = [tail EXCEPT ![t] = NULL]
       /\ num_items' = [num_items EXCEPT ![t] = 0]
       /\ UNCHANGED <<prev, next, crashed, astray>>
    \/ /\ contexts_by_ptr[t] # NULL
       /\ ~Alone(c) /\ c \in Linked(t)
       /\ tail' = TailAfter(t, c)
       /\ next' = [n \in Fds |-> IF n = prev[c] THEN next[c] ELSE next[n]]
       /\ contexts_by_ptr' = [contexts_by_ptr EXCEPT
                                ![t] = IF prev[c] = NULL THEN next[c] ELSE @]
       /\ prev' = PrevAfter(c)
       /\ num_items' = [num_items EXCEPT ![t] = @ - 1]
       /\ UNCHANGED <<crashed, astray>>

(***************************************************************************)
(* Start-up of a thread: run.                                              *)
(***************************************************************************)
Init ==
    /\ open = {}
    /\ interest = [t \in Threads |-> {}]
    /\ l_sock = [t \in Threads |-> NULL]
    /\ contexts_by_ptr = [t \in Threads |-> NULL]
    /\ tail = [t \in Threads |-> NULL]
    /\ num_items = [t \in Threads |-> 0]
    /\ prev = [c \in Fds |-> NULL]
    /\ next = [c \in Fds |-> NULL]
    /\ pc = [t \in Threads |-> "start"]
    /\ events = [t \in Threads |-> {}]
    /\ fd = [t \in Threads |-> NULL]
    /\ crashed = NULL /\ astray = NULL
    /\ overflowed = {} /\ retaken = FALSE

(* Descriptors the process has registered. *)
Watches == MapThenSumSet(LAMBDA u : Cardinality(interest[u]), Threads)

(* add_sock: epoll_ctl fails when there are too many registrations, and no *)
(* caller looks at its result.                                             *)
AddSock(t, c) ==
    interest' = [interest EXCEPT
                   ![t] = IF Watches < MAX_USER_WATCHES THEN @ \cup {c} ELSE @]

(* get_listen_sock: socket, bind and listen succeed. *)
Listen(t) ==
    /\ Free # {}
    /\ open' = open \cup {Lowest}
    /\ l_sock' = [l_sock EXCEPT ![t] = Lowest]

(* run: a listening socket in an epoll instance, then loop_run. *)
Start(t) ==
    /\ Running /\ pc[t] = "start"
    /\ Listen(t)
    /\ AddSock(t, Lowest)
    /\ Goto(t, "wait")
    /\ UNCHANGED <<tableVars, events, fd, crashed, astray,
                   overflowed, retaken>>

(* epoll_create1, socket, bind or listen fails: the thread returns. *)
StartFails(t) ==
    /\ Running /\ pc[t] = "start"
    /\ Goto(t, "returned")
    /\ UNCHANGED <<kernelVars, l_sock, tableVars, events, fd,
                   crashed, astray, overflowed, retaken>>

(***************************************************************************)
(* One round of loop_run: the events, then the write phase.                *)
(***************************************************************************)
(* epoll_wait returns some of the registered descriptors, perhaps none. *)
EpollWait(t) ==
    /\ Running /\ pc[t] = "wait"
    /\ \E ready \in SUBSET interest[t] :
          /\ Cardinality(ready) <= MAX_EVENT_PER_LOOP
          /\ events' = [events EXCEPT ![t] = ready]
    /\ Goto(t, "events")
    /\ UNCHANGED <<kernelVars, l_sock, tableVars, fd, crashed,
                   astray, overflowed, retaken>>

(* epoll_wait fails: the loop ends and the thread returns. *)
EpollFails(t) ==
    /\ Running /\ pc[t] = "wait"
    /\ Goto(t, "returned")
    /\ UNCHANGED <<kernelVars, l_sock, tableVars, events, fd,
                   crashed, astray, overflowed, retaken>>

Handled(t, c) == events' = [events EXCEPT ![t] = @ \ {c}]

(* loop_read returns a positive number: the connection stays. *)
ReadOk(t) ==
    /\ Running /\ pc[t] = "events"
    /\ \E c \in events[t] \ {l_sock[t]} : Handled(t, c)
    /\ UNCHANGED <<kernelVars, l_sock, tableVars, pc, fd, crashed,
                   astray, overflowed, retaken>>

(* remove_client(c): HASH_DEL and clean_context now, disconnect_sock as a  *)
(* step of its own, after which another thread may accept the descriptor.  *)
(* In the write phase the thread still stands on the slot then.            *)
(* Mutant: HASH_DEL is forgotten. *)
RemoveUntabled(t, c, to) ==
    /\ fd' = [fd EXCEPT ![t] = c]
    /\ Goto(t, to)
    /\ UNCHANGED <<tableVars, crashed, astray>>
Remove(t, c, to) ==
    /\ HashDel(t, c)
    /\ fd' = [fd EXCEPT ![t] = c]
    /\ Goto(t, to)

(* loop_read returns 0 or -1: the connection is removed. *)
ReadFails(t) ==
    /\ Running /\ pc[t] = "events"
    /\ \E c \in events[t] \ {l_sock[t]} : Handled(t, c) /\ Remove(t, c, "close")
    /\ UNCHANGED <<kernelVars, l_sock, overflowed, retaken>>

(* The descriptors left after a close; mutant: close is forgotten. *)
StillOpen(t) == open
OpenAfter(t) == open \ {fd[t]}

(* The write phase leaves a client it has removed (is_skip and break);     *)
(* mutant: it goes on writing.                                             *)
Keep == "write"
Skip == "behind"

(* disconnect_sock: out of the epoll instance, then close. *)
Close(t) ==
    /\ Running /\ pc[t] \in {"close", "wclose"}
    /\ interest' = [interest EXCEPT ![t] = @ \ {fd[t]}]
    /\ open' = OpenAfter(t)
    /\ IF pc[t] = "close"
       THEN Goto(t, "events") /\ fd' = [fd EXCEPT ![t] = NULL]
       ELSE Goto(t, Skip) /\ UNCHANGED fd
    /\ UNCHANGED <<l_sock, tableVars, events, crashed, astray, overflowed,
                   retaken>>

(* accept_connection returns INVALID_SOCKET: accept failed, or the         *)
(* descriptor has no slot and was closed again.                            *)
AcceptFails(t) ==
    /\ Running /\ pc[t] = "events" /\ l_sock[t] \in events[t]
    /\ Handled(t, l_sock[t])
    /\ UNCHANGED <<kernelVars, l_sock, tableVars, pc, fd, crashed, astray,
                   overflowed, retaken>>

(* accept returns the lowest free descriptor, and there is a slot for it.  *)
Accepted(t) ==
    /\ Running /\ pc[t] = "events" /\ l_sock[t] \in events[t]
    /\ Handled(t, l_sock[t])
    /\ Free # {} /\ Lowest < MAX_FD_PER_LOOP * LOOP_COUNT
    /\ open' = open \cup {Lowest}

(* HASH_COUNT is below the limit; mutant: at it. *)
RoomForOne(t) == Count(t) <= MAX_FD_PER_LOOP
Room(t) == Count(t) < MAX_FD_PER_LOOP

(* There is room: add_sock and HASH_ADD_PTR. *)
Accept(t) ==
    /\ Accepted(t) /\ Room(t)
    /\ AddSock(t, Lowest)
    /\ HashAdd(t, Lowest)
    /\ retaken' = \/ retaken
                  \/ \E s \in Threads : pc[s] = "behind" /\ fd[s] = Lowest
    /\ UNCHANGED <<l_sock, pc, fd, crashed, astray, overflowed>>

(* The table is full: remove_client is called with the listening socket,   *)
(* and nothing is done about the new one.                                  *)
AcceptFull(t) ==
    /\ Accepted(t) /\ ~Room(t)
    /\ Remove(t, l_sock[t], "close")
    /\ overflowed' = overflowed \cup {t}
    /\ UNCHANGED <<interest, l_sock, retaken>>

(* Where the walk begins; mutant: behind the head. *)
BehindFirst(t) == IF contexts_by_ptr[t] = NULL THEN NULL
                 ELSE next[contexts_by_ptr[t]]
FirstClient(t) == contexts_by_ptr[t]

(* The walk over the clients goes to slot c, or ends. *)
Walk(t, c) ==
    /\ fd' = [fd EXCEPT ![t] = c]
    /\ Goto(t, IF c = NULL THEN "wait" ELSE "write")

(* All events handled: the walk begins at the head. *)
WriteStart(t) ==
    /\ Running /\ pc[t] = "events" /\ events[t] = {}
    /\ Walk(t, FirstClient(t))
    /\ UNCHANGED <<kernelVars, l_sock, tableVars, events, crashed, astray,
                   overflowed, retaken>>

(* On to the next client: also from one that was just removed ("behind").  *)
WriteNext(t) ==
    /\ Running /\ pc[t] \in {"write", "behind"}
    /\ Walk(t, next[fd[t]])
    /\ astray' = IF next[fd[t]] \in Linked(t) \cup {NULL} THEN NULL ELSE t
    /\ UNCHANGED <<kernelVars, l_sock, tableVars, events, crashed, overflowed,
                   retaken>>

(* The client is removed from within the walk.  wlen is a uint32_t, so the  *)
(* branch is taken only when send returns 0, and errno is not EAGAIN.      *)
WriteFails(t) ==
    /\ Running /\ pc[t] = "write"
    /\ Remove(t, fd[t], "wclose")
    /\ UNCHANGED <<kernelVars, l_sock, events, overflowed, retaken>>

Loop(t) ==
    \/ EpollWait(t) \/ ReadOk(t) \/ ReadFails(t) \/ Close(t)
    \/ AcceptFails(t) \/ Accept(t) \/ AcceptFull(t)
    \/ WriteStart(t) \/ WriteNext(t) \/ WriteFails(t)

Next == \E t \in Threads :
           Start(t) \/ StartFails(t) \/ EpollFails(t) \/ Loop(t)

Spec == Init /\ [][Next]_vars

(* A thread that is in its loop keeps running. *)
FairSpec == Spec /\ \A t \in Threads : WF_vars(Loop(t))
-----------------------------------------------------------------------------
MaybeFd  == Fds \cup {NULL}
InHand(t) == IF pc[t] \in {"close", "wclose"} THEN {fd[t]} ELSE {}

(* Every variable keeps its type; a thread stands on a slot whenever it    *)
(* adds, removes or closes one, and only descriptors that are registered   *)
(* are waiting to be handled.                                              *)
TypeOK ==
    /\ open \subseteq Fds
    /\ interest \in [Threads -> SUBSET Fds]
    /\ l_sock \in [Threads -> MaybeFd]
    /\ contexts_by_ptr \in [Threads -> MaybeFd]
    /\ tail \in [Threads -> MaybeFd]
    /\ num_items \in [Threads -> 0..MAX_FD_PER_LOOP]
    /\ prev \in [Fds -> MaybeFd] /\ next \in [Fds -> MaybeFd]
    /\ pc \in [Threads -> {"start", "wait", "events", "close", "write",
                           "wclose", "behind", "returned"}]
    /\ events \in [Threads -> SUBSET Fds]
    /\ fd \in [Threads -> MaybeFd]
    /\ crashed \in Threads \cup {NULL} /\ astray \in Threads \cup {NULL}
    /\ overflowed \subseteq Threads /\ retaken \in BOOLEAN
    /\ \A t \in Threads :
          /\ pc[t] \in {"close", "write", "wclose", "behind"} <=> fd[t] # NULL
          /\ Running => events[t] \subseteq interest[t]

(* uthash in the broker's use, the links of removed slots left as they     *)
(* were and slots reused by other tables: hh.next from the head meets      *)
(* num_items slots, hh.prev leads back, and tail is the last one.          *)
TableIntact ==
    Running => \A t \in Threads :
        /\ Cardinality(Linked(t)) = Count(t)
        /\ contexts_by_ptr[t] # NULL =>
              /\ prev[contexts_by_ptr[t]] = NULL
              /\ tail[t] \in Linked(t) /\ next[tail[t]] = NULL
              /\ \A c \in Linked(t) : next[c] # NULL => prev[next[c]] = c

(* A slot is in the table of one thread at most, its descriptor is open,   *)
(* and no other thread has it registered: HASH_DEL comes before close in   *)
(* remove_client, so no thread serves a slot that another has been given.  *)
OneServer ==
    Running => \A t \in Threads : \A c \in Linked(t) :
        /\ c \in open
        /\ \A u \in Threads \ {t} : c \notin Linked(u) \cup interest[u]

(* Every descriptor is accounted for.  A loop that never was full still    *)
(* listens, whatever happens to others, and each descriptor it is told     *)
(* about has a slot in its table; and unless some loop was full nothing    *)
(* leaks: what is open is listened on, in a table, or being closed.        *)
AllAccounted ==
    Running =>
        /\ \A t \in Threads \ overflowed :
              /\ l_sock[t] \in open \cup {NULL}
              /\ interest[t] \subseteq Linked(t) \cup {l_sock[t]} \cup InHand(t)
        /\ overflowed = {} =>
              open \subseteq UNION {Linked(t) \cup {l_sock[t]} \cup InHand(t) :
                                      t \in Threads}

(* HASH_DELETE meets an empty table only in a loop that was full before    *)
(* (its table was freed with the listening slot), and the walk of the      *)
(* write phase leaves its own clients only when the slot it had just       *)
(* removed was given to another thread before it read hh.next.             *)
FaultsExplained ==
    /\ crashed # NULL => crashed \in overflowed
    /\ astray # NULL => retaken \/ astray \in overflowed

(* Every client in the table of a loop gets its turn in a write phase, or  *)
(* is removed, however many others come, go and fail, unless the loop was  *)
(* full or ended.                                                          *)
Served ==
    \A t \in Threads : \A c \in Fds :
        c \in Linked(t) ~> \/ pc[t] = "write" /\ fd[t] = c
                           \/ c \notin Linked(t)
                           \/ t \in overflowed \/ ~Running \/ pc[t] = "returned"
=============================================================================
