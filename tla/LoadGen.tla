------------------------------- MODULE LoadGen -------------------------------
(***************************************************************************)
(* The load generators: eppub publishes, epsub subscribes and receives,    *)
(* flows_per_con messages on each of total_concurrency connections.  The   *)
(* two programs differ only in what a connection does once it is accepted, *)
(* so they are one module; load says which of them runs.                   *)
(*                                                                         *)
(* main distributes the connections over the cores and starts one thread   *)
(* per core, which already runs while main still fills concurs.  A thread  *)
(* opens its connections and serves their events; thread 0 also sums up    *)
(* and clears the statistics of all threads once a second, without a lock. *)
(* Of the statistics, which are all handled alike, the model has the       *)
(* number of completed connections.  SIGINT asks the threads to stop.      *)
(*                                                                         *)
(* libmosquitto is external: a call that can fail may fail, a callback is  *)
(* called from within loop_read or loop_write of the thread that owns the  *)
(* connection, and mosquitto_destroy closes the socket.  After a connect   *)
(* that succeeded mosquitto_socket is taken not to fail.  A message too    *)
(* short for epsub to count changes nothing here.                          *)
(***************************************************************************)
EXTENDS Integers, Sequences, FiniteSets, FiniteSetsExt

CONSTANTS
    NUM_CORES,
    Loads,            \* what may be run: the program, total_concurrency
                      \* (-p; 0 when it is not given) and flows_per_con
    MaxQueued,        \* bound: publishes waiting in libmosquitto
    Fds, NULL

ASSUME LoadAssumption ==
    /\ NUM_CORES \in Nat \ {0}
    /\ Loads \subseteq {"eppub", "epsub"} \X Nat \X (Nat \ {0})
    /\ MaxQueued \in Nat \ {0}
    /\ Fds \subseteq Nat /\ NULL \notin Nat

VARIABLES
    load,             \* what is run
    (* main *)
    main,             \* where it is, or how the process ended
    next_core,        \* i of its loops
    concurs, done,    \* per core; done asks the thread to end
    (* threads *)
    pc,
    g_stat,           \* cores whose context and statistics are known
    started, closed,  \* ctx->started and ctx->done
    completes,        \* ctx->stat.completes
    loaded,           \* its value as a thread loaded it for ++
    todo,             \* callbacks that still have to count a completion
    again,            \* descriptor that will be closed a second time
    (* connections: the k-th one of a core *)
    conn,
    open,             \* open sockets of the process
    reg,              \* epoll: connection each descriptor is registered for,
                      \* or 0; the kernel forgets a descriptor when it is
                      \* closed, by whichever thread
    batch,            \* connections whose event epoll_wait has returned and
                      \* that the thread has yet to serve
    (* PrintStats *)
    print,            \* core whose statistics are next, or NULL
    acc,              \* acc_stat.completes
    added,            \* what was added to it for core print, or NULL
    (* history *)
    counted,          \* completions counted by the threads
    signalled,        \* SIGINT arrived after all threads were started
    early,            \* an id was made of concurs[core_limit - 1] too early
    raced,            \* PrintStats cleared a count it had not added, or under
                      \* a pending store
    hit               \* epsub's second close met an open descriptor

mainVars == <<main, next_core, concurs>>
thrVars  == <<g_stat, started>>
statVars == <<completes, loaded, todo, counted>>
sockVars == <<conn, open, reg, closed>>
connVars == <<sockVars, batch, again, hit>>
prnVars  == <<print, acc, added, raced>>
vars == <<load, mainVars, done, pc, thrVars, statVars, connVars,
          prnVars, signalled, early>>

Cores  == 0..(NUM_CORES - 1)
Alive  == main \notin {"exit", "crash"}
Goto(c, to) == pc' = [pc EXCEPT ![c] = to]

(***************************************************************************)
(* Distribution.                                                           *)
(***************************************************************************)
tool          == load[1]
total         == load[2]
flows_per_con == load[3]
core_limit  == IF total < NUM_CORES THEN total ELSE NUM_CORES
concurrency == IF total > 0 THEN total \div core_limit ELSE 1
Remainder   == IF total > 0 THEN total % core_limit ELSE 0
Used        == 0..(core_limit - 1)

(* How many connections core i is given: one of the remainder each, from   *)
(* the first core on.                                                  *)
Share(i) == IF Remainder - i > 0 THEN concurrency + 1 ELSE concurrency

(* The number of a connection, which names the client and, with -u, the    *)
(* topic.  The connections beyond concurrency are numbered behind those of *)
(* all cores, by what the last core was given; mutant: without that case.  *)
PlainId(c) == c * concurrency + started[c]
IdOf(c) ==
    IF started[c] = concurrency /\ concurs[c] > concurs[core_limit - 1]
    THEN core_limit * concurs[core_limit - 1] + c
    ELSE c * concurrency + started[c]

Init ==
    /\ load \in Loads
    /\ main = "spawn" /\ next_core = 0
    /\ concurs = [c \in Cores |-> 0] /\ done = [c \in Cores |-> FALSE]
    /\ pc = [c \in Cores |-> "none"]
    /\ g_stat = {}
    /\ started = [c \in Cores |-> 0] /\ closed = [c \in Cores |-> 0]
    /\ completes = [c \in Cores |-> 0] /\ loaded = [c \in Cores |-> 0]
    /\ todo = [c \in Cores |-> 0]
    /\ conn = [c \in Cores |-> <<>>]
    /\ open = {} /\ reg = [c \in Cores |-> [f \in Fds |-> 0]]
    /\ batch = [c \in Cores |-> {}]
    /\ again = [c \in Cores |-> NULL] /\ hit = FALSE
    /\ print = NULL /\ acc = 0 /\ added = NULL
    /\ counted = 0 /\ signalled = FALSE /\ early = FALSE /\ raced = FALSE

(* main, its first loop: concurs and done of core i are set and its thread *)
(* created.                                                                *)
Spawn ==
    /\ main = "spawn" /\ next_core \in Used
    /\ concurs' = [concurs EXCEPT ![next_core] = Share(next_core)]
    /\ done' = [done EXCEPT ![next_core] = FALSE]
    /\ Goto(next_core, "created")
    /\ next_core' = next_core + 1
    /\ UNCHANGED <<load, main, thrVars, statVars, connVars, prnVars,
                   signalled, early>>

(* exit: pthread_create or, in a thread, epoll_create or calloc fails. *)
Exit ==
    /\ \/ main = "spawn" /\ next_core \in Used
       \/ Alive /\ \E c \in Used : pc[c] = "created"
    /\ main' = "exit"
    /\ UNCHANGED <<load, next_core, concurs, done, pc, thrVars, statVars,
                   connVars, prnVars, signalled, early>>

SpawnEnd ==
    /\ main = "spawn" /\ next_core \notin Used
    /\ main' = "join"
    /\ UNCHANGED <<load, next_core, concurs, done, pc, thrVars, statVars,
                   connVars, prnVars, signalled, early>>

(* The threads main waits for have ended. *)
AllEnded == \A c \in Used : pc[c] = "ended"

(* All threads are joined; PrintStats is called for the last time. *)
Join ==
    /\ main = "join" /\ AllEnded
    /\ main' = "print" /\ print' = 0
    /\ UNCHANGED <<load, next_core, concurs, done, pc, thrVars, statVars,
                   connVars, acc, added, raced, signalled, early>>

(* SIGINT: SignalHandler; mutant: it spares the last core. *)
AskedButLast == [c \in Cores |-> c + 1 \in Used \/ done[c]]
Asked == [c \in Cores |-> c \in Used \/ done[c]]
Signal ==
    /\ Alive
    /\ done' = Asked
    /\ signalled' = (signalled \/ main # "spawn")
    /\ UNCHANGED <<load, mainVars, pc, thrVars, statVars, connVars,
                   prnVars, early>>

(* Connections that are still to be made, when there are n, come before    *)
(* epoll_wait.                                                             *)
Unserved(c, n) == IF n < concurs[c] THEN "connect" ELSE "wait"

(***************************************************************************)
(* PrintStats, called by thread 0 and by main.                             *)
(***************************************************************************)
Printing == main = "print" \/ (Alive /\ pc[0] = "print")

(* The statistics of one core are added up ... *)
PrintAdd ==
    /\ Printing /\ print \in Used \cap g_stat /\ added = NULL
    /\ acc' = acc + completes[print]
    /\ added' = completes[print]
    /\ UNCHANGED <<load, mainVars, done, pc, thrVars, statVars, connVars,
                   print, raced, signalled, early>>

(* ... and cleared; mutant: they are not. *)
Kept    == completes
Cleared == [completes EXCEPT ![print] = 0]

PrintClear ==
    /\ Printing /\ added # NULL
    /\ completes' = Cleared
    /\ raced' = (raced \/ completes[print] # added \/ pc[print] = "store")
    /\ print' = print + 1 /\ added' = NULL
    /\ UNCHANGED <<load, mainVars, done, pc, thrVars, loaded, todo,
                   counted, connVars, acc, signalled, early>>

(* g_stat[print] is still NULL. *)
PrintCrash ==
    /\ Printing /\ print \in Used \ g_stat
    /\ main' = "crash"
    /\ UNCHANGED <<load, next_core, concurs, done, pc, thrVars, statVars,
                   connVars, prnVars, signalled, early>>

(* PrintStats returns to thread 0 or to main, which reports the times of   *)
(* all contexts and exits.  Without connections there is a division by 0:  *)
(* by core_limit in epsub's PrintStats, by total_concurrency in the report.*)
PrintEnd ==
    /\ Printing /\ print \notin Used /\ added = NULL
    /\ print' = NULL
    /\ IF main = "print"
       THEN main' = (IF total = 0 THEN "crash" ELSE "exit") /\ UNCHANGED pc
       ELSE Goto(0, Unserved(0, started[0])) /\ UNCHANGED main
    /\ UNCHANGED <<load, next_core, concurs, done, thrVars, statVars,
                   connVars, acc, added, raced, signalled, early>>

(***************************************************************************)
(* A thread: RunMain.                                                      *)
(***************************************************************************)
Register(c) ==
    /\ Alive /\ pc[c] = "created"
    /\ g_stat' = g_stat \cup {c}
    /\ Goto(c, "loop")
    /\ UNCHANGED <<load, mainVars, done, started, statVars, connVars,
                   prnVars, signalled, early>>

(* CreateContext fails. *)
NoContext(c) ==
    /\ Alive /\ pc[c] = "created"
    /\ Goto(c, "ended")
    /\ UNCHANGED <<load, mainVars, done, thrVars, statVars, connVars,
                   prnVars, signalled, early>>

(* Head of the loop: the thread stops if asked to; on core 0 a second may  *)
(* have passed since PrintStats.                                           *)
LoopHead(c) ==
    \/ done[c] /\ Goto(c, "ended") /\ UNCHANGED print
    \/ ~done[c] /\ Goto(c, Unserved(c, started[c])) /\ UNCHANGED print
    \/ ~done[c] /\ c = 0 /\ Goto(c, "print") /\ print' = 0

FirstRound(c) ==
    /\ Alive /\ pc[c] = "loop"
    /\ LoopHead(c)
    /\ UNCHANGED <<load, mainVars, done, thrVars, statVars, connVars,
                   acc, added, raced, signalled, early>>

(* CreateConnection succeeds. *)
Connect(c) ==
    /\ Alive /\ pc[c] = "connect"
    /\ Fds \ open # {}
    /\ LET fd == Min(Fds \ open) IN
       /\ conn' = [conn EXCEPT ![c] = Append(@,
             [id |-> IdOf(c), fd |-> fd, state |-> "connected", out |-> FALSE,
              count |-> 0, queued |-> 0])]
       /\ open' = open \cup {fd}
       /\ reg' = [reg EXCEPT ![c][fd] = started[c] + 1]
    /\ early' = \/ early
                \/ started[c] = concurrency /\ concurs[core_limit - 1] = 0
    /\ started' = [started EXCEPT ![c] = @ + 1]
    /\ Goto(c, Unserved(c, started[c] + 1))
    /\ UNCHANGED <<load, mainVars, done, g_stat, statVars, batch, again, hit,
                   closed, prnVars, signalled>>

(* CreateConnection fails: this is the thread's last round. *)
ConnectFails(c) ==
    /\ Alive /\ pc[c] = "connect"
    /\ done' = [done EXCEPT ![c] = TRUE]
    /\ Goto(c, "wait")
    /\ UNCHANGED <<load, mainVars, thrVars, statVars, connVars, prnVars,
                   signalled, early>>

(* epoll_wait returns events of some of the registered connections. *)
Wait(c) ==
    /\ Alive /\ pc[c] = "wait"
    /\ \E ready \in SUBSET {k \in DOMAIN conn[c] : \E f \in Fds : reg[c][f] = k} :
          batch' = [batch EXCEPT ![c] = ready]
    /\ Goto(c, "events")
    /\ UNCHANGED <<load, mainVars, done, thrVars, statVars, sockVars, again, hit,
                   prnVars, signalled, early>>

(* The sockets left after close(f); mutant: it is not closed. *)
StillOpen(f) == open
OpenAfter(f) == open \ {f}

(* No thread's epoll knows f any more. *)
Unregistered(f) == [d \in Cores |-> [reg[d] EXCEPT ![f] = 0]]

(* CloseConnection of the k-th connection of core c: mosquitto_destroy     *)
(* closes its descriptor, even if that is another's by now, and mosq_var   *)
(* is freed.  The id is kept as a history.                                 *)
CloseConnection(c, k) ==
    LET f == conn[c][k].fd IN
    /\ conn' = [conn EXCEPT ![c][k] =
                  [@ EXCEPT !.fd = NULL, !.state = "closed", !.out = FALSE,
                            !.count = 0, !.queued = 0]]
    /\ open' = OpenAfter(f)
    /\ reg' = Unregistered(f)
    /\ closed' = [closed EXCEPT ![c] = @ + 1]

(* epoll_ctl MOD of the descriptor of a connection: if it is registered,   *)
(* it is for that connection now.                                          *)
Modified(c, k) ==
    IF reg[c][conn[c][k].fd] = 0 THEN reg
                                 ELSE [reg EXCEPT ![c][conn[c][k].fd] = k]

(* The event of the k-th connection of core c is next in the batch.        *)
Event(c, k) ==
    /\ Alive /\ pc[c] = "events"
    /\ k \in batch[c]
    /\ batch' = [batch EXCEPT ![c] = @ \ {k}]

(* An event that is served without an error: the descriptor is not closed. *)
Served(c, k) == Event(c, k) /\ conn[c][k].fd \in open

(* EPOLLIN: loop_read calls no callback that does anything. *)
NoCallback(c, k) ==
    /\ Served(c, k)
    /\ UNCHANGED <<load, mainVars, done, pc, thrVars, statVars, sockVars, again,
                   hit, prnVars, signalled, early>>

(* EPOLLERR.  epsub closes the descriptor once more, which by then may be  *)
(* that of another thread's connection.  It reads it from mosq_var after   *)
(* that was freed: behind the first 16 bytes, so glibc has left it alone.  *)
ErrorEvent(c, k) ==
    /\ Event(c, k)
    /\ CloseConnection(c, k)
    /\ IF tool = "epsub"
       THEN again' = [again EXCEPT ![c] = conn[c][k].fd] /\ Goto(c, "reclose")
       ELSE UNCHANGED <<again, pc>>
    /\ UNCHANGED <<load, mainVars, done, thrVars, statVars, hit, prnVars,
                   signalled, early>>

CloseAgain(c) ==
    /\ Alive /\ pc[c] = "reclose"
    /\ open' = open \ {again[c]}
    /\ reg' = Unregistered(again[c])
    /\ hit' = (hit \/ again[c] \in open)
    /\ again' = [again EXCEPT ![c] = NULL]
    /\ Goto(c, "events")
    /\ UNCHANGED <<load, mainVars, done, thrVars, statVars, conn, batch, closed,
                   prnVars, signalled, early>>

(* EPOLLIN: CONNACK, and my_connect_callback. *)
Connack(c, k) ==
    /\ Served(c, k) /\ conn[c][k].state = "connected"
    /\ conn' = [conn EXCEPT ![c][k].state = "conacked", ![c][k].out = TRUE]
    /\ reg' = Modified(c, k)
    /\ UNCHANGED <<load, mainVars, done, pc, thrVars, statVars, again, hit,
                   closed, open, prnVars, signalled, early>>

(* EPOLLIN or EPOLLOUT: loop_read, publish, subscribe or loop_write fails. *)
(* After loop_read mosq_state is read once more from the freed mosq_var:   *)
(* it is closed, behind the first 16 bytes too, so nothing follows.        *)
IoFails(c, k) ==
    /\ Event(c, k)
    /\ CloseConnection(c, k)
    /\ UNCHANGED <<load, mainVars, done, pc, thrVars, statVars, again, hit,
                   prnVars, signalled, early>>

(* Callbacks counted n messages of a connection: it is done with at        *)
(* flows_per_con, which each callback from then on counts as completed.    *)
Callbacks(c, k, n) ==
    LET x == conn[c][k]
        completed == {i \in (x.count + 1)..(x.count + n) : i >= flows_per_con}
    IN  /\ conn' = [conn EXCEPT
             ![c][k].count = @ + n,
             ![c][k].state = IF completed = {} THEN @ ELSE "will_disconnect",
             ![c][k].queued = IF tool = "eppub" THEN @ + 1 - n ELSE @]
        /\ todo' = [todo EXCEPT ![c] = Cardinality(completed)]
        /\ IF completed = {} THEN UNCHANGED <<pc, loaded>>
           ELSE /\ loaded' = [loaded EXCEPT ![c] = completes[c]]
                /\ Goto(c, "store")

(* eppub, EPOLLOUT: one more message is published and loop_write writes n  *)
(* of those that are waiting; my_publish_callback.                         *)
Publish(c, k) ==
    /\ Served(c, k) /\ tool = "eppub" /\ conn[c][k].out
    /\ \E n \in 0..(conn[c][k].queued + 1) :
          /\ conn[c][k].queued + 1 - n <= MaxQueued
          /\ Callbacks(c, k, n)
    /\ UNCHANGED <<load, mainVars, done, thrVars, completes, counted, open, reg,
                   closed, again, hit, prnVars, signalled, early>>

(* epsub, EPOLLOUT: subscribe; then only EPOLLIN is waited for. *)
Subscribe(c, k) ==
    /\ Served(c, k) /\ tool = "epsub" /\ conn[c][k].out
    /\ conn' = [conn EXCEPT ![c][k].out = FALSE]
    /\ reg' = Modified(c, k)
    /\ UNCHANGED <<load, mainVars, done, pc, thrVars, statVars, again, hit,
                   closed, open, prnVars, signalled, early>>

(* epsub, EPOLLIN: a message; my_message_callback. *)
Message(c, k) ==
    /\ Served(c, k) /\ tool = "epsub"
    /\ conn[c][k].state = "conacked" /\ ~conn[c][k].out
    /\ Callbacks(c, k, 1)
    /\ UNCHANGED <<load, mainVars, done, thrVars, completes, counted, open, reg,
                   closed, again, hit, prnVars, signalled, early>>

(* stat.completes++ is a load, for the first callback in Callbacks, and a  *)
(* store.  After the last one the connection is closed.                    *)
Load(c) ==
    /\ Alive /\ pc[c] = "load"
    /\ loaded' = [loaded EXCEPT ![c] = completes[c]]
    /\ Goto(c, "store")
    /\ UNCHANGED <<load, mainVars, done, thrVars, completes, todo,
                   counted, connVars, prnVars, signalled, early>>

(* The connection that will_disconnect is closed. *)
Finish(c) ==
    \E k \in DOMAIN conn[c] :
        conn[c][k].state = "will_disconnect" /\ CloseConnection(c, k)

Store(c) ==
    /\ Alive /\ pc[c] = "store"
    /\ completes' = [completes EXCEPT ![c] = loaded[c] + 1]
    /\ loaded' = [loaded EXCEPT ![c] = 0]
    /\ todo' = [todo EXCEPT ![c] = @ - 1]
    /\ counted' = counted + 1
    /\ IF todo[c] > 1
       THEN Goto(c, "load") /\ UNCHANGED sockVars
       ELSE Goto(c, "events") /\ Finish(c)
    /\ UNCHANGED <<load, mainVars, done, thrVars, batch, again, hit, prnVars,
                   signalled, early>>

(* All events of the round are handled: the thread ends when all its       *)
(* connections are closed, or goes back to the head of the loop.           *)
RoundEnd(c) ==
    /\ Alive /\ pc[c] = "events" /\ batch[c] = {}
    /\ IF closed[c] >= concurs[c] THEN Goto(c, "ended") /\ UNCHANGED print
                                  ELSE LoopHead(c)
    /\ UNCHANGED <<load, mainVars, done, thrVars, statVars, connVars,
                   acc, added, raced, signalled, early>>

(* epoll_wait fails, or is interrupted by the signal. *)
WaitFails(c) ==
    /\ Alive /\ pc[c] = "wait"
    /\ done' = [done EXCEPT ![c] = TRUE]
    /\ Goto(c, "ended")
    /\ UNCHANGED <<load, mainVars, thrVars, statVars, connVars, prnVars,
                   signalled, early>>

Main == Spawn \/ SpawnEnd \/ Join

PrintStats == PrintAdd \/ PrintClear \/ PrintCrash \/ PrintEnd

Thread(c) ==
    \/ Register(c) \/ NoContext(c) \/ FirstRound(c)
    \/ Connect(c) \/ ConnectFails(c) \/ Wait(c)
    \/ \E k \in DOMAIN conn[c] :
          \/ NoCallback(c, k) \/ ErrorEvent(c, k) \/ Connack(c, k) \/ IoFails(c, k)
          \/ Publish(c, k) \/ Subscribe(c, k) \/ Message(c, k)
    \/ CloseAgain(c) \/ Load(c) \/ Store(c) \/ RoundEnd(c) \/ WaitFails(c)

Next == Main \/ Exit \/ Signal \/ PrintStats \/ \E c \in Cores : Thread(c)

Spec == Init /\ [][Next]_vars

FairSpec == Spec /\ WF_vars(Main) /\ WF_vars(PrintStats)
                 /\ \A c \in Cores : WF_vars(Thread(c))
-----------------------------------------------------------------------------
(* The sum of f over all cores. *)
SumOver(f) ==
    LET upto[n \in 0..NUM_CORES] == IF n = 0 THEN 0 ELSE upto[n - 1] + f[n - 1]
    IN  upto[NUM_CORES]

Live(x) == x.state # "closed"
All == UNION {{c} \X DOMAIN conn[c] : c \in Cores}
At(p) == conn[p[1]][p[2]]

(* No two connections have the same number, and the numbers are the first  *)
(* total ones, although the connections beyond concurrency are numbered    *)
(* apart; unless a thread made such a number before main had come to the   *)
(* last core.                                                              *)
IdsDistinct ==
    ~early => /\ \A p, q \in All : p # q => At(p).id # At(q).id
              /\ \A p \in All : At(p).id \in 0..(total - 1)

(* Each connection that is not closed has an open socket of its own, for   *)
(* which it is registered with its thread's epoll, and no other socket is  *)
(* open or registered: none is shared, leaked or forgotten, although       *)
(* threads open and close sockets while others have a batch of events to   *)
(* serve.  Only epsub's second close can break that, by closing what       *)
(* another thread has just opened, and only if there is another thread.    *)
SocketsOwned ==
    IF hit THEN tool = "epsub" /\ core_limit > 1
    ELSE /\ \A p, q \in All : p # q /\ Live(At(p)) /\ Live(At(q))
                                => At(p).fd # At(q).fd
         /\ open = {At(p).fd : p \in {q \in All : Live(At(q))}}
         /\ \A c \in Cores : \A f \in Fds :
               /\ reg[c][f] \in {0} \cup DOMAIN conn[c]
               /\ \A k \in DOMAIN conn[c] :
                     reg[c][f] = k <=> Live(conn[c][k]) /\ conn[c][k].fd = f

(* What the threads counted is in acc_stat or still in their statistics,   *)
(* nothing lost or twice, as long as PrintStats never cleared statistics   *)
(* that changed since it added them or were just being incremented.        *)
StatsExact ==
    ~raced => acc + SumOver(completes)
                = counted + (IF added = NULL THEN 0 ELSE added)

(* Once all threads are started, SIGINT ends the process, whatever the     *)
(* connections do. (While main still starts threads it sets done of each   *)
(* to FALSE and forgets the signal.)                                       *)
StopsOnSignal == signalled ~> ~Alive
=============================================================================
