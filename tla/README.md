# muMQ in TLA+

A TLA+ model of muMQ, a multi-threaded MQTT broker in C, and of its load
generators: the event-loop threads and what they share, the reader that turns a
byte stream into packets, the parser, the topic tree, the queues, and all of it
put together. TLC checks the modules on small instances; TLAPS proves every
invariant and both refinements for all values of the constants.

## 1. The system

muMQ runs `LOOP_COUNT` event-loop threads (`broker/broker.c`, `run`). Each has
its own listening socket (SO_REUSEPORT, or one mTCP stack per core), its own
epoll set and its own table `contexts_by_ptr` of the clients it accepted. All
threads share the array `g_broker->clients` (one slot per descriptor) and the
topic tree `g_broker->subs`. One round of `loop_run` handles the ready
descriptors (accept, or `loop_read`) and then writes queued packets for every
client in the table.

| Component | State | Operations | Interacts with |
|---|---|---|---|
| Event loop (`event_io.c` `loop_run`) | epoll set, `contexts_by_ptr`, `base_sock` | accept, dispatch, write phase, remove | reader, queue |
| Packet reader (`loop_read`) | `in_packet`, `remaining_count`, `remaining_mult`, `in_payload`, `in_to_process`, `in_cur` of a slot | recv of command byte, length, payload; parse; handle | handlers |
| Handlers (`hand_mqtt.c`) | `state`, `id`, `is_subscribe` of a slot | CONNECT, SUBSCRIBE, PUBLISH, PINGREQ, DISCONNECT | tree, queues |
| Outgoing queue (`publish_msg`, `ack_msg`, write phase) | `sending_packet`, `sending_packet_tail`, `sending_cur_packet`, `num_sending_pack`, `sending_lock` | append (any thread), take, send, retire (owner), reset (owner, without the lock) | socket |
| Topic tree (`substree.c`) | nodes, leaves, `root_lock`, `branch_lock` | `mqtt3_sub_add`, `mqtt3_sub_tree_process` | queues through the callback |
| Parser, serialiser (`mqtt.c`) | parser state | `mqtt_parser_command`, `mqtt_parser_execute`, `mqtt_serialiser_size`, `mqtt_serialiser_write` | reader, queue |
| Load generators (`tools/`) | connection tables, statistics | connect, publish, subscribe, report | the broker, over TCP |

What is hard here, and a test would hardly reach:

- **Queue.** Threads append to a queue whose owner takes from it, resets its
  counter without the lock and may reuse the slot for another client. The
  writer trusts the counter and dereferences what the list gives it.
- **Reader.** It may be interrupted at any byte and must find its place again.
  Offset, rest and size of the buffer must add up over any number of calls.
- **Tree.** Searches take no lock that subscribers hold; leaves outlive
  connections; errors return from the middle of a critical section.
- **Event loop.** Descriptors are process-wide, slots are indexed by them, and
  the list a thread walks is threaded through the slots: a closed descriptor may
  be accepted by another thread at once, and its links rewritten under the
  walk. The branch for a full table removes the listener.
- **Together.** A publisher tests a slot and appends to it in two steps while
  the slot changes hands; queue and leaves of a slot outlive its connection.
- **Load generators.** Threads run before `main` has set what they read; the
  statistics are summed and cleared without a lock; `epsub` closes a descriptor
  twice.

`PROJECT.json` lists each hazard at its line with the properties that would
catch it.

## 2. Modules

| Module | What it is |
|---|---|
| `Outbox` | abstract: a FIFO of message numbers |
| `ClientQueue` | one slot's outgoing queue, its owner and the publishers |
| `ClientQueueProofs` | its theorems |
| `FixedHeader` | the fixed header of a packet: type, digits of the length |
| `Framing` | abstract: which packets a byte stream contains |
| `LoopRead` | `loop_read`, one recv a step |
| `LoopReadProofs` | its theorems |
| `MqttCodec` | the parser's state machine, and the packets serialised in answer |
| `MqttCodecProofs` | its theorems, and the arithmetic of the fixed header |
| `TopicTree` | subscribing and searching threads on the shared tree |
| `TopicTreeProofs` | its theorems, but for the one below |
| `TopicTreeDueProofs` | the theorem that a search misses no one |
| `EventLoop` | the event-loop threads: descriptors, epoll sets, tables of slots |
| `EventLoopProofs` | its theorems, and lemmas about linked lists |
| `Broker` | threads, connections, subscriptions, messages and queues together |
| `BrokerProofs` | its theorems |
| `LoadGen` | `eppub` and `epsub` |
| `LoadGenProofs` | its theorems, and lemmas about sums and numbers |
| `MC*` | constants of the instances that TLC checks |

A definition that follows the words "mutant" in a comment is a deliberately
wrong variant of the definition after it; no specification uses it. Replacing the
right one by it makes TLC report the property that `PROJECT.json` names: each
property is known to be able to fail.

### ClientQueue

The state is the code's: a heap of `struct packet` cells (`live`, `next`, `wcur`,
`wlen`), the three pointers, the counter, the lock. Each thread has a program
counter. Appending is *Build* (malloc and serialise), *Link* (take the lock,
link, load the counter) and *Count* (store it, unlock); the increment is split
because `add_client` and `clean_context` store 0 without the lock. The owner
polls, handles at most one packet of this client, then writes: *Look*, *Take*,
the send steps, *Retire*. The result of `send` is chosen by the environment.
-1 is stored in a `uint32_t`, so the code's error branch is taken for 0 only;
the model does the same arithmetic modulo `UINT`.

History variables (`put`, `got`, `at`, `sent`, `short`, `lossy`) record what was
appended, taken and sent; no guard reads them. `lossy` is set when the counter
is overwritten while packets are in the list, or decremented for a retry.

Packets of other slots that the owner handles change nothing here except by
publishing to this slot; that is *HandlePublish*, *Publish*, *PublishDone*.

### LoopRead

The variables are the fields of `struct client` that survive between two calls
and `pc`, the recv to be done next. A step is one recv and what the code does
with its result; *WouldBlock* returns and *Event* starts the next call, which
works out where it was from the fields, as the code does. Base (128), position
of the type (16) and word size (2^32) are constants: the proofs hold for all
that satisfy `HeaderAssumption`, TLC uses base 2. What the parser accepts is a
free choice (*ParseError* or *Handle*); the parser has its own module.

`Framing` has no notion of a call, a buffer or a flag: it collects header bytes
until one without continuation bit, then as many bytes as they say. Type 0 is
reserved in MQTT, and in the code it also means "no command byte yet", so after
such a packet is interrupted the reader loses its place. The history variable
`reserved` is set when a command byte of type 0 is read; the refinement mapping
hides what comes after it.

### MqttCodec

One action per state of `mqtt_parser_execute`; states that only go on to another
one are merged with it. The payload is not stored: a length, a flag or a choice
of the packet is made where the parser reads it, so every payload of every
length up to `MaxLen` is covered. A string is an offset and a length, offset 0 is
NULL. `len - *nread` is unsigned in the code; since the cursor never passes the
end before a test (`TypeOK`), it is the integer difference. `msg_len` is computed
modulo `UINT`. *Forward* serialises a PUBLISH for a subscriber as `publish_msg`
does, with a topic that `strlen` may have shortened; *Acknowledge* is `ack_msg`.
Of a serialised packet the model keeps the size of the buffer, the number of
bytes written, the header bytes and the two bytes before the topic. A length has
at most four digits, so the loop that emits them is written out (`LengthBytes`).
The module is that of a run itself: its constants are numbers.

### TopicTree

A node is its path; lists keep the code's order (children of the root are put
in front, others behind). A thread is either subscribing (under `root_lock`) or
searching, and every load or store that another thread can observe is a step.
The recursion of `_sub_search` needs no stack: where a call returns to is the
parent of the path it is at. `OOM` lets each tested malloc fail, those for the
tokens of a search included (*SearchFails*). `id` is NULL for a slot that is not
connected; *Connect* sets it in one step, where `add_client` clears it and then
copies (`broker.c:78-79`). Nodes and leaves are taken to be initialised
before they are visible, as on x86, where the broker runs; a failed
`pthread_rwlock_wrlock` by the thread that already holds the lock (EDEADLK in
glibc) is ignored, as the code does. `branch_lock` is held for single loads and
stores only, which are steps anyway. `context->subs` is written and never read,
and left out.

`Match` is the reference: what MQTT says a filter means, with no tree in it.

### EventLoop

The kernel gives out the lowest free descriptor and tells each thread about
descriptors it has registered; registering may fail, and the code does not look.
Of uthash the model has what the broker uses: `HASH_ADD_PTR`, `HASH_DEL` and
`HASH_COUNT`, and the list in order of insertion (`hh.next`, `hh.prev`, `tail`,
`num_items`), with the links of a removed slot left as they were. The clients of
a table (`Linked`) are what a walk from its head meets: the least set that has the
head and all that is linked to it. Nothing is ever looked up in the table, so its
buckets are left out. A round is *EpollWait*, one
step per event, and one step per client of the write phase. `remove_client` is
two steps: `HASH_DEL` with `clean_context`, and *Close*, after which the
descriptor may be accepted elsewhere. In the write phase the thread then still
stands on the slot (`behind`) and reads its `hh.next`. What is written there is
`ClientQueue`'s business; a client is removed there only when `send` returns 0.

The model is of the kernel TCP build, where `base_sock` is 0. The descriptors of
the epoll instances are not among `Fds`. It ends where the program dereferences
NULL (`crashed`) and where a thread reads or writes another thread's list
(`astray`): `FaultsExplained` says when that can happen.

### Broker

The composition. A connection is accepted into a slot by some thread, its
CONNECT, SUBSCRIBE, PUBLISH and PINGREQ are handled, messages pass from the
search to the queues and to the writer, and the slot is given to another
connection. Each part is what its own module shows it to be: a slot has one
server (`EventLoop`), a packet is handled whole (`LoopRead`), a search meets every
leaf there when it began (`TopicTree`), a queue is a FIFO whose counter says
how much may be taken (`Outbox`). Appending and counting is one step, and so are
taking and sending, and `add_client`'s reset of the counter with the CONNACK
behind it: their interleavings are `ClientQueue`'s. What is left to
interleave is what happens between the parts: the leaf, `is_subscribe` and
SUBACK; the test of `is_subscribe` and the append; the reuse of slots.
`soiled` marks a slot for which packets were queued, or about to be, when its
connection was accepted.

Filters and topics are values; `Matches` says which filter matches which topic.
`Hides` has the pairs of a filter and one above it that ends in `#`: once the first
has a leaf, searches pass the second by (*Hidden*, the test `!branch->children`).
Connections may choose the same identifier, as nothing refuses it. SUBSCRIBE adds
a leaf only if the node has none of a slot with that identifier (*HasLeaf*,
*AddLeaf*), and is acknowledged in either case; `shared` records those that found
only another slot's leaf.

### LoadGen

Both programs, which differ in what a connection does after CONNACK; `load` says
which one runs, with how many connections (`-p`) and messages each. `main` sets
`concurs` and starts the threads one by one, so threads run while it does. The
statistics are all handled alike and are represented by `completes`, whose
increment is a load and a store; *PrintAdd* and *PrintClear* are the two halves of
`PrintStats` for one core. libmosquitto is external: any call may fail, up to
`MaxQueued` publishes wait in it when a socket is full, and `mosquitto_destroy`
closes the socket. Descriptors are process-wide here too, which is what makes
`epsub`'s second `close` matter. `epoll_wait` returns a batch of connections
(`batch`), which are served one by one, also after their descriptor was closed or
given to another thread; `reg` is what each epoll instance has registered, and
`hit` records that a second close met an open descriptor. From then on two
connections may share one. `epsub` reads fields of a `mosq_var` it has freed
(`epsub.c:477`, `488`); they are taken to be unchanged, as they lie behind the
bytes that `free` of glibc writes to. Payloads, times and the option `-N 0` are not
modelled.

## 3. Runs

| Run | Instance | Shows |
|---|---|---|
| `queue` | 2 publishers, 3 cells, 3 packets of 2 bytes, words of 3 bits | types; the writer's packet is live; pointers form the list; the counter never exceeds it; no gap in the bytes sent; `ClientQueue` implements `Outbox`; a queued packet reaches the writer, unless the counter lost track or the connection ended |
| `queue_blocked_write` | 1 publisher, 2 packets | *violated*: a packet is freed unsent after a blocked send |
| `read` | base 2, all bytes, reserved types included | recv stays in the buffer; no buffer leaks; `LoopRead` implements `Framing`; a packet begun is finished or its connection closed |
| `codec` | base 3, string lengths of two base-3 digits, payloads of 0 to 28 bytes | strings lie in the payload and do not overlap; the handler has what it dereferences; the serialised packet fills its buffer and reads back |
| `tree_concurrent` | 2 threads, 2 clients, filters `a`, `a/#`, `$S`, topics `a`, `a/b`, malloc may fail | no duplicates; only matching deliveries, once each; no acknowledged subscriber missed |
| `tree_matching` | 1 client, 6 filters, 7 topics, of up to 3 levels, with `$`, empty levels, `+` and `#` | the walk agrees with `Match` for every set and order of subscriptions |
| `tree_liveness` | 2 threads, filters `#`, `a`, `$S`, topic `a`, malloc may fail | searches end; `root_lock` is given back by every way out of `mqtt3_sub_add`, except after a failed malloc for a child of the root |
| `tree_invalid_filter` | filters `#` and `#/a` | *violated*: the subscriber to `#` misses messages |
| `event_loop` | 2 threads, 6 descriptors, tables of 2, 2 events a round, 5 registrations | each table's list is well formed; a slot has one server; no descriptor is forgotten or leaks before a loop is full; the two faults have only the causes named |
| `event_served` | 2 threads, 4 descriptors, tables of 3, 3 registrations | every client gets its turn in the write phase, or is removed |
| `tools` | 2 cores, 0 to 3 connections, 1 or 2 messages each, 3 descriptors, both programs | connection numbers are distinct and complete; no socket is shared, lost or unregistered until a second close of `epsub` hits an open one, and with one thread none does; statistics are exact unless cleared in a race; SIGINT stops the program |
| `broker` | 2 threads, 2 slots, 2 identifiers, filters `a`, `#`, `#/a`, topic `a`; 3 connections, 2 publishes, 4 requests, 7 of these in all | the counter never exceeds the queue; order is kept per publisher; no acknowledged subscriber is missed, except one that shares a leaf or a `#` that is hidden; connections of one slot are isolated, up to what was queued; the first answer is counted |

Why the bounds are enough to be interesting. Three cells let a list of two stand
behind the packet being written and a freed cell be reused; two publishers
contend for the lock while the owner resets the counter. With 2-byte packets and
`UINT = 8` a write can be partial and a failed one can move `wcur` below or beyond
it. Base 2 gives lengths 0 to 15 in one to four digits and a fifth digit to
refuse; payloads are split in every way. For the codec, 28 bytes hold a CONNECT
with all six strings (16 bytes of lengths and fixed fields), and output lengths
of 1 to 4 digits in base 3. In the tree two filters share a node, nodes are
siblings and parent and child, and both threads subscribe and search; there is
no bound on the number of connections, subscriptions and searches.

In `event_loop` the loops become full while descriptors are left, a registration
fails, and slots pass from one thread to the other in both phases; there is no
bound on the number of connections over time. `event_served` has tables of three,
so that a removed client has neighbours on both sides, and fewer descriptors, as
liveness needs. In `broker` one slot serves two connections while the other
publishes, a client has two filters that match one topic, and four requests
allow CONNECT and SUBSCRIBE for two connections, with one identifier or two, or
`#` and `#/a` for one; `MaxEvents` keeps the three from being large at once. In `tools` three connections on two cores are the smallest
uneven share, and three descriptors let one that was just closed be opened by
the other thread.

`event_loop` (threads), `broker` (threads, slots, identifiers) and `queue_blocked_write` (cells, publishers) use symmetry; they check no
liveness. Deadlock is checked except in
`event_loop`, `event_served` and `tools`, where the process really stops: it
crashes, all its threads have returned, or it exits.

### Fairness

- `ClientQueue`: weak fairness for each thread (they are never descheduled for
  ever, and `epoll_wait` returns after 1 ms). Strong fairness of *SendRest* says
  that a socket does not accept part of a packet and then block, again and
  again; nothing is assumed of what clients send.
- `LoopRead`: weak fairness of the event (epoll is level-triggered) and of the
  handler; strong fairness of each recv says a client that began a packet keeps
  sending it. Without it there is nothing to show: the broker has no timeout.
- `TopicTree`: weak fairness of the steps inside the critical section and of the
  search. Nothing is assumed of the order in which threads get `root_lock`, so
  it is not claimed that every waiting subscriber gets it.
- `EventLoop`: weak fairness of each thread that is in its loop. Nothing is
  assumed of events, failures or new connections.
- `LoadGen`: weak fairness of `main`, of `PrintStats` and of each thread: they are
  not descheduled for ever, and `epoll_wait` returns, with the signal at the
  latest. Nothing is assumed of the broker's answers.

## 4. Proofs

The proofs hold for all values of the constants that satisfy the `ASSUME` of the
module: any number of threads, slots, cells, descriptors, connections and
packets, any lengths and limits. In each module the properties follow from one
inductive invariant, `IInv`, whose parts were checked with TLC on the instances of
the runs before they were proved; there is one lemma per action, and lemmas about
the data structures come first.

### Queue

`ClientQueueProofs` (`QueueAssumption`): `TypeCorrect`, `WriterSafe`, `ListCorrect`,
`CountCorrect`, `BytesInOrder` and `QueueIsFifo` (the refinement of `Outbox`). The
invariant adds to the stated ones

- `LockInv`: a thread between *Link* and *Count* holds the lock, and what it
  loaded is below the length of the list: needed because the counter may be
  reset to 0 in between, and the store then brings a stale value back;
- `PrivateInv`: a packet that is built and not linked is live, in no list, and
  no other thread's;
- `OrderInv`: what was taken is a prefix of what was appended;
- `WriterInv`: what the owner's attempts left promise: the counter, and so the
  list, has at least that many packets unless one is still unfinished.

`WriterSafe` rests on the last one: no store by another thread lowers the
counter between *Look* and *Take*, and the owner's own resets happen in its read
phase. `BytesInOrder` has an invariant of its own about `wcur` and `sent`.

### Reader

`LoopReadProofs` (`HeaderAssumption`), for every byte stream: `TypeCorrect`,
`MemorySafe` (buffer bounds), `NoLeak`, and `SegmentationIrrelevant` (the refinement
of `Framing`), which follows each stream up to its first packet of the reserved
type. The invariant relates the sign of `remaining_count` to the buffer; for the
refinement it also says that `length` and `remaining_mult` are the values of the
digits read (`HeaderInv`), which needs that four digits do not overflow the word,
and, once a reserved packet was met, only what the mapping still shows
(`FramingInv`). `FramedStep` treats the steps before that point, `StrayStep` those
after it.

### Parser and serialiser

`MqttCodecProofs` (`CodecAssumption`), for every base and payload: `TypeCorrect`,
`StringsStayInside`, `HandlersServed`, `WritesFit`, `WritesReadable`. `StringsInside`
speaks of the end of a packet; the invariant says that while the parser runs all
strings end at or before the cursor (`StringsInv`), so the next cannot overlap
them, and what each state knows of the ones before it (`HandlerInv`), so that
`msg_len` does not wrap. What is serialised reads back because of `HeaderFacts`:
the bytes `LengthBytes` emits are as many as `LengthSize` counts, and have the
length as their value.

### Tree

`TopicTreeProofs` (`TreeAssumption`), for every set of filters and topics, valid or
not: `TypeCorrect`, `SiblingsDistinct`, `DeliversOnlyMatching`. `root_lock` leaves one
thread in the tree (`LockInv`), so what `_sub_add` did not find is still not there
when it adds it (`AddInv`). Nothing is removed and lists only grow at their ends,
so what lies behind a search stays behind it (`PassedGrows`); all it delivered to
lies behind it (`GotInv`), hence no duplicates; and the node it is at matches the
topic token by token (`WalkInv`), hence only matching ones.

`TopicTreeDueProofs`: `DeliversAll`. It has a hypothesis, `WellFormed`: `#` is last in
filters and absent from topics, and slots never share an identifier. The code
does not enforce it: without the first part the statement is false, as the run
`tree_invalid_filter` shows, and the second is the CONNECT that is never refused
(section 5). Under it a leaf that is due lies ahead of the search or was
delivered to; what lies ahead stays ahead (`AheadGrows`), and the search passes a
child only if nothing due is below it (`NotSkipped`, `HashIsLast`).

### Event loop

`EventLoopProofs` (`LoopAssumption`): `TypeCorrect`, `ListsIntact`, `ServedByOne`,
`NothingForgotten`, `FaultsHaveCauses`. As `Linked` is a least set, an induction
along a list is the choice of a closed set (`ReachLeast`); `ListAppend` and
`ListDelete` say what `HASH_ADD` and `HASH_DELETE` do, `ListSame` that other slots'
links do not matter. What a thread has in its table, in its epoll instance or in
hand is open and no other thread's (`OwnInv`), which is needed for a slot's links
to be written by its owner only; it is kept because `HASH_DEL` comes before
`close`. `WalkInv` is about the thread that stands on a slot it removed,
`ListenInv` and `AccountInv` about loops that were full. After a crash or a stray
walk (`Running` is false) only the types and `FaultsExplained` are claimed.

### Broker

`BrokerProofs` (`BrokerAssumption`): `TypeCorrect`, `KeepsOrder`, `ReachesAll`, `Isolates`,
`CountsFirstAnswer`. The properties speak of packets taken or of searches that
are over, so the invariant says the same of the states in between: where each
queued message stands in the searches under way for its connection (`OrderInv`,
`SortedInv`), where each leaf is that a search has yet to deliver to (`ReachInv`),
what is queued or about to be (`IsoInv`), the queue by its lengths (`CountInv`).
`BusyInv`, `ConnInv` and `SubInv` tie threads, slots and subscriptions together.
`ReachesAll` also needs that a subscription that was acknowledged has a leaf or is
in `shared` (`LeafInv`), and that a hidden `#` stays hidden, as leaves stay: so a
search that was to deliver to it either still will or need not.

### Load generators

`LoadGenProofs` (`LoadAssumption`): `NumbersDistinct`, `SocketsCorrect`,
`StatsCorrect`. The number of a connection is stated outright (`IdInv`), which
needs what `main` has given to which core (`SpawnInv`); that the numbers differ and
stay below the total is arithmetic with the quotient and remainder (`Numbers`).
Until a second close hits, the sockets of the connections that are not closed are
distinct, open and registered, and there are no others (`Owned`, `Registered`), so
closing one takes it from its connection alone (`Closes`). What a thread is about
to close again belongs to none of its own connections (`AgainInv`), so a second
close that hits needs another thread. The sum over the cores is
a recursive function; that it exists and how one term changes it is `SumUpdate`.
`PrintInv` says that a thread about to store one more loaded what is there, and
that only one thread prints.

### Only model-checked

The liveness properties, which need fairness: `EventuallyTaken`, `PacketFinished`,
`SearchEnds`, `LockReleased`, `Served`, `StopsOnSignal`. The two properties that are
violated have no theorem, of course: `WholePackets`, and `NoneMissed` where filters
are not well formed.

## 5. Disagreements found

1. `event_io.c:319-339`: the unsigned result of `send` makes the error branch
   unreachable for -1; a blocked write loses the packet or sends part of it
   twice (`queue_blocked_write`).
2. `hand_mqtt.c:158-160`: the result of `sub_topic_valid` is ignored, and a filter
   below `#` hides the node `#` from searches (`tree_invalid_filter`).

Also met while modelling, where no text of the repository says otherwise:

- `hand_mqtt.c:140-145`: a CONNECT with an identifier in use is never refused,
  although the handler has a branch "already exists"; a SUBSCRIBE that finds the
  leaf of the other client gets SUBACK 0 and no leaf (the exception in `Reached`).
- `substree.c:234`, `241`: `mqtt3_sub_add` returns with `root_lock` locked when malloc
  fails for a child of the root (the exception in `LockReleased`).
- `event_io.c:276`: a full loop closes its own listener, frees its table and leaks
  the new socket; it crashes at the next removal (`AcceptFull`, `crashed`).
- `event_io.c:282`: after a removal in the write phase, which happens only when
  `send` returns 0, the walk may go on in another thread's list (`astray`).
- `broker.c:57-60`: the packets left in the queue of a slot go to its next client
  (`soiled`).
- `eppub.c:223`, `eppub.c:313`, `eppub.c:633`, `epsub.c:477`: a connection number
  made of a value `main` has not set, NULL statistics of a thread that is slow to
  start, a SIGINT forgotten during start-up, a descriptor closed twice
  (`early`, `PrintCrash`, `signalled`, `CloseAgain`).

## 6. Not modelled, and what is left

All invariants and refinements of the runs are proved. What could follow: the
claims by which `Broker` treats its parts as single steps are argued in section 2
and proved of each part in its own module, but not as a refinement of one
specification by the others together.

Left out for good: logging, the debugging printers, `getsockop.c`, the CPU
affinity helper, and the topic validation, whose results are ignored; serialising
CONNECT, which nothing calls; the buckets of `uthash.h`, and `mosquitto.h`, which
only declares the library; the mTCP build; start-up beyond what it establishes;
crashes and restarts, as nothing is persisted.
