---------------------------- MODULE LoadGenProofs ----------------------------
(***************************************************************************)
(* Theorems about LoadGen: for any number of cores, connections, messages  *)
(* and descriptors, connection numbers are distinct and the first total    *)
(* ones, each connection that is not closed has a socket of its own, for   *)
(* which it is registered, and no other socket is open, and the statistics *)
(* add up, each as long as the race named in the property did not happen.  *)
(*                                                                         *)
(* None of the three is inductive.  Numbers need SpawnInv, what main has   *)
(* given to which core, and IdInv, which says the number outright; that    *)
(* these differ is arithmetic (Numbers).  Sockets need that a thread       *)
(* about to close a descriptor a second time has no connection with it     *)
(* (AgainInv), so that only another thread's can be hit.  The sum          *)
(* needs PrintInv: a thread about to store one more loaded what is there,  *)
(* and PrintStats is run by one thread at a time.                          *)
(***************************************************************************)
EXTENDS LoadGen, SequenceTheorems, WellFoundedInduction, TLAPS

States == {"connected", "conacked", "will_disconnect", "closed"}
Conn == [id : Int, fd : Fds \cup {NULL}, state : States, out : BOOLEAN,
         count : Int, queued : Int]
Points == {"none", "created", "loop", "print", "connect", "wait", "events",
           "reclose", "load", "store", "ended"}

(* The types of what the invariants are about. *)
TypeInv ==
    /\ load \in Loads
    /\ main \in {"spawn", "join", "print", "exit", "crash"}
    /\ next_core \in Nat /\ concurs \in [Cores -> Nat]
    /\ pc \in [Cores -> Points]
    /\ started \in [Cores -> Nat]
    /\ completes \in [Cores -> Nat] /\ loaded \in [Cores -> Nat]
    /\ conn \in [Cores -> Seq(Conn)]
    /\ open \subseteq Fds /\ reg \in [Cores -> [Fds -> Nat]]
    /\ again \in [Cores -> Fds \cup {NULL}]
    /\ print \in Nat \cup {NULL} /\ acc \in Nat /\ added \in Nat \cup {NULL}
    /\ counted \in Nat

(* main has come to core next_core, and threads run on those before it. *)
SpawnInv ==
    /\ next_core \in 0..core_limit
    /\ \A c \in Cores :
          /\ concurs[c] = IF c < next_core THEN Share(c) ELSE 0
          /\ pc[c] # "none" => c < next_core
          /\ Len(conn[c]) = started[c] /\ started[c] <= concurs[c]
          /\ pc[c] = "connect" => started[c] < concurs[c]
    /\ main \in {"join", "print"} => next_core = core_limit
    /\ main = "print" => AllEnded

(* The k-th connection of core c has this number. *)
Number(c, k) == IF k <= concurrency THEN c * concurrency + k - 1
                ELSE core_limit * concurrency + c

(* The number of every connection, said outright. *)
IdInv ==
    ~early => \A c \in Cores : \A k \in DOMAIN conn[c] : conn[c][k].id = Number(c, k)

(* A connection that is not closed has an open socket, every open socket   *)
(* is such a connection's, and no two have the same.                       *)
Owned ==
    /\ \A c \in Cores : \A k \in DOMAIN conn[c] :
          Live(conn[c][k]) => conn[c][k].fd \in open
    /\ \A f \in open : \E c \in Cores : \E k \in DOMAIN conn[c] :
          Live(conn[c][k]) /\ conn[c][k].fd = f
    /\ \A c, d \in Cores : \A k \in DOMAIN conn[c] : \A j \in DOMAIN conn[d] :
          (c # d \/ k # j) /\ Live(conn[c][k]) /\ Live(conn[d][j])
             => conn[c][k].fd # conn[d][j].fd

(* epoll knows each descriptor for its connection. *)
Registered ==
    \A c \in Cores : \A f \in Fds :
       /\ reg[c][f] \in {0} \cup DOMAIN conn[c]
       /\ \A k \in DOMAIN conn[c] :
             reg[c][f] = k <=> Live(conn[c][k]) /\ conn[c][k].fd = f

(* SocketsOwned, in its parts; a closed connection has no socket. *)
SocketInv ==
    /\ hit \/ Owned
    /\ hit \/ Registered
    /\ \A c \in Cores : \A k \in DOMAIN conn[c] :
          conn[c][k].state = "closed" => conn[c][k].fd = NULL

(* A second close is epsub's, of a descriptor no connection of that thread *)
(* has, and meets an open one only if there are other threads.             *)
AgainInv ==
    /\ hit => tool = "epsub" /\ core_limit > 1
    /\ \A c \in Cores : pc[c] = "reclose" =>
          /\ tool = "epsub"
          /\ hit \/ \A k \in DOMAIN conn[c] :
                       Live(conn[c][k]) => conn[c][k].fd # again[c]

(* PrintStats has added what it is about to clear, and a thread is about   *)
(* to store one more than what is there.                                   *)
PrintInv ==
    /\ added # NULL => /\ print \in Used
                       /\ main \in {"print", "exit", "crash"} \/ pc[0] = "print"
    /\ ~raced => \A c \in Cores : pc[c] = "store" => loaded[c] = completes[c]

(* The flags of the races. *)
Flags == early \in BOOLEAN /\ raced \in BOOLEAN /\ hit \in BOOLEAN

IInv == /\ TypeInv /\ Flags /\ SpawnInv /\ IdInv /\ SocketInv /\ AgainInv
        /\ PrintInv /\ StatsExact
-----------------------------------------------------------------------------
(* How total connections are distributed. *)
LEMMA Distribution ==
    ASSUME load \in Loads
    PROVE  /\ total \in Nat /\ core_limit \in Nat /\ core_limit <= NUM_CORES
           /\ concurrency \in Nat \ {0} /\ Remainder \in Nat
           /\ core_limit = 0 => total = 0
           /\ core_limit > 0 => /\ total = core_limit * concurrency + Remainder
                                /\ Remainder < core_limit
           /\ Used \subseteq Cores
<1>1. total \in Nat /\ NUM_CORES \in Nat \ {0}
  BY LoadAssumption DEF total
<1>2. core_limit \in Nat /\ core_limit <= NUM_CORES /\ core_limit <= total
  BY <1>1 DEF core_limit
<1>3. core_limit = 0 <=> total = 0
  BY <1>1 DEF core_limit
<1>4. Used \subseteq Cores
  BY <1>1, <1>2 DEF Used, Cores
<1> DEFINE n == core_limit
           t == total
<1>5. n \in Nat /\ t \in Nat /\ n <= t /\ (n = 0 <=> t = 0)
  BY <1>1, <1>2, <1>3
<1>6. concurrency = (IF t > 0 THEN t \div n ELSE 1) /\ Remainder = (IF t > 0 THEN t % n ELSE 0)
  BY DEF concurrency, Remainder
<1> HIDE DEF n, t
<1>7. CASE t = 0
  BY <1>2, <1>3, <1>4, <1>5, <1>6, <1>7 DEF n, t
<1>8. CASE t > 0
  <2>1. /\ t \div n \in Nat /\ t % n \in Nat /\ t % n < n
        /\ t = n * (t \div n) + (t % n)
    BY <1>5, <1>8
  <2>2. t \div n # 0
    BY <1>5, <1>8, <2>1
  <2>3. concurrency = t \div n /\ Remainder = t % n
    BY <1>6, <1>8
  <2>4. total = core_limit * concurrency + Remainder /\ Remainder < core_limit
    BY <2>1, <2>3 DEF n, t
  <2>5. concurrency \in Nat \ {0} /\ Remainder \in Nat
    BY <2>1, <2>2, <2>3
  <2> QED
    BY <1>1, <1>2, <1>3, <1>4, <2>4, <2>5
<1> QED
  BY <1>5, <1>7, <1>8

(* What a core is given: concurrency connections or one more; the last one *)
(* has no more.                                                            *)
LEMMA Shares ==
    ASSUME load \in Loads, NEW c \in Cores
    PROVE  /\ Share(c) \in {concurrency, concurrency + 1}
           /\ Share(c) \in Nat \ {0}
           /\ Share(c) = concurrency + 1 => c < Remainder
           /\ c = core_limit - 1 => Share(c) = concurrency
<1>1. /\ concurrency \in Nat \ {0} /\ Remainder \in Nat /\ core_limit \in Nat
      /\ core_limit > 0 => Remainder < core_limit
      /\ c \in Nat
  BY Distribution, LoadAssumption DEF Cores
<1> QED
  BY <1>1 DEF Share

(* c * w + k with 0 <= k < w determines c and k. *)
LEMMA Positional ==
    ASSUME NEW w \in Nat \ {0}, NEW c \in Nat, NEW d \in Nat,
           NEW k \in 0..(w - 1), NEW j \in 0..(w - 1),
           c * w + k = d * w + j
    PROVE  c = d /\ k = j
<1>1. ASSUME NEW a \in Nat, NEW b \in Nat, a < b PROVE a * w + w <= b * w
  <2>1. PICK e \in Nat : b = a + 1 + e
    <3>1. b - a - 1 \in Nat /\ b = a + 1 + (b - a - 1)
      BY <1>1
    <3> QED
      BY <3>1
  <2>2. b * w = a * w + w + e * w /\ e * w >= 0 /\ a * w \in Int /\ b * w \in Int /\ e * w \in Int
    BY <2>1
  <2> QED
    BY <2>2
<1>2. c * w \in Int /\ d * w \in Int
  OBVIOUS
<1>3. ~(c < d)
  BY <1>1, <1>2
<1>4. ~(d < c)
  BY <1>1, <1>2
<1>5. c = d
  BY <1>3, <1>4
<1> QED
  BY <1>2, <1>5

(* c * w + k lies below n * w. *)
LEMMA PositionalBound ==
    ASSUME NEW w \in Nat \ {0}, NEW n \in Nat, NEW c \in Nat, NEW k \in 0..(w - 1),
           c < n
    PROVE  c * w + k \in 0..(n * w - 1)
<1>1. PICK e \in Nat : n = c + 1 + e
  <2>1. n - c - 1 \in Nat /\ n = c + 1 + (n - c - 1)
    OBVIOUS
  <2> QED
    BY <2>1
<1>2. n * w = c * w + w + e * w /\ e * w >= 0 /\ c * w >= 0
      /\ c * w \in Int /\ n * w \in Int /\ e * w \in Int
  BY <1>1
<1> QED
  BY <1>2

(* The numbers are distinct, and the first total ones. *)
LEMMA Numbers ==
    ASSUME load \in Loads,
           NEW c \in Cores, NEW d \in Cores, NEW k \in Nat \ {0}, NEW j \in Nat \ {0},
           c < core_limit, k <= Share(c), d < core_limit, j <= Share(d)
    PROVE  /\ Number(c, k) \in 0..(total - 1)
           /\ c # d \/ k # j => Number(c, k) # Number(d, j)
<1> DEFINE w == concurrency
           n == core_limit
           r == Remainder
<1>1. /\ w \in Nat \ {0} /\ n \in Nat /\ r \in Nat /\ total = n * w + r /\ c \in Nat /\ d \in Nat
      /\ n * w \in Nat
  BY Distribution, LoadAssumption DEF Cores
<1>2. /\ k <= w + 1 /\ (k = w + 1 => c < r)
      /\ j <= w + 1 /\ (j = w + 1 => d < r)
  BY <1>1, Shares
<1>3. /\ Number(c, k) = IF k <= w THEN c * w + (k - 1) ELSE n * w + c
      /\ Number(d, j) = IF j <= w THEN d * w + (j - 1) ELSE n * w + d
  <2>1. c * w \in Int /\ d * w \in Int
    BY <1>1
  <2> QED
    BY <1>1, <2>1 DEF Number
<1>4. c < n /\ d < n
  OBVIOUS
<1> HIDE DEF w, n, r
<1>5. k <= w => k - 1 \in 0..(w - 1) /\ Number(c, k) \in 0..(n * w - 1)
  BY <1>1, <1>3, <1>4, PositionalBound
<1>6. j <= w => j - 1 \in 0..(w - 1) /\ Number(d, j) \in 0..(n * w - 1)
  BY <1>1, <1>3, <1>4, PositionalBound
<1>7. k > w => Number(c, k) = n * w + c /\ c < r /\ k = w + 1
  BY <1>1, <1>2, <1>3
<1>8. j > w => Number(d, j) = n * w + d /\ d < r /\ j = w + 1
  BY <1>1, <1>2, <1>3
<1>9. Number(c, k) \in 0..(total - 1)
  BY <1>1, <1>5, <1>7
<1>10. ASSUME Number(c, k) = Number(d, j) PROVE c = d /\ k = j
  <2>1. CASE k <= w /\ j <= w
    <3>1. c * w + (k - 1) = d * w + (j - 1)
      BY <1>3, <1>10, <2>1
    <3>2. c = d /\ k - 1 = j - 1
      BY <1>1, <1>5, <1>6, <2>1, <3>1, Positional
    <3> QED
      BY <3>2
  <2>2. CASE k <= w /\ j > w
    BY <1>1, <1>5, <1>8, <1>10, <2>2
  <2>3. CASE k > w /\ j <= w
    BY <1>1, <1>6, <1>7, <1>10, <2>3
  <2>4. CASE k > w /\ j > w
    BY <1>1, <1>7, <1>8, <1>10, <2>4
  <2> QED
    BY <1>1, <2>1, <2>2, <2>3, <2>4
<1> QED
  BY <1>9, <1>10
-----------------------------------------------------------------------------
(* g holds the sums of f over the cores before n, for each n. *)
PartialSums(f, g) ==
    g = [n \in 0..NUM_CORES |-> IF n = 0 THEN 0 ELSE g[n - 1] + f[n - 1]]

(* The n up to which f has partial sums. *)
Summed(f) == {n \in Nat : \E g \in [0..n -> Int] :
                 \A i \in 0..n : g[i] = IF i = 0 THEN 0 ELSE g[i - 1] + f[i - 1]}

(* A set of naturals that has 0 and with n, below m, also n + 1 has all up *)
(* to m.                                                                   *)
LEMMA UpTo ==
    ASSUME NEW m \in Nat, NEW S, 0 \in S,
           \A n \in 0..(m - 1) : n \in S => n + 1 \in S
    PROVE  0..m \subseteq S
<1> DEFINE less == OpToRel(<, Nat)
           bad == (0..m) \ S
<1>1. IsWellFoundedOn(less, Nat)
  BY NatLessThanWellFounded
<1>2. \A x, y \in Nat : <<y, x>> \notin less => x <= y
  BY DEF OpToRel
<1>3. bad \subseteq Nat
  OBVIOUS
<1>4. SUFFICES ASSUME bad # {} PROVE FALSE
  OBVIOUS
<1> HIDE DEF less, bad
<1>5. PICK x \in bad : \A y \in bad : <<y, x>> \notin less
  BY <1>1, <1>3, <1>4, WFMin
<1>6. \A y \in bad : x <= y
  BY <1>2, <1>3, <1>5
<1>7. x \in 0..m /\ x \notin S /\ x # 0
  BY DEF bad
<1>8. x - 1 \in 0..(m - 1) /\ x - 1 \in 0..m
  BY <1>7
<1>9. x - 1 \in S
  BY <1>6, <1>8 DEF bad
<1> QED
  BY <1>7, <1>8, <1>9

(* Every f has partial sums. *)
LEMMA SumsExist ==
    ASSUME NEW f \in [Cores -> Int]
    PROVE  \E g : PartialSums(f, g)
<1>1. NUM_CORES \in Nat /\ \A i \in 1..NUM_CORES : i - 1 \in Cores /\ f[i - 1] \in Int
  BY LoadAssumption DEF Cores
<1>2. 0 \in Summed(f)
  <2> DEFINE g == [i \in 0..0 |-> 0]
  <2>1. g \in [0..0 -> Int] /\ \A i \in 0..0 : g[i] = IF i = 0 THEN 0 ELSE g[i - 1] + f[i - 1]
    OBVIOUS
  <2> QED
    BY <2>1 DEF Summed
<1>3. ASSUME NEW n \in 0..(NUM_CORES - 1), n \in Summed(f) PROVE n + 1 \in Summed(f)
  <2>1. PICK g \in [0..n -> Int] :
           \A i \in 0..n : g[i] = IF i = 0 THEN 0 ELSE g[i - 1] + f[i - 1]
    BY <1>3 DEF Summed
  <2> DEFINE h == [i \in 0..(n + 1) |-> IF i = n + 1 THEN g[n] + f[n] ELSE g[i]]
  <2>2. f[n] \in Int /\ n \in Nat
    BY <1>1 DEF Cores
  <2>3. h \in [0..(n + 1) -> Int]
    BY <2>2
  <2>4. \A i \in 0..(n + 1) : h[i] = IF i = 0 THEN 0 ELSE h[i - 1] + f[i - 1]
    BY <2>1, <2>2
  <2> HIDE DEF h
  <2>5. \E x \in [0..(n + 1) -> Int] :
           \A i \in 0..(n + 1) : x[i] = IF i = 0 THEN 0 ELSE x[i - 1] + f[i - 1]
    BY <2>3, <2>4, Zenon
  <2>6. n + 1 \in Nat
    BY <2>2
  <2> QED
    BY <2>5, <2>6, Zenon DEF Summed
<1>4. NUM_CORES \in Summed(f)
  <2>1. 0..NUM_CORES \subseteq Summed(f)
    BY <1>1, <1>2, <1>3, UpTo
  <2> QED
    BY <1>1, <2>1
<1>5. PICK g \in [0..NUM_CORES -> Int] :
         \A i \in 0..NUM_CORES : g[i] = IF i = 0 THEN 0 ELSE g[i - 1] + f[i - 1]
  BY <1>4 DEF Summed
<1>6. PartialSums(f, g)
  BY <1>1, <1>5 DEF PartialSums
<1> QED
  BY <1>6

(* SumOver(f) is the last of the partial sums. *)
LEMMA SumFacts ==
    ASSUME NEW f \in [Cores -> Int]
    PROVE  \E g \in [0..NUM_CORES -> Int] :
              /\ g[0] = 0
              /\ \A i \in Cores : g[i + 1] = g[i] + f[i]
              /\ SumOver(f) = g[NUM_CORES]
<1> DEFINE G == CHOOSE g : PartialSums(f, g)
<1>1. PartialSums(f, G)
  BY SumsExist
<1>2. SumOver(f) = G[NUM_CORES]
  BY DEF SumOver, PartialSums
<1> HIDE DEF G
<1>3. NUM_CORES \in Nat \ {0}
  BY LoadAssumption
<1>4. \A i \in 0..NUM_CORES : G[i] = IF i = 0 THEN 0 ELSE G[i - 1] + f[i - 1]
  BY <1>1, Zenon DEF PartialSums
<1>5. G[0] = 0
  BY <1>3, <1>4
<1>6. \A i \in Cores : i \in 0..NUM_CORES /\ i + 1 \in 0..NUM_CORES /\ i + 1 # 0 /\ i + 1 - 1 = i
  BY <1>3 DEF Cores
<1>7. \A i \in Cores : G[i + 1] = G[i] + f[i]
  BY <1>4, <1>6
<1>8. \A i \in 0..NUM_CORES : G[i] \in Int
  <2> DEFINE S == {i \in 0..NUM_CORES : G[i] \in Int}
  <2>1. 0 \in S
    BY <1>3, <1>5
  <2>2. \A i \in 0..(NUM_CORES - 1) : i \in S => i + 1 \in S
    BY <1>6, <1>7 DEF Cores
  <2> HIDE DEF S
  <2>3. 0..NUM_CORES \subseteq S
    BY <1>3, <2>1, <2>2, UpTo
  <2> QED
    BY <2>3 DEF S
<1>9. G \in [0..NUM_CORES -> Int]
  <2>1. DOMAIN G = 0..NUM_CORES /\ G = [n \in 0..NUM_CORES |-> G[n]]
    BY <1>1, Zenon DEF PartialSums
  <2> QED
    BY <1>8, <2>1
<1> QED
  BY <1>2, <1>5, <1>7, <1>9

(* A sum of zeros. *)
LEMMA SumZero ==
    SumOver([c \in Cores |-> 0]) = 0
<1> DEFINE f == [c \in Cores |-> 0]
<1>0. NUM_CORES \in Nat
  BY LoadAssumption
<1>1. f \in [Cores -> Int] /\ \A i \in Cores : f[i] = 0
  OBVIOUS
<1> HIDE DEF f
<1>2. PICK g \in [0..NUM_CORES -> Int] : /\ g[0] = 0
                                         /\ \A i \in Cores : g[i + 1] = g[i] + f[i]
                                         /\ SumOver(f) = g[NUM_CORES]
  BY <1>1, SumFacts
<1> DEFINE S == {i \in Nat : g[i] = 0}
<1>3. 0 \in S
  BY <1>2
<1>4. \A i \in 0..(NUM_CORES - 1) : i \in S => i + 1 \in S
  BY <1>1, <1>2 DEF Cores
<1> HIDE DEF S
<1>5. 0..NUM_CORES \subseteq S
  BY <1>0, <1>3, <1>4, UpTo
<1> QED
  BY <1>0, <1>2, <1>5 DEF S, f

(* A sum after one of its terms has changed. *)
LEMMA SumUpdate ==
    ASSUME NEW f \in [Cores -> Int], NEW c \in Cores, NEW v \in Int
    PROVE  /\ SumOver(f) \in Int
           /\ SumOver([f EXCEPT ![c] = v]) = SumOver(f) - f[c] + v
<1> DEFINE e == [f EXCEPT ![c] = v]
<1>0. NUM_CORES \in Nat \ {0} /\ c \in 0..(NUM_CORES - 1)
  BY LoadAssumption DEF Cores
<1>1. e \in [Cores -> Int] /\ e[c] = v /\ \A i \in Cores : i # c => e[i] = f[i]
  OBVIOUS
<1> HIDE DEF e
<1>2. PICK g \in [0..NUM_CORES -> Int] : /\ g[0] = 0
                                         /\ \A i \in Cores : g[i + 1] = g[i] + f[i]
                                         /\ SumOver(f) = g[NUM_CORES]
  BY SumFacts
<1>3. PICK h \in [0..NUM_CORES -> Int] : /\ h[0] = 0
                                         /\ \A i \in Cores : h[i + 1] = h[i] + e[i]
                                         /\ SumOver(e) = h[NUM_CORES]
  BY <1>1, SumFacts
<1> DEFINE S == {i \in Nat : h[i] = IF i <= c THEN g[i] ELSE g[i] - f[c] + v}
<1>4. 0 \in S
  BY <1>0, <1>2, <1>3
<1>5. ASSUME NEW i \in 0..(NUM_CORES - 1), i \in S PROVE i + 1 \in S
  <2>1. i \in Cores /\ i \in Nat /\ c \in Nat /\ f[i] \in Int /\ f[c] \in Int
    BY <1>0 DEF Cores
  <2>2. g[i + 1] = g[i] + f[i] /\ h[i + 1] = h[i] + e[i]
    BY <1>2, <1>3, <2>1
  <2>3. g[i] \in Int /\ h[i] \in Int
    BY <1>0
  <2>4. h[i] = IF i <= c THEN g[i] ELSE g[i] - f[c] + v
    BY <1>5
  <2>5. h[i + 1] = IF i + 1 <= c THEN g[i + 1] ELSE g[i + 1] - f[c] + v
    <3>1. CASE i < c
      BY <1>1, <2>1, <2>2, <2>3, <2>4, <3>1
    <3>2. CASE i = c
      BY <1>1, <2>1, <2>2, <2>3, <2>4, <3>2
    <3>3. CASE i > c
      BY <1>1, <2>1, <2>2, <2>3, <2>4, <3>3
    <3> QED
      BY <2>1, <3>1, <3>2, <3>3
  <2> QED
    BY <2>1, <2>5
<1> HIDE DEF S
<1>6. 0..NUM_CORES \subseteq S
  BY <1>0, <1>4, <1>5, UpTo
<1>7. NUM_CORES \in S
  BY <1>0, <1>6
<1>8. h[NUM_CORES] = g[NUM_CORES] - f[c] + v
  BY <1>0, <1>7 DEF S
<1>9. g[NUM_CORES] \in Int
  BY <1>0
<1> QED
  BY <1>2, <1>3, <1>8, <1>9 DEF e
-----------------------------------------------------------------------------
(* The kernel's choice, the lowest descriptor that is free. *)
LEMMA LowestFree ==
    ASSUME Fds \ open # {}
    PROVE  Min(Fds \ open) \in Fds \ open
<1> DEFINE less == OpToRel(<, Nat)
           free == Fds \ open
<1>1. free \subseteq Nat
  BY LoadAssumption
<1>2. IsWellFoundedOn(less, Nat)
  BY NatLessThanWellFounded
<1>3. \A x, y \in Nat : <<y, x>> \notin less => x <= y
  BY DEF OpToRel
<1> HIDE DEF less, free
<1>4. free # {}
  BY DEF free
<1>5. PICK x \in free : \A y \in free : <<y, x>> \notin less
  BY <1>1, <1>2, <1>4, WFMin
<1>6. \A y \in free : x <= y
  BY <1>1, <1>3, <1>5
<1>7. Min(free) \in free
  BY <1>6 DEF Min
<1> QED
  BY <1>7 DEF free
-----------------------------------------------------------------------------
(* A step after which every connection is there as before, but the one     *)
(* that had socket f is closed; f is NULL if none is.  After a hit nothing *)
(* is said of the sockets.                                                 *)
Closes(f) ==
    /\ conn' \in [Cores -> Seq(Conn)] /\ reg' \in [Cores -> [Fds -> Nat]]
    /\ hit' \in BOOLEAN /\ (hit => hit')
    /\ open' = open \ {f}
    /\ \A c \in Cores : Len(conn'[c]) = Len(conn[c])
    /\ \A c \in Cores : \A k \in DOMAIN conn[c] :
          /\ conn'[c][k].id = conn[c][k].id
          /\ conn'[c][k].state = "closed" => conn'[c][k].fd = NULL
    /\ ~hit' => \A c \in Cores : \A k \in DOMAIN conn[c] :
          /\ Live(conn'[c][k]) <=> (Live(conn[c][k]) /\ conn[c][k].fd # f)
          /\ Live(conn'[c][k]) => conn'[c][k].fd = conn[c][k].fd
    /\ ~hit' => \A c \in Cores : \A g \in Fds :
          reg'[c][g] = IF g = f THEN 0 ELSE reg[c][g]

(* The connections of a core are a sequence. *)
LEMMA ConnFacts ==
    ASSUME conn \in [Cores -> Seq(Conn)]
    PROVE  \A c \in Cores : /\ conn[c] \in Seq(Conn) /\ Len(conn[c]) \in Nat
                            /\ DOMAIN conn[c] = 1..Len(conn[c])
                            /\ \A k \in DOMAIN conn[c] : conn[c][k] \in Conn
<1>1. \A c \in Cores : conn[c] \in Seq(Conn)
  OBVIOUS
<1> QED
  BY <1>1

(* A step that closes keeps the connections of each core. *)
LEMMA SameDomain ==
    ASSUME conn \in [Cores -> Seq(Conn)], NEW f, Closes(f), NEW c \in Cores
    PROVE  DOMAIN conn'[c] = DOMAIN conn[c]
<1>1. conn[c] \in Seq(Conn) /\ conn'[c] \in Seq(Conn) /\ Len(conn'[c]) = Len(conn[c])
  BY DEF Closes
<1> QED
  BY <1>1

(* Without a hit the socket of a connection that is not closed is one. *)
LEMMA LiveFd ==
    ASSUME IInv, ~hit
    PROVE  \A c \in Cores : \A k \in DOMAIN conn[c] :
              Live(conn[c][k]) => conn[c][k].fd \in open /\ conn[c][k].fd # NULL
<1>1. NULL \notin open
  BY LoadAssumption DEF IInv, TypeInv
<1> QED
  BY <1>1 DEF IInv, SocketInv, Owned

(* What closes a descriptor for the one that had it keeps numbers and      *)
(* sockets.                                                                *)
LEMMA AfterClose ==
    ASSUME IInv, NEW f, Closes(f), UNCHANGED <<load, early>>
    PROVE  IdInv' /\ SocketInv' /\ open' \subseteq Fds
<1>1. \A c \in Cores : DOMAIN conn'[c] = DOMAIN conn[c]
  BY SameDomain DEF IInv, TypeInv
<1>2. /\ load' = load /\ early' = early
      /\ open' = open \ {f} /\ open \subseteq Fds
      /\ \A c \in Cores : \A k \in DOMAIN conn[c] :
          /\ conn'[c][k].id = conn[c][k].id
          /\ conn'[c][k].state = "closed" => conn'[c][k].fd = NULL
  BY DEF Closes, IInv, TypeInv
<1>3. \A c, k : Number(c, k)' = Number(c, k)
  BY <1>2 DEF Number, concurrency, core_limit, total
<1>4. IdInv'
  BY <1>1, <1>2, <1>3 DEF IInv, IdInv
<1>5. ASSUME ~hit' PROVE Owned' /\ Registered'
  <2>1. ~hit /\ \A c \in Cores : \A k \in DOMAIN conn[c] :
          /\ Live(conn'[c][k]) <=> (Live(conn[c][k]) /\ conn[c][k].fd # f)
          /\ Live(conn'[c][k]) => conn'[c][k].fd = conn[c][k].fd
    BY <1>5 DEF Closes
  <2>2. /\ \A c \in Cores : \A k \in DOMAIN conn[c] :
            Live(conn[c][k]) => conn[c][k].fd \in open
        /\ \A g \in open : \E c \in Cores : \E k \in DOMAIN conn[c] :
            Live(conn[c][k]) /\ conn[c][k].fd = g
        /\ \A c, d \in Cores : \A k \in DOMAIN conn[c] : \A j \in DOMAIN conn[d] :
            (c # d \/ k # j) /\ Live(conn[c][k]) /\ Live(conn[d][j])
               => conn[c][k].fd # conn[d][j].fd
    BY <2>1 DEF IInv, SocketInv, Owned
  <2>3. \A c \in Cores : \A k \in DOMAIN conn'[c] :
           Live(conn'[c][k]) => conn'[c][k].fd \in open'
    BY <1>1, <1>2, <2>1, <2>2
  <2>4. \A g \in open' : \E c \in Cores : \E k \in DOMAIN conn'[c] :
           Live(conn'[c][k]) /\ conn'[c][k].fd = g
    <3> TAKE g \in open'
    <3>1. g \in open /\ g # f
      BY <1>2
    <3>2. PICK c \in Cores : \E k \in DOMAIN conn[c] : Live(conn[c][k]) /\ conn[c][k].fd = g
      BY <2>2, <3>1
    <3>3. PICK k \in DOMAIN conn[c] : Live(conn[c][k]) /\ conn[c][k].fd = g
      BY <3>2
    <3>4. k \in DOMAIN conn'[c] /\ Live(conn'[c][k]) /\ conn'[c][k].fd = g
      BY <1>1, <2>1, <3>1, <3>3
    <3> QED
      BY <3>4
  <2>5. \A c, d \in Cores : \A k \in DOMAIN conn'[c] : \A j \in DOMAIN conn'[d] :
            (c # d \/ k # j) /\ Live(conn'[c][k]) /\ Live(conn'[d][j])
               => conn'[c][k].fd # conn'[d][j].fd
    BY <1>1, <2>1, <2>2
  <2>6. Owned'
    BY <2>3, <2>4, <2>5 DEF Owned, Live
  <2>7. ASSUME NEW c \in Cores, NEW g \in Fds
        PROVE  /\ reg'[c][g] \in {0} \cup DOMAIN conn'[c]
               /\ \A k \in DOMAIN conn'[c] :
                     reg'[c][g] = k <=> Live(conn'[c][k]) /\ conn'[c][k].fd = g
    <3>1. /\ reg[c][g] \in {0} \cup DOMAIN conn[c]
          /\ \A k \in DOMAIN conn[c] :
                reg[c][g] = k <=> Live(conn[c][k]) /\ conn[c][k].fd = g
      BY <2>1 DEF IInv, SocketInv, Registered
    <3>2. reg'[c][g] = IF g = f THEN 0 ELSE reg[c][g]
      BY <1>5 DEF Closes
    <3>3. 0 \notin DOMAIN conn[c]
      BY ConnFacts DEF IInv, TypeInv
    <3>4. CASE g = f
      BY <1>1, <2>1, <3>2, <3>3, <3>4
    <3>5. CASE g # f
      BY <1>1, <2>1, <3>1, <3>2, <3>5
    <3> QED
      BY <3>4, <3>5
  <2>8. Registered'
    BY <2>7 DEF Registered, Live
  <2> QED
    BY <2>6, <2>8
<1>6. SocketInv'
  BY <1>1, <1>2, <1>5 DEF SocketInv
<1> QED
  BY <1>2, <1>4, <1>6

(* Steps that leave the connections alone ... *)
LEMMA NoneTouched ==
    ASSUME IInv, UNCHANGED <<conn, open, reg, hit>>
    PROVE  Closes(NULL)
<1>1. conn' = conn /\ open' = open /\ reg' = reg /\ hit' = hit /\ NULL \notin open /\ NULL \notin Fds
  BY LoadAssumption DEF IInv, TypeInv
<1>2. ~hit => \A c \in Cores : \A k \in DOMAIN conn[c] :
         Live(conn[c][k]) => conn[c][k].fd # NULL
  BY LiveFd
<1>3. /\ conn \in [Cores -> Seq(Conn)] /\ reg \in [Cores -> [Fds -> Nat]] /\ hit \in BOOLEAN
      /\ \A c \in Cores : \A k \in DOMAIN conn[c] :
            conn[c][k].state = "closed" => conn[c][k].fd = NULL
  BY DEF IInv, TypeInv, Flags, SocketInv
<1> QED
  BY <1>1, <1>2, <1>3 DEF Closes, Live

(* One connection of core c is changed. *)
LEMMA OneChanged ==
    ASSUME IInv, NEW c \in Cores, NEW k \in DOMAIN conn[c], NEW r \in Conn,
           conn' = [conn EXCEPT ![c] = [conn[c] EXCEPT ![k] = r]]
    PROVE  /\ conn' \in [Cores -> Seq(Conn)]
           /\ \A d \in Cores : Len(conn'[d]) = Len(conn[d])
           /\ conn'[c][k] = r
           /\ \A d \in Cores : \A j \in DOMAIN conn[d] :
                 d # c \/ j # k => conn'[d][j] = conn[d][j]
<1>1. /\ conn \in [Cores -> Seq(Conn)] /\ conn[c] \in Seq(Conn)
      /\ k \in 1..Len(conn[c])
  BY ConnFacts DEF IInv, TypeInv
<1>2. /\ [conn[c] EXCEPT ![k] = r] \in Seq(Conn)
      /\ Len([conn[c] EXCEPT ![k] = r]) = Len(conn[c])
  BY <1>1, ExceptSeq
<1>3. /\ conn' \in [Cores -> Seq(Conn)]
      /\ conn'[c] = [conn[c] EXCEPT ![k] = r]
      /\ \A d \in Cores : d # c => conn'[d] = conn[d]
  BY <1>1, <1>2
<1>4. conn'[c][k] = r /\ \A j \in DOMAIN conn[c] : j # k => conn'[c][j] = conn[c][j]
  BY <1>3
<1> QED
  BY <1>2, <1>3, <1>4

(* ... or change one of them, but not its socket. *)
LEMMA OneTouched ==
    ASSUME IInv, open' = open, hit' = hit, reg' \in [Cores -> [Fds -> Nat]],
           ~hit => \A d \in Cores : \A g \in Fds : reg'[d][g] = reg[d][g],
           NEW c \in Cores, NEW k \in DOMAIN conn[c], NEW r \in Conn,
           conn' = [conn EXCEPT ![c] = [conn[c] EXCEPT ![k] = r]],
           r.id = conn[c][k].id, r.fd = conn[c][k].fd, Live(r), Live(conn[c][k])
    PROVE  Closes(NULL)
<1>1. open' = open \ {NULL} /\ NULL \notin Fds /\ hit \in BOOLEAN
  BY LoadAssumption DEF IInv, TypeInv, Flags
<1>2. ~hit => \A d \in Cores : \A j \in DOMAIN conn[d] :
         Live(conn[d][j]) => conn[d][j].fd # NULL
  BY LiveFd
<1>3. /\ conn' \in [Cores -> Seq(Conn)]
      /\ \A d \in Cores : Len(conn'[d]) = Len(conn[d])
      /\ conn'[c][k] = r
      /\ \A d \in Cores : \A j \in DOMAIN conn[d] :
            d # c \/ j # k => conn'[d][j] = conn[d][j]
  BY OneChanged
<1>4. \A d \in Cores : \A j \in DOMAIN conn[d] :
         conn[d][j].state = "closed" => conn[d][j].fd = NULL
  BY DEF IInv, SocketInv
<1>5. ASSUME NEW d \in Cores, NEW j \in DOMAIN conn[d]
      PROVE  /\ conn'[d][j].id = conn[d][j].id
             /\ conn'[d][j].state = "closed" => conn'[d][j].fd = NULL
             /\ Live(conn'[d][j]) <=> Live(conn[d][j])
             /\ conn'[d][j].fd = conn[d][j].fd
  <2>1. CASE d = c /\ j = k
    BY <1>3, <2>1 DEF Live
  <2>2. CASE ~(d = c /\ j = k)
    BY <1>3, <1>4, <2>2
  <2> QED
    BY <2>1, <2>2
<1> QED
  BY <1>1, <1>2, <1>3, <1>5 DEF Closes

(* No epoll has descriptor f. *)
LEMMA UnregisteredFacts ==
    ASSUME IInv, NEW f
    PROVE  /\ Unregistered(f) \in [Cores -> [Fds -> Nat]]
           /\ \A c \in Cores : \A g \in Fds :
                 Unregistered(f)[c][g] = IF g = f THEN 0 ELSE reg[c][g]
<1>1. \A c \in Cores : reg[c] \in [Fds -> Nat]
  BY DEF IInv, TypeInv
<1>2. \A c \in Cores : /\ [reg[c] EXCEPT ![f] = 0] \in [Fds -> Nat]
                       /\ \A g \in Fds : [reg[c] EXCEPT ![f] = 0][g] = IF g = f THEN 0 ELSE reg[c][g]
  BY <1>1
<1> QED
  BY <1>2 DEF Unregistered

(* CloseConnection closes its socket ... *)
LEMMA CloseConnectionCloses ==
    ASSUME IInv, NEW c \in Cores, NEW k \in DOMAIN conn[c], CloseConnection(c, k), hit' = hit
    PROVE  Closes(conn[c][k].fd)
<1> DEFINE y == conn[c][k]
           f == y.fd
           r == [y EXCEPT !.fd = NULL, !.state = "closed", !.out = FALSE,
                          !.count = 0, !.queued = 0]
<1>1. /\ conn' = [conn EXCEPT ![c] = [conn[c] EXCEPT ![k] = r]]
      /\ open' = open \ {f} /\ reg' = Unregistered(f)
  <2>1. conn \in [Cores -> Seq(Conn)] /\ k \in DOMAIN conn[c]
    BY DEF IInv, TypeInv
  <2> QED
    BY <2>1 DEF CloseConnection, OpenAfter
<1>2. y \in Conn
  BY ConnFacts DEF IInv, TypeInv
<1>3. /\ reg' \in [Cores -> [Fds -> Nat]]
      /\ \A d \in Cores : \A g \in Fds : reg'[d][g] = IF g = f THEN 0 ELSE reg[d][g]
  BY <1>1, UnregisteredFacts
<1> HIDE DEF y, f
<1>4. r \in Conn /\ r.id = y.id /\ r.state = "closed" /\ r.fd = NULL
  <2>1. r \in Conn
    <3> DEFINE I == Int
               z == 0
    <3>1. z \in I /\ Conn = [id : I, fd : Fds \cup {NULL}, state : States, out : BOOLEAN,
                             count : I, queued : I]
      BY DEF Conn
    <3> HIDE DEF I, z
    <3>2. [y EXCEPT !.fd = NULL, !.state = "closed", !.out = FALSE,
                    !.count = z, !.queued = z] \in Conn
      BY <1>2, <3>1 DEF States
    <3> QED
      BY <3>2 DEF z
  <2> QED
    BY <1>2, <2>1 DEF Conn
<1> HIDE DEF r
<1>5. /\ conn' \in [Cores -> Seq(Conn)]
      /\ \A d \in Cores : Len(conn'[d]) = Len(conn[d])
      /\ conn'[c][k] = r
      /\ \A d \in Cores : \A j \in DOMAIN conn[d] :
            d # c \/ j # k => conn'[d][j] = conn[d][j]
  BY <1>1, <1>4, OneChanged
<1>6. \A d \in Cores : \A j \in DOMAIN conn[d] :
         conn[d][j].state = "closed" => conn[d][j].fd = NULL
  BY DEF IInv, SocketInv
<1>7. ASSUME NEW d \in Cores, NEW j \in DOMAIN conn[d]
      PROVE  /\ conn'[d][j].id = conn[d][j].id
             /\ conn'[d][j].state = "closed" => conn'[d][j].fd = NULL
  <2>1. CASE d = c /\ j = k
    BY <1>4, <1>5, <2>1 DEF y
  <2>2. CASE ~(d = c /\ j = k)
    BY <1>5, <1>6, <2>2
  <2> QED
    BY <2>1, <2>2
<1>8. ASSUME ~hit', NEW d \in Cores, NEW j \in DOMAIN conn[d]
      PROVE  /\ Live(conn'[d][j]) <=> (Live(conn[d][j]) /\ conn[d][j].fd # f)
             /\ Live(conn'[d][j]) => conn'[d][j].fd = conn[d][j].fd
  <2>1. CASE d = c /\ j = k
    BY <1>4, <1>5, <2>1 DEF y, f, Live
  <2>2. CASE ~(d = c /\ j = k)
    <3>1. conn'[d][j] = conn[d][j]
      BY <1>5, <2>2
    <3>2. Live(conn[d][j]) => conn[d][j].fd # f
      <4>1. CASE Live(conn[c][k])
        BY <1>8, <2>2, <4>1 DEF IInv, SocketInv, Owned, y, f
      <4>2. CASE ~Live(conn[c][k])
        <5>1. f = NULL
          BY <1>6, <4>2 DEF Live, y, f
        <5>2. Live(conn[d][j]) => conn[d][j].fd # NULL
          BY <1>8, LiveFd
        <5> QED
          BY <5>1, <5>2
      <4> QED
        BY <4>1, <4>2
    <3> QED
      BY <3>1, <3>2
  <2> QED
    BY <2>1, <2>2
<1>9. hit' \in BOOLEAN /\ (hit => hit')
  BY DEF IInv, Flags
<1>10. Closes(f)
  BY <1>1, <1>3, <1>5, <1>7, <1>8, <1>9 DEF Closes
<1> QED
  BY <1>10 DEF f, y

(* ... and a second close closes none, unless it is a hit. *)
LEMMA CloseAgainCloses ==
    ASSUME IInv, NEW f, conn' = conn, open' = open \ {f}, reg' = Unregistered(f),
           hit' = (hit \/ f \in open)
    PROVE  Closes(f)
<1>1. /\ reg' \in [Cores -> [Fds -> Nat]]
      /\ \A d \in Cores : \A g \in Fds : reg'[d][g] = IF g = f THEN 0 ELSE reg[d][g]
  BY UnregisteredFacts
<1>2. /\ conn \in [Cores -> Seq(Conn)] /\ hit \in BOOLEAN
      /\ \A d \in Cores : \A j \in DOMAIN conn[d] :
            conn[d][j].state = "closed" => conn[d][j].fd = NULL
  BY DEF IInv, TypeInv, Flags, SocketInv
<1>3. ASSUME ~hit', NEW d \in Cores, NEW j \in DOMAIN conn[d], Live(conn[d][j])
      PROVE  conn[d][j].fd # f
  <2>1. ~hit /\ f \notin open
    BY <1>3
  <2> QED
    BY <1>3, <2>1, LiveFd
<1> QED
  BY <1>1, <1>2, <1>3 DEF Closes, Live
-----------------------------------------------------------------------------
(* What is fixed with load. *)
LEMMA SameLoad ==
    ASSUME load' = load
    PROVE  /\ core_limit' = core_limit /\ Used' = Used /\ concurrency' = concurrency
           /\ total' = total /\ tool' = tool
           /\ \A c : Share(c)' = Share(c)
           /\ \A c, k : Number(c, k)' = Number(c, k)
  BY DEF core_limit, Used, concurrency, total, tool, Share, Remainder, Number

(* When main prints, all threads have ended. *)
LEMMA NotPrinting ==
    ASSUME IInv, NEW c \in Cores, pc[c] \notin {"none", "ended"}
    PROVE  main # "print" /\ c \in Used
<1>1. c < next_core /\ next_core \in 0..core_limit /\ core_limit \in Nat /\ c \in Nat
  BY Distribution, LoadAssumption DEF IInv, SpawnInv, TypeInv, Cores
<1>2. c \in Used
  BY <1>1 DEF Used
<1> QED
  BY <1>2 DEF IInv, SpawnInv, AllEnded

(* A step of thread c. *)
LEMMA ThreadMoves ==
    ASSUME IInv, NEW c \in Cores, NEW to \in Points, to # "none", NEW f,
           Alive, pc[c] \notin {"none", "ended", "print"},
           pc' = [pc EXCEPT ![c] = to],
           to = "connect" => started[c] < concurs[c],
           Closes(f),
           hit' => hit \/ (tool = "epsub" /\ core_limit > 1),
           to = "reclose" => tool = "epsub" /\ again'[c] = f,
           again' \in [Cores -> Fds \cup {NULL}],
           \A d \in Cores : d # c => again'[d] = again[d],
           completes' \in [Cores -> Nat], loaded' \in [Cores -> Nat],
           \A d \in Cores : d # c => loaded'[d] = loaded[d] /\ completes'[d] = completes[d],
           to = "store" => loaded'[c] = completes'[c],
           counted' \in Nat, StatsExact',
           print' = print \/ (c = 0 /\ print' = 0),
           UNCHANGED <<load, mainVars, started, acc, added, raced, early>>
    PROVE  IInv'
<1>0. /\ load' = load /\ main' = main /\ next_core' = next_core /\ concurs' = concurs
      /\ started' = started /\ acc' = acc /\ added' = added /\ raced' = raced
      /\ early' = early
  BY DEF mainVars
<1>1. IdInv' /\ SocketInv' /\ open' \subseteq Fds
  BY <1>0, AfterClose
<1>2. /\ pc' \in [Cores -> Points] /\ pc'[c] = to
      /\ \A d \in Cores : d # c => pc'[d] = pc[d]
  BY DEF IInv, TypeInv
<1>3. TypeInv'
  <2>1. print' \in Nat \cup {NULL}
    BY DEF IInv, TypeInv
  <2> QED
    BY <1>0, <1>1, <1>2, <2>1 DEF IInv, TypeInv, Closes
<1>4. main # "print" /\ c \in Used
  BY NotPrinting
<1>5. SpawnInv'
  <2>1. \A d \in Cores : Len(conn'[d]) = Len(conn[d])
    BY DEF Closes
  <2>2. core_limit' = core_limit /\ \A d \in Cores : Share(d)' = Share(d)
    BY <1>0, SameLoad
  <2>3. /\ next_core \in 0..core_limit
        /\ \A d \in Cores :
              /\ concurs[d] = IF d < next_core THEN Share(d) ELSE 0
              /\ pc[d] # "none" => d < next_core
              /\ Len(conn[d]) = started[d] /\ started[d] <= concurs[d]
              /\ pc[d] = "connect" => started[d] < concurs[d]
        /\ main \in {"join", "print"} => next_core = core_limit
    BY DEF IInv, SpawnInv
  <2>4. \A d \in Cores : /\ pc'[d] # "none" => d < next_core
                         /\ pc'[d] = "connect" => started[d] < concurs[d]
    BY <1>2, <2>3
  <2> QED
    BY <1>0, <1>4, <2>1, <2>2, <2>3, <2>4 DEF SpawnInv
<1>6. PrintInv'
  <2>1. /\ added # NULL => /\ print \in Used
                           /\ main \in {"print", "exit", "crash"} \/ pc[0] = "print"
        /\ ~raced => \A d \in Cores : pc[d] = "store" => loaded[d] = completes[d]
    BY DEF IInv, PrintInv
  <2>2. added # NULL => pc[0] = "print" /\ c # 0
    BY <1>4, <2>1 DEF Alive
  <2>3. 0 \in Cores
    BY LoadAssumption DEF Cores
  <2>4. Used' = Used
    BY <1>0, SameLoad
  <2>5. added' # NULL => /\ print' \in Used'
                         /\ main' \in {"print", "exit", "crash"} \/ pc'[0] = "print"
    BY <1>0, <1>2, <2>1, <2>2, <2>3, <2>4
  <2>6. ~raced' => \A d \in Cores : pc'[d] = "store" => loaded'[d] = completes'[d]
    BY <1>0, <1>2, <2>1
  <2> QED
    BY <2>5, <2>6 DEF PrintInv
<1>7. Flags'
  BY <1>0 DEF IInv, Flags, Closes
<1>8. AgainInv'
  <2>1. tool' = tool /\ core_limit' = core_limit
    BY <1>0, SameLoad
  <2>2. hit' => tool = "epsub" /\ core_limit > 1
    BY DEF IInv, AgainInv
  <2>3. ASSUME NEW d \in Cores, pc'[d] = "reclose"
        PROVE  /\ tool = "epsub"
               /\ hit' \/ \A k \in DOMAIN conn'[d] :
                             Live(conn'[d][k]) => conn'[d][k].fd # again'[d]
    <3>1. DOMAIN conn'[d] = DOMAIN conn[d]
      BY SameDomain DEF IInv, TypeInv
    <3>2. CASE d = c
      <4>1. tool = "epsub" /\ again'[d] = f
        BY <1>2, <2>3, <3>2
      <4>2. ~hit' => \A k \in DOMAIN conn[d] :
                        Live(conn'[d][k]) => conn[d][k].fd # f /\ conn'[d][k].fd = conn[d][k].fd
        BY DEF Closes
      <4> QED
        BY <3>1, <4>1, <4>2
    <3>3. CASE d # c
      <4>1. pc[d] = "reclose" /\ again'[d] = again[d]
        BY <1>2, <2>3, <3>3
      <4>2. /\ tool = "epsub"
            /\ hit \/ \A k \in DOMAIN conn[d] :
                         Live(conn[d][k]) => conn[d][k].fd # again[d]
        BY <4>1 DEF IInv, AgainInv
      <4> QED
        BY <3>1, <4>1, <4>2 DEF Closes
    <3> QED
      BY <3>2, <3>3
  <2> QED
    BY <2>1, <2>2, <2>3 DEF AgainInv, Live
<1> QED
  BY <1>1, <1>3, <1>5, <1>6, <1>7, <1>8 DEF IInv

(* The statistics are untouched. *)
LEMMA StatsKept ==
    ASSUME StatsExact, UNCHANGED <<raced, acc, completes, counted, added>>
    PROVE  StatsExact'
  BY DEF StatsExact

(* RunMain begins, or has no context. *)
LEMMA RegisterStep ==
    ASSUME IInv, NEW c \in Cores, Register(c) \/ NoContext(c)
    PROVE  IInv'
<1>1. PICK to \in {"loop", "ended"} : pc' = [pc EXCEPT ![c] = to]
  BY DEF Register, NoContext, Goto
<1>2. /\ Alive /\ pc[c] = "created"
      /\ UNCHANGED <<load, mainVars, started, statVars, connVars, prnVars, early>>
  BY DEF Register, NoContext, thrVars
<1>3. Closes(NULL)
  BY <1>2, NoneTouched DEF sockVars, connVars
<1>4. StatsExact'
  BY <1>2, StatsKept DEF IInv, statVars, prnVars
<1> QED
  BY <1>1, <1>2, <1>3, <1>4, ThreadMoves
     DEF Points, statVars, sockVars, connVars, prnVars, IInv, TypeInv

(* The head of the loop. *)
LEMMA LoopHeadStep ==
    ASSUME IInv, NEW c \in Cores, LoopHead(c), Alive, pc[c] \in {"loop", "events"},
           UNCHANGED <<load, mainVars, thrVars, statVars, connVars,
                       acc, added, raced, early>>
    PROVE  IInv'
<1>1. PICK to \in {"ended", "connect", "wait", "print"} :
         /\ pc' = [pc EXCEPT ![c] = to]
         /\ to = "connect" => started[c] < concurs[c]
         /\ print' = print \/ (c = 0 /\ print' = 0)
  <2>1. Unserved(c, started[c]) = IF started[c] < concurs[c] THEN "connect" ELSE "wait"
    BY DEF Unserved
  <2> QED
    BY <2>1 DEF LoopHead, Goto
<1>2. Closes(NULL)
  BY NoneTouched DEF sockVars, connVars
<1>3. StatsExact'
  BY StatsKept DEF IInv, statVars
<1> QED
  BY <1>1, <1>2, <1>3, ThreadMoves DEF Points, thrVars, statVars, sockVars, connVars, IInv, TypeInv

(* The first round begins, or a round ends. *)
LEMMA RoundStep ==
    ASSUME IInv, NEW c \in Cores, FirstRound(c) \/ RoundEnd(c)
    PROVE  IInv'
<1>1. /\ Alive /\ pc[c] \in {"loop", "events"}
      /\ UNCHANGED <<load, mainVars, thrVars, statVars, connVars, acc, added, raced, early>>
  BY DEF FirstRound, RoundEnd
<1>2. CASE LoopHead(c)
  BY <1>1, <1>2, LoopHeadStep
<1>3. CASE pc' = [pc EXCEPT ![c] = "ended"] /\ print' = print
  <2>1. Closes(NULL)
    BY <1>1, NoneTouched DEF sockVars, connVars
  <2>2. StatsExact'
    BY <1>1, StatsKept DEF IInv, statVars
  <2> QED
    BY <1>1, <1>3, <2>1, <2>2, ThreadMoves DEF Points, thrVars, statVars, sockVars, connVars, IInv, TypeInv
<1> QED
  BY <1>2, <1>3 DEF FirstRound, RoundEnd, Goto

(* A connect or epoll_wait fails. *)
LEMMA GivesUpStep ==
    ASSUME IInv, NEW c \in Cores, ConnectFails(c) \/ WaitFails(c)
    PROVE  IInv'
<1>1. PICK to \in {"wait", "ended"} : pc' = [pc EXCEPT ![c] = to]
  BY DEF ConnectFails, WaitFails, Goto
<1>2. /\ Alive /\ pc[c] \in {"connect", "wait"}
      /\ UNCHANGED <<load, mainVars, thrVars, statVars, connVars, prnVars, early>>
  BY DEF ConnectFails, WaitFails
<1>3. Closes(NULL)
  BY <1>2, NoneTouched DEF sockVars, connVars
<1>4. StatsExact'
  BY <1>2, StatsKept DEF IInv, statVars, prnVars
<1> QED
  BY <1>1, <1>2, <1>3, <1>4, ThreadMoves
     DEF Points, thrVars, statVars, sockVars, connVars, prnVars, IInv, TypeInv

(* The load of completes++: what is there is what was loaded. *)
LEMMA LoadStep ==
    ASSUME IInv, NEW c \in Cores, Load(c)
    PROVE  IInv'
<1>1. pc' = [pc EXCEPT ![c] = "store"] /\ loaded' = [loaded EXCEPT ![c] = completes[c]]
  BY DEF Load, Goto
<1>2. /\ Alive /\ pc[c] = "load"
      /\ UNCHANGED <<load, mainVars, thrVars, completes, counted, connVars, prnVars, early>>
  BY DEF Load
<1>3. Closes(NULL)
  BY <1>2, NoneTouched DEF sockVars, connVars
<1>4. StatsExact'
  BY <1>2, StatsKept DEF IInv, prnVars
<1>5. /\ loaded' \in [Cores -> Nat] /\ loaded'[c] = completes'[c]
      /\ \A d \in Cores : d # c => loaded'[d] = loaded[d]
  BY <1>1, <1>2 DEF IInv, TypeInv
<1> QED
  BY <1>1, <1>2, <1>3, <1>4, <1>5, ThreadMoves
     DEF Points, thrVars, sockVars, connVars, prnVars, IInv, TypeInv

(* epoll_wait returns, or an event is served that changes nothing. *)
LEMMA WaitStep ==
    ASSUME IInv, NEW c \in Cores, Wait(c) \/ \E k \in DOMAIN conn[c] : NoCallback(c, k)
    PROVE  IInv'
<1>1. pc' = [pc EXCEPT ![c] = "events"]
  BY DEF Wait, NoCallback, Served, Event, Goto, IInv, TypeInv
<1>2. /\ Alive /\ pc[c] \in {"wait", "events"}
      /\ UNCHANGED <<load, mainVars, thrVars, statVars, sockVars, again, hit, prnVars, early>>
  BY DEF Wait, NoCallback, Served, Event
<1>3. Closes(NULL)
  BY <1>2, NoneTouched DEF sockVars
<1>4. StatsExact'
  BY <1>2, StatsKept DEF IInv, statVars, prnVars
<1> QED
  BY <1>1, <1>2, <1>3, <1>4, ThreadMoves
     DEF Points, thrVars, statVars, sockVars, prnVars, IInv, TypeInv
-----------------------------------------------------------------------------
(* An error on a connection closes it. *)
LEMMA FailStep ==
    ASSUME IInv, NEW c \in Cores, NEW k \in DOMAIN conn[c], ErrorEvent(c, k) \/ IoFails(c, k)
    PROVE  IInv'
<1> DEFINE f == conn[c][k].fd
<1>1. Closes(f)
  BY CloseConnectionCloses DEF ErrorEvent, IoFails
<1>2. /\ Alive /\ pc[c] = "events"
      /\ UNCHANGED <<load, mainVars, thrVars, statVars, hit, prnVars, early>>
  BY DEF ErrorEvent, IoFails, Event
<1>3. StatsExact'
  BY <1>2, StatsKept DEF IInv, statVars, prnVars
<1>4. f \in Fds \cup {NULL}
  <2>1. conn[c][k] \in Conn
    BY ConnFacts DEF IInv, TypeInv
  <2> QED
    BY <2>1 DEF Conn
<1>5. \/ again' = [again EXCEPT ![c] = f] /\ pc' = [pc EXCEPT ![c] = "reclose"] /\ tool = "epsub"
      \/ again' = again /\ pc' = pc
  BY DEF ErrorEvent, IoFails, Goto
<1>6. /\ again' \in [Cores -> Fds \cup {NULL}]
      /\ \A d \in Cores : d # c => again'[d] = again[d]
  BY <1>4, <1>5 DEF IInv, TypeInv
<1>7. PICK to \in {"reclose", "events"} :
         /\ pc' = [pc EXCEPT ![c] = to]
         /\ to = "reclose" => tool = "epsub" /\ again'[c] = f
  <2>1. pc = [pc EXCEPT ![c] = "events"]
    BY <1>2 DEF IInv, TypeInv
  <2>2. again' = [again EXCEPT ![c] = f] => again'[c] = f
    BY DEF IInv, TypeInv
  <2> QED
    BY <1>5, <2>1, <2>2
<1> HIDE DEF f
<1> QED
  BY <1>1, <1>2, <1>3, <1>6, <1>7, ThreadMoves
     DEF Points, thrVars, statVars, prnVars, IInv, TypeInv

(* epsub's second close. *)
LEMMA CloseAgainStep ==
    ASSUME IInv, NEW c \in Cores, CloseAgain(c)
    PROVE  IInv'
<1> DEFINE f == again[c]
<1>1. /\ conn' = conn /\ open' = open \ {f} /\ reg' = Unregistered(f)
      /\ hit' = (hit \/ f \in open)
      /\ Alive /\ pc[c] = "reclose"
      /\ UNCHANGED <<load, mainVars, thrVars, statVars, prnVars, early>>
      /\ pc' = [pc EXCEPT ![c] = "events"] /\ again' = [again EXCEPT ![c] = NULL]
  BY DEF CloseAgain, Goto
<1>2. Closes(f)
  BY <1>1, CloseAgainCloses
<1>3. StatsExact'
  BY <1>1, StatsKept DEF IInv, statVars, prnVars
<1>4. /\ again' \in [Cores -> Fds \cup {NULL}]
      /\ \A d \in Cores : d # c => again'[d] = again[d]
  BY <1>1 DEF IInv, TypeInv
<1>5. hit' => hit \/ (tool = "epsub" /\ core_limit > 1)
  <2> SUFFICES ASSUME ~hit, f \in open PROVE tool = "epsub" /\ core_limit > 1
    BY <1>1
  <2>1. /\ tool = "epsub"
        /\ \A k \in DOMAIN conn[c] : Live(conn[c][k]) => conn[c][k].fd # f
    BY <1>1 DEF IInv, AgainInv
  <2>2. PICK d \in Cores : \E k \in DOMAIN conn[d] : Live(conn[d][k]) /\ conn[d][k].fd = f
    BY DEF IInv, SocketInv, Owned
  <2>3. d # c /\ DOMAIN conn[d] # {}
    BY <2>1, <2>2
  <2>4. /\ DOMAIN conn[d] = 1..Len(conn[d]) /\ Len(conn[d]) = started[d]
        /\ started[d] \in Nat /\ started[d] <= concurs[d]
        /\ concurs[d] = IF d < next_core THEN Share(d) ELSE 0
        /\ c < next_core /\ next_core \in 0..core_limit
    BY <1>1, ConnFacts DEF IInv, TypeInv, SpawnInv
  <2>5. d < next_core
    BY <2>3, <2>4
  <2>6. c \in Nat /\ d \in Nat /\ core_limit \in Nat
    BY Distribution, LoadAssumption DEF IInv, TypeInv, Cores
  <2> QED
    BY <2>1, <2>3, <2>4, <2>5, <2>6
<1> HIDE DEF f
<1> QED
  BY <1>1, <1>2, <1>3, <1>4, <1>5, ThreadMoves
     DEF Points, thrVars, statVars, prnVars, IInv, TypeInv

(* What epoll knows after MOD is what it knew. *)
LEMMA ModifiedFacts ==
    ASSUME IInv, NEW c \in Cores, NEW k \in DOMAIN conn[c], Live(conn[c][k]),
           conn[c][k].fd \in open
    PROVE  /\ Modified(c, k) \in [Cores -> [Fds -> Nat]]
           /\ ~hit => \A d \in Cores : \A g \in Fds : Modified(c, k)[d][g] = reg[d][g]
<1> DEFINE f == conn[c][k].fd
<1>1. f \in Fds /\ reg \in [Cores -> [Fds -> Nat]] /\ k \in Nat
  BY ConnFacts DEF IInv, TypeInv
<1>2. ~hit => reg[c][f] = k
  BY <1>1 DEF IInv, SocketInv, Registered
<1>3. Modified(c, k) = IF reg[c][f] = 0 THEN reg ELSE [reg EXCEPT ![c][f] = k]
  BY DEF Modified
<1> HIDE DEF f
<1>4. /\ [reg EXCEPT ![c][f] = k] \in [Cores -> [Fds -> Nat]]
      /\ reg[c][f] = k => \A d \in Cores : \A g \in Fds : [reg EXCEPT ![c][f] = k][d][g] = reg[d][g]
  BY <1>1
<1> QED
  BY <1>1, <1>2, <1>3, <1>4

(* What is served is not closed. *)
LEMMA ServedLive ==
    ASSUME IInv, NEW c \in Cores, NEW k \in DOMAIN conn[c], Served(c, k)
    PROVE  Live(conn[c][k])
<1>1. conn[c][k].fd # NULL
  BY LoadAssumption DEF IInv, TypeInv, Served
<1> QED
  BY <1>1 DEF IInv, SocketInv, Live

(* A connection does not lose its socket by being accepted ... *)
LEMMA ConnackStep ==
    ASSUME IInv, NEW c \in Cores, NEW k \in DOMAIN conn[c], Connack(c, k) \/ Subscribe(c, k)
    PROVE  IInv'
<1> DEFINE x == conn[c][k]
           r == [x EXCEPT !.state = "conacked", !.out = TRUE]
           q == [x EXCEPT !.out = FALSE]
<1>0. x \in Conn
  BY ConnFacts DEF IInv, TypeInv
<1>1. /\ Alive /\ pc[c] = "events" /\ Served(c, k) /\ x.fd \in open
      /\ reg' = Modified(c, k)
      /\ UNCHANGED <<load, mainVars, pc, thrVars, statVars, again, hit, open, prnVars, early>>
  BY DEF Connack, Subscribe, Served, Event
<1>l. Live(x)
  BY <1>1, ServedLive
<1>m. /\ reg' \in [Cores -> [Fds -> Nat]]
      /\ ~hit => \A d \in Cores : \A g \in Fds : reg'[d][g] = reg[d][g]
  BY <1>1, <1>l, ModifiedFacts
<1>2. \/ conn' = [conn EXCEPT ![c] = [conn[c] EXCEPT ![k] = r]]
      \/ conn' = [conn EXCEPT ![c] = [conn[c] EXCEPT ![k] = q]]
  <2>1. conn \in [Cores -> Seq(Conn)] /\ conn[c] \in Seq(Conn)
    BY DEF IInv, TypeInv
  <2> QED
    BY <2>1, <1>0 DEF Connack, Subscribe
<1> HIDE DEF x
<1>3. /\ r \in Conn /\ r.id = x.id /\ r.fd = x.fd /\ r.state = "conacked"
      /\ q \in Conn /\ q.id = x.id /\ q.fd = x.fd /\ q.state = x.state
  BY <1>0 DEF Conn, States
<1>4. Live(r) /\ Live(q)
  BY <1>l, <1>3 DEF Live
<1> HIDE DEF r, q
<1>5. Closes(NULL)
  BY <1>1, <1>l, <1>m, <1>2, <1>3, <1>4, OneTouched DEF x
<1>6. StatsExact'
  BY <1>1, StatsKept DEF IInv, statVars, prnVars
<1>7. pc' = [pc EXCEPT ![c] = "events"]
  BY <1>1 DEF IInv, TypeInv
<1> QED
  BY <1>1, <1>5, <1>6, <1>7, ThreadMoves
     DEF Points, thrVars, statVars, prnVars, IInv, TypeInv

(* ... nor by its messages. *)
LEMMA MessageStep ==
    ASSUME IInv, NEW c \in Cores, NEW k \in DOMAIN conn[c], Publish(c, k) \/ Message(c, k)
    PROVE  IInv'
<1> DEFINE x == conn[c][k]
<1>0. x \in Conn /\ x.queued \in Int
  <2>1. x \in Conn
    BY ConnFacts DEF IInv, TypeInv
  <2> QED
    BY <2>1 DEF Conn
<1>1. /\ Alive /\ pc[c] = "events" /\ Served(c, k)
      /\ UNCHANGED <<load, mainVars, thrVars, completes, counted, again, open, reg, hit,
                     prnVars, early>>
  BY DEF Publish, Message, Served, Event
<1>l. Live(x) /\ reg \in [Cores -> [Fds -> Nat]]
  BY <1>1, ServedLive DEF IInv, TypeInv
<1>2. PICK n \in Int : Callbacks(c, k, n)
  BY <1>0 DEF Publish, Message
<1> DEFINE completed == {i \in (x.count + 1)..(x.count + n) : i >= flows_per_con}
           st == IF completed = {} THEN x.state ELSE "will_disconnect"
           qd == IF tool = "eppub" THEN x.queued + 1 - n ELSE x.queued
           r == [x EXCEPT !.count = x.count + n, !.state = st, !.queued = qd]
<1>3. conn' = [conn EXCEPT ![c] = [conn[c] EXCEPT ![k] = r]]
  <2>1. conn \in [Cores -> Seq(Conn)] /\ conn[c] \in Seq(Conn)
    BY DEF IInv, TypeInv
  <2>2. conn' = [conn EXCEPT
             ![c][k].count = x.count + n,
             ![c][k].state = st,
             ![c][k].queued = qd]
    BY <1>2 DEF Callbacks
  <2> HIDE DEF x, st, qd
  <2> QED
    BY <2>1, <2>2, <1>0 DEF x
<1>4. st \in {"connected", "conacked", "will_disconnect"} /\ qd \in Int /\ x.count + n \in Int
  <2>1. x.count \in Int /\ x.state \in {"connected", "conacked", "will_disconnect"}
    BY <1>0, <1>l DEF Conn, States, Live
  <2> QED
    BY <1>0, <2>1
<1>5. \/ /\ loaded' = loaded /\ pc' = pc
      \/ /\ loaded' = [loaded EXCEPT ![c] = completes[c]]
         /\ pc' = [pc EXCEPT ![c] = "store"]
  BY <1>2 DEF Callbacks, Goto
<1> HIDE DEF x, st, qd, completed
<1>6. r \in Conn /\ r.id = x.id /\ r.fd = x.fd /\ r.state = st
  <2> DEFINE I == Int
             m == x.count + n
  <2>1. m \in I /\ qd \in I /\ Conn = [id : I, fd : Fds \cup {NULL}, state : States, out : BOOLEAN,
                             count : I, queued : I]
    BY <1>4 DEF Conn
  <2>2. st \in States
    BY <1>4 DEF States
  <2> HIDE DEF I, m
  <2>3. r = [x EXCEPT !.count = m, !.state = st, !.queued = qd]
    BY DEF m
  <2> HIDE DEF r
  <2> QED
    BY <1>0, <2>1, <2>2, <2>3
<1>7. Live(r)
  BY <1>4, <1>6 DEF Live
<1> HIDE DEF r
<1>8. Closes(NULL)
  BY <1>1, <1>l, <1>3, <1>6, <1>7, OneTouched DEF x
<1>9. StatsExact'
  BY <1>1, StatsKept DEF IInv, prnVars
<1>10. CASE loaded' = loaded /\ pc' = pc
  <2>1. pc' = [pc EXCEPT ![c] = "events"]
    BY <1>1, <1>10 DEF IInv, TypeInv
  <2> QED
    BY <1>1, <1>8, <1>9, <1>10, <2>1, ThreadMoves
       DEF Points, thrVars, prnVars, IInv, TypeInv
<1>11. CASE loaded' = [loaded EXCEPT ![c] = completes[c]] /\ pc' = [pc EXCEPT ![c] = "store"]
  <2>1. /\ loaded' \in [Cores -> Nat] /\ loaded'[c] = completes'[c]
        /\ \A d \in Cores : d # c => loaded'[d] = loaded[d]
    BY <1>1, <1>11 DEF IInv, TypeInv
  <2> QED
    BY <1>1, <1>8, <1>9, <1>11, <2>1, ThreadMoves
       DEF Points, thrVars, prnVars, IInv, TypeInv
<1> QED
  BY <1>5, <1>10, <1>11

(* A thread stores what it loaded and one more: the sum grows by one. *)
LEMMA StoreStep ==
    ASSUME IInv, NEW c \in Cores, Store(c)
    PROVE  IInv'
<1>1. /\ Alive /\ pc[c] = "store"
      /\ completes' = [completes EXCEPT ![c] = loaded[c] + 1]
      /\ loaded' = [loaded EXCEPT ![c] = 0]
      /\ counted' = counted + 1
      /\ UNCHANGED <<load, mainVars, thrVars, again, hit, prnVars, early>>
  BY DEF Store
<1>2. PICK to \in {"load", "events"} : pc' = [pc EXCEPT ![c] = to]
  BY DEF Store, Goto
<1>3. \E f : Closes(f)
  <2>1. CASE UNCHANGED sockVars
    BY <1>1, <2>1, NoneTouched DEF sockVars
  <2>2. CASE Finish(c)
    <3>1. PICK k \in DOMAIN conn[c] : CloseConnection(c, k)
      BY <2>2 DEF Finish
    <3> QED
      BY <1>1, <3>1, CloseConnectionCloses
  <2> QED
    BY <2>1, <2>2 DEF Store
<1>4. PICK f : Closes(f)
  BY <1>3
<1>5. /\ completes \in [Cores -> Nat] /\ loaded \in [Cores -> Nat]
      /\ counted \in Nat /\ acc \in Nat /\ added \in Nat \cup {NULL}
      /\ loaded[c] \in Nat /\ completes[c] \in Nat
  BY DEF IInv, TypeInv
<1>6. /\ completes' \in [Cores -> Nat] /\ loaded' \in [Cores -> Nat] /\ counted' \in Nat
      /\ \A d \in Cores : d # c => loaded'[d] = loaded[d] /\ completes'[d] = completes[d]
  BY <1>1, <1>5
<1>7. StatsExact'
  <2> DEFINE a == IF added = NULL THEN 0 ELSE added
  <2>1. SUFFICES ASSUME ~raced
                 PROVE  acc + SumOver(completes') = counted + 1 + a
    BY <1>1 DEF StatsExact, prnVars
  <2>2. loaded[c] = completes[c]
    BY <1>1, <2>1 DEF IInv, PrintInv
  <2>3. completes \in [Cores -> Int] /\ loaded[c] + 1 \in Int
    BY <1>5
  <2>4. /\ SumOver(completes) \in Int
        /\ SumOver(completes') = SumOver(completes) - completes[c] + (loaded[c] + 1)
    BY <1>1, <2>3, SumUpdate
  <2>5. acc + SumOver(completes) = counted + a
    BY <2>1 DEF IInv, StatsExact
  <2>6. a \in Int
    BY <1>5
  <2> HIDE DEF a
  <2> QED
    BY <1>5, <2>2, <2>4, <2>5, <2>6
<1> QED
  BY <1>1, <1>2, <1>4, <1>5, <1>6, <1>7, ThreadMoves
     DEF Points, thrVars, prnVars, IInv, TypeInv
-----------------------------------------------------------------------------
(* The number a connection gets, unless it is made too early. *)
LEMMA NextNumber ==
    ASSUME IInv, NEW c \in Cores, pc[c] = "connect"
    PROVE  /\ IdOf(c) \in Int
           /\ ~(started[c] = concurrency /\ concurs[core_limit - 1] = 0)
                 => IdOf(c) = Number(c, started[c] + 1)
<1>1. /\ load \in Loads /\ concurs \in [Cores -> Nat] /\ started[c] \in Nat
      /\ next_core \in 0..core_limit
      /\ c < next_core /\ concurs[c] = Share(c) /\ started[c] < Share(c)
      /\ \A d \in Cores : concurs[d] = IF d < next_core THEN Share(d) ELSE 0
  BY DEF IInv, TypeInv, SpawnInv
<1>2. /\ concurrency \in Nat \ {0} /\ core_limit \in Nat /\ core_limit <= NUM_CORES
      /\ c \in Nat /\ NUM_CORES \in Nat
  BY <1>1, Distribution, LoadAssumption DEF Cores
<1> DEFINE last == core_limit - 1
<1>3. last \in Cores /\ concurs[last] \in Nat
  BY <1>1, <1>2 DEF Cores
<1>4. Share(c) \in {concurrency, concurrency + 1} /\ Share(last) = concurrency
  BY <1>1, <1>3, Shares
<1>5. concurs[last] # 0 => concurs[last] = concurrency
  BY <1>1, <1>3, <1>4
<1>6. /\ c * concurrency \in Int /\ core_limit * concurs[last] \in Int
      /\ core_limit * concurrency \in Int
  BY <1>2, <1>3
<1>7. IdOf(c) = IF started[c] = concurrency /\ concurs[c] > concurs[last]
                THEN core_limit * concurs[last] + c
                ELSE c * concurrency + started[c]
  BY DEF IdOf
<1>8. Number(c, started[c] + 1)
         = IF started[c] + 1 <= concurrency THEN c * concurrency + (started[c] + 1) - 1
           ELSE core_limit * concurrency + c
  BY DEF Number
<1> HIDE DEF last
<1>9. IdOf(c) \in Int
  BY <1>1, <1>2, <1>6, <1>7
<1>10. ASSUME ~(started[c] = concurrency /\ concurs[last] = 0)
       PROVE  IdOf(c) = Number(c, started[c] + 1)
  <2>1. CASE started[c] < concurrency
    BY <1>1, <1>2, <1>6, <1>7, <1>8, <2>1
  <2>2. CASE started[c] >= concurrency
    <3>1. started[c] = concurrency /\ Share(c) = concurrency + 1
      BY <1>1, <1>2, <1>4, <2>2
    <3>2. concurs[last] = concurrency
      BY <1>5, <1>10, <3>1
    <3>3. IdOf(c) = core_limit * concurrency + c
      BY <1>1, <1>2, <1>7, <3>1, <3>2
    <3> QED
      BY <1>2, <1>8, <3>1, <3>3
  <2> QED
    BY <1>1, <1>2, <2>1, <2>2
<1> QED
  BY <1>9, <1>10 DEF last

(* A new connection has the next number and a socket that was free. *)
LEMMA ConnectStep ==
    ASSUME IInv, NEW c \in Cores, Connect(c)
    PROVE  IInv'
<1> DEFINE f == Min(Fds \ open)
           new == [id |-> IdOf(c), fd |-> f, state |-> "connected", out |-> FALSE,
                   count |-> 0, queued |-> 0]
           n == started[c] + 1
<1>1. /\ Alive /\ pc[c] = "connect" /\ Fds \ open # {}
      /\ conn' = [conn EXCEPT ![c] = Append(conn[c], new)]
      /\ open' = open \cup {f} /\ reg' = [reg EXCEPT ![c][f] = n]
      /\ early' = (early \/ (started[c] = concurrency /\ concurs[core_limit - 1] = 0))
      /\ started' = [started EXCEPT ![c] = n]
      /\ UNCHANGED <<load, mainVars, statVars, again, hit, prnVars>>
  BY DEF Connect
<1>2. f \in Fds \ open
  BY <1>1, LowestFree
<1>3. /\ IdOf(c) \in Int
      /\ ~(started[c] = concurrency /\ concurs[core_limit - 1] = 0) => IdOf(c) = Number(c, n)
  BY <1>1, NextNumber
<1> HIDE DEF f
<1>4. new \in Conn /\ new.id = IdOf(c) /\ new.fd = f /\ Live(new)
  BY <1>2, <1>3 DEF Conn, States, Live
<1> HIDE DEF new
<1>5. /\ conn \in [Cores -> Seq(Conn)] /\ conn[c] \in Seq(Conn) /\ Len(conn[c]) = started[c]
      /\ started \in [Cores -> Nat] /\ started[c] \in Nat /\ started[c] < concurs[c]
      /\ n \in Nat
  BY <1>1 DEF IInv, TypeInv, SpawnInv
<1>6. /\ conn' \in [Cores -> Seq(Conn)]
      /\ conn'[c] = Append(conn[c], new)
      /\ \A d \in Cores : d # c => conn'[d] = conn[d]
  BY <1>1, <1>4, <1>5
<1>7. /\ Len(conn'[c]) = n /\ DOMAIN conn'[c] = DOMAIN conn[c] \cup {n} /\ n \notin DOMAIN conn[c]
      /\ conn'[c][n] = new
      /\ \A k \in DOMAIN conn[c] : conn'[c][k] = conn[c][k]
  <2>1. DOMAIN conn[c] = 1..started[c] /\ DOMAIN conn'[c] = 1..n /\ Len(conn'[c]) = n
    BY <1>4, <1>5, <1>6
  <2> QED
    BY <1>4, <1>5, <1>6, <2>1
<1>8. PICK to \in {"connect", "wait"} :
         pc' = [pc EXCEPT ![c] = to] /\ (to = "connect" => n < concurs[c])
  BY DEF Connect, Goto, Unserved
<1>9. /\ pc' \in [Cores -> Points] /\ pc'[c] = to
      /\ \A d \in Cores : d # c => pc'[d] = pc[d]
  BY <1>8 DEF IInv, TypeInv, Points
<1>10. /\ started' \in [Cores -> Nat] /\ started'[c] = n
       /\ \A d \in Cores : d # c => started'[d] = started[d]
  BY <1>1, <1>5
<1>r. /\ reg' \in [Cores -> [Fds -> Nat]] /\ reg'[c][f] = n
      /\ \A d \in Cores : \A g \in Fds : d # c \/ g # f => reg'[d][g] = reg[d][g]
  BY <1>1, <1>2, <1>5 DEF IInv, TypeInv
<1> HIDE DEF n
<1>11. /\ load' = load /\ main' = main /\ next_core' = next_core /\ concurs' = concurs
       /\ again' = again /\ hit' = hit /\ completes' = completes /\ loaded' = loaded /\ counted' = counted
       /\ print' = print /\ acc' = acc /\ added' = added /\ raced' = raced
  BY <1>1 DEF mainVars, statVars, prnVars
<1>12. TypeInv'
  BY <1>1, <1>2, <1>6, <1>9, <1>10, <1>r, <1>11 DEF IInv, TypeInv
<1>13. Flags'
  BY <1>1, <1>11 DEF IInv, Flags
<1>14. main # "print"
  BY <1>1, NotPrinting
<1>15. SpawnInv'
  <2>1. core_limit' = core_limit /\ \A d \in Cores : Share(d)' = Share(d)
    BY <1>11, SameLoad
  <2>2. /\ next_core \in 0..core_limit
        /\ \A d \in Cores :
              /\ concurs[d] = IF d < next_core THEN Share(d) ELSE 0
              /\ pc[d] # "none" => d < next_core
              /\ Len(conn[d]) = started[d] /\ started[d] <= concurs[d]
              /\ pc[d] = "connect" => started[d] < concurs[d]
        /\ main \in {"join", "print"} => next_core = core_limit
    BY DEF IInv, SpawnInv
  <2>3. n <= concurs[c]
    <3>1. concurs[c] \in Nat
      BY DEF IInv, TypeInv
    <3> QED
      BY <1>5, <3>1 DEF n
  <2>4. \A d \in Cores : /\ pc'[d] # "none" => d < next_core
                         /\ pc'[d] = "connect" => started'[d] < concurs[d]
                         /\ Len(conn'[d]) = started'[d] /\ started'[d] <= concurs[d]
    BY <1>1, <1>6, <1>7, <1>8, <1>9, <1>10, <2>2, <2>3
  <2> QED
    BY <1>11, <1>14, <2>1, <2>2, <2>4 DEF SpawnInv
<1>16. IdInv'
  <2>1. SUFFICES ASSUME ~early'
                 PROVE  \A d \in Cores : \A k \in DOMAIN conn'[d] : conn'[d][k].id = Number(d, k)'
    BY DEF IdInv
  <2>2. /\ ~early /\ IdOf(c) = Number(c, n)
    BY <1>1, <1>3, <2>1
  <2>3. \A d \in Cores : \A k \in DOMAIN conn[d] : conn[d][k].id = Number(d, k)
    BY <2>2 DEF IInv, IdInv
  <2>4. \A d, k : Number(d, k)' = Number(d, k)
    BY <1>11, SameLoad
  <2> QED
    BY <1>4, <1>6, <1>7, <2>2, <2>3, <2>4
<1>17. SocketInv'
  <2>0. \A d \in Cores : \A k \in DOMAIN conn'[d] :
           \/ k \in DOMAIN conn[d] /\ conn'[d][k] = conn[d][k]
           \/ d = c /\ k = n /\ conn'[d][k] = new
    BY <1>6, <1>7
  <2>1. ASSUME ~hit PROVE Owned'
    <3>1. /\ \A d \in Cores : \A k \in DOMAIN conn[d] :
              Live(conn[d][k]) => conn[d][k].fd \in open
          /\ \A g \in open : \E d \in Cores : \E k \in DOMAIN conn[d] :
              Live(conn[d][k]) /\ conn[d][k].fd = g
          /\ \A d, e \in Cores : \A k \in DOMAIN conn[d] : \A j \in DOMAIN conn[e] :
              (d # e \/ k # j) /\ Live(conn[d][k]) /\ Live(conn[e][j])
                 => conn[d][k].fd # conn[e][j].fd
      BY <2>1 DEF IInv, SocketInv, Owned
    <3>3. \A d \in Cores : \A k \in DOMAIN conn'[d] :
             Live(conn'[d][k]) => conn'[d][k].fd \in open'
      BY <1>1, <1>4, <3>1, <2>0
    <3>4. \A g \in open' : \E d \in Cores : \E k \in DOMAIN conn'[d] :
             Live(conn'[d][k]) /\ conn'[d][k].fd = g
      <4> TAKE g \in open'
      <4>1. CASE g = f
        BY <1>4, <1>7, <4>1
      <4>2. CASE g \in open
        <5>1. PICK d \in Cores : \E k \in DOMAIN conn[d] : Live(conn[d][k]) /\ conn[d][k].fd = g
          BY <3>1, <4>2
        <5>2. PICK k \in DOMAIN conn[d] : Live(conn[d][k]) /\ conn[d][k].fd = g
          BY <5>1
        <5>3. k \in DOMAIN conn'[d] /\ conn'[d][k] = conn[d][k]
          BY <1>6, <1>7
        <5> QED
          BY <5>2, <5>3
      <4> QED
        BY <1>1, <4>1, <4>2
    <3>5. \A d, e \in Cores : \A k \in DOMAIN conn'[d] : \A j \in DOMAIN conn'[e] :
             (d # e \/ k # j) /\ Live(conn'[d][k]) /\ Live(conn'[e][j])
                => conn'[d][k].fd # conn'[e][j].fd
      BY <1>2, <1>4, <3>1, <2>0
    <3> QED
      BY <3>3, <3>4, <3>5 DEF Owned, Live
  <2>2. ASSUME ~hit, NEW d \in Cores, NEW g \in Fds
        PROVE  /\ reg'[d][g] \in {0} \cup DOMAIN conn'[d]
               /\ \A k \in DOMAIN conn'[d] :
                     reg'[d][g] = k <=> Live(conn'[d][k]) /\ conn'[d][k].fd = g
    <3>1. /\ reg[d][g] \in {0} \cup DOMAIN conn[d]
          /\ \A k \in DOMAIN conn[d] :
                reg[d][g] = k <=> Live(conn[d][k]) /\ conn[d][k].fd = g
      BY <2>2 DEF IInv, SocketInv, Registered
    <3>2. \A k \in DOMAIN conn[d] : Live(conn[d][k]) => conn[d][k].fd # f
      BY <1>2, <2>2, LiveFd
    <3>3. n # 0
      BY <1>5 DEF n
    <3>4. CASE d = c /\ g = f
      BY <1>4, <1>7, <1>r, <2>0, <3>2, <3>4
    <3>5. CASE d = c /\ g # f
      BY <1>4, <1>7, <1>r, <2>0, <3>1, <3>3, <3>5
    <3>6. CASE d # c
      BY <1>6, <1>r, <3>1, <3>6
    <3> QED
      BY <3>4, <3>5, <3>6
  <2>3. ~hit => Registered'
    BY <2>2 DEF Registered, Live
  <2>4. \A d \in Cores : \A k \in DOMAIN conn'[d] :
           conn'[d][k].state = "closed" => conn'[d][k].fd = NULL
    BY <1>4, <2>0 DEF IInv, SocketInv, Live
  <2> QED
    BY <1>11, <2>1, <2>3, <2>4 DEF SocketInv
<1>a. AgainInv'
  <2>1. tool' = tool /\ core_limit' = core_limit
    BY <1>11, SameLoad
  <2>2. \A d \in Cores : pc'[d] = "reclose" => d # c /\ pc[d] = "reclose"
    BY <1>8, <1>9
  <2> QED
    BY <1>6, <1>11, <2>1, <2>2 DEF IInv, AgainInv, Live
<1>18. PrintInv'
  <2>1. 0 \in Cores
    BY LoadAssumption DEF Cores
  <2>2. Used' = Used
    BY <1>11, SameLoad
  <2>3. \A d \in Cores : pc'[d] = "store" => pc[d] = "store"
    BY <1>8, <1>9
  <2>4. pc[0] = "print" => pc'[0] = "print"
    BY <1>1, <1>9, <2>1
  <2> QED
    BY <1>11, <2>2, <2>3, <2>4 DEF IInv, PrintInv
<1>19. StatsExact'
  BY <1>11, StatsKept DEF IInv
<1> QED
  BY <1>12, <1>13, <1>15, <1>16, <1>17, <1>a, <1>18, <1>19 DEF IInv
-----------------------------------------------------------------------------
(* Steps in which no thread moves. *)
LEMMA MainMoves ==
    ASSUME IInv,
           UNCHANGED <<load, next_core, concurs, pc, started, conn, open, reg, hit,
                       again, early>>,
           main' \in {"join", "print"} => next_core = core_limit,
           main' = "print" => AllEnded
    PROVE  SpawnInv' /\ IdInv' /\ SocketInv' /\ AgainInv'
<1>1. IdInv' /\ SocketInv'
  BY NoneTouched, AfterClose
<1>2. /\ core_limit' = core_limit /\ tool' = tool /\ Used' = Used
      /\ \A d \in Cores : Share(d)' = Share(d)
  BY SameLoad
<1>3. AllEnded => AllEnded'
  BY <1>2 DEF AllEnded
<1>4. SpawnInv'
  BY <1>2, <1>3 DEF IInv, SpawnInv
<1>5. AgainInv'
  BY <1>2 DEF IInv, AgainInv, Live
<1> QED
  BY <1>1, <1>4, <1>5

(* main goes on or stops, a signal arrives, PrintStats finds NULL. *)
LEMMA MainStep ==
    ASSUME IInv, SpawnEnd \/ Join \/ Exit \/ Signal \/ PrintCrash
    PROVE  IInv'
<1>1. /\ UNCHANGED <<load, next_core, concurs, pc, started, conn, open, reg, hit, early, again,
                     completes, loaded, counted, acc, added, raced>>
      /\ print' \in {print, 0}
      /\ print' # print => Join
  BY DEF SpawnEnd, Join, Exit, Signal, PrintCrash, mainVars, thrVars, statVars, sockVars, connVars, prnVars
<1>2. \/ main' = main
      \/ main' \in {"exit", "crash"}
      \/ main = "spawn" /\ main' = "join" /\ next_core \notin Used
      \/ main = "join" /\ main' = "print" /\ AllEnded
  BY DEF SpawnEnd, Join, Exit, Signal, PrintCrash, mainVars
<1>3. next_core \in 0..core_limit /\ core_limit \in Nat
  BY Distribution DEF IInv, TypeInv, SpawnInv
<1>4. next_core \notin Used => next_core = core_limit
  BY <1>3 DEF Used
<1>5. SpawnInv' /\ IdInv' /\ SocketInv' /\ AgainInv'
  <2>1. main' \in {"join", "print"} => next_core = core_limit
    BY <1>2, <1>4 DEF IInv, SpawnInv
  <2>2. main' = "print" => AllEnded
    BY <1>2 DEF IInv, SpawnInv
  <2> QED
    BY <1>1, <2>1, <2>2, MainMoves
<1>6. TypeInv'
  <2>1. main' \in {"spawn", "join", "print", "exit", "crash"}
    BY <1>2 DEF IInv, TypeInv
  <2> QED
    BY <1>1, <2>1 DEF IInv, TypeInv
<1>7. PrintInv'
  <2>1. main = "join" /\ AllEnded => added = NULL
    <3> SUFFICES ASSUME main = "join", AllEnded, added # NULL PROVE FALSE
      OBVIOUS
    <3>1. print \in Used /\ pc[0] = "print"
      BY DEF IInv, PrintInv
    <3>2. 0 \in Used
      BY <1>3, <3>1 DEF Used
    <3> QED
      BY <3>1, <3>2 DEF AllEnded
  <2>2. Used' = Used
    BY <1>1, SameLoad
  <2>3. print' # print => added = NULL
    BY <1>1, <2>1 DEF Join
  <2>4. /\ added # NULL => /\ print \in Used
                           /\ main \in {"print", "exit", "crash"} \/ pc[0] = "print"
        /\ ~raced => \A d \in Cores : pc[d] = "store" => loaded[d] = completes[d]
    BY DEF IInv, PrintInv
  <2>5. main \in {"print", "exit", "crash"} => main' \in {"print", "exit", "crash"}
    BY <1>2
  <2>6. added' # NULL => /\ print' \in Used'
                         /\ main' \in {"print", "exit", "crash"} \/ pc'[0] = "print"
    BY <1>1, <2>2, <2>3, <2>4, <2>5
  <2>7. ~raced' => \A d \in Cores : pc'[d] = "store" => loaded'[d] = completes'[d]
    BY <1>1, <2>4
  <2> QED
    BY <2>6, <2>7 DEF PrintInv
<1>8. Flags'
  BY <1>1 DEF IInv, Flags
<1>9. StatsExact'
  BY <1>1, StatsKept DEF IInv
<1> QED
  BY <1>5, <1>6, <1>7, <1>8, <1>9 DEF IInv

(* main gives a core its share and starts its thread. *)
LEMMA SpawnStep ==
    ASSUME IInv, Spawn
    PROVE  IInv'
<1>1. /\ main = "spawn" /\ next_core \in Used
      /\ concurs' = [concurs EXCEPT ![next_core] = Share(next_core)]
      /\ pc' = [pc EXCEPT ![next_core] = "created"]
      /\ next_core' = next_core + 1
      /\ load' = load /\ main' = main /\ started' = started /\ conn' = conn /\ open' = open
      /\ reg' = reg /\ hit' = hit
      /\ early' = early /\ again' = again /\ completes' = completes /\ loaded' = loaded
      /\ counted' = counted /\ print' = print /\ acc' = acc /\ added' = added /\ raced' = raced
  BY DEF Spawn, Goto, thrVars, statVars, sockVars, connVars, prnVars
<1>2. /\ load \in Loads /\ core_limit \in Nat /\ next_core \in Nat /\ next_core \in Cores
      /\ next_core + 1 \in 0..core_limit /\ 0 \in Cores
  <2>1. load \in Loads /\ next_core \in Nat
    BY DEF IInv, TypeInv
  <2>2. core_limit \in Nat /\ Used \subseteq Cores
    BY <2>1, Distribution
  <2>3. next_core + 1 \in 0..core_limit
    BY <1>1, <2>1, <2>2 DEF Used
  <2>4. 0 \in Cores
    BY LoadAssumption DEF Cores
  <2> QED
    BY <1>1, <2>1, <2>2, <2>3, <2>4
<1>3. Share(next_core) \in Nat \ {0}
  BY <1>2, Shares
<1>4. /\ concurs' \in [Cores -> Nat] /\ concurs'[next_core] = Share(next_core)
      /\ \A d \in Cores : d # next_core => concurs'[d] = concurs[d]
  BY <1>1, <1>2, <1>3 DEF IInv, TypeInv
<1>5. /\ pc' \in [Cores -> Points] /\ pc'[next_core] = "created"
      /\ \A d \in Cores : d # next_core => pc'[d] = pc[d]
  BY <1>1, <1>2 DEF IInv, TypeInv, Points
<1>6. TypeInv'
  <2>1. next_core' \in Nat
    BY <1>1, <1>2
  <2> QED
    BY <1>1, <1>4, <1>5, <2>1 DEF IInv, TypeInv
<1>7. /\ \A d \in Cores :
            /\ concurs[d] = IF d < next_core THEN Share(d) ELSE 0
            /\ pc[d] # "none" => d < next_core
            /\ Len(conn[d]) = started[d] /\ started[d] <= concurs[d]
            /\ pc[d] = "connect" => started[d] < concurs[d]
      /\ \A d \in Cores : d \in Nat /\ started[d] \in Nat
  <2>1. \A d \in Cores : d \in Nat /\ started[d] \in Nat
    BY LoadAssumption DEF IInv, TypeInv, Cores
  <2> QED
    BY <2>1 DEF IInv, SpawnInv
<1>8. pc[next_core] = "none" /\ started[next_core] = 0
  BY <1>2, <1>7
<1>9. SpawnInv'
  <2>1. core_limit' = core_limit /\ \A d \in Cores : Share(d)' = Share(d)
    BY <1>1, SameLoad
  <2>2. \A d \in Cores : concurs'[d] = IF d < next_core + 1 THEN Share(d) ELSE 0
    BY <1>2, <1>4, <1>7
  <2>3. \A d \in Cores : /\ pc'[d] # "none" => d < next_core + 1
                         /\ pc'[d] = "connect" => started[d] < concurs'[d]
                         /\ started[d] <= concurs'[d]
    BY <1>2, <1>3, <1>4, <1>5, <1>7, <1>8
  <2> QED
    BY <1>1, <1>2, <1>7, <2>1, <2>2, <2>3 DEF SpawnInv
<1>10. IdInv' /\ SocketInv'
  BY <1>1, NoneTouched, AfterClose
<1>a. AgainInv'
  <2>1. tool' = tool /\ core_limit' = core_limit
    BY <1>1, SameLoad
  <2>2. \A d \in Cores : pc'[d] = "reclose" => pc[d] = "reclose"
    BY <1>5
  <2> QED
    BY <1>1, <2>1, <2>2 DEF IInv, AgainInv, Live
<1>11. PrintInv'
  <2>1. Used' = Used
    BY <1>1, SameLoad
  <2>2. pc[0] = "print" => pc'[0] = "print"
    BY <1>2, <1>5, <1>8
  <2>3. \A d \in Cores : pc'[d] = "store" => pc[d] = "store"
    BY <1>5
  <2> QED
    BY <1>1, <2>1, <2>2, <2>3 DEF IInv, PrintInv
<1>12. Flags'
  BY <1>1 DEF IInv, Flags
<1>13. StatsExact'
  BY <1>1, StatsKept DEF IInv
<1> QED
  BY <1>6, <1>9, <1>10, <1>a, <1>11, <1>12, <1>13 DEF IInv

(* What is added is in acc and still in the statistics ... *)
LEMMA PrintAddStep ==
    ASSUME IInv, PrintAdd
    PROVE  IInv'
<1>1. /\ Printing /\ print \in Used /\ added = NULL
      /\ acc' = acc + completes[print] /\ added' = completes[print]
      /\ load' = load /\ main' = main /\ next_core' = next_core /\ concurs' = concurs
      /\ pc' = pc /\ started' = started /\ conn' = conn /\ open' = open
      /\ reg' = reg /\ hit' = hit
      /\ early' = early /\ again' = again /\ completes' = completes /\ loaded' = loaded
      /\ counted' = counted /\ print' = print /\ raced' = raced
  BY DEF PrintAdd, mainVars, thrVars, statVars, sockVars, connVars
<1>2. print \in Cores /\ completes[print] \in Nat /\ acc \in Nat /\ counted \in Nat
  BY <1>1, Distribution DEF IInv, TypeInv
<1>3. SpawnInv' /\ IdInv' /\ SocketInv' /\ AgainInv'
  BY <1>1, MainMoves DEF IInv, SpawnInv
<1>4. TypeInv'
  <2>1. acc' \in Nat /\ added' \in Nat \cup {NULL}
    BY <1>1, <1>2
  <2> QED
    BY <1>1, <2>1 DEF IInv, TypeInv
<1>5. PrintInv'
  <2>1. Used' = Used
    BY <1>1, SameLoad
  <2>2. main = "print" \/ pc[0] = "print"
    BY <1>1 DEF Printing
  <2> QED
    BY <1>1, <2>1, <2>2 DEF IInv, PrintInv
<1>6. StatsExact'
  <2>1. completes[print] # NULL
    BY <1>2, LoadAssumption
  <2>2. completes \in [Cores -> Int]
    BY DEF IInv, TypeInv
  <2>3. SumOver(completes) \in Int
    BY <1>2, <2>2, SumUpdate
  <2>4. ~raced => acc + SumOver(completes) = counted + 0
    BY <1>1 DEF IInv, StatsExact
  <2>5. ~raced => (acc + completes[print]) + SumOver(completes) = counted + completes[print]
    BY <1>2, <2>3, <2>4
  <2> QED
    BY <1>1, <2>1, <2>5 DEF StatsExact
<1>7. Flags'
  BY <1>1 DEF IInv, Flags
<1> QED
  BY <1>3, <1>4, <1>5, <1>6, <1>7 DEF IInv

(* ... until it is cleared. *)
LEMMA PrintClearStep ==
    ASSUME IInv, PrintClear
    PROVE  IInv'
<1>1. /\ Printing /\ added # NULL
      /\ completes' = [completes EXCEPT ![print] = 0]
      /\ raced' = (raced \/ completes[print] # added \/ pc[print] = "store")
      /\ print' = print + 1 /\ added' = NULL
      /\ load' = load /\ main' = main /\ next_core' = next_core /\ concurs' = concurs
      /\ pc' = pc /\ started' = started /\ conn' = conn /\ open' = open
      /\ reg' = reg /\ hit' = hit
      /\ early' = early /\ again' = again /\ acc' = acc /\ loaded' = loaded
      /\ counted' = counted
  BY DEF PrintClear, Cleared, mainVars, thrVars, sockVars, connVars
<1>2. /\ print \in Used /\ print \in Cores /\ print \in Nat /\ completes[print] \in Nat
      /\ acc \in Nat /\ counted \in Nat /\ added \in Nat /\ completes \in [Cores -> Nat]
  <2>1. print \in Used
    BY <1>1 DEF IInv, PrintInv
  <2>2. print \in Cores
    BY <2>1, Distribution DEF IInv, TypeInv
  <2>3. print \in Nat
    BY <2>2, LoadAssumption DEF Cores
  <2> QED
    BY <1>1, <2>1, <2>2, <2>3 DEF IInv, TypeInv
<1>3. SpawnInv' /\ IdInv' /\ SocketInv' /\ AgainInv'
  BY <1>1, MainMoves DEF IInv, SpawnInv
<1>4. /\ completes' \in [Cores -> Nat]
      /\ \A d \in Cores : d # print => completes'[d] = completes[d]
  BY <1>1, <1>2
<1>5. TypeInv'
  BY <1>1, <1>2, <1>4 DEF IInv, TypeInv
<1>6. ~raced' => ~raced /\ completes[print] = added /\ pc[print] # "store"
  BY <1>1
<1>7. PrintInv'
  BY <1>1, <1>4, <1>6 DEF IInv, PrintInv
<1>8. StatsExact'
  <2>1. SUFFICES ASSUME ~raced' PROVE acc + SumOver(completes') = counted + 0
    BY <1>1 DEF StatsExact
  <2>2. acc + SumOver(completes) = counted + added
    BY <1>1, <1>6, <2>1 DEF IInv, StatsExact
  <2>3. completes \in [Cores -> Int]
    BY <1>2
  <2>4. /\ SumOver(completes) \in Int
        /\ SumOver(completes') = SumOver(completes) - completes[print] + 0
    <3> DEFINE z == 0
    <3>1. z \in Int /\ completes' = [completes EXCEPT ![print] = z]
      BY <1>1
    <3> HIDE DEF z
    <3>2. /\ SumOver(completes) \in Int
          /\ SumOver([completes EXCEPT ![print] = z])
                = SumOver(completes) - completes[print] + z
      BY <1>2, <2>3, <3>1, SumUpdate
    <3>3. SumOver(completes') = SumOver(completes) - completes[print] + z
      BY <3>1, <3>2
    <3> QED
      BY <3>2, <3>3 DEF z
  <2> QED
    BY <1>2, <1>6, <2>1, <2>2, <2>4
<1>9. Flags'
  BY <1>1 DEF IInv, Flags
<1> QED
  BY <1>3, <1>5, <1>7, <1>8, <1>9 DEF IInv

(* PrintStats returns. *)
LEMMA PrintEndStep ==
    ASSUME IInv, PrintEnd
    PROVE  IInv'
<1>1. /\ Printing /\ added = NULL /\ print' = NULL
      /\ load' = load /\ next_core' = next_core /\ concurs' = concurs
      /\ started' = started /\ conn' = conn /\ open' = open
      /\ reg' = reg /\ hit' = hit
      /\ early' = early /\ again' = again /\ completes' = completes /\ loaded' = loaded
      /\ counted' = counted /\ acc' = acc /\ added' = added /\ raced' = raced
  BY DEF PrintEnd, thrVars, statVars, sockVars, connVars
<1>2. \/ main' \in {"crash", "exit"} /\ pc' = pc
      \/ /\ main' = main /\ Alive /\ pc[0] = "print"
         /\ pc' = [pc EXCEPT ![0] = Unserved(0, started[0])]
  BY <1>1 DEF PrintEnd, Goto, Printing
<1>3. Flags' /\ StatsExact'
  BY <1>1, StatsKept DEF IInv, Flags
<1>4. CASE main' \in {"crash", "exit"} /\ pc' = pc
  <2>1. SpawnInv' /\ IdInv' /\ SocketInv' /\ AgainInv'
    BY <1>1, <1>4, MainMoves
  <2>2. TypeInv'
    BY <1>1, <1>4 DEF IInv, TypeInv
  <2>3. PrintInv'
    BY <1>1, <1>4 DEF IInv, PrintInv
  <2> QED
    BY <1>3, <2>1, <2>2, <2>3 DEF IInv
<1>5. CASE /\ main' = main /\ Alive /\ pc[0] = "print"
           /\ pc' = [pc EXCEPT ![0] = Unserved(0, started[0])]
  <2>1. IdInv' /\ SocketInv'
    BY <1>1, NoneTouched, AfterClose
  <2>2. 0 \in Cores
    BY LoadAssumption DEF Cores
  <2>3. PICK to \in {"connect", "wait"} :
           pc' = [pc EXCEPT ![0] = to] /\ (to = "connect" => started[0] < concurs[0])
    BY <1>5 DEF Unserved
  <2>4. /\ pc' \in [Cores -> Points] /\ pc'[0] = to
        /\ \A d \in Cores : d # 0 => pc'[d] = pc[d]
    BY <2>2, <2>3 DEF IInv, TypeInv, Points
  <2>5. TypeInv'
    BY <1>1, <1>5, <2>4 DEF IInv, TypeInv
  <2>6. main # "print"
    BY <1>5, <2>2, NotPrinting
  <2>7. SpawnInv'
    <3>1. core_limit' = core_limit /\ \A d \in Cores : Share(d)' = Share(d)
      BY <1>1, SameLoad
    <3>2. /\ next_core \in 0..core_limit
          /\ \A d \in Cores :
                /\ concurs[d] = IF d < next_core THEN Share(d) ELSE 0
                /\ pc[d] # "none" => d < next_core
                /\ Len(conn[d]) = started[d] /\ started[d] <= concurs[d]
                /\ pc[d] = "connect" => started[d] < concurs[d]
          /\ main \in {"join", "print"} => next_core = core_limit
      BY DEF IInv, SpawnInv
    <3>3. \A d \in Cores : /\ pc'[d] # "none" => d < next_core
                           /\ pc'[d] = "connect" => started[d] < concurs[d]
      BY <1>5, <2>3, <2>4, <3>2
    <3> QED
      BY <1>1, <1>5, <2>6, <3>1, <3>2, <3>3 DEF SpawnInv
  <2>8. PrintInv'
    <3>1. \A d \in Cores : pc'[d] = "store" => pc[d] = "store"
      BY <2>3, <2>4
    <3> QED
      BY <1>1, <3>1 DEF IInv, PrintInv
  <2>9. AgainInv'
    <3>1. tool' = tool /\ core_limit' = core_limit
      BY <1>1, SameLoad
    <3>2. \A d \in Cores : pc'[d] = "reclose" => pc[d] = "reclose"
      BY <2>3, <2>4
    <3> QED
      BY <1>1, <3>1, <3>2 DEF IInv, AgainInv, Live
  <2> QED
    BY <1>3, <2>1, <2>5, <2>7, <2>8, <2>9 DEF IInv
<1> QED
  BY <1>2, <1>4, <1>5
-----------------------------------------------------------------------------
(* The invariant holds at the start. *)
LEMMA InitInv ==
    ASSUME Init
    PROVE  IInv
<1>1. load \in Loads /\ core_limit \in Nat /\ NUM_CORES \in Nat \ {0}
  BY Distribution, LoadAssumption DEF Init
<1>2. \A c \in Cores : c \in Nat /\ ~(c < 0)
  BY <1>1 DEF Cores
<1>3. TypeInv
  <2>1. [c \in Cores |-> <<>>] \in [Cores -> Seq(Conn)]
    OBVIOUS
  <2> QED
    BY <2>1 DEF Init, TypeInv, Points
<1>4. \A c \in Cores : conn[c] = <<>> /\ DOMAIN conn[c] = {} /\ Len(conn[c]) = 0
  BY DEF Init
<1>5. SpawnInv
  BY <1>1, <1>2, <1>4 DEF Init, SpawnInv
<1>6. IdInv /\ SocketInv /\ AgainInv
  <2>1. \A c \in Cores : \A f \in Fds : reg[c][f] = 0
    BY DEF Init
  <2>2. Registered
    BY <1>4, <2>1 DEF Registered
  <2> QED
    BY <1>4, <2>2 DEF Init, IdInv, SocketInv, Owned, AgainInv
<1>7. PrintInv
  BY DEF Init, PrintInv
<1>8. StatsExact
  BY SumZero DEF Init, StatsExact
<1>9. Flags
  BY DEF Init, Flags
<1> QED
  BY <1>3, <1>5, <1>6, <1>7, <1>8, <1>9 DEF IInv

(* A step of something else keeps it. *)
LEMMA Stutter ==
    ASSUME IInv, UNCHANGED vars
    PROVE  IInv'
<1>1. UNCHANGED <<load, main, next_core, concurs, pc, started, conn, open, reg, hit, early, again,
                  completes, loaded, counted, acc, added, raced, print>>
  BY DEF vars, mainVars, thrVars, statVars, sockVars, connVars, prnVars
<1>2. SpawnInv' /\ IdInv' /\ SocketInv' /\ AgainInv'
  BY <1>1, MainMoves DEF IInv, SpawnInv
<1>3. TypeInv'
  BY <1>1 DEF IInv, TypeInv
<1>4. Used' = Used
  BY <1>1, SameLoad
<1>5. PrintInv' /\ Flags'
  BY <1>1, <1>4 DEF IInv, PrintInv, Flags
<1>6. StatsExact'
  BY <1>1, StatsKept DEF IInv
<1> QED
  BY <1>2, <1>3, <1>5, <1>6 DEF IInv

(* Every step keeps the invariant. *)
THEOREM Invariant == Spec => []IInv
<1>1. Init => IInv
  BY InitInv
<1>2. IInv /\ [Next]_vars => IInv'
  <2> SUFFICES ASSUME IInv, [Next]_vars PROVE IInv'
    OBVIOUS
  <2>1. CASE UNCHANGED vars
    BY <2>1, Stutter
  <2>2. CASE Main \/ Exit \/ Signal
    BY <2>2, SpawnStep, MainStep DEF Main
  <2>3. CASE PrintStats
    BY <2>3, PrintAddStep, PrintClearStep, PrintEndStep, MainStep DEF PrintStats
  <2>4. ASSUME NEW c \in Cores, Thread(c) PROVE IInv'
    <3>1. CASE Register(c) \/ NoContext(c)
      BY <3>1, RegisterStep
    <3>2. CASE FirstRound(c) \/ RoundEnd(c)
      BY <3>2, RoundStep
    <3>3. CASE Connect(c)
      BY <3>3, ConnectStep
    <3>4. CASE ConnectFails(c) \/ WaitFails(c)
      BY <3>4, GivesUpStep
    <3>5. CASE CloseAgain(c)
      BY <3>5, CloseAgainStep
    <3>6. CASE Load(c)
      BY <3>6, LoadStep
    <3>7. CASE Store(c)
      BY <3>7, StoreStep
    <3>8. ASSUME NEW k \in DOMAIN conn[c],
                 \/ ErrorEvent(c, k) \/ Connack(c, k) \/ IoFails(c, k)
                 \/ Publish(c, k) \/ Subscribe(c, k) \/ Message(c, k)
          PROVE  IInv'
      BY <3>8, FailStep, ConnackStep, MessageStep
    <3>9. CASE Wait(c) \/ \E k \in DOMAIN conn[c] : NoCallback(c, k)
      BY <3>9, WaitStep
    <3> QED
      BY <2>4, <3>1, <3>2, <3>3, <3>4, <3>5, <3>6, <3>7, <3>8, <3>9 DEF Thread
  <2> QED
    BY <2>1, <2>2, <2>3, <2>4 DEF Next
<1> QED
  BY <1>1, <1>2, PTL DEF Spec
-----------------------------------------------------------------------------
(* What the properties quantify over. *)
LEMMA AllFacts ==
    \A p : p \in All <=> \E c \in Cores : \E k \in DOMAIN conn[c] : p = <<c, k>>
  BY DEF All

(* The connections of the threads have distinct numbers, and these are the *)
(* first total ones, for any number of connections and cores, unless a     *)
(* thread made a number of what main had not yet set.                      *)
THEOREM NumbersDistinct == Spec => []IdsDistinct
<1>1. ASSUME IInv PROVE IdsDistinct
  <2> SUFFICES ASSUME ~early PROVE /\ \A p, q \in All : p # q => At(p).id # At(q).id
                                   /\ \A p \in All : At(p).id \in 0..(total - 1)
    BY DEF IdsDistinct
  <2>1. load \in Loads
    BY <1>1 DEF IInv, TypeInv
  <2>2. ASSUME NEW c \in Cores, NEW k \in DOMAIN conn[c]
        PROVE  /\ k \in Nat \ {0} /\ k <= Share(c) /\ c < core_limit
               /\ conn[c][k].id = Number(c, k)
    <3>1. /\ DOMAIN conn[c] = 1..Len(conn[c]) /\ Len(conn[c]) \in Nat
      BY <1>1, ConnFacts DEF IInv, TypeInv
    <3>2. /\ Len(conn[c]) = started[c] /\ started[c] <= concurs[c]
          /\ concurs[c] = IF c < next_core THEN Share(c) ELSE 0
          /\ next_core \in 0..core_limit
      BY <1>1 DEF IInv, SpawnInv
    <3>3. c \in Nat /\ core_limit \in Nat /\ Share(c) \in Nat
      BY <2>1, Distribution, Shares, LoadAssumption DEF Cores
    <3>4. conn[c][k].id = Number(c, k)
      BY <1>1 DEF IInv, IdInv
    <3>5. k \in Nat \ {0} /\ k <= concurs[c]
      BY <3>1, <3>2, <3>3
    <3> QED
      BY <3>2, <3>3, <3>4, <3>5
  <2>3. ASSUME NEW c \in Cores, NEW k \in DOMAIN conn[c], NEW d \in Cores, NEW j \in DOMAIN conn[d]
        PROVE  /\ conn[c][k].id \in 0..(total - 1)
               /\ c # d \/ k # j => conn[c][k].id # conn[d][j].id
    BY <2>1, <2>2, Numbers
  <2>4. \A p \in All : At(p).id \in 0..(total - 1)
    BY <2>3, AllFacts DEF At
  <2>5. \A p, q \in All : p # q => At(p).id # At(q).id
    <3> TAKE p, q \in All
    <3>1. PICK c, k : c \in Cores /\ k \in DOMAIN conn[c] /\ p = <<c, k>>
      BY AllFacts
    <3>2. PICK d, j : d \in Cores /\ j \in DOMAIN conn[d] /\ q = <<d, j>>
      BY AllFacts
    <3> QED
      BY <2>3, <3>1, <3>2 DEF At
  <2> QED
    BY <2>4, <2>5
<1> QED
  BY <1>1, Invariant, PTL

(* Each connection that is not closed has a socket of its own for which    *)
(* its thread is told of events, and no other socket is open, for any      *)
(* number of cores, connections and descriptors, until a second close of   *)
(* epsub hits a socket; with one thread it never does.                     *)
THEOREM SocketsCorrect == Spec => []SocketsOwned
<1>1. ASSUME IInv PROVE SocketsOwned
  <2>h. hit => tool = "epsub" /\ core_limit > 1
    BY <1>1 DEF IInv, AgainInv
  <2> SUFFICES ASSUME ~hit
               PROVE  /\ \A p, q \in All : p # q /\ Live(At(p)) /\ Live(At(q))
                                                => At(p).fd # At(q).fd
                      /\ open = {At(p).fd : p \in {q \in All : Live(At(q))}}
                      /\ \A c \in Cores : \A f \in Fds :
                            /\ reg[c][f] \in {0} \cup DOMAIN conn[c]
                            /\ \A k \in DOMAIN conn[c] :
                                  reg[c][f] = k <=> Live(conn[c][k]) /\ conn[c][k].fd = f
    BY <2>h DEF SocketsOwned
  <2>1. /\ \A c \in Cores : \A k \in DOMAIN conn[c] :
             Live(conn[c][k]) => conn[c][k].fd \in open
        /\ \A f \in open : \E c \in Cores : \E k \in DOMAIN conn[c] :
             Live(conn[c][k]) /\ conn[c][k].fd = f
        /\ \A c, d \in Cores : \A k \in DOMAIN conn[c] : \A j \in DOMAIN conn[d] :
             (c # d \/ k # j) /\ Live(conn[c][k]) /\ Live(conn[d][j])
                => conn[c][k].fd # conn[d][j].fd
    BY <1>1 DEF IInv, SocketInv, Owned
  <2>2. ASSUME NEW p \in All, NEW q \in All, p # q, Live(At(p)), Live(At(q))
        PROVE  At(p).fd # At(q).fd
    <3>1. PICK c, k : c \in Cores /\ k \in DOMAIN conn[c] /\ p = <<c, k>>
      BY AllFacts
    <3>2. PICK d, j : d \in Cores /\ j \in DOMAIN conn[d] /\ q = <<d, j>>
      BY AllFacts
    <3>3. (c # d \/ k # j) /\ At(p) = conn[c][k] /\ At(q) = conn[d][j]
      BY <2>2, <3>1, <3>2 DEF At
    <3> QED
      BY <2>1, <2>2, <3>1, <3>2, <3>3
  <2>3. ASSUME NEW f \in open PROVE \E p \in All : Live(At(p)) /\ At(p).fd = f
    <3>1. PICK c \in Cores : \E k \in DOMAIN conn[c] : Live(conn[c][k]) /\ conn[c][k].fd = f
      BY <2>1
    <3>2. PICK k \in DOMAIN conn[c] : Live(conn[c][k]) /\ conn[c][k].fd = f
      BY <3>1
    <3>3. <<c, k>> \in All /\ At(<<c, k>>) = conn[c][k]
      BY AllFacts DEF At
    <3> QED
      BY <3>2, <3>3
  <2>4. ASSUME NEW p \in All, Live(At(p)) PROVE At(p).fd \in open
    <3>1. PICK c, k : c \in Cores /\ k \in DOMAIN conn[c] /\ p = <<c, k>>
      BY AllFacts
    <3>2. At(p) = conn[c][k]
      BY <3>1 DEF At
    <3> QED
      BY <2>1, <2>4, <3>1, <3>2
  <2>5. open = {At(p).fd : p \in {q \in All : Live(At(q))}}
    BY <2>3, <2>4
  <2>6. Registered
    BY <1>1 DEF IInv, SocketInv
  <2> QED
    BY <2>2, <2>5, <2>6 DEF Registered
<1> QED
  BY <1>1, Invariant, PTL

(* No completed connection is lost from the statistics or counted twice,   *)
(* as long as PrintStats did not clear what it had not added.              *)
THEOREM StatsCorrect == Spec => []StatsExact
<1>1. IInv => StatsExact
  BY DEF IInv
<1> QED
  BY <1>1, Invariant, PTL
=============================================================================
