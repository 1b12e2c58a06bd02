--------------------------- MODULE EventLoopProofs ---------------------------
(* Proofs about the event loops, for any number of threads and descriptors *)
(* and any limits: the types, that the lists of the tables stay lists,     *)
(* that a slot has one server, that no descriptor is forgotten, and what   *)
(* the two faults are caused by.                                           *)
(*                                                                         *)
(* The argument about a table needs no recursion: its clients are the      *)
(* least set that has the head and all that is linked to it (Reach), so    *)
(* that to show something of all of them is to show that it is closed      *)
(* under hh.next (ReachLeast). ListAppend and ListDelete say what HASH_ADD *)
(* and HASH_DELETE do to such a list, ListSame that links of other slots   *)
(* do not matter to it.                                                    *)
(*                                                                         *)
(* The argument about the threads: what a thread has in its table, in its  *)
(* epoll instance or in hand (Mine) is open and no other thread's, so no   *)
(* step of one thread disturbs the list of another (OwnInv). HASH_DEL      *)
(* comes before close, so the slot is in no table when its descriptor      *)
(* becomes free. A thread that stands on a slot it removed finds the way   *)
(* on there until the slot is taken (WalkInv); a thread that is told of a  *)
(* descriptor that is not in its table was full before (AccountInv), and   *)
(* it is not told of connections again (ListenInv).                        *)
EXTENDS EventLoop, FiniteSetTheorems, WellFoundedInduction, TLAPS

(* The list from head h to tail tl, both ways. *)
IsList(h, tl, pv, nx) ==
    h # NULL =>
        /\ pv[h] = NULL
        /\ tl \in Reach(h, nx) /\ nx[tl] = NULL
        /\ \A c \in Reach(h, nx) :
              /\ nx[c] # NULL => pv[nx[c]] = c
              /\ pv[c] # NULL => pv[c] \in Reach(h, nx) /\ nx[pv[c]] = c
              /\ nx[c] = NULL => c = tl
              /\ pv[c] = NULL => c = h

(* The table of a thread is a list, and its length is known. *)
TableInv ==
    \A t \in Threads :
        /\ IsList(contexts_by_ptr[t], tail[t], prev, next)
        /\ IsFiniteSet(Linked(t)) /\ Cardinality(Linked(t)) = Count(t)

(* What a thread has to do with: no other thread has, and it is open. *)
Mine(t) == Linked(t) \cup interest[t] \cup InHand(t)

OwnInv ==
    /\ \A t \in Threads : Mine(t) \subseteq open /\ Linked(t) \cap InHand(t) = {}
    /\ \A t, u \in Threads : t # u => Mine(t) \cap Mine(u) = {}

(* A loop that never was full listens on a socket of its own; one that was *)
(* is not told of connections any more, once it has closed its listener.   *)
ListenInv ==
    /\ \A t \in Threads \ overflowed :
          /\ l_sock[t] \in open \cup {NULL}
          /\ l_sock[t] \notin Linked(t) \cup InHand(t)
          /\ \A u \in Threads \ {t} : l_sock[t] \notin Mine(u)
    /\ \A t \in overflowed : l_sock[t] \in interest[t] => InHand(t) = {l_sock[t]}
    /\ \A t \in Threads : pc[t] = "start" => l_sock[t] = NULL /\ t \notin overflowed

(* Only registered descriptors that are not being closed are waiting to be *)
(* handled, and none once the write phase has begun.                       *)
EventInv ==
    \A t \in Threads :
        /\ events[t] \subseteq interest[t]
        /\ events[t] \cap InHand(t) = {}
        /\ pc[t] \in {"write", "wclose", "behind"} => events[t] = {}

(* The walk of the write phase is at a client of the thread, or at one it  *)
(* removed, whose link leads on as long as nobody else has taken its slot. *)
WalkInv ==
    \A t \in Threads :
        /\ pc[t] = "write" => fd[t] \in Linked(t)
        /\ pc[t] \in {"wclose", "behind"} /\ ~retaken =>
              /\ next[fd[t]] \in Linked(t) \cup {NULL}
              /\ \A u \in Threads : fd[t] \notin Linked(u)

(* Every descriptor is accounted for. *)
AccountInv ==
    /\ \A t \in Threads \ overflowed :
          interest[t] \subseteq Linked(t) \cup {l_sock[t]} \cup InHand(t)
    /\ overflowed = {} =>
          \A c \in open : \E t \in Threads :
              c \in Linked(t) \cup {l_sock[t]} \cup InHand(t)

(* All of this as long as the program has not left defined behaviour.      *)
RunInv == TableInv /\ OwnInv /\ ListenInv /\ EventInv /\ WalkInv /\ AccountInv

(* The types, of the variables of the tables and of the others. *)
TableTypes ==
    /\ contexts_by_ptr \in [Threads -> MaybeFd]
    /\ tail \in [Threads -> MaybeFd]
    /\ num_items \in [Threads -> 0..MAX_FD_PER_LOOP]
    /\ prev \in [Fds -> MaybeFd] /\ next \in [Fds -> MaybeFd]

LoopTypes ==
    /\ open \subseteq Fds
    /\ interest \in [Threads -> SUBSET Fds]
    /\ l_sock \in [Threads -> MaybeFd]
    /\ pc \in [Threads -> {"start", "wait", "events", "close", "write",
                           "wclose", "behind", "returned"}]
    /\ events \in [Threads -> SUBSET Fds]
    /\ fd \in [Threads -> MaybeFd]
    /\ crashed \in Threads \cup {NULL} /\ astray \in Threads \cup {NULL}
    /\ overflowed \subseteq Threads
    /\ \A t \in Threads :
          pc[t] \in {"close", "write", "wclose", "behind"} <=> fd[t] # NULL

(* The history flag (Boolean values are kept apart: one prover handles     *)
(* them, another the rest).                                                *)
Flag == retaken \in BOOLEAN

(* The inductive invariant. *)
IInv == TableTypes /\ LoopTypes /\ Flag /\ FaultsExplained /\ (Running => RunInv)
-----------------------------------------------------------------------------
(* The lowest free descriptor is one, and it is free. *)
LEMMA LowestFree ==
    ASSUME Free # {}
    PROVE  Lowest \in Fds /\ Lowest \notin open
<1>1. Free \subseteq Nat
  BY LoopAssumption DEF Free
<1> DEFINE less == OpToRel(<, Nat)
<1>2. IsWellFoundedOn(less, Nat)
  BY NatLessThanWellFounded
<1>3. \A x, y \in Nat : <<y, x>> \notin less => x <= y
  BY DEF OpToRel
<1> HIDE DEF less
<1>4. PICK x \in Free : \A y \in Free : <<y, x>> \notin less
  BY <1>1, <1>2, WFMin
<1>5. \A y \in Free : x <= y
  BY <1>1, <1>3, <1>4
<1>6. Lowest \in Free
  BY <1>5 DEF Lowest, Min
<1> QED
  BY <1>6 DEF Free
-----------------------------------------------------------------------------
(* What is reached from the head: the head, and what is linked to it. *)
LEMMA ReachFacts ==
    ASSUME NEW h \in MaybeFd, NEW nx \in [Fds -> MaybeFd]
    PROVE  /\ Reach(h, nx) \subseteq Fds
           /\ h # NULL => h \in Reach(h, nx)
           /\ h = NULL => Reach(h, nx) = {}
           /\ \A c \in Reach(h, nx) : nx[c] # NULL => nx[c] \in Reach(h, nx)
<1>1. Reach(h, nx) \subseteq Fds
  BY DEF Reach
<1>2. h # NULL => h \in Reach(h, nx)
  <2>1. h # NULL => h \in Fds
    BY DEF MaybeFd
  <2>2. \A S \in SUBSET Fds : Closed(S, h, nx) /\ h # NULL => h \in S
    BY DEF Closed
  <2> QED
    BY <2>1, <2>2 DEF Reach
<1>3. h = NULL => Reach(h, nx) = {}
  <2>1. h = NULL => Closed({}, h, nx)
    BY DEF Closed
  <2> QED
    BY <2>1 DEF Reach
<1>4. ASSUME NEW c \in Reach(h, nx), nx[c] # NULL PROVE nx[c] \in Reach(h, nx)
  <2>1. c \in Fds /\ nx[c] \in Fds
    BY <1>1, <1>4 DEF MaybeFd
  <2>2. ASSUME NEW S \in SUBSET Fds, Closed(S, h, nx) PROVE nx[c] \in S
    <3>1. c \in S
      BY <1>4, <2>2 DEF Reach
    <3> QED
      BY <1>4, <2>2, <3>1 DEF Closed
  <2> QED
    BY <2>1, <2>2 DEF Reach
<1> QED
  BY <1>1, <1>2, <1>3, <1>4

(* Induction along the links. *)
LEMMA ReachLeast ==
    ASSUME NEW h \in MaybeFd, NEW nx \in [Fds -> MaybeFd], NEW S,
           h # NULL => h \in S,
           \A c \in Reach(h, nx) : c \in S /\ nx[c] # NULL => nx[c] \in S
    PROVE  Reach(h, nx) \subseteq S
<1> DEFINE T == S \cap Reach(h, nx)
<1>1. T \in SUBSET Fds
  BY ReachFacts
<1>2. h # NULL => h \in T
  BY ReachFacts
<1>3. \A c \in T : nx[c] # NULL => nx[c] \in T
  BY ReachFacts
<1>4. Closed(T, h, nx)
  BY <1>2, <1>3 DEF Closed
<1> HIDE DEF T
<1>5. \A c \in Reach(h, nx) : c \in T
  BY <1>1, <1>4 DEF Reach
<1> QED
  BY <1>5 DEF T

(* Links of slots that are not in the list do not matter. *)
LEMMA ReachSame ==
    ASSUME NEW h \in MaybeFd, NEW nx \in [Fds -> MaybeFd], NEW mx \in [Fds -> MaybeFd],
           \A c \in Reach(h, nx) : mx[c] = nx[c]
    PROVE  Reach(h, mx) = Reach(h, nx)
<1>1. Reach(h, mx) \subseteq Reach(h, nx)
  <2>1. h # NULL => h \in Reach(h, nx)
    BY ReachFacts
  <2>2. \A c \in Reach(h, nx) : nx[c] # NULL => nx[c] \in Reach(h, nx)
    BY ReachFacts
  <2>3. \A c \in Reach(h, mx) : c \in Reach(h, nx) /\ mx[c] # NULL => mx[c] \in Reach(h, nx)
    BY <2>2
  <2> QED
    BY <2>1, <2>3, ReachLeast
<1>2. Reach(h, nx) \subseteq Reach(h, mx)
  <2>1. h # NULL => h \in Reach(h, mx)
    BY ReachFacts
  <2>2. \A c \in Reach(h, mx) : mx[c] # NULL => mx[c] \in Reach(h, mx)
    BY ReachFacts
  <2>3. \A c \in Reach(h, nx) : c \in Reach(h, mx) /\ nx[c] # NULL => nx[c] \in Reach(h, mx)
    BY <2>2
  <2> QED
    BY <2>1, <2>3, ReachLeast
<1> QED
  BY <1>1, <1>2

(* The same of the list as a whole.                                        *)
LEMMA ListSame ==
    ASSUME NEW h \in MaybeFd, NEW tl \in MaybeFd,
           NEW nx \in [Fds -> MaybeFd], NEW mx \in [Fds -> MaybeFd],
           NEW pv \in [Fds -> MaybeFd], NEW qv \in [Fds -> MaybeFd],
           \A c \in Reach(h, nx) : mx[c] = nx[c] /\ qv[c] = pv[c],
           IsList(h, tl, pv, nx)
    PROVE  Reach(h, mx) = Reach(h, nx) /\ IsList(h, tl, qv, mx)
<1>1. Reach(h, mx) = Reach(h, nx)
  BY ReachSame
<1>2. h # NULL => h \in Reach(h, nx)
  BY ReachFacts
<1>3. \A c \in Reach(h, nx) : nx[c] # NULL => nx[c] \in Reach(h, nx)
  BY ReachFacts
<1>4. IsList(h, tl, qv, mx)
  BY <1>1, <1>2, <1>3 DEF IsList
<1> QED
  BY <1>1, <1>4

(* A slot whose links are both NULL is the only one of its list. *)
LEMMA ListAlone ==
    ASSUME NEW h \in MaybeFd, NEW tl \in MaybeFd,
           NEW nx \in [Fds -> MaybeFd], NEW pv \in [Fds -> MaybeFd],
           IsList(h, tl, pv, nx), NEW c \in Reach(h, nx), pv[c] = NULL, nx[c] = NULL
    PROVE  Reach(h, nx) = {c}
<1>1. h # NULL
  BY ReachFacts
<1>2. c = h
  BY <1>1 DEF IsList
<1>3. Reach(h, nx) \subseteq {c}
  BY <1>2, ReachLeast
<1> QED
  BY <1>3

(* HASH_MAKE_TABLE: the list of one. *)
LEMMA ListNew ==
    ASSUME NEW c \in Fds, NEW nx \in [Fds -> MaybeFd], NEW pv \in [Fds -> MaybeFd],
           pv[c] = NULL, nx[c] = NULL
    PROVE  Reach(c, nx) = {c} /\ IsList(c, c, pv, nx)
<1>1. c # NULL /\ c \in MaybeFd
  BY LoopAssumption DEF MaybeFd
<1>2. c \in Reach(c, nx)
  BY <1>1, ReachFacts
<1>3. Reach(c, nx) \subseteq {c}
  BY <1>1, ReachLeast
<1>4. Reach(c, nx) = {c}
  BY <1>2, <1>3
<1> QED
  BY <1>4 DEF IsList

(* The links when HASH_ADD has put c behind the tail. *)
NextAdded(nx, tl, c) == [nx EXCEPT ![c] = NULL, ![tl] = c]
PrevAdded(pv, tl, c) == [pv EXCEPT ![c] = tl]

(* HASH_ADD: the list has one more, and ends with it. *)
LEMMA ListAppend ==
    ASSUME NEW h \in Fds, NEW tl \in MaybeFd,
           NEW nx \in [Fds -> MaybeFd], NEW pv \in [Fds -> MaybeFd],
           IsList(h, tl, pv, nx), NEW c \in Fds, c \notin Reach(h, nx)
    PROVE  /\ Reach(h, NextAdded(nx, tl, c)) = Reach(h, nx) \cup {c}
           /\ IsList(h, c, PrevAdded(pv, tl, c), NextAdded(nx, tl, c))
<1> DEFINE mx == NextAdded(nx, tl, c)
           qv == PrevAdded(pv, tl, c)
<1>0. /\ mx \in [Fds -> MaybeFd] /\ qv \in [Fds -> MaybeFd]
      /\ mx[c] = NULL /\ mx[tl] = c /\ qv[c] = tl
      /\ \A d \in Fds \ {c, tl} : mx[d] = nx[d]
      /\ \A d \in Fds \ {c} : qv[d] = pv[d]
  <2>1. tl \in Reach(h, nx) /\ tl \in Fds /\ tl # c
    <3>1. h # NULL /\ h \in MaybeFd
      BY LoopAssumption DEF MaybeFd
    <3> QED
      BY <3>1, ReachFacts DEF IsList
  <2> QED
    BY <2>1 DEF MaybeFd, NextAdded, PrevAdded
<1> HIDE DEF mx, qv
<1> DEFINE L == Reach(h, nx)
           M == Reach(h, mx)
<1>1. h # NULL /\ c # NULL /\ h \in MaybeFd
  BY LoopAssumption DEF MaybeFd
<1>2. /\ L \subseteq Fds /\ h \in L
      /\ \A d \in L : nx[d] # NULL => nx[d] \in L
  BY <1>0, <1>1, ReachFacts
<1>3. /\ M \subseteq Fds /\ h \in M
      /\ \A d \in M : mx[d] # NULL => mx[d] \in M
  BY <1>0, <1>1, ReachFacts
<1>4. /\ pv[h] = NULL
      /\ tl \in L /\ nx[tl] = NULL
      /\ \A d \in L :
            /\ nx[d] # NULL => pv[nx[d]] = d
            /\ pv[d] # NULL => pv[d] \in L /\ nx[pv[d]] = d
            /\ nx[d] = NULL => d = tl
            /\ pv[d] = NULL => d = h
  BY <1>1 DEF IsList
<1>5. tl # c /\ tl \in Fds /\ c \notin L /\ NULL \notin Fds
  BY <1>2, <1>4, LoopAssumption
<1>6. \A d \in L : d # tl => mx[d] = nx[d]
  BY <1>0, <1>2, <1>5
<1>7. M \subseteq L \cup {c}
  <2>1. \A d \in M : d \in L \cup {c} /\ mx[d] # NULL => mx[d] \in L \cup {c}
    BY <1>0, <1>2, <1>5, <1>6
  <2>2. h \in L \cup {c}
    BY <1>2
  <2> HIDE DEF L
  <2> QED
    BY <1>0, <1>1, <2>1, <2>2, ReachLeast
<1>8. L \subseteq M
  <2>1. \A d \in L : d \in M /\ nx[d] # NULL => nx[d] \in M
    BY <1>3, <1>4, <1>6
  <2> HIDE DEF M
  <2> QED
    BY <1>0, <1>1, <1>3, <2>1, ReachLeast
<1>9. c \in M
  BY <1>0, <1>1, <1>3, <1>4, <1>8
<1>10. M = L \cup {c}
  BY <1>7, <1>8, <1>9
<1>11. \A d \in L : qv[d] = pv[d]
  BY <1>0, <1>2, <1>5
<1>12. IsList(h, c, qv, mx)
  <2>1. qv[h] = NULL
    BY <1>2, <1>4, <1>11
  <2>2. ASSUME NEW d \in M
        PROVE  /\ mx[d] # NULL => qv[mx[d]] = d
               /\ qv[d] # NULL => qv[d] \in M /\ mx[qv[d]] = d
               /\ mx[d] = NULL => d = c
               /\ qv[d] = NULL => d = h
    <3>1. CASE d = c
      BY <1>0, <1>4, <1>5, <1>8, <3>1
    <3>2. CASE d = tl
      BY <1>0, <1>1, <1>4, <1>5, <1>6, <1>8, <1>11, <3>2
    <3>3. CASE d \in L /\ d # tl
      <4> HIDE DEF L, M
      <4>1. nx[d] # NULL /\ mx[d] = nx[d] /\ qv[d] = pv[d] /\ d # NULL
        BY <1>2, <1>4, <1>5, <1>6, <1>11, <3>3
      <4>2. qv[mx[d]] = d
        BY <1>2, <1>4, <1>11, <3>3, <4>1
      <4>3. pv[d] # NULL => pv[d] \in L /\ pv[d] # tl /\ nx[pv[d]] = d
        BY <1>4, <3>3, <4>1
      <4> QED
        BY <1>4, <1>6, <1>8, <3>3, <4>1, <4>2, <4>3
    <3> QED
      BY <1>10, <3>1, <3>2, <3>3
  <2> QED
    BY <1>0, <1>9, <2>1, <2>2 DEF IsList
<1> QED
  BY <1>10, <1>12 DEF mx, qv

(* The links, the head and the tail when HASH_DELETE has taken c out. *)
NextDeleted(nx, pv, c) == [d \in Fds |-> IF d = pv[c] THEN nx[c] ELSE nx[d]]
PrevDeleted(nx, pv, c) == [d \in Fds |-> IF d = nx[c] THEN pv[c] ELSE pv[d]]
HeadDeleted(h, nx, pv, c) == IF pv[c] = NULL THEN nx[c] ELSE h
TailDeleted(tl, pv, c) == IF tl = c THEN pv[c] ELSE tl

(* HASH_DELETE of one that has a neighbour: the list has all others, and   *)
(* what c was linked to is still there to be found.                        *)
LEMMA ListDelete ==
    ASSUME NEW h \in Fds, NEW tl \in MaybeFd,
           NEW nx \in [Fds -> MaybeFd], NEW pv \in [Fds -> MaybeFd],
           IsList(h, tl, pv, nx), NEW c \in Reach(h, nx),
           ~(pv[c] = NULL /\ nx[c] = NULL)
    PROVE  LET mx == NextDeleted(nx, pv, c)
               qv == PrevDeleted(nx, pv, c)
               g  == HeadDeleted(h, nx, pv, c)
               ul == TailDeleted(tl, pv, c)
           IN  /\ Reach(g, mx) = Reach(h, nx) \ {c} /\ IsList(g, ul, qv, mx)
               /\ g \in Fds /\ ul \in MaybeFd
               /\ mx[c] = nx[c]
               /\ nx[c] # NULL => nx[c] \in Reach(g, mx)
<1> DEFINE mx == NextDeleted(nx, pv, c)
           qv == PrevDeleted(nx, pv, c)
           g  == HeadDeleted(h, nx, pv, c)
           ul == TailDeleted(tl, pv, c)
<1>0. /\ mx \in [Fds -> MaybeFd] /\ qv \in [Fds -> MaybeFd]
      /\ \A d \in Fds : mx[d] = IF d = pv[c] THEN nx[c] ELSE nx[d]
      /\ \A d \in Fds : qv[d] = IF d = nx[c] THEN pv[c] ELSE pv[d]
      /\ g = IF pv[c] = NULL THEN nx[c] ELSE h
      /\ ul = IF tl = c THEN pv[c] ELSE tl
  <2>1. c \in Fds
    BY DEF Reach
  <2> QED
    BY <2>1 DEF NextDeleted, PrevDeleted, HeadDeleted, TailDeleted
<1> HIDE DEF mx, qv, g, ul
<1> DEFINE L == Reach(h, nx)
           M == Reach(g, mx)
           p == pv[c]
           n == nx[c]
<1>1. h # NULL /\ h \in MaybeFd /\ NULL \notin Fds
  BY LoopAssumption DEF MaybeFd
<1>2. /\ L \subseteq Fds /\ h \in L /\ c \in L /\ c \in Fds
      /\ \A d \in L : nx[d] # NULL => nx[d] \in L
  BY <1>0, <1>1, ReachFacts
<1>3. /\ pv[h] = NULL
      /\ tl \in L /\ nx[tl] = NULL
      /\ \A d \in L :
            /\ nx[d] # NULL => pv[nx[d]] = d
            /\ pv[d] # NULL => pv[d] \in L /\ nx[pv[d]] = d
            /\ nx[d] = NULL => d = tl
            /\ pv[d] = NULL => d = h
  BY <1>0, <1>1 DEF IsList
<1>4. p \in MaybeFd /\ n \in MaybeFd /\ ~(p = NULL /\ n = NULL)
  BY <1>0, <1>2
<1>5. /\ \A d \in L : mx[d] = IF d = p THEN n ELSE nx[d]
      /\ \A d \in L : qv[d] = IF d = n THEN p ELSE pv[d]
  BY <1>0, <1>2
(* A slot that leads to itself is not met from the head. *)
<1>6. n # c /\ p # c
  <2>1. ASSUME n = c PROVE FALSE
    <3>1. p = c /\ c # NULL
      BY <1>0, <1>1, <1>2, <1>3, <2>1
    <3>2. h # c
      BY <1>0, <1>3, <3>1
    <3>3. \A d \in L : d # c /\ nx[d] # NULL => nx[d] # c
      BY <1>0, <1>3, <3>1
    <3>4. L \subseteq L \ {c}
      <4>1. h \in L \ {c}
        BY <1>0, <1>2, <3>2
      <4>2. \A d \in L : d \in L \ {c} /\ nx[d] # NULL => nx[d] \in L \ {c}
        BY <1>0, <1>2, <3>3
      <4> HIDE DEF L
      <4>3. \A S : (\A d \in Reach(h, nx) : d \in S /\ nx[d] # NULL => nx[d] \in S) /\ h \in S
                      => Reach(h, nx) \subseteq S
        BY <1>0, <1>1, ReachLeast
      <4> QED
        BY <1>0, <4>1, <4>2, <4>3 DEF L
    <3> QED
      BY <1>0, <1>2, <3>4
  <2>2. ASSUME p = c PROVE FALSE
    <3>1. n = c
      BY <1>0, <1>1, <1>2, <1>3, <2>2
    <3> QED
      BY <1>0, <2>1, <3>1
  <2> QED
    BY <1>0, <2>1, <2>2
<1>7. /\ p # NULL => p \in L /\ nx[p] = c
      /\ n # NULL => n \in L /\ pv[n] = c
      /\ p = NULL => h = c
      /\ n = NULL => tl = c
  BY <1>0, <1>2, <1>3
<1>8. g \in Fds /\ g \in L /\ g # c /\ g # NULL /\ g \in MaybeFd
  <2>1. CASE p = NULL
    BY <1>0, <1>1, <1>2, <1>4, <1>6, <1>7, <2>1 DEF MaybeFd
  <2>2. CASE p # NULL
    <3>1. h # c
      BY <1>0, <1>3, <2>2
    <3> QED
      BY <1>0, <1>1, <1>2, <2>2, <3>1
  <2> QED
    BY <1>0, <2>1, <2>2
<1>9. ul \in L /\ ul # c /\ ul \in MaybeFd
  <2>1. CASE tl = c
    <3>1. n = NULL
      BY <1>0, <1>3, <2>1
    <3> QED
      BY <1>0, <1>2, <1>4, <1>6, <1>7, <2>1, <3>1 DEF MaybeFd
  <2>2. CASE tl # c
    BY <1>0, <1>3, <2>2
  <2> QED
    BY <1>0, <2>1, <2>2
<1>10. /\ M \subseteq Fds /\ g \in M
       /\ \A d \in M : mx[d] # NULL => mx[d] \in M
  BY <1>0, <1>8, ReachFacts
<1>11. \A d \in L : d # c /\ nx[d] = c => d = p
  BY <1>0, <1>1, <1>2, <1>3
<1> HIDE DEF L, M, p, n
<1>12. M \subseteq L \ {c}
  <2>1. \A d \in L : d # c /\ mx[d] # NULL => mx[d] \in L \ {c}
    BY <1>0, <1>2, <1>5, <1>6, <1>7, <1>11
  <2>2. \A d \in M : d \in L \ {c} /\ mx[d] # NULL => mx[d] \in L \ {c}
    BY <1>0, <2>1
  <2>3. g \in L \ {c}
    BY <1>0, <1>8
  <2> QED
    BY <1>0, <1>8, <2>2, <2>3, ReachLeast DEF M
<1>13. L \ {c} \subseteq M
  <2> DEFINE S == IF p = NULL \/ p \in M THEN M \cup {c} ELSE M
  <2>1. h \in S
    BY <1>0, <1>7, <1>10 DEF p, n
  <2>2. ASSUME NEW d \in L, d \in S, nx[d] # NULL PROVE nx[d] \in S
    <3>1. CASE d = c
      <4>1. n # NULL /\ nx[d] = n
        BY <1>0, <2>2, <3>1 DEF n
      <4>2. CASE p = NULL
        BY <1>0, <1>10, <4>1, <4>2 DEF p, n
      <4>3. CASE p # NULL
        <5>1. p \in M
          BY <1>0, <1>12, <2>2, <3>1, <4>3
        <5>2. mx[p] = n
          BY <1>0, <1>5, <1>7, <4>3
        <5> QED
          BY <1>0, <1>10, <4>1, <5>1, <5>2
      <4> QED
        BY <1>0, <4>2, <4>3
    <3>2. CASE d # c /\ nx[d] = c
      <4>1. d = p /\ d \in M
        BY <1>0, <1>11, <2>2, <3>2
      <4> QED
        BY <1>0, <3>2, <4>1
    <3>3. CASE d # c /\ nx[d] # c
      <4>1. d \in M /\ (d = p => nx[d] = c)
        BY <1>0, <1>1, <1>2, <1>7, <2>2, <3>3
      <4>2. mx[d] = nx[d]
        BY <1>0, <1>5, <3>3, <4>1
      <4> QED
        BY <1>0, <1>10, <2>2, <4>1, <4>2
    <3> QED
      BY <1>0, <3>1, <3>2, <3>3
  <2> HIDE DEF S
  <2>3. L \subseteq S
    BY <1>0, <1>1, <2>1, <2>2, ReachLeast DEF L
  <2> QED
    BY <1>0, <2>3 DEF S
<1>14. M = L \ {c}
  BY <1>0, <1>12, <1>13
<1>15. IsList(g, ul, qv, mx)
  <2>1. qv[g] = NULL
    <3>1. CASE p = NULL
      BY <1>0, <1>5, <1>7, <1>8, <3>1 DEF p, n
    <3>2. CASE p # NULL
      <4>1. g = h /\ h # n
        BY <1>0, <1>3, <1>7, <1>1, <1>2, <3>2 DEF p
      <4> QED
        BY <1>0, <1>2, <1>3, <1>5, <4>1
    <3> QED
      BY <1>0, <3>1, <3>2
  <2>2. ul \in M /\ mx[ul] = NULL
    <3>1. CASE tl = c
      BY <1>0, <1>1, <1>3, <1>4, <1>5, <1>9, <1>14, <3>1 DEF p, n
    <3>2. CASE tl # c
      <4>1. tl # p
        BY <1>0, <1>1, <1>2, <1>3, <1>7
      <4> QED
        BY <1>0, <1>3, <1>5, <1>9, <1>14, <3>2, <4>1
    <3> QED
      BY <1>0, <3>1, <3>2
  <2>3. ASSUME NEW d \in M
        PROVE  /\ mx[d] # NULL => qv[mx[d]] = d
               /\ qv[d] # NULL => qv[d] \in M /\ mx[qv[d]] = d
               /\ mx[d] = NULL => d = ul
               /\ qv[d] = NULL => d = g
    <3>1. d \in L /\ d # c /\ d # NULL
      BY <1>0, <1>1, <1>2, <1>14
    <3>2. mx[d] # NULL => qv[mx[d]] = d
      <4>1. CASE d = p
        BY <1>0, <1>5, <1>7, <3>1, <4>1
      <4>2. CASE d # p
        <5>1. mx[d] = nx[d] /\ (nx[d] # NULL => nx[d] \in L /\ nx[d] # c /\ pv[nx[d]] = d)
          BY <1>0, <1>2, <1>3, <1>5, <1>11, <3>1, <4>2
        <5>2. nx[d] # NULL => nx[d] # n
          BY <1>0, <1>7, <3>1, <5>1
        <5> QED
          BY <1>0, <1>5, <5>1, <5>2
      <4> QED
        BY <1>0, <4>1, <4>2
    <3>3. qv[d] # NULL => qv[d] \in M /\ mx[qv[d]] = d
      <4>1. CASE d = n
        BY <1>0, <1>5, <1>6, <1>7, <1>14, <3>1, <4>1
      <4>2. CASE d # n
        <5>1. qv[d] = pv[d] /\ (pv[d] # NULL => pv[d] \in L /\ nx[pv[d]] = d)
          BY <1>0, <1>3, <1>5, <3>1, <4>2
        <5>2. pv[d] # NULL => pv[d] # c /\ pv[d] # p
          BY <1>0, <1>7, <3>1, <4>2, <5>1 DEF n
        <5> QED
          BY <1>0, <1>5, <1>14, <5>1, <5>2
      <4> QED
        BY <1>0, <4>1, <4>2
    <3>4. mx[d] = NULL => d = ul
      <4>1. CASE d = p
        <5>1. mx[d] = NULL => n = NULL
          BY <1>0, <1>5, <3>1, <4>1
        <5> QED
          BY <1>0, <1>7, <4>1, <5>1 DEF p
      <4>2. CASE d # p
        BY <1>0, <1>3, <1>5, <3>1, <4>2
      <4> QED
        BY <1>0, <4>1, <4>2
    <3>5. qv[d] = NULL => d = g
      <4>1. CASE d = n
        <5>1. qv[d] = NULL => p = NULL
          BY <1>0, <1>5, <3>1, <4>1
        <5> QED
          BY <1>0, <4>1, <5>1 DEF p, n
      <4>2. CASE d # n
        <5>1. qv[d] = NULL => d = h /\ p # NULL
          BY <1>0, <1>3, <1>5, <1>7, <3>1, <4>2
        <5> QED
          BY <1>0, <5>1 DEF p
      <4> QED
        BY <1>0, <4>1, <4>2
    <3> QED
      BY <1>0, <3>2, <3>3, <3>4, <3>5
  <2> QED
    BY <1>0, <2>1, <2>2, <2>3 DEF IsList, M
<1>16. mx[c] = n
  BY <1>0, <1>5, <1>2, <1>6 DEF n
<1>17. n # NULL => n \in M
  BY <1>0, <1>6, <1>7, <1>14
<1> QED
  BY <1>8, <1>9, <1>14, <1>15, <1>16, <1>17 DEF L, M, p, n, mx, qv, g, ul
-----------------------------------------------------------------------------
(* What is in a table. *)
LEMMA LinkedFacts ==
    ASSUME TableTypes, NEW t \in Threads
    PROVE  /\ Linked(t) \subseteq Fds
           /\ contexts_by_ptr[t] = NULL => Linked(t) = {}
           /\ contexts_by_ptr[t] # NULL => contexts_by_ptr[t] \in Linked(t)
           /\ \A c \in Linked(t) : next[c] # NULL => next[c] \in Linked(t)
<1>1. contexts_by_ptr[t] \in MaybeFd /\ next \in [Fds -> MaybeFd]
  BY DEF TableTypes
<1> QED
  BY <1>1, ReachFacts DEF Linked

(* HASH_ADD_PTR of a slot that is in no table. *)
LEMMA HashAddFacts ==
    ASSUME TableTypes, TableInv, NEW t \in Threads, NEW c \in Fds,
           \A u \in Threads : c \notin Linked(u), Room(t), HashAdd(t, c),
           \A u \in Threads : u # t => Linked(t) \cap Linked(u) = {}
    PROVE  /\ TableTypes' /\ TableInv'
           /\ Linked(t)' = Linked(t) \cup {c}
           /\ \A u \in Threads : u # t => Linked(u)' = Linked(u)
           /\ \A d \in Fds : d \notin Linked(t) \cup {c} => next'[d] = next[d]
<1> DEFINE h == contexts_by_ptr[t]
           tl == tail[t]
<1>1. /\ c \in MaybeFd /\ NULL \in MaybeFd /\ c # NULL /\ NULL \notin Fds
      /\ h \in MaybeFd /\ tl \in MaybeFd /\ num_items[t] \in Nat
      /\ prev \in [Fds -> MaybeFd] /\ next \in [Fds -> MaybeFd]
      /\ 1 \in 0..MAX_FD_PER_LOOP
  BY LoopAssumption DEF TableTypes, MaybeFd
<1>2. /\ IsList(h, tl, prev, next)
      /\ IsFiniteSet(Linked(t)) /\ Cardinality(Linked(t)) = Count(t)
  BY DEF TableInv
<1>3. \A u \in Threads : u # t =>
         /\ contexts_by_ptr'[u] = contexts_by_ptr[u] /\ tail'[u] = tail[u]
         /\ num_items'[u] = num_items[u]
  BY DEF HashAdd, MakeTable, TableTypes
<1>4. /\ TableTypes'
      /\ contexts_by_ptr'[t] = IF h = NULL THEN c ELSE h
      /\ tail'[t] = c /\ num_items'[t] = Count(t) + 1
      /\ next'[c] = NULL
      /\ \A d \in Fds : d # c /\ (h = NULL \/ d # tl) => next'[d] = next[d]
      /\ \A d \in Fds : d # c => prev'[d] = prev[d]
  <2>1. CASE h = NULL
    BY <1>1, <2>1 DEF HashAdd, MakeTable, TableTypes, Count
  <2>2. CASE h # NULL
    <3>1. tl \in Linked(t) /\ tl \in Fds /\ tl # c
      <4>1. tl \in Linked(t)
        BY <1>2, <2>2 DEF IsList, Linked
      <4> QED
        BY <4>1, LinkedFacts
    <3>2. num_items[t] + 1 \in 0..MAX_FD_PER_LOOP
      BY <1>1, <2>2, LoopAssumption DEF Room, Count
    <3>3. /\ next' = [next EXCEPT ![c] = NULL, ![tl] = c]
          /\ prev' = [prev EXCEPT ![c] = tl]
          /\ tail' = [tail EXCEPT ![t] = c]
          /\ num_items' = [num_items EXCEPT ![t] = @ + 1]
          /\ contexts_by_ptr' = contexts_by_ptr
      BY <2>2 DEF HashAdd
    <3>4. TableTypes'
      BY <1>1, <3>2, <3>3 DEF TableTypes
    <3> QED
      BY <1>1, <2>2, <3>1, <3>2, <3>3, <3>4 DEF TableTypes, Count
  <2> QED
    BY <2>1, <2>2
<1>5. /\ Linked(t)' = Linked(t) \cup {c}
      /\ IsList(contexts_by_ptr[t], tail[t], prev, next)'
      /\ \A d \in Fds : d \notin Linked(t) \cup {c} => next'[d] = next[d]
  <2>1. next' \in [Fds -> MaybeFd] /\ prev' \in [Fds -> MaybeFd]
    BY <1>4 DEF TableTypes
  <2>2. CASE h = NULL
    <3>1. Linked(t) = {}
      BY <2>2, LinkedFacts
    <3>2. contexts_by_ptr'[t] = c /\ prev'[c] = NULL
      BY <1>1, <1>4, <2>2 DEF HashAdd, MakeTable
    <3>3. Reach(c, next') = {c} /\ IsList(c, c, prev', next')
      BY <1>4, <2>1, <3>2, ListNew
    <3> QED
      BY <1>4, <2>2, <3>1, <3>2, <3>3 DEF Linked
  <2>3. CASE h # NULL
    <3>1. tl \in Linked(t) /\ tl \in Fds /\ tl # c /\ h \in Fds
      <4>1. tl \in Linked(t)
        BY <1>2, <2>3 DEF IsList, Linked
      <4> QED
        BY <1>1, <2>3, <4>1, LinkedFacts DEF MaybeFd
    <3>2. next' = NextAdded(next, tl, c) /\ prev' = PrevAdded(prev, tl, c)
      BY <2>3 DEF HashAdd, NextAdded, PrevAdded
    <3>3. Reach(h, next') = Reach(h, next) \cup {c} /\ IsList(h, c, prev', next')
      <4>1. /\ tl \in MaybeFd /\ IsList(h, tl, prev, next)
            /\ c \notin Reach(h, next)
            /\ prev \in [Fds -> MaybeFd] /\ next \in [Fds -> MaybeFd]
        BY <1>1, <1>2 DEF Linked
      <4> HIDE DEF h, tl
      <4> QED
        BY <3>1, <3>2, <4>1, ListAppend
    <3> QED
      BY <1>4, <2>3, <3>1, <3>3 DEF Linked
  <2> QED
    BY <2>2, <2>3
<1>6. IsFiniteSet(Linked(t))' /\ (Cardinality(Linked(t)) = Count(t))'
  <2>1. /\ IsFiniteSet(Linked(t) \cup {c})
        /\ Cardinality(Linked(t) \cup {c}) = Cardinality(Linked(t)) + 1
    BY <1>2, FS_AddElement
  <2>2. contexts_by_ptr'[t] # NULL
    BY <1>1, <1>4
  <2>3. Count(t)' = Count(t) + 1
    BY <1>4, <2>2 DEF Count
  <2> QED
    BY <1>2, <1>5, <2>1, <2>3
<1>7. ASSUME NEW u \in Threads, u # t
      PROVE  /\ Linked(u)' = Linked(u)
             /\ IsList(contexts_by_ptr[u], tail[u], prev, next)'
             /\ IsFiniteSet(Linked(u))' /\ (Cardinality(Linked(u)) = Count(u))'
  <2> DEFINE k == contexts_by_ptr[u]
             e == tail[u]
  <2>1. /\ k \in MaybeFd /\ e \in MaybeFd
        /\ next' \in [Fds -> MaybeFd] /\ prev' \in [Fds -> MaybeFd]
    BY <1>4 DEF TableTypes
  <2>2. /\ IsList(k, e, prev, next)
        /\ IsFiniteSet(Linked(u)) /\ Cardinality(Linked(u)) = Count(u)
    BY DEF TableInv
  <2>3. contexts_by_ptr'[u] = k /\ tail'[u] = e /\ num_items'[u] = num_items[u]
    BY <1>3, <1>7
  <2>4. Count(u)' = Count(u)
    BY <2>3 DEF Count
  <2>5. ASSUME NEW d \in Linked(u) PROVE next'[d] = next[d] /\ prev'[d] = prev[d]
    <3>1. d \in Fds /\ d # c /\ d \notin Linked(t)
      BY <1>7, <2>5, LinkedFacts
    <3> QED
      BY <1>4, <1>5, <3>1
  <2>6. Reach(k, next') = Reach(k, next) /\ IsList(k, e, prev', next')
    <3>1. \A d \in Reach(k, next) : next'[d] = next[d] /\ prev'[d] = prev[d]
      BY <2>5 DEF Linked
    <3> HIDE DEF k, e
    <3> QED
      BY <1>1, <2>1, <2>2, <3>1, ListSame
  <2>7. Linked(u)' = Linked(u)
    BY <2>3, <2>6 DEF Linked
  <2> QED
    BY <2>2, <2>3, <2>4, <2>6, <2>7
<1>8. TableInv'
  BY <1>5, <1>6, <1>7 DEF TableInv
<1> QED
  BY <1>4, <1>5, <1>7, <1>8

(* HASH_DEL of a slot that no other thread has in its table, when it finds *)
(* a table and stays in it.                                                *)
LEMMA HashDelFacts ==
    ASSUME TableTypes, TableInv, Running, NEW t \in Threads, NEW c \in Fds,
           \A u \in Threads : u # t => c \notin Linked(u),
           \A u \in Threads : u # t => Linked(t) \cap Linked(u) = {},
           HashDel(t, c), crashed' = NULL, astray' = NULL
    PROVE  /\ TableTypes' /\ TableInv'
           /\ Linked(t)' = IF c \in Linked(t) THEN Linked(t) \ {c} ELSE {}
           /\ \A u \in Threads : u # t => Linked(u)' = Linked(u)
           /\ \A d \in Fds : d \notin Linked(t) \ {c} => next'[d] = next[d]
           /\ c \in Linked(t) /\ next[c] # NULL => next[c] \in Linked(t)'
<1> DEFINE h == contexts_by_ptr[t]
           tl == tail[t]
<1>1. /\ NULL \in MaybeFd /\ c # NULL /\ NULL \notin Fds /\ NULL \notin Threads
      /\ h \in MaybeFd /\ tl \in MaybeFd /\ num_items[t] \in 0..MAX_FD_PER_LOOP
      /\ prev \in [Fds -> MaybeFd] /\ next \in [Fds -> MaybeFd]
      /\ MAX_FD_PER_LOOP \in Nat
  BY LoopAssumption DEF TableTypes, MaybeFd
<1>2. /\ IsList(h, tl, prev, next)
      /\ IsFiniteSet(Linked(t)) /\ Cardinality(Linked(t)) = Count(t)
  BY DEF TableInv
<1>3. h # NULL
  BY <1>1 DEF HashDel
<1>4. \A u \in Threads : u # t =>
         /\ contexts_by_ptr'[u] = contexts_by_ptr[u] /\ tail'[u] = tail[u]
         /\ num_items'[u] = num_items[u]
  BY <1>1, <1>3 DEF HashDel, TailAfter, TableTypes
<1>5. CASE Alone(c)
  <2>1. /\ contexts_by_ptr' = [contexts_by_ptr EXCEPT ![t] = NULL]
        /\ tail' = [tail EXCEPT ![t] = NULL]
        /\ num_items' = [num_items EXCEPT ![t] = 0]
        /\ prev' = prev /\ next' = next
    BY <1>1, <1>3, <1>5 DEF HashDel
  <2>2. TableTypes'
    BY <1>1, <2>1 DEF TableTypes
  <2>3. contexts_by_ptr'[t] = NULL
    BY <2>1 DEF TableTypes
  <2>4. Linked(t)' = {}
    BY <1>1, <2>1, <2>3, ReachFacts DEF Linked
  <2>5. c \in Linked(t) => Linked(t) = {c} /\ next[c] = NULL
    <3>1. c \in Linked(t) => Reach(h, next) = {c}
      <4> HIDE DEF h, tl
      <4> QED
        BY <1>1, <1>2, <1>5, ListAlone DEF Alone, Linked, h
    <3> QED
      BY <1>5, <3>1 DEF Alone, Linked
  <2>6. \A u \in Threads : u # t => Linked(u)' = Linked(u) /\ Count(u)' = Count(u)
    BY <1>4, <2>1 DEF Linked, Count
  <2>7. ASSUME NEW u \in Threads
        PROVE  /\ IsList(contexts_by_ptr'[u], tail'[u], prev', next')
               /\ IsFiniteSet(Linked(u))' /\ (Cardinality(Linked(u)) = Count(u))'
    <3>1. CASE u = t
      BY <2>3, <2>4, <3>1, FS_EmptySet DEF IsList, Count
    <3>2. CASE u # t
      BY <1>4, <2>1, <2>6, <3>2 DEF TableInv
    <3> QED
      BY <3>1, <3>2
  <2> QED
    BY <2>1, <2>2, <2>4, <2>5, <2>6, <2>7 DEF TableInv
<1>6. CASE ~Alone(c)
  <2>1. /\ c \in Linked(t)
        /\ next' = NextDeleted(next, prev, c) /\ prev' = PrevDeleted(next, prev, c)
    BY <1>1, <1>3, <1>6 DEF HashDel, PrevAfter, NextDeleted, PrevDeleted
  <2>2. /\ contexts_by_ptr' = [contexts_by_ptr EXCEPT
                                 ![t] = HeadDeleted(h, next, prev, c)]
        /\ tail' = [tail EXCEPT ![t] = TailDeleted(tl, prev, c)]
        /\ num_items' = [num_items EXCEPT ![t] = num_items[t] - 1]
    BY <1>1, <1>3, <1>6 DEF HashDel, TailAfter, HeadDeleted, TailDeleted
  <2>3. /\ contexts_by_ptr'[t] = HeadDeleted(h, next, prev, c)
        /\ tail'[t] = TailDeleted(tl, prev, c)
        /\ num_items'[t] = num_items[t] - 1
    BY <2>2 DEF TableTypes
  <2>4. /\ h \in Fds /\ c \in Reach(h, next) /\ ~(prev[c] = NULL /\ next[c] = NULL)
        /\ tl \in MaybeFd /\ IsList(h, tl, prev, next)
    BY <1>1, <1>2, <1>3, <1>6, <2>1 DEF Alone, Linked, MaybeFd
  <2>5. LET mx == NextDeleted(next, prev, c)
            qv == PrevDeleted(next, prev, c)
            g  == HeadDeleted(h, next, prev, c)
            ul == TailDeleted(tl, prev, c)
        IN  /\ Reach(g, mx) = Reach(h, next) \ {c} /\ IsList(g, ul, qv, mx)
            /\ g \in Fds /\ ul \in MaybeFd
            /\ mx[c] = next[c]
            /\ next[c] # NULL => next[c] \in Reach(g, mx)
    <3> HIDE DEF h, tl
    <3> QED
      BY <1>1, <2>4, ListDelete
  <2>6. /\ Linked(t)' = Linked(t) \ {c}
        /\ IsList(contexts_by_ptr'[t], tail'[t], prev', next')
        /\ contexts_by_ptr'[t] \in Fds /\ tail'[t] \in MaybeFd
        /\ next'[c] = next[c]
        /\ next[c] # NULL => next[c] \in Linked(t)'
    BY <2>1, <2>3, <2>5 DEF Linked
  <2>7. Cardinality(Linked(t)) # 0 /\ num_items[t] - 1 \in 0..MAX_FD_PER_LOOP
    <3>1. Cardinality(Linked(t)) # 0
      BY <1>2, <2>1, FS_EmptySet
    <3>2. num_items[t] # 0
      BY <1>2, <1>3, <3>1 DEF Count
    <3> QED
      BY <1>1, <3>1, <3>2
  <2>8. next' \in [Fds -> MaybeFd] /\ prev' \in [Fds -> MaybeFd]
    BY <1>1, <2>1 DEF NextDeleted, PrevDeleted
  <2>9. TableTypes'
    <3>1. contexts_by_ptr'[t] \in MaybeFd
      BY <2>6 DEF MaybeFd
    <3> QED
      BY <2>2, <2>3, <2>6, <2>7, <2>8, <3>1 DEF TableTypes
  <2>10. IsFiniteSet(Linked(t))' /\ (Cardinality(Linked(t)) = Count(t))'
    <3>1. /\ IsFiniteSet(Linked(t) \ {c})
          /\ Cardinality(Linked(t) \ {c}) = Cardinality(Linked(t)) - 1
      BY <1>2, <2>1, FS_RemoveElement
    <3>2. Count(t) = num_items[t] /\ Count(t)' = num_items[t] - 1
      BY <1>1, <1>3, <2>3, <2>6 DEF Count
    <3> QED
      BY <1>2, <2>6, <3>1, <3>2
  <2>11. /\ prev[c] # NULL => prev[c] \in Linked(t) /\ prev[c] # c
         /\ next[c] # NULL => next[c] \in Linked(t)
    <3>1. prev[c] # NULL => prev[c] \in Linked(t)
      BY <1>2, <1>3, <2>1 DEF IsList, Linked
    <3>2. next[c] # NULL => next[c] \in Linked(t)
      BY <2>6
    <3>3. prev[c] = c => next[c] = c
      BY <1>1, <1>2, <1>3, <2>1 DEF IsList, Linked
    <3>4. next[c] # c
      BY <1>1, <2>6
    <3> QED
      BY <3>1, <3>2, <3>3, <3>4
  <2>12. ASSUME NEW d \in Fds, d \notin Linked(t) \ {c} PROVE next'[d] = next[d]
    <3>1. CASE d = c
      BY <2>6, <3>1
    <3>2. CASE d # c
      <4>1. d # prev[c]
        BY <1>1, <2>11, <2>12, <3>2
      <4> QED
        BY <2>1, <4>1 DEF NextDeleted
    <3> QED
      BY <3>1, <3>2
  <2>13. ASSUME NEW d \in Fds, d \notin Linked(t) PROVE prev'[d] = prev[d]
    <3>1. d # next[c]
      BY <1>1, <2>11, <2>13
    <3> QED
      BY <2>1, <3>1 DEF PrevDeleted
  <2>14. ASSUME NEW u \in Threads, u # t
         PROVE  /\ Linked(u)' = Linked(u)
                /\ IsList(contexts_by_ptr'[u], tail'[u], prev', next')
                /\ IsFiniteSet(Linked(u))' /\ (Cardinality(Linked(u)) = Count(u))'
    <3> DEFINE k == contexts_by_ptr[u]
               e == tail[u]
    <3>1. /\ k \in MaybeFd /\ e \in MaybeFd
          /\ IsList(k, e, prev, next)
          /\ IsFiniteSet(Linked(u)) /\ Cardinality(Linked(u)) = Count(u)
      BY DEF TableInv, TableTypes
    <3>2. contexts_by_ptr'[u] = k /\ tail'[u] = e /\ Count(u)' = Count(u)
      BY <1>4, <2>14 DEF Count
    <3>3. \A d \in Linked(u) : d \in Fds /\ d \notin Linked(t)
      BY <2>14, LinkedFacts
    <3>4. \A d \in Reach(k, next) : next'[d] = next[d] /\ prev'[d] = prev[d]
      BY <2>12, <2>13, <3>3 DEF Linked
    <3>5. Reach(k, next') = Reach(k, next) /\ IsList(k, e, prev', next')
      <4> HIDE DEF k, e
      <4> QED
        BY <1>1, <2>8, <3>1, <3>4, ListSame
    <3> QED
      BY <3>1, <3>2, <3>5 DEF Linked
  <2>15. TableInv'
    BY <2>6, <2>10, <2>14 DEF TableInv
  <2> QED
    BY <2>1, <2>6, <2>9, <2>12, <2>14, <2>15
<1> QED
  BY <1>5, <1>6

(* A step that leaves the tables alone. *)
LEMMA TablesStay ==
    ASSUME UNCHANGED tableVars
    PROVE  /\ TableTypes => TableTypes'
           /\ TableInv => TableInv'
           /\ \A t \in Threads : Linked(t)' = Linked(t) /\ Count(t)' = Count(t)
<1>1. /\ contexts_by_ptr' = contexts_by_ptr /\ tail' = tail /\ num_items' = num_items
      /\ prev' = prev /\ next' = next
  BY DEF tableVars
<1>2. \A t \in Threads : Linked(t)' = Linked(t) /\ Count(t)' = Count(t)
  BY <1>1 DEF Linked, Count
<1> QED
  BY <1>1, <1>2 DEF TableTypes, TableInv
-----------------------------------------------------------------------------
(* The step of thread t that leaves what the others have in hand alone. *)
OthersStay(t) ==
    \A u \in Threads : u # t =>
        /\ pc'[u] = pc[u] /\ fd'[u] = fd[u] /\ events'[u] = events[u]
        /\ interest'[u] = interest[u] /\ l_sock'[u] = l_sock[u]

(* What the others have in hand stays.                                     *)
LEMMA OthersInHand ==
    ASSUME NEW t, OthersStay(t)
    PROVE  \A u \in Threads : u # t => InHand(u)' = InHand(u)
BY DEF OthersStay, InHand

(* A thread goes on with a round, without opening, closing or removing     *)
(* anything.                                                               *)
LEMMA RoundKeeps ==
    ASSUME IInv, Running, NEW t \in Threads, OthersStay(t), LoopTypes', crashed' = crashed,
           UNCHANGED <<kernelVars, l_sock, tableVars, overflowed, retaken>>,
           astray' # NULL => retaken \/ astray' \in overflowed,
           InHand(t) = {}, InHand(t)' = {}, events'[t] \subseteq interest[t],
           pc'[t] \in {"write", "wclose", "behind"} => events'[t] = {},
           Running' /\ pc'[t] = "write" => fd'[t] \in Linked(t),
           pc'[t] \notin {"start", "wclose", "behind"}
    PROVE  IInv'
<1>1. /\ open' = open /\ interest' = interest /\ l_sock' = l_sock
      /\ overflowed' = overflowed /\ retaken' = retaken /\ next' = next
  BY DEF kernelVars, tableVars
<1>2. RunInv
  BY DEF IInv
<1>3. \A u \in Threads : Linked(u)' = Linked(u)
  BY TablesStay
<1>4. \A u \in Threads : InHand(u)' = InHand(u)
  BY OthersInHand
<1>5. \A u \in Threads : Mine(u)' = Mine(u)
  BY <1>1, <1>3, <1>4 DEF Mine
<1>6. TableTypes' /\ Flag' /\ FaultsExplained'
  <2>1. TableTypes' /\ Flag'
    BY <1>1, TablesStay DEF IInv, Flag
  <2>2. crashed' = NULL
    BY DEF Running
  <2> QED
    BY <1>1, <2>1, <2>2 DEF FaultsExplained
<1>7. TableInv'
  BY <1>2, TablesStay DEF RunInv
<1>8. OwnInv'
  BY <1>1, <1>2, <1>3, <1>4, <1>5 DEF RunInv, OwnInv
<1>9. ListenInv'
  <2>1. \A u \in Threads : pc'[u] = "start" => pc[u] = "start"
    BY DEF OthersStay
  <2> QED
    BY <1>1, <1>2, <1>3, <1>4, <1>5, <2>1 DEF RunInv, ListenInv, IInv, LoopTypes
<1>10. EventInv'
  BY <1>1, <1>2, <1>4 DEF RunInv, EventInv, OthersStay
<1>11. Running' => WalkInv'
  <2> SUFFICES ASSUME Running', NEW u \in Threads
               PROVE  /\ pc'[u] = "write" => fd'[u] \in Linked(u)
                      /\ pc'[u] \in {"wclose", "behind"} /\ ~retaken =>
                            /\ next[fd'[u]] \in Linked(u) \cup {NULL}
                            /\ \A v \in Threads : fd'[u] \notin Linked(v)
    BY <1>1, <1>3 DEF WalkInv
  <2>1. CASE u = t
    BY <2>1
  <2>2. CASE u # t
    BY <1>2, <2>2 DEF RunInv, WalkInv, OthersStay
  <2> QED
    BY <2>1, <2>2
<1>12. AccountInv'
  BY <1>1, <1>2, <1>3, <1>4 DEF RunInv, AccountInv
<1> QED
  BY <1>6, <1>7, <1>8, <1>9, <1>10, <1>11, <1>12 DEF IInv, RunInv

(* remove_client takes slot c out of the table of thread t. *)
LEMMA RemoveKeeps ==
    ASSUME IInv, Running, NEW t \in Threads, NEW c \in Fds, NEW to \in {"close", "wclose"},
           OthersStay(t), LoopTypes', HashDel(t, c), pc'[t] = to, fd'[t] = c,
           UNCHANGED <<interest, l_sock, retaken>>, InHand(t) = {},
           c \in Linked(t) \cup interest[t],
           \/ open' = open /\ overflowed' = overflowed
           \/ open \subseteq open' /\ overflowed' = overflowed \cup {t},
           t \notin overflowed' => c \in Linked(t) /\ c # l_sock[t],
           t \in overflowed' /\ l_sock[t] \in interest[t] => c = l_sock[t],
           events'[t] \subseteq interest[t] \ {c},
           to = "wclose" => events'[t] = {} /\ c \in Linked(t)
    PROVE  IInv'
<1>1. /\ interest' = interest /\ l_sock' = l_sock /\ retaken' = retaken
  OBVIOUS
<1>2. /\ RunInv /\ TableTypes /\ LoopTypes /\ Flag /\ TableInv
      /\ NULL \notin Fds /\ NULL \notin Threads
  BY LoopAssumption DEF IInv, RunInv
<1>3. Flag'
  BY <1>2 DEF Flag
<1>4. FaultsExplained'
  <2>1. crashed = NULL /\ astray = NULL
    BY DEF Running
  <2>2. crashed' \in {NULL, t} /\ astray' \in {NULL, t}
    BY <2>1 DEF HashDel
  <2>3. t \notin overflowed' => crashed' = NULL /\ astray' = NULL
    <3>1. c \in Linked(t) => contexts_by_ptr[t] # NULL
      BY <1>2, LinkedFacts
    <3> QED
      BY <1>2, <2>1, <3>1 DEF HashDel
  <2> QED
    BY <2>2, <2>3 DEF FaultsExplained
<1>5. CASE ~Running'
  <2>1. TableTypes'
    <3>1. crashed' # NULL \/ astray' # NULL
      BY <1>5 DEF Running
    <3>2. UNCHANGED tableVars
      BY <3>1 DEF HashDel, Running
    <3> QED
      BY <1>2, <3>2, TablesStay
  <2> QED
    BY <1>3, <1>4, <1>5, <2>1 DEF IInv
<1>6. CASE Running'
  <2>1. \A u \in Threads : u # t => c \notin Linked(u) /\ Linked(t) \cap Linked(u) = {}
    BY <1>2 DEF RunInv, OwnInv, Mine
  <2>2. /\ TableTypes' /\ TableInv'
        /\ Linked(t)' = IF c \in Linked(t) THEN Linked(t) \ {c} ELSE {}
        /\ \A u \in Threads : u # t => Linked(u)' = Linked(u)
        /\ \A d \in Fds : d \notin Linked(t) \ {c} => next'[d] = next[d]
        /\ c \in Linked(t) /\ next[c] # NULL => next[c] \in Linked(t)'
    <3>1. crashed' = NULL /\ astray' = NULL
      BY <1>6 DEF Running
    <3> QED
      BY <1>2, <2>1, <3>1, HashDelFacts
  <2>3. InHand(t)' = {c} /\ \A u \in Threads : u # t => InHand(u)' = InHand(u)
    BY OthersInHand DEF InHand
  <2>4. Mine(t)' \subseteq Mine(t) /\ \A u \in Threads : u # t => Mine(u)' = Mine(u)
    BY <1>1, <2>2, <2>3 DEF Mine
  <2>5. c \notin Linked(t)' /\ Linked(t)' \subseteq Linked(t)
    BY <2>2
  <2>6. open \subseteq open'
    OBVIOUS
  <2>7. OwnInv'
    <3>1. ASSUME NEW u \in Threads
          PROVE  Mine(u)' \subseteq open' /\ Linked(u)' \cap InHand(u)' = {}
      <4>1. Mine(u) \subseteq open /\ Linked(u) \cap InHand(u) = {}
        BY <1>2 DEF RunInv, OwnInv
      <4>2. CASE u = t
        BY <2>3, <2>4, <2>5, <2>6, <4>1, <4>2
      <4>3. CASE u # t
        BY <2>2, <2>3, <2>4, <2>6, <4>1, <4>3
      <4> QED
        BY <4>2, <4>3
    <3>2. ASSUME NEW u \in Threads, NEW v \in Threads, u # v
          PROVE  Mine(u)' \cap Mine(v)' = {}
      <4>1. Mine(u) \cap Mine(v) = {}
        BY <1>2, <3>2 DEF RunInv, OwnInv
      <4>2. Mine(u)' \subseteq Mine(u) /\ Mine(v)' \subseteq Mine(v)
        BY <2>4
      <4> QED
        BY <4>1, <4>2
    <3> QED
      BY <3>1, <3>2 DEF OwnInv
  <2>8. ListenInv'
    <3>1. ASSUME NEW u \in Threads \ overflowed'
          PROVE  /\ l_sock[u] \in open' \cup {NULL}
                 /\ l_sock[u] \notin Linked(u)' \cup InHand(u)'
                 /\ \A v \in Threads \ {u} : l_sock[u] \notin Mine(v)'
      <4>1. /\ l_sock[u] \in open \cup {NULL}
            /\ l_sock[u] \notin Linked(u) \cup InHand(u)
            /\ \A v \in Threads \ {u} : l_sock[u] \notin Mine(v)
        BY <1>2 DEF RunInv, ListenInv
      <4>2. \A v \in Threads \ {u} : l_sock[u] \notin Mine(v)'
        BY <2>4, <4>1
      <4>3. CASE u = t
        BY <2>3, <2>5, <2>6, <4>1, <4>2, <4>3
      <4>4. CASE u # t
        BY <2>2, <2>3, <2>6, <4>1, <4>2, <4>4
      <4> QED
        BY <4>3, <4>4
    <3>2. ASSUME NEW u \in overflowed', l_sock[u] \in interest[u]
          PROVE  InHand(u)' = {l_sock[u]}
      <4>1. CASE u = t
        BY <2>3, <3>2, <4>1
      <4>2. CASE u # t
        <5>1. u \in overflowed /\ u \in Threads
          BY <1>2, <3>2, <4>2 DEF LoopTypes
        <5> QED
          BY <1>2, <2>3, <3>2, <4>2, <5>1 DEF RunInv, ListenInv
      <4> QED
        BY <4>1, <4>2
    <3>3. ASSUME NEW u \in Threads, pc'[u] = "start"
          PROVE  l_sock[u] = NULL /\ u \notin overflowed'
      <4>1. u # t /\ pc[u] = "start"
        BY <3>3 DEF OthersStay
      <4> QED
        BY <1>2, <4>1 DEF RunInv, ListenInv
    <3> QED
      BY <1>1, <3>1, <3>2, <3>3 DEF ListenInv
  <2>9. EventInv'
    <3> SUFFICES ASSUME NEW u \in Threads
                 PROVE  /\ events'[u] \subseteq interest[u]
                        /\ events'[u] \cap InHand(u)' = {}
                        /\ pc'[u] \in {"write", "wclose", "behind"} => events'[u] = {}
      BY <1>1 DEF EventInv
    <3>1. CASE u = t
      BY <2>3, <3>1
    <3>2. CASE u # t
      BY <1>2, <2>3, <3>2 DEF RunInv, EventInv, OthersStay
    <3> QED
      BY <3>1, <3>2
  <2>10. WalkInv'
    <3> SUFFICES ASSUME NEW u \in Threads
                 PROVE  /\ pc'[u] = "write" => fd'[u] \in Linked(u)'
                        /\ pc'[u] \in {"wclose", "behind"} /\ ~retaken =>
                              /\ next'[fd'[u]] \in Linked(u)' \cup {NULL}
                              /\ \A v \in Threads : fd'[u] \notin Linked(v)'
      BY <1>1 DEF WalkInv
    <3>1. CASE u = t
      <4>1. \A v \in Threads : c \notin Linked(v)'
        BY <2>1, <2>2, <2>5
      <4>2. next'[c] = next[c]
        BY <2>2
      <4> QED
        BY <2>2, <3>1, <4>1, <4>2
    <3>2. CASE u # t
      <4>1. pc'[u] = pc[u] /\ fd'[u] = fd[u] /\ Linked(u)' = Linked(u)
        BY <2>2, <3>2 DEF OthersStay
      <4>2. /\ pc[u] = "write" => fd[u] \in Linked(u)
            /\ pc[u] \in {"wclose", "behind"} /\ ~retaken =>
                  /\ next[fd[u]] \in Linked(u) \cup {NULL}
                  /\ \A v \in Threads : fd[u] \notin Linked(v)
        BY <1>2 DEF RunInv, WalkInv
      <4>3. \A v \in Threads : Linked(v)' \subseteq Linked(v)
        BY <2>2, <2>5
      <4>4. pc[u] \in {"wclose", "behind"} => fd[u] \in Fds
        BY <1>2 DEF LoopTypes, MaybeFd
      <4>5. pc[u] \in {"wclose", "behind"} /\ ~retaken => next'[fd[u]] = next[fd[u]]
        BY <2>2, <4>2, <4>4
      <4> QED
        BY <4>1, <4>2, <4>3, <4>5
    <3> QED
      BY <3>1, <3>2
  <2>11. AccountInv'
    <3>1. \A u \in Threads : t \notin overflowed' =>
             Linked(u)' \cup {l_sock[u]} \cup InHand(u)'
               = Linked(u) \cup {l_sock[u]} \cup InHand(u)
      BY <2>2, <2>3
    <3>2. ASSUME NEW u \in Threads \ overflowed'
          PROVE  interest[u] \subseteq Linked(u)' \cup {l_sock[u]} \cup InHand(u)'
      <4>1. interest[u] \subseteq Linked(u) \cup {l_sock[u]} \cup InHand(u)
        BY <1>2 DEF RunInv, AccountInv
      <4>2. CASE u = t
        BY <3>1, <4>1, <4>2
      <4>3. CASE u # t
        BY <2>2, <2>3, <4>1, <4>3
      <4> QED
        BY <4>2, <4>3
    <3>3. ASSUME overflowed' = {}, NEW d \in open'
          PROVE  \E u \in Threads : d \in Linked(u)' \cup {l_sock[u]} \cup InHand(u)'
      <4>1. overflowed = {} /\ d \in open /\ t \notin overflowed'
        BY <3>3
      <4>2. PICK u \in Threads : d \in Linked(u) \cup {l_sock[u]} \cup InHand(u)
        BY <1>2, <4>1 DEF RunInv, AccountInv
      <4> QED
        BY <3>1, <4>1, <4>2
    <3> QED
      BY <1>1, <3>2, <3>3 DEF AccountInv
  <2> QED
    BY <1>3, <1>4, <2>2, <2>7, <2>8, <2>9, <2>10, <2>11 DEF IInv, RunInv
<1> QED
  BY <1>5, <1>6
-----------------------------------------------------------------------------
(* add_sock registers the descriptor or does not. *)
LEMMA AddSockFacts ==
    ASSUME interest \in [Threads -> SUBSET Fds], NEW t \in Threads, NEW c \in Fds,
           AddSock(t, c)
    PROVE  /\ interest' \in [Threads -> SUBSET Fds]
           /\ \A u \in Threads : u # t => interest'[u] = interest[u]
           /\ interest[t] \subseteq interest'[t] /\ interest'[t] \subseteq interest[t] \cup {c}
<1>1. PICK w \in SUBSET Fds : /\ interest' = [interest EXCEPT ![t] = w]
                              /\ w = interest[t] \/ w = interest[t] \cup {c}
  <2>1. CASE Watches < MAX_USER_WATCHES
    BY <2>1 DEF AddSock
  <2>2. CASE ~(Watches < MAX_USER_WATCHES)
    BY <2>2 DEF AddSock
  <2> QED
    BY <2>1, <2>2
<1> QED
  BY <1>1

(* run: the thread gets its listener. *)
LEMMA StartKeeps ==
    ASSUME IInv, NEW t \in Threads, Start(t)
    PROVE  IInv'
<1> DEFINE c == Lowest
<1>1. /\ Running /\ pc[t] = "start" /\ Free # {}
      /\ open' = open \cup {c}
      /\ l_sock' = [l_sock EXCEPT ![t] = c]
      /\ pc' = [pc EXCEPT ![t] = "wait"]
      /\ events' = events /\ fd' = fd
      /\ crashed' = crashed /\ astray' = astray
      /\ overflowed' = overflowed /\ retaken' = retaken
      /\ AddSock(t, c) /\ UNCHANGED tableVars
  BY DEF Start, Listen, Goto
<1>2. /\ RunInv /\ TableTypes /\ LoopTypes /\ Flag /\ FaultsExplained /\ TableInv
      /\ NULL \notin Fds
  BY <1>1, LoopAssumption DEF IInv, RunInv
<1>3. c \in Fds /\ c \notin open
  BY <1>1, LowestFree
<1> HIDE DEF c
<1>4. /\ interest' \in [Threads -> SUBSET Fds]
      /\ \A u \in Threads : u # t => interest'[u] = interest[u]
      /\ interest[t] \subseteq interest'[t] /\ interest'[t] \subseteq interest[t] \cup {c}
  BY <1>1, <1>2, <1>3, AddSockFacts DEF LoopTypes
<1>5. /\ l_sock'[t] = c /\ pc'[t] = "wait"
      /\ \A u \in Threads : u # t => l_sock'[u] = l_sock[u] /\ pc'[u] = pc[u]
      /\ l_sock' \in [Threads -> MaybeFd]
  BY <1>1, <1>2, <1>3 DEF LoopTypes, MaybeFd
<1>6. LoopTypes'
  BY <1>1, <1>2, <1>3, <1>4, <1>5 DEF LoopTypes
<1>7. next' = next /\ \A u \in Threads : Linked(u)' = Linked(u)
  BY <1>1, TablesStay DEF tableVars
<1>8. TableTypes' /\ TableInv' /\ Flag' /\ FaultsExplained'
  BY <1>1, <1>2, TablesStay DEF Flag, FaultsExplained
<1>9. \A u \in Threads : InHand(u)' = InHand(u)
  BY <1>1, <1>5 DEF InHand
<1>10. /\ Mine(t)' \subseteq Mine(t) \cup {c}
       /\ \A u \in Threads : u # t => Mine(u)' = Mine(u)
       /\ \A u \in Threads : Mine(u) \subseteq open /\ c \notin Mine(u)
  <2>1. \A u \in Threads : Mine(u) \subseteq open /\ c \notin Mine(u)
    BY <1>2, <1>3 DEF RunInv, OwnInv
  <2> QED
    BY <1>4, <1>7, <1>9, <2>1 DEF Mine
<1>11. /\ InHand(t) = {} /\ t \notin overflowed /\ l_sock[t] = NULL
  BY <1>1, <1>2 DEF RunInv, ListenInv, InHand
<1>12. OwnInv'
  <2>1. ASSUME NEW u \in Threads
        PROVE  Mine(u)' \subseteq open' /\ Linked(u)' \cap InHand(u)' = {}
    BY <1>1, <1>2, <1>7, <1>9, <1>10 DEF RunInv, OwnInv
  <2>2. ASSUME NEW u \in Threads, NEW v \in Threads, u # v
        PROVE  Mine(u)' \cap Mine(v)' = {}
    <3>1. Mine(u) \cap Mine(v) = {}
      BY <1>2, <2>2 DEF RunInv, OwnInv
    <3> QED
      BY <1>10, <2>2, <3>1
  <2> QED
    BY <2>1, <2>2 DEF OwnInv
<1>13. ListenInv'
  <2>1. ASSUME NEW u \in Threads \ overflowed
        PROVE  /\ l_sock'[u] \in open' \cup {NULL}
               /\ l_sock'[u] \notin Linked(u)' \cup InHand(u)'
               /\ \A v \in Threads \ {u} : l_sock'[u] \notin Mine(v)'
    <3>1. CASE u = t
      BY <1>1, <1>5, <1>7, <1>9, <1>10, <3>1 DEF Mine
    <3>2. CASE u # t
      <4>1. /\ l_sock[u] \in open \cup {NULL}
            /\ l_sock[u] \notin Linked(u) \cup InHand(u)
            /\ \A v \in Threads \ {u} : l_sock[u] \notin Mine(v)
        BY <1>2 DEF RunInv, ListenInv
      <4>2. l_sock[u] # c
        BY <1>2, <1>3, <4>1
      <4> QED
        BY <1>1, <1>5, <1>7, <1>9, <1>10, <3>2, <4>1, <4>2
    <3> QED
      BY <3>1, <3>2
  <2>2. ASSUME NEW u \in overflowed, l_sock'[u] \in interest'[u]
        PROVE  InHand(u)' = {l_sock'[u]}
    <3>1. u # t /\ u \in Threads
      BY <1>2, <1>11 DEF LoopTypes
    <3> QED
      BY <1>2, <1>4, <1>5, <1>9, <2>2, <3>1 DEF RunInv, ListenInv
  <2>3. ASSUME NEW u \in Threads, pc'[u] = "start"
        PROVE  l_sock'[u] = NULL /\ u \notin overflowed
    BY <1>2, <1>5, <2>3 DEF RunInv, ListenInv
  <2> QED
    BY <1>1, <2>1, <2>2, <2>3 DEF ListenInv
<1>14. EventInv'
  <2> SUFFICES ASSUME NEW u \in Threads
               PROVE  /\ events[u] \subseteq interest'[u]
                      /\ events[u] \cap InHand(u) = {}
                      /\ pc'[u] \in {"write", "wclose", "behind"} => events[u] = {}
    BY <1>1, <1>9 DEF EventInv
  <2>1. /\ events[u] \subseteq interest[u]
        /\ events[u] \cap InHand(u) = {}
        /\ pc[u] \in {"write", "wclose", "behind"} => events[u] = {}
    BY <1>2 DEF RunInv, EventInv
  <2>2. interest[u] \subseteq interest'[u]
    BY <1>4
  <2>3. pc'[u] \in {"write", "wclose", "behind"} => pc'[u] = pc[u]
    BY <1>5
  <2> QED
    BY <2>1, <2>2, <2>3
<1>15. WalkInv'
  BY <1>1, <1>2, <1>5, <1>7 DEF RunInv, WalkInv
<1>16. AccountInv'
  <2>1. ASSUME NEW u \in Threads \ overflowed
        PROVE  interest'[u] \subseteq Linked(u)' \cup {l_sock'[u]} \cup InHand(u)'
    <3>1. interest[u] \subseteq Linked(u) \cup {l_sock[u]} \cup InHand(u)
      BY <1>2 DEF RunInv, AccountInv
    <3>2. CASE u = t
      <4>1. interest[t] \subseteq Fds
        BY <1>2 DEF LoopTypes
      <4> QED
        BY <1>2, <1>4, <1>5, <1>7, <1>9, <1>11, <3>1, <3>2, <4>1
    <3>3. CASE u # t
      BY <1>4, <1>5, <1>7, <1>9, <3>1, <3>3
    <3> QED
      BY <3>2, <3>3
  <2>2. ASSUME overflowed = {}, NEW d \in open'
        PROVE  \E u \in Threads : d \in Linked(u)' \cup {l_sock'[u]} \cup InHand(u)'
    <3>1. CASE d = c
      BY <1>5, <3>1
    <3>2. CASE d # c
      <4>1. d \in open /\ d \in Fds
        BY <1>1, <1>2, <3>2 DEF LoopTypes
      <4>2. PICK u \in Threads : d \in Linked(u) \cup {l_sock[u]} \cup InHand(u)
        BY <1>2, <2>2, <4>1 DEF RunInv, AccountInv
      <4>3. u = t => l_sock[u] # d
        BY <1>2, <1>11, <4>1
      <4> QED
        BY <1>5, <1>7, <1>9, <4>2, <4>3
    <3> QED
      BY <3>1, <3>2
  <2> QED
    BY <1>1, <2>1, <2>2 DEF AccountInv
<1> QED
  BY <1>6, <1>8, <1>12, <1>13, <1>14, <1>15, <1>16 DEF IInv, RunInv

(* disconnect_sock: the descriptor is free from here on. *)
LEMMA CloseKeeps ==
    ASSUME IInv, NEW t \in Threads, Close(t)
    PROVE  IInv'
<1> DEFINE c == fd[t]
<1>1. /\ Running /\ pc[t] \in {"close", "wclose"}
      /\ interest' = [interest EXCEPT ![t] = @ \ {c}]
      /\ open' = open \ {c}
      /\ IF pc[t] = "close"
         THEN pc' = [pc EXCEPT ![t] = "events"] /\ fd' = [fd EXCEPT ![t] = NULL]
         ELSE pc' = [pc EXCEPT ![t] = "behind"] /\ fd' = fd
      /\ l_sock' = l_sock /\ events' = events
      /\ crashed' = crashed /\ astray' = astray
      /\ overflowed' = overflowed /\ retaken' = retaken
      /\ UNCHANGED tableVars
  BY DEF Close, Goto, OpenAfter, Skip
<1>2. /\ RunInv /\ TableTypes /\ LoopTypes /\ Flag /\ FaultsExplained /\ TableInv
      /\ NULL \notin Fds
  BY <1>1, LoopAssumption DEF IInv, RunInv
<1>3. c \in Fds /\ InHand(t) = {c}
  BY <1>1, <1>2 DEF LoopTypes, MaybeFd, InHand
<1>4. /\ interest' \in [Threads -> SUBSET Fds] /\ interest'[t] = interest[t] \ {c}
      /\ \A u \in Threads : u # t => interest'[u] = interest[u]
      /\ \A u \in Threads : u # t => pc'[u] = pc[u] /\ fd'[u] = fd[u]
      /\ pc'[t] = IF pc[t] = "close" THEN "events" ELSE "behind"
      /\ fd'[t] = IF pc[t] = "close" THEN NULL ELSE c
  BY <1>1, <1>2 DEF LoopTypes
<1>5. LoopTypes'
  <2>1. pc' \in [Threads -> {"start", "wait", "events", "close", "write",
                             "wclose", "behind", "returned"}]
    BY <1>1, <1>2 DEF LoopTypes
  <2>2. fd' \in [Threads -> MaybeFd]
    BY <1>1, <1>2 DEF LoopTypes, MaybeFd
  <2>3. ASSUME NEW u \in Threads
        PROVE  pc'[u] \in {"close", "write", "wclose", "behind"} <=> fd'[u] # NULL
    <3>1. CASE u = t
      BY <1>2, <1>3, <1>4, <3>1
    <3>2. CASE u # t
      BY <1>2, <1>4, <3>2 DEF LoopTypes
    <3> QED
      BY <3>1, <3>2
  <2> QED
    BY <1>1, <1>2, <1>4, <2>1, <2>2, <2>3 DEF LoopTypes
<1>6. next' = next /\ \A u \in Threads : Linked(u)' = Linked(u)
  BY <1>1, TablesStay DEF tableVars
<1>7. TableTypes' /\ TableInv' /\ Flag' /\ FaultsExplained'
  BY <1>1, <1>2, TablesStay DEF Flag, FaultsExplained
<1>8. InHand(t)' = {} /\ \A u \in Threads : u # t => InHand(u)' = InHand(u)
  BY <1>4 DEF InHand
<1>9. /\ Mine(t)' \subseteq Mine(t) \ {c}
      /\ \A u \in Threads : u # t => Mine(u)' = Mine(u) /\ c \notin Mine(u)
      /\ c \in Mine(t) /\ \A u \in Threads : Mine(u) \subseteq open
  <2>1. /\ Linked(t) \cap {c} = {} /\ c \in Mine(t)
        /\ \A u \in Threads : Mine(u) \subseteq open
    BY <1>2, <1>3 DEF RunInv, OwnInv, Mine
  <2>2. \A u \in Threads : u # t => c \notin Mine(u)
    BY <1>2, <2>1 DEF RunInv, OwnInv
  <2> QED
    BY <1>4, <1>6, <1>8, <2>1, <2>2 DEF Mine
<1> HIDE DEF c
<1>10. OwnInv'
  <2>1. ASSUME NEW u \in Threads
        PROVE  Mine(u)' \subseteq open' /\ Linked(u)' \cap InHand(u)' = {}
    <3>1. Linked(u) \cap InHand(u) = {}
      BY <1>2 DEF RunInv, OwnInv
    <3> QED
      BY <1>1, <1>6, <1>8, <1>9, <3>1
  <2>2. ASSUME NEW u \in Threads, NEW v \in Threads, u # v
        PROVE  Mine(u)' \cap Mine(v)' = {}
    <3>1. Mine(u) \cap Mine(v) = {}
      BY <1>2, <2>2 DEF RunInv, OwnInv
    <3> QED
      BY <1>9, <2>2, <3>1
  <2> QED
    BY <2>1, <2>2 DEF OwnInv
<1>11. ListenInv'
  <2>1. ASSUME NEW u \in Threads \ overflowed
        PROVE  /\ l_sock[u] \in open' \cup {NULL}
               /\ l_sock[u] \notin Linked(u)' \cup InHand(u)'
               /\ \A v \in Threads \ {u} : l_sock[u] \notin Mine(v)'
    <3>1. /\ l_sock[u] \in open \cup {NULL}
          /\ l_sock[u] \notin Linked(u) \cup InHand(u)
          /\ \A v \in Threads \ {u} : l_sock[u] \notin Mine(v)
      BY <1>2 DEF RunInv, ListenInv
    <3>2. l_sock[u] # c
      BY <1>3, <1>9, <3>1
    <3>3. InHand(u)' \subseteq InHand(u)
      BY <1>8
    <3> QED
      BY <1>1, <1>6, <1>9, <3>1, <3>2, <3>3
  <2>2. ASSUME NEW u \in overflowed, l_sock[u] \in interest'[u]
        PROVE  InHand(u)' = {l_sock[u]}
    <3>1. u \in Threads
      BY <1>2 DEF LoopTypes
    <3>2. l_sock[u] \in interest[u] => InHand(u) = {l_sock[u]}
      BY <1>2 DEF RunInv, ListenInv
    <3>3. CASE u = t
      BY <1>3, <1>4, <2>2, <3>2, <3>3
    <3>4. CASE u # t
      BY <1>4, <1>8, <2>2, <3>1, <3>2, <3>4
    <3> QED
      BY <3>3, <3>4
  <2>3. ASSUME NEW u \in Threads, pc'[u] = "start"
        PROVE  l_sock[u] = NULL /\ u \notin overflowed
    <3>1. pc[u] = "start"
      BY <1>4, <2>3
    <3> QED
      BY <1>2, <3>1 DEF RunInv, ListenInv
  <2> QED
    BY <1>1, <2>1, <2>2, <2>3 DEF ListenInv
<1>12. EventInv'
  <2> SUFFICES ASSUME NEW u \in Threads
               PROVE  /\ events[u] \subseteq interest'[u]
                      /\ events[u] \cap InHand(u)' = {}
                      /\ pc'[u] \in {"write", "wclose", "behind"} => events[u] = {}
    BY <1>1 DEF EventInv
  <2>1. /\ events[u] \subseteq interest[u]
        /\ events[u] \cap InHand(u) = {}
        /\ pc[u] \in {"write", "wclose", "behind"} => events[u] = {}
    BY <1>2 DEF RunInv, EventInv
  <2>2. CASE u = t
    BY <1>1, <1>3, <1>4, <1>8, <2>1, <2>2
  <2>3. CASE u # t
    BY <1>4, <1>8, <2>1, <2>3
  <2> QED
    BY <2>2, <2>3
<1>13. WalkInv'
  <2> SUFFICES ASSUME NEW u \in Threads
               PROVE  /\ pc'[u] = "write" => fd'[u] \in Linked(u)
                      /\ pc'[u] \in {"wclose", "behind"} /\ ~retaken =>
                            /\ next[fd'[u]] \in Linked(u) \cup {NULL}
                            /\ \A v \in Threads : fd'[u] \notin Linked(v)
    BY <1>1, <1>6 DEF WalkInv
  <2>1. /\ pc[u] = "write" => fd[u] \in Linked(u)
        /\ pc[u] \in {"wclose", "behind"} /\ ~retaken =>
              /\ next[fd[u]] \in Linked(u) \cup {NULL}
              /\ \A v \in Threads : fd[u] \notin Linked(v)
    BY <1>2 DEF RunInv, WalkInv
  <2>2. CASE u = t
    BY <1>1, <1>4, <2>1, <2>2 DEF c
  <2>3. CASE u # t
    BY <1>4, <2>1, <2>3
  <2> QED
    BY <2>2, <2>3
<1>14. AccountInv'
  <2>1. ASSUME NEW u \in Threads \ overflowed
        PROVE  interest'[u] \subseteq Linked(u)' \cup {l_sock[u]} \cup InHand(u)'
    <3>1. interest[u] \subseteq Linked(u) \cup {l_sock[u]} \cup InHand(u)
      BY <1>2 DEF RunInv, AccountInv
    <3>2. CASE u = t
      BY <1>3, <1>4, <1>6, <1>8, <3>1, <3>2
    <3>3. CASE u # t
      BY <1>4, <1>6, <1>8, <3>1, <3>3
    <3> QED
      BY <3>2, <3>3
  <2>2. ASSUME overflowed = {}, NEW d \in open'
        PROVE  \E u \in Threads : d \in Linked(u)' \cup {l_sock[u]} \cup InHand(u)'
    <3>1. d \in open /\ d # c
      BY <1>1
    <3>2. PICK u \in Threads : d \in Linked(u) \cup {l_sock[u]} \cup InHand(u)
      BY <1>2, <2>2, <3>1 DEF RunInv, AccountInv
    <3>3. InHand(u) \ {c} \subseteq InHand(u)'
      BY <1>3, <1>8
    <3> QED
      BY <1>6, <3>1, <3>2, <3>3
  <2> QED
    BY <1>1, <2>1, <2>2 DEF AccountInv
<1> QED
  BY <1>5, <1>7, <1>10, <1>11, <1>12, <1>13, <1>14 DEF IInv, RunInv

(* A loop that is told of a connection never was full. *)
LEMMA ListenerFacts ==
    ASSUME IInv, Running, NEW t \in Threads, pc[t] = "events", l_sock[t] \in events[t]
    PROVE  t \notin overflowed /\ InHand(t) = {} /\ l_sock[t] \in interest[t]
<1>1. InHand(t) = {}
  BY DEF InHand
<1>2. l_sock[t] \in interest[t]
  BY DEF IInv, RunInv, EventInv
<1>3. t \notin overflowed
  BY <1>1, <1>2 DEF IInv, RunInv, ListenInv
<1> QED
  BY <1>1, <1>2, <1>3

(* There is room: the new client is in the table, registered or not. *)
LEMMA AcceptKeeps ==
    ASSUME IInv, NEW t \in Threads, Accept(t)
    PROVE  IInv'
<1> DEFINE c == Lowest
<1>1. /\ Running /\ pc[t] = "events" /\ l_sock[t] \in events[t] /\ Free # {}
      /\ events' = [events EXCEPT ![t] = @ \ {l_sock[t]}]
      /\ open' = open \cup {c}
      /\ l_sock' = l_sock /\ pc' = pc /\ fd' = fd
      /\ crashed' = crashed /\ astray' = astray /\ overflowed' = overflowed
      /\ AddSock(t, c) /\ HashAdd(t, c) /\ Room(t)
  BY DEF Accept, Accepted, Handled
<1>2. /\ RunInv /\ TableTypes /\ LoopTypes /\ Flag /\ FaultsExplained /\ TableInv
      /\ NULL \notin Fds
  BY <1>1, LoopAssumption DEF IInv, RunInv
<1>3. c \in Fds /\ c \notin open
  BY <1>1, LowestFree
<1>4. /\ retaken' \in BOOLEAN
      /\ ~retaken' => ~retaken /\ \A s \in Threads : pc[s] = "behind" => fd[s] # c
  BY DEF Accept
<1> HIDE DEF c
<1>5. /\ interest' \in [Threads -> SUBSET Fds]
      /\ \A u \in Threads : u # t => interest'[u] = interest[u]
      /\ interest[t] \subseteq interest'[t] /\ interest'[t] \subseteq interest[t] \cup {c}
  BY <1>1, <1>2, <1>3, AddSockFacts DEF LoopTypes
<1>6. /\ events' \in [Threads -> SUBSET Fds] /\ events'[t] \subseteq events[t]
      /\ \A u \in Threads : u # t => events'[u] = events[u]
  BY <1>1, <1>2 DEF LoopTypes
<1>7. LoopTypes'
  BY <1>1, <1>2, <1>3, <1>5, <1>6 DEF LoopTypes
<1>8. /\ \A u \in Threads : Mine(u) \subseteq open /\ c \notin Mine(u)
      /\ \A u, v \in Threads : u # v => Mine(u) \cap Mine(v) = {}
  BY <1>2, <1>3 DEF RunInv, OwnInv
<1>9. /\ TableTypes' /\ TableInv'
      /\ Linked(t)' = Linked(t) \cup {c}
      /\ \A u \in Threads : u # t => Linked(u)' = Linked(u)
      /\ \A d \in Fds : d \notin Linked(t) \cup {c} => next'[d] = next[d]
  <2>1. /\ \A u \in Threads : c \notin Linked(u)
        /\ \A u \in Threads : u # t => Linked(t) \cap Linked(u) = {}
    BY <1>8 DEF Mine
  <2> QED
    BY <1>1, <1>2, <1>3, <2>1, HashAddFacts
<1>10. Flag' /\ FaultsExplained'
  <2>1. crashed' = NULL /\ astray' = NULL
    BY <1>1 DEF Running
  <2> QED
    BY <1>4, <2>1 DEF Flag, FaultsExplained
<1>11. /\ InHand(t) = {} /\ t \notin overflowed
       /\ \A u \in Threads : InHand(u)' = InHand(u)
  BY <1>1, ListenerFacts DEF InHand
<1>12. /\ Mine(t)' \subseteq Mine(t) \cup {c}
       /\ \A u \in Threads : u # t => Mine(u)' = Mine(u)
  BY <1>5, <1>9, <1>11 DEF Mine
<1>13. OwnInv'
  <2>1. ASSUME NEW u \in Threads
        PROVE  Mine(u)' \subseteq open' /\ Linked(u)' \cap InHand(u)' = {}
    <3>1. Linked(u) \cap InHand(u) = {}
      BY <1>2 DEF RunInv, OwnInv
    <3> QED
      BY <1>1, <1>8, <1>9, <1>11, <1>12, <3>1
  <2>2. ASSUME NEW u \in Threads, NEW v \in Threads, u # v
        PROVE  Mine(u)' \cap Mine(v)' = {}
    BY <1>8, <1>12, <2>2
  <2> QED
    BY <2>1, <2>2 DEF OwnInv
<1>14. ListenInv'
  <2>1. ASSUME NEW u \in Threads \ overflowed
        PROVE  /\ l_sock[u] \in open' \cup {NULL}
               /\ l_sock[u] \notin Linked(u)' \cup InHand(u)'
               /\ \A v \in Threads \ {u} : l_sock[u] \notin Mine(v)'
    <3>1. /\ l_sock[u] \in open \cup {NULL}
          /\ l_sock[u] \notin Linked(u) \cup InHand(u)
          /\ \A v \in Threads \ {u} : l_sock[u] \notin Mine(v)
      BY <1>2 DEF RunInv, ListenInv
    <3>2. l_sock[u] # c
      BY <1>2, <1>3, <3>1
    <3> QED
      BY <1>1, <1>9, <1>11, <1>12, <3>1, <3>2
  <2>2. ASSUME NEW u \in overflowed, l_sock[u] \in interest'[u]
        PROVE  InHand(u)' = {l_sock[u]}
    <3>1. u \in Threads /\ u # t
      BY <1>2, <1>11 DEF LoopTypes
    <3> QED
      BY <1>2, <1>5, <1>11, <2>2, <3>1 DEF RunInv, ListenInv
  <2> QED
    BY <1>1, <1>2, <2>1, <2>2 DEF RunInv, ListenInv
<1>15. EventInv'
  <2> SUFFICES ASSUME NEW u \in Threads
               PROVE  /\ events'[u] \subseteq interest'[u]
                      /\ events'[u] \cap InHand(u) = {}
                      /\ pc[u] \in {"write", "wclose", "behind"} => events'[u] = {}
    BY <1>1, <1>11 DEF EventInv
  <2>1. /\ events[u] \subseteq interest[u]
        /\ events[u] \cap InHand(u) = {}
        /\ pc[u] \in {"write", "wclose", "behind"} => events[u] = {}
    BY <1>2 DEF RunInv, EventInv
  <2>2. events'[u] \subseteq events[u] /\ interest[u] \subseteq interest'[u]
    BY <1>5, <1>6
  <2> QED
    BY <2>1, <2>2
<1>16. WalkInv'
  <2> SUFFICES ASSUME NEW u \in Threads
               PROVE  /\ pc[u] = "write" => fd[u] \in Linked(u)'
                      /\ pc[u] \in {"wclose", "behind"} /\ ~retaken' =>
                            /\ next'[fd[u]] \in Linked(u)' \cup {NULL}
                            /\ \A v \in Threads : fd[u] \notin Linked(v)'
    BY <1>1 DEF WalkInv
  <2>1. /\ pc[u] = "write" => fd[u] \in Linked(u)
        /\ pc[u] \in {"wclose", "behind"} /\ ~retaken =>
              /\ next[fd[u]] \in Linked(u) \cup {NULL}
              /\ \A v \in Threads : fd[u] \notin Linked(v)
    BY <1>2 DEF RunInv, WalkInv
  <2>2. Linked(u) \subseteq Linked(u)'
    BY <1>9
  <2>3. ASSUME pc[u] \in {"wclose", "behind"}, ~retaken' PROVE fd[u] # c /\ fd[u] \in Fds
    <3>1. pc[u] = "wclose" => fd[u] \in Mine(u)
      BY DEF Mine, InHand
    <3>2. fd[u] \in Fds
      BY <1>2, <2>3 DEF LoopTypes, MaybeFd
    <3> QED
      BY <1>4, <1>8, <2>3, <3>1, <3>2
  <2>4. ASSUME pc[u] \in {"wclose", "behind"}, ~retaken'
        PROVE  /\ next'[fd[u]] = next[fd[u]]
               /\ \A v \in Threads : fd[u] \notin Linked(v)'
    BY <1>4, <1>9, <2>1, <2>3, <2>4
  <2> QED
    BY <1>4, <2>1, <2>2, <2>4
<1>17. AccountInv'
  <2>1. ASSUME NEW u \in Threads \ overflowed
        PROVE  interest'[u] \subseteq Linked(u)' \cup {l_sock[u]} \cup InHand(u)'
    <3>1. interest[u] \subseteq Linked(u) \cup {l_sock[u]} \cup InHand(u)
      BY <1>2 DEF RunInv, AccountInv
    <3> QED
      BY <1>5, <1>9, <1>11, <3>1
  <2>2. ASSUME overflowed = {}, NEW d \in open'
        PROVE  \E u \in Threads : d \in Linked(u)' \cup {l_sock[u]} \cup InHand(u)'
    <3>1. CASE d = c
      BY <1>9, <3>1
    <3>2. CASE d # c
      <4>1. PICK u \in Threads : d \in Linked(u) \cup {l_sock[u]} \cup InHand(u)
        BY <1>1, <1>2, <2>2, <3>2 DEF RunInv, AccountInv
      <4> QED
        BY <1>9, <1>11, <4>1
    <3> QED
      BY <3>1, <3>2
  <2> QED
    BY <1>1, <2>1, <2>2 DEF AccountInv
<1> QED
  BY <1>7, <1>9, <1>10, <1>13, <1>14, <1>15, <1>16, <1>17 DEF IInv, RunInv

(* The loop is full: the listener is removed, with the whole table. *)
LEMMA AcceptFullKeeps ==
    ASSUME IInv, NEW t \in Threads, AcceptFull(t)
    PROVE  IInv'
<1> DEFINE c == l_sock[t]
<1>1. /\ Running /\ pc[t] = "events" /\ c \in events[t] /\ Free # {}
      /\ events' = [events EXCEPT ![t] = @ \ {c}]
      /\ open' = open \cup {Lowest}
      /\ HashDel(t, c)
      /\ fd' = [fd EXCEPT ![t] = c] /\ pc' = [pc EXCEPT ![t] = "close"]
      /\ overflowed' = overflowed \cup {t}
      /\ UNCHANGED <<interest, l_sock, retaken>>
  BY DEF AcceptFull, Accepted, Handled, Remove, Goto
<1>2. LoopTypes /\ NULL \notin Fds
  BY LoopAssumption DEF IInv
<1>3. t \notin overflowed /\ InHand(t) = {} /\ c \in interest[t]
  BY <1>1, ListenerFacts
<1>4. c \in Fds /\ c # NULL
  BY <1>1, <1>2 DEF LoopTypes
<1>5. /\ events'[t] = events[t] \ {c} /\ fd'[t] = c /\ pc'[t] = "close"
      /\ OthersStay(t)
  BY <1>1, <1>2 DEF LoopTypes, OthersStay
<1>6. Lowest \in Fds
  BY <1>1, LowestFree
<1>7. crashed' \in Threads \cup {NULL} /\ astray' \in Threads \cup {NULL}
  BY <1>1, <1>2 DEF HashDel, LoopTypes
<1>8. LoopTypes'
  <2>1. /\ pc' \in [Threads -> {"start", "wait", "events", "close", "write",
                                "wclose", "behind", "returned"}]
        /\ fd' \in [Threads -> MaybeFd] /\ events' \in [Threads -> SUBSET Fds]
    BY <1>1, <1>2, <1>4 DEF LoopTypes, MaybeFd
  <2>2. \A u \in Threads :
           pc'[u] \in {"close", "write", "wclose", "behind"} <=> fd'[u] # NULL
    BY <1>2, <1>4, <1>5 DEF LoopTypes, OthersStay
  <2> QED
    BY <1>1, <1>2, <1>6, <1>7, <2>1, <2>2 DEF LoopTypes
<1>9. events'[t] \subseteq interest[t] \ {c}
  BY <1>1, <1>5 DEF IInv, RunInv, EventInv
<1> QED
  BY <1>1, <1>3, <1>4, <1>5, <1>8, <1>9, RemoveKeeps

(* The reader has an error, or the client closed. *)
LEMMA ReadFailsKeeps ==
    ASSUME IInv, NEW t \in Threads, ReadFails(t)
    PROVE  IInv'
<1>1. PICK c \in events[t] \ {l_sock[t]} : Handled(t, c) /\ Remove(t, c, "close")
  BY DEF ReadFails
<1>2. /\ Running /\ pc[t] = "events" /\ c \in events[t] /\ c # l_sock[t]
      /\ events' = [events EXCEPT ![t] = @ \ {c}]
      /\ open' = open
      /\ HashDel(t, c)
      /\ fd' = [fd EXCEPT ![t] = c] /\ pc' = [pc EXCEPT ![t] = "close"]
      /\ overflowed' = overflowed
      /\ UNCHANGED <<interest, l_sock, retaken>>
  BY <1>1 DEF ReadFails, Handled, Remove, Goto, kernelVars
<1>3. LoopTypes /\ NULL \notin Fds /\ RunInv
  BY <1>2, LoopAssumption DEF IInv
<1>4. c \in Fds /\ c # NULL /\ c \in interest[t] /\ InHand(t) = {}
  BY <1>2, <1>3 DEF LoopTypes, RunInv, EventInv, InHand
<1>5. /\ events'[t] = events[t] \ {c} /\ fd'[t] = c /\ pc'[t] = "close"
      /\ OthersStay(t)
  BY <1>2, <1>3 DEF LoopTypes, OthersStay
<1>6. crashed' \in Threads \cup {NULL} /\ astray' \in Threads \cup {NULL}
  BY <1>2, <1>3 DEF HashDel, LoopTypes
<1>7. LoopTypes'
  <2>1. /\ pc' \in [Threads -> {"start", "wait", "events", "close", "write",
                                "wclose", "behind", "returned"}]
        /\ fd' \in [Threads -> MaybeFd] /\ events' \in [Threads -> SUBSET Fds]
    BY <1>2, <1>3, <1>4 DEF LoopTypes, MaybeFd
  <2>2. \A u \in Threads :
           pc'[u] \in {"close", "write", "wclose", "behind"} <=> fd'[u] # NULL
    BY <1>3, <1>4, <1>5 DEF LoopTypes, OthersStay
  <2> QED
    BY <1>2, <1>3, <1>6, <2>1, <2>2 DEF LoopTypes
<1>8. events'[t] \subseteq interest[t] \ {c}
  BY <1>3, <1>5 DEF RunInv, EventInv
<1>9. t \notin overflowed => c \in Linked(t)
  BY <1>2, <1>3, <1>4 DEF RunInv, AccountInv
<1>10. t \in overflowed /\ l_sock[t] \in interest[t] => c = l_sock[t]
  BY <1>3, <1>4 DEF RunInv, ListenInv
<1> QED
  BY <1>2, <1>4, <1>5, <1>7, <1>8, <1>9, <1>10, RemoveKeeps

(* send fails for good. *)
LEMMA WriteFailsKeeps ==
    ASSUME IInv, NEW t \in Threads, WriteFails(t)
    PROVE  IInv'
<1> DEFINE c == fd[t]
<1>1. /\ Running /\ pc[t] = "write"
      /\ HashDel(t, c)
      /\ fd' = [fd EXCEPT ![t] = c] /\ pc' = [pc EXCEPT ![t] = "wclose"]
      /\ open' = open /\ overflowed' = overflowed /\ events' = events
      /\ UNCHANGED <<interest, l_sock, retaken>>
  BY DEF WriteFails, Remove, Goto, kernelVars
<1>2. LoopTypes /\ TableTypes /\ NULL \notin Fds /\ RunInv
  BY <1>1, LoopAssumption DEF IInv
<1>3. c \in Linked(t) /\ events[t] = {} /\ InHand(t) = {}
  BY <1>1, <1>2 DEF RunInv, WalkInv, EventInv, InHand
<1>4. c \in Fds /\ c # NULL
  BY <1>2, <1>3, LinkedFacts
<1>5. fd'[t] = c /\ pc'[t] = "wclose" /\ OthersStay(t)
  BY <1>1, <1>2 DEF LoopTypes, OthersStay
<1>6. crashed' \in Threads \cup {NULL} /\ astray' \in Threads \cup {NULL}
  BY <1>1, <1>2 DEF HashDel, LoopTypes
<1>7. LoopTypes'
  <2>1. /\ pc' \in [Threads -> {"start", "wait", "events", "close", "write",
                                "wclose", "behind", "returned"}]
        /\ fd' \in [Threads -> MaybeFd]
    BY <1>1, <1>2, <1>4 DEF LoopTypes, MaybeFd
  <2>2. \A u \in Threads :
           pc'[u] \in {"close", "write", "wclose", "behind"} <=> fd'[u] # NULL
    BY <1>2, <1>4, <1>5 DEF LoopTypes, OthersStay
  <2> QED
    BY <1>1, <1>2, <1>6, <2>1, <2>2 DEF LoopTypes
<1>8. t \notin overflowed => c # l_sock[t]
  BY <1>2, <1>3 DEF RunInv, ListenInv
<1>9. l_sock[t] \in interest[t] => t \notin overflowed
  BY <1>2, <1>3 DEF RunInv, ListenInv
<1> HIDE DEF c
<1> QED
  BY <1>1, <1>3, <1>4, <1>5, <1>7, <1>8, <1>9, RemoveKeeps

(* The steps that only go on with a round. *)
LEMMA GoesOn ==
    ASSUME IInv, NEW t \in Threads,
           StartFails(t) \/ EpollWait(t) \/ EpollFails(t) \/ ReadOk(t) \/ AcceptFails(t)
    PROVE  IInv'
<1>1. /\ Running /\ pc[t] \in {"start", "wait", "events"}
      /\ UNCHANGED <<kernelVars, l_sock, tableVars, overflowed, retaken>>
      /\ crashed' = crashed /\ astray' = astray /\ fd' = fd
  BY DEF StartFails, EpollWait, EpollFails, ReadOk, AcceptFails
<1>2. LoopTypes /\ RunInv /\ events[t] \subseteq interest[t] /\ astray = NULL
  BY <1>1 DEF IInv, RunInv, EventInv, Running
<1>3. PICK e \in SUBSET interest[t] : events' = [events EXCEPT ![t] = e]
  <2>1. CASE StartFails(t) \/ EpollFails(t)
    <3>1. events' = [events EXCEPT ![t] = events[t]]
      BY <1>2, <2>1 DEF StartFails, EpollFails, LoopTypes
    <3> QED
      BY <1>2, <3>1
  <2>2. CASE EpollWait(t)
    BY <2>2 DEF EpollWait
  <2>3. CASE ReadOk(t)
    <3>1. PICK c \in events[t] \ {l_sock[t]} : Handled(t, c)
      BY <2>3 DEF ReadOk
    <3> QED
      BY <1>2, <3>1 DEF Handled
  <2>4. CASE AcceptFails(t)
    BY <1>2, <2>4 DEF AcceptFails, Handled
  <2> QED
    BY <2>1, <2>2, <2>3, <2>4
<1>4. PICK to \in {"events", "returned"} : pc' = [pc EXCEPT ![t] = to]
  <2>1. CASE ReadOk(t) \/ AcceptFails(t)
    <3>1. pc[t] = "events" /\ pc' = pc
      BY <2>1 DEF ReadOk, AcceptFails
    <3>2. pc' = [pc EXCEPT ![t] = "events"]
      BY <1>2, <3>1 DEF LoopTypes
    <3> QED
      BY <3>2
  <2>2. CASE StartFails(t) \/ EpollFails(t) \/ EpollWait(t)
    BY <2>2 DEF StartFails, EpollFails, EpollWait, Goto
  <2> QED
    BY <2>1, <2>2
<1>5. /\ events'[t] = e /\ pc'[t] = to /\ OthersStay(t)
  BY <1>1, <1>2, <1>3, <1>4 DEF LoopTypes, OthersStay, kernelVars
<1>6. LoopTypes'
  <2>1. /\ pc' \in [Threads -> {"start", "wait", "events", "close", "write",
                                "wclose", "behind", "returned"}]
        /\ events' \in [Threads -> SUBSET Fds]
    BY <1>2, <1>3, <1>4 DEF LoopTypes
  <2>2. \A u \in Threads :
           pc'[u] \in {"close", "write", "wclose", "behind"} <=> fd'[u] # NULL
    BY <1>1, <1>2, <1>5 DEF LoopTypes, OthersStay
  <2> QED
    BY <1>1, <1>2, <2>1, <2>2 DEF LoopTypes, kernelVars
<1>7. InHand(t) = {} /\ InHand(t)' = {}
  BY <1>1, <1>5 DEF InHand
<1> QED
  BY <1>1, <1>2, <1>5, <1>6, <1>7, RoundKeeps

(* The walk of the write phase goes to slot c. *)
LEMMA WalkKeeps ==
    ASSUME IInv, Running, NEW t \in Threads, NEW c \in MaybeFd,
           pc[t] \in {"events", "write", "behind"}, events[t] = {}, Walk(t, c),
           UNCHANGED <<kernelVars, l_sock, tableVars, events, overflowed, retaken, crashed>>,
           astray' \in {NULL, t}, astray' = NULL => c \in Linked(t) \cup {NULL},
           astray' # NULL => retaken
    PROVE  IInv'
<1>1. LoopTypes
  BY DEF IInv
<1>2. PICK to \in {"write", "wait"} :
         /\ fd' = [fd EXCEPT ![t] = c] /\ pc' = [pc EXCEPT ![t] = to]
         /\ to = "write" <=> c # NULL
  BY DEF Walk, Goto
<1>3. /\ fd'[t] = c /\ pc'[t] = to /\ events'[t] = {} /\ OthersStay(t)
  BY <1>1, <1>2 DEF LoopTypes, OthersStay, kernelVars
<1>4. LoopTypes'
  <2>1. /\ pc' \in [Threads -> {"start", "wait", "events", "close", "write",
                                "wclose", "behind", "returned"}]
        /\ fd' \in [Threads -> MaybeFd]
    BY <1>1, <1>2 DEF LoopTypes
  <2>2. \A u \in Threads :
           pc'[u] \in {"close", "write", "wclose", "behind"} <=> fd'[u] # NULL
    BY <1>1, <1>2, <1>3 DEF LoopTypes, OthersStay
  <2> QED
    BY <1>1, <2>1, <2>2 DEF LoopTypes, kernelVars
<1>5. InHand(t) = {} /\ InHand(t)' = {}
  BY <1>2, <1>3 DEF InHand
<1>6. Running' /\ pc'[t] = "write" => fd'[t] \in Linked(t)
  BY <1>2, <1>3 DEF Running
<1> QED
  BY <1>2, <1>3, <1>4, <1>5, <1>6, RoundKeeps

(* The walk begins at the head of the table.                               *)
LEMMA WriteStartKeeps ==
    ASSUME IInv, NEW t \in Threads, WriteStart(t)
    PROVE  IInv'
<1> DEFINE c == contexts_by_ptr[t]
<1>1. /\ Running /\ pc[t] = "events" /\ events[t] = {} /\ Walk(t, c)
      /\ UNCHANGED <<kernelVars, l_sock, tableVars, events, overflowed, retaken, crashed>>
      /\ astray' = NULL
  BY DEF WriteStart, FirstClient, Running
<1>2. c \in MaybeFd /\ c \in Linked(t) \cup {NULL}
  BY LinkedFacts DEF IInv, TableTypes
<1> HIDE DEF c
<1> QED
  BY <1>1, <1>2, WalkKeeps

(* The walk goes on: from a client in the table to one in the table, and   *)
(* from a removed one too unless its slot was taken.                       *)
LEMMA WriteNextKeeps ==
    ASSUME IInv, NEW t \in Threads, WriteNext(t)
    PROVE  IInv'
<1> DEFINE c == next[fd[t]]
<1>1. /\ Running /\ pc[t] \in {"write", "behind"} /\ Walk(t, c)
      /\ UNCHANGED <<kernelVars, l_sock, tableVars, events, overflowed, retaken, crashed>>
      /\ astray' = IF c \in Linked(t) \cup {NULL} THEN NULL ELSE t
  BY DEF WriteNext
<1>2. LoopTypes /\ TableTypes /\ RunInv /\ NULL \notin Threads
  BY <1>1, LoopAssumption DEF IInv
<1>3. fd[t] \in Fds /\ c \in MaybeFd
  BY <1>1, <1>2 DEF LoopTypes, TableTypes, MaybeFd
<1>4. events[t] = {}
  BY <1>1, <1>2 DEF RunInv, EventInv
<1>5. c \in Linked(t) \cup {NULL} \/ retaken
  <2>1. CASE pc[t] = "write"
    <3>1. fd[t] \in Linked(t)
      BY <1>2, <2>1 DEF RunInv, WalkInv
    <3> QED
      BY <1>2, <3>1, LinkedFacts
  <2>2. CASE pc[t] = "behind"
    BY <1>2, <2>2 DEF RunInv, WalkInv
  <2> QED
    BY <1>1, <2>1, <2>2
<1> HIDE DEF c
<1>6. /\ astray' \in {NULL, t} /\ (astray' = NULL => c \in Linked(t) \cup {NULL})
      /\ astray' # NULL => retaken
  BY <1>1, <1>2, <1>5
<1> QED
  BY <1>1, <1>3, <1>4, <1>6, WalkKeeps
-----------------------------------------------------------------------------
(* The broker starts with nothing open. *)
LEMMA InitHolds == Init => IInv
<1> SUFFICES ASSUME Init PROVE IInv
  OBVIOUS
<1>1. TableTypes /\ LoopTypes /\ Flag /\ FaultsExplained
  <2>1. NULL \in MaybeFd /\ 0 \in 0..MAX_FD_PER_LOOP
    BY LoopAssumption DEF MaybeFd
  <2> QED
    BY <2>1 DEF Init, TableTypes, LoopTypes, Flag, FaultsExplained
<1>2. ASSUME NEW t \in Threads
      PROVE  /\ Linked(t) = {} /\ Count(t) = 0 /\ InHand(t) = {} /\ Mine(t) = {}
             /\ contexts_by_ptr[t] = NULL
  <2>1. contexts_by_ptr[t] = NULL /\ interest[t] = {} /\ InHand(t) = {}
    BY DEF Init, InHand
  <2>2. Linked(t) = {} /\ Count(t) = 0
    BY <1>1, <2>1, LinkedFacts DEF Count
  <2> QED
    BY <2>1, <2>2 DEF Mine
<1>3. TableInv
  BY <1>2, FS_EmptySet DEF TableInv, IsList
<1>4. OwnInv
  BY <1>2 DEF OwnInv
<1>5. ListenInv
  BY <1>2 DEF ListenInv, Init
<1>6. EventInv /\ WalkInv /\ AccountInv
  BY <1>2 DEF EventInv, WalkInv, AccountInv, Init
<1> QED
  BY <1>1, <1>3, <1>4, <1>5, <1>6 DEF IInv, RunInv

(* Every step keeps the invariant. *)
LEMMA NextKeeps == IInv /\ [Next]_vars => IInv'
<1> SUFFICES ASSUME IInv, [Next]_vars PROVE IInv'
  OBVIOUS
<1>1. ASSUME NEW t \in Threads, Start(t) PROVE IInv'
  BY <1>1, StartKeeps
<1>2. ASSUME NEW t \in Threads, Loop(t) PROVE IInv'
  BY <1>2, GoesOn, ReadFailsKeeps, CloseKeeps, AcceptKeeps, AcceptFullKeeps,
     WriteStartKeeps, WriteNextKeeps, WriteFailsKeeps
  DEF Loop
<1>3. ASSUME NEW t \in Threads, StartFails(t) \/ EpollFails(t) PROVE IInv'
  BY <1>3, GoesOn
<1>4. CASE UNCHANGED vars
  <2>1. /\ UNCHANGED tableVars
        /\ open' = open /\ interest' = interest /\ l_sock' = l_sock /\ next' = next
        /\ pc' = pc /\ events' = events /\ fd' = fd /\ crashed' = crashed
        /\ astray' = astray /\ overflowed' = overflowed /\ retaken' = retaken
    BY <1>4 DEF vars, kernelVars, tableVars, loopVars
  <2>2. \A t \in Threads : Linked(t)' = Linked(t) /\ InHand(t)' = InHand(t)
    BY <2>1, TablesStay DEF InHand
  <2>3. \A t \in Threads : Mine(t)' = Mine(t)
    BY <2>1, <2>2 DEF Mine
  <2>4. TableTypes' /\ LoopTypes' /\ Flag' /\ FaultsExplained'
    BY <2>1, TablesStay DEF IInv, LoopTypes, Flag, FaultsExplained
  <2>5. CASE Running
    <3>1. RunInv
      BY <2>5 DEF IInv
    <3>2. TableInv' /\ OwnInv'
      BY <2>1, <2>2, <2>3, <3>1, TablesStay DEF RunInv, OwnInv
    <3>3. ListenInv'
      BY <2>1, <2>2, <2>3, <3>1 DEF RunInv, ListenInv, IInv, LoopTypes
    <3>4. EventInv' /\ WalkInv' /\ AccountInv'
      BY <2>1, <2>2, <3>1 DEF RunInv, EventInv, WalkInv, AccountInv
    <3> QED
      BY <2>4, <3>2, <3>3, <3>4 DEF IInv, RunInv
  <2>6. CASE ~Running
    <3>1. ~Running'
      BY <2>1, <2>6 DEF Running
    <3> QED
      BY <2>4, <3>1 DEF IInv
  <2> QED
    BY <2>5, <2>6
<1> QED
  BY <1>1, <1>2, <1>3, <1>4 DEF Next

(* The inductive invariant holds in every state, for any threads,          *)
(* descriptors and limits, whatever fails.                                 *)
THEOREM Invariant == Spec => []IInv
<1>1. Init => IInv
  BY InitHolds
<1>2. IInv /\ [Next]_vars => IInv'
  BY NextKeeps
<1> QED
  BY <1>1, <1>2, PTL DEF Spec

(* Every variable always has its type: no table grows beyond               *)
(* MAX_FD_PER_LOOP, and a thread stands on a slot whenever it removes,     *)
(* closes or writes one.                                                   *)
THEOREM TypeCorrect == Spec => []TypeOK
<1>1. IInv => TypeOK
  BY DEF IInv, TableTypes, LoopTypes, Flag, RunInv, EventInv, TypeOK
<1> QED
  BY <1>1, Invariant, PTL

(* hh.next and hh.prev form a list of num_items slots from head to tail in *)
(* the table of each thread, although HASH_DELETE leaves the links of      *)
(* removed slots as they were and slots move to the tables of other        *)
(* threads.                                                                *)
THEOREM ListsIntact == Spec => []TableIntact
<1>1. IInv => TableIntact
  <2> SUFFICES ASSUME IInv, Running, NEW t \in Threads
               PROVE  /\ Cardinality(Linked(t)) = Count(t)
                      /\ contexts_by_ptr[t] # NULL =>
                            /\ prev[contexts_by_ptr[t]] = NULL
                            /\ tail[t] \in Linked(t) /\ next[tail[t]] = NULL
                            /\ \A c \in Linked(t) : next[c] # NULL => prev[next[c]] = c
    BY DEF TableIntact
  <2>1. /\ IsList(contexts_by_ptr[t], tail[t], prev, next)
        /\ Cardinality(Linked(t)) = Count(t)
    BY DEF IInv, RunInv, TableInv
  <2> QED
    BY <2>1 DEF IsList, Linked
<1> QED
  BY <1>1, Invariant, PTL

(* No slot is in two tables, or in the table of one thread and the epoll   *)
(* instance of another, and all slots in tables are open: remove_client    *)
(* takes a slot out of the table before it closes its descriptor.          *)
THEOREM ServedByOne == Spec => []OneServer
<1>1. IInv => OneServer
  BY DEF IInv, RunInv, OwnInv, Mine, OneServer
<1> QED
  BY <1>1, Invariant, PTL

(* A loop that never was full listens and has a slot for each descriptor   *)
(* it is told about, whatever other threads do, and no descriptor leaks    *)
(* before some loop is full.                                               *)
THEOREM NothingForgotten == Spec => []AllAccounted
<1>1. IInv => AllAccounted
  BY DEF IInv, RunInv, ListenInv, AccountInv, AllAccounted
<1> QED
  BY <1>1, Invariant, PTL

(* HASH_DELETE meets an empty table only in a loop that was full before,   *)
(* and the walk of the write phase goes astray only from a slot that       *)
(* another thread was given, or in a loop that was full.                   *)
THEOREM FaultsHaveCauses == Spec => []FaultsExplained
<1>1. IInv => FaultsExplained
  BY DEF IInv
<1> QED
  BY <1>1, Invariant, PTL
=============================================================================
