-------------------------- MODULE TopicTreeProofs --------------------------
(* Proofs about the subscription tree, for any number of threads and       *)
(* slots, and for any filters and topics: its types, that its lists have   *)
(* no duplicates, and that a message is delivered only to matching         *)
(* subscriptions and once to each.                                         *)
(*                                                                         *)
(* The argument. root_lock leaves one thread at a time in the tree         *)
(* (LockInv), so that what _sub_add did not find is still not there when   *)
(* it adds it (AddInv). Nothing is removed from the tree, and lists only   *)
(* grow at their ends, so what lies behind a search, in the order of its   *)
(* walk, stays behind it (Passed, PassedGrows). All that a search has      *)
(* delivered to lies behind it (GotInv), and what it turns to does not, so *)
(* it does not deliver twice; and the node whose leaves it is at matches   *)
(* the topic, token by token (WalkInv).                                    *)
EXTENDS TopicTree, SequenceTheorems, TLAPS

(* The topics of nodes. *)
Names == Levels \cup {Empty}

(* The first k steps of the way to a node. *)
Pre(p, k) == SubSeq(p, 1, k)

(* q is in the subtree of p. *)
AtOrBelow(q, p) == Len(q) >= Len(p) /\ Pre(q, Len(p)) = p

(* Every node on the way to p is in the tree ch. *)
Linked(ch, p) == \A k \in 0..(Len(p) - 1) : p[k + 1] \in Range(ch[Pre(p, k)])

(* a comes before b in a list. *)
Earlier(list, a, b) ==
    \E i, j \in DOMAIN list : i < j /\ list[i] = a /\ list[j] = b

(* What a search that looks at the child b of p is at, in the loop at      *)
(* depth k.                                                                *)
At(p, b, k) == IF k < Len(p) THEN p[k + 1] ELSE b

(* q lies behind such a search: where the ways to q and p part, the loop   *)
(* has passed the child on the way to q.                                   *)
Passed(ch, p, b, q) ==
    \E k \in 0..Len(p) :
        /\ k < Len(q)
        /\ Pre(q, k) = Pre(p, k)
        /\ \/ At(p, b, k) = NULL /\ q[k + 1] \in Range(ch[Pre(p, k)])
           \/ Earlier(ch[Pre(p, k)], q[k + 1], At(p, b, k))

-----------------------------------------------------------------------------
(* Where a thread searches. *)
Searching == {"search", "leaves", "searched"}

(* The identifiers, and the flag of a slot (Boolean values are kept apart: *)
(* one prover handles them, another the rest).                             *)
Ids   == UNION Range(IdsOf)
Flags == is_subscribe \in [Clients -> BOOLEAN]

(* The types. A slot only ever has an identifier that may connect in it.   *)
TypeInv ==
    /\ children \in [Nodes -> Seq(Names)]
    /\ subs \in [Nodes -> Seq(Clients)]
    /\ root_lock \in Threads \cup {NULL}
    /\ id \in [Clients -> Ids \cup {NULL}]
    /\ \A c \in Clients : id[c] \in IdsOf[c] \cup {NULL}
    /\ pc \in [Threads -> Adding \cup Searching \cup {"idle", "lock", "added", "failed"}]
    /\ context \in [Threads -> Clients \cup {NULL}]
    /\ arg \in [Threads -> Filters \cup Topics \cup {<<>>}]
    /\ subhier \in [Threads -> Nodes]
    /\ branch \in [Threads -> Names \cup {NULL}]
    /\ leaf \in [Threads -> Nat \ {0}]
    /\ asked \in [Clients -> SUBSET Filters]
    /\ acked \in [Clients -> SUBSET Filters]
    /\ due \in [Threads -> SUBSET Leaves]
    /\ got \in [Threads -> Seq(Leaves)]

(* One thread at a time changes the tree. *)
LockInv == \A t \in Threads : pc[t] \in Adding => root_lock = t

(* The lists have no duplicates, a leaf was asked for, and is in the tree. *)
TreeInv ==
    \A p \in Nodes :
        /\ IsInjective(children[p])
        /\ \A b \in Range(children[p]) : Append(p, b) \in Nodes
        /\ IsInjective(subs[p])
        /\ \A c \in Range(subs[p]) : \E f \in asked[c] : PathOf(f) = p
        /\ subs[p] # <<>> => Linked(children, p)

(* What a thread does has left nothing in its locals, and the slot that    *)
(* its handler works for is one of its own, with a client.                 *)
LocalInv(t) ==
    /\ pc[t] \in Adding \cup {"lock", "added", "failed"} =>
          /\ context[t] \in Clients /\ Loop[context[t]] = t
          /\ id[context[t]] # NULL
          /\ arg[t] \in asked[context[t]]
    /\ pc[t] \notin {"find", "leaves"} => leaf[t] = 1
    /\ pc[t] \notin {"search", "leaves"} => branch[t] = NULL
    /\ pc[t] \notin Searching => got[t] = <<>> /\ due[t] = {}
    /\ pc[t] \in {"idle", "lock", "root", "new_root", "searched"} => subhier[t] = Root

(* _sub_add is on the way to its filter's node, and knows what it has not  *)
(* found there.                                                            *)
AddInv(t) ==
    /\ pc[t] = "new_root" => Head(Tokenise(arg[t])) \notin Range(children[Root])
    /\ pc[t] \in {"find", "new_branch", "new_leaf", "unlock", "added"} =>
          /\ Len(subhier[t]) \in 1..Len(PathOf(arg[t]))
          /\ subhier[t] = Pre(PathOf(arg[t]), Len(subhier[t]))
          /\ Linked(children, subhier[t])
    /\ pc[t] = "new_branch" => HasToken(t) /\ Token(t) \notin Range(children[subhier[t]])
    /\ pc[t] \in {"new_leaf", "unlock", "added"} => ~HasToken(t)
    /\ pc[t] = "find" =>
          /\ HasToken(t) => leaf[t] = 1
          /\ \A i \in 1..(leaf[t] - 1) : /\ i \in DOMAIN subs[subhier[t]]
                                         /\ subs[subhier[t]][i] # context[t]
    /\ pc[t] = "new_leaf" => context[t] \notin Range(subs[subhier[t]])

(* _sub_search is at a node that matches the topic so far. *)
WalkInv(t) ==
    pc[t] \in Searching =>
        LET tokens == Tokenise(arg[t]) IN
        /\ arg[t] \in Topics
        /\ Linked(children, subhier[t])
        /\ subhier[t] # Root => subhier[t][1] = Head(tokens)
        /\ \A k \in 2..Len(subhier[t]) :
              k - 1 <= Len(tokens) /\ subhier[t][k] \in {tokens[k - 1], "+"}
        /\ branch[t] # NULL => branch[t] \in Range(children[subhier[t]])
        /\ pc[t] = "leaves" =>
              /\ branch[t] # NULL /\ subhier[t] # Root
              /\ \/ branch[t] = "#"
                 \/ /\ Len(subhier[t]) = Len(tokens)
                    /\ branch[t] \in {tokens[Len(subhier[t])], "+"}

(* What was delivered lies behind the search, at the node whose leaves it  *)
(* is at before the leaf it is at.                                         *)
Behindhand(t, l) ==
    \/ Passed(children, subhier[t], branch[t], l.node)
    \/ /\ pc[t] = "leaves"
       /\ AtOrBelow(l.node, Here(t))
       /\ l.node = Here(t) =>
             \E i \in DOMAIN subs[Here(t)] : i < leaf[t] /\ subs[Here(t)][i] = l.context

(* No leaf is delivered to twice, and each one was asked for with a filter *)
(* that matches.                                                           *)
GotInv(t) ==
    /\ IsInjective(got[t])
    /\ \A l \in Range(got[t]) :
          /\ \E f \in asked[l.context] : PathOf(f) = l.node /\ Match(f, arg[t])
          /\ Behindhand(t, l)

(* The inductive invariant of the safety properties.                       *)
IInv ==
    /\ Flags /\ TypeInv /\ LockInv /\ TreeInv
    /\ \A t \in Threads : LocalInv(t) /\ AddInv(t) /\ WalkInv(t) /\ GotInv(t)
-----------------------------------------------------------------------------
(* Sequences. *)

(* A prefix by its elements. *)
LEMMA PreFacts ==
    ASSUME NEW S, NEW p \in Seq(S), NEW k \in 0..Len(p)
    PROVE  /\ Pre(p, k) \in Seq(S) /\ Len(Pre(p, k)) = k
           /\ \A i \in 1..k : Pre(p, k)[i] = p[i]
<1>1. Len(p) \in Nat /\ k \in Int /\ \A i \in 1..k : p[i] \in S
  BY LenProperties, ElementOfSeq
<1>2. /\ SubSeq(p, 1, k) \in Seq(S)
      /\ Len(SubSeq(p, 1, k)) = IF 1 <= k THEN k - 1 + 1 ELSE 0
      /\ \A i \in 1..(k - 1 + 1) : SubSeq(p, 1, k)[i] = p[1 + i - 1]
  BY <1>1, SubSeqProperties
<1>3. \A i \in 1..k : 1 + i - 1 = i
  BY <1>1
<1>4. k - 1 + 1 = k
  BY <1>1
<1> QED
  BY <1>1, <1>2, <1>3, <1>4 DEF Pre

(* Sequences with the same elements have the same prefix. *)
LEMMA PreSame ==
    ASSUME NEW S, NEW p \in Seq(S), NEW q \in Seq(S),
           NEW k \in 0..Len(p), k <= Len(q), \A i \in 1..k : p[i] = q[i]
    PROVE  Pre(p, k) = Pre(q, k)
<1>1. k \in 0..Len(q)
  BY LenProperties
<1>2. /\ Pre(p, k) \in Seq(S) /\ Len(Pre(p, k)) = k
      /\ \A i \in 1..k : Pre(p, k)[i] = p[i]
  BY PreFacts
<1>3. /\ Pre(q, k) \in Seq(S) /\ Len(Pre(q, k)) = k
      /\ \A i \in 1..k : Pre(q, k)[i] = q[i]
  BY <1>1, PreFacts
<1> QED
  BY <1>2, <1>3, SeqEqual

(* And the other way round. *)
LEMMA PreElements ==
    ASSUME NEW S, NEW p \in Seq(S), NEW q \in Seq(S),
           NEW k \in 0..Len(p), k <= Len(q), Pre(p, k) = Pre(q, k)
    PROVE  \A i \in 1..k : p[i] = q[i]
<1>1. k \in 0..Len(q)
  BY LenProperties
<1>2. \A i \in 1..k : Pre(p, k)[i] = p[i]
  BY PreFacts
<1>3. \A i \in 1..k : Pre(q, k)[i] = q[i]
  BY <1>1, PreFacts
<1> QED
  BY <1>2, <1>3

(* The ends. *)
LEMMA PreEnds ==
    ASSUME NEW S, NEW p \in Seq(S)
    PROVE  Pre(p, 0) = <<>> /\ Pre(p, Len(p)) = p
  BY SubSeqEmpty, SubSeqFull DEF Pre

(* Prefixes of a prefix. *)
LEMMA PrePre ==
    ASSUME NEW S, NEW p \in Seq(S), NEW n \in 0..Len(p), NEW k \in 0..n
    PROVE  Pre(Pre(p, n), k) = Pre(p, k)
<1>1. Len(p) \in Nat
  BY LenProperties
<1>2. /\ Pre(p, n) \in Seq(S) /\ Len(Pre(p, n)) = n
      /\ \A i \in 1..n : Pre(p, n)[i] = p[i]
  BY PreFacts
<1>3. k \in 0..Len(Pre(p, n)) /\ k <= Len(p) /\ \A i \in 1..k : i \in 1..n
  BY <1>1, <1>2
<1>4. \A i \in 1..k : Pre(p, n)[i] = p[i]
  BY <1>2, <1>3
<1> DEFINE r == Pre(p, n)
<1> HIDE DEF r
<1>5. Pre(r, k) = Pre(p, k)
  BY <1>2, <1>3, <1>4, PreSame DEF r
<1> QED
  BY <1>5 DEF r

(* One step further. *)
LEMMA PreAppend ==
    ASSUME NEW S, NEW p \in Seq(S), NEW b \in S
    PROVE  /\ Append(p, b) \in Seq(S) /\ Len(Append(p, b)) = Len(p) + 1
           /\ \A k \in 0..Len(p) : Pre(Append(p, b), k) = Pre(p, k)
           /\ \A k \in 1..Len(p) : Append(p, b)[k] = p[k]
           /\ Append(p, b)[Len(p) + 1] = b
<1> DEFINE q == Append(p, b)
<1>1. /\ q \in Seq(S) /\ Len(q) = Len(p) + 1 /\ \A i \in 1..Len(p) : q[i] = p[i]
      /\ q[Len(p) + 1] = b
  BY AppendProperties
<1>2. Len(p) \in Nat
  BY LenProperties
<1> HIDE DEF q
<1>3. ASSUME NEW k \in 0..Len(p) PROVE Pre(q, k) = Pre(p, k)
  <2>1. k <= Len(q) /\ \A i \in 1..k : p[i] = q[i]
    BY <1>1, <1>2
  <2>2. Pre(p, k) = Pre(q, k)
    BY <1>1, <2>1, PreSame
  <2> QED
    BY <2>2
<1> QED
  BY <1>1, <1>3 DEF q

(* A prefix that is one longer.                                            *)
LEMMA PreStep ==
    ASSUME NEW S, NEW p \in Seq(S), NEW k \in 0..(Len(p) - 1)
    PROVE  Pre(p, k + 1) = Append(Pre(p, k), p[k + 1])
<1>1. Len(p) \in Nat /\ k \in 0..Len(p) /\ k + 1 \in 0..Len(p) /\ k + 1 \in 1..Len(p)
  BY LenProperties
<1>2. p[k + 1] \in S
  BY <1>1, ElementOfSeq
<1> DEFINE q == Pre(p, k)
           r == Append(q, p[k + 1])
           s == Pre(p, k + 1)
<1>3. q \in Seq(S) /\ Len(q) = k /\ \A i \in 1..k : q[i] = p[i]
  BY <1>1, PreFacts
<1>4. s \in Seq(S) /\ Len(s) = k + 1 /\ \A i \in 1..(k + 1) : s[i] = p[i]
  <2> DEFINE m == k + 1
  <2>1. m \in 0..Len(p)
    BY <1>1
  <2> HIDE DEF m
  <2>2. /\ Pre(p, m) \in Seq(S) /\ Len(Pre(p, m)) = m
        /\ \A i \in 1..m : Pre(p, m)[i] = p[i]
    BY <2>1, PreFacts
  <2> QED
    BY <2>2 DEF m
<1> HIDE DEF q, s
<1>5. r \in Seq(S) /\ Len(r) = k + 1 /\ r[k + 1] = p[k + 1] /\ \A i \in 1..k : r[i] = q[i]
  BY <1>2, <1>3, AppendProperties
<1> HIDE DEF r
<1>6. \A i \in 1..(k + 1) : s[i] = r[i]
  BY <1>1, <1>3, <1>4, <1>5
<1>7. s = r
  BY <1>4, <1>5, <1>6, SeqEqual
<1> QED
  BY <1>7 DEF r, s, q

(* One step back. *)
LEMMA FrontLast ==
    ASSUME NEW S, NEW p \in Seq(S), p # <<>>
    PROVE  /\ Len(p) \in Nat /\ Len(p) >= 1
           /\ Front(p) \in Seq(S) /\ Len(Front(p)) = Len(p) - 1
           /\ Last(p) \in S /\ Last(p) = p[Len(p)]
           /\ p = Append(Front(p), Last(p))
           /\ \A k \in 0..(Len(p) - 1) : Pre(Front(p), k) = Pre(p, k)
           /\ \A k \in 1..(Len(p) - 1) : Front(p)[k] = p[k]
<1>1. Len(p) \in Nat /\ Len(p) >= 1
  BY EmptySeq, LenProperties
<1> DEFINE n == Len(p) - 1
<1>2. n \in 0..Len(p) /\ n \in 0..(Len(p) - 1) /\ n + 1 = Len(p) /\ Len(p) \in 1..Len(p)
  BY <1>1
<1>3. Front(p) = Pre(p, n) /\ Last(p) = p[Len(p)]
  BY DEF Front, Last, Pre
<1>4. Last(p) \in S
  BY <1>2, <1>3, ElementOfSeq
<1>5. Pre(p, n + 1) = Append(Pre(p, n), p[n + 1])
  BY <1>2, PreStep
<1>6. Pre(p, Len(p)) = p
  BY PreEnds
<1>7. \A k \in 0..n : Pre(Pre(p, n), k) = Pre(p, k)
  BY <1>2, PrePre
<1>8. Pre(p, n) \in Seq(S) /\ Len(Pre(p, n)) = n /\ \A i \in 1..n : Pre(p, n)[i] = p[i]
  BY <1>2, PreFacts
<1> QED
  BY <1>1, <1>2, <1>3, <1>4, <1>5, <1>6, <1>7, <1>8
-----------------------------------------------------------------------------
(* Lists without duplicates. *)

(* NULL is no topic of a node.                                             *)
LEMMA NullFacts == NULL \notin Names
  BY TreeAssumption DEF Names

(* Positions and elements of a list.                                       *)
LEMMA InRange ==
    ASSUME NEW S, NEW list \in Seq(S)
    PROVE  /\ DOMAIN list = 1..Len(list) /\ Len(list) \in Nat
           /\ \A i \in DOMAIN list : list[i] \in Range(list)
           /\ \A a \in Range(list) : a \in S /\ \E i \in DOMAIN list : list[i] = a
  BY LenProperties, ElementOfSeq DEF Range

(* A list that was extended at either end keeps its order. *)
Grown(list, new) ==
    /\ Range(list) \subseteq Range(new)
    /\ \A a, b : Earlier(list, a, b) => Earlier(new, a, b)

(* A node, a leaf or a delivery at the end of a list (_sub_add).           *)
LEMMA AppendGrows ==
    ASSUME NEW S, NEW list \in Seq(S), IsInjective(list), NEW x \in S, x \notin Range(list)
    PROVE  LET new == Append(list, x) IN
           /\ new \in Seq(S) /\ IsInjective(new)
           /\ Range(new) = Range(list) \cup {x}
           /\ Grown(list, new)
           /\ DOMAIN list \subseteq DOMAIN new /\ \A i \in DOMAIN list : new[i] = list[i]
<1> DEFINE new == Append(list, x)
           n == Len(list)
<1>1. n \in Nat /\ DOMAIN list = 1..n
  BY LenProperties
<1>2. /\ new \in Seq(S) /\ Len(new) = n + 1
      /\ \A i \in 1..n : new[i] = list[i]
      /\ new[n + 1] = x
  BY AppendProperties
<1>3. DOMAIN new = 1..(n + 1)
  <2> HIDE DEF new, n
  <2> QED
    BY <1>2, LenProperties
<1> HIDE DEF new, n
<1>4. DOMAIN new = DOMAIN list \cup {n + 1} /\ n + 1 \notin DOMAIN list
  BY <1>1, <1>3
<1>5. \A i \in DOMAIN list : new[i] = list[i] /\ list[i] # x
  BY <1>1, <1>2 DEF Range
<1>6. Range(new) = Range(list) \cup {x}
  BY <1>2, <1>4, <1>5 DEF Range
<1>7. IsInjective(new)
  <2> SUFFICES ASSUME NEW a \in DOMAIN new, NEW b \in DOMAIN new, new[a] = new[b]
               PROVE  a = b
    BY DEF IsInjective
  <2> QED
    BY <1>2, <1>4, <1>5 DEF IsInjective
<1>8. Grown(list, new)
  BY <1>4, <1>5, <1>6 DEF Grown, Earlier
<1> QED
  BY <1>2, <1>4, <1>5, <1>6, <1>7, <1>8 DEF new

(* A node at the front of the list of the root (mqtt3_sub_add).            *)
LEMMA PrependGrows ==
    ASSUME NEW S, NEW list \in Seq(S), IsInjective(list), NEW x \in S, x \notin Range(list)
    PROVE  LET new == <<x>> \o list IN
           /\ new \in Seq(S) /\ IsInjective(new)
           /\ Range(new) = Range(list) \cup {x}
           /\ Grown(list, new)
<1> DEFINE one == <<x>>
           new == one \o list
           n == Len(list)
<1>1. n \in Nat /\ DOMAIN list = 1..n
  BY LenProperties
<1>2. one \in Seq(S) /\ Len(one) = 1 /\ one[1] = x
  OBVIOUS
<1> HIDE DEF one
<1>3. /\ new \in Seq(S) /\ Len(new) = Len(one) + Len(list)
      /\ \A i \in 1..(Len(one) + Len(list)) :
            new[i] = IF i <= Len(one) THEN one[i] ELSE list[i - Len(one)]
  BY <1>2, ConcatProperties
<1> HIDE DEF new
<1>4. DOMAIN new = 1..(n + 1)
  BY <1>1, <1>2, <1>3, LenProperties DEF n
<1>5. new[1] = x /\ \A i \in 1..n : new[i + 1] = list[i] /\ i + 1 \in DOMAIN new
  BY <1>1, <1>2, <1>3, <1>4 DEF n
<1>6. \A j \in DOMAIN new : j = 1 \/ (j - 1 \in 1..n /\ new[j] = list[j - 1])
  BY <1>1, <1>2, <1>3, <1>4 DEF n
<1> HIDE DEF n
<1>7. \A i \in 1..n : list[i] # x
  BY <1>1 DEF Range
<1>8. Range(new) = Range(list) \cup {x}
  <2>1. 1 \in DOMAIN new
    BY <1>1, <1>4
  <2>2. ASSUME NEW y \in Range(new) PROVE y \in Range(list) \cup {x}
    BY <1>1, <1>5, <1>6 DEF Range
  <2>3. ASSUME NEW y \in Range(list) PROVE y \in Range(new)
    BY <1>1, <1>5 DEF Range
  <2>4. x \in Range(new)
    BY <2>1, <1>5 DEF Range
  <2> QED
    BY <2>2, <2>3, <2>4
<1>9. IsInjective(new)
  <2> SUFFICES ASSUME NEW a \in DOMAIN new, NEW b \in DOMAIN new, new[a] = new[b]
               PROVE  a = b
    BY DEF IsInjective
  <2>1. a \in Int /\ b \in Int
    BY <1>1, <1>4
  <2>2. CASE a # 1 /\ b # 1
    <3>1. a - 1 \in 1..n /\ b - 1 \in 1..n /\ list[a - 1] = list[b - 1]
      BY <1>6, <2>2
    <3>2. a - 1 = b - 1
      BY <1>1, <3>1 DEF IsInjective
    <3> QED
      BY <2>1, <3>2
  <2> QED
    BY <2>2, <1>5, <1>6, <1>7
<1>10. Grown(list, new)
  <2>1. ASSUME NEW a, NEW b, Earlier(list, a, b) PROVE Earlier(new, a, b)
    <3>1. PICK i \in DOMAIN list, j \in DOMAIN list : i < j /\ list[i] = a /\ list[j] = b
      BY <2>1 DEF Earlier
    <3>2. i + 1 \in DOMAIN new /\ j + 1 \in DOMAIN new /\ i + 1 < j + 1
          /\ new[i + 1] = a /\ new[j + 1] = b
      BY <1>1, <1>5, <3>1
    <3> QED
      BY <3>2 DEF Earlier
  <2> QED
    BY <1>8, <2>1 DEF Grown
<1> QED
  BY <1>3, <1>8, <1>9, <1>10 DEF new, one

(* Nothing comes before itself. *)
LEMMA NotEarlier ==
    ASSUME NEW S, NEW list \in Seq(S), IsInjective(list), NEW a
    PROVE  ~Earlier(list, a, a)
<1>1. DOMAIN list \subseteq Int
  BY LenProperties
<1> QED
  BY <1>1 DEF Earlier, IsInjective

(* The walk through a list starts with all of it ahead. *)
LEMMA FirstFacts ==
    ASSUME NEW list \in Seq(Names), IsInjective(list)
    PROVE  /\ First(list) \in Range(list) \cup {NULL}
           /\ \A a \in Range(list) : First(list) # NULL /\
                                     (a = First(list) \/ Earlier(list, First(list), a))
<1>1. Len(list) \in Nat /\ DOMAIN list = 1..Len(list)
  BY LenProperties
<1>2. CASE list = <<>>
  BY <1>2 DEF First, Range
<1>3. CASE list # <<>>
  <2>1. Len(list) >= 1 /\ 1 \in DOMAIN list
    BY <1>1, <1>3, EmptySeq
  <2>2. First(list) = list[1]
    BY <1>3 DEF First
  <2>3. list[1] \in Range(list) /\ list[1] \in Names
    BY <2>1, <1>1, InRange
  <2>4. ASSUME NEW a \in Range(list) PROVE a = list[1] \/ Earlier(list, list[1], a)
    <3>1. PICK i \in DOMAIN list : list[i] = a
      BY DEF Range
    <3>2. i = 1 \/ 1 < i
      BY <1>1
    <3> QED
      BY <3>1, <3>2, <2>1 DEF Earlier
  <2> QED
    BY <2>2, <2>3, <2>4, NullFacts
<1> QED
  BY <1>2, <1>3

(* A turn of the loop passes b and nothing else. *)
LEMMA BehindFacts ==
    ASSUME NEW list \in Seq(Names), IsInjective(list), NEW b \in Range(list)
    PROVE  LET n == Behind(list, b) IN
           /\ n \in Range(list) \cup {NULL}
           /\ n # NULL => Earlier(list, b, n)
           /\ n # NULL => \A a : Earlier(list, a, b) => Earlier(list, a, n)
           /\ \A a : Earlier(list, b, a) => n # NULL /\ (a = n \/ Earlier(list, n, a))
<1> DEFINE i == CHOOSE i \in DOMAIN list : list[i] = b
           n == Behind(list, b)
<1>1. Len(list) \in Nat /\ DOMAIN list = 1..Len(list)
  BY LenProperties
<1>2. i \in DOMAIN list /\ list[i] = b
  BY DEF Range
<1>3. n = IF i = Len(list) THEN NULL ELSE list[i + 1]
  BY DEF Behind
<1> HIDE DEF i, n
<1>4. \A j \in DOMAIN list : list[j] = b => j = i
  BY <1>2 DEF IsInjective
<1>5. CASE i = Len(list)
  <2>1. n = NULL
    BY <1>3, <1>5
  <2>2. ASSUME NEW a PROVE ~Earlier(list, b, a)
    BY <1>1, <1>2, <1>4, <1>5 DEF Earlier
  <2> QED
    BY <2>1, <2>2 DEF n
<1>6. CASE i # Len(list)
  <2> DEFINE m == i + 1
  <2>1. n = list[m] /\ m \in DOMAIN list /\ i < m
    BY <1>1, <1>2, <1>3, <1>6
  <2>2. n \in Range(list) /\ n \in Names /\ n # NULL
    BY <2>1, InRange, NullFacts
  <2>3. Earlier(list, b, n)
    BY <1>2, <2>1 DEF Earlier
  <2>4. ASSUME NEW a, Earlier(list, a, b) PROVE Earlier(list, a, n)
    <3>1. PICK j \in DOMAIN list : j < i /\ list[j] = a
      BY <2>4, <1>4 DEF Earlier
    <3>2. j < m
      BY <1>1, <1>2, <3>1, <2>1
    <3> QED
      BY <3>1, <3>2, <2>1 DEF Earlier
  <2>5. ASSUME NEW a, Earlier(list, b, a) PROVE a = n \/ Earlier(list, n, a)
    <3>1. PICK j \in DOMAIN list : i < j /\ list[j] = a
      BY <2>5, <1>4 DEF Earlier
    <3>2. j = m \/ m < j
      BY <1>1, <1>2, <3>1
    <3> QED
      BY <3>1, <3>2, <2>1 DEF Earlier
  <2> QED
    BY <2>2, <2>3, <2>4, <2>5 DEF n
<1> QED
  BY <1>5, <1>6
-----------------------------------------------------------------------------
(* Nodes. *)

(* Filters and topics are sequences of levels, with one at least.          *)
LEMMA LevelFacts ==
    ASSUME NEW f \in Filters \cup Topics
    PROVE  f \in Seq(Names) /\ Len(f) \in Nat /\ Len(f) >= 1 /\ f # <<>> /\ Head(f) = f[1]
<1>1. f \in Seq(Levels) /\ Len(f) > 0
  BY TreeAssumption
<1>2. Levels \subseteq Names
  BY DEF Names
<1>3. f \in Seq(Names)
  BY <1>1, <1>2, SeqMonotonic
<1>4. Len(f) \in Nat /\ f # <<>>
  BY <1>1, LenProperties, EmptySeq
<1> QED
  BY <1>1, <1>3, <1>4

(* The tokens are the levels, or the levels one place on behind an empty   *)
(* one.                                                                    *)
LEMMA TokenFacts ==
    ASSUME NEW f \in Filters \cup Topics
    PROVE  LET tokens == Tokenise(f) IN
           /\ tokens \in Seq(Names) /\ Len(tokens) \in Nat /\ Len(tokens) >= 1
           /\ Head(tokens) = tokens[1] /\ tokens[1] \in Names
           /\ f[1] \in Dollar => tokens = f
           /\ f[1] \notin Dollar => /\ Len(tokens) = Len(f) + 1
                                    /\ tokens[1] = Empty
                                    /\ \A i \in 1..Len(f) : tokens[i + 1] = f[i]
<1>1. f \in Seq(Names) /\ Len(f) \in Nat /\ Len(f) >= 1 /\ f # <<>> /\ Head(f) = f[1]
  BY LevelFacts
<1>2. 1 \in 1..Len(f)
  BY <1>1
<1>3. CASE f[1] \in Dollar
  <2>1. Tokenise(f) = f
    BY <1>1, <1>3 DEF Tokenise
  <2>2. f[1] \in Names
    BY <1>1, <1>2, ElementOfSeq
  <2> QED
    BY <1>1, <1>3, <2>1, <2>2
<1>4. CASE f[1] \notin Dollar
  <2> DEFINE one == <<Empty>>
             tokens == one \o f
  <2>1. Tokenise(f) = tokens
    BY <1>1, <1>4 DEF Tokenise
  <2>2. Empty \in Names
    BY DEF Names
  <2>3. one \in Seq(Names) /\ Len(one) = 1 /\ one[1] = Empty
    BY <2>2
  <2> HIDE DEF one
  <2>4. /\ tokens \in Seq(Names) /\ Len(tokens) = Len(one) + Len(f)
        /\ \A i \in 1..(Len(one) + Len(f)) :
              tokens[i] = IF i <= Len(one) THEN one[i] ELSE f[i - Len(one)]
    BY <1>1, <2>3, ConcatProperties
  <2> HIDE DEF tokens
  <2>5. /\ Len(tokens) = Len(f) + 1 /\ tokens[1] = Empty
        /\ \A i \in 1..Len(f) : tokens[i + 1] = f[i]
    BY <1>1, <2>3, <2>4
  <2>6. tokens # <<>>
    BY <1>1, <2>4, <2>5, EmptySeq
  <2>7. Head(tokens) = tokens[1]
    BY <2>4, <2>6
  <2> QED
    BY <1>1, <1>4, <2>1, <2>2, <2>4, <2>5, <2>7
<1> QED
  BY <1>3, <1>4

(* The path has the first token twice, and then the others.                *)
LEMMA PathFacts ==
    ASSUME NEW f \in Filters
    PROVE  LET p == PathOf(f)
               tokens == Tokenise(f)
           IN  /\ p \in Seq(Names) /\ Len(p) = Len(tokens) + 1 /\ Len(p) \in Nat /\ Len(p) >= 2
               /\ p[1] = tokens[1]
               /\ \A i \in 1..Len(tokens) : p[i + 1] = tokens[i]
<1> DEFINE tokens == Tokenise(f)
           one == <<Head(tokens)>>
           p == one \o tokens
<1>1. /\ tokens \in Seq(Names) /\ Len(tokens) \in Nat /\ Len(tokens) >= 1
      /\ Head(tokens) = tokens[1] /\ tokens[1] \in Names
  BY TokenFacts
<1>2. PathOf(f) = p
  BY DEF PathOf
<1>3. one \in Seq(Names) /\ Len(one) = 1 /\ one[1] = tokens[1]
  <2> HIDE DEF tokens
  <2> QED
    BY <1>1
<1> HIDE DEF tokens, one
<1>4. /\ p \in Seq(Names) /\ Len(p) = Len(one) + Len(tokens)
      /\ \A i \in 1..(Len(one) + Len(tokens)) :
            p[i] = IF i <= Len(one) THEN one[i] ELSE tokens[i - Len(one)]
  BY <1>1, <1>3, ConcatProperties
<1> HIDE DEF p
<1>5. /\ Len(p) = Len(tokens) + 1 /\ p[1] = tokens[1]
      /\ \A i \in 1..Len(tokens) : p[i + 1] = tokens[i]
  BY <1>1, <1>3, <1>4
<1> QED
  BY <1>1, <1>2, <1>4, <1>5 DEF tokens

(* All that lies on the way to the node of a filter are nodes.             *)
LEMMA PathNodes ==
    ASSUME NEW f \in Filters, NEW n \in 0..Len(PathOf(f))
    PROVE  Pre(PathOf(f), n) \in Nodes
<1>1. PathOf(f) \in Seq(Names) /\ Len(PathOf(f)) \in Nat
  BY PathFacts
<1>2. CASE n = 0
  BY <1>1, <1>2, PreEnds DEF Nodes, Root
<1>3. CASE n # 0
  <2>1. n \in 1..Len(PathOf(f))
    BY <1>1, <1>3
  <2> QED
    BY <2>1 DEF Nodes, Pre
<1> QED
  BY <1>2, <1>3

(* All that lies on the way to a node are nodes.                           *)
LEMMA NodeFacts ==
    ASSUME NEW p \in Nodes
    PROVE  /\ p \in Seq(Names) /\ Len(p) \in Nat
           /\ \A k \in 0..Len(p) : Pre(p, k) \in Nodes
<1>0. Empty \in Names
  BY DEF Names
<1>1. CASE p = Root
  <2>1. p \in Seq(Names) /\ Len(p) = 0
    BY <1>1 DEF Root
  <2>2. Pre(p, 0) = p
    BY <2>1, <1>1, PreEnds DEF Root
  <2>3. \A k \in 0..Len(p) : k = 0
    BY <2>1
  <2>4. \A k \in 0..Len(p) : Pre(p, k) = p
    BY <2>2, <2>3
  <2> QED
    BY <2>1, <2>4
<1>2. CASE p = <<Empty>>
  <2>1. p \in Seq(Names) /\ Len(p) = 1
    BY <1>0, <1>2
  <2>2. Pre(p, 0) = Root /\ Pre(p, 1) = p
    BY <2>1, PreEnds DEF Root
  <2>3. \A k \in 0..Len(p) : k = 0 \/ k = 1
    BY <2>1
  <2>4. Root \in Nodes
    BY DEF Nodes
  <2>5. ASSUME NEW k \in 0..Len(p) PROVE Pre(p, k) \in Nodes
    BY <2>2, <2>3, <2>4
  <2> QED
    BY <2>1, <2>5
<1>3. CASE \E f \in Filters : \E n \in 1..Len(PathOf(f)) : p = Pre(PathOf(f), n)
  <2>1. PICK f \in Filters : \E n \in 1..Len(PathOf(f)) : p = Pre(PathOf(f), n)
    BY <1>3
  <2>2. PICK n \in 1..Len(PathOf(f)) : p = Pre(PathOf(f), n)
    BY <2>1
  <2> DEFINE q == PathOf(f)
  <2>3. q \in Seq(Names) /\ Len(q) \in Nat
    BY PathFacts
  <2> HIDE DEF q
  <2>4. n \in 0..Len(q) /\ p = Pre(q, n)
    BY <2>2, <2>3 DEF q
  <2>5. p \in Seq(Names) /\ Len(p) = n
    BY <2>3, <2>4, PreFacts
  <2>6. ASSUME NEW k \in 0..Len(p) PROVE Pre(p, k) \in Nodes
    <3>1. k \in 0..n /\ k \in 0..Len(q)
      BY <2>3, <2>4, <2>5
    <3>2. Pre(p, k) = Pre(q, k)
      BY <2>3, <2>4, <3>1, PrePre
    <3>3. Pre(q, k) \in Nodes
      BY <3>1, PathNodes DEF q
    <3> QED
      BY <3>2, <3>3
  <2> QED
    BY <2>4, <2>5, <2>6
<1> QED
  BY <1>1, <1>2, <1>3 DEF Nodes, Pre
-----------------------------------------------------------------------------
(* The walk. *)

(* A tree as the search needs it: lists of topics without duplicates, and  *)
(* the children of a node are nodes.                                       *)
Tree(ch) ==
    /\ ch \in [Nodes -> Seq(Names)]
    /\ \A p \in Nodes : IsInjective(ch[p]) /\ \A b \in Range(ch[p]) : Append(p, b) \in Nodes

(* A tree to which nodes were added. *)
TreeGrown(ch, new) == \A p \in Nodes : Grown(ch[p], new[p])

(* A way into the tree stays when nodes are added,                         *)
LEMMA LinkedGrows ==
    ASSUME NEW ch, NEW new, TreeGrown(ch, new), NEW p \in Nodes, Linked(ch, p)
    PROVE  Linked(new, p)
<1> SUFFICES ASSUME NEW k \in 0..(Len(p) - 1)
             PROVE  p[k + 1] \in Range(new[Pre(p, k)])
  BY DEF Linked
<1>1. p[k + 1] \in Range(ch[Pre(p, k)])
  BY DEF Linked
<1>2. Len(p) \in Nat /\ \A m \in 0..Len(p) : Pre(p, m) \in Nodes
  BY NodeFacts
<1>3. Pre(p, k) \in Nodes
  BY <1>2
<1> QED
  BY <1>1, <1>3 DEF TreeGrown, Grown

(* and so does what lies behind a search,                                  *)
LEMMA PassedGrows ==
    ASSUME NEW ch, NEW new, TreeGrown(ch, new), NEW p \in Nodes, NEW b, NEW q,
           Passed(ch, p, b, q)
    PROVE  Passed(new, p, b, q)
<1>1. PICK k \in 0..Len(p) :
        /\ k < Len(q)
        /\ Pre(q, k) = Pre(p, k)
        /\ \/ At(p, b, k) = NULL /\ q[k + 1] \in Range(ch[Pre(p, k)])
           \/ Earlier(ch[Pre(p, k)], q[k + 1], At(p, b, k))
  BY DEF Passed
<1>2. Grown(ch[Pre(p, k)], new[Pre(p, k)])
  BY NodeFacts DEF TreeGrown
<1> DEFINE r == Pre(p, k)
<1>3. \/ At(p, b, k) = NULL /\ q[k + 1] \in Range(new[r])
      \/ Earlier(new[r], q[k + 1], At(p, b, k))
  <2> HIDE DEF r
  <2> QED
    BY <1>1, <1>2 DEF Grown, r
<1> QED
  BY <1>1, <1>3 DEF Passed

(* What lies behind stays behind when the search goes down, *)
LEMMA PassedDown ==
    ASSUME NEW ch, NEW p \in Seq(Names), NEW b \in Names, NEW c, NEW q,
           Passed(ch, p, b, q)
    PROVE  Passed(ch, Append(p, b), c, q)
<1> DEFINE r == Append(p, b)
<1>1. /\ Len(p) \in Nat /\ Len(r) = Len(p) + 1
      /\ \A k \in 0..Len(p) : Pre(r, k) = Pre(p, k)
      /\ \A k \in 1..Len(p) : r[k] = p[k]
      /\ r[Len(p) + 1] = b
  BY PreAppend, LenProperties
<1>2. PICK k \in 0..Len(p) :
        /\ k < Len(q)
        /\ Pre(q, k) = Pre(p, k)
        /\ \/ At(p, b, k) = NULL /\ q[k + 1] \in Range(ch[Pre(p, k)])
           \/ Earlier(ch[Pre(p, k)], q[k + 1], At(p, b, k))
  BY DEF Passed
<1> HIDE DEF r
<1>3. k \in 0..Len(r) /\ Pre(r, k) = Pre(p, k)
  BY <1>1
<1>4. At(r, c, k) = At(p, b, k)
  <2>1. CASE k < Len(p)
    BY <1>1, <2>1 DEF At
  <2>2. CASE k = Len(p)
    BY <1>1, <2>2 DEF At
  <2> QED
    BY <1>1, <2>1, <2>2
<1>5. Passed(ch, r, c, q)
  BY <1>2, <1>3, <1>4 DEF Passed
<1> QED
  BY <1>5 DEF r

(* and to the next child, *)
LEMMA PassedNext ==
    ASSUME NEW ch, Tree(ch), NEW p \in Nodes, NEW b \in Range(ch[p]), NEW q,
           Passed(ch, p, b, q)
    PROVE  Passed(ch, p, Behind(ch[p], b), q)
<1> DEFINE n == Behind(ch[p], b)
<1>1. /\ p \in Seq(Names) /\ Len(p) \in Nat /\ Pre(p, Len(p)) = p
      /\ ch[p] \in Seq(Names) /\ IsInjective(ch[p]) /\ b \in Names
  BY NodeFacts, PreEnds, RangeOfSeq DEF Tree
<1>2. /\ n # NULL => \A a : Earlier(ch[p], a, b) => Earlier(ch[p], a, n)
  BY <1>1, BehindFacts
<1> HIDE DEF n
<1>3. PICK k \in 0..Len(p) :
        /\ k < Len(q)
        /\ Pre(q, k) = Pre(p, k)
        /\ \/ At(p, b, k) = NULL /\ q[k + 1] \in Range(ch[Pre(p, k)])
           \/ Earlier(ch[Pre(p, k)], q[k + 1], At(p, b, k))
  BY DEF Passed
<1>4. CASE k < Len(p)
  <2>1. At(p, n, k) = At(p, b, k)
    BY <1>4 DEF At
  <2>2. Passed(ch, p, n, q)
    BY <1>3, <2>1 DEF Passed
  <2> QED
    BY <2>2 DEF n
<1>5. CASE ~(k < Len(p))
  <2>1. At(p, n, k) = n /\ At(p, b, k) = b /\ k = Len(p) /\ Pre(p, k) = p
    BY <1>1, <1>5 DEF At
  <2>2. Earlier(ch[p], q[k + 1], b)
    BY <1>1, <1>3, <2>1, NullFacts
  <2>3. \/ n = NULL /\ q[k + 1] \in Range(ch[p])
        \/ Earlier(ch[p], q[k + 1], n)
    BY <1>2, <2>2 DEF Earlier, Range
  <2>4. Passed(ch, p, n, q)
    BY <1>3, <2>1, <2>3 DEF Passed
  <2> QED
    BY <2>4 DEF n
<1> QED
  BY <1>4, <1>5

(* which passes the subtree of the child it was at; *)
LEMMA NextPasses ==
    ASSUME NEW ch, Tree(ch), NEW p \in Nodes, NEW b \in Range(ch[p]), NEW q \in Seq(Names),
           AtOrBelow(q, Append(p, b))
    PROVE  Passed(ch, p, Behind(ch[p], b), q)
<1> DEFINE n == Behind(ch[p], b)
           r == Append(p, b)
<1>1. /\ p \in Seq(Names) /\ Len(p) \in Nat /\ Pre(p, Len(p)) = p
      /\ ch[p] \in Seq(Names) /\ IsInjective(ch[p]) /\ b \in Names
  BY NodeFacts, PreEnds, RangeOfSeq DEF Tree
<1>2. n # NULL => Earlier(ch[p], b, n)
  BY <1>1, BehindFacts
<1>3. r \in Seq(Names) /\ Len(r) = Len(p) + 1 /\ Pre(r, Len(p)) = p /\ r[Len(p) + 1] = b
  BY <1>1, PreAppend
<1> HIDE DEF n, r
<1>4. Len(q) \in Nat /\ Len(q) >= Len(r) /\ Pre(q, Len(r)) = r
  BY LenProperties DEF AtOrBelow, r
<1> DEFINE k == Len(p)
<1>5. Pre(q, k) = p
  <2>1. Len(r) \in 0..Len(q) /\ k \in 0..Len(r)
    BY <1>1, <1>3, <1>4
  <2>2. Pre(Pre(q, Len(r)), k) = Pre(q, k)
    BY <2>1, PrePre
  <2> QED
    BY <2>2, <1>3, <1>4
<1>6. q[k + 1] = b
  <2>1. Len(r) \in 0..Len(q) /\ k + 1 \in 1..Len(r)
    BY <1>1, <1>3, <1>4
  <2>2. \A i \in 1..Len(r) : Pre(q, Len(r))[i] = q[i]
    BY <2>1, PreFacts
  <2> QED
    BY <2>1, <2>2, <1>3, <1>4
<1>7. At(p, n, k) = n /\ k < Len(q) /\ k \in 0..Len(p)
  BY <1>1, <1>3, <1>4 DEF At
<1>8. Passed(ch, p, n, q)
  BY <1>1, <1>2, <1>5, <1>6, <1>7 DEF Passed
<1> QED
  BY <1>8 DEF n

(* and back up, but for the subtree of the node it comes from. *)
LEMMA PassedUp ==
    ASSUME NEW ch, NEW p \in Seq(Names), p # <<>>, NEW q \in Seq(Names),
           Passed(ch, p, NULL, q)
    PROVE  Passed(ch, Front(p), Last(p), q) \/ (AtOrBelow(q, p) /\ q # p)
<1> DEFINE r == Front(p)
           b == Last(p)
<1>1. /\ Len(p) \in Nat /\ Len(p) >= 1 /\ Len(r) = Len(p) - 1
      /\ b = p[Len(p)]
      /\ \A k \in 0..(Len(p) - 1) : Pre(r, k) = Pre(p, k)
      /\ \A k \in 1..(Len(p) - 1) : r[k] = p[k]
  BY FrontLast
<1>2. Len(q) \in Nat /\ Pre(p, Len(p)) = p
  BY LenProperties, PreEnds
<1> HIDE DEF r, b
<1>3. PICK k \in 0..Len(p) :
        /\ k < Len(q)
        /\ Pre(q, k) = Pre(p, k)
        /\ \/ At(p, NULL, k) = NULL /\ q[k + 1] \in Range(ch[Pre(p, k)])
           \/ Earlier(ch[Pre(p, k)], q[k + 1], At(p, NULL, k))
  BY DEF Passed
<1>4. CASE k = Len(p)
  BY <1>2, <1>3, <1>4 DEF AtOrBelow
<1>5. CASE k < Len(p)
  <2>1. k \in 0..(Len(p) - 1) /\ k \in 0..Len(r) /\ Pre(r, k) = Pre(p, k)
    BY <1>1, <1>5
  <2>2. At(r, b, k) = At(p, NULL, k)
    <3>1. CASE k < Len(r)
      <4>1. k + 1 \in 1..(Len(p) - 1)
        BY <1>1, <2>1, <3>1
      <4>2. r[k + 1] = p[k + 1]
        BY <1>1, <4>1
      <4> QED
        BY <4>2, <1>5, <3>1 DEF At
    <3>2. CASE ~(k < Len(r))
      <4>1. k + 1 = Len(p)
        BY <1>1, <2>1, <3>2
      <4> QED
        BY <4>1, <1>1, <1>5, <3>2 DEF At
    <3> QED
      BY <3>1, <3>2
  <2>3. Passed(ch, r, b, q)
    BY <1>3, <2>1, <2>2 DEF Passed
  <2> QED
    BY <2>3 DEF r, b
<1> QED
  BY <1>1, <1>4, <1>5

(* The child the search is at does not lie behind it. *)
LEMMA NotPassed ==
    ASSUME NEW ch, Tree(ch), NEW p \in Nodes, NEW b \in Names
    PROVE  ~Passed(ch, p, b, Append(p, b))
<1> DEFINE q == Append(p, b)
<1>1. p \in Seq(Names) /\ Len(p) \in Nat
  BY NodeFacts
<1>2. /\ Len(q) = Len(p) + 1
      /\ \A k \in 1..Len(p) : q[k] = p[k]
      /\ q[Len(p) + 1] = b
  BY <1>1, PreAppend
<1> HIDE DEF q
<1> SUFFICES ASSUME Passed(ch, p, b, q) PROVE FALSE
  BY DEF q
<1>3. PICK k \in 0..Len(p) :
        /\ \/ At(p, b, k) = NULL /\ q[k + 1] \in Range(ch[Pre(p, k)])
           \/ Earlier(ch[Pre(p, k)], q[k + 1], At(p, b, k))
  BY DEF Passed
<1>4. q[k + 1] = At(p, b, k) /\ At(p, b, k) \in Names
  <2>1. CASE k < Len(p)
    <3>1. k + 1 \in 1..Len(p)
      BY <1>1, <2>1
    <3>2. p[k + 1] \in Names
      BY <1>1, <3>1, ElementOfSeq
    <3> QED
      BY <1>2, <3>1, <3>2, <2>1 DEF At
  <2>2. CASE ~(k < Len(p))
    <3>1. k = Len(p)
      BY <1>1, <2>2
    <3> QED
      BY <1>2, <3>1, <2>2 DEF At
  <2> QED
    BY <2>1, <2>2
<1>5. ch[Pre(p, k)] \in Seq(Names) /\ IsInjective(ch[Pre(p, k)])
  BY NodeFacts DEF Tree
<1> QED
  BY <1>3, <1>4, <1>5, NotEarlier, NullFacts
-----------------------------------------------------------------------------
(* What a step of one thread leaves of the others. *)

(* The part of the invariant that is about one thread.                     *)
ThreadInv(u) == LocalInv(u) /\ AddInv(u) /\ WalkInv(u) /\ GotInv(u)

(* The locals of u are left alone; leaves may be taken from due. *)
Keeps(u) ==
    /\ pc'[u] = pc[u] /\ context'[u] = context[u] /\ arg'[u] = arg[u]
    /\ subhier'[u] = subhier[u] /\ branch'[u] = branch[u] /\ leaf'[u] = leaf[u]
    /\ got'[u] = got[u] /\ due'[u] \subseteq due[u]

(* The tree, and the history of what was asked for, only grow. *)
Grows ==
    /\ TreeGrown(children, children')
    /\ \A p \in Nodes : /\ DOMAIN subs[p] \subseteq DOMAIN subs'[p]
                        /\ \A i \in DOMAIN subs[p] : subs'[p][i] = subs[p][i]
    /\ \A c \in Clients : asked[c] \subseteq asked'[c]

(* The tree of the model is one.                                           *)
LEMMA TreeOf ==
    ASSUME IInv
    PROVE  Tree(children)
  BY DEF IInv, TypeInv, TreeInv, Tree

(* The child that a search looks at is a node of the tree.                 *)
LEMMA HereFacts ==
    ASSUME IInv, NEW t \in Threads, pc[t] \in Searching, branch[t] # NULL
    PROVE  /\ branch[t] \in Range(children[subhier[t]]) /\ branch[t] \in Names
           /\ Here(t) \in Nodes /\ Here(t) = Append(subhier[t], branch[t])
           /\ subhier[t] \in Nodes
<1>1. subhier[t] \in Nodes /\ branch[t] \in Range(children[subhier[t]])
  BY DEF IInv, TypeInv, WalkInv
<1>2. branch[t] \in Names
  BY DEF IInv, TypeInv
<1>3. Append(subhier[t], branch[t]) \in Nodes
  BY <1>1, TreeOf DEF Tree
<1> QED
  BY <1>1, <1>2, <1>3 DEF Here

(* What holds of a thread still does when another one adds to the tree:    *)
(* what it added keeps its way to its node, and what a search has behind   *)
(* it stays behind.                                                        *)
LEMMA OtherThread ==
    ASSUME IInv, NEW u \in Threads, Keeps(u), Grows,
           pc[u] \in Adding => UNCHANGED <<children, subs>>,
           pc[u] \in Adding \cup {"lock", "added", "failed"} =>
              id'[context[u]] = id[context[u]]
    PROVE  ThreadInv(u)'
<1>0. /\ pc'[u] = pc[u] /\ context'[u] = context[u] /\ arg'[u] = arg[u]
      /\ subhier'[u] = subhier[u] /\ branch'[u] = branch[u] /\ leaf'[u] = leaf[u]
      /\ got'[u] = got[u] /\ due'[u] \subseteq due[u]
  BY DEF Keeps
<1>1. LocalInv(u) /\ AddInv(u) /\ WalkInv(u) /\ GotInv(u)
  BY DEF IInv
<1>2. subhier[u] \in Nodes /\ TreeGrown(children, children')
  BY DEF IInv, TypeInv, Grows
<1>3. Linked(children, subhier[u]) => Linked(children', subhier[u])
  BY <1>2, LinkedGrows
<1>5. LocalInv(u)'
  <2>1. pc[u] \in Adding \cup {"lock", "added", "failed"} =>
          /\ context[u] \in Clients /\ Loop[context[u]] = u
          /\ id[context[u]] # NULL
          /\ arg[u] \in asked[context[u]]
    BY <1>1 DEF LocalInv
  <2>2. pc[u] \in Adding \cup {"lock", "added", "failed"} =>
          /\ id'[context[u]] # NULL
          /\ arg[u] \in asked'[context[u]]
    BY <2>1 DEF Grows
  <2> QED
    BY <1>0, <1>1, <2>1, <2>2 DEF LocalInv
<1>6. AddInv(u)'
  <2>1. HasToken(u)' = HasToken(u) /\ Token(u)' = Token(u)
    BY <1>0 DEF HasToken, Token
  <2>2. pc[u] \in {"new_root", "find", "new_branch", "new_leaf"} => pc[u] \in Adding
    BY DEF Adding
  <2>3. CASE pc[u] \in Adding
    BY <1>0, <1>1, <2>1, <2>3 DEF AddInv
  <2>4. CASE pc[u] \notin Adding
    BY <1>0, <1>1, <1>3, <2>1, <2>2, <2>4 DEF AddInv
  <2> QED
    BY <2>3, <2>4
<1>7. WalkInv(u)'
  <2>1. branch[u] # NULL /\ pc[u] \in Searching => branch[u] \in Range(children'[subhier[u]])
    BY <1>1, <1>2 DEF WalkInv, TreeGrown, Grown
  <2> QED
    BY <1>0, <1>1, <1>3, <2>1 DEF WalkInv
<1>8. GotInv(u)'
  <2>1. IsInjective(got'[u])
    BY <1>0, <1>1 DEF GotInv
  <2>2. Here(u)' = Here(u)
    BY <1>0 DEF Here
  <2>3. ASSUME NEW l \in Range(got'[u])
        PROVE  /\ \E f \in asked'[l.context] : PathOf(f) = l.node /\ Match(f, arg'[u])
               /\ Behindhand(u, l)'
    <3>1. l \in Range(got[u])
      BY <1>0, <2>3
    <3>2. l.context \in Clients
      <4>1. got[u] \in Seq(Leaves)
        BY DEF IInv, TypeInv
      <4>2. l \in Leaves
        BY <3>1, <4>1, RangeOfSeq
      <4> QED
        BY <4>2 DEF Leaves
    <3>3. \E f \in asked[l.context] : PathOf(f) = l.node /\ Match(f, arg[u])
      BY <1>1, <3>1 DEF GotInv
    <3>4. \E f \in asked'[l.context] : PathOf(f) = l.node /\ Match(f, arg'[u])
      BY <1>0, <3>2, <3>3 DEF Grows
    <3>5. Behindhand(u, l)
      BY <1>1, <3>1 DEF GotInv
    <3>6. CASE Passed(children, subhier[u], branch[u], l.node)
      <4>1. Passed(children', subhier[u], branch[u], l.node)
        BY <1>2, <3>6, PassedGrows
      <4> QED
        BY <4>1, <1>0, <3>4 DEF Behindhand
    <3>7. CASE ~Passed(children, subhier[u], branch[u], l.node)
      <4>1. /\ pc[u] = "leaves" /\ AtOrBelow(l.node, Here(u))
            /\ l.node = Here(u) =>
                  \E i \in DOMAIN subs[Here(u)] : i < leaf[u] /\ subs[Here(u)][i] = l.context
        BY <3>5, <3>7 DEF Behindhand
      <4>2. branch[u] # NULL
        BY <4>1, <1>1 DEF WalkInv, Searching
      <4>3. Here(u) \in Nodes
        BY <4>1, <4>2, HereFacts DEF Searching
      <4>4. l.node = Here(u) =>
               \E i \in DOMAIN subs'[Here(u)] : i < leaf[u] /\ subs'[Here(u)][i] = l.context
        BY <4>1, <4>3 DEF Grows
      <4> QED
        BY <4>1, <4>4, <1>0, <2>2, <3>4 DEF Behindhand
    <3> QED
      BY <3>6, <3>7
  <2> QED
    BY <2>1, <2>3 DEF GotInv
<1> QED
  BY <1>5, <1>6, <1>7, <1>8 DEF ThreadInv

(* A step of t keeps the invariant if it keeps its own part and what all   *)
(* threads share.                                                          *)
LEMMA StepOf ==
    ASSUME IInv, NEW t \in Threads,
           Flags', TypeInv', LockInv', TreeInv', ThreadInv(t)', Grows,
           \A u \in Threads \ {t} : Keeps(u),
           \A u \in Threads \ {t} : pc[u] \in Adding => UNCHANGED <<children, subs>>,
           \A c \in Clients : Loop[c] # t => id'[c] = id[c]
    PROVE  IInv'
<1>1. ASSUME NEW u \in Threads \ {t} PROVE ThreadInv(u)'
  <2>1. ASSUME pc[u] \in Adding \cup {"lock", "added", "failed"}
        PROVE  id'[context[u]] = id[context[u]]
    <3>1. Loop[context[u]] = u /\ context[u] \in Clients
      BY <2>1 DEF IInv, LocalInv
    <3> QED
      BY <3>1
  <2> QED
    BY <2>1, OtherThread
<1> QED
  BY <1>1 DEF IInv, ThreadInv

(* A step that leaves the tree alone.                                      *)
LEMMA TreeStays ==
    ASSUME IInv, UNCHANGED <<children, subs>>, \A c \in Clients : asked[c] \subseteq asked'[c]
    PROVE  TreeInv' /\ Grows
<1>1. TreeGrown(children, children')
  BY DEF TreeGrown, Grown
<1>2. Grows
  BY <1>1 DEF Grows
<1>3. ASSUME NEW p \in Nodes, NEW c \in Range(subs[p])
      PROVE  \E f \in asked'[c] : PathOf(f) = p
  <2>1. c \in Clients
    BY RangeOfSeq DEF IInv, TypeInv
  <2>2. \E f \in asked[c] : PathOf(f) = p
    BY DEF IInv, TreeInv
  <2> QED
    BY <2>1, <2>2
<1>4. TreeInv'
  BY <1>3 DEF IInv, TreeInv
<1> QED
  BY <1>2, <1>4

(* The threads do nothing, and the slot's thread is idle. *)
LEMMA ClientStep ==
    ASSUME IInv, NEW c \in Clients, pc[Loop[c]] = "idle",
           UNCHANGED <<children, subs, root_lock, pc, context, arg, subhier, branch, leaf,
                       asked, got>>,
           \A u \in Threads : due'[u] \subseteq due[u],
           \A d \in Clients \ {c} : id'[d] = id[d],
           Flags', TypeInv'
    PROVE  IInv'
<1>1. TreeInv' /\ Grows
  BY TreeStays
<1>2. LockInv'
  BY DEF IInv, LockInv
<1>3. ASSUME NEW u \in Threads PROVE ThreadInv(u)'
  <2>1. Keeps(u)
    BY DEF Keeps
  <2>2. ASSUME pc[u] \in Adding \cup {"lock", "added", "failed"}
        PROVE  id'[context[u]] = id[context[u]]
    <3>1. Loop[context[u]] = u /\ context[u] \in Clients
      BY <2>2 DEF IInv, LocalInv
    <3>2. context[u] # c
      BY <2>2, <3>1 DEF Adding
    <3> QED
      BY <3>1, <3>2
  <2> QED
    BY <1>1, <2>1, <2>2, OtherThread
<1> QED
  BY <1>1, <1>2, <1>3 DEF IInv, ThreadInv

(* One lemma per action: CONNECT, the end of a connection, and the start   *)
(* of SUBSCRIBE.                                                           *)
LEMMA ConnectKeeps ==
    ASSUME IInv, NEW c \in Clients, NEW i \in IdsOf[c], Connect(c, i)
    PROVE  IInv'
<1>1. /\ pc[Loop[c]] = "idle" /\ id' = [id EXCEPT ![c] = i]
      /\ UNCHANGED <<children, subs, root_lock, is_subscribe, pc, context, arg, subhier,
                     branch, leaf, asked, acked, due, got>>
  BY DEF Connect, treeVars, thrVars, histVars
<1>2. id \in [Clients -> Ids \cup {NULL}] /\ i \in Ids
  BY TreeAssumption DEF IInv, TypeInv, Ids, Range
<1>3. /\ id'[c] = i /\ id' \in [Clients -> Ids \cup {NULL}]
      /\ \A d \in Clients \ {c} : id'[d] = id[d]
  BY <1>1, <1>2
<1>4. Flags'
  BY <1>1 DEF IInv, Flags
<1>5. TypeInv'
  BY <1>1, <1>3 DEF IInv, TypeInv
<1> QED
  BY <1>1, <1>3, <1>4, <1>5, ClientStep

(* clean_context leaves flags, identifiers and the other slots' leaves.    *)
LEMMA CleanFacts ==
    ASSUME IInv, NEW c \in Clients, Clean(c)
    PROVE  /\ Flags'
           /\ id'[c] = NULL /\ id' \in [Clients -> Ids \cup {NULL}]
           /\ \A d \in Clients \ {c} : id'[d] = id[d]
           /\ acked' \in [Clients -> SUBSET Filters]
           /\ due' \in [Threads -> SUBSET Leaves]
           /\ \A u \in Threads : due'[u] \subseteq due[u]
           /\ \A d \in Clients : id'[d] \in IdsOf[d] \cup {NULL}
<1>1. Flags'
  BY Zenon DEF Clean, Flags, IInv
<1>2. id' = [id EXCEPT ![c] = NULL] /\ acked' = [acked EXCEPT ![c] = {}]
  BY DEF Clean
<1>3. due' = [t \in Threads |-> {l \in due[t] : l.context # c}]
  BY DEF Clean
<1>4. /\ id \in [Clients -> Ids \cup {NULL}]
      /\ \A d \in Clients : id[d] \in IdsOf[d] \cup {NULL}
      /\ acked \in [Clients -> SUBSET Filters]
      /\ due \in [Threads -> SUBSET Leaves]
  BY DEF IInv, TypeInv
<1>5. /\ id'[c] = NULL /\ id' \in [Clients -> Ids \cup {NULL}]
      /\ \A d \in Clients \ {c} : id'[d] = id[d]
      /\ acked' \in [Clients -> SUBSET Filters]
  BY <1>2, <1>4
<1>6. due' \in [Threads -> SUBSET Leaves] /\ \A u \in Threads : due'[u] \subseteq due[u]
  BY <1>3, <1>4
<1>7. \A d \in Clients : id'[d] \in IdsOf[d] \cup {NULL}
  BY <1>4, <1>5
<1> QED
  BY <1>1, <1>5, <1>6, <1>7

(* remove_client.                                                          *)
LEMMA DisconnectKeeps ==
    ASSUME IInv, NEW c \in Clients, Disconnect(c)
    PROVE  IInv'
<1>1. /\ pc[Loop[c]] = "idle" /\ Clean(c)
      /\ UNCHANGED <<children, subs, root_lock, pc, context, arg, subhier,
                     branch, leaf, asked, got>>
  BY DEF Disconnect, treeVars, thrVars
<1>2. TypeInv'
  BY <1>1, CleanFacts DEF IInv, TypeInv
<1> QED
  BY <1>1, <1>2, CleanFacts, ClientStep

(* SUBSCRIBE: the filter is asked for from here on.                        *)
LEMMA SubscribeKeeps ==
    ASSUME IInv, NEW c \in Clients, NEW f \in FiltersOf[c], Subscribe(c, f)
    PROVE  IInv'
<1> DEFINE t == Loop[c]
<1>1. /\ pc[t] = "idle" /\ id[c] # NULL
      /\ context' = [context EXCEPT ![t] = c]
      /\ arg' = [arg EXCEPT ![t] = f]
      /\ asked' = [asked EXCEPT ![c] = @ \cup {f}]
      /\ pc' = [pc EXCEPT ![t] = "lock"] \/ pc' = [pc EXCEPT ![t] = "failed"]
      /\ UNCHANGED <<children, subs, root_lock, id, is_subscribe, subhier, branch, leaf,
                     acked, due, got>>
  BY DEF Subscribe, Goto, treeVars, clientVars
<1>2. t \in Threads /\ f \in Filters
  BY TreeAssumption DEF Filters, Range
<1> HIDE DEF t
<1>3. /\ pc \in [Threads -> Adding \cup Searching \cup {"idle", "lock", "added", "failed"}]
      /\ context \in [Threads -> Clients \cup {NULL}]
      /\ arg \in [Threads -> Filters \cup Topics \cup {<<>>}]
      /\ asked \in [Clients -> SUBSET Filters]
  BY DEF IInv, TypeInv
<1>4. /\ pc'[t] \in {"lock", "failed"} /\ context'[t] = c /\ arg'[t] = f
      /\ \A u \in Threads \ {t} : /\ pc'[u] = pc[u] /\ context'[u] = context[u]
                                  /\ arg'[u] = arg[u]
      /\ asked'[c] = asked[c] \cup {f}
      /\ \A d \in Clients \ {c} : asked'[d] = asked[d]
  BY <1>1, <1>2, <1>3
<1>5. \A d \in Clients : asked[d] \subseteq asked'[d]
  BY <1>4
<1>6. TreeInv' /\ Grows
  BY <1>1, <1>5, TreeStays
<1>7. TypeInv'
  BY <1>1, <1>2, <1>3 DEF IInv, TypeInv
<1>8. Flags'
  BY <1>1 DEF IInv, Flags
<1>9. LockInv'
  BY <1>1, <1>4 DEF IInv, LockInv, Adding
<1>10. \A u \in Threads \ {t} : Keeps(u)
  BY <1>1, <1>4 DEF Keeps
<1>11. LocalInv(t)
  BY <1>2 DEF IInv
<1>12. LocalInv(t)'
  BY <1>1, <1>2, <1>4, <1>11 DEF LocalInv, Adding, Searching, t
<1>13. AddInv(t)' /\ WalkInv(t)'
  BY <1>4 DEF AddInv, WalkInv, Searching
<1>14. GotInv(t)'
  <2>1. got'[t] = <<>>
    BY <1>1, <1>11 DEF LocalInv, Searching
  <2> QED
    BY <2>1 DEF GotInv, IsInjective, Range
<1> QED
  BY <1>1, <1>2, <1>6, <1>7, <1>8, <1>9, <1>10, <1>12, <1>13, <1>14, StepOf DEF ThreadInv

(* root_lock is free, or this thread failed to release it before: in       *)
(* either case no other thread is in the tree.                             *)
LEMMA LockKeeps ==
    ASSUME IInv, NEW t \in Threads, Lock(t)
    PROVE  IInv'
<1>1. /\ pc[t] = "lock" /\ root_lock \in {NULL, t} /\ root_lock' = t
      /\ pc' = [pc EXCEPT ![t] = "root"]
      /\ UNCHANGED <<children, subs, id, is_subscribe, context, arg, subhier, branch, leaf,
                     asked, acked, due, got>>
  BY DEF Lock, Goto, clientVars, histVars
<1>2. pc \in [Threads -> Adding \cup Searching \cup {"idle", "lock", "added", "failed"}]
  BY DEF IInv, TypeInv
<1>3. pc'[t] = "root" /\ \A u \in Threads \ {t} : pc'[u] = pc[u]
  BY <1>1, <1>2
<1>4. TreeInv' /\ Grows
  BY <1>1, TreeStays
<1>5. TypeInv'
  BY <1>1, <1>2 DEF IInv, TypeInv, Adding
<1>6. Flags'
  BY <1>1 DEF IInv, Flags
<1>7. LockInv'
  <2>1. NULL \notin Threads
    BY TreeAssumption
  <2> QED
    BY <1>1, <1>3, <2>1 DEF IInv, LockInv
<1>8. \A u \in Threads \ {t} : Keeps(u)
  BY <1>1, <1>3 DEF Keeps
<1>9. LocalInv(t) /\ GotInv(t)
  BY DEF IInv
<1>10. LocalInv(t)'
  BY <1>1, <1>3, <1>9 DEF LocalInv, Adding, Searching
<1>11. AddInv(t)' /\ WalkInv(t)'
  BY <1>3 DEF AddInv, WalkInv, Searching
<1>12. GotInv(t)'
  <2>1. got'[t] = <<>>
    BY <1>1, <1>9 DEF LocalInv, Searching
  <2> QED
    BY <2>1 DEF GotInv, IsInjective, Range
<1> QED
  BY <1>1, <1>4, <1>5, <1>6, <1>7, <1>8, <1>10, <1>11, <1>12, StepOf DEF ThreadInv

(* A step of t that leaves what the threads share, but for the lock.       *)
LEMMA LocalStep ==
    ASSUME IInv, NEW t \in Threads,
           UNCHANGED <<children, subs, id, is_subscribe, asked>>,
           \A u \in Threads \ {t} : Keeps(u), TypeInv', LockInv',
           LocalInv(t)', AddInv(t)', WalkInv(t)', GotInv(t)'
    PROVE  IInv'
<1>1. TreeInv' /\ Grows
  BY TreeStays
<1>2. Flags'
  BY DEF IInv, Flags
<1> QED
  BY <1>1, <1>2, StepOf DEF ThreadInv

(* A thread that does not search has delivered nothing.                    *)
LEMMA NothingGot ==
    ASSUME IInv, NEW t \in Threads, pc[t] \notin Searching, got'[t] = got[t]
    PROVE  GotInv(t)'
<1>1. got'[t] = <<>>
  BY DEF IInv, LocalInv
<1> QED
  BY <1>1 DEF GotInv, IsInjective, Range

(* The path to a filter's node, as _sub_add goes along it. *)
LEMMA PathTokens ==
    ASSUME IInv, NEW t \in Threads,
           pc[t] \in Adding \cup {"lock", "added", "failed"}
    PROVE  LET p == PathOf(arg[t])
               tokens == Tokenise(arg[t])
           IN  /\ arg[t] \in Filters
               /\ p \in Seq(Names) /\ Len(p) = Len(tokens) + 1 /\ Len(tokens) \in Nat
               /\ Len(tokens) >= 1 /\ tokens \in Seq(Names)
               /\ Head(tokens) = tokens[1]
               /\ p[1] = tokens[1]
               /\ \A i \in 1..Len(tokens) : p[i + 1] = tokens[i] /\ tokens[i] \in Names
               /\ \A k \in 0..Len(p) : Pre(p, k) \in Nodes
<1>1. context[t] \in Clients /\ arg[t] \in asked[context[t]]
  BY DEF IInv, LocalInv
<1>2. arg[t] \in Filters
  BY <1>1 DEF IInv, TypeInv
<1>3. /\ Tokenise(arg[t]) \in Seq(Names) /\ Len(Tokenise(arg[t])) \in Nat
      /\ Len(Tokenise(arg[t])) >= 1 /\ Head(Tokenise(arg[t])) = Tokenise(arg[t])[1]
  BY <1>2, TokenFacts
<1>4. \A i \in 1..Len(Tokenise(arg[t])) : Tokenise(arg[t])[i] \in Names
  BY <1>3, ElementOfSeq
<1>5. LET p == PathOf(arg[t])
          tokens == Tokenise(arg[t])
      IN  /\ p \in Seq(Names) /\ Len(p) = Len(tokens) + 1
          /\ p[1] = tokens[1]
          /\ \A i \in 1..Len(tokens) : p[i + 1] = tokens[i]
  BY <1>2, PathFacts
<1>6. \A k \in 0..Len(PathOf(arg[t])) : Pre(PathOf(arg[t]), k) \in Nodes
  BY <1>2, PathNodes
<1> QED
  BY <1>2, <1>3, <1>4, <1>5, <1>6

(* The child of the root for the first token. *)
LEMMA FirstNode ==
    ASSUME IInv, NEW t \in Threads, pc[t] \in {"root", "new_root"}
    PROVE  LET tok == Head(Tokenise(arg[t]))
               p == PathOf(arg[t])
           IN  /\ tok \in Names /\ <<tok>> \in Nodes
               /\ <<tok>> = Append(Root, tok) /\ <<tok>> \in Seq(Names)
               /\ Len(<<tok>>) = 1 /\ <<tok>>[1] = tok
               /\ Pre(p, 1) = <<tok>> /\ 1 \in 1..Len(p)
<1> DEFINE tok == Head(Tokenise(arg[t]))
           p == PathOf(arg[t])
<1>1. /\ p \in Seq(Names) /\ Len(p) \in Nat /\ Len(p) >= 2 /\ p[1] = tok /\ tok \in Names
      /\ \A k \in 0..Len(p) : Pre(p, k) \in Nodes
  <2>1. pc[t] \in Adding
    BY DEF Adding
  <2>2. 1 \in 1..Len(Tokenise(arg[t]))
    BY <2>1, PathTokens
  <2> QED
    BY <2>1, <2>2, PathTokens
<1> HIDE DEF tok, p
<1>2. 0 \in 0..(Len(p) - 1) /\ 1 \in 0..Len(p) /\ 1 \in 1..Len(p)
  BY <1>1
<1>3. Pre(p, 0 + 1) = Append(Pre(p, 0), p[0 + 1]) /\ Pre(p, 0) = <<>>
  BY <1>1, <1>2, PreStep, PreEnds
<1>4. Append(<<>>, tok) = <<tok>>
  OBVIOUS
<1>5. <<tok>> \in Seq(Names) /\ Len(<<tok>>) = 1 /\ <<tok>>[1] = tok
  BY <1>1
<1>6. Pre(p, 1) = <<tok>>
  <2>1. 0 + 1 = 1
    OBVIOUS
  <2>2. Pre(p, 1) = Append(<<>>, p[1])
    BY <1>3, <2>1
  <2> QED
    BY <1>1, <1>4, <2>2
<1>7. <<tok>> \in Nodes
  BY <1>1, <1>2, <1>6
<1> QED
  BY <1>1, <1>2, <1>4, <1>5, <1>6, <1>7 DEF Root, tok, p

(* One more step along the path is linked if its topic is in the list.     *)
LEMMA LinkedStep ==
    ASSUME NEW ch, NEW p \in Nodes, NEW b \in Names, Linked(ch, p), b \in Range(ch[p])
    PROVE  Linked(ch, Append(p, b))
<1> DEFINE q == Append(p, b)
<1>1. p \in Seq(Names) /\ Len(p) \in Nat /\ Pre(p, Len(p)) = p
  BY NodeFacts, PreEnds
<1>2. /\ Len(q) = Len(p) + 1
      /\ \A k \in 0..Len(p) : Pre(q, k) = Pre(p, k)
      /\ \A k \in 1..Len(p) : q[k] = p[k]
      /\ q[Len(p) + 1] = b
  BY <1>1, PreAppend
<1> HIDE DEF q
<1>3. ASSUME NEW k \in 0..(Len(q) - 1)
      PROVE  q[k + 1] \in Range(ch[Pre(q, k)])
  <2>1. Pre(q, k) = Pre(p, k)
    BY <1>1, <1>2
  <2>2. CASE k = Len(p)
    BY <1>1, <1>2, <2>1, <2>2
  <2>3. CASE k # Len(p)
    <3>1. k \in 0..(Len(p) - 1) /\ k + 1 \in 1..Len(p)
      BY <1>1, <1>2, <2>3
    <3>2. p[k + 1] \in Range(ch[Pre(p, k)])
      BY <3>1 DEF Linked
    <3> QED
      BY <1>2, <2>1, <3>1, <3>2
  <2> QED
    BY <2>2, <2>3
<1>4. Linked(ch, q)
  BY <1>3 DEF Linked
<1> QED
  BY <1>4 DEF q

(* The root is in the tree.                                                *)
LEMMA RootLinked ==
    ASSUME NEW ch
    PROVE  Linked(ch, Root) /\ Root \in Nodes /\ Len(Root) = 0
<1>1. Root \in Nodes /\ Len(Root) = 0
  BY DEF Nodes, Root
<1> QED
  BY <1>1 DEF Linked

(* A token that is in the list of the root. *)
LEMMA RootFound ==
    ASSUME NEW ch, NEW tok \in Names, tok \in Range(ch[Root])
    PROVE  Linked(ch, <<tok>>)
<1>1. Linked(ch, Append(Root, tok))
  BY RootLinked, LinkedStep
<1>2. Append(Root, tok) = <<tok>>
  BY DEF Root
<1> QED
  BY <1>1, <1>2

(* mqtt3_sub_add finds the child of the root, or knows that there is none. *)
LEMMA FindRootKeeps ==
    ASSUME IInv, NEW t \in Threads, FindRoot(t)
    PROVE  IInv'
<1> DEFINE tok == Head(Tokenise(arg[t]))
<1>1. /\ pc[t] = "root"
      /\ \/ /\ tok \in Range(children[Root]) /\ pc' = [pc EXCEPT ![t] = "find"]
            /\ subhier' = [subhier EXCEPT ![t] = <<tok>>]
         \/ /\ tok \notin Range(children[Root]) /\ pc' = [pc EXCEPT ![t] = "new_root"]
            /\ subhier' = subhier
      /\ UNCHANGED <<children, subs, root_lock, id, is_subscribe, context, arg, branch, leaf,
                     asked, acked, due, got>>
  BY DEF FindRoot, Goto, treeVars, clientVars, histVars
<1>2. /\ pc \in [Threads -> Adding \cup Searching \cup {"idle", "lock", "added", "failed"}]
      /\ subhier \in [Threads -> Nodes] /\ leaf \in [Threads -> Nat \ {0}]
  BY DEF IInv, TypeInv
<1>3. /\ tok \in Names /\ <<tok>> \in Nodes /\ <<tok>> \in Seq(Names)
      /\ Len(<<tok>>) = 1 /\ Pre(PathOf(arg[t]), 1) = <<tok>> /\ 1 \in 1..Len(PathOf(arg[t]))
  BY <1>1, FirstNode
<1> HIDE DEF tok
<1>4. \A u \in Threads \ {t} : pc'[u] = pc[u] /\ subhier'[u] = subhier[u]
  BY <1>1, <1>2
<1>5. TypeInv'
  BY <1>1, <1>2, <1>3 DEF IInv, TypeInv, Adding
<1>6. \A u \in Threads \ {t} : Keeps(u)
  BY <1>1, <1>4 DEF Keeps
<1>7. LockInv'
  BY <1>1, <1>2, <1>4 DEF IInv, LockInv, Adding
<1>8. LocalInv(t)
  BY DEF IInv
<1>9. GotInv(t)'
  BY <1>1, NothingGot DEF Searching
<1>10. CASE tok \in Range(children[Root])
  <2>1. pc'[t] = "find" /\ subhier'[t] = <<tok>>
    BY <1>1, <1>2, <1>10
  <2>2. LocalInv(t)'
    BY <1>1, <1>8, <2>1 DEF LocalInv, Adding, Searching
  <2>3. Linked(children, <<tok>>)
    BY <1>3, <1>10, RootFound
  <2>4. leaf'[t] = 1
    BY <1>1, <1>8 DEF LocalInv
  <2>5. AddInv(t)'
    BY <1>1, <1>3, <2>1, <2>3, <2>4 DEF AddInv
  <2>6. WalkInv(t)'
    BY <2>1 DEF WalkInv, Searching
  <2> QED
    BY <1>1, <1>5, <1>6, <1>7, <1>9, <2>2, <2>5, <2>6, LocalStep
<1>11. CASE tok \notin Range(children[Root])
  <2>1. pc'[t] = "new_root" /\ subhier'[t] = subhier[t]
    BY <1>1, <1>2, <1>11
  <2>2. LocalInv(t)'
    BY <1>1, <1>8, <2>1 DEF LocalInv, Adding, Searching
  <2>3. AddInv(t)'
    BY <1>1, <2>1, <1>11 DEF AddInv, tok
  <2>4. WalkInv(t)'
    BY <2>1 DEF WalkInv, Searching
  <2> QED
    BY <1>1, <1>5, <1>6, <1>7, <1>9, <2>2, <2>3, <2>4, LocalStep
<1> QED
  BY <1>10, <1>11

(* Where the handler is done with the tree, the locals do not matter.      *)
LEMMA AddRootFailsKeeps ==
    ASSUME IInv, NEW t \in Threads, AddRootFails(t)
    PROVE  IInv'
<1>1. /\ pc[t] = "new_root" /\ pc' = [pc EXCEPT ![t] = "failed"]
      /\ UNCHANGED <<children, subs, root_lock, id, is_subscribe, context, arg, subhier,
                     branch, leaf, asked, acked, due, got>>
  BY DEF AddRootFails, Goto, treeVars, clientVars, histVars
<1>2. pc \in [Threads -> Adding \cup Searching \cup {"idle", "lock", "added", "failed"}]
  BY DEF IInv, TypeInv
<1>3. pc'[t] = "failed" /\ \A u \in Threads \ {t} : pc'[u] = pc[u]
  BY <1>1, <1>2
<1>4. TypeInv'
  BY <1>1, <1>2 DEF IInv, TypeInv
<1>5. \A u \in Threads \ {t} : Keeps(u)
  BY <1>1, <1>3 DEF Keeps
<1>6. LockInv'
  BY <1>1, <1>3 DEF IInv, LockInv, Adding
<1>7. LocalInv(t)
  BY DEF IInv
<1>8. LocalInv(t)'
  BY <1>1, <1>3, <1>7 DEF LocalInv, Adding, Searching
<1>9. AddInv(t)' /\ WalkInv(t)'
  BY <1>3 DEF AddInv, WalkInv, Searching
<1>10. GotInv(t)'
  BY <1>1, NothingGot DEF Searching
<1> QED
  BY <1>1, <1>4, <1>5, <1>6, <1>8, <1>9, <1>10, LocalStep

(* _sub_add at a node with tokens left: the token is the next step of the  *)
(* path.                                                                   *)
LEMMA NextNode ==
    ASSUME IInv, NEW t \in Threads, pc[t] \in {"find", "new_branch"}, HasToken(t)
    PROVE  LET q == Append(subhier[t], Token(t)) IN
           /\ subhier[t] \in Nodes /\ Token(t) \in Names
           /\ q \in Nodes /\ Len(q) = Len(subhier[t]) + 1
           /\ Len(q) \in 1..Len(PathOf(arg[t]))
           /\ q = Pre(PathOf(arg[t]), Len(q))
<1> DEFINE p == PathOf(arg[t])
           s == subhier[t]
           tokens == Tokenise(arg[t])
           n == Len(s)
<1>0. pc[t] \in Adding
  BY DEF Adding
<1>1. /\ p \in Seq(Names) /\ Len(p) = Len(tokens) + 1 /\ Len(tokens) \in Nat
      /\ \A i \in 1..Len(tokens) : p[i + 1] = tokens[i] /\ tokens[i] \in Names
      /\ \A k \in 0..Len(p) : Pre(p, k) \in Nodes
  BY <1>0, PathTokens
<1>2. s \in Nodes /\ n \in 1..Len(p) /\ s = Pre(p, n)
  BY DEF IInv, TypeInv, AddInv
<1>3. n <= Len(tokens) /\ Token(t) = tokens[n]
  BY DEF HasToken, Token
<1> HIDE DEF p, s, tokens
<1>4. /\ n \in 1..Len(tokens) /\ n \in 0..(Len(p) - 1)
      /\ n + 1 \in 0..Len(p) /\ n + 1 \in 1..Len(p)
  BY <1>1, <1>2, <1>3
<1>5. p[n + 1] = tokens[n] /\ tokens[n] \in Names
  BY <1>1, <1>4
<1>6. Pre(p, n + 1) = Append(Pre(p, n), p[n + 1])
  BY <1>1, <1>4, PreStep
<1>7. Pre(p, n + 1) = Append(s, Token(t))
  BY <1>2, <1>3, <1>5, <1>6
<1>8. Pre(p, n + 1) \in Nodes
  BY <1>1, <1>4
<1>9. s \in Seq(Names)
  BY <1>2, NodeFacts
<1>10. Len(Append(s, Token(t))) = n + 1
  BY <1>3, <1>5, <1>9, AppendProperties
<1> QED
  BY <1>2, <1>3, <1>4, <1>5, <1>7, <1>8, <1>10 DEF p, s

(* _sub_add goes down the path, or knows that there is no child for the    *)
(* token.                                                                  *)
LEMMA FindBranchKeeps ==
    ASSUME IInv, NEW t \in Threads, FindBranch(t)
    PROVE  IInv'
<1> DEFINE q == Append(subhier[t], Token(t))
<1>1. /\ pc[t] = "find" /\ HasToken(t)
      /\ \/ /\ Token(t) \in Range(children[subhier[t]]) /\ pc' = pc
            /\ subhier' = [subhier EXCEPT ![t] = q]
         \/ /\ Token(t) \notin Range(children[subhier[t]])
            /\ pc' = [pc EXCEPT ![t] = "new_branch"] /\ subhier' = subhier
      /\ UNCHANGED <<children, subs, root_lock, id, is_subscribe, context, arg, branch, leaf,
                     asked, acked, due, got>>
  BY DEF FindBranch, Child, Goto, treeVars, clientVars, histVars
<1>2. /\ pc \in [Threads -> Adding \cup Searching \cup {"idle", "lock", "added", "failed"}]
      /\ subhier \in [Threads -> Nodes] /\ leaf \in [Threads -> Nat \ {0}]
  BY DEF IInv, TypeInv
<1>3. /\ subhier[t] \in Nodes /\ Token(t) \in Names /\ q \in Nodes
      /\ Len(q) \in 1..Len(PathOf(arg[t])) /\ q = Pre(PathOf(arg[t]), Len(q))
  BY <1>1, NextNode
<1>4. \A u \in Threads \ {t} : pc'[u] = pc[u] /\ subhier'[u] = subhier[u]
  BY <1>1, <1>2
<1>5. TypeInv'
  BY <1>1, <1>2, <1>3 DEF IInv, TypeInv, Adding
<1>6. \A u \in Threads \ {t} : Keeps(u)
  BY <1>1, <1>4 DEF Keeps
<1>7. LockInv'
  BY <1>1, <1>2, <1>4 DEF IInv, LockInv, Adding
<1>8. LocalInv(t) /\ AddInv(t)
  BY DEF IInv
<1>9. GotInv(t)'
  BY <1>1, NothingGot DEF Searching
<1>10. leaf'[t] = 1
  BY <1>1, <1>8 DEF AddInv
<1>11. CASE Token(t) \in Range(children[subhier[t]])
  <2>1. pc'[t] = "find" /\ subhier'[t] = q
    BY <1>1, <1>2, <1>11
  <2>2. LocalInv(t)'
    BY <1>1, <1>8, <2>1 DEF LocalInv, Adding, Searching
  <2>3. Linked(children, q)
    BY <1>1, <1>3, <1>8, <1>11, LinkedStep DEF AddInv
  <2> HIDE DEF q
  <2>4. AddInv(t)'
    BY <1>1, <1>3, <1>10, <2>1, <2>3 DEF AddInv
  <2>5. WalkInv(t)'
    BY <2>1 DEF WalkInv, Searching
  <2> QED
    BY <1>1, <1>5, <1>6, <1>7, <1>9, <2>2, <2>4, <2>5, LocalStep
<1>12. CASE Token(t) \notin Range(children[subhier[t]])
  <2>1. pc'[t] = "new_branch" /\ subhier'[t] = subhier[t]
    BY <1>1, <1>2, <1>12
  <2>2. LocalInv(t)'
    BY <1>1, <1>8, <1>10, <2>1 DEF LocalInv, Adding, Searching
  <2>3. HasToken(t)' = HasToken(t) /\ Token(t)' = Token(t)
    BY <1>1, <2>1 DEF HasToken, Token
  <2>4. AddInv(t)'
    BY <1>1, <1>8, <1>12, <2>1, <2>3 DEF AddInv
  <2>5. WalkInv(t)'
    BY <2>1 DEF WalkInv, Searching
  <2> QED
    BY <1>1, <1>5, <1>6, <1>7, <1>9, <2>2, <2>4, <2>5, LocalStep
<1> QED
  BY <1>11, <1>12

(* The walk through the leaves compares the slot with itself too.          *)
LEMMA FindLeafKeeps ==
    ASSUME IInv, NEW t \in Threads, FindLeaf(t)
    PROVE  IInv'
<1> DEFINE list == subs[subhier[t]]
<1>1. /\ pc[t] = "find" /\ ~HasToken(t)
      /\ \/ /\ leaf[t] > Len(list)
            /\ pc' = [pc EXCEPT ![t] = "new_leaf"] /\ leaf' = [leaf EXCEPT ![t] = 1]
         \/ /\ ~(leaf[t] > Len(list)) /\ SameId(list[leaf[t]], context[t])
            /\ pc' = [pc EXCEPT ![t] = "unlock"] /\ leaf' = [leaf EXCEPT ![t] = 1]
         \/ /\ ~(leaf[t] > Len(list)) /\ ~SameId(list[leaf[t]], context[t])
            /\ pc' = pc /\ leaf' = [leaf EXCEPT ![t] = @ + 1]
      /\ UNCHANGED <<children, subs, root_lock, id, is_subscribe, context, arg, subhier,
                     branch, asked, acked, due, got>>
  BY DEF FindLeaf, Goto, treeVars, clientVars, histVars
<1>2. /\ pc \in [Threads -> Adding \cup Searching \cup {"idle", "lock", "added", "failed"}]
      /\ leaf \in [Threads -> Nat \ {0}] /\ subhier[t] \in Nodes
      /\ list \in Seq(Clients)
  BY DEF IInv, TypeInv
<1>3. Len(list) \in Nat /\ DOMAIN list = 1..Len(list)
  BY <1>2, LenProperties
<1>4. \A u \in Threads \ {t} : pc'[u] = pc[u] /\ leaf'[u] = leaf[u]
  BY <1>1, <1>2
<1>5. TypeInv'
  <2>1. leaf' \in [Threads -> Nat \ {0}]
    BY <1>1, <1>2
  <2>2. pc' \in [Threads -> Adding \cup Searching \cup {"idle", "lock", "added", "failed"}]
    BY <1>1, <1>2 DEF Adding
  <2> QED
    BY <1>1, <2>1, <2>2 DEF IInv, TypeInv
<1>6. \A u \in Threads \ {t} : Keeps(u)
  BY <1>1, <1>4 DEF Keeps
<1>7. LockInv'
  BY <1>1, <1>2, <1>4 DEF IInv, LockInv, Adding
<1>8. LocalInv(t) /\ AddInv(t)
  BY DEF IInv
<1>9. GotInv(t)'
  BY <1>1, NothingGot DEF Searching
<1>10. HasToken(t)' = HasToken(t)
  BY <1>1 DEF HasToken
<1>11. \A i \in 1..(leaf[t] - 1) : i \in DOMAIN list /\ list[i] # context[t]
  BY <1>1, <1>8 DEF AddInv
<1>12. CASE pc' = [pc EXCEPT ![t] = "new_leaf"] /\ leaf[t] > Len(list)
            /\ leaf' = [leaf EXCEPT ![t] = 1]
  <2>1. pc'[t] = "new_leaf" /\ leaf'[t] = 1
    BY <1>2, <1>12
  <2>2. context[t] \notin Range(list)
    <3>1. \A i \in DOMAIN list : i \in 1..(leaf[t] - 1)
      BY <1>2, <1>3, <1>12
    <3> QED
      BY <1>11, <3>1 DEF Range
  <2>3. LocalInv(t)'
    BY <1>1, <1>8, <2>1 DEF LocalInv, Adding, Searching
  <2>4. AddInv(t)'
    BY <1>1, <1>8, <1>10, <2>1, <2>2 DEF AddInv
  <2>5. WalkInv(t)'
    BY <2>1 DEF WalkInv, Searching
  <2> QED
    BY <1>1, <1>5, <1>6, <1>7, <1>9, <2>3, <2>4, <2>5, LocalStep
<1>13. CASE pc' = [pc EXCEPT ![t] = "unlock"] /\ leaf' = [leaf EXCEPT ![t] = 1]
  <2>1. pc'[t] = "unlock" /\ leaf'[t] = 1
    BY <1>2, <1>13
  <2>2. LocalInv(t)'
    BY <1>1, <1>8, <2>1 DEF LocalInv, Adding, Searching
  <2>3. AddInv(t)'
    BY <1>1, <1>8, <1>10, <2>1 DEF AddInv
  <2>4. WalkInv(t)'
    BY <2>1 DEF WalkInv, Searching
  <2> QED
    BY <1>1, <1>5, <1>6, <1>7, <1>9, <2>2, <2>3, <2>4, LocalStep
<1>14. CASE /\ ~(leaf[t] > Len(list)) /\ ~SameId(list[leaf[t]], context[t])
            /\ pc' = pc /\ leaf' = [leaf EXCEPT ![t] = @ + 1]
  <2>1. pc'[t] = "find" /\ leaf'[t] = leaf[t] + 1
    BY <1>1, <1>2, <1>14
  <2>2. list[leaf[t]] # context[t]
    BY <1>14 DEF SameId
  <2>3. LocalInv(t)'
    BY <1>1, <1>8, <2>1 DEF LocalInv, Adding, Searching
  <2>4. \A i \in 1..(leaf'[t] - 1) : i \in DOMAIN list /\ list[i] # context[t]
    <3>1. \A i \in 1..(leaf'[t] - 1) : i \in 1..(leaf[t] - 1) \/ i = leaf[t]
      BY <1>2, <2>1
    <3>2. leaf[t] \in DOMAIN list
      BY <1>2, <1>3, <1>14
    <3> QED
      BY <1>11, <2>2, <3>1, <3>2
  <2>5. AddInv(t)'
    BY <1>1, <1>8, <1>10, <2>1, <2>4 DEF AddInv
  <2>6. WalkInv(t)'
    BY <2>1 DEF WalkInv, Searching
  <2> QED
    BY <1>1, <1>5, <1>6, <1>7, <1>9, <2>3, <2>5, <2>6, LocalStep
<1> QED
  BY <1>1, <1>12, <1>13, <1>14

(* A node x is linked below p. *)
LEMMA TreeAdds ==
    ASSUME IInv, NEW p \in Nodes, NEW x \in Names, Append(p, x) \in Nodes,
           NEW new \in Seq(Names), IsInjective(new),
           Range(new) = Range(children[p]) \cup {x}, Grown(children[p], new),
           children' = [children EXCEPT ![p] = new], UNCHANGED <<subs, asked>>
    PROVE  /\ TreeInv' /\ Grows
           /\ children' \in [Nodes -> Seq(Names)]
           /\ x \in Range(children'[p])
<1>1. children \in [Nodes -> Seq(Names)]
  BY DEF IInv, TypeInv
<1>2. children'[p] = new /\ \A q \in Nodes \ {p} : children'[q] = children[q]
  BY <1>1
<1>3. children' \in [Nodes -> Seq(Names)]
  BY <1>1
<1>4. TreeGrown(children, children')
  <2>1. ASSUME NEW q \in Nodes PROVE Grown(children[q], children'[q])
    <3>1. CASE q = p
      BY <1>2, <3>1
    <3>2. CASE q # p
      BY <1>2, <3>2 DEF Grown
    <3> QED
      BY <3>1, <3>2
  <2> QED
    BY <2>1 DEF TreeGrown
<1>5. Grows
  BY <1>4 DEF Grows
<1>6. ASSUME NEW q \in Nodes
      PROVE  IsInjective(children'[q]) /\ \A b \in Range(children'[q]) : Append(q, b) \in Nodes
  <2>1. CASE q = p
    BY <1>2, <2>1 DEF IInv, TreeInv
  <2>2. CASE q # p
    BY <1>2, <2>2 DEF IInv, TreeInv
  <2> QED
    BY <2>1, <2>2
<1>7. ASSUME NEW q \in Nodes, subs[q] # <<>> PROVE Linked(children', q)
  BY <1>4, <1>7, LinkedGrows DEF IInv, TreeInv
<1>8. TreeInv'
  BY <1>6, <1>7 DEF IInv, TreeInv
<1> QED
  BY <1>2, <1>3, <1>5, <1>8

(* The thread that changes the tree is alone in it. *)
LEMMA Alone ==
    ASSUME IInv, NEW t \in Threads, pc[t] \in Adding
    PROVE  \A u \in Threads \ {t} : pc[u] \notin Adding
  BY DEF IInv, LockInv

(* The new child of the root is the only one with its topic, as root_lock  *)
(* kept all others from adding one since the list was searched.            *)
LEMMA AddRootKeeps ==
    ASSUME IInv, NEW t \in Threads, AddRoot(t)
    PROVE  IInv' /\ Grows
<1> DEFINE tok == Head(Tokenise(arg[t]))
           new == <<tok>> \o children[Root]
<1>1. /\ pc[t] = "new_root"
      /\ children' = [children EXCEPT ![Root] = new]
      /\ subhier' = [subhier EXCEPT ![t] = <<tok>>]
      /\ pc' = [pc EXCEPT ![t] = "find"]
      /\ UNCHANGED <<subs, root_lock, id, is_subscribe, context, arg, branch, leaf,
                     asked, acked, due, got>>
  BY DEF AddRoot, Goto, clientVars, histVars
<1>2. /\ pc \in [Threads -> Adding \cup Searching \cup {"idle", "lock", "added", "failed"}]
      /\ subhier \in [Threads -> Nodes] /\ leaf \in [Threads -> Nat \ {0}]
  BY DEF IInv, TypeInv
<1>3. /\ tok \in Names /\ <<tok>> \in Nodes /\ Append(Root, tok) = <<tok>>
      /\ Len(<<tok>>) = 1 /\ Pre(PathOf(arg[t]), 1) = <<tok>> /\ 1 \in 1..Len(PathOf(arg[t]))
  BY <1>1, FirstNode
<1>4. LocalInv(t) /\ tok \notin Range(children[Root])
  BY <1>1 DEF IInv, AddInv
<1>5. Root \in Nodes /\ children[Root] \in Seq(Names) /\ IsInjective(children[Root])
  BY RootLinked DEF IInv, TypeInv, TreeInv
<1> HIDE DEF tok
<1>6. /\ new \in Seq(Names) /\ IsInjective(new)
      /\ Range(new) = Range(children[Root]) \cup {tok} /\ Grown(children[Root], new)
  BY <1>3, <1>4, <1>5, PrependGrows
<1> HIDE DEF new
<1>7. /\ TreeInv' /\ Grows /\ children' \in [Nodes -> Seq(Names)]
      /\ tok \in Range(children'[Root])
  BY <1>1, <1>3, <1>5, <1>6, TreeAdds
<1>8. /\ pc'[t] = "find" /\ subhier'[t] = <<tok>>
      /\ \A u \in Threads \ {t} : pc'[u] = pc[u] /\ subhier'[u] = subhier[u]
  BY <1>1, <1>2
<1>9. TypeInv'
  BY <1>1, <1>2, <1>3, <1>7 DEF IInv, TypeInv, Adding
<1>10. Flags'
  BY <1>1 DEF IInv, Flags
<1>11. \A u \in Threads \ {t} : Keeps(u)
  BY <1>1, <1>8 DEF Keeps
<1>12. LockInv'
  BY <1>1, <1>8 DEF IInv, LockInv, Adding
<1>13. \A u \in Threads \ {t} : pc[u] \notin Adding
  BY <1>1, Alone DEF Adding
<1>14. LocalInv(t)'
  BY <1>1, <1>4, <1>8 DEF LocalInv, Adding, Searching
<1>15. AddInv(t)'
  <2>1. Linked(children', <<tok>>)
    BY <1>3, <1>7, RootFound
  <2>2. leaf'[t] = 1
    BY <1>1, <1>4 DEF LocalInv
  <2> DEFINE r == <<tok>>
  <2>3. /\ Len(r) \in 1..Len(PathOf(arg[t])) /\ r = Pre(PathOf(arg[t]), Len(r))
        /\ subhier'[t] = r /\ Linked(children', r)
    BY <1>3, <1>8, <2>1
  <2>4. pc'[t] = "find" /\ arg'[t] = arg[t]
    BY <1>1, <1>8
  <2> HIDE DEF r
  <2> QED
    BY <2>2, <2>3, <2>4 DEF AddInv
<1>16. WalkInv(t)'
  BY <1>8 DEF WalkInv, Searching
<1>17. GotInv(t)'
  BY <1>1, NothingGot DEF Searching
<1> QED
  BY <1>1, <1>7, <1>9, <1>10, <1>11, <1>12, <1>13, <1>14, <1>15, <1>16, <1>17, StepOf
     DEF ThreadInv

(* The same of a new child of another node.                                *)
LEMMA AddBranchKeeps ==
    ASSUME IInv, NEW t \in Threads, AddBranch(t)
    PROVE  IInv' /\ Grows
<1> DEFINE p == subhier[t]
           x == Token(t)
           q == Append(p, x)
           new == Append(children[p], x)
<1>1. /\ pc[t] = "new_branch"
      /\ children' = [children EXCEPT ![p] = new]
      /\ subhier' = [subhier EXCEPT ![t] = q]
      /\ pc' = [pc EXCEPT ![t] = "find"]
      /\ UNCHANGED <<subs, root_lock, id, is_subscribe, context, arg, branch, leaf,
                     asked, acked, due, got>>
  BY DEF AddBranch, Child, Goto, clientVars, histVars
<1>2. /\ pc \in [Threads -> Adding \cup Searching \cup {"idle", "lock", "added", "failed"}]
      /\ subhier \in [Threads -> Nodes] /\ leaf \in [Threads -> Nat \ {0}]
  BY DEF IInv, TypeInv
<1>3. LocalInv(t) /\ HasToken(t) /\ x \notin Range(children[p]) /\ Linked(children, p)
  BY <1>1 DEF IInv, AddInv
<1>4. /\ p \in Nodes /\ x \in Names /\ q \in Nodes
      /\ Len(q) \in 1..Len(PathOf(arg[t])) /\ q = Pre(PathOf(arg[t]), Len(q))
  BY <1>1, <1>3, NextNode
<1>5. children[p] \in Seq(Names) /\ IsInjective(children[p])
  BY <1>4 DEF IInv, TypeInv, TreeInv
<1> HIDE DEF p, x
<1>6. /\ new \in Seq(Names) /\ IsInjective(new)
      /\ Range(new) = Range(children[p]) \cup {x} /\ Grown(children[p], new)
  BY <1>3, <1>4, <1>5, AppendGrows
<1> HIDE DEF new
<1>7. /\ TreeInv' /\ Grows /\ children' \in [Nodes -> Seq(Names)]
      /\ x \in Range(children'[p])
  BY <1>1, <1>4, <1>5, <1>6, TreeAdds
<1>8. Linked(children', q)
  <2>1. Linked(children', p)
    BY <1>3, <1>4, <1>7, LinkedGrows DEF Grows
  <2> QED
    BY <1>4, <1>7, <2>1, LinkedStep
<1> HIDE DEF q
<1>9. /\ pc'[t] = "find" /\ subhier'[t] = q
      /\ \A u \in Threads \ {t} : pc'[u] = pc[u] /\ subhier'[u] = subhier[u]
  BY <1>1, <1>2
<1>10. TypeInv'
  BY <1>1, <1>2, <1>4, <1>7 DEF IInv, TypeInv, Adding
<1>11. Flags'
  BY <1>1 DEF IInv, Flags
<1>12. \A u \in Threads \ {t} : Keeps(u)
  BY <1>1, <1>9 DEF Keeps
<1>13. LockInv'
  BY <1>1, <1>9 DEF IInv, LockInv, Adding
<1>14. \A u \in Threads \ {t} : pc[u] \notin Adding
  BY <1>1, Alone DEF Adding
<1>15. LocalInv(t)'
  BY <1>1, <1>3, <1>9 DEF LocalInv, Adding, Searching
<1>16. AddInv(t)'
  <2>1. leaf'[t] = 1
    BY <1>1, <1>3 DEF LocalInv
  <2> QED
    BY <1>1, <1>4, <1>8, <1>9, <2>1 DEF AddInv
<1>17. WalkInv(t)'
  BY <1>9 DEF WalkInv, Searching
<1>18. GotInv(t)'
  BY <1>1, NothingGot DEF Searching
<1> QED
  BY <1>1, <1>7, <1>10, <1>11, <1>12, <1>13, <1>14, <1>15, <1>16, <1>17, <1>18, StepOf
     DEF ThreadInv

(* With no tokens left _sub_add is at its filter's node. *)
LEMMA AtNode ==
    ASSUME IInv, NEW t \in Threads,
           pc[t] \in {"find", "new_leaf", "unlock", "added"}, ~HasToken(t)
    PROVE  subhier[t] = PathOf(arg[t])
<1> DEFINE p == PathOf(arg[t])
           tokens == Tokenise(arg[t])
           n == Len(subhier[t])
<1>1. p \in Seq(Names) /\ Len(p) = Len(tokens) + 1 /\ Len(tokens) \in Nat
  BY PathTokens DEF Adding
<1>2. n \in 1..Len(p) /\ subhier[t] = Pre(p, n)
  BY DEF IInv, AddInv
<1>3. ~(n <= Len(tokens))
  BY DEF HasToken
<1> HIDE DEF p, tokens, n
<1>4. n = Len(p)
  BY <1>1, <1>2, <1>3
<1> QED
  BY <1>1, <1>2, <1>4, PreEnds DEF p

(* The same of a new leaf: the list had none of this slot.                 *)
LEMMA AddLeafKeeps ==
    ASSUME IInv, NEW t \in Threads, AddLeaf(t)
    PROVE  IInv' /\ Grows
<1> DEFINE p == subhier[t]
           c == context[t]
           new == Append(subs[p], c)
<1>1. /\ pc[t] = "new_leaf"
      /\ subs' = [subs EXCEPT ![p] = new]
      /\ pc' = [pc EXCEPT ![t] = "unlock"]
      /\ UNCHANGED <<children, root_lock, id, is_subscribe, context, arg, subhier, branch,
                     leaf, asked, acked, due, got>>
  BY DEF AddLeaf, Goto, clientVars, histVars
<1>2. /\ pc \in [Threads -> Adding \cup Searching \cup {"idle", "lock", "added", "failed"}]
      /\ p \in Nodes /\ subs \in [Nodes -> Seq(Clients)]
  BY DEF IInv, TypeInv
<1>3. /\ LocalInv(t) /\ ~HasToken(t) /\ c \notin Range(subs[p]) /\ Linked(children, p)
      /\ AddInv(t)
  BY <1>1 DEF IInv, AddInv
<1>4. c \in Clients /\ arg[t] \in asked[c]
  BY <1>1, <1>3 DEF LocalInv, Adding
<1>5. p = PathOf(arg[t])
  BY <1>1, <1>3, AtNode
<1>6. subs[p] \in Seq(Clients) /\ IsInjective(subs[p])
  BY <1>2 DEF IInv, TreeInv
<1> HIDE DEF p, c
<1>7. /\ new \in Seq(Clients) /\ IsInjective(new) /\ Range(new) = Range(subs[p]) \cup {c}
      /\ DOMAIN subs[p] \subseteq DOMAIN new /\ \A i \in DOMAIN subs[p] : new[i] = subs[p][i]
  BY <1>3, <1>4, <1>6, AppendGrows
<1> HIDE DEF new
<1>8. subs'[p] = new /\ \A q \in Nodes \ {p} : subs'[q] = subs[q]
  BY <1>1, <1>2
<1>9. Grows
  <2>1. TreeGrown(children, children')
    BY <1>1 DEF TreeGrown, Grown
  <2>2. ASSUME NEW q \in Nodes
        PROVE  /\ DOMAIN subs[q] \subseteq DOMAIN subs'[q]
               /\ \A i \in DOMAIN subs[q] : subs'[q][i] = subs[q][i]
    <3>1. CASE q = p
      BY <1>7, <1>8, <3>1
    <3>2. CASE q # p
      BY <1>8, <3>2
    <3> QED
      BY <3>1, <3>2
  <2> QED
    BY <1>1, <2>1, <2>2 DEF Grows
<1>10. TreeInv'
  <2>1. ASSUME NEW q \in Nodes
        PROVE  /\ IsInjective(subs'[q])
               /\ \A d \in Range(subs'[q]) : \E f \in asked[d] : PathOf(f) = q
               /\ subs'[q] # <<>> => Linked(children, q)
    <3>1. CASE q = p
      <4>1. \A d \in Range(subs[p]) : \E f \in asked[d] : PathOf(f) = p
        BY <1>2 DEF IInv, TreeInv, p
      <4> QED
        BY <1>3, <1>4, <1>5, <1>7, <1>8, <3>1, <4>1
    <3>2. CASE q # p
      BY <1>8, <3>2 DEF IInv, TreeInv
    <3> QED
      BY <3>1, <3>2
  <2> QED
    BY <1>1, <2>1 DEF IInv, TreeInv
<1>11. pc'[t] = "unlock" /\ \A u \in Threads \ {t} : pc'[u] = pc[u]
  BY <1>1, <1>2
<1>12. TypeInv'
  <2>1. subs' \in [Nodes -> Seq(Clients)]
    BY <1>1, <1>2, <1>7
  <2> QED
    BY <1>1, <1>2, <2>1 DEF IInv, TypeInv, Adding
<1>13. Flags'
  BY <1>1 DEF IInv, Flags
<1>14. \A u \in Threads \ {t} : Keeps(u)
  BY <1>1, <1>11 DEF Keeps
<1>15. LockInv'
  BY <1>1, <1>11 DEF IInv, LockInv, Adding
<1>16. \A u \in Threads \ {t} : pc[u] \notin Adding
  BY <1>1, Alone DEF Adding
<1>17. LocalInv(t)'
  BY <1>1, <1>3, <1>11 DEF LocalInv, Adding, Searching
<1>18. AddInv(t)'
  <2>1. HasToken(t)' = HasToken(t)
    BY <1>1 DEF HasToken
  <2> QED
    BY <1>1, <1>3, <1>11, <2>1 DEF AddInv
<1>19. WalkInv(t)'
  BY <1>11 DEF WalkInv, Searching
<1>20. GotInv(t)'
  BY <1>1, NothingGot DEF Searching
<1> QED
  BY <1>1, <1>9, <1>10, <1>12, <1>13, <1>14, <1>15, <1>16, <1>17, <1>18, <1>19, <1>20, StepOf
     DEF ThreadInv

(* Without memory for a node or a leaf the tree is left as it was.         *)
LEMMA AddFailsKeeps ==
    ASSUME IInv, NEW t \in Threads, AddFails(t)
    PROVE  IInv'
<1>1. /\ pc[t] \in Adding /\ root_lock' = NULL /\ pc' = [pc EXCEPT ![t] = "failed"]
      /\ UNCHANGED <<children, subs, id, is_subscribe, context, arg, subhier,
                     branch, leaf, asked, acked, due, got>>
      /\ pc[t] \in {"new_branch", "new_leaf"}
  BY DEF AddFails, Goto, clientVars, histVars, Adding
<1>2. pc \in [Threads -> Adding \cup Searching \cup {"idle", "lock", "added", "failed"}]
  BY DEF IInv, TypeInv
<1>3. pc'[t] = "failed" /\ \A u \in Threads \ {t} : pc'[u] = pc[u]
  BY <1>1, <1>2
<1>4. TypeInv'
  BY <1>1, <1>2 DEF IInv, TypeInv
<1>5. \A u \in Threads \ {t} : Keeps(u)
  BY <1>1, <1>3 DEF Keeps
<1>6. LockInv'
  BY <1>1, <1>3, Alone DEF LockInv, Adding
<1>7. LocalInv(t)
  BY DEF IInv
<1>8. LocalInv(t)'
  BY <1>1, <1>3, <1>7 DEF LocalInv, Adding, Searching
<1>9. AddInv(t)' /\ WalkInv(t)'
  BY <1>3 DEF AddInv, WalkInv, Searching
<1>10. GotInv(t)'
  BY <1>1, NothingGot DEF Searching
<1> QED
  BY <1>1, <1>4, <1>5, <1>6, <1>8, <1>9, <1>10, LocalStep

(* root_lock is released: no thread is in the tree.                        *)
LEMMA UnlockKeeps ==
    ASSUME IInv, NEW t \in Threads, Unlock(t)
    PROVE  IInv'
<1>1. /\ pc[t] = "unlock" /\ root_lock' = NULL /\ pc' = [pc EXCEPT ![t] = "added"]
      /\ UNCHANGED <<children, subs, id, is_subscribe, context, arg, subhier,
                     branch, leaf, asked, acked, due, got>>
  BY DEF Unlock, Goto, clientVars, histVars
<1>2. pc \in [Threads -> Adding \cup Searching \cup {"idle", "lock", "added", "failed"}]
  BY DEF IInv, TypeInv
<1>3. pc'[t] = "added" /\ \A u \in Threads \ {t} : pc'[u] = pc[u]
  BY <1>1, <1>2
<1>4. TypeInv'
  BY <1>1, <1>2 DEF IInv, TypeInv
<1>5. \A u \in Threads \ {t} : Keeps(u)
  BY <1>1, <1>3 DEF Keeps
<1>6. LockInv'
  BY <1>1, <1>3, Alone DEF LockInv, Adding
<1>7. LocalInv(t) /\ AddInv(t)
  BY DEF IInv
<1>8. LocalInv(t)'
  BY <1>1, <1>3, <1>7 DEF LocalInv, Adding, Searching
<1>9. AddInv(t)'
  <2>1. HasToken(t)' = HasToken(t)
    BY <1>1 DEF HasToken
  <2> QED
    BY <1>1, <1>3, <1>7, <2>1 DEF AddInv
<1>10. WalkInv(t)'
  BY <1>3 DEF WalkInv, Searching
<1>11. GotInv(t)'
  BY <1>1, NothingGot DEF Searching
<1> QED
  BY <1>1, <1>4, <1>5, <1>6, <1>8, <1>9, <1>10, <1>11, LocalStep

(* A handler returns: the thread is idle, and has nothing in its locals.   *)
LEMMA ReturnFacts ==
    ASSUME IInv, NEW t \in Threads, pc[t] \in {"added", "failed", "searched"}, Return(t),
           got'[t] = <<>>, due'[t] = {}
    PROVE  /\ pc' \in [Threads -> Adding \cup Searching
                                  \cup {"idle", "lock", "added", "failed"}]
           /\ context' \in [Threads -> Clients \cup {NULL}]
           /\ arg' \in [Threads -> Filters \cup Topics \cup {<<>>}]
           /\ subhier' \in [Threads -> Nodes]
           /\ UNCHANGED <<branch, leaf>>
           /\ \A u \in Threads \ {t} :
                 /\ pc'[u] = pc[u] /\ context'[u] = context[u] /\ arg'[u] = arg[u]
                 /\ subhier'[u] = subhier[u]
           /\ pc'[t] = "idle"
           /\ ThreadInv(t)'
<1>1. /\ pc' = [pc EXCEPT ![t] = "idle"] /\ context' = [context EXCEPT ![t] = NULL]
      /\ arg' = [arg EXCEPT ![t] = <<>>] /\ subhier' = [subhier EXCEPT ![t] = Root]
      /\ UNCHANGED <<branch, leaf>>
  BY DEF Return, Goto
<1>2. /\ pc \in [Threads -> Adding \cup Searching \cup {"idle", "lock", "added", "failed"}]
      /\ context \in [Threads -> Clients \cup {NULL}]
      /\ arg \in [Threads -> Filters \cup Topics \cup {<<>>}]
      /\ subhier \in [Threads -> Nodes] /\ Root \in Nodes
  BY RootLinked DEF IInv, TypeInv
<1>3. /\ pc' \in [Threads -> Adding \cup Searching \cup {"idle", "lock", "added", "failed"}]
      /\ context' \in [Threads -> Clients \cup {NULL}]
      /\ arg' \in [Threads -> Filters \cup Topics \cup {<<>>}]
      /\ subhier' \in [Threads -> Nodes]
  BY <1>1, <1>2
<1>4. \A u \in Threads \ {t} : /\ pc'[u] = pc[u] /\ context'[u] = context[u]
                               /\ arg'[u] = arg[u] /\ subhier'[u] = subhier[u]
  BY <1>1, <1>2
<1>5. pc'[t] = "idle" /\ subhier'[t] = Root
  BY <1>1, <1>2
<1>6. leaf'[t] = 1 /\ branch'[t] = NULL
  BY <1>1 DEF IInv, LocalInv
<1>7. LocalInv(t)'
  BY <1>5, <1>6 DEF LocalInv, Adding
<1>8. AddInv(t)' /\ WalkInv(t)'
  BY <1>5 DEF AddInv, WalkInv, Searching
<1>9. GotInv(t)'
  BY DEF GotInv, IsInjective, Range
<1> QED
  BY <1>1, <1>3, <1>4, <1>5, <1>7, <1>8, <1>9 DEF ThreadInv

(* SUBACK 0.                                                               *)
LEMMA AcknowledgeKeeps ==
    ASSUME IInv, NEW t \in Threads, Acknowledge(t)
    PROVE  IInv'
<1> DEFINE c == context[t]
<1>1. /\ pc[t] = "added" /\ Return(t)
      /\ acked' = [acked EXCEPT ![c] = @ \cup {arg[t]}]
      /\ UNCHANGED <<children, subs, root_lock, id, asked, due, got>>
  BY DEF Acknowledge, treeVars
<1>2. is_subscribe' = [is_subscribe EXCEPT ![c] = TRUE]
  BY DEF Acknowledge
<1>3. LocalInv(t) /\ got'[t] = <<>> /\ due'[t] = {}
  BY <1>1 DEF IInv, LocalInv, Searching
<1>4. c \in Clients /\ arg[t] \in Filters
  BY <1>1, <1>3, PathTokens DEF LocalInv
<1> HIDE DEF c
<1>5. /\ pc' \in [Threads -> Adding \cup Searching \cup {"idle", "lock", "added", "failed"}]
      /\ context' \in [Threads -> Clients \cup {NULL}]
      /\ arg' \in [Threads -> Filters \cup Topics \cup {<<>>}]
      /\ subhier' \in [Threads -> Nodes]
      /\ UNCHANGED <<branch, leaf>>
      /\ \A u \in Threads \ {t} :
            /\ pc'[u] = pc[u] /\ context'[u] = context[u] /\ arg'[u] = arg[u]
            /\ subhier'[u] = subhier[u]
      /\ pc'[t] = "idle"
      /\ ThreadInv(t)'
  BY <1>1, <1>3, ReturnFacts
<1>6. Flags'
  BY <1>2, Zenon DEF Flags, IInv
<1>7. acked' \in [Clients -> SUBSET Filters]
  BY <1>1, <1>4 DEF IInv, TypeInv
<1>8. TypeInv'
  BY <1>1, <1>5, <1>7 DEF IInv, TypeInv
<1>9. TreeInv' /\ Grows
  BY <1>1, TreeStays
<1>10. LockInv'
  BY <1>1, <1>5 DEF IInv, LockInv, Adding
<1>11. \A u \in Threads \ {t} : Keeps(u)
  BY <1>1, <1>5 DEF Keeps
<1> QED
  BY <1>1, <1>5, <1>6, <1>8, <1>9, <1>10, <1>11, StepOf

(* SUBACK with an error, and the end of the connection; only a slot that   *)
(* this thread serves loses its identifier.                                *)
LEMMA RejectKeeps ==
    ASSUME IInv, NEW t \in Threads, Reject(t)
    PROVE  IInv'
<1> DEFINE c == context[t]
<1>1. /\ pc[t] = "failed" /\ Clean(c) /\ Return(t)
      /\ UNCHANGED <<children, subs, root_lock, asked, got>>
  BY DEF Reject, treeVars
<1>2. LocalInv(t) /\ got'[t] = <<>> /\ due[t] = {}
  BY <1>1 DEF IInv, LocalInv, Searching
<1>3. c \in Clients /\ Loop[c] = t
  BY <1>1, <1>2 DEF LocalInv
<1> HIDE DEF c
<1>4. /\ Flags'
      /\ id' \in [Clients -> Ids \cup {NULL}] /\ \A d \in Clients \ {c} : id'[d] = id[d]
      /\ acked' \in [Clients -> SUBSET Filters]
      /\ due' \in [Threads -> SUBSET Leaves]
      /\ \A u \in Threads : due'[u] \subseteq due[u]
      /\ \A d \in Clients : id'[d] \in IdsOf[d] \cup {NULL}
  BY <1>1, <1>3, CleanFacts
<1>5. due'[t] = {}
  BY <1>2, <1>4
<1>6. /\ pc' \in [Threads -> Adding \cup Searching \cup {"idle", "lock", "added", "failed"}]
      /\ context' \in [Threads -> Clients \cup {NULL}]
      /\ arg' \in [Threads -> Filters \cup Topics \cup {<<>>}]
      /\ subhier' \in [Threads -> Nodes]
      /\ UNCHANGED <<branch, leaf>>
      /\ \A u \in Threads \ {t} :
            /\ pc'[u] = pc[u] /\ context'[u] = context[u] /\ arg'[u] = arg[u]
            /\ subhier'[u] = subhier[u]
      /\ pc'[t] = "idle"
      /\ ThreadInv(t)'
  BY <1>1, <1>2, <1>5, ReturnFacts
<1>7. TypeInv'
  BY <1>1, <1>4, <1>6 DEF IInv, TypeInv
<1>8. TreeInv' /\ Grows
  BY <1>1, TreeStays
<1>9. LockInv'
  BY <1>1, <1>6 DEF IInv, LockInv, Adding
<1>10. \A u \in Threads \ {t} : Keeps(u)
  BY <1>1, <1>4, <1>6 DEF Keeps
<1>11. \A d \in Clients : Loop[d] # t => id'[d] = id[d]
  BY <1>3, <1>4
<1> QED
  BY <1>1, <1>4, <1>6, <1>7, <1>8, <1>9, <1>10, <1>11, StepOf

(* A search returns. *)
LEMMA SearchReturnKeeps ==
    ASSUME IInv, NEW t \in Threads, SearchReturn(t)
    PROVE  IInv'
<1>1. /\ pc[t] = "searched" /\ Return(t)
      /\ due' = [due EXCEPT ![t] = {}] /\ got' = [got EXCEPT ![t] = <<>>]
      /\ UNCHANGED <<children, subs, root_lock, id, is_subscribe, asked, acked>>
  BY DEF SearchReturn, treeVars, clientVars
<1>2. due \in [Threads -> SUBSET Leaves] /\ got \in [Threads -> Seq(Leaves)]
  BY DEF IInv, TypeInv
<1>3. /\ due' \in [Threads -> SUBSET Leaves] /\ got' \in [Threads -> Seq(Leaves)]
      /\ due'[t] = {} /\ got'[t] = <<>>
      /\ \A u \in Threads \ {t} : due'[u] = due[u] /\ got'[u] = got[u]
  BY <1>1, <1>2
<1>4. /\ pc' \in [Threads -> Adding \cup Searching \cup {"idle", "lock", "added", "failed"}]
      /\ context' \in [Threads -> Clients \cup {NULL}]
      /\ arg' \in [Threads -> Filters \cup Topics \cup {<<>>}]
      /\ subhier' \in [Threads -> Nodes]
      /\ UNCHANGED <<branch, leaf>>
      /\ \A u \in Threads \ {t} :
            /\ pc'[u] = pc[u] /\ context'[u] = context[u] /\ arg'[u] = arg[u]
            /\ subhier'[u] = subhier[u]
      /\ pc'[t] = "idle"
      /\ ThreadInv(t)'
  BY <1>1, <1>3, ReturnFacts
<1>5. TypeInv'
  BY <1>1, <1>3, <1>4 DEF IInv, TypeInv
<1>6. LockInv'
  BY <1>1, <1>4 DEF IInv, LockInv, Adding
<1>7. \A u \in Threads \ {t} : Keeps(u)
  BY <1>1, <1>3, <1>4 DEF Keeps
<1> QED
  BY <1>1, <1>4, <1>5, <1>6, <1>7, LocalStep DEF ThreadInv
-----------------------------------------------------------------------------
(* What a filter means, as the search sees it: token by token.             *)
TokensMatch(F, T) ==
    /\ F[1] = T[1]
    /\ \A i \in 1..(Len(F) - 1) : i <= Len(T) /\ F[i] \in {T[i], "+"}
    /\ \/ F[Len(F)] = "#"
       \/ Len(F) = Len(T) /\ F[Len(F)] \in {T[Len(F)], "+"}

(* Match, by the elements of the filter. *)
LEMMA MatchFacts ==
    ASSUME NEW f \in Filters, NEW topic \in Topics
    PROVE  LET n == Len(f) IN
           Match(f, topic) <=>
             /\ \A i \in 1..(n - 1) : i <= Len(topic) /\ f[i] \in {topic[i], "+"}
             /\ \/ f[n] = "#"
                \/ n = Len(topic) /\ f[n] \in {topic[n], "+"}
             /\ topic[1] \in Dollar => f[1] = topic[1]
<1> DEFINE n == Len(f)
           m == Len(topic)
<1>1. f \in Seq(Names) /\ n \in Nat /\ n >= 1 /\ Head(f) = f[1] /\ f # <<>>
  BY LevelFacts
<1>2. topic \in Seq(Names) /\ m \in Nat /\ m >= 1 /\ Head(topic) = topic[1]
  BY LevelFacts
<1>3. Last(f) = f[n]
  BY <1>1, FrontLast
<1>4. Match(f, topic) <=>
        /\ IF f[n] = "#" THEN m >= n - 1 ELSE m = n
        /\ \A i \in 1..(IF f[n] = "#" THEN n - 1 ELSE n) : f[i] \in {topic[i], "+"}
        /\ topic[1] \in Dollar => f[1] = topic[1]
  BY <1>1, <1>2, <1>3 DEF Match
<1> HIDE DEF n, m
<1>5. CASE f[n] = "#"
  <2>1. Match(f, topic) <=>
          /\ m >= n - 1
          /\ \A i \in 1..(n - 1) : f[i] \in {topic[i], "+"}
          /\ topic[1] \in Dollar => f[1] = topic[1]
    BY <1>4, <1>5
  <2>2. m >= n - 1 <=> \A i \in 1..(n - 1) : i <= m
    <3>1. ASSUME \A i \in 1..(n - 1) : i <= m PROVE m >= n - 1
      <4>1. CASE n = 1
        BY <1>2, <4>1
      <4>2. CASE n # 1
        <5>1. n - 1 \in 1..(n - 1)
          BY <1>1, <4>2
        <5>2. n - 1 <= m
          BY <3>1, <5>1
        <5> QED
          BY <1>1, <1>2, <5>2
      <4> QED
        BY <4>1, <4>2
    <3>2. ASSUME m >= n - 1 PROVE \A i \in 1..(n - 1) : i <= m
      BY <1>1, <1>2, <3>2
    <3> QED
      BY <3>1, <3>2
  <2> QED
    BY <1>5, <2>1, <2>2 DEF n, m
<1>6. CASE f[n] # "#"
  <2>1. Match(f, topic) <=>
          /\ m = n
          /\ \A i \in 1..n : f[i] \in {topic[i], "+"}
          /\ topic[1] \in Dollar => f[1] = topic[1]
    BY <1>4, <1>6
  <2>2. (\A i \in 1..n : f[i] \in {topic[i], "+"}) <=>
           (\A i \in 1..(n - 1) : f[i] \in {topic[i], "+"}) /\ f[n] \in {topic[n], "+"}
    <3>1. \A i \in 1..n : i \in 1..(n - 1) \/ i = n
      BY <1>1
    <3>2. n \in 1..n /\ \A i \in 1..(n - 1) : i \in 1..n
      BY <1>1
    <3> QED
      BY <3>1, <3>2
  <2>3. m = n => \A i \in 1..(n - 1) : i <= m
    BY <1>1
  <2> QED
    BY <1>6, <2>1, <2>2, <2>3 DEF n, m
<1> QED
  BY <1>5, <1>6

(* Match compares levels, the search tokens: it is the same, also where    *)
(* levels begin with '$', as the first token tells these apart.            *)
LEMMA MatchTokens ==
    ASSUME NEW f \in Filters, NEW topic \in Topics
    PROVE  Match(f, topic) <=> TokensMatch(Tokenise(f), Tokenise(topic))
<1> DEFINE F == Tokenise(f)
           T == Tokenise(topic)
           n == Len(f)
           m == Len(topic)
<1>1. n \in Nat /\ n >= 1 /\ m \in Nat /\ m >= 1
  BY LevelFacts
<1>2. /\ f[1] \in Dollar => F = f
      /\ f[1] \notin Dollar => /\ Len(F) = n + 1 /\ F[1] = Empty
                               /\ \A i \in 1..n : F[i + 1] = f[i]
  BY TokenFacts
<1>3. /\ topic[1] \in Dollar => T = topic
      /\ topic[1] \notin Dollar => /\ Len(T) = m + 1 /\ T[1] = Empty
                                   /\ \A i \in 1..m : T[i + 1] = topic[i]
  BY TokenFacts
<1>4. Empty \notin Dollar /\ "+" \notin Dollar /\ "#" \notin Dollar
  BY TreeAssumption
<1>5. Match(f, topic) <=>
        /\ \A i \in 1..(n - 1) : i <= m /\ f[i] \in {topic[i], "+"}
        /\ \/ f[n] = "#"
           \/ n = m /\ f[n] \in {topic[n], "+"}
        /\ topic[1] \in Dollar => f[1] = topic[1]
  BY MatchFacts
<1> HIDE DEF F, T, n, m
<1>6. CASE topic[1] \in Dollar
  <2>1. CASE f[1] \in Dollar
    <3>1. F = f /\ T = topic
      BY <1>2, <1>3, <1>6, <2>1
    <3>2. TokensMatch(f, topic) <=>
            /\ f[1] = topic[1]
            /\ \A i \in 1..(n - 1) : i <= m /\ f[i] \in {topic[i], "+"}
            /\ \/ f[n] = "#"
               \/ n = m /\ f[n] \in {topic[n], "+"}
      BY Zenon DEF TokensMatch, n, m
    <3>3. Match(f, topic) <=> TokensMatch(f, topic)
      BY <1>5, <1>6, <3>2, Zenon
    <3> QED
      BY <3>1, <3>3 DEF F, T
  <2>2. CASE f[1] \notin Dollar
    <3>1. ~Match(f, topic)
      BY <1>5, <1>6, <2>2
    <3>2. F[1] # T[1]
      BY <1>2, <1>3, <1>4, <1>6, <2>2
    <3> QED
      BY <3>1, <3>2 DEF TokensMatch, F, T
  <2> QED
    BY <2>1, <2>2 DEF F, T
<1>7. CASE topic[1] \notin Dollar
  <2>1. CASE f[1] \in Dollar
    <3>1. ~Match(f, topic)
      <4>1. CASE n = 1
        BY <1>4, <1>5, <1>7, <2>1, <4>1
      <4>2. CASE n # 1
        <5>1. 1 \in 1..(n - 1)
          BY <1>1, <4>2
        <5> QED
          BY <1>4, <1>5, <1>7, <2>1, <5>1
      <4> QED
        BY <4>1, <4>2
    <3>2. F[1] # T[1]
      BY <1>2, <1>3, <1>4, <1>7, <2>1
    <3> QED
      BY <3>1, <3>2 DEF TokensMatch, F, T
  <2>2. CASE f[1] \notin Dollar
    <3>1. /\ Len(F) = n + 1 /\ F[1] = T[1] /\ \A i \in 1..n : F[i + 1] = f[i]
          /\ Len(T) = m + 1 /\ \A i \in 1..m : T[i + 1] = topic[i]
      BY <1>2, <1>3, <1>7, <2>2
    <3>2. F[Len(F)] = f[n]
      BY <1>1, <3>1
    <3>3. n = m => T[Len(F)] = topic[n]
      BY <1>1, <3>1
    <3>4. (\A i \in 1..(n - 1) : i <= m /\ f[i] \in {topic[i], "+"}) <=>
             (\A i \in 1..(Len(F) - 1) : i <= Len(T) /\ F[i] \in {T[i], "+"})
      <4>1. ASSUME \A i \in 1..(n - 1) : i <= m /\ f[i] \in {topic[i], "+"},
                   NEW i \in 1..(Len(F) - 1)
            PROVE  i <= Len(T) /\ F[i] \in {T[i], "+"}
        <5>1. CASE i = 1
          BY <1>1, <3>1, <5>1
        <5>2. CASE i # 1
          <6> DEFINE j == i - 1
          <6>1. j \in 1..(n - 1) /\ j \in 1..n /\ i = j + 1
            BY <1>1, <3>1, <5>2
          <6> HIDE DEF j
          <6>2. j <= m /\ f[j] \in {topic[j], "+"}
            BY <4>1, <6>1
          <6>3. j \in 1..m
            BY <1>1, <6>1, <6>2
          <6>4. F[i] = f[j] /\ T[i] = topic[j]
            BY <3>1, <6>1, <6>3
          <6> QED
            BY <1>1, <3>1, <6>1, <6>2, <6>4
        <5> QED
          BY <5>1, <5>2
      <4>2. ASSUME \A i \in 1..(Len(F) - 1) : i <= Len(T) /\ F[i] \in {T[i], "+"},
                   NEW i \in 1..(n - 1)
            PROVE  i <= m /\ f[i] \in {topic[i], "+"}
        <5> DEFINE j == i + 1
        <5>1. j \in 1..(Len(F) - 1) /\ i \in 1..n
          BY <1>1, <3>1
        <5> HIDE DEF j
        <5>2. j <= Len(T) /\ F[j] \in {T[j], "+"}
          BY <4>2, <5>1
        <5>3. i \in 1..m /\ i <= m
          BY <1>1, <3>1, <5>2 DEF j
        <5>4. F[j] = f[i] /\ T[j] = topic[i]
          BY <3>1, <5>1, <5>3 DEF j
        <5> QED
          BY <5>2, <5>3, <5>4
      <4> QED
        BY <4>1, <4>2
    <3>5. n = m <=> Len(F) = Len(T)
      BY <1>1, <3>1
    <3>6. TokensMatch(F, T) <=>
            /\ \A i \in 1..(n - 1) : i <= m /\ f[i] \in {topic[i], "+"}
            /\ \/ f[n] = "#"
               \/ n = m /\ f[n] \in {topic[n], "+"}
      BY <3>1, <3>2, <3>3, <3>4, <3>5 DEF TokensMatch
    <3> QED
      BY <1>5, <1>7, <3>6 DEF F, T
  <2> QED
    BY <2>1, <2>2
<1> QED
  BY <1>6, <1>7

(* The leaves that a search gets to are those of filters that match. *)
LEMMA LeavesMatch ==
    ASSUME IInv, NEW t \in Threads, pc[t] = "leaves",
           NEW f \in Filters, PathOf(f) = Here(t)
    PROVE  Match(f, arg[t])
<1> DEFINE p == PathOf(f)
           F == Tokenise(f)
           T == Tokenise(arg[t])
           s == subhier[t]
           b == branch[t]
           n == Len(s)
<1>1. /\ arg[t] \in Topics /\ s # Root /\ b # NULL /\ s[1] = Head(T)
      /\ \A k \in 2..n : k - 1 <= Len(T) /\ s[k] \in {T[k - 1], "+"}
      /\ b = "#" \/ (n = Len(T) /\ b \in {T[n], "+"})
  BY DEF IInv, WalkInv, Searching
<1>2. s \in Nodes /\ b \in Names /\ p = Append(s, b)
  BY <1>1, HereFacts DEF Searching
<1>3. Head(T) = T[1] /\ Len(T) \in Nat
  BY <1>1, TokenFacts
<1>4. /\ Len(p) = Len(F) + 1 /\ Len(F) \in Nat /\ p[1] = F[1]
      /\ \A i \in 1..Len(F) : p[i + 1] = F[i]
  BY PathFacts, TokenFacts
<1>5. s \in Seq(Names) /\ n \in Nat /\ n >= 1
  <2>1. s \in Seq(Names)
    BY <1>2, NodeFacts
  <2> QED
    BY <1>1, <2>1, EmptySeq DEF Root
<1> HIDE DEF F, T, s, b, p
<1>6. Len(p) = n + 1 /\ (\A k \in 1..n : p[k] = s[k]) /\ p[n + 1] = b
  BY <1>2, <1>5, PreAppend
<1>7. Len(F) = n
  BY <1>4, <1>5, <1>6
<1>8. F[1] = T[1]
  <2>1. 1 \in 1..n
    BY <1>5
  <2>2. p[1] = s[1]
    BY <1>6, <2>1
  <2> QED
    BY <1>1, <1>3, <1>4, <2>2
<1>9. F[n] = b
  BY <1>4, <1>5, <1>6, <1>7
<1>10. ASSUME NEW i \in 1..(n - 1) PROVE i <= Len(T) /\ F[i] \in {T[i], "+"}
  <2> DEFINE k == i + 1
  <2>1. k \in 2..n /\ k \in 1..n /\ k - 1 = i /\ i \in 1..Len(F)
    BY <1>5, <1>7
  <2>2. p[k] = F[i]
    BY <1>4, <2>1
  <2> HIDE DEF k
  <2>3. k - 1 <= Len(T) /\ s[k] \in {T[k - 1], "+"} /\ p[k] = s[k]
    BY <1>1, <1>6, <2>1
  <2> QED
    BY <2>1, <2>2, <2>3
<1>11. TokensMatch(F, T)
  BY <1>1, <1>7, <1>8, <1>9, <1>10 DEF TokensMatch
<1> QED
  BY <1>1, <1>11, MatchTokens DEF F, T
-----------------------------------------------------------------------------
(* The steps of a search. *)

(* What was delivered stays behind. *)
LEMMA GotStays ==
    ASSUME IInv, NEW t \in Threads,
           got'[t] = got[t], arg'[t] = arg[t], asked' = asked,
           \A l \in Leaves : Behindhand(t, l) => Behindhand(t, l)'
    PROVE  GotInv(t)'
<1>1. GotInv(t) /\ got[t] \in Seq(Leaves)
  BY DEF IInv, TypeInv
<1>2. \A l \in Range(got[t]) : l \in Leaves
  BY <1>1, RangeOfSeq
<1>3. \A l \in Range(got[t]) : Behindhand(t, l)'
  BY <1>1, <1>2 DEF GotInv
<1> QED
  BY <1>1, <1>3 DEF GotInv

(* The parts of a leaf.                                                    *)
LEMMA LeafNode ==
    ASSUME NEW l \in Leaves
    PROVE  l.node \in Nodes /\ l.node \in Seq(Names) /\ l.context \in Clients
<1>1. l.node \in Nodes /\ l.context \in Clients
  BY DEF Leaves
<1> QED
  BY <1>1, NodeFacts

(* A step of a search: the thread's own locals, but for context. *)
LEMMA SearchStepKeeps ==
    ASSUME IInv, NEW t \in Threads, pc[t] \in Searching, pc'[t] \in Searching,
           UNCHANGED <<children, subs, root_lock, id, is_subscribe, context, arg, asked,
                       acked, due>>,
           \A u \in Threads \ {t} :
              /\ pc'[u] = pc[u] /\ subhier'[u] = subhier[u] /\ branch'[u] = branch[u]
              /\ leaf'[u] = leaf[u] /\ got'[u] = got[u],
           pc' \in [Threads -> Adding \cup Searching \cup {"idle", "lock", "added", "failed"}],
           subhier' \in [Threads -> Nodes],
           branch' \in [Threads -> Names \cup {NULL}],
           leaf' \in [Threads -> Nat \ {0}],
           got' \in [Threads -> Seq(Leaves)],
           pc'[t] # "leaves" => leaf'[t] = 1,
           pc'[t] = "searched" => branch'[t] = NULL /\ subhier'[t] = Root,
           WalkInv(t)', GotInv(t)'
    PROVE  IInv'
<1>1. TypeInv'
  BY DEF IInv, TypeInv
<1>2. LockInv'
  BY DEF IInv, LockInv, Adding, Searching
<1>3. \A u \in Threads \ {t} : Keeps(u)
  BY DEF Keeps
<1>4. LocalInv(t)'
  BY DEF LocalInv, Adding, Searching
<1>5. AddInv(t)'
  BY DEF AddInv, Searching
<1> QED
  BY <1>1, <1>2, <1>3, <1>4, <1>5, LocalStep

(* The search starts at the root, with nothing behind it.                  *)
LEMMA SearchKeeps ==
    ASSUME IInv, NEW t \in Threads, NEW topic \in Topics, Search(t, topic)
    PROVE  IInv'
<1> DEFINE b == First(children[Root])
           S == Matching(topic)
<1>1. /\ pc[t] = "idle" /\ arg' = [arg EXCEPT ![t] = topic]
      /\ branch' = [branch EXCEPT ![t] = b]
      /\ due' = [due EXCEPT ![t] = S]
      /\ pc' = [pc EXCEPT ![t] = "search"]
      /\ UNCHANGED <<children, subs, root_lock, id, is_subscribe, context, subhier, leaf,
                     asked, acked, got>>
  BY DEF Search, Goto, treeVars, clientVars
<1>2. S \subseteq Leaves
  BY DEF Matching
<1>3. b \in Range(children[Root]) \cup {NULL} /\ b \in Names \cup {NULL}
  <2>1. Root \in Nodes
    BY RootLinked
  <2>2. children[Root] \in Seq(Names) /\ IsInjective(children[Root])
    BY <2>1 DEF IInv, TypeInv, TreeInv
  <2>3. b \in Range(children[Root]) \cup {NULL}
    BY <2>2, FirstFacts
  <2> QED
    BY <2>2, <2>3, InRange
<1> HIDE DEF b, S
<1>4. /\ pc \in [Threads -> Adding \cup Searching \cup {"idle", "lock", "added", "failed"}]
      /\ arg \in [Threads -> Filters \cup Topics \cup {<<>>}]
      /\ branch \in [Threads -> Names \cup {NULL}]
      /\ due \in [Threads -> SUBSET Leaves]
  BY DEF IInv, TypeInv
<1>5. /\ pc'[t] = "search" /\ arg'[t] = topic /\ branch'[t] = b
      /\ \A u \in Threads \ {t} : /\ pc'[u] = pc[u] /\ arg'[u] = arg[u]
                                  /\ branch'[u] = branch[u] /\ due'[u] = due[u]
  BY <1>1, <1>4
<1>6. TypeInv'
  BY <1>1, <1>2, <1>3, <1>4 DEF IInv, TypeInv, Searching
<1>7. \A u \in Threads \ {t} : Keeps(u)
  BY <1>1, <1>5 DEF Keeps
<1>8. LockInv'
  BY <1>1, <1>5 DEF IInv, LockInv, Adding
<1>9. LocalInv(t) /\ subhier[t] = Root
  BY <1>1 DEF IInv, LocalInv
<1>10. LocalInv(t)'
  BY <1>1, <1>5, <1>9 DEF LocalInv, Adding, Searching
<1>11. AddInv(t)'
  BY <1>5 DEF AddInv
<1>12. WalkInv(t)'
  <2>1. Linked(children, Root) /\ Len(Root) = 0
    BY RootLinked
  <2> QED
    BY <1>1, <1>3, <1>5, <1>9, <2>1 DEF WalkInv
<1>13. GotInv(t)'
  BY <1>1, NothingGot DEF Searching
<1> QED
  BY <1>1, <1>6, <1>7, <1>8, <1>10, <1>11, <1>12, <1>13, LocalStep

(* The search goes down to a child that matches the next token.            *)
LEMMA DescendKeeps ==
    ASSUME IInv, NEW t \in Threads, Descend(t)
    PROVE  IInv'
<1> DEFINE s == subhier[t]
           b == branch[t]
           h == Here(t)
           c == First(children[h])
           T == Tokenise(arg[t])
<1>1. /\ pc[t] = "search" /\ b # NULL /\ TokenMatches(t)
      /\ subhier' = [subhier EXCEPT ![t] = h]
      /\ branch' = [branch EXCEPT ![t] = c]
      /\ UNCHANGED <<children, subs, root_lock, id, is_subscribe, pc, context, arg, leaf,
                     asked, acked, due, got>>
  BY DEF Descend, InLoop, treeVars, clientVars, histVars
<1>2. /\ b \in Range(children[s]) /\ b \in Names /\ h \in Nodes /\ h = Append(s, b)
      /\ s \in Nodes /\ s \in Seq(Names) /\ Len(s) \in Nat
  BY <1>1, HereFacts, NodeFacts DEF Searching
<1>3. WalkInv(t) /\ LocalInv(t)
  BY DEF IInv
<1>4. /\ arg[t] \in Topics /\ Linked(children, s)
      /\ s # Root => s[1] = Head(T)
      /\ \A k \in 2..Len(s) : k - 1 <= Len(T) /\ s[k] \in {T[k - 1], "+"}
  BY <1>1, <1>3 DEF WalkInv, Searching
<1>5. IF s = Root THEN b = Head(T) ELSE Len(s) <= Len(T) /\ b \in {T[Len(s)], "+"}
  BY <1>1 DEF TokenMatches, HasToken, Token
<1>6. c \in Range(children[h]) \cup {NULL} /\ c \in Names \cup {NULL}
  <2>1. children[h] \in Seq(Names) /\ IsInjective(children[h])
    BY <1>2 DEF IInv, TypeInv, TreeInv
  <2>2. c \in Range(children[h]) \cup {NULL}
    BY <2>1, FirstFacts
  <2> QED
    BY <2>1, <2>2, InRange
<1>7. /\ subhier \in [Threads -> Nodes] /\ branch \in [Threads -> Names \cup {NULL}]
      /\ pc \in [Threads -> Adding \cup Searching \cup {"idle", "lock", "added", "failed"}]
      /\ leaf \in [Threads -> Nat \ {0}] /\ got \in [Threads -> Seq(Leaves)]
  BY DEF IInv, TypeInv
<1> HIDE DEF s, b, h, c, T
<1>8. /\ subhier'[t] = h /\ branch'[t] = c
      /\ \A u \in Threads \ {t} : subhier'[u] = subhier[u] /\ branch'[u] = branch[u]
      /\ subhier' \in [Threads -> Nodes] /\ branch' \in [Threads -> Names \cup {NULL}]
  BY <1>1, <1>2, <1>6, <1>7
<1>9. Linked(children, h)
  BY <1>2, <1>4, LinkedStep
<1>10. Len(h) = Len(s) + 1 /\ (\A k \in 1..Len(s) : h[k] = s[k]) /\ h[Len(s) + 1] = b
  BY <1>2, PreAppend
<1>11. s = Root <=> Len(s) = 0
  BY <1>2, EmptySeq DEF Root
<1>12. h[1] = Head(T)
  <2>1. CASE s = Root
    BY <1>5, <1>10, <1>11, <2>1
  <2>2. CASE s # Root
    <3>1. 1 \in 1..Len(s)
      BY <1>2, <1>11, <2>2
    <3> QED
      BY <1>4, <1>10, <2>2, <3>1
  <2> QED
    BY <2>1, <2>2
<1>13. ASSUME NEW k \in 2..Len(h)
       PROVE  k - 1 <= Len(T) /\ h[k] \in {T[k - 1], "+"}
  <2>1. CASE k \in 2..Len(s)
    <3>1. k \in 1..Len(s)
      BY <1>2, <2>1
    <3> QED
      BY <1>4, <1>10, <2>1, <3>1
  <2>2. CASE k \notin 2..Len(s)
    <3>1. k = Len(s) + 1 /\ k - 1 = Len(s) /\ s # Root
      BY <1>2, <1>10, <1>11, <2>2
    <3>2. h[k] = b
      BY <1>10, <3>1
    <3> QED
      BY <1>5, <3>1, <3>2
  <2> QED
    BY <2>1, <2>2
<1>14. WalkInv(t)'
  BY <1>1, <1>4, <1>6, <1>8, <1>9, <1>12, <1>13 DEF WalkInv, T
<1>15. GotInv(t)'
  <2>1. ASSUME NEW l \in Leaves, Behindhand(t, l) PROVE Behindhand(t, l)'
    <3>1. Passed(children, s, b, l.node)
      BY <1>1, <2>1 DEF Behindhand, s, b
    <3>2. Passed(children, h, c, l.node)
      BY <1>2, <3>1, PassedDown
    <3> QED
      BY <1>1, <1>8, <3>2 DEF Behindhand
  <2> QED
    BY <1>1, <2>1, GotStays
<1>16. leaf[t] = 1
  BY <1>1, <1>3 DEF LocalInv
<1> QED
  BY <1>1, <1>7, <1>8, <1>14, <1>15, <1>16, SearchStepKeeps DEF Searching

(* The search turns to the leaves of a '#'.                                *)
LEMMA ProcessHashKeeps ==
    ASSUME IInv, NEW t \in Threads, ProcessHash(t)
    PROVE  IInv'
<1>1. /\ pc[t] = "search" /\ branch[t] # NULL
      /\ subhier[t] # Root /\ branch[t] = "#"
      /\ pc' = [pc EXCEPT ![t] = "leaves"]
      /\ UNCHANGED <<children, subs, root_lock, id, is_subscribe, context, arg, subhier,
                     branch, leaf, asked, acked, due, got>>
  BY DEF ProcessHash, InLoop, HashMatches, Goto, treeVars, clientVars, histVars
<1>2. /\ subhier \in [Threads -> Nodes] /\ branch \in [Threads -> Names \cup {NULL}]
      /\ pc \in [Threads -> Adding \cup Searching \cup {"idle", "lock", "added", "failed"}]
      /\ leaf \in [Threads -> Nat \ {0}] /\ got \in [Threads -> Seq(Leaves)]
  BY DEF IInv, TypeInv
<1>3. /\ pc'[t] = "leaves" /\ \A u \in Threads \ {t} : pc'[u] = pc[u]
      /\ pc' \in [Threads -> Adding \cup Searching \cup {"idle", "lock", "added", "failed"}]
  BY <1>1, <1>2 DEF Searching
<1>4. WalkInv(t)
  BY DEF IInv
<1>5. WalkInv(t)'
  BY <1>1, <1>3, <1>4 DEF WalkInv, Searching
<1>6. GotInv(t)'
  <2>1. ASSUME NEW l \in Leaves, Behindhand(t, l) PROVE Behindhand(t, l)'
    BY <1>1, <1>3, <2>1 DEF Behindhand
  <2> QED
    BY <1>1, <2>1, GotStays
<1> QED
  BY <1>1, <1>2, <1>3, <1>5, <1>6, SearchStepKeeps DEF Searching

(* branch = branch->next keeps the search's place. *)
LEMMA NextFacts ==
    ASSUME IInv, NEW p \in Nodes, NEW b \in Range(children[p])
    PROVE  LET n == Behind(children[p], b) IN
           n \in Names \cup {NULL} /\ (n # NULL => n \in Range(children[p]))
<1>1. children[p] \in Seq(Names) /\ IsInjective(children[p])
  BY DEF IInv, TypeInv, TreeInv
<1>2. Behind(children[p], b) \in Range(children[p]) \cup {NULL}
  BY <1>1, BehindFacts
<1> QED
  BY <1>1, <1>2, InRange

(* The search passes a child, and with it nothing that it delivered to     *)
(* later.                                                                  *)
LEMMA SkipKeeps ==
    ASSUME IInv, NEW t \in Threads, Skip(t)
    PROVE  IInv'
<1> DEFINE s == subhier[t]
           b == branch[t]
           n == Behind(children[s], b)
<1>1. /\ pc[t] = "search" /\ b # NULL
      /\ branch' = [branch EXCEPT ![t] = n]
      /\ UNCHANGED <<children, subs, root_lock, id, is_subscribe, pc, context, arg, subhier,
                     leaf, asked, acked, due, got>>
  BY DEF Skip, InLoop, NextBranch, treeVars, clientVars, histVars
<1>2. b \in Range(children[s]) /\ b \in Names /\ s \in Nodes
  BY <1>1, HereFacts DEF Searching
<1>3. n \in Names \cup {NULL} /\ (n # NULL => n \in Range(children[s]))
  BY <1>2, NextFacts
<1>4. /\ subhier \in [Threads -> Nodes] /\ branch \in [Threads -> Names \cup {NULL}]
      /\ pc \in [Threads -> Adding \cup Searching \cup {"idle", "lock", "added", "failed"}]
      /\ leaf \in [Threads -> Nat \ {0}] /\ got \in [Threads -> Seq(Leaves)]
  BY DEF IInv, TypeInv
<1>5. WalkInv(t) /\ LocalInv(t)
  BY DEF IInv
<1>6. \A l \in Leaves : Passed(children, s, b, l.node) => Passed(children, s, n, l.node)
  BY <1>2, TreeOf, PassedNext
<1> HIDE DEF n
<1>7. /\ branch'[t] = n /\ \A u \in Threads \ {t} : branch'[u] = branch[u]
      /\ branch' \in [Threads -> Names \cup {NULL}]
  BY <1>1, <1>3, <1>4
<1>8. WalkInv(t)'
  BY <1>1, <1>3, <1>5, <1>7 DEF WalkInv, Searching
<1>9. GotInv(t)'
  <2>1. ASSUME NEW l \in Leaves, Behindhand(t, l) PROVE Behindhand(t, l)'
    BY <1>1, <1>6, <1>7, <2>1 DEF Behindhand
  <2> QED
    BY <1>1, <2>1, GotStays
<1>10. leaf[t] = 1
  BY <1>1, <1>5 DEF LocalInv
<1> QED
  BY <1>1, <1>4, <1>7, <1>8, <1>9, <1>10, SearchStepKeeps DEF Searching

(* The search is over.                                                     *)
LEMMA SearchDoneKeeps ==
    ASSUME IInv, NEW t \in Threads, SearchDone(t)
    PROVE  IInv'
<1>1. /\ pc[t] = "search" /\ branch[t] = NULL /\ subhier[t] = Root
      /\ pc' = [pc EXCEPT ![t] = "searched"]
      /\ UNCHANGED <<children, subs, root_lock, id, is_subscribe, context, arg, subhier,
                     branch, leaf, asked, acked, due, got>>
  BY DEF SearchDone, Goto, treeVars, clientVars, histVars
<1>2. /\ subhier \in [Threads -> Nodes] /\ branch \in [Threads -> Names \cup {NULL}]
      /\ pc \in [Threads -> Adding \cup Searching \cup {"idle", "lock", "added", "failed"}]
      /\ leaf \in [Threads -> Nat \ {0}] /\ got \in [Threads -> Seq(Leaves)]
  BY DEF IInv, TypeInv
<1>3. /\ pc'[t] = "searched" /\ \A u \in Threads \ {t} : pc'[u] = pc[u]
      /\ pc' \in [Threads -> Adding \cup Searching \cup {"idle", "lock", "added", "failed"}]
  BY <1>1, <1>2 DEF Searching
<1>4. WalkInv(t) /\ leaf[t] = 1
  BY <1>1 DEF IInv, LocalInv
<1>5. WalkInv(t)'
  BY <1>1, <1>3, <1>4 DEF WalkInv, Searching
<1>6. GotInv(t)'
  <2>1. ASSUME NEW l \in Leaves, Behindhand(t, l) PROVE Behindhand(t, l)'
    BY <1>1, <1>3, <2>1 DEF Behindhand
  <2> QED
    BY <1>1, <2>1, GotStays
<1> QED
  BY <1>1, <1>2, <1>3, <1>4, <1>5, <1>6, SearchStepKeeps DEF Searching

(* The node above a linked one is linked, and has it as a child. *)
LEMMA LinkedFront ==
    ASSUME NEW ch, NEW p \in Nodes, p # Root, Linked(ch, p)
    PROVE  /\ Front(p) \in Nodes /\ Linked(ch, Front(p))
           /\ Last(p) \in Range(ch[Front(p)]) /\ Last(p) \in Names
           /\ p = Append(Front(p), Last(p))
<1> DEFINE q == Front(p)
           n == Len(p)
<1>1. p \in Seq(Names) /\ p # <<>> /\ \A k \in 0..n : Pre(p, k) \in Nodes
  BY NodeFacts DEF Root
<1>2. /\ n \in Nat /\ n >= 1
      /\ q \in Seq(Names) /\ Len(q) = n - 1
      /\ Last(p) \in Names /\ Last(p) = p[n]
      /\ p = Append(q, Last(p))
      /\ \A k \in 0..(n - 1) : Pre(q, k) = Pre(p, k)
      /\ \A k \in 1..(n - 1) : q[k] = p[k]
  BY <1>1, FrontLast
<1>3. \A k \in 0..(n - 1) : p[k + 1] \in Range(ch[Pre(p, k)])
  BY DEF Linked
<1>4. Pre(q, Len(q)) = q
  BY <1>2, PreEnds
<1> HIDE DEF q, n
<1>5. n - 1 \in 0..n /\ n - 1 \in 0..(n - 1) /\ n - 1 + 1 = n
  BY <1>2
<1>6. Pre(p, n - 1) = q
  BY <1>2, <1>4, <1>5
<1>7. q \in Nodes
  BY <1>1, <1>5, <1>6
<1>8. p[n] \in Range(ch[q])
  BY <1>3, <1>5, <1>6
<1>9. ASSUME NEW k \in 0..(Len(q) - 1) PROVE q[k + 1] \in Range(ch[Pre(q, k)])
  <2>1. k \in 0..(n - 1) /\ k + 1 \in 1..(n - 1)
    BY <1>2
  <2> QED
    BY <1>2, <1>3, <2>1
<1>10. Linked(ch, q)
  BY <1>9 DEF Linked
<1> QED
  BY <1>2, <1>7, <1>8, <1>10 DEF q

(* The search comes back from a child: all below it lies behind, and its   *)
(* own leaves are next if the token was the last one.                      *)
LEMMA AscendKeeps ==
    ASSUME IInv, NEW t \in Threads, Ascend(t)
    PROVE  IInv'
<1> DEFINE s == subhier[t]
           p == Front(s)
           b == Last(s)
           n == Behind(children[p], b)
           T == Tokenise(arg[t])
<1>1. /\ pc[t] = "search" /\ branch[t] = NULL /\ s # Root
      /\ subhier' = [subhier EXCEPT ![t] = p]
      /\ IF LastToken(t, p)
         THEN pc' = [pc EXCEPT ![t] = "leaves"] /\ branch' = [branch EXCEPT ![t] = b]
         ELSE pc' = pc /\ branch' = [branch EXCEPT ![t] = n]
      /\ UNCHANGED <<children, subs, root_lock, id, is_subscribe, context, arg, leaf,
                     asked, acked, due, got>>
  BY DEF Ascend, NextBranch, Goto, treeVars, clientVars, histVars
<1>2. WalkInv(t) /\ LocalInv(t) /\ s \in Nodes
  BY DEF IInv, TypeInv
<1>3. /\ arg[t] \in Topics /\ Linked(children, s)
      /\ s[1] = Head(T)
      /\ \A k \in 2..Len(s) : k - 1 <= Len(T) /\ s[k] \in {T[k - 1], "+"}
  BY <1>1, <1>2 DEF WalkInv, Searching
<1>4. /\ p \in Nodes /\ Linked(children, p) /\ b \in Range(children[p]) /\ b \in Names
      /\ s = Append(p, b)
  BY <1>1, <1>2, <1>3, LinkedFront
<1>5. /\ s \in Seq(Names) /\ Len(s) \in Nat /\ Len(s) >= 1 /\ Len(p) = Len(s) - 1
      /\ b = s[Len(s)] /\ \A k \in 1..(Len(s) - 1) : p[k] = s[k]
  BY <1>1, <1>2, NodeFacts, FrontLast DEF Root
<1>6. n \in Names \cup {NULL} /\ (n # NULL => n \in Range(children[p]))
  BY <1>4, NextFacts
<1>7. /\ subhier \in [Threads -> Nodes] /\ branch \in [Threads -> Names \cup {NULL}]
      /\ pc \in [Threads -> Adding \cup Searching \cup {"idle", "lock", "added", "failed"}]
      /\ leaf \in [Threads -> Nat \ {0}] /\ got \in [Threads -> Seq(Leaves)]
  BY DEF IInv, TypeInv
<1>8. leaf[t] = 1
  BY <1>1, <1>2 DEF LocalInv
<1>9. Root = <<>> /\ Len(<<>>) = 0 /\ p \in Seq(Names)
  BY <1>4, NodeFacts DEF Root
<1>10. ASSUME NEW l \in Leaves, Behindhand(t, l)
       PROVE  Passed(children, p, b, l.node) \/ (AtOrBelow(l.node, s) /\ l.node # s)
  <2>1. Passed(children, s, NULL, l.node)
    BY <1>1, <1>10 DEF Behindhand
  <2>2. l.node \in Seq(Names)
    BY LeafNode
  <2> QED
    BY <1>1, <1>5, <1>9, <2>1, <2>2, PassedUp
<1> HIDE DEF s, p, b, n, T
<1>11. /\ subhier'[t] = p
       /\ \A u \in Threads \ {t} : subhier'[u] = subhier[u]
       /\ subhier' \in [Threads -> Nodes]
  BY <1>1, <1>4, <1>7
<1>12. p # Root => p[1] = Head(T)
  <2>1. ASSUME p # Root PROVE 1 \in 1..(Len(s) - 1)
    <3>1. Len(p) # 0
      BY <1>9, <2>1, EmptySeq
    <3> QED
      BY <1>5, <3>1
  <2> QED
    BY <1>3, <1>5, <2>1
<1>13. ASSUME NEW k \in 2..Len(p)
       PROVE  k - 1 <= Len(T) /\ p[k] \in {T[k - 1], "+"}
  <2>1. k \in 2..Len(s) /\ k \in 1..(Len(s) - 1)
    BY <1>5
  <2> QED
    BY <1>3, <1>5, <2>1
<1>14. CASE LastToken(t, p)
  <2>1. /\ pc'[t] = "leaves" /\ branch'[t] = b
        /\ \A u \in Threads \ {t} : pc'[u] = pc[u] /\ branch'[u] = branch[u]
        /\ pc' \in [Threads -> Adding \cup Searching \cup {"idle", "lock", "added", "failed"}]
        /\ branch' \in [Threads -> Names \cup {NULL}]
    BY <1>1, <1>4, <1>7, <1>14 DEF Searching
  <2>2. p # Root /\ Len(p) = Len(T)
    BY <1>14 DEF LastToken, T
  <2>3. b \in {T[Len(p)], "+"}
    <3>1. Len(p) # 0
      BY <1>9, <2>2, EmptySeq
    <3>2. Len(s) \in 2..Len(s) /\ Len(s) - 1 = Len(p)
      BY <1>5, <3>1
    <3> QED
      BY <1>3, <1>5, <3>2
  <2>4. b # NULL
    BY <1>4, NullFacts
  <2>5. WalkInv(t)'
    BY <1>1, <1>3, <1>4, <1>11, <1>12, <1>13, <2>1, <2>2, <2>3, <2>4 DEF WalkInv, T
  <2>6. GotInv(t)'
    <3>1. Here(t)' = s
      BY <1>4, <1>11, <2>1 DEF Here
    <3>2. ASSUME NEW l \in Leaves, Behindhand(t, l) PROVE Behindhand(t, l)'
      <4>1. Passed(children, p, b, l.node) \/ (AtOrBelow(l.node, s) /\ l.node # s)
        BY <1>10, <3>2
      <4> QED
        BY <1>1, <1>11, <2>1, <3>1, <4>1 DEF Behindhand
    <3> QED
      BY <1>1, <3>2, GotStays
  <2> QED
    BY <1>1, <1>7, <1>11, <2>1, <2>5, <2>6, SearchStepKeeps DEF Searching
<1>15. CASE ~LastToken(t, p)
  <2>1. /\ pc' = pc /\ branch'[t] = n
        /\ \A u \in Threads \ {t} : branch'[u] = branch[u]
        /\ branch' \in [Threads -> Names \cup {NULL}]
    BY <1>1, <1>6, <1>7, <1>15
  <2>2. WalkInv(t)'
    BY <1>1, <1>3, <1>4, <1>6, <1>11, <1>12, <1>13, <2>1 DEF WalkInv, T
  <2>3. GotInv(t)'
    <3>1. ASSUME NEW l \in Leaves, Behindhand(t, l) PROVE Behindhand(t, l)'
      <4>1. Passed(children, p, b, l.node) \/ AtOrBelow(l.node, Append(p, b))
        BY <1>4, <1>10, <3>1
      <4>2. l.node \in Seq(Names)
        BY LeafNode
      <4>3. Passed(children, p, n, l.node)
        BY <1>4, <4>1, <4>2, TreeOf, PassedNext, NextPasses DEF n
      <4> QED
        BY <1>1, <1>11, <2>1, <4>3 DEF Behindhand
    <3> QED
      BY <1>1, <3>1, GotStays
  <2> QED
    BY <1>1, <1>7, <1>8, <1>11, <2>1, <2>2, <2>3, SearchStepKeeps DEF Searching
<1> QED
  BY <1>14, <1>15

(* The search passes a child whose leaves are done.                        *)
LEMMA LeavesDoneKeeps ==
    ASSUME IInv, NEW t \in Threads, LeavesDone(t)
    PROVE  IInv'
<1> DEFINE s == subhier[t]
           b == branch[t]
           n == Behind(children[s], b)
<1>1. /\ pc[t] = "leaves"
      /\ leaf' = [leaf EXCEPT ![t] = 1]
      /\ branch' = [branch EXCEPT ![t] = n]
      /\ pc' = [pc EXCEPT ![t] = "search"]
      /\ UNCHANGED <<children, subs, root_lock, id, is_subscribe, context, arg, subhier,
                     asked, acked, due, got>>
  BY DEF LeavesDone, NextBranch, Goto, treeVars, clientVars, histVars
<1>2. WalkInv(t) /\ b # NULL
  BY <1>1 DEF IInv, WalkInv, Searching
<1>3. /\ b \in Range(children[s]) /\ b \in Names /\ s \in Nodes
      /\ Here(t) = Append(s, b)
  BY <1>1, <1>2, HereFacts DEF Searching
<1>4. n \in Names \cup {NULL} /\ (n # NULL => n \in Range(children[s]))
  BY <1>3, NextFacts
<1>5. /\ subhier \in [Threads -> Nodes] /\ branch \in [Threads -> Names \cup {NULL}]
      /\ pc \in [Threads -> Adding \cup Searching \cup {"idle", "lock", "added", "failed"}]
      /\ leaf \in [Threads -> Nat \ {0}] /\ got \in [Threads -> Seq(Leaves)]
  BY DEF IInv, TypeInv
<1>6. ASSUME NEW l \in Leaves, Behindhand(t, l) PROVE Passed(children, s, n, l.node)
  <2>1. Passed(children, s, b, l.node) \/ AtOrBelow(l.node, Append(s, b))
    BY <1>3, <1>6 DEF Behindhand
  <2>2. l.node \in Seq(Names)
    BY LeafNode
  <2> QED
    BY <1>3, <2>1, <2>2, TreeOf, PassedNext, NextPasses
<1> HIDE DEF n
<1>7. /\ branch'[t] = n /\ leaf'[t] = 1 /\ pc'[t] = "search"
      /\ \A u \in Threads \ {t} : /\ branch'[u] = branch[u] /\ leaf'[u] = leaf[u]
                                  /\ pc'[u] = pc[u]
  BY <1>1, <1>5
<1>8. /\ branch' \in [Threads -> Names \cup {NULL}] /\ leaf' \in [Threads -> Nat \ {0}]
      /\ pc' \in [Threads -> Adding \cup Searching \cup {"idle", "lock", "added", "failed"}]
  BY <1>1, <1>4, <1>5 DEF Searching
<1>9. WalkInv(t)'
  BY <1>1, <1>2, <1>4, <1>7 DEF WalkInv, Searching
<1>10. GotInv(t)'
  <2>1. ASSUME NEW l \in Leaves, Behindhand(t, l) PROVE Behindhand(t, l)'
    BY <1>1, <1>6, <1>7, <2>1 DEF Behindhand
  <2> QED
    BY <1>1, <2>1, GotStays
<1> QED
  BY <1>1, <1>5, <1>7, <1>8, <1>9, <1>10, SearchStepKeeps DEF Searching

(* The leaf is not among those delivered to: those of this node are before *)
(* it in a list without duplicates, and this node does not lie behind the  *)
(* search. Its filter matches.                                             *)
LEMMA DeliverKeeps ==
    ASSUME IInv, NEW t \in Threads, Deliver(t)
    PROVE  IInv'
<1> DEFINE s == subhier[t]
           b == branch[t]
           h == Here(t)
           i == leaf[t]
           c == subs[h][i]
           new == [node |-> h, context |-> c]
           longer == Append(got[t], new)
<1>1. /\ pc[t] = "leaves" /\ i <= Len(subs[h])
      /\ got' = [got EXCEPT ![t] = longer] \/ got' = got
      /\ leaf' = [leaf EXCEPT ![t] = i + 1]
      /\ UNCHANGED <<children, subs, root_lock, id, is_subscribe, pc, context, arg, subhier,
                     branch, asked, acked, due>>
  BY DEF Deliver, treeVars, clientVars
<1>2. WalkInv(t) /\ GotInv(t) /\ b # NULL
  BY <1>1 DEF IInv, WalkInv, Searching
<1>3. b \in Names /\ s \in Nodes /\ h = Append(s, b) /\ h \in Nodes
  BY <1>1, <1>2, HereFacts DEF Searching
<1>4. /\ subhier \in [Threads -> Nodes] /\ branch \in [Threads -> Names \cup {NULL}]
      /\ pc \in [Threads -> Adding \cup Searching \cup {"idle", "lock", "added", "failed"}]
      /\ leaf \in [Threads -> Nat \ {0}] /\ got \in [Threads -> Seq(Leaves)]
      /\ subs[h] \in Seq(Clients) /\ asked \in [Clients -> SUBSET Filters]
  BY <1>3 DEF IInv, TypeInv
<1>5. i \in DOMAIN subs[h] /\ i \in Nat /\ c \in Clients /\ c \in Range(subs[h])
  <2>1. i \in 1..Len(subs[h]) /\ i \in Nat
    BY <1>1, <1>4
  <2>2. DOMAIN subs[h] = 1..Len(subs[h])
    BY <1>4, InRange
  <2> QED
    BY <1>4, <2>1, <2>2, InRange
<1>6. /\ IsInjective(subs[h])
      /\ \E f \in asked[c] : PathOf(f) = h
  BY <1>3, <1>5 DEF IInv, TreeInv
<1>7. \E f \in asked[c] : PathOf(f) = h /\ Match(f, arg[t])
  <2>1. PICK f \in asked[c] : PathOf(f) = h
    BY <1>6
  <2>2. f \in Filters
    BY <1>4, <1>5
  <2>3. Match(f, arg[t])
    BY <1>1, <2>1, <2>2, LeavesMatch
  <2> QED
    BY <2>1, <2>3
<1>8. new \in Leaves /\ new.node = h /\ new.context = c
  BY <1>3, <1>5 DEF Leaves
<1>9. ~Passed(children, s, b, h)
  BY <1>3, TreeOf, NotPassed
<1> HIDE DEF h, i, c, new
<1>10. new \notin Range(got[t])
  <2>1. SUFFICES ASSUME new \in Range(got[t]) PROVE FALSE
    OBVIOUS
  <2>2. Behindhand(t, new)
    BY <1>2, <2>1 DEF GotInv
  <2>3. \E j \in DOMAIN subs[h] : j < i /\ subs[h][j] = c
    BY <1>8, <1>9, <2>2 DEF Behindhand, h, i
  <2>4. PICK j \in DOMAIN subs[h] : j < i /\ subs[h][j] = c
    BY <2>3
  <2>5. j = i
    BY <1>5, <1>6, <2>4 DEF IsInjective, c
  <2> QED
    BY <1>5, <2>4, <2>5
<1>11. /\ longer \in Seq(Leaves) /\ IsInjective(longer)
       /\ Range(longer) = Range(got[t]) \cup {new}
  <2>1. got[t] \in Seq(Leaves) /\ IsInjective(got[t])
    BY <1>2, <1>4 DEF GotInv
  <2> QED
    BY <1>8, <1>10, <2>1, AppendGrows
<1> HIDE DEF longer
<1>12. /\ leaf'[t] = i + 1 /\ got'[t] \in {longer, got[t]}
       /\ \A u \in Threads \ {t} : leaf'[u] = leaf[u] /\ got'[u] = got[u]
       /\ leaf' \in [Threads -> Nat \ {0}] /\ got' \in [Threads -> Seq(Leaves)]
  <2>1. i + 1 \in Nat \ {0}
    BY <1>5
  <2> QED
    BY <1>1, <1>4, <1>11, <2>1
<1>13. WalkInv(t)'
  BY <1>1, <1>2 DEF WalkInv
<1>14. GotInv(t)'
  <2>1. Here(t)' = h
    BY <1>1 DEF Here, h
  <2>2. ASSUME NEW l, Behindhand(t, l) PROVE Behindhand(t, l)'
    <3>1. CASE Passed(children, s, b, l.node)
      BY <1>1, <3>1 DEF Behindhand
    <3>2. CASE ~Passed(children, s, b, l.node)
      <4>1. /\ AtOrBelow(l.node, h)
            /\ l.node = h => \E j \in DOMAIN subs[h] : j < i /\ subs[h][j] = l.context
        BY <2>2, <3>2 DEF Behindhand, h, i
      <4>2. \A j \in DOMAIN subs[h] : j < i => j < i + 1
        BY <1>4, <1>5, InRange
      <4>3. l.node = h => \E j \in DOMAIN subs[h] : j < i + 1 /\ subs[h][j] = l.context
        BY <4>1, <4>2
      <4> QED
        BY <1>1, <1>12, <2>1, <4>1, <4>3 DEF Behindhand
    <3> QED
      BY <3>1, <3>2
  <2>3. ASSUME NEW l, l = new PROVE Behindhand(t, l)'
    <3>1. AtOrBelow(h, h)
      <4>1. h \in Seq(Names) /\ Len(h) \in Nat
        BY <1>3, NodeFacts
      <4> QED
        BY <4>1, PreEnds DEF AtOrBelow
    <3>2. i < i + 1 /\ subs[h][i] = c
      BY <1>5 DEF c
    <3>3. \E j \in DOMAIN subs[h] : j < i + 1 /\ subs[h][j] = c
      BY <1>5, <3>2
    <3> QED
      BY <1>1, <1>8, <1>12, <2>1, <2>3, <3>1, <3>3 DEF Behindhand
  <2>4. ASSUME NEW l \in Range(got'[t])
        PROVE  /\ \E f \in asked[l.context] : PathOf(f) = l.node /\ Match(f, arg[t])
               /\ Behindhand(t, l)'
    <3>1. CASE l \in Range(got[t])
      BY <1>2, <2>2, <3>1 DEF GotInv
    <3>2. CASE l = new
      BY <1>7, <1>8, <2>3, <3>2
    <3> QED
      BY <1>11, <1>12, <2>4, <3>1, <3>2
  <2>5. IsInjective(got'[t])
    BY <1>2, <1>11, <1>12 DEF GotInv
  <2> QED
    BY <1>1, <2>4, <2>5 DEF GotInv
<1> QED
  BY <1>1, <1>4, <1>12, <1>13, <1>14, SearchStepKeeps DEF Searching
-----------------------------------------------------------------------------
(* The theorems. *)

(* The broker starts with the child of the root that topics without '$'    *)
(* hang on (init_database).                                                *)
LEMMA InitHolds == Init => IInv
<1> SUFFICES ASSUME Init PROVE IInv
  OBVIOUS
<1>1. Root \in Nodes /\ Root = <<>> /\ Empty \in Names
  BY RootLinked DEF Root, Names
<1>2. <<Empty>> \in Nodes /\ Append(Root, Empty) = <<Empty>>
  BY DEF Nodes, Root
<1>3. <<Empty>> \in Seq(Names) /\ IsInjective(<<Empty>>) /\ Range(<<Empty>>) = {Empty}
  BY <1>1 DEF IsInjective, Range
<1>4. <<>> \in Seq(Names) /\ IsInjective(<<>>) /\ Range(<<>>) = {}
  BY DEF IsInjective, Range
<1>5. Flags
  BY Zenon DEF Init, Flags
<1>6. /\ children = [p \in Nodes |-> IF p = Root THEN <<Empty>> ELSE <<>>]
      /\ subs = [p \in Nodes |-> <<>>]
      /\ root_lock = NULL
      /\ id = [c \in Clients |-> NULL]
      /\ pc = [t \in Threads |-> "idle"]
      /\ context = [t \in Threads |-> NULL]
      /\ arg = [t \in Threads |-> <<>>]
      /\ subhier = [t \in Threads |-> Root]
      /\ branch = [t \in Threads |-> NULL]
      /\ leaf = [t \in Threads |-> 1]
      /\ asked = [c \in Clients |-> {}]
      /\ acked = [c \in Clients |-> {}]
      /\ due = [t \in Threads |-> {}]
      /\ got = [t \in Threads |-> <<>>]
  BY DEF Init
<1>7. children \in [Nodes -> Seq(Names)]
  BY <1>3, <1>4, <1>6
<1>8. TypeInv
  BY <1>1, <1>6, <1>7 DEF TypeInv
<1>9. LockInv
  BY <1>6 DEF LockInv, Adding
<1>10. TreeInv
  <2>1. ASSUME NEW p \in Nodes
        PROVE  IsInjective(children[p]) /\ \A b \in Range(children[p]) : Append(p, b) \in Nodes
    <3>1. CASE p = Root
      <4>1. children[p] = <<Empty>>
        BY <1>6, <3>1
      <4> QED
        BY <1>2, <1>3, <3>1, <4>1
    <3>2. CASE p # Root
      <4>1. children[p] = <<>>
        BY <1>6, <3>2
      <4> QED
        BY <1>4, <4>1
    <3> QED
      BY <3>1, <3>2
  <2>2. ASSUME NEW p \in Nodes
        PROVE  subs[p] = <<>> /\ IsInjective(subs[p]) /\ Range(subs[p]) = {}
    <3>1. subs[p] = <<>>
      BY <1>6
    <3> QED
      BY <1>4, <3>1
  <2> QED
    BY <2>1, <2>2 DEF TreeInv
<1>11. ASSUME NEW t \in Threads
       PROVE  LocalInv(t) /\ AddInv(t) /\ WalkInv(t) /\ GotInv(t)
  <2>1. /\ pc[t] = "idle" /\ subhier[t] = Root /\ branch[t] = NULL /\ leaf[t] = 1
        /\ due[t] = {} /\ got[t] = <<>>
    BY <1>6
  <2> QED
    BY <1>4, <2>1 DEF LocalInv, AddInv, WalkInv, GotInv, Adding, Searching
<1> QED
  BY <1>5, <1>8, <1>9, <1>10, <1>11 DEF IInv

(* A step of another component.                                            *)
LEMMA StutterKeeps == ASSUME IInv, UNCHANGED vars PROVE IInv'
<1>1. UNCHANGED <<children, subs, root_lock, id, is_subscribe, pc, context, arg, subhier,
                  branch, leaf, asked, acked, due, got>>
  BY DEF vars, treeVars, clientVars, thrVars, histVars
<1>2. Flags'
  BY <1>1 DEF IInv, Flags
<1>3. TypeInv'
  BY <1>1 DEF IInv, TypeInv
<1>4. LockInv'
  BY <1>1 DEF IInv, LockInv
<1>5. TreeInv' /\ Grows
  BY <1>1, TreeStays
<1>6. ASSUME NEW u \in Threads PROVE ThreadInv(u)'
  <2>1. Keeps(u)
    BY <1>1 DEF Keeps
  <2> QED
    BY <1>1, <1>5, <2>1, OtherThread
<1> QED
  BY <1>2, <1>3, <1>4, <1>5, <1>6 DEF IInv, ThreadInv

(* Every step keeps the invariant.                                         *)
LEMMA NextKeeps == IInv /\ [Next]_vars => IInv'
<1> SUFFICES ASSUME IInv, [Next]_vars PROVE IInv'
  OBVIOUS
<1>1. ASSUME NEW c \in Clients, NEW i \in IdsOf[c], Connect(c, i) PROVE IInv'
  BY <1>1, ConnectKeeps
<1>2. ASSUME NEW c \in Clients, Disconnect(c) PROVE IInv'
  BY <1>2, DisconnectKeeps
<1>3. ASSUME NEW c \in Clients, NEW f \in FiltersOf[c], Subscribe(c, f) PROVE IInv'
  BY <1>3, SubscribeKeeps
<1>4. ASSUME NEW t \in Threads, Lock(t) PROVE IInv'
  BY <1>4, LockKeeps
<1>5. ASSUME NEW t \in Threads, AddStep(t) PROVE IInv'
  BY <1>5, FindRootKeeps, AddRootKeeps, AddRootFailsKeeps, FindBranchKeeps, AddBranchKeeps,
     FindLeafKeeps, AddLeafKeeps, AddFailsKeeps, UnlockKeeps, AcknowledgeKeeps, RejectKeeps
     DEF AddStep
<1>6. ASSUME NEW t \in Threads, NEW topic \in Topics, Search(t, topic) PROVE IInv'
  BY <1>6, SearchKeeps
<1>7. ASSUME NEW t \in Threads, SearchStep(t) PROVE IInv'
  BY <1>7, DescendKeeps, ProcessHashKeeps, SkipKeeps, AscendKeeps, DeliverKeeps,
     LeavesDoneKeeps, SearchDoneKeeps, SearchReturnKeeps DEF SearchStep
<1>8. CASE UNCHANGED vars
  BY <1>8, StutterKeeps
<1>9. ASSUME NEW t \in Threads, NEW topic \in Topics, SearchFails(t, topic) PROVE IInv'
  BY <1>8, <1>9 DEF SearchFails
<1> QED
  BY <1>1, <1>2, <1>3, <1>4, <1>5, <1>6, <1>7, <1>8, <1>9 DEF Next

(* The inductive invariant holds in every state, for any threads, slots,   *)
(* filters and topics, with and without malloc failing.                    *)
THEOREM Invariant == Spec => []IInv
  BY InitHolds, NextKeeps, PTL DEF Spec

(* Every variable always has its type: in particular _sub_add and          *)
(* _sub_search are always at a node that some filter leads to.             *)
THEOREM TypeCorrect == Spec => []TypeOK
<1>1. IInv => TypeOK
  <2>1. SUFFICES ASSUME IInv PROVE TypeOK
    OBVIOUS
  <2>2. id \in [Clients -> (UNION Range(IdsOf)) \cup {NULL}]
    <3>1. id \in [Clients -> Ids \cup {NULL}]
      BY <2>1 DEF IInv, TypeInv
    <3> QED
      BY <3>1, Zenon DEF Ids
  <2>3. is_subscribe \in [Clients -> BOOLEAN]
    BY <2>1 DEF IInv, Flags
  <2>4. Names \cup {NULL} = Levels \cup {Empty, NULL}
    BY DEF Names
  <2> QED
    BY <2>1, <2>2, <2>3, <2>4 DEF IInv, TypeInv, TypeOK, Names, Adding, Searching
<1> QED
  BY <1>1, Invariant, PTL

(* No two siblings have the same topic and no slot has two leaves on a     *)
(* node, however many threads handle SUBSCRIBE packets and however often   *)
(* clients come back (mqtt3_sub_add, _sub_add).                            *)
THEOREM SiblingsDistinct == Spec => []NoDuplicates
<1>1. IInv => NoDuplicates
  BY DEF IInv, TreeInv, NoDuplicates
<1> QED
  BY <1>1, Invariant, PTL

(* A message is delivered only to slots that sent a matching filter, and   *)
(* once for each of their nodes, although _sub_search walks through lists  *)
(* to which other threads add nodes and leaves at the same time.           *)
THEOREM DeliversOnlyMatching == Spec => []OnlyMatching
<1>1. IInv => OnlyMatching
  BY DEF IInv, GotInv, OnlyMatching
<1> QED
  BY <1>1, Invariant, PTL
=============================================================================
