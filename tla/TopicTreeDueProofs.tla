------------------------ MODULE TopicTreeDueProofs -------------------------
(* Proof that a search of the subscription tree misses no subscription     *)
(* that was acknowledged before it began: NoneMissed.                      *)
(*                                                                         *)
(* The argument. A leaf that is due lies ahead of the search or has been   *)
(* delivered to. Other threads add nodes and leaves at the ends of lists   *)
(* and take none away, so what lies ahead stays ahead (AheadGrows). The    *)
(* search itself passes a child only if its subtree holds nothing that is  *)
(* due (NotSkipped, LeftWithLast, HashIsLast): this is where filters have  *)
(* to be well formed. At its end nothing lies ahead (NothingAhead).        *)
EXTENDS TopicTreeProofs
-----------------------------------------------------------------------------
(* q lies ahead: a search that looks at the child b of p has q on          *)
(* its way back from p, or a loop will get to the child on the way to q.   *)
Ahead(ch, p, b, q) ==
    \/ \E k \in 1..Len(p) : q = Pre(p, k)
    \/ \E k \in 0..Len(p) :
          /\ k < Len(q)
          /\ Pre(q, k) = Pre(p, k)
          /\ Earlier(ch[Pre(p, k)], At(p, b, k), q[k + 1])

(* What NoneMissed needs of the clients and of the packets: filters have   *)
(* '#' in the last place only and topics have none, which sub_topic_valid  *)
(* and pub_topic_valid look for although the handler goes on whatever they *)
(* find, and no two slots ever have the same identifier, as add_client     *)
(* does not refuse one that is in use.                                     *)
WellFormed ==
    /\ \A f \in Filters : \A i \in 1..(Len(f) - 1) : f[i] # "#"
    /\ \A topic \in Topics : \A i \in 1..Len(topic) : topic[i] # "#"
    /\ \A c, d \in Clients : c # d => IdsOf[c] \cap IdsOf[d] = {}

(* An acknowledged filter has its leaf, and the slot its flag. *)
AckInv ==
    /\ \A c \in Clients : \A f \in acked[c] :
          is_subscribe[c] /\ c \in Range(subs[PathOf(f)])
    /\ \A t \in Threads : pc[t] \in {"unlock", "added"} =>
          context[t] \in Range(subs[subhier[t]])

(* A leaf that a search has to deliver to lies ahead. *)
Coming(t, l) ==
    \/ Ahead(children, subhier[t], branch[t], l.node)
    \/ pc[t] = "search" /\ branch[t] # NULL /\ AtOrBelow(l.node, Here(t))
    \/ /\ pc[t] = "leaves"
       /\ l.node = Here(t)
       /\ \E i \in DOMAIN subs[Here(t)] : i >= leaf[t] /\ subs[Here(t)][i] = l.context

(* Whatever is due can still be delivered to: its flag is set, its leaf is *)
(* in the tree, its filter matches, and it was delivered to or lies ahead. *)
DueInv(t) ==
    \A l \in due[t] :
        /\ is_subscribe[l.context]
        /\ l.context \in Range(subs[l.node])
        /\ \E f \in Filters : PathOf(f) = l.node /\ Match(f, arg[t])
        /\ l \in Range(got[t]) \/ Coming(t, l)

(* What NoneMissed needs beyond IInv.                                      *)
MissInv == AckInv /\ \A t \in Threads : DueInv(t)
-----------------------------------------------------------------------------
(* A leaf that is due lies ahead of the search. *)

(* What lies ahead of a search stays ahead when nodes are added. *)
LEMMA AheadGrows ==
    ASSUME NEW ch, NEW new, TreeGrown(ch, new), NEW p \in Nodes, NEW b, NEW q,
           Ahead(ch, p, b, q)
    PROVE  Ahead(new, p, b, q)
<1>1. CASE \E k \in 1..Len(p) : q = Pre(p, k)
  BY <1>1 DEF Ahead
<1>2. CASE ~ \E k \in 1..Len(p) : q = Pre(p, k)
  <2>1. PICK k \in 0..Len(p) :
          /\ k < Len(q)
          /\ Pre(q, k) = Pre(p, k)
          /\ Earlier(ch[Pre(p, k)], At(p, b, k), q[k + 1])
    BY <1>2 DEF Ahead
  <2>2. Grown(ch[Pre(p, k)], new[Pre(p, k)])
    BY NodeFacts DEF TreeGrown
  <2>3. Earlier(new[Pre(p, k)], At(p, b, k), q[k + 1])
    BY <2>1, <2>2 DEF Grown
  <2> QED
    BY <2>1, <2>3 DEF Ahead
<1> QED
  BY <1>1, <1>2

(* The children of a node lie ahead when the loop over them starts. *)
LEMMA AheadFirst ==
    ASSUME NEW ch, Tree(ch), NEW p \in Nodes, NEW q \in Seq(Names), Linked(ch, q),
           AtOrBelow(q, p), q # p
    PROVE  LET b == First(ch[p]) IN
           b # NULL /\ (Ahead(ch, p, b, q) \/ AtOrBelow(q, Append(p, b)))
<1> DEFINE b == First(ch[p])
           n == Len(p)
           m == n + 1
<1>1. /\ p \in Seq(Names) /\ n \in Nat /\ Pre(p, n) = p
      /\ ch[p] \in Seq(Names) /\ IsInjective(ch[p])
  BY NodeFacts, PreEnds DEF Tree
<1>2. Len(q) \in Nat /\ Len(q) >= n /\ Pre(q, n) = p /\ Pre(q, Len(q)) = q
  BY LenProperties, PreEnds DEF AtOrBelow
<1>3. Len(q) # n
  BY <1>2
<1>4. n \in 0..(Len(q) - 1) /\ m \in 0..Len(q) /\ n < Len(q) /\ Len(q) >= m
  BY <1>1, <1>2, <1>3
<1>5. q[m] \in Range(ch[p])
  BY <1>2, <1>4 DEF Linked
<1>6. b # NULL /\ (q[m] = b \/ Earlier(ch[p], b, q[m]))
  BY <1>1, <1>5, FirstFacts
<1>7. Pre(q, m) = Append(p, q[m])
  <2>1. Pre(q, n + 1) = Append(Pre(q, n), q[n + 1])
    BY <1>4, PreStep
  <2> QED
    BY <1>2, <2>1
<1>8. q[m] \in Names
  BY <1>1, <1>5, InRange
<1>9. Len(Append(p, q[m])) = m
  BY <1>1, <1>8, PreAppend
<1> HIDE DEF b
<1>10. At(p, b, n) = b /\ n \in 0..Len(p)
  BY <1>1 DEF At
<1>11. CASE q[m] = b
  <2>1. AtOrBelow(q, Append(p, b))
    BY <1>4, <1>7, <1>9, <1>11 DEF AtOrBelow
  <2> QED
    BY <1>6, <2>1 DEF b
<1>12. CASE Earlier(ch[p], b, q[m])
  <2>1. Ahead(ch, p, b, q)
    BY <1>1, <1>2, <1>4, <1>10, <1>12 DEF Ahead
  <2> QED
    BY <1>6, <2>1 DEF b
<1> QED
  BY <1>6, <1>11, <1>12

(* What lies ahead stays ahead when the search goes down, and so does the  *)
(* node it goes to;                                                        *)
LEMMA AheadDown ==
    ASSUME NEW ch, NEW p \in Seq(Names), NEW b \in Names, NEW c, NEW q,
           Ahead(ch, p, b, q) \/ q = Append(p, b)
    PROVE  Ahead(ch, Append(p, b), c, q)
<1> DEFINE r == Append(p, b)
<1>1. /\ Len(p) \in Nat /\ Len(r) = Len(p) + 1 /\ r \in Seq(Names)
      /\ \A k \in 0..Len(p) : Pre(r, k) = Pre(p, k)
      /\ \A k \in 1..Len(p) : r[k] = p[k]
      /\ r[Len(p) + 1] = b
  BY PreAppend, LenProperties
<1>2. Pre(r, Len(r)) = r
  BY <1>1, PreEnds
<1>3. Ahead(ch, p, b, q) \/ q = r
  OBVIOUS
<1> HIDE DEF r
<1>4. CASE q = r
  <2>1. Len(r) \in 1..Len(r) /\ q = Pre(r, Len(r))
    BY <1>1, <1>2, <1>4
  <2>2. Ahead(ch, r, c, q)
    BY <2>1 DEF Ahead
  <2> QED
    BY <2>2 DEF r
<1>5. CASE \E k \in 1..Len(p) : q = Pre(p, k)
  <2>1. PICK k \in 1..Len(p) : q = Pre(p, k)
    BY <1>5
  <2>2. k \in 1..Len(r) /\ q = Pre(r, k)
    BY <1>1, <2>1
  <2>3. Ahead(ch, r, c, q)
    BY <2>2 DEF Ahead
  <2> QED
    BY <2>3 DEF r
<1>6. CASE q # r /\ ~ \E k \in 1..Len(p) : q = Pre(p, k)
  <2>1. PICK k \in 0..Len(p) :
          /\ k < Len(q)
          /\ Pre(q, k) = Pre(p, k)
          /\ Earlier(ch[Pre(p, k)], At(p, b, k), q[k + 1])
    BY <1>3, <1>6 DEF Ahead
  <2>2. k \in 0..Len(r) /\ Pre(r, k) = Pre(p, k)
    BY <1>1
  <2>3. At(r, c, k) = At(p, b, k)
    <3>1. CASE k < Len(p)
      BY <1>1, <3>1 DEF At
    <3>2. CASE k = Len(p)
      BY <1>1, <3>2 DEF At
    <3> QED
      BY <1>1, <3>1, <3>2
  <2>4. Ahead(ch, r, c, q)
    BY <2>1, <2>2, <2>3 DEF Ahead
  <2> QED
    BY <2>4 DEF r
<1> QED
  BY <1>4, <1>5, <1>6

(* when it goes to the next child that child's subtree is reached;         *)
LEMMA AheadNext ==
    ASSUME NEW ch, Tree(ch), NEW p \in Nodes, NEW b \in Range(ch[p]), NEW q \in Seq(Names),
           Ahead(ch, p, b, q)
    PROVE  LET n == Behind(ch[p], b) IN
           Ahead(ch, p, n, q) \/ (n # NULL /\ AtOrBelow(q, Append(p, n)))
<1> DEFINE n == Behind(ch[p], b)
<1>1. /\ p \in Seq(Names) /\ Len(p) \in Nat /\ Pre(p, Len(p)) = p /\ Len(q) \in Nat
      /\ ch[p] \in Seq(Names) /\ IsInjective(ch[p]) /\ b \in Names
  BY NodeFacts, PreEnds, RangeOfSeq, LenProperties DEF Tree
<1>2. /\ \A a : Earlier(ch[p], b, a) => n # NULL /\ (a = n \/ Earlier(ch[p], n, a))
      /\ n \in Range(ch[p]) \cup {NULL}
  BY <1>1, BehindFacts
<1>3. n # NULL => n \in Names
  BY <1>1, <1>2, InRange
<1> HIDE DEF n
<1>4. CASE \E k \in 1..Len(p) : q = Pre(p, k)
  BY <1>4 DEF Ahead
<1>5. CASE ~ \E k \in 1..Len(p) : q = Pre(p, k)
  <2>1. PICK k \in 0..Len(p) :
          /\ k < Len(q)
          /\ Pre(q, k) = Pre(p, k)
          /\ Earlier(ch[Pre(p, k)], At(p, b, k), q[k + 1])
    BY <1>5 DEF Ahead
  <2>2. CASE k < Len(p)
    <3>1. At(p, n, k) = At(p, b, k)
      BY <2>2 DEF At
    <3>2. Ahead(ch, p, n, q)
      BY <2>1, <3>1 DEF Ahead
    <3> QED
      BY <3>2 DEF n
  <2>3. CASE ~(k < Len(p))
    <3>1. At(p, n, k) = n /\ At(p, b, k) = b /\ k = Len(p) /\ Pre(p, k) = p
      BY <1>1, <2>3 DEF At
    <3>2. n # NULL /\ (q[k + 1] = n \/ Earlier(ch[p], n, q[k + 1]))
      BY <1>2, <2>1, <3>1
    <3>3. CASE Earlier(ch[p], n, q[k + 1])
      <4>1. Ahead(ch, p, n, q)
        BY <2>1, <3>1, <3>3 DEF Ahead
      <4> QED
        BY <4>1 DEF n
    <3>4. CASE q[k + 1] = n
      <4>1. k \in 0..(Len(q) - 1)
        BY <1>1, <2>1
      <4>2. Pre(q, k + 1) = Append(p, n)
        BY <2>1, <3>1, <3>4, <4>1, PreStep
      <4>3. Len(Append(p, n)) = k + 1 /\ Len(q) >= k + 1
        BY <1>1, <1>3, <3>1, <3>2, <4>1, PreAppend
      <4>4. AtOrBelow(q, Append(p, n))
        BY <4>2, <4>3 DEF AtOrBelow
      <4> QED
        BY <3>2, <4>4 DEF n
    <3> QED
      BY <3>2, <3>3, <3>4
  <2> QED
    BY <2>2, <2>3
<1> QED
  BY <1>4, <1>5

(* and when it goes back up the node it comes from is next.                *)
LEMMA AheadUp ==
    ASSUME NEW ch, Tree(ch), NEW p \in Nodes, p # Root, NEW q \in Seq(Names),
           Ahead(ch, p, NULL, q)
    PROVE  Ahead(ch, Front(p), Last(p), q) \/ q = p
<1> DEFINE r == Front(p)
           b == Last(p)
<1>1. /\ p \in Seq(Names) /\ Len(p) \in Nat /\ Len(p) >= 1 /\ Len(r) = Len(p) - 1
      /\ b = p[Len(p)]
      /\ \A k \in 0..(Len(p) - 1) : Pre(r, k) = Pre(p, k)
      /\ \A k \in 1..(Len(p) - 1) : r[k] = p[k]
  BY NodeFacts, FrontLast DEF Root
<1>2. Pre(p, Len(p)) = p /\ ch[p] \in Seq(Names)
  BY <1>1, PreEnds DEF Tree
<1> HIDE DEF r, b
<1>3. CASE \E k \in 1..Len(p) : q = Pre(p, k)
  <2>1. PICK k \in 1..Len(p) : q = Pre(p, k)
    BY <1>3
  <2>2. CASE k = Len(p)
    BY <1>2, <2>1, <2>2
  <2>3. CASE k # Len(p)
    <3>1. k \in 1..Len(r) /\ k \in 0..(Len(p) - 1)
      BY <1>1, <2>3
    <3>2. Ahead(ch, r, b, q)
      BY <1>1, <2>1, <3>1 DEF Ahead
    <3> QED
      BY <3>2 DEF r, b
  <2> QED
    BY <2>2, <2>3
<1>4. CASE ~ \E k \in 1..Len(p) : q = Pre(p, k)
  <2>1. PICK k \in 0..Len(p) :
          /\ k < Len(q)
          /\ Pre(q, k) = Pre(p, k)
          /\ Earlier(ch[Pre(p, k)], At(p, NULL, k), q[k + 1])
    BY <1>4 DEF Ahead
  <2>2. k # Len(p)
    <3>1. SUFFICES ASSUME k = Len(p) PROVE FALSE
      OBVIOUS
    <3>2. Earlier(ch[p], NULL, q[k + 1])
      BY <1>1, <1>2, <2>1, <3>1 DEF At
    <3>3. NULL \in Range(ch[p])
      BY <1>2, <3>2, InRange DEF Earlier
    <3> QED
      BY <1>2, <3>3, InRange, NullFacts
  <2>3. k < Len(p) /\ k \in 0..(Len(p) - 1) /\ k \in 0..Len(r)
    BY <1>1, <2>2
  <2>4. At(r, b, k) = At(p, NULL, k)
    <3>1. CASE k < Len(r)
      <4>1. k + 1 \in 1..(Len(p) - 1)
        BY <1>1, <2>3, <3>1
      <4>2. r[k + 1] = p[k + 1]
        BY <1>1, <4>1
      <4> QED
        BY <4>2, <2>3, <3>1 DEF At
    <3>2. CASE ~(k < Len(r))
      <4>1. k + 1 = Len(p)
        BY <1>1, <2>3, <3>2
      <4> QED
        BY <4>1, <1>1, <2>3, <3>2 DEF At
    <3> QED
      BY <3>1, <3>2
  <2>5. Ahead(ch, r, b, q)
    BY <1>1, <2>1, <2>3, <2>4 DEF Ahead
  <2> QED
    BY <2>5 DEF r, b
<1> QED
  BY <1>3, <1>4

(* At the end of the search nothing lies ahead. *)
LEMMA NothingAhead ==
    ASSUME NEW ch, Tree(ch), NEW q
    PROVE  ~Ahead(ch, Root, NULL, q)
<1> SUFFICES ASSUME Ahead(ch, Root, NULL, q) PROVE FALSE
  OBVIOUS
<1>1. Root \in Nodes /\ Len(Root) = 0 /\ ch[Root] \in Seq(Names)
  BY RootLinked DEF Tree
<1>2. PICK k \in 0..Len(Root) :
        /\ k < Len(q)
        /\ Pre(q, k) = Pre(Root, k)
        /\ Earlier(ch[Pre(Root, k)], At(Root, NULL, k), q[k + 1])
  BY <1>1 DEF Ahead
<1>3. Pre(Root, k) = Root /\ At(Root, NULL, k) = NULL
  <2>1. k = 0 /\ Root \in Seq(Names) /\ Root = <<>>
    BY <1>1 DEF Root
  <2>2. Pre(Root, 0) = <<>>
    BY <2>1, PreEnds
  <2> QED
    BY <1>1, <2>1, <2>2 DEF At
<1>4. NULL \in Range(ch[Root])
  BY <1>1, <1>2, <1>3, InRange DEF Earlier
<1> QED
  BY <1>1, <1>4, InRange, NullFacts

(* No token of a topic is '#', and none of a filter but the last.          *)
LEMMA HashTokens ==
    ASSUME WellFormed
    PROVE  /\ \A topic \in Topics : \A i \in 1..Len(Tokenise(topic)) : Tokenise(topic)[i] # "#"
           /\ \A f \in Filters : \A i \in 1..(Len(Tokenise(f)) - 1) : Tokenise(f)[i] # "#"
<1>0. Empty # "#"
  BY DEF Empty
<1>1. ASSUME NEW l \in Filters \cup Topics, NEW i \in 1..Len(Tokenise(l))
      PROVE  \/ \E j \in 1..Len(l) : /\ Tokenise(l)[i] = l[j]
                                     /\ j = Len(l) => i = Len(Tokenise(l))
             \/ Tokenise(l)[i] = Empty
  <2> DEFINE L == Tokenise(l)
  <2>1. /\ l[1] \in Dollar => L = l
        /\ l[1] \notin Dollar => /\ Len(L) = Len(l) + 1 /\ L[1] = Empty
                                 /\ \A j \in 1..Len(l) : L[j + 1] = l[j]
        /\ Len(l) \in Nat
    BY TokenFacts, LevelFacts
  <2>2. CASE l[1] \in Dollar
    <3>1. L = l
      BY <2>1, <2>2
    <3> QED
      BY <3>1
  <2>3. CASE l[1] \notin Dollar /\ i = 1
    BY <2>1, <2>3
  <2>4. CASE l[1] \notin Dollar /\ i # 1
    <3> DEFINE j == i - 1
    <3>1. j \in 1..Len(l) /\ i = j + 1 /\ (j = Len(l) => i = Len(L))
      BY <2>1, <2>4
    <3>2. L[i] = l[j]
      BY <2>1, <2>4, <3>1
    <3> QED
      BY <3>1, <3>2
  <2> QED
    BY <2>2, <2>3, <2>4
<1>2. ASSUME NEW topic \in Topics, NEW i \in 1..Len(Tokenise(topic))
      PROVE  Tokenise(topic)[i] # "#"
  <2>1. \/ \E j \in 1..Len(topic) : Tokenise(topic)[i] = topic[j]
        \/ Tokenise(topic)[i] = Empty
    BY <1>1
  <2> QED
    BY <1>0, <2>1 DEF WellFormed
<1>3. ASSUME NEW f \in Filters, NEW i \in 1..(Len(Tokenise(f)) - 1)
      PROVE  Tokenise(f)[i] # "#"
  <2>1. Len(Tokenise(f)) \in Nat /\ Len(f) \in Nat
    BY TokenFacts, LevelFacts
  <2>2. i \in 1..Len(Tokenise(f)) /\ i # Len(Tokenise(f))
    BY <2>1
  <2>3. \/ \E j \in 1..Len(f) : Tokenise(f)[i] = f[j] /\ j # Len(f)
        \/ Tokenise(f)[i] = Empty
    BY <1>1, <2>2
  <2>4. \A j \in 1..Len(f) : j # Len(f) => j \in 1..(Len(f) - 1)
    BY <2>1
  <2> QED
    BY <1>0, <2>3, <2>4 DEF WellFormed
<1> QED
  BY <1>2, <1>3

(* A '#' has no children. *)
LEMMA HashIsLast ==
    ASSUME WellFormed, IInv, NEW p \in Nodes, p # Root, Append(p, "#") \in Nodes
    PROVE  children[Append(p, "#")] = <<>>
<1> DEFINE h == Append(p, "#")
           n == Len(p)
<1>1. p \in Seq(Names) /\ n \in Nat /\ n >= 1
  BY NodeFacts, EmptySeq DEF Root
<1>2. h \in Seq(Names) /\ Len(h) \in Nat
  BY NodeFacts
<1>3. Len(h) = n + 1 /\ h[n + 1] = "#"
  BY <1>1, <1>2, AppendProperties
<1> HIDE DEF h
<1>4. SUFFICES ASSUME children[h] # <<>> PROVE FALSE
  BY DEF h
<1>5. h \in Nodes /\ children[h] \in Seq(Names)
  BY DEF IInv, TypeInv, h
<1>6. PICK x \in Range(children[h]) : Append(h, x) \in Nodes /\ x \in Names
  <2>1. 1 \in DOMAIN children[h]
    BY <1>4, <1>5
  <2>2. children[h][1] \in Range(children[h]) /\ children[h][1] \in Names
    BY <1>5, <2>1, InRange
  <2> QED
    BY <1>5, <2>2, TreeOf DEF Tree
<1> DEFINE r == Append(h, x)
<1>7. r \in Seq(Names) /\ Len(r) = n + 2 /\ r[n + 1] = "#"
  BY <1>1, <1>2, <1>3, <1>6, PreAppend
<1> HIDE DEF r
<1>8. PICK f \in Filters : \E k \in 1..Len(PathOf(f)) : r = SubSeq(PathOf(f), 1, k)
  <2>1. r # Root /\ r # <<Empty>>
    BY <1>1, <1>7 DEF Root
  <2> QED
    BY <1>6, <2>1 DEF Nodes, r
<1>8a. PICK k \in 1..Len(PathOf(f)) : r = SubSeq(PathOf(f), 1, k)
  BY <1>8
<1> DEFINE q == PathOf(f)
           F == Tokenise(f)
<1>9. /\ q \in Seq(Names) /\ Len(q) = Len(F) + 1 /\ Len(F) \in Nat
      /\ \A i \in 1..Len(F) : q[i + 1] = F[i]
  BY PathFacts, TokenFacts
<1>10. Len(Pre(q, k)) = k /\ \A i \in 1..k : Pre(q, k)[i] = q[i]
  <2>1. k \in 0..Len(q)
    BY <1>9
  <2> QED
    BY <1>9, <2>1, PreFacts
<1>11. r = Pre(q, k)
  BY <1>8a DEF Pre
<1>12. \A i \in 1..(Len(F) - 1) : F[i] # "#"
  BY HashTokens
<1> HIDE DEF q, F
<1>13. k = n + 2 /\ n + 1 \in 1..k /\ n \in 1..(Len(F) - 1) /\ n \in 1..Len(F)
  BY <1>1, <1>7, <1>9, <1>10, <1>11 DEF q
<1>14. q[n + 1] = "#"
  BY <1>7, <1>10, <1>11, <1>13
<1>15. F[n] = "#"
  BY <1>9, <1>13, <1>14
<1> QED
  BY <1>12, <1>13, <1>15

(* The child on the way to a leaf that is due is not skipped. *)
LEMMA NotSkipped ==
    ASSUME WellFormed, IInv, NEW t \in Threads, pc[t] = "search", branch[t] # NULL,
           NEW f \in Filters, Match(f, arg[t]), AtOrBelow(PathOf(f), Here(t))
    PROVE  TokenMatches(t) \/ HashMatches(t)
<1> DEFINE q == PathOf(f)
           F == Tokenise(f)
           T == Tokenise(arg[t])
           s == subhier[t]
           b == branch[t]
           h == Here(t)
           n == Len(s)
<1>1. WalkInv(t) /\ arg[t] \in Topics
  BY DEF IInv, WalkInv, Searching
<1>2. TokensMatch(F, T) /\ Head(T) = T[1]
  BY <1>1, MatchTokens, TokenFacts
<1>3. /\ q \in Seq(Names) /\ Len(q) = Len(F) + 1 /\ Len(F) \in Nat /\ q[1] = F[1]
      /\ \A i \in 1..Len(F) : q[i + 1] = F[i]
  BY PathFacts, TokenFacts
<1>4. b \in Names /\ s \in Nodes /\ h = Append(s, b) /\ h \in Nodes
  BY HereFacts DEF Searching
<1>5. s \in Seq(Names) /\ n \in Nat /\ (s = Root <=> n = 0)
  BY <1>4, NodeFacts, EmptySeq DEF Root
<1>6. Len(h) = n + 1 /\ h[n + 1] = b
  BY <1>4, <1>5, PreAppend
<1>7. Len(q) >= Len(h) /\ Pre(q, Len(h)) = h
  BY DEF AtOrBelow
<1>8. q[n + 1] = b
  <2>1. Len(h) \in 0..Len(q) /\ n + 1 \in 1..Len(h)
    BY <1>3, <1>5, <1>6, <1>7
  <2>2. \A i \in 1..Len(h) : Pre(q, Len(h))[i] = q[i]
    BY <1>3, <2>1, PreFacts
  <2> QED
    BY <1>6, <1>7, <2>1, <2>2
<1>9. /\ TokenMatches(t) <=> IF s = Root THEN b = Head(T)
                             ELSE n <= Len(T) /\ b \in {T[n], "+"}
      /\ HashMatches(t) <=> s # Root /\ b = "#" /\ children[h] = <<>>
  BY DEF TokenMatches, HashMatches, HasToken, Token
<1>10. s # Root /\ b = "#" => children[h] = <<>>
  BY <1>4, HashIsLast
<1> HIDE DEF q, F, T, s, b, h, n
<1>11. CASE s = Root
  BY <1>2, <1>3, <1>5, <1>8, <1>9, <1>11 DEF TokensMatch
<1>12. CASE s # Root
  <2>1. n \in 1..Len(F) /\ n >= 1
    BY <1>3, <1>5, <1>6, <1>7, <1>12
  <2>2. F[n] = b
    BY <1>3, <1>8, <2>1
  <2>3. CASE n = Len(F)
    <3>1. b = "#" \/ (n = Len(T) /\ b \in {T[n], "+"})
      BY <1>2, <2>2, <2>3 DEF TokensMatch
    <3>2. Len(T) \in Nat
      BY <1>1, TokenFacts DEF T
    <3> QED
      BY <1>9, <1>10, <1>12, <3>1, <3>2
  <2>4. CASE n # Len(F)
    <3>1. n \in 1..(Len(F) - 1)
      BY <1>3, <2>1, <2>4
    <3>2. n <= Len(T) /\ F[n] \in {T[n], "+"}
      BY <1>2, <3>1 DEF TokensMatch
    <3> QED
      BY <1>9, <1>12, <2>2, <3>2
  <2> QED
    BY <2>3, <2>4
<1> QED
  BY <1>11, <1>12

(* A node with a leaf that is due is left with the last token. *)
LEMMA LeftWithLast ==
    ASSUME WellFormed, IInv, NEW t \in Threads, pc[t] = "search", subhier[t] # Root,
           NEW f \in Filters, Match(f, arg[t]), PathOf(f) = subhier[t]
    PROVE  LastToken(t, Front(subhier[t]))
<1> DEFINE q == subhier[t]
           F == Tokenise(f)
           T == Tokenise(arg[t])
           n == Len(F)
           p == Front(q)
<1>1. /\ arg[t] \in Topics
      /\ \A k \in 2..Len(q) : k - 1 <= Len(T) /\ q[k] \in {T[k - 1], "+"}
  BY DEF IInv, WalkInv, Searching
<1>2. TokensMatch(F, T) /\ Len(T) \in Nat
  BY <1>1, MatchTokens, TokenFacts
<1>3. /\ q \in Seq(Names) /\ Len(q) = n + 1 /\ n \in Nat /\ n >= 1
      /\ \A i \in 1..n : q[i + 1] = F[i]
  BY PathFacts, TokenFacts
<1>4. Len(p) = Len(q) - 1
  BY <1>3, FrontLast DEF Root
<1>5. \A i \in 1..Len(T) : T[i] # "#"
  BY <1>1, HashTokens
<1> HIDE DEF q, F, T, n, p
<1>6. n + 1 \in 2..Len(q) /\ n + 1 - 1 = n /\ n \in 1..n
  BY <1>3
<1>7. n <= Len(T) /\ q[n + 1] \in {T[n], "+"} /\ q[n + 1] = F[n]
  BY <1>1, <1>3, <1>6
<1>8. n \in 1..Len(T)
  BY <1>2, <1>3, <1>7
<1>9. F[n] # "#"
  BY <1>5, <1>7, <1>8
<1>10. n = Len(T)
  BY <1>2, <1>9 DEF TokensMatch, n
<1>11. Len(p) = n /\ p # Root
  BY <1>3, <1>4, RootLinked
<1> QED
  BY <1>10, <1>11 DEF LastToken, T, p, q
-----------------------------------------------------------------------------
(* The steps keep it so. *)

(* The locals of the other threads. *)
LEMMA OthersKept ==
    ASSUME IInv, NEW t \in Threads, NEW u \in Threads, u # t,
           Lock(t) \/ AddStep(t) \/ (\E topic \in Topics : Search(t, topic)) \/ SearchStep(t)
    PROVE  Keeps(u)
<1> USE DEF Keeps, Goto, treeVars, clientVars, thrVars, histVars
<1>0. /\ pc \in [Threads -> Adding \cup Searching \cup {"idle", "lock", "added", "failed"}]
      /\ context \in [Threads -> Clients \cup {NULL}]
      /\ arg \in [Threads -> Filters \cup Topics \cup {<<>>}]
      /\ subhier \in [Threads -> Nodes] /\ branch \in [Threads -> Names \cup {NULL}]
      /\ leaf \in [Threads -> Nat \ {0}]
      /\ due \in [Threads -> SUBSET Leaves] /\ got \in [Threads -> Seq(Leaves)]
  BY DEF IInv, TypeInv
<1>1. CASE Lock(t)
  BY <1>0, <1>1 DEF Lock
<1>2. CASE FindRoot(t)
  BY <1>0, <1>2 DEF FindRoot
<1>3. CASE AddRoot(t)
  BY <1>0, <1>3 DEF AddRoot
<1>4. CASE AddRootFails(t)
  BY <1>0, <1>4 DEF AddRootFails
<1>5. CASE FindBranch(t)
  BY <1>0, <1>5 DEF FindBranch, Child
<1>6. CASE AddBranch(t)
  BY <1>0, <1>6 DEF AddBranch, Child
<1>7. CASE FindLeaf(t)
  BY <1>0, <1>7 DEF FindLeaf
<1>8. CASE AddLeaf(t)
  BY <1>0, <1>8 DEF AddLeaf
<1>9. CASE AddFails(t)
  BY <1>0, <1>9 DEF AddFails
<1>10. CASE Unlock(t)
  BY <1>0, <1>10 DEF Unlock
<1>11. CASE Acknowledge(t)
  BY <1>0, <1>11 DEF Acknowledge, Return
<1>12. CASE Reject(t)
  BY <1>0, <1>12 DEF Reject, Return, Clean
<1>13. CASE \E topic \in Topics : Search(t, topic)
  BY <1>0, <1>13 DEF Search
<1>14. CASE Descend(t)
  BY <1>0, <1>14 DEF Descend
<1>15. CASE ProcessHash(t)
  BY <1>0, <1>15 DEF ProcessHash
<1>16. CASE Skip(t)
  BY <1>0, <1>16 DEF Skip, NextBranch
<1>17. CASE Ascend(t)
  BY <1>0, <1>17 DEF Ascend, NextBranch
<1>18. CASE Deliver(t)
  BY <1>0, <1>18 DEF Deliver
<1>19. CASE LeavesDone(t)
  BY <1>0, <1>19 DEF LeavesDone, NextBranch
<1>20. CASE SearchDone(t)
  BY <1>0, <1>20 DEF SearchDone
<1>21. CASE SearchReturn(t)
  BY <1>0, <1>21 DEF SearchReturn, Return
<1> QED
  BY <1>1, <1>2, <1>3, <1>4, <1>5, <1>6, <1>7, <1>8, <1>9, <1>10, <1>11, <1>12, <1>13,
     <1>14, <1>15, <1>16, <1>17, <1>18, <1>19, <1>20, <1>21 DEF AddStep, SearchStep

(* What is due to another thread's search stays so.                        *)
LEMMA DueStays ==
    ASSUME IInv, MissInv, NEW u \in Threads, Keeps(u), Grows,
           \A l \in due'[u] : is_subscribe'[l.context]
    PROVE  DueInv(u)'
<1>0. /\ pc'[u] = pc[u] /\ arg'[u] = arg[u] /\ subhier'[u] = subhier[u]
      /\ branch'[u] = branch[u] /\ leaf'[u] = leaf[u]
      /\ got'[u] = got[u] /\ due'[u] \subseteq due[u]
  BY DEF Keeps
<1>1. DueInv(u) /\ due[u] \subseteq Leaves /\ subhier[u] \in Nodes
  BY DEF IInv, TypeInv, MissInv
<1>2. TreeGrown(children, children') /\ subs \in [Nodes -> Seq(Clients)]
  BY DEF Grows, IInv, TypeInv
<1>3. ASSUME NEW p \in Nodes, NEW i \in DOMAIN subs[p]
      PROVE  i \in DOMAIN subs'[p] /\ subs'[p][i] = subs[p][i]
  BY DEF Grows
<1>4. Here(u)' = Here(u)
  BY <1>0 DEF Here
<1>5. ASSUME NEW l \in due'[u]
      PROVE  /\ is_subscribe'[l.context]
             /\ l.context \in Range(subs'[l.node])
             /\ \E f \in Filters : PathOf(f) = l.node /\ Match(f, arg'[u])
             /\ l \in Range(got'[u]) \/ Coming(u, l)'
  <2>1. l \in due[u] /\ l.node \in Nodes
    BY <1>0, <1>1, LeafNode
  <2>2. /\ l.context \in Range(subs[l.node])
        /\ \E f \in Filters : PathOf(f) = l.node /\ Match(f, arg[u])
        /\ l \in Range(got[u]) \/ Coming(u, l)
    BY <1>1, <2>1 DEF DueInv
  <2>3. l.context \in Range(subs'[l.node])
    <3>1. PICK i \in DOMAIN subs[l.node] : subs[l.node][i] = l.context
      BY <1>2, <2>1, <2>2, InRange
    <3> QED
      BY <1>3, <2>1, <3>1 DEF Range
  <2>4. ASSUME Coming(u, l) PROVE Coming(u, l)'
    <3>1. CASE Ahead(children, subhier[u], branch[u], l.node)
      <4>1. Ahead(children', subhier[u], branch[u], l.node)
        BY <1>1, <1>2, <3>1, AheadGrows
      <4> QED
        BY <1>0, <4>1 DEF Coming
    <3>2. CASE pc[u] = "search" /\ branch[u] # NULL /\ AtOrBelow(l.node, Here(u))
      BY <1>0, <1>4, <3>2 DEF Coming
    <3>3. CASE /\ pc[u] = "leaves" /\ l.node = Here(u)
               /\ \E i \in DOMAIN subs[Here(u)] :
                     i >= leaf[u] /\ subs[Here(u)][i] = l.context
      <4>1. \E i \in DOMAIN subs'[Here(u)] : i >= leaf[u] /\ subs'[Here(u)][i] = l.context
        BY <1>3, <2>1, <3>3
      <4> QED
        BY <1>0, <1>4, <3>3, <4>1 DEF Coming
    <3> QED
      BY <2>4, <3>1, <3>2, <3>3 DEF Coming
  <2> QED
    BY <1>0, <1>5, <2>2, <2>3, <2>4
<1> QED
  BY <1>5 DEF DueInv

(* What was acknowledged stays so. *)
LEMMA AckStays ==
    ASSUME IInv, MissInv, Grows, NEW c \in Clients, NEW f \in acked[c]
    PROVE  is_subscribe[c] /\ c \in Range(subs'[PathOf(f)])
<1>1. f \in Filters /\ subs \in [Nodes -> Seq(Clients)]
  BY DEF IInv, TypeInv
<1>2. PathOf(f) \in Nodes
  <2>1. PathOf(f) \in Seq(Names) /\ Len(PathOf(f)) \in Nat
    BY <1>1, PathFacts
  <2>2. Len(PathOf(f)) \in 0..Len(PathOf(f)) /\ Pre(PathOf(f), Len(PathOf(f))) = PathOf(f)
    BY <2>1, PreEnds
  <2> QED
    BY <1>1, <2>2, PathNodes
<1>3. is_subscribe[c] /\ c \in Range(subs[PathOf(f)])
  BY DEF MissInv, AckInv
<1>4. PICK i \in DOMAIN subs[PathOf(f)] : subs[PathOf(f)][i] = c
  BY <1>1, <1>2, <1>3, InRange
<1>5. i \in DOMAIN subs'[PathOf(f)] /\ subs'[PathOf(f)][i] = c
  BY <1>2, <1>4 DEF Grows
<1> QED
  BY <1>3, <1>5 DEF Range

(* The leaf of a filter that is about to be acknowledged stays. *)
LEMMA AddedStays ==
    ASSUME IInv, MissInv, Grows, NEW u \in Threads, pc[u] \in {"unlock", "added"}
    PROVE  context[u] \in Range(subs'[subhier[u]])
<1>1. subhier[u] \in Nodes /\ subs[subhier[u]] \in Seq(Clients)
  BY DEF IInv, TypeInv
<1>2. PICK i \in DOMAIN subs[subhier[u]] : subs[subhier[u]][i] = context[u]
  BY <1>1, InRange DEF MissInv, AckInv
<1>3. i \in DOMAIN subs'[subhier[u]] /\ subs'[subhier[u]][i] = context[u]
  BY <1>1, <1>2 DEF Grows
<1> QED
  BY <1>3 DEF Range

(* A step of t that leaves flags and acknowledgements alone. *)
LEMMA StepKeepsDue ==
    ASSUME IInv, MissInv, NEW t \in Threads, Grows,
           \A u \in Threads \ {t} : Keeps(u),
           UNCHANGED <<is_subscribe, acked>>,
           pc'[t] \in {"unlock", "added"} => context'[t] \in Range(subs'[subhier'[t]]),
           DueInv(t)'
    PROVE  MissInv'
<1>1. \A c \in Clients : \A f \in acked'[c] : is_subscribe'[c] /\ c \in Range(subs'[PathOf(f)])
  BY AckStays
<1>2. ASSUME NEW u \in Threads, pc'[u] \in {"unlock", "added"}
      PROVE  context'[u] \in Range(subs'[subhier'[u]])
  <2>1. CASE u = t
    BY <1>2, <2>1
  <2>2. CASE u # t
    <3>1. pc'[u] = pc[u] /\ context'[u] = context[u] /\ subhier'[u] = subhier[u]
      BY <2>2 DEF Keeps
    <3> QED
      BY <1>2, <3>1, AddedStays
  <2> QED
    BY <2>1, <2>2
<1>3. ASSUME NEW u \in Threads, u # t PROVE DueInv(u)'
  <2>1. Keeps(u)
    BY <1>3
  <2>2. ASSUME NEW l \in due'[u] PROVE is_subscribe'[l.context]
    <3>1. l \in due[u]
      BY <2>1 DEF Keeps
    <3>2. is_subscribe[l.context]
      BY <3>1 DEF MissInv, DueInv
    <3> QED
      BY <3>2
  <2> QED
    BY <2>1, <2>2, DueStays
<1> QED
  BY <1>1, <1>2, <1>3 DEF MissInv, AckInv

(* No search of t, nothing due. *)
LEMMA NothingDue ==
    ASSUME IInv', NEW t \in Threads, pc'[t] \notin Searching
    PROVE  DueInv(t)'
<1>1. due'[t] = {}
  BY DEF IInv, LocalInv
<1> QED
  BY <1>1 DEF DueInv

(* Connections. *)
LEMMA ConnectKeepsDue ==
    ASSUME IInv, MissInv, NEW c \in Clients, NEW i \in IdsOf[c], Connect(c, i)
    PROVE  MissInv'
<1>1. UNCHANGED <<children, subs, is_subscribe, pc, context, arg, subhier, branch, leaf,
                  asked, acked, due, got>>
  BY DEF Connect, treeVars, thrVars, histVars
<1>2. Loop[c] \in Threads
  BY TreeAssumption
<1>3. Grows /\ \A u \in Threads : Keeps(u)
  BY <1>1, TreeStays DEF Keeps
<1>4. \A u \in Threads : \A l \in due'[u] : is_subscribe'[l.context]
  BY <1>1 DEF MissInv, DueInv
<1>5. DueInv(Loop[c])'
  BY <1>2, <1>3, <1>4, DueStays
<1>6. pc'[Loop[c]] \in {"unlock", "added"} =>
         context'[Loop[c]] \in Range(subs'[subhier'[Loop[c]]])
  BY <1>1, <1>2 DEF MissInv, AckInv
<1> QED
  BY <1>1, <1>2, <1>3, <1>5, <1>6, StepKeepsDue

(* clean_context takes the slot's leaves from what is due. *)
LEMMA CleanKeepsDue ==
    ASSUME IInv, MissInv, IInv', NEW c \in Clients, Clean(c), Grows,
           NEW t \in Threads, pc'[t] = "idle", \A u \in Threads \ {t} : Keeps(u)
    PROVE  MissInv'
<1>1. /\ acked' = [acked EXCEPT ![c] = {}]
      /\ due' = [u \in Threads |-> {l \in due[u] : l.context # c}]
      /\ acked \in [Clients -> SUBSET Filters] /\ due \in [Threads -> SUBSET Leaves]
  BY DEF Clean, IInv, TypeInv
<1>2. is_subscribe' = [is_subscribe EXCEPT ![c] = FALSE]
      /\ is_subscribe \in [Clients -> BOOLEAN]
  BY DEF Clean, IInv, Flags
<1>3. \A d \in Clients : d # c => is_subscribe'[d] = is_subscribe[d]
  BY <1>2, Zenon
<1>4. acked'[c] = {} /\ \A d \in Clients : d # c => acked'[d] = acked[d]
  BY <1>1
<1>5. ASSUME NEW d \in Clients, NEW f \in acked'[d]
      PROVE  is_subscribe'[d] /\ d \in Range(subs'[PathOf(f)])
  <2>1. d # c /\ f \in acked[d]
    BY <1>4, <1>5
  <2>2. is_subscribe[d] /\ d \in Range(subs'[PathOf(f)])
    BY <2>1, AckStays
  <2> QED
    BY <1>3, <2>1, <2>2
<1>6. ASSUME NEW u \in Threads, pc'[u] \in {"unlock", "added"}
      PROVE  context'[u] \in Range(subs'[subhier'[u]])
  <2>1. u # t
    BY <1>6
  <2>2. pc'[u] = pc[u] /\ context'[u] = context[u] /\ subhier'[u] = subhier[u]
    BY <2>1 DEF Keeps
  <2> QED
    BY <1>6, <2>2, AddedStays
<1>7. ASSUME NEW u \in Threads PROVE DueInv(u)'
  <2>1. CASE u = t
    BY <2>1, NothingDue DEF Searching
  <2>2. CASE u # t
    <3>1. ASSUME NEW l \in due'[u] PROVE is_subscribe'[l.context]
      <4>1. l \in due[u] /\ l.context # c /\ l \in Leaves
        BY <1>1
      <4>2. is_subscribe[l.context]
        BY <4>1 DEF MissInv, DueInv
      <4>3. l.context \in Clients
        BY <4>1, LeafNode
      <4> QED
        BY <1>3, <4>1, <4>2, <4>3
    <3> QED
      BY <2>2, <3>1, DueStays
  <2> QED
    BY <2>1, <2>2
<1> QED
  BY <1>5, <1>6, <1>7 DEF MissInv, AckInv

(* remove_client.                                                          *)
LEMMA DisconnectKeepsDue ==
    ASSUME IInv, MissInv, IInv', NEW c \in Clients, Disconnect(c)
    PROVE  MissInv'
<1>1. /\ pc[Loop[c]] = "idle" /\ Clean(c)
      /\ UNCHANGED <<children, subs, root_lock, pc, context, arg, subhier,
                     branch, leaf, asked, got>>
  BY DEF Disconnect, treeVars, thrVars
<1>2. Loop[c] \in Threads
  BY TreeAssumption
<1>3. Grows
  BY <1>1, TreeStays
<1>4. \A u \in Threads : Keeps(u)
  BY <1>1, CleanFacts DEF Keeps
<1> QED
  BY <1>1, <1>2, <1>3, <1>4, CleanKeepsDue

(* The end of a connection whose SUBSCRIBE failed.                         *)
LEMMA RejectKeepsDue ==
    ASSUME IInv, MissInv, IInv', NEW t \in Threads, Reject(t)
    PROVE  MissInv'
<1>1. /\ pc[t] = "failed" /\ Clean(context[t]) /\ pc' = [pc EXCEPT ![t] = "idle"]
      /\ UNCHANGED <<children, subs, asked>>
  BY DEF Reject, Return, Goto, treeVars
<1>2. context[t] \in Clients /\ pc'[t] = "idle"
  BY <1>1 DEF IInv, TypeInv, LocalInv
<1>3. Grows
  BY <1>1, TreeStays
<1>4. \A u \in Threads \ {t} : Keeps(u)
  BY OthersKept DEF AddStep
<1> DEFINE c == context[t]
<1>5. c \in Clients /\ Clean(c)
  BY <1>1, <1>2
<1> HIDE DEF c
<1> QED
  BY <1>2, <1>3, <1>4, <1>5, CleanKeepsDue

(* The start of SUBSCRIBE.                                                 *)
LEMMA SubscribeKeepsDue ==
    ASSUME IInv, MissInv, IInv', NEW c \in Clients, NEW f \in FiltersOf[c], Subscribe(c, f)
    PROVE  MissInv'
<1> DEFINE t == Loop[c]
<1>1. /\ context' = [context EXCEPT ![t] = c]
      /\ arg' = [arg EXCEPT ![t] = f]
      /\ asked' = [asked EXCEPT ![c] = @ \cup {f}]
      /\ pc' = [pc EXCEPT ![t] = "lock"] \/ pc' = [pc EXCEPT ![t] = "failed"]
      /\ UNCHANGED <<children, subs, is_subscribe, subhier, branch, leaf,
                     acked, due, got>>
  BY DEF Subscribe, Goto, treeVars, clientVars
<1>2. t \in Threads
  BY TreeAssumption
<1> HIDE DEF t
<1>3. /\ pc \in [Threads -> Adding \cup Searching \cup {"idle", "lock", "added", "failed"}]
      /\ context \in [Threads -> Clients \cup {NULL}]
      /\ arg \in [Threads -> Filters \cup Topics \cup {<<>>}]
      /\ asked \in [Clients -> SUBSET Filters]
  BY DEF IInv, TypeInv
<1>4. pc'[t] \in {"lock", "failed"} /\ \A u \in Threads \ {t} : Keeps(u)
  BY <1>1, <1>2, <1>3 DEF Keeps
<1>5. \A d \in Clients : asked[d] \subseteq asked'[d]
  BY <1>1, <1>3
<1>6. Grows
  BY <1>1, <1>5, TreeStays
<1>7. DueInv(t)'
  BY <1>2, <1>4, NothingDue DEF Searching
<1> QED
  BY <1>1, <1>2, <1>4, <1>6, <1>7, StepKeepsDue

(* SUBACK 0: the filter has its leaf by now, and the slot gets its flag.   *)
LEMMA AcknowledgeKeepsDue ==
    ASSUME IInv, MissInv, IInv', NEW t \in Threads, Acknowledge(t)
    PROVE  MissInv'
<1> DEFINE c == context[t]
<1>1. /\ pc[t] = "added" /\ pc' = [pc EXCEPT ![t] = "idle"]
      /\ acked' = [acked EXCEPT ![c] = @ \cup {arg[t]}]
      /\ UNCHANGED <<children, subs, asked>>
  BY DEF Acknowledge, Return, Goto, treeVars
<1>2. is_subscribe' = [is_subscribe EXCEPT ![c] = TRUE]
      /\ is_subscribe \in [Clients -> BOOLEAN]
  BY DEF Acknowledge, IInv, Flags
<1>3. c \in Clients /\ pc'[t] = "idle" /\ acked \in [Clients -> SUBSET Filters]
  BY <1>1 DEF IInv, TypeInv, LocalInv
<1>4. c \in Range(subs[PathOf(arg[t])])
  <2>1. ~HasToken(t)
    BY <1>1 DEF IInv, AddInv
  <2>2. subhier[t] = PathOf(arg[t])
    BY <1>1, <2>1, AtNode
  <2> QED
    BY <1>1, <2>2 DEF MissInv, AckInv
<1> HIDE DEF c
<1>5. is_subscribe'[c] /\ \A d \in Clients : is_subscribe[d] => is_subscribe'[d]
  BY <1>2, <1>3, Zenon
<1>6. Grows
  BY <1>1, TreeStays
<1>7. \A u \in Threads \ {t} : Keeps(u)
  BY OthersKept DEF AddStep
<1>8. ASSUME NEW d \in Clients, NEW f \in acked'[d]
      PROVE  is_subscribe'[d] /\ d \in Range(subs'[PathOf(f)])
  <2>1. CASE f \in acked[d]
    BY <1>5, <1>6, <2>1, AckStays
  <2>2. CASE f \notin acked[d]
    <3>1. d = c /\ f = arg[t]
      BY <1>1, <1>3, <1>8, <2>2
    <3> QED
      BY <1>1, <1>4, <1>5, <3>1
  <2> QED
    BY <2>1, <2>2
<1>9. ASSUME NEW u \in Threads, pc'[u] \in {"unlock", "added"}
      PROVE  context'[u] \in Range(subs'[subhier'[u]])
  <2>1. u # t
    BY <1>3, <1>9
  <2>2. pc'[u] = pc[u] /\ context'[u] = context[u] /\ subhier'[u] = subhier[u]
    BY <1>7, <2>1 DEF Keeps
  <2> QED
    BY <1>6, <1>9, <2>2, AddedStays
<1>10. ASSUME NEW u \in Threads PROVE DueInv(u)'
  <2>1. CASE u = t
    BY <1>3, <2>1, NothingDue DEF Searching
  <2>2. CASE u # t
    <3>1. ASSUME NEW l \in due'[u] PROVE is_subscribe'[l.context]
      <4>1. l \in due[u]
        BY <1>7, <2>2 DEF Keeps
      <4>2. is_subscribe[l.context] /\ l \in Leaves
        BY <4>1 DEF MissInv, DueInv, IInv, TypeInv
      <4>3. l.context \in Clients
        BY <4>2, LeafNode
      <4> QED
        BY <1>5, <4>2, <4>3
    <3> QED
      BY <1>6, <1>7, <2>2, <3>1, DueStays
  <2> QED
    BY <2>1, <2>2
<1> QED
  BY <1>8, <1>9, <1>10 DEF MissInv, AckInv

(* _sub_add takes another slot's leaf for its own only if the identifiers  *)
(* are the same.                                                           *)
LEMMA FindLeafKeepsDue ==
    ASSUME WellFormed, IInv, MissInv, IInv', NEW t \in Threads, FindLeaf(t)
    PROVE  MissInv'
<1> DEFINE p == subhier[t]
           i == leaf[t]
           d == subs[p][i]
           c == context[t]
<1>1. /\ pc[t] = "find"
      /\ \/ pc' = [pc EXCEPT ![t] = "new_leaf"]
         \/ /\ ~(i > Len(subs[p])) /\ id[d] = id[c]
            /\ pc' = [pc EXCEPT ![t] = "unlock"]
         \/ pc' = pc
      /\ UNCHANGED <<children, subs, is_subscribe, context, subhier, asked, acked>>
  BY DEF FindLeaf, SameId, Goto, treeVars, clientVars, histVars
<1>2. /\ pc \in [Threads -> Adding \cup Searching \cup {"idle", "lock", "added", "failed"}]
      /\ p \in Nodes /\ subs[p] \in Seq(Clients) /\ i \in Nat \ {0}
      /\ \A e \in Clients : id[e] \in IdsOf[e] \cup {NULL}
  BY DEF IInv, TypeInv
<1>3. c \in Clients /\ id[c] # NULL
  BY <1>1 DEF IInv, LocalInv, Adding
<1>4. pc'[t] \in {"new_leaf", "unlock", "find"}
  BY <1>1, <1>2
<1>5. Grows /\ \A u \in Threads \ {t} : Keeps(u)
  BY <1>1, TreeStays, OthersKept DEF AddStep
<1>6. DueInv(t)'
  BY <1>4, NothingDue DEF Searching
<1>7. ASSUME pc'[t] \in {"unlock", "added"} PROVE c \in Range(subs[p])
  <2>1. ~(i > Len(subs[p])) /\ id[d] = id[c]
    BY <1>1, <1>2, <1>7
  <2>2. i \in DOMAIN subs[p]
    <3>1. Len(subs[p]) \in Nat /\ DOMAIN subs[p] = 1..Len(subs[p])
      BY <1>2, InRange
    <3> QED
      BY <1>2, <2>1, <3>1
  <2>3. d \in Clients /\ d \in Range(subs[p])
    BY <1>2, <2>2, InRange
  <2>4. d = c
    BY <1>2, <1>3, <2>1, <2>3 DEF WellFormed
  <2> QED
    BY <2>3, <2>4
<1> QED
  BY <1>1, <1>5, <1>6, <1>7, StepKeepsDue

(* The other steps of SUBSCRIBE. *)
LEMMA AddStepKeepsDue ==
    ASSUME WellFormed, IInv, MissInv, IInv', NEW t \in Threads, Lock(t) \/ AddStep(t)
    PROVE  MissInv'
<1>0. pc \in [Threads -> Adding \cup Searching \cup {"idle", "lock", "added", "failed"}]
  BY DEF IInv, TypeInv
<1>1. \A u \in Threads \ {t} : Keeps(u)
  BY OthersKept
<1>2. ASSUME Grows, UNCHANGED <<is_subscribe, acked>>, pc'[t] \notin Searching,
             pc'[t] \in {"unlock", "added"} => context'[t] \in Range(subs'[subhier'[t]])
      PROVE  MissInv'
  BY <1>1, <1>2, NothingDue, StepKeepsDue
<1>3. ASSUME Grows, UNCHANGED <<is_subscribe, acked>>,
             pc'[t] \in {"root", "new_root", "find", "new_branch", "failed"}
      PROVE  MissInv'
  BY <1>2, <1>3 DEF Searching
<1>4. ASSUME UNCHANGED <<children, subs, asked>> PROVE Grows
  BY <1>4, TreeStays
<1>5. CASE Lock(t)
  <2>1. /\ UNCHANGED <<children, subs, asked, is_subscribe, acked>>
        /\ pc' = [pc EXCEPT ![t] = "root"]
    BY <1>5 DEF Lock, Goto, clientVars, histVars
  <2> QED
    BY <1>0, <1>3, <1>4, <2>1
<1>6. CASE FindRoot(t)
  <2>1. /\ UNCHANGED <<children, subs, asked, is_subscribe, acked>>
        /\ pc' = [pc EXCEPT ![t] = "find"] \/ pc' = [pc EXCEPT ![t] = "new_root"]
    BY <1>6 DEF FindRoot, Goto, treeVars, clientVars, histVars
  <2> QED
    BY <1>0, <1>3, <1>4, <2>1
<1>7. CASE AddRoot(t)
  <2>1. UNCHANGED <<is_subscribe, acked>> /\ pc' = [pc EXCEPT ![t] = "find"]
    BY <1>7 DEF AddRoot, Goto, clientVars, histVars
  <2> QED
    BY <1>0, <1>3, <1>7, <2>1, AddRootKeeps
<1>8. CASE AddRootFails(t)
  <2>1. /\ UNCHANGED <<children, subs, asked, is_subscribe, acked>>
        /\ pc' = [pc EXCEPT ![t] = "failed"]
    BY <1>8 DEF AddRootFails, Goto, treeVars, clientVars, histVars
  <2> QED
    BY <1>0, <1>3, <1>4, <2>1
<1>9. CASE FindBranch(t)
  <2>1. /\ UNCHANGED <<children, subs, asked, is_subscribe, acked>>
        /\ pc[t] = "find"
        /\ pc' = pc \/ pc' = [pc EXCEPT ![t] = "new_branch"]
    BY <1>9 DEF FindBranch, Goto, treeVars, clientVars, histVars
  <2> QED
    BY <1>0, <1>3, <1>4, <2>1
<1>10. CASE AddBranch(t)
  <2>1. UNCHANGED <<is_subscribe, acked>> /\ pc' = [pc EXCEPT ![t] = "find"]
    BY <1>10 DEF AddBranch, Goto, clientVars, histVars
  <2> QED
    BY <1>0, <1>3, <1>10, <2>1, AddBranchKeeps
<1>11. CASE AddLeaf(t)
  <2>1. /\ UNCHANGED <<is_subscribe, acked, subhier, context>>
        /\ pc' = [pc EXCEPT ![t] = "unlock"]
        /\ subs' = [subs EXCEPT ![subhier[t]] = Append(@, context[t])]
        /\ pc[t] = "new_leaf"
    BY <1>11 DEF AddLeaf, Goto, clientVars, histVars
  <2>2. /\ subhier[t] \in Nodes /\ subs \in [Nodes -> Seq(Clients)]
        /\ context[t] \in Clients
    BY <2>1 DEF IInv, TypeInv, LocalInv, Adding
  <2>3. subs'[subhier[t]] = Append(subs[subhier[t]], context[t])
    BY <2>1, <2>2
  <2>4. subs[subhier[t]] \in Seq(Clients)
    BY <2>2
  <2> DEFINE old == subs[subhier[t]]
             new == Append(old, context[t])
  <2>5. Len(old) + 1 \in DOMAIN new /\ new[Len(old) + 1] = context[t]
    BY <2>2, <2>4, AppendProperties
  <2>6. context[t] \in Range(new)
    BY <2>5 DEF Range
  <2>7. pc'[t] = "unlock"
    BY <1>0, <2>1
  <2> QED
    BY <1>2, <1>11, <2>1, <2>3, <2>6, <2>7, AddLeafKeeps DEF Searching
<1>12. CASE AddFails(t)
  <2>1. /\ UNCHANGED <<children, subs, asked, is_subscribe, acked>>
        /\ pc' = [pc EXCEPT ![t] = "failed"]
    BY <1>12 DEF AddFails, Goto, clientVars, histVars
  <2> QED
    BY <1>0, <1>3, <1>4, <2>1
<1>13. CASE Unlock(t)
  <2>1. /\ UNCHANGED <<children, subs, asked, is_subscribe, acked, context, subhier>>
        /\ pc[t] = "unlock" /\ pc' = [pc EXCEPT ![t] = "added"]
    BY <1>13 DEF Unlock, Goto, clientVars, histVars
  <2>2. pc'[t] = "added" /\ context'[t] \in Range(subs'[subhier'[t]])
    BY <1>0, <2>1 DEF MissInv, AckInv
  <2> QED
    BY <1>2, <1>4, <2>1, <2>2 DEF Searching
<1> QED
  BY <1>5, <1>6, <1>7, <1>8, <1>9, <1>10, <1>11, <1>12, <1>13, FindLeafKeepsDue,
     AcknowledgeKeepsDue, RejectKeepsDue DEF AddStep

(* The steps of a search. *)
LEMMA SearchStepKeepsDue ==
    ASSUME IInv, MissInv, NEW t \in Threads, SearchStep(t),
           UNCHANGED <<children, subs, is_subscribe, arg, asked, acked, due>>,
           pc'[t] \in Searching,
           \A l \in due[t] : Coming(t, l) => l \in Range(got'[t]) \/ Coming(t, l)',
           Range(got[t]) \subseteq Range(got'[t])
    PROVE  MissInv'
<1>1. Grows /\ \A u \in Threads \ {t} : Keeps(u)
  BY TreeStays, OthersKept
<1>2. DueInv(t)
  BY DEF MissInv
<1>3. \A l \in due[t] : l \in Range(got'[t]) \/ Coming(t, l)'
  BY <1>2 DEF DueInv
<1>4. DueInv(t)'
  BY <1>2, <1>3 DEF DueInv
<1> QED
  BY <1>1, <1>4, StepKeepsDue DEF Searching

(* The node of a leaf that is due. *)
LEMMA DueFacts ==
    ASSUME IInv, MissInv, NEW t \in Threads, NEW l \in due[t]
    PROVE  /\ l \in Leaves /\ l.node \in Nodes /\ l.node \in Seq(Names)
           /\ Linked(children, l.node)
           /\ is_subscribe[l.context] /\ l.context \in Range(subs[l.node])
           /\ \E f \in Filters : PathOf(f) = l.node /\ Match(f, arg[t])
<1>1. l \in Leaves
  BY DEF IInv, TypeInv
<1>2. l.node \in Nodes /\ l.node \in Seq(Names)
  BY <1>1, LeafNode
<1>3. /\ is_subscribe[l.context] /\ l.context \in Range(subs[l.node])
      /\ \E f \in Filters : PathOf(f) = l.node /\ Match(f, arg[t])
  BY DEF MissInv, DueInv
<1>4. subs[l.node] # <<>>
  BY <1>3 DEF Range
<1>5. Linked(children, l.node)
  BY <1>2, <1>4 DEF IInv, TreeInv
<1> QED
  BY <1>1, <1>2, <1>3, <1>5

(* The search starts with every leaf ahead. *)
LEMMA SearchKeepsDue ==
    ASSUME IInv, MissInv, NEW t \in Threads, NEW topic \in Topics, Search(t, topic)
    PROVE  MissInv'
<1> DEFINE b == First(children[Root])
           S == Matching(topic)
<1>1. /\ pc[t] = "idle" /\ arg' = [arg EXCEPT ![t] = topic]
      /\ branch' = [branch EXCEPT ![t] = b]
      /\ due' = [due EXCEPT ![t] = S]
      /\ pc' = [pc EXCEPT ![t] = "search"]
      /\ UNCHANGED <<children, subs, is_subscribe, subhier, asked, acked>>
  BY DEF Search, Goto, treeVars, clientVars
<1>2. /\ pc \in [Threads -> Adding \cup Searching \cup {"idle", "lock", "added", "failed"}]
      /\ arg \in [Threads -> Filters \cup Topics \cup {<<>>}]
      /\ branch \in [Threads -> Names \cup {NULL}]
      /\ due \in [Threads -> SUBSET Leaves]
      /\ acked \in [Clients -> SUBSET Filters]
      /\ subhier[t] = Root
  BY <1>1 DEF IInv, TypeInv, LocalInv
<1>3. pc'[t] = "search" /\ arg'[t] = topic /\ branch'[t] = b /\ due'[t] = S
      /\ subhier'[t] = Root
  BY <1>1, <1>2
<1>4. Grows /\ \A u \in Threads \ {t} : Keeps(u)
  BY <1>1, TreeStays, OthersKept
<1>5. Here(t)' = Append(Root, b)
  BY <1>3 DEF Here
<1>6. ASSUME NEW l \in S
      PROVE  /\ is_subscribe[l.context]
             /\ l.context \in Range(subs[l.node])
             /\ \E f \in Filters : PathOf(f) = l.node /\ Match(f, topic)
             /\ Coming(t, l)'
  <2>1. l \in Leaves /\ \E f \in acked[l.context] : PathOf(f) = l.node /\ Match(f, topic)
    BY DEF Matching
  <2>2. l.node \in Nodes /\ l.node \in Seq(Names) /\ l.context \in Clients
    BY <2>1, LeafNode
  <2>3. PICK f \in acked[l.context] : PathOf(f) = l.node /\ Match(f, topic)
    BY <2>1
  <2>4. f \in Filters
    BY <1>2, <2>2
  <2>5. is_subscribe[l.context] /\ l.context \in Range(subs[l.node])
    BY <2>2, <2>3 DEF MissInv, AckInv
  <2>6. Linked(children, l.node)
    <3>1. subs[l.node] # <<>>
      BY <2>5 DEF Range
    <3> QED
      BY <2>2, <3>1 DEF IInv, TreeInv
  <2>7. AtOrBelow(l.node, Root) /\ l.node # Root
    <3>1. Root \in Nodes /\ Len(Root) = 0 /\ Root = <<>>
      BY RootLinked DEF Root
    <3>2. Len(l.node) \in Nat /\ Len(l.node) >= 2 /\ Pre(l.node, 0) = <<>>
      BY <2>2, <2>3, <2>4, PathFacts, PreEnds
    <3> QED
      BY <3>1, <3>2 DEF AtOrBelow
  <2>8. b # NULL /\ (Ahead(children, Root, b, l.node) \/ AtOrBelow(l.node, Append(Root, b)))
    BY <2>2, <2>6, <2>7, TreeOf, RootLinked, AheadFirst
  <2>9. Coming(t, l)'
    BY <1>1, <1>3, <1>5, <2>8 DEF Coming
  <2> QED
    BY <2>3, <2>4, <2>5, <2>9
<1>7. DueInv(t)'
  BY <1>1, <1>3, <1>6 DEF DueInv
<1> QED
  BY <1>1, <1>3, <1>4, <1>7, StepKeepsDue

(* What is due below the child is the child itself, which is next on the   *)
(* way back, or lies below its children, all of which are ahead.           *)
LEMMA DescendKeepsDue ==
    ASSUME IInv, MissInv, NEW t \in Threads, Descend(t)
    PROVE  MissInv'
<1> DEFINE s == subhier[t]
           b == branch[t]
           h == Here(t)
           c == First(children[h])
<1>1. /\ pc[t] = "search" /\ b # NULL
      /\ subhier' = [subhier EXCEPT ![t] = h]
      /\ branch' = [branch EXCEPT ![t] = c]
      /\ UNCHANGED <<children, subs, is_subscribe, pc, arg, asked, acked, due, got>>
  BY DEF Descend, InLoop, treeVars, clientVars, histVars
<1>2. b \in Names /\ h \in Nodes /\ h = Append(s, b) /\ s \in Nodes /\ s \in Seq(Names)
  BY <1>1, HereFacts, NodeFacts DEF Searching
<1>3. subhier'[t] = h /\ branch'[t] = c
  BY <1>1 DEF IInv, TypeInv
<1>4. Here(t)' = Append(h, c)
  BY <1>3 DEF Here
<1>5. ASSUME NEW l \in due[t], Coming(t, l) PROVE Coming(t, l)'
  <2>1. l.node \in Seq(Names) /\ Linked(children, l.node)
    BY DueFacts
  <2>2. Ahead(children, s, b, l.node) \/ AtOrBelow(l.node, h)
    BY <1>1, <1>5 DEF Coming
  <2>3. CASE Ahead(children, s, b, l.node) \/ l.node = h
    <3>1. Ahead(children, Append(s, b), c, l.node)
      BY <1>2, <2>3, AheadDown
    <3> QED
      BY <1>1, <1>2, <1>3, <3>1 DEF Coming
  <2>4. CASE AtOrBelow(l.node, h) /\ l.node # h
    <3>1. c # NULL /\ (Ahead(children, h, c, l.node) \/ AtOrBelow(l.node, Append(h, c)))
      BY <1>2, <2>1, <2>4, TreeOf, AheadFirst
    <3> QED
      BY <1>1, <1>3, <1>4, <3>1 DEF Coming
  <2> QED
    BY <2>2, <2>3, <2>4
<1> QED
  BY <1>1, <1>5, SearchStepKeepsDue DEF SearchStep, Searching

(* A '#' has no children, so what is due below it is the '#' itself.       *)
LEMMA ProcessHashKeepsDue ==
    ASSUME IInv, MissInv, NEW t \in Threads, ProcessHash(t)
    PROVE  MissInv'
<1> DEFINE h == Here(t)
<1>1. /\ pc[t] = "search" /\ branch[t] # NULL /\ children[h] = <<>>
      /\ pc' = [pc EXCEPT ![t] = "leaves"]
      /\ UNCHANGED <<children, subs, is_subscribe, arg, subhier, branch, leaf, asked, acked,
                     due, got>>
  BY DEF ProcessHash, InLoop, HashMatches, Goto, treeVars, clientVars, histVars
<1>2. h \in Nodes /\ subs[h] \in Seq(Clients)
  BY <1>1, HereFacts DEF Searching, IInv, TypeInv
<1>3. pc'[t] = "leaves" /\ leaf[t] = 1
  BY <1>1 DEF IInv, TypeInv, LocalInv
<1>4. Here(t)' = h
  BY <1>1 DEF Here
<1>5. ASSUME NEW l \in due[t], Coming(t, l) PROVE Coming(t, l)'
  <2>1. /\ l.node \in Seq(Names) /\ Linked(children, l.node)
        /\ l.context \in Range(subs[l.node])
    BY DueFacts
  <2>2. CASE Ahead(children, subhier[t], branch[t], l.node)
    BY <1>1, <2>2 DEF Coming
  <2>3. CASE AtOrBelow(l.node, h)
    <3>1. l.node = h
      <4>1. l.node # h => First(children[h]) # NULL
        BY <1>2, <2>1, <2>3, TreeOf, AheadFirst
      <4> QED
        BY <1>1, <4>1 DEF First
    <3>2. PICK i \in DOMAIN subs[h] : subs[h][i] = l.context
      BY <1>2, <2>1, <3>1, InRange
    <3>3. i >= 1
      BY <1>2, InRange
    <3> QED
      BY <1>1, <1>3, <1>4, <3>1, <3>2, <3>3 DEF Coming
  <2> QED
    BY <1>1, <1>5, <2>2, <2>3 DEF Coming
<1> QED
  BY <1>1, <1>3, <1>5, SearchStepKeepsDue DEF SearchStep, Searching

(* Nothing that is due lies below a child that is skipped.                 *)
LEMMA SkipKeepsDue ==
    ASSUME WellFormed, IInv, MissInv, NEW t \in Threads, Skip(t)
    PROVE  MissInv'
<1> DEFINE s == subhier[t]
           b == branch[t]
           n == Behind(children[s], b)
<1>1. /\ pc[t] = "search" /\ b # NULL /\ ~TokenMatches(t) /\ ~HashMatches(t)
      /\ branch' = [branch EXCEPT ![t] = n]
      /\ UNCHANGED <<children, subs, is_subscribe, pc, arg, subhier, asked, acked, due, got>>
  BY DEF Skip, InLoop, NextBranch, treeVars, clientVars, histVars
<1>2. b \in Range(children[s]) /\ s \in Nodes
  BY <1>1, HereFacts DEF Searching
<1>3. branch'[t] = n
  BY <1>1 DEF IInv, TypeInv
<1>4. Here(t)' = Append(s, n)
  BY <1>1, <1>3 DEF Here
<1>5. ASSUME NEW l \in due[t], Coming(t, l) PROVE Coming(t, l)'
  <2>1. l.node \in Seq(Names) /\ \E f \in Filters : PathOf(f) = l.node /\ Match(f, arg[t])
    BY DueFacts
  <2>2. ~AtOrBelow(l.node, Here(t))
    BY <1>1, <2>1, NotSkipped
  <2>3. Ahead(children, s, b, l.node)
    BY <1>1, <1>5, <2>2 DEF Coming
  <2>4. Ahead(children, s, n, l.node) \/ (n # NULL /\ AtOrBelow(l.node, Append(s, n)))
    BY <1>2, <2>1, <2>3, TreeOf, AheadNext
  <2> QED
    BY <1>1, <1>3, <1>4, <2>4 DEF Coming
<1> QED
  BY <1>1, <1>5, SearchStepKeepsDue DEF SearchStep, Searching

(* What is due at the child is next if the token was the last one, and     *)
(* nothing is due there if it was not.                                     *)
LEMMA AscendKeepsDue ==
    ASSUME WellFormed, IInv, MissInv, NEW t \in Threads, Ascend(t)
    PROVE  MissInv'
<1> DEFINE s == subhier[t]
           p == Front(s)
           b == Last(s)
           n == Behind(children[p], b)
<1>1. /\ pc[t] = "search" /\ branch[t] = NULL /\ s # Root
      /\ subhier' = [subhier EXCEPT ![t] = p]
      /\ IF LastToken(t, p)
         THEN pc' = [pc EXCEPT ![t] = "leaves"] /\ branch' = [branch EXCEPT ![t] = b]
         ELSE pc' = pc /\ branch' = [branch EXCEPT ![t] = n]
      /\ UNCHANGED <<children, subs, is_subscribe, arg, leaf, asked, acked, due, got>>
  BY DEF Ascend, NextBranch, Goto, treeVars, clientVars, histVars
<1>2. /\ s \in Nodes /\ Linked(children, s) /\ leaf[t] = 1 /\ subs[s] \in Seq(Clients)
      /\ pc \in [Threads -> Adding \cup Searching \cup {"idle", "lock", "added", "failed"}]
      /\ subhier \in [Threads -> Nodes] /\ branch \in [Threads -> Names \cup {NULL}]
  BY <1>1 DEF IInv, TypeInv, WalkInv, LocalInv, Searching
<1>3. p \in Nodes /\ b \in Range(children[p]) /\ s = Append(p, b)
  BY <1>1, <1>2, LinkedFront
<1>4. ASSUME NEW l \in due[t], Coming(t, l)
      PROVE  /\ Ahead(children, p, b, l.node) \/ l.node = s
             /\ l.node = s => LastToken(t, p)
             /\ l.node \in Seq(Names) /\ l.context \in Range(subs[l.node])
  <2>1. /\ l.node \in Seq(Names) /\ l.context \in Range(subs[l.node])
        /\ \E f \in Filters : PathOf(f) = l.node /\ Match(f, arg[t])
    BY DueFacts
  <2>2. Ahead(children, s, NULL, l.node)
    BY <1>1, <1>4 DEF Coming
  <2>3. Ahead(children, p, b, l.node) \/ l.node = s
    BY <1>1, <1>2, <2>1, <2>2, TreeOf, AheadUp
  <2>4. l.node = s => LastToken(t, p)
    BY <1>1, <2>1, LeftWithLast
  <2> QED
    BY <2>1, <2>3, <2>4
<1> HIDE DEF s, p, b, n
<1>5. subhier'[t] = p
  BY <1>1, <1>2
<1>6. CASE LastToken(t, p)
  <2>1. pc'[t] = "leaves" /\ branch'[t] = b
    BY <1>1, <1>2, <1>6
  <2>2. Here(t)' = s
    BY <1>3, <1>5, <2>1 DEF Here
  <2>3. ASSUME NEW l \in due[t], Coming(t, l) PROVE Coming(t, l)'
    <3>1. CASE Ahead(children, p, b, l.node)
      BY <1>1, <1>5, <2>1, <3>1 DEF Coming
    <3>2. CASE l.node = s
      <4>1. l.context \in Range(subs[s])
        BY <1>4, <2>3, <3>2
      <4>2. PICK i \in DOMAIN subs[s] : subs[s][i] = l.context
        BY <1>2, <4>1, InRange
      <4>3. i >= 1
        BY <1>2, InRange
      <4> QED
        BY <1>1, <1>2, <2>1, <2>2, <3>2, <4>2, <4>3 DEF Coming
    <3> QED
      BY <1>4, <2>3, <3>1, <3>2
  <2> QED
    BY <1>1, <2>1, <2>3, SearchStepKeepsDue DEF SearchStep, Searching
<1>7. CASE ~LastToken(t, p)
  <2>1. pc'[t] = "search" /\ branch'[t] = n
    BY <1>1, <1>2, <1>7
  <2>2. Here(t)' = Append(p, n)
    BY <1>5, <2>1 DEF Here
  <2>3. ASSUME NEW l \in due[t], Coming(t, l) PROVE Coming(t, l)'
    <3>1. Ahead(children, p, b, l.node) /\ l.node \in Seq(Names)
      BY <1>4, <1>7, <2>3
    <3>2. Ahead(children, p, n, l.node) \/ (n # NULL /\ AtOrBelow(l.node, Append(p, n)))
      BY <1>3, <3>1, TreeOf, AheadNext DEF n
    <3> QED
      BY <1>1, <1>5, <2>1, <2>2, <3>2 DEF Coming
  <2> QED
    BY <1>1, <2>1, <2>3, SearchStepKeepsDue DEF SearchStep, Searching
<1> QED
  BY <1>6, <1>7

(* All leaves of the child have been delivered to.                         *)
LEMMA LeavesDoneKeepsDue ==
    ASSUME IInv, MissInv, NEW t \in Threads, LeavesDone(t)
    PROVE  MissInv'
<1> DEFINE s == subhier[t]
           b == branch[t]
           h == Here(t)
           n == Behind(children[s], b)
<1>1. /\ pc[t] = "leaves" /\ leaf[t] > Len(subs[h])
      /\ branch' = [branch EXCEPT ![t] = n]
      /\ pc' = [pc EXCEPT ![t] = "search"]
      /\ UNCHANGED <<children, subs, is_subscribe, arg, subhier, asked, acked, due, got>>
  BY DEF LeavesDone, NextBranch, Goto, treeVars, clientVars, histVars
<1>2. b # NULL /\ leaf[t] \in Nat
  BY <1>1 DEF IInv, TypeInv, WalkInv, Searching
<1>3. b \in Range(children[s]) /\ s \in Nodes /\ h \in Nodes
  BY <1>1, <1>2, HereFacts DEF Searching
<1>4. branch'[t] = n /\ pc'[t] = "search"
  BY <1>1 DEF IInv, TypeInv
<1>5. Here(t)' = Append(s, n)
  BY <1>1, <1>4 DEF Here
<1>6. \A i \in DOMAIN subs[h] : ~(i >= leaf[t])
  <2>1. subs[h] \in Seq(Clients)
    BY <1>3 DEF IInv, TypeInv
  <2>2. DOMAIN subs[h] = 1..Len(subs[h]) /\ Len(subs[h]) \in Nat
    BY <2>1, InRange
  <2> QED
    BY <1>1, <1>2, <2>2
<1>7. ASSUME NEW l \in due[t], Coming(t, l) PROVE Coming(t, l)'
  <2>1. l.node \in Seq(Names)
    BY DueFacts
  <2>2. Ahead(children, s, b, l.node)
    BY <1>1, <1>6, <1>7 DEF Coming
  <2>3. Ahead(children, s, n, l.node) \/ (n # NULL /\ AtOrBelow(l.node, Append(s, n)))
    BY <1>3, <2>1, <2>2, TreeOf, AheadNext
  <2> QED
    BY <1>1, <1>4, <1>5, <2>3 DEF Coming
<1> QED
  BY <1>1, <1>4, <1>7, SearchStepKeepsDue DEF SearchStep, Searching

(* The search is over, with nothing ahead.                                 *)
LEMMA SearchDoneKeepsDue ==
    ASSUME IInv, MissInv, NEW t \in Threads, SearchDone(t)
    PROVE  MissInv'
<1>1. /\ pc[t] = "search" /\ branch[t] = NULL
      /\ pc' = [pc EXCEPT ![t] = "searched"]
      /\ UNCHANGED <<children, subs, is_subscribe, arg, subhier, branch>>
      /\ UNCHANGED <<asked, acked, due, got>>
  BY DEF SearchDone, Goto, treeVars, clientVars, histVars
<1>2. pc'[t] = "searched"
  BY <1>1 DEF IInv, TypeInv
<1>3. ASSUME NEW l \in due[t], Coming(t, l) PROVE Coming(t, l)'
  BY <1>1, <1>3 DEF Coming
<1> QED
  BY <1>1, <1>2, <1>3, SearchStepKeepsDue DEF SearchStep, Searching

(* The leaf is delivered to if it is due, as its flag is set.              *)
LEMMA DeliverKeepsDue ==
    ASSUME IInv, MissInv, NEW t \in Threads, Deliver(t)
    PROVE  MissInv'
<1> DEFINE h == Here(t)
           i == leaf[t]
           c == subs[h][i]
           new == [node |-> h, context |-> c]
           longer == Append(got[t], new)
<1>1. /\ pc[t] = "leaves" /\ i <= Len(subs[h])
      /\ leaf' = [leaf EXCEPT ![t] = i + 1]
      /\ UNCHANGED <<children, subs, is_subscribe, pc, arg, subhier, branch>>
      /\ UNCHANGED <<asked, acked, due>>
  BY DEF Deliver, treeVars, clientVars
<1>2. \/ is_subscribe[c] /\ got' = [got EXCEPT ![t] = longer]
      \/ ~is_subscribe[c] /\ got' = got
  BY DEF Deliver
<1>3. /\ branch[t] # NULL /\ got \in [Threads -> Seq(Leaves)]
      /\ leaf \in [Threads -> Nat \ {0}]
  BY <1>1 DEF IInv, TypeInv, WalkInv, Searching
<1>4. h \in Nodes
  BY <1>1, <1>3, HereFacts DEF Searching
<1>5. subs[h] \in Seq(Clients)
  BY <1>4 DEF IInv, TypeInv
<1>6. c \in Clients
  <2>1. i \in DOMAIN subs[h]
    BY <1>1, <1>3, <1>5
  <2> QED
    BY <1>5, <2>1, InRange
<1>7. new \in Leaves
  BY <1>4, <1>6 DEF Leaves
<1>8. leaf'[t] = i + 1 /\ Here(t)' = h /\ i \in Nat
  BY <1>1, <1>3 DEF Here
<1> HIDE DEF new
<1>9. Range(longer) = Range(got[t]) \cup {new}
  <2>1. got[t] \in Seq(Leaves)
    BY <1>3
  <2> QED
    BY <1>7, <2>1, AppendProperties DEF Range
<1> HIDE DEF longer
<1>10. /\ is_subscribe[c] => got'[t] = longer
       /\ ~is_subscribe[c] => got'[t] = got[t]
  BY <1>2, <1>3
<1>11. /\ Range(got[t]) \subseteq Range(got'[t])
       /\ is_subscribe[c] => new \in Range(got'[t])
  BY <1>9, <1>10
<1>12. ASSUME NEW l \in due[t], Coming(t, l)
       PROVE  l \in Range(got'[t]) \/ Coming(t, l)'
  <2>1. l \in Leaves /\ is_subscribe[l.context]
    BY DueFacts
  <2>2. CASE Ahead(children, subhier[t], branch[t], l.node)
    BY <1>1, <2>2 DEF Coming
  <2>3. CASE ~Ahead(children, subhier[t], branch[t], l.node)
    <3>1. l.node = h /\ \E j \in DOMAIN subs[h] : j >= i /\ subs[h][j] = l.context
      BY <1>1, <1>12, <2>3 DEF Coming
    <3>2. PICK j \in DOMAIN subs[h] : j >= i /\ subs[h][j] = l.context
      BY <3>1
    <3>3. j \in Nat
      BY <1>5, InRange
    <3>4. CASE j = i
      <4>1. l = new
        BY <2>1, <3>1, <3>2, <3>4 DEF Leaves, new
      <4>2. is_subscribe[c]
        BY <2>1, <3>2, <3>4
      <4> QED
        BY <1>11, <4>1, <4>2
    <3>5. CASE j # i
      <4>1. j >= i + 1
        BY <1>8, <3>2, <3>3, <3>5
      <4> QED
        BY <1>1, <1>8, <3>1, <3>2, <4>1 DEF Coming
    <3> QED
      BY <3>4, <3>5
  <2> QED
    BY <2>2, <2>3
<1> QED
  BY <1>1, <1>11, <1>12, SearchStepKeepsDue DEF SearchStep, Searching

(* Nothing is due any more.                                                *)
LEMMA SearchReturnKeepsDue ==
    ASSUME IInv, MissInv, IInv', NEW t \in Threads, SearchReturn(t)
    PROVE  MissInv'
<1>1. /\ pc' = [pc EXCEPT ![t] = "idle"]
      /\ UNCHANGED <<children, subs, is_subscribe, asked, acked>>
  BY DEF SearchReturn, Return, Goto, treeVars, clientVars
<1>2. pc'[t] = "idle"
  BY <1>1 DEF IInv, TypeInv
<1>3. Grows /\ \A u \in Threads \ {t} : Keeps(u)
  BY <1>1, TreeStays, OthersKept DEF SearchStep
<1>4. DueInv(t)'
  BY <1>2, NothingDue DEF Searching
<1> QED
  BY <1>1, <1>2, <1>3, <1>4, StepKeepsDue
-----------------------------------------------------------------------------
(* Whoever got SUBACK 0 for a matching filter before the search began, and *)
(* stays connected, is delivered to before it ends, whatever other threads *)
(* add to the lists that _sub_search walks through without root_lock.      *)
(* WellFormed is needed: with a '#' that has children the message is lost  *)
(* (see the run tree_invalid_filter), and with a shared identifier the     *)
(* second slot gets no leaf.                                               *)
THEOREM DeliversAll == ASSUME WellFormed PROVE Spec => []NoneMissed
<1>1. Init => MissInv
  <2> SUFFICES ASSUME Init PROVE MissInv
    OBVIOUS
  <2>1. /\ acked = [c \in Clients |-> {}] /\ due = [t \in Threads |-> {}]
        /\ pc = [t \in Threads |-> "idle"]
    BY DEF Init
  <2> QED
    BY <2>1 DEF MissInv, AckInv, DueInv
<1>2. IInv /\ MissInv /\ [Next]_vars => MissInv'
  <2> SUFFICES ASSUME IInv, MissInv, [Next]_vars PROVE MissInv'
    OBVIOUS
  <2>1. IInv'
    BY NextKeeps
  <2>2. ASSUME NEW c \in Clients, NEW i \in IdsOf[c], Connect(c, i) PROVE MissInv'
    BY <2>2, ConnectKeepsDue
  <2>3. ASSUME NEW c \in Clients, Disconnect(c) PROVE MissInv'
    BY <2>1, <2>3, DisconnectKeepsDue
  <2>4. ASSUME NEW c \in Clients, NEW f \in FiltersOf[c], Subscribe(c, f) PROVE MissInv'
    BY <2>1, <2>4, SubscribeKeepsDue
  <2>5. ASSUME NEW t \in Threads, Lock(t) \/ AddStep(t) PROVE MissInv'
    BY <2>1, <2>5, AddStepKeepsDue
  <2>6. ASSUME NEW t \in Threads, NEW topic \in Topics, Search(t, topic) PROVE MissInv'
    BY <2>6, SearchKeepsDue
  <2>7. ASSUME NEW t \in Threads, SearchStep(t) PROVE MissInv'
    BY <2>1, <2>7, DescendKeepsDue, ProcessHashKeepsDue, SkipKeepsDue, AscendKeepsDue,
       DeliverKeepsDue, LeavesDoneKeepsDue, SearchDoneKeepsDue,
       SearchReturnKeepsDue
    DEF SearchStep
  <2>8. CASE UNCHANGED vars
    <3>1. UNCHANGED <<children, subs, is_subscribe, pc, context, arg, subhier, branch, leaf,
                      acked, due, got>>
      BY <2>8 DEF vars, treeVars, clientVars, thrVars, histVars
    <3>2. AckInv'
      BY <3>1 DEF MissInv, AckInv
    <3>3. ASSUME NEW t \in Threads PROVE DueInv(t)'
      <4>1. \A l \in due[t] : Coming(t, l)' = Coming(t, l)
        BY <3>1 DEF Coming, Here
      <4> QED
        BY <3>1, <4>1 DEF MissInv, DueInv
    <3> QED
      BY <3>2, <3>3 DEF MissInv
  <2>9. ASSUME NEW t \in Threads, NEW topic \in Topics, SearchFails(t, topic) PROVE MissInv'
    BY <2>8, <2>9 DEF SearchFails
  <2> QED
    BY <2>2, <2>3, <2>4, <2>5, <2>6, <2>7, <2>8, <2>9 DEF Next
<1>3. IInv /\ MissInv => NoneMissed
  <2> SUFFICES ASSUME IInv, MissInv, NEW t \in Threads, pc[t] = "searched"
               PROVE  due[t] \subseteq Range(got[t])
    BY DEF NoneMissed
  <2>1. subhier[t] = Root /\ branch[t] = NULL
    BY DEF IInv, LocalInv
  <2>2. ASSUME NEW l \in due[t] PROVE l \in Range(got[t])
    <3>1. ~Ahead(children, subhier[t], branch[t], l.node)
      BY <2>1, TreeOf, NothingAhead
    <3> QED
      BY <3>1 DEF MissInv, DueInv, Coming
  <2> QED
    BY <2>2
<1> QED
  BY <1>1, <1>2, <1>3, Invariant, PTL DEF Spec
=============================================================================
