-------------------------- MODULE MqttCodecProofs --------------------------
(***************************************************************************)
(* Proofs about MqttCodec, for every digit base, string length and payload *)
(* length: TypeOK, StringsInside, HandlerHasAll, WriteFits and Readable    *)
(* hold in every reachable state.                                          *)
(*                                                                         *)
(* First the arithmetic of the fixed header: HeaderFacts, that the bytes   *)
(* LengthBytes emits for a length are as many as LengthSize counts and are *)
(* read back as that length.  Then the parser and the serialiser, with the *)
(* inductive invariant IInv:                                               *)
(*   TypeInv     the types, and the states a packet of each type can be in;*)
(*   CursorInv   where the cursor is;                                      *)
(*   StringsInv  while the parser runs all strings end at or before the    *)
(*               cursor, so the next one cannot overlap them;              *)
(*   HandlerInv  what the states know that come before the end of a packet,*)
(*               so that msg_len does not wrap;                            *)
(*   OutInv      what was serialised last.                                 *)
(* There is one lemma per action.                                          *)
(***************************************************************************)
EXTENDS MqttCodec, SequenceTheorems, TLAPS

(* Products of natural numbers are natural numbers. *)
LEMMA NatTimes == \A x, y \in Nat : x * y \in Nat
  OBVIOUS

(* A number is its quotient times the divisor, plus the remainder.         *)
LEMMA Division ==
    ASSUME NEW n \in Nat, NEW b \in Nat, b > 0
    PROVE  /\ n \div b \in Nat /\ n % b \in 0..(b - 1)
           /\ n = b * (n \div b) + (n % b)
  OBVIOUS

(* A quotient is below k exactly if the number is below k times the        *)
(* divisor.                                                                *)
LEMMA DivisionBound ==
    ASSUME NEW n \in Nat, NEW b \in Nat, b > 0, NEW k \in Nat
    PROVE  n \div b < k <=> n < b * k
<1> DEFINE q == n \div b
           r == n % b
<1>1. q \in Nat /\ r \in 0..(b - 1) /\ n = b * q + r
  BY Division
<1> HIDE DEF q, r
<1>2. CASE q < k
  <2>1. q + 1 <= k
    BY <1>1, <1>2
  <2>2. b * (q + 1) <= b * k
    BY <1>1, <2>1
  <2>3. b * (q + 1) = b * q + b
    BY <1>1
  <2>4. b * q \in Nat /\ b * k \in Nat
    BY <1>1, NatTimes
  <2>5. n < b * k
    BY <1>1, <2>2, <2>3, <2>4
  <2> QED
    BY <1>2, <2>5 DEF q
<1>3. CASE ~(q < k)
  <2>1. k <= q
    BY <1>1, <1>3
  <2>2. b * k <= b * q
    BY <1>1, <2>1
  <2>4. b * q \in Nat /\ b * k \in Nat
    BY <1>1, NatTimes
  <2>5. ~(n < b * k)
    BY <1>1, <2>2, <2>4
  <2> QED
    BY <1>3, <2>5 DEF q
<1> QED
  BY <1>2, <1>3

(* One more byte in front. *)
InFront(a, s) == <<a>> \o s

(* t is s with a in front, by its first elements. *)
Prepended(a, s, t) ==
    /\ t \in Seq(Nat) /\ Len(t) = Len(s) + 1 /\ t[1] = a
    /\ Len(s) >= 1 => t[2] = s[1]
    /\ Len(s) >= 2 => t[3] = s[2]
    /\ Len(s) >= 3 => t[4] = s[3]
    /\ Len(s) >= 4 => t[5] = s[4]

(* Concatenation puts one byte in front.                                   *)
LEMMA Prepend ==
    ASSUME NEW a \in Nat, NEW s \in Seq(Nat)
    PROVE  Prepended(a, s, InFront(a, s))
<1> DEFINE t == <<a>> \o s
<1>1. <<a>> \in Seq(Nat) /\ Len(<<a>>) = 1 /\ <<a>>[1] = a
  OBVIOUS
<1>2. Len(s) \in Nat
  OBVIOUS
<1>3. t \in Seq(Nat) /\ Len(t) = Len(s) + 1 /\ t[1] = a
  BY <1>1, <1>2, ConcatProperties
<1>4. \A i \in 2..(Len(s) + 1) : t[i] = s[i - 1]
  BY <1>1, <1>2, ConcatProperties
<1> HIDE DEF t
<1>5. /\ Len(s) >= 1 => t[2] = s[1]
      /\ Len(s) >= 2 => t[3] = s[2]
      /\ Len(s) >= 3 => t[4] = s[3]
      /\ Len(s) >= 4 => t[5] = s[4]
  BY <1>2, <1>4
<1>6. InFront(a, s) = t
  BY DEF InFront, t
<1> QED
  BY <1>3, <1>5, <1>6 DEF Prepended

(* A single one. *)
LEMMA Single ==
    ASSUME NEW a \in Nat
    PROVE  <<a>> \in Seq(Nat) /\ Len(<<a>>) = 1 /\ <<a>>[1] = a
  OBVIOUS

(* The digits of a length below Weight(5), and how many there are. *)
LEMMA Digits ==
    ASSUME NEW n \in 0..(Weight(5) - 1),
           NEW n2, n2 = n \div BASE, NEW n3, n3 = n2 \div BASE, NEW n4, n4 = n3 \div BASE
    PROVE  /\ n \in Nat /\ n2 \in Nat /\ n3 \in Nat /\ n4 \in Nat
           /\ n = BASE * n2 + (n % BASE) /\ n2 = BASE * n3 + (n2 % BASE)
           /\ n3 = BASE * n4 + (n3 % BASE)
           /\ n4 < BASE /\ n4 \div BASE = 0 /\ n4 % BASE = n4
           /\ n2 = 0 <=> n <= Weight(2) - 1
           /\ n3 = 0 <=> n <= Weight(3) - 1
           /\ n4 = 0 <=> n <= Weight(4) - 1
<1> DEFINE b2 == BASE * BASE
           b3 == BASE * b2
           b4 == BASE * b3
<1>0. BASE \in Nat /\ BASE > 1
  BY HeaderAssumption
<1>1. b2 \in Nat /\ b3 \in Nat /\ b4 \in Nat
  BY <1>0, NatTimes
<1>2. Weight(2) = BASE /\ Weight(3) = b2 /\ Weight(4) = b3 /\ Weight(5) = b4
  <2>1. BASE * BASE * BASE = BASE * (BASE * BASE)
    BY <1>0
  <2>2. BASE * BASE * BASE * BASE = BASE * (BASE * (BASE * BASE))
    BY <1>0
  <2> QED
    BY <2>1, <2>2 DEF Weight
<1> HIDE DEF b2
<1>3. n \in Nat /\ n < b4
  BY <1>1, <1>2
<1>4. n2 \in Nat /\ n = BASE * n2 + (n % BASE) /\ (n2 < 1 <=> n < BASE * 1)
      /\ (n2 < BASE <=> n < b2) /\ (n2 < b2 <=> n < b3) /\ (n2 < b3 <=> n < b4)
  BY <1>0, <1>1, <1>3, Division, DivisionBound DEF b2
<1>5. n3 \in Nat /\ n2 = BASE * n3 + (n2 % BASE) /\ (n3 < 1 <=> n2 < BASE * 1)
      /\ (n3 < BASE <=> n2 < b2) /\ (n3 < b2 <=> n2 < b3)
  BY <1>0, <1>1, <1>4, Division, DivisionBound DEF b2
<1>6. n4 \in Nat /\ n3 = BASE * n4 + (n3 % BASE) /\ (n4 < 1 <=> n3 < BASE * 1)
      /\ (n4 < BASE <=> n3 < b2)
  BY <1>0, <1>1, <1>5, Division, DivisionBound DEF b2
<1> HIDE DEF b3, b4
<1>7. n4 < BASE
  BY <1>3, <1>4, <1>5, <1>6
<1>8. n4 \div BASE = 0 /\ n4 % BASE = n4
  BY <1>0, <1>6, <1>7
<1>9. /\ n2 = 0 <=> n <= BASE - 1
      /\ n3 = 0 <=> n <= b2 - 1
      /\ n4 = 0 <=> n <= b3 - 1
  BY <1>0, <1>1, <1>3, <1>4, <1>5, <1>6
<1> QED
  BY <1>2, <1>3, <1>4, <1>5, <1>6, <1>7, <1>8, <1>9

(* The header that mqtt_serialiser_write emits for a length below          *)
(* Weight(5): as many bytes as mqtt_serialiser_size counts, the            *)
(* continuation bit on all but the last, and the length is what they say.  *)
LEMMA HeaderFacts ==
    ASSUME NEW n \in 0..(Weight(5) - 1)
    PROVE  LET h == <<0>> \o LengthBytes(n) IN
           /\ LengthSize(n) \in Nat /\ Len(LengthBytes(n)) = LengthSize(n)
           /\ Len(h) = 1 + LengthSize(n)
           /\ \A i \in 2..Len(h) : More(h[i]) <=> i < Len(h)
           /\ LengthOf(h) = n
<1> DEFINE n2 == n \div BASE
           n3 == n2 \div BASE
           n4 == n3 \div BASE
           h == <<0>> \o LengthBytes(n)
           r1 == n % BASE
           r2 == n2 % BASE
           r3 == n3 % BASE
<1>1. /\ n \in Nat /\ n2 \in Nat /\ n3 \in Nat /\ n4 \in Nat
      /\ n = BASE * n2 + r1 /\ n2 = BASE * n3 + r2 /\ n3 = BASE * n4 + r3
      /\ n4 < BASE /\ n4 \div BASE = 0 /\ n4 % BASE = n4
      /\ n2 = 0 <=> n <= Weight(2) - 1
      /\ n3 = 0 <=> n <= Weight(3) - 1
      /\ n4 = 0 <=> n <= Weight(4) - 1
  BY Digits
<1>2. BASE \in Nat /\ BASE > 1
  BY HeaderAssumption
<1>3. r1 \in 0..(BASE - 1) /\ r2 \in 0..(BASE - 1) /\ r3 \in 0..(BASE - 1)
  BY <1>1, <1>2, Division
<1>4. n <= Weight(5) - 1
  BY <1>1
<1>5. /\ h = InFront(0, LengthBytes(n))
      /\ n2 = 0 => LengthBytes(n) = <<r1>>
      /\ n2 # 0 /\ n3 = 0 => LengthBytes(n) = InFront(r1 + BASE, <<r2>>)
      /\ n2 # 0 /\ n3 # 0 /\ n4 = 0 =>
            LengthBytes(n) = InFront(r1 + BASE, InFront(r2 + BASE, <<r3>>))
      /\ n2 # 0 /\ n3 # 0 /\ n4 # 0 =>
            LengthBytes(n) = InFront(r1 + BASE, InFront(r2 + BASE,
                                                        InFront(r3 + BASE, <<n4>>)))
  <2>1. \A s : LengthTurn(n, s) = IF n2 > 0 THEN InFront(r1 + BASE, s) ELSE <<r1>>
    BY DEF LengthTurn, InFront, Continuation
  <2>2. \A s : LengthTurn(n2, s) = IF n3 > 0 THEN InFront(r2 + BASE, s) ELSE <<r2>>
    BY DEF LengthTurn, InFront, Continuation
  <2>3. \A s : LengthTurn(n3, s) = IF n4 > 0 THEN InFront(r3 + BASE, s) ELSE <<r3>>
    BY DEF LengthTurn, InFront, Continuation
  <2>5. LengthTurn(n4, <<>>) = <<n4>>
    BY <1>1 DEF LengthTurn
  <2>6. LengthBytes(n) = LengthTurn(n, LengthTurn(n2, LengthTurn(n3, LengthTurn(n4, <<>>))))
    BY DEF LengthBytes
  <2>4. h = InFront(0, LengthBytes(n))
    BY DEF InFront
  <2> HIDE DEF h, n2, n3, n4, r1, r2, r3
  <2>7. (n2 > 0 <=> n2 # 0) /\ (n3 > 0 <=> n3 # 0) /\ (n4 > 0 <=> n4 # 0)
    BY <1>1
  <2> QED
    BY <2>1, <2>2, <2>3, <2>4, <2>5, <2>6, <2>7
<1>11. /\ 0 \in Nat /\ r1 \in Nat /\ r2 \in Nat /\ r3 \in Nat
       /\ r1 + BASE \in Nat /\ r2 + BASE \in Nat /\ r3 + BASE \in Nat
  BY <1>2, <1>3
<1>6. \A x \in 0..(BASE - 1) : /\ ~More(x) /\ More(x + BASE)
                              /\ Digit(x) = x /\ Digit(x + BASE) = x
  BY <1>2 DEF More, Digit
<1> HIDE DEF n2, n3, n4, r1, r2, r3, h
<1>7. CASE n2 = 0
  <2>1. Len(LengthBytes(n)) = 1 /\ Len(h) = 2 /\ h[2] = r1
    <3> DEFINE l == <<r1>>
    <3>1. LengthBytes(n) = l /\ l \in Seq(Nat) /\ Len(l) = 1 /\ l[1] = r1
      BY <1>5, <1>7, <1>11, Single
    <3> HIDE DEF l
    <3>2. Prepended(0, l, h)
      BY <3>1, <1>5, <1>11, Prepend
    <3> QED
      BY <3>1, <3>2 DEF Prepended
  <2>2. LengthSize(n) = 1
    BY <1>1, <1>7 DEF LengthSize
  <2>3. Len(h) = 2 /\ \A i \in 2..Len(h) : i = 2
    BY <2>1
  <2>4. \A i \in 2..Len(h) : More(h[i]) <=> i < Len(h)
    BY <2>1, <2>3, <1>3, <1>6
  <2>5. LengthOf(h) = r1
    BY <2>1, <1>2, <1>3, <1>6 DEF LengthOf, DigitAt, Weight
  <2>6. n = r1
    BY <1>1, <1>2, <1>3, <1>7
  <2> QED
    BY <2>1, <2>2, <2>3, <2>4, <2>5, <2>6 DEF h
<1>8. CASE n2 # 0 /\ n3 = 0
  <2> DEFINE m == <<r2>>
  <2>0. m \in Seq(Nat) /\ Len(m) = 1 /\ m[1] = r2
    BY <1>11, Single
  <2>1. /\ Len(LengthBytes(n)) = 2 /\ Len(h) = 3
        /\ h[2] = r1 + BASE /\ h[3] = r2
    <3>1. h = InFront(0, InFront(r1 + BASE, m)) /\ LengthBytes(n) = InFront(r1 + BASE, m)
      BY <1>5, <1>8
    <3> DEFINE l == InFront(r1 + BASE, m)
    <3> HIDE DEF m
    <3>2. Prepended(r1 + BASE, m, l)
      BY <2>0, <1>11, Prepend
    <3>3. l \in Seq(Nat) /\ Len(l) = 2 /\ l[1] = r1 + BASE /\ l[2] = r2
      BY <2>0, <3>2 DEF Prepended
    <3>9. LengthBytes(n) = l /\ h = InFront(0, l)
      BY <3>1
    <3> HIDE DEF l
    <3>4. Prepended(0, l, h)
      BY <3>9, <3>3, <1>11, Prepend
    <3> QED
      BY <3>9, <3>3, <3>4 DEF Prepended
  <2>2. LengthSize(n) = 2
    BY <1>1, <1>8 DEF LengthSize
  <2>3. Len(h) = 3 /\ \A i \in 2..Len(h) : i = 2 \/ i = 3
    BY <2>1
  <2>4. \A i \in 2..Len(h) : More(h[i]) <=> i < Len(h)
    BY <2>1, <2>3, <1>3, <1>6
  <2>5. LengthOf(h) = r1 + r2 * BASE
    BY <2>1, <1>2, <1>3, <1>6 DEF LengthOf, DigitAt, Weight
  <2>6. n = r1 + r2 * BASE
    BY <1>1, <1>2, <1>3, <1>8
  <2> QED
    BY <2>1, <2>2, <2>3, <2>4, <2>5, <2>6 DEF h
<1>9. CASE n2 # 0 /\ n3 # 0 /\ n4 = 0
  <2> DEFINE k == <<r3>>
             m == InFront(r2 + BASE, k)
  <2>0. k \in Seq(Nat) /\ Len(k) = 1 /\ k[1] = r3
    BY <1>11, Single
  <2>1. /\ Len(LengthBytes(n)) = 3 /\ Len(h) = 4
        /\ h[2] = r1 + BASE /\ h[3] = r2 + BASE /\ h[4] = r3
    <3>1. h = InFront(0, InFront(r1 + BASE, m)) /\ LengthBytes(n) = InFront(r1 + BASE, m)
      BY <1>5, <1>9
    <3> HIDE DEF k
    <3>2. Prepended(r2 + BASE, k, m)
      BY <2>0, <1>11, Prepend
    <3>3. m \in Seq(Nat) /\ Len(m) = 2 /\ m[1] = r2 + BASE /\ m[2] = r3
      BY <2>0, <3>2 DEF Prepended
    <3> DEFINE l == InFront(r1 + BASE, m)
    <3> HIDE DEF m
    <3>4. Prepended(r1 + BASE, m, l)
      BY <3>3, <1>11, Prepend
    <3>5. /\ l \in Seq(Nat) /\ Len(l) = 3
          /\ l[1] = r1 + BASE /\ l[2] = r2 + BASE /\ l[3] = r3
      BY <3>3, <3>4 DEF Prepended
    <3>9. LengthBytes(n) = l /\ h = InFront(0, l)
      BY <3>1
    <3> HIDE DEF l
    <3>6. Prepended(0, l, h)
      BY <3>9, <3>5, <1>11, Prepend
    <3> QED
      BY <3>9, <3>5, <3>6 DEF Prepended
  <2>2. LengthSize(n) = 3
    BY <1>1, <1>9 DEF LengthSize
  <2>3. Len(h) = 4 /\ \A i \in 2..Len(h) : i = 2 \/ i = 3 \/ i = 4
    BY <2>1
  <2>4. \A i \in 2..Len(h) : More(h[i]) <=> i < Len(h)
    BY <2>1, <2>3, <1>3, <1>6
  <2>5. LengthOf(h) = r1 + r2 * BASE + r3 * (BASE * BASE)
    BY <2>1, <1>2, <1>3, <1>6 DEF LengthOf, DigitAt, Weight
  <2>6. n = r1 + r2 * BASE + r3 * (BASE * BASE)
    BY <1>1, <1>2, <1>3, <1>9
  <2> QED
    BY <2>1, <2>2, <2>3, <2>4, <2>5, <2>6 DEF h
<1>10. CASE n2 # 0 /\ n3 # 0 /\ n4 # 0
  <2> DEFINE j == <<n4>>
             k == InFront(r3 + BASE, j)
             m == InFront(r2 + BASE, k)
  <2>0. j \in Seq(Nat) /\ Len(j) = 1 /\ j[1] = n4
    BY <1>1, Single
  <2>1. /\ Len(LengthBytes(n)) = 4 /\ Len(h) = 5
        /\ h[2] = r1 + BASE /\ h[3] = r2 + BASE /\ h[4] = r3 + BASE /\ h[5] = n4
    <3>1. h = InFront(0, InFront(r1 + BASE, m)) /\ LengthBytes(n) = InFront(r1 + BASE, m)
      BY <1>5, <1>10
    <3> HIDE DEF j
    <3>2. Prepended(r3 + BASE, j, k)
      BY <2>0, <1>11, Prepend
    <3>3. k \in Seq(Nat) /\ Len(k) = 2 /\ k[1] = r3 + BASE /\ k[2] = n4
      BY <2>0, <3>2 DEF Prepended
    <3> HIDE DEF k
    <3>4. Prepended(r2 + BASE, k, m)
      BY <3>3, <1>11, Prepend
    <3>5. /\ m \in Seq(Nat) /\ Len(m) = 3
          /\ m[1] = r2 + BASE /\ m[2] = r3 + BASE /\ m[3] = n4
      BY <3>3, <3>4 DEF Prepended
    <3> DEFINE l == InFront(r1 + BASE, m)
    <3> HIDE DEF m
    <3>6. Prepended(r1 + BASE, m, l)
      BY <3>5, <1>11, Prepend
    <3>7. /\ l \in Seq(Nat) /\ Len(l) = 4
          /\ l[1] = r1 + BASE /\ l[2] = r2 + BASE /\ l[3] = r3 + BASE /\ l[4] = n4
      BY <3>5, <3>6 DEF Prepended
    <3>9. LengthBytes(n) = l /\ h = InFront(0, l)
      BY <3>1
    <3> HIDE DEF l
    <3>8. Prepended(0, l, h)
      BY <3>9, <3>7, <1>11, Prepend
    <3> QED
      BY <3>9, <3>7, <3>8 DEF Prepended
  <2>2. LengthSize(n) = 4
    BY <1>1, <1>4, <1>10 DEF LengthSize
  <2>3. Len(h) = 5 /\ \A i \in 2..Len(h) : i = 2 \/ i = 3 \/ i = 4 \/ i = 5
    BY <2>1
  <2>4. \A i \in 2..Len(h) : More(h[i]) <=> i < Len(h)
    <3>1. n4 \in 0..(BASE - 1)
      BY <1>1, <1>2
    <3>2. More(h[2]) /\ More(h[3]) /\ More(h[4]) /\ ~More(h[5])
      BY <2>1, <3>1, <1>3, <1>6
    <3> QED
      BY <2>1, <2>3, <3>2
  <2>5. LengthOf(h) = r1 + r2 * BASE + r3 * (BASE * BASE) + n4 * (BASE * BASE * BASE)
    <3>1. n4 \in 0..(BASE - 1)
      BY <1>1, <1>2
    <3>2. Digit(r1 + BASE) = r1 /\ Digit(r2 + BASE) = r2 /\ Digit(r3 + BASE) = r3 /\ Digit(n4) = n4
      BY <3>1, <1>3, <1>6
    <3>3. /\ DigitAt(h, 1) = r1 /\ DigitAt(h, 2) = r2 * BASE
          /\ DigitAt(h, 3) = r3 * (BASE * BASE) /\ DigitAt(h, 4) = n4 * (BASE * BASE * BASE)
      BY <2>1, <3>2, <1>2, <1>3 DEF DigitAt, Weight
    <3> QED
      BY <3>3 DEF LengthOf
  <2>6. n = r1 + r2 * BASE + r3 * (BASE * BASE) + n4 * (BASE * BASE * BASE)
    BY <1>1, <1>2, <1>3
  <2> QED
    BY <2>1, <2>2, <2>3, <2>4, <2>5, <2>6 DEF h
<1> QED
  BY <1>7, <1>8, <1>9, <1>10
-----------------------------------------------------------------------------
(* The parser's states for a CONNECT before and behind the client's        *)
(* identifier.                                                             *)
ConnectStates == {"CONNECT_PROTOCOL_NAME", "CONNECT_PROTOCOL_VERSION", "CONNECT_FLAGS",
                  "CONNECT_KEEP_ALIVE", "CONNECT_CLIENT_IDENTIFIER"}
IdentifiedStates == {"CONNECT_WILL_TOPIC", "CONNECT_WILL_MESSAGE", "CONNECT_USERNAME",
                     "CONNECT_PASSWORD"}

(* The variables but for out, and where the parser is with a packet of     *)
(* which type.                                                             *)
TypeInv ==
    /\ type \in MessageTypes /\ qos \in 0..3 /\ length \in 0..MaxLen
    /\ rc \in {"FREE", "RUNNING", "DONE", "INCOMPLETE", "ERROR"}
    /\ nread \in Nat /\ flags \subseteq Strings
    /\ str \in [Strings -> [data : Nat, length : Nat]]
    /\ rc = "RUNNING" =>
          \/ state = "INITIAL"
          \/ type = "CONNECT" /\ state \in ConnectStates \cup IdentifiedStates
          \/ type = "CONNACK" /\ state = "CONNACK"
          \/ type = "PUBLISH" /\ state \in {"PUBLISH_TOPIC_NAME",
                                      "PUBLISH_MESSAGE_ID", "PUBLISH_MESSAGE"}
          \/ type = "SUBSCRIBE" /\ state \in {"SUBSCRIBE", "SUBSCRIBE_TOPIC_NAME"}

(* The cursor: at the start where nothing was read, in the payload while   *)
(* the parser runs.                                                        *)
CursorInv ==
    /\ nread <= length \/ (rc = "DONE" /\ type = "SUBSCRIBE" /\ nread <= length + 1)
    /\ rc = "FREE" => nread = 0 /\ \A s \in Strings : str[s] = NoString
    /\ rc = "RUNNING" /\ state \in {"INITIAL", "PUBLISH_TOPIC_NAME"} => nread = 0

(* StringsInside, and while the parser runs all strings are behind it. *)
StringsInv ==
    /\ \A s \in Strings : str[s] # NoString =>
          /\ str[s].data >= 2
          /\ str[s].data + str[s].length <= length
          /\ rc = "RUNNING" => str[s].data + str[s].length <= nread
    /\ \A s, u \in Strings : s # u /\ str[s] # NoString /\ str[u] # NoString =>
          \/ str[s].data + str[s].length <= str[u].data
          \/ str[u].data + str[u].length <= str[s].data

(* HandlerHasAll, and what the states on the way there have to know.       *)
HandlerInv ==
    /\ rc = "RUNNING" =>
          /\ state \in IdentifiedStates => str["client_id"].data # 0
          /\ state = "PUBLISH_MESSAGE_ID" =>
                str["topic_name"].data = 2 /\ nread = 2 + str["topic_name"].length
          /\ state = "PUBLISH_MESSAGE" =>
                str["topic_name"].data = 2 /\ nread = 2 + str["topic_name"].length + IdBytes
    /\ rc = "DONE" =>
          /\ type = "CONNECT" => str["client_id"].data # 0
          /\ type = "SUBSCRIBE" => str["topics"].data # 0
          /\ type = "PUBLISH" =>
                /\ str["topic_name"].data = 2
                /\ str["content"].data = 2 + str["topic_name"].length + IdBytes
                /\ str["content"].data + str["content"].length = length

(* WriteFits and Readable, which nothing but the serialiser can disturb.   *)
OutInv == WriteFits /\ Readable

(* The inductive invariant.                                                *)
IInv == TypeInv /\ CursorInv /\ StringsInv /\ HandlerInv /\ OutInv

-----------------------------------------------------------------------------
(* A packet that is too short is given up without a change to what was     *)
(* parsed.                                                                 *)
LEMMA Incompletes ==
    ASSUME IInv, rc = "RUNNING", Incomplete
    PROVE  IInv'
<1> USE DEF IInv
<1>1. rc' = "INCOMPLETE" /\ UNCHANGED <<type, qos, length, state, nread, flags, str, out>>
  BY DEF Incomplete, Message
<1>2. TypeInv'
  BY <1>1 DEF TypeInv
<1>3. CursorInv'
  BY <1>1 DEF CursorInv
<1>4. StringsInv'
  BY <1>1 DEF StringsInv
<1>5. HandlerInv'
  BY <1>1 DEF HandlerInv
<1>6. OutInv'
  BY <1>1 DEF OutInv, WriteFits, Readable
<1> QED
  BY <1>2, <1>3, <1>4, <1>5, <1>6

(* A step that moves the cursor on and leaves the strings alone.           *)
LEMMA MovesOn ==
    ASSUME IInv, rc = "RUNNING", nread' \in Nat, nread <= nread',
           UNCHANGED <<length, str, out>>
    PROVE  StringsInv' /\ OutInv'
<1> USE DEF IInv
<1>1. OutInv'
  BY DEF OutInv, WriteFits, Readable
<1>2. ASSUME NEW s \in Strings, str[s] # NoString
      PROVE  str[s].data + str[s].length <= nread'
  <2> DEFINE a == str[s].data
             b == str[s].length
  <2>1. a \in Nat /\ b \in Nat /\ nread \in Nat
    BY DEF TypeInv
  <2>2. a + b <= nread
    BY <1>2 DEF StringsInv
  <2>3. a + b <= nread'
    <3> HIDE DEF a, b, IInv
    <3> QED
      BY <2>1, <2>2
  <2> QED
    BY <2>3
<1>3. StringsInv'
  BY <1>2 DEF StringsInv
<1> QED
  BY <1>1, <1>3

(* A step that returns a string that starts at the cursor or behind it and *)
(* ends in the payload.                                                    *)
LEMMA Returns ==
    ASSUME IInv, rc = "RUNNING", NEW s \in Strings, NEW d \in Nat, NEW n \in Nat,
           str' = [str EXCEPT ![s] = [data |-> d, length |-> n]],
           d >= 2, nread <= d, d + n <= length, nread' \in Nat,
           d + n <= nread', UNCHANGED <<length, out>>
    PROVE  StringsInv' /\ OutInv'
<1> USE DEF IInv
<1>1. OutInv'
  BY DEF OutInv, WriteFits, Readable
<1>2. /\ str'[s].data = d /\ str'[s].length = n /\ str'[s] # NoString
      /\ \A u \in Strings \ {s} : str'[u] = str[u]
  BY DEF TypeInv, NoString
<1>3. ASSUME NEW u \in Strings, u # s, str'[u] # NoString
      PROVE  /\ str'[u].data >= 2
             /\ str'[u].data + str'[u].length <= length
             /\ str'[u].data + str'[u].length <= nread'
             /\ str'[u].data + str'[u].length <= d
  <2>1. str[u] = str'[u] /\ str[u].data \in Nat /\ str[u].length \in Nat /\ nread \in Nat
    BY <1>2, <1>3 DEF TypeInv
  <2>2. /\ str[u].data >= 2
        /\ str[u].data + str[u].length <= length
        /\ str[u].data + str[u].length <= nread
    BY <2>1, <1>3 DEF StringsInv
  <2> HIDE DEF IInv
  <2> QED
    BY <2>1, <2>2
<1>4. ASSUME NEW u \in Strings, str'[u] # NoString
      PROVE  /\ str'[u].data >= 2
             /\ str'[u].data + str'[u].length <= length'
             /\ rc' = "RUNNING" => str'[u].data + str'[u].length <= nread'
  BY <1>2, <1>3, <1>4
<1>5. ASSUME NEW u \in Strings, NEW v \in Strings, u # v, str'[u] # NoString, str'[v] # NoString
      PROVE  \/ str'[u].data + str'[u].length <= str'[v].data
             \/ str'[v].data + str'[v].length <= str'[u].data
  <2>1. CASE u = s
    BY <2>1, <1>2, <1>3, <1>5
  <2>2. CASE v = s
    BY <2>2, <1>2, <1>3, <1>5
  <2>3. CASE u # s /\ v # s
    BY <2>3, <1>2, <1>5 DEF StringsInv
  <2> QED
    BY <2>1, <2>2, <2>3
<1>6. StringsInv'
  BY <1>4, <1>5 DEF StringsInv
<1> QED
  BY <1>1, <1>6

(* The length of a string and what is left, as numbers.                    *)
LEMMA Numbers ==
    ASSUME IInv
    PROVE  nread \in Nat /\ length \in Nat /\ BYTE \in Nat /\ BYTE > 1
  BY CodecAssumption DEF IInv, TypeInv

(* What READ_STRING does if the string is there.                           *)
LEMMA ReadsString ==
    ASSUME IInv, rc = "RUNNING", NEW s \in Strings, NEW extra \in 0..1, NEW to,
           READ_STRING(s, extra, to), ~Incomplete
    PROVE  \E n \in Nat :
              /\ str' = [str EXCEPT ![s] = [data |-> nread + 2, length |-> n]]
              /\ nread + 2 + n <= length
              /\ nread' = nread + 2 + n + extra
              /\ Go(to)
              /\ UNCHANGED <<type, qos, length, flags, out>>
              /\ StringsInv' /\ OutInv'
<1>1. nread \in Nat /\ length \in Nat
  BY Numbers
<1>2. PICK n \in 0..(BYTE * BYTE - 1) :
              /\ Fits(n)
              /\ str' = [str EXCEPT ![s] = [data |-> StringStart, length |-> n]]
              /\ nread' = nread + 2 + n + extra
  BY DEF READ_STRING
<1>3. n \in Nat
  BY <1>2
<1>4. Go(to) /\ UNCHANGED <<type, qos, length, flags, out>>
  BY DEF READ_STRING, Message
<1>5. nread + 2 + n <= length
  BY <1>1, <1>2, <1>3 DEF Fits, Left
<1>6. str' = [str EXCEPT ![s] = [data |-> nread + 2, length |-> n]]
  BY <1>2 DEF StringStart
<1> DEFINE d == nread + 2
<1>7. d \in Nat /\ d >= 2 /\ nread <= d /\ d + n <= length /\ nread' \in Nat /\ d + n <= nread'
  BY <1>1, <1>2, <1>3, <1>5
<1>8. StringsInv' /\ OutInv'
  <2>1. str' = [str EXCEPT ![s] = [data |-> d, length |-> n]]
    BY <1>6
  <2> HIDE DEF d
  <2> QED
    BY <2>1, <1>3, <1>4, <1>7, Returns
<1> QED
  BY <1>2, <1>3, <1>4, <1>5, <1>6, <1>8

(* What ReadBytes does if the bytes are there.                             *)
LEMMA ReadsBytes ==
    ASSUME IInv, NEW at, NEW n \in 0..2, NEW to, ReadBytes(at, n, to), ~Incomplete
    PROVE  /\ rc = "RUNNING" /\ state = at
           /\ nread' = nread + n /\ nread' \in Nat /\ nread' <= length
           /\ Go(to)
           /\ UNCHANGED <<type, qos, length, flags, str, out>>
           /\ StringsInv' /\ OutInv'
<1>1. nread \in Nat /\ length \in Nat
  BY Numbers
<1>2. /\ rc = "RUNNING" /\ state = at /\ Left >= n /\ nread' = nread + n /\ Go(to)
      /\ UNCHANGED <<type, qos, length, flags, str, out>>
  BY DEF ReadBytes, Message, In
<1>3. nread' \in Nat /\ nread <= nread' /\ nread' <= length
  BY <1>1, <1>2 DEF Left
<1>4. StringsInv' /\ OutInv'
  BY <1>2, <1>3, MovesOn
<1> QED
  BY <1>2, <1>3, <1>4

(* The type in the header chooses the first state; an unknown one is an    *)
(* error.                                                                  *)
LEMMA InitialKeeps ==
    ASSUME IInv, Initial
    PROVE  IInv'
<1>1. /\ rc = "RUNNING" /\ state = "INITIAL"
      /\ UNCHANGED <<type, qos, length, nread, flags, str, out>>
  BY DEF Initial, In, Message
<1>2. nread \in Nat /\ nread <= nread' /\ nread' \in Nat /\ nread = 0
  BY <1>1, Numbers DEF IInv, CursorInv
<1>3. StringsInv' /\ OutInv'
  BY <1>1, <1>2, MovesOn
<1>4. \/ type = "CONNECT" /\ Go("CONNECT_PROTOCOL_NAME")
      \/ type = "CONNACK" /\ Go("CONNACK")
      \/ type = "PUBLISH" /\ Go("PUBLISH_TOPIC_NAME")
      \/ type = "SUBSCRIBE" /\ Go("SUBSCRIBE")
      \/ type \in {"PINGREQ", "DISCONNECT"} /\ Go("DONE")
      \/ type = "other" /\ rc' = "ERROR" /\ state' = state
  BY DEF Initial, FirstState, IInv, TypeInv, MessageTypes
<1>5. \/ type = "CONNECT" /\ rc' = "RUNNING" /\ state' = "CONNECT_PROTOCOL_NAME"
      \/ type = "CONNACK" /\ rc' = "RUNNING" /\ state' = "CONNACK"
      \/ type = "PUBLISH" /\ rc' = "RUNNING" /\ state' = "PUBLISH_TOPIC_NAME"
      \/ type = "SUBSCRIBE" /\ rc' = "RUNNING" /\ state' = "SUBSCRIBE"
      \/ type \in {"PINGREQ", "DISCONNECT"} /\ rc' = "DONE" /\ state' = "INITIAL"
      \/ type = "other" /\ rc' = "ERROR" /\ state' = state
  BY <1>1, <1>4 DEF Go
<1>6. TypeInv'
  BY <1>1, <1>5 DEF IInv, TypeInv, ConnectStates, IdentifiedStates
<1>7. CursorInv'
  BY <1>1, <1>2, <1>5 DEF IInv, CursorInv
<1>8. HandlerInv'
  BY <1>1, <1>5 DEF IInv, HandlerInv, IdentifiedStates
<1> QED
  BY <1>3, <1>6, <1>7, <1>8 DEF IInv

(* The states of a CONNECT that come before the client's identifier.       *)
LEMMA ConnectMoves ==
    ASSUME IInv, rc = "RUNNING", state \in ConnectStates,
           NEW to \in ConnectStates, Go(to),
           nread' \in Nat, nread' <= length, flags' \subseteq Strings,
           str' \in [Strings -> [data : Nat, length : Nat]],
           UNCHANGED <<type, qos, length, out>>, StringsInv', OutInv',
           to # "CONNECT_PROTOCOL_NAME"
    PROVE  IInv'
<1>1. rc' = "RUNNING" /\ state' = to /\ to # "INITIAL" /\ to # "DONE" /\ type = "CONNECT"
  BY DEF Go, ConnectStates, IInv, TypeInv
<1>2. TypeInv'
  BY <1>1 DEF IInv, TypeInv, ConnectStates, IdentifiedStates
<1>3. CursorInv'
  BY <1>1 DEF CursorInv, ConnectStates
<1>4. HandlerInv'
  BY <1>1 DEF HandlerInv, ConnectStates, IdentifiedStates
<1> QED
  BY <1>2, <1>3, <1>4 DEF IInv

(* The first string of a CONNECT.                                          *)
LEMMA ProtocolNameKeeps ==
    ASSUME IInv, ProtocolName
    PROVE  IInv'
<1>1. CASE Incomplete
  BY <1>1, Incompletes DEF ProtocolName, In
<1>2. CASE ~Incomplete
  <2>1. rc = "RUNNING" /\ state = "CONNECT_PROTOCOL_NAME"
    BY DEF ProtocolName, In
  <2>2. PICK n \in Nat :
              /\ str' = [str EXCEPT !["protocol_name"] = [data |-> nread + 2, length |-> n]]
              /\ nread + 2 + n <= length
              /\ nread' = nread + 2 + n + 0
              /\ Go("CONNECT_PROTOCOL_VERSION")
              /\ UNCHANGED <<type, qos, length, flags, out>>
              /\ StringsInv' /\ OutInv'
    BY <2>1, <1>2, ReadsString DEF ProtocolName, Strings
  <2>3. nread' \in Nat /\ nread' <= length
    BY <2>2, Numbers
  <2>4. flags' \subseteq Strings /\ str' \in [Strings -> [data : Nat, length : Nat]]
    BY <2>2, Numbers DEF IInv, TypeInv, Strings
  <2> QED
    BY <2>1, <2>2, <2>3, <2>4, ConnectMoves DEF ConnectStates
<1> QED
  BY <1>1, <1>2

(* One byte for the version.                                               *)
LEMMA ProtocolVersionKeeps ==
    ASSUME IInv, ProtocolVersion
    PROVE  IInv'
<1>1. CASE Incomplete
  BY <1>1, Incompletes DEF ProtocolVersion, ReadBytes, In
<1>2. CASE ~Incomplete
  <2>1. /\ rc = "RUNNING" /\ state = "CONNECT_PROTOCOL_VERSION"
        /\ nread' = nread + 1 /\ nread' \in Nat /\ nread' <= length
        /\ Go("CONNECT_FLAGS")
        /\ UNCHANGED <<type, qos, length, flags, str, out>>
        /\ StringsInv' /\ OutInv'
    <3>1. ReadBytes("CONNECT_PROTOCOL_VERSION", 1, "CONNECT_FLAGS") /\ 1 \in 0..2
      BY DEF ProtocolVersion
    <3> QED
      BY <1>2, <3>1, ReadsBytes, Zenon
  <2>2. flags' \subseteq Strings /\ str' \in [Strings -> [data : Nat, length : Nat]]
    BY <2>1 DEF IInv, TypeInv
  <2> QED
    BY <2>1, <2>2, ConnectMoves DEF ConnectStates
<1> QED
  BY <1>1, <1>2

(* One byte for the flags, which announce strings.                         *)
LEMMA ConnectFlagsKeeps ==
    ASSUME IInv, ConnectFlags
    PROVE  IInv'
<1>1. CASE Incomplete
  BY <1>1, Incompletes DEF ConnectFlags, In
<1>2. CASE ~Incomplete
  <2>1. /\ rc = "RUNNING" /\ state = "CONNECT_FLAGS"
        /\ Left >= 1 /\ nread' = nread + 1
        /\ Go("CONNECT_KEEP_ALIVE")
        /\ UNCHANGED <<type, qos, length, str, out>>
    BY <1>2 DEF ConnectFlags, In, Message
  <2>2. flags' \subseteq Strings
    BY <1>2 DEF ConnectFlags, Strings
  <2>3. nread' \in Nat /\ nread' <= length /\ nread <= nread'
    BY <2>1, Numbers DEF Left
  <2>4. StringsInv' /\ OutInv'
    BY <2>1, <2>3, MovesOn
  <2>5. str' \in [Strings -> [data : Nat, length : Nat]]
    BY <2>1 DEF IInv, TypeInv
  <2> QED
    BY <2>1, <2>2, <2>3, <2>4, <2>5, ConnectMoves DEF ConnectStates
<1> QED
  BY <1>1, <1>2

(* Two bytes for the keep-alive time.                                      *)
LEMMA KeepAliveKeeps ==
    ASSUME IInv, KeepAlive
    PROVE  IInv'
<1>1. CASE Incomplete
  BY <1>1, Incompletes DEF KeepAlive, ReadBytes, In
<1>2. CASE ~Incomplete
  <2>1. /\ rc = "RUNNING" /\ state = "CONNECT_KEEP_ALIVE"
        /\ nread' = nread + 2 /\ nread' \in Nat /\ nread' <= length
        /\ Go("CONNECT_CLIENT_IDENTIFIER")
        /\ UNCHANGED <<type, qos, length, flags, str, out>>
        /\ StringsInv' /\ OutInv'
    <3>1. ReadBytes("CONNECT_KEEP_ALIVE", 2, "CONNECT_CLIENT_IDENTIFIER") /\ 2 \in 0..2
      BY DEF KeepAlive
    <3> QED
      BY <1>2, <3>1, ReadsBytes, Zenon
  <2>2. flags' \subseteq Strings /\ str' \in [Strings -> [data : Nat, length : Nat]]
    BY <2>1 DEF IInv, TypeInv
  <2> QED
    BY <2>1, <2>2, ConnectMoves DEF ConnectStates
<1> QED
  BY <1>1, <1>2

(* The states of a CONNECT behind the client's identifier.                 *)
LEMMA IdentifiedMoves ==
    ASSUME IInv, rc = "RUNNING", type = "CONNECT",
           NEW to \in (IdentifiedStates \cup {"DONE"}), Go(to),
           nread' \in Nat, nread' <= length,
           str' \in [Strings -> [data : Nat, length : Nat]],
           str'["client_id"].data # 0,
           UNCHANGED <<type, qos, length, flags, out>>, StringsInv', OutInv'
    PROVE  IInv'
<1>1. \/ rc' = "RUNNING" /\ state' = to /\ to \in IdentifiedStates
      \/ rc' = "DONE"
  BY DEF Go
<1>2. TypeInv'
  BY <1>1 DEF IInv, TypeInv, ConnectStates, IdentifiedStates
<1>3. CursorInv'
  BY <1>1 DEF CursorInv, IdentifiedStates
<1>4. HandlerInv'
  BY <1>1 DEF HandlerInv, IdentifiedStates
<1> QED
  BY <1>2, <1>3, <1>4 DEF IInv

(* From here on the client's identifier is there.                          *)
LEMMA ClientIdentifierKeeps ==
    ASSUME IInv, ClientIdentifier
    PROVE  IInv'
<1>1. CASE Incomplete
  BY <1>1, Incompletes DEF ClientIdentifier, In
<1>2. CASE ~Incomplete
  <2>1. rc = "RUNNING" /\ state = "CONNECT_CLIENT_IDENTIFIER" /\ type = "CONNECT"
    BY DEF ClientIdentifier, In, IInv, TypeInv
  <2>2. PICK n \in Nat :
              /\ str' = [str EXCEPT !["client_id"] = [data |-> nread + 2, length |-> n]]
              /\ nread + 2 + n <= length
              /\ nread' = nread + 2 + n + 0
              /\ Go("CONNECT_WILL_TOPIC")
              /\ UNCHANGED <<type, qos, length, flags, out>>
              /\ StringsInv' /\ OutInv'
    BY <2>1, <1>2, ReadsString DEF ClientIdentifier, Strings
  <2>3. nread' \in Nat /\ nread' <= length
    BY <2>2, Numbers
  <2>4. /\ str' \in [Strings -> [data : Nat, length : Nat]]
        /\ str'["client_id"].data # 0
    BY <2>2, Numbers DEF IInv, TypeInv, Strings
  <2> QED
    BY <2>1, <2>2, <2>3, <2>4, IdentifiedMoves DEF IdentifiedStates
<1> QED
  BY <1>1, <1>2

(* A string that the flags announce never is the client's identifier.      *)
LEMMA OptionalKeeps ==
    ASSUME IInv, NEW at \in IdentifiedStates, NEW s \in Strings \ {"client_id"},
           NEW to \in (IdentifiedStates \cup {"DONE"}), OptionalString(at, s, to)
    PROVE  IInv'
<1>1. /\ rc = "RUNNING" /\ type = "CONNECT" /\ str["client_id"].data # 0
      /\ nread \in Nat /\ nread <= length
  BY DEF OptionalString, In, IInv, TypeInv, IdentifiedStates, CursorInv, HandlerInv
<1>2. CASE Incomplete
  BY <1>1, <1>2, Incompletes
<1>3. CASE s \notin flags
  <2>1. Go(to) /\ UNCHANGED <<type, qos, length, nread, flags, str, out>>
    BY <1>3 DEF OptionalString, Message
  <2>2. nread' \in Nat /\ nread <= nread' /\ nread' <= length
    BY <1>1, <2>1
  <2>3. StringsInv' /\ OutInv'
    BY <1>1, <2>1, <2>2, MovesOn
  <2>4. str' \in [Strings -> [data : Nat, length : Nat]] /\ str'["client_id"].data # 0
    BY <1>1, <2>1 DEF IInv, TypeInv
  <2> QED
    BY <1>1, <2>1, <2>2, <2>3, <2>4, IdentifiedMoves
<1>4. CASE s \in flags /\ ~Incomplete
  <2>1. READ_STRING(s, 0, to) /\ 0 \in 0..1
    BY <1>4 DEF OptionalString
  <2>2. PICK n \in Nat :
              /\ str' = [str EXCEPT ![s] = [data |-> nread + 2, length |-> n]]
              /\ nread + 2 + n <= length
              /\ nread' = nread + 2 + n + 0
              /\ Go(to)
              /\ UNCHANGED <<type, qos, length, flags, out>>
              /\ StringsInv' /\ OutInv'
    BY <1>1, <1>4, <2>1, ReadsString
  <2>3. nread' \in Nat /\ nread' <= length
    BY <2>2, Numbers
  <2>4. str' \in [Strings -> [data : Nat, length : Nat]] /\ str'["client_id"].data # 0
    BY <1>1, <2>2, Numbers DEF IInv, TypeInv, Strings
  <2> QED
    BY <1>1, <2>2, <2>3, <2>4, IdentifiedMoves
<1> QED
  BY <1>2, <1>3, <1>4

(* The four strings that may be missing.                                   *)
LEMMA OptionalsKeep ==
    ASSUME IInv, WillTopic \/ WillMessage \/ Username \/ Password
    PROVE  IInv'
<1>1. CASE WillTopic
  BY <1>1, OptionalKeeps DEF WillTopic, IdentifiedStates, Strings
<1>2. CASE WillMessage
  BY <1>2, OptionalKeeps DEF WillMessage, IdentifiedStates, Strings
<1>3. CASE Username
  BY <1>3, OptionalKeeps DEF Username, IdentifiedStates, Strings
<1>4. CASE Password
  BY <1>4, OptionalKeeps DEF Password, IdentifiedStates, Strings
<1> QED
  BY <1>1, <1>2, <1>3, <1>4

(* A CONNACK has no string.                                                *)
LEMMA ConnackKeeps ==
    ASSUME IInv, Connack
    PROVE  IInv'
<1>1. CASE Incomplete
  BY <1>1, Incompletes DEF Connack, ReadBytes, In
<1>2. CASE ~Incomplete
  <2>1. /\ rc = "RUNNING" /\ state = "CONNACK"
        /\ nread' = nread + 2 /\ nread' \in Nat /\ nread' <= length
        /\ Go("DONE")
        /\ UNCHANGED <<type, qos, length, flags, str, out>>
        /\ StringsInv' /\ OutInv'
    <3>1. ReadBytes("CONNACK", 2, "DONE") /\ 2 \in 0..2
      BY DEF Connack
    <3> QED
      BY <1>2, <3>1, ReadsBytes, Zenon
  <2>2. type = "CONNACK" /\ rc' = "DONE"
    BY <2>1 DEF Go, IInv, TypeInv, ConnectStates, IdentifiedStates
  <2>3. TypeInv'
    BY <2>1, <2>2 DEF IInv, TypeInv
  <2>4. CursorInv'
    BY <2>1, <2>2 DEF CursorInv
  <2>5. HandlerInv'
    BY <2>1, <2>2 DEF HandlerInv
  <2> QED
    BY <2>1, <2>3, <2>4, <2>5 DEF IInv
<1> QED
  BY <1>1, <1>2

(* The topic of a PUBLISH is the first thing in its payload.               *)
LEMMA PublishTopicNameKeeps ==
    ASSUME IInv, PublishTopicName
    PROVE  IInv'
<1>1. CASE Incomplete
  BY <1>1, Incompletes DEF PublishTopicName, In
<1>2. CASE ~Incomplete
  <2>1. rc = "RUNNING" /\ state = "PUBLISH_TOPIC_NAME" /\ type = "PUBLISH" /\ nread = 0
    BY DEF PublishTopicName, In, IInv, TypeInv, CursorInv, ConnectStates, IdentifiedStates
  <2>2. PICK n \in Nat :
              /\ str' = [str EXCEPT !["topic_name"] = [data |-> nread + 2, length |-> n]]
              /\ nread + 2 + n <= length
              /\ nread' = nread + 2 + n + 0
              /\ Go("PUBLISH_MESSAGE_ID")
              /\ UNCHANGED <<type, qos, length, flags, out>>
              /\ StringsInv' /\ OutInv'
    BY <2>1, <1>2, ReadsString DEF PublishTopicName, Strings
  <2>3. nread' \in Nat /\ nread' <= length /\ nread' = 2 + n
    BY <2>1, <2>2, Numbers
  <2>4. /\ str' \in [Strings -> [data : Nat, length : Nat]]
        /\ str'["topic_name"].data = 2 /\ str'["topic_name"].length = n
    BY <2>1, <2>2, Numbers DEF IInv, TypeInv, Strings
  <2>5. rc' = "RUNNING" /\ state' = "PUBLISH_MESSAGE_ID"
    BY <2>1, <2>2 DEF Go
  <2>6. TypeInv'
    BY <2>1, <2>2, <2>3, <2>4, <2>5 DEF IInv, TypeInv
  <2>7. CursorInv'
    BY <2>2, <2>3, <2>5 DEF CursorInv
  <2>8. HandlerInv'
    BY <2>3, <2>4, <2>5 DEF HandlerInv, IdentifiedStates
  <2> QED
    BY <2>2, <2>6, <2>7, <2>8 DEF IInv
<1> QED
  BY <1>1, <1>2

(* The cursor passes the id that MessageLen subtracts, no more.            *)
LEMMA PublishMessageIdKeeps ==
    ASSUME IInv, PublishMessageId
    PROVE  IInv'
<1>1. CASE Incomplete
  BY <1>1, Incompletes DEF PublishMessageId, In
<1>2. CASE ~Incomplete
  <2>1. /\ rc = "RUNNING" /\ state = "PUBLISH_MESSAGE_ID" /\ type = "PUBLISH"
        /\ nread = 2 + str["topic_name"].length /\ str["topic_name"].data = 2
    BY DEF PublishMessageId, In, IInv, TypeInv, HandlerInv, ConnectStates, IdentifiedStates
  <2>2. /\ Left >= 2 /\ nread' = nread + IdBytes /\ Go("PUBLISH_MESSAGE")
        /\ UNCHANGED <<type, qos, length, flags, str, out>>
    BY <1>2 DEF PublishMessageId, Message
  <2>3. IdBytes \in 0..2 /\ IdBytes' = IdBytes
    BY <2>2 DEF IdBytes
  <2>4. nread' \in Nat /\ nread <= nread' /\ nread' <= length
    BY <2>2, <2>3, Numbers DEF Left
  <2>5. StringsInv' /\ OutInv'
    BY <2>1, <2>2, <2>4, MovesOn
  <2>6. rc' = "RUNNING" /\ state' = "PUBLISH_MESSAGE"
    BY <2>1, <2>2 DEF Go
  <2>7. TypeInv'
    BY <2>1, <2>2, <2>4, <2>6 DEF IInv, TypeInv
  <2>8. CursorInv'
    BY <2>2, <2>4, <2>6 DEF CursorInv
  <2>9. HandlerInv'
    BY <2>1, <2>2, <2>3, <2>6 DEF HandlerInv, IdentifiedStates
  <2> QED
    BY <2>5, <2>7, <2>8, <2>9 DEF IInv
<1> QED
  BY <1>1, <1>2

(* The uint32_t msg_len does not wrap: the cursor has passed the topic and *)
(* the id, so what is left of length is not negative.                      *)
LEMMA NoWrap ==
    ASSUME IInv, rc = "RUNNING", state = "PUBLISH_MESSAGE"
    PROVE  MessageLen = length - nread /\ MessageLen \in Nat
<1> DEFINE t == str["topic_name"].length
<1>1. t \in Nat /\ nread = 2 + t + IdBytes /\ nread <= length
  BY DEF IInv, TypeInv, CursorInv, HandlerInv, Strings
<1>2. IdBytes \in 0..2
  BY DEF IdBytes
<1>3. nread \in Nat /\ length \in Nat
  BY Numbers
<1>4. length < UINT /\ UINT \in Nat /\ UINT > 0
  <2>1. BASE \in Nat /\ BASE > 1
    BY HeaderAssumption
  <2> DEFINE w == Weight(5)
  <2>2. w \in Nat
    BY <2>1, NatTimes DEF Weight
  <2>3. 4 * w < UINT /\ UINT \in Nat /\ MaxLen \in 0..(w - 1)
    BY HeaderAssumption, CodecAssumption DEF MAX_DIGITS
  <2>4. length \in 0..MaxLen
    BY DEF IInv, TypeInv
  <2> HIDE DEF w
  <2> QED
    BY <2>2, <2>3, <2>4
<1> DEFINE k == length - t - 2 - IdBytes
<1>5. k = length - nread /\ k \in Nat /\ k < UINT
  <2> HIDE DEF t
  <2> QED
    BY <1>1, <1>2, <1>3, <1>4
<1>6. k % UINT = k
  <2> HIDE DEF k
  <2> QED
    BY <1>4, <1>5
<1>7. MessageLen = k % UINT
  BY DEF MessageLen
<1> QED
  BY <1>5, <1>6, <1>7

(* The content runs from the cursor to the end of the payload.             *)
LEMMA PublishMessageKeeps ==
    ASSUME IInv, PublishMessage
    PROVE  IInv'
<1>1. CASE Incomplete
  BY <1>1, Incompletes DEF PublishMessage, In
<1>2. CASE ~Incomplete
  <2>1. /\ rc = "RUNNING" /\ state = "PUBLISH_MESSAGE" /\ type = "PUBLISH"
        /\ nread = 2 + str["topic_name"].length + IdBytes /\ str["topic_name"].data = 2
    BY DEF PublishMessage, In, IInv, TypeInv, HandlerInv, ConnectStates, IdentifiedStates
  <2> DEFINE n == MessageLen
             d == nread
  <2>2. n \in Nat /\ n = length - nread /\ nread \in Nat /\ length \in Nat
    BY <2>1, NoWrap, Numbers
  <2>3. /\ str' = [str EXCEPT !["content"] = [data |-> d, length |-> n]]
        /\ nread' = nread + n /\ Go("DONE")
        /\ UNCHANGED <<type, qos, length, flags, out>>
    BY <1>2 DEF PublishMessage, Message
  <2> HIDE DEF n
  <2>4. IdBytes \in 0..2 /\ IdBytes' = IdBytes
    BY <2>3 DEF IdBytes
  <2>5. nread' = length /\ d + n = length /\ d + n <= length /\ d + n <= nread' /\ nread <= d
    BY <2>2, <2>3
  <2>6. d >= 2
    <3> DEFINE t == str["topic_name"].length
    <3>1. t \in Nat /\ nread = 2 + t + IdBytes
      BY <2>1 DEF IInv, TypeInv, Strings
    <3> HIDE DEF t
    <3> QED
      BY <3>1, <2>4
  <2>7. StringsInv' /\ OutInv'
    <3>1. "content" \in Strings /\ d \in Nat /\ nread' \in Nat
      BY <2>2, <2>5 DEF Strings
    <3> HIDE DEF d
    <3> QED
      BY <2>1, <2>2, <2>3, <2>5, <2>6, <3>1, Returns
  <2>8. rc' = "DONE"
    BY <2>3 DEF Go
  <2>9. /\ str' \in [Strings -> [data : Nat, length : Nat]]
        /\ str'["topic_name"] = str["topic_name"]
        /\ str'["content"].data = nread /\ str'["content"].length = n
    BY <2>2, <2>3 DEF IInv, TypeInv, Strings
  <2>10. TypeInv'
    BY <2>2, <2>3, <2>5, <2>8, <2>9 DEF IInv, TypeInv
  <2>11. CursorInv'
    BY <2>2, <2>3, <2>5, <2>8 DEF CursorInv
  <2>12. HandlerInv'
    BY <2>1, <2>3, <2>4, <2>5, <2>8, <2>9 DEF HandlerInv
  <2> QED
    BY <2>7, <2>10, <2>11, <2>12 DEF IInv
<1> QED
  BY <1>1, <1>2

(* Two bytes for the message id of a SUBSCRIBE.                            *)
LEMMA SubscribeKeeps ==
    ASSUME IInv, Subscribe
    PROVE  IInv'
<1>1. CASE Incomplete
  BY <1>1, Incompletes DEF Subscribe, ReadBytes, In
<1>2. CASE ~Incomplete
  <2>1. /\ rc = "RUNNING" /\ state = "SUBSCRIBE"
        /\ nread' = nread + 2 /\ nread' \in Nat /\ nread' <= length
        /\ Go("SUBSCRIBE_TOPIC_NAME")
        /\ UNCHANGED <<type, qos, length, flags, str, out>>
        /\ StringsInv' /\ OutInv'
    <3>1. ReadBytes("SUBSCRIBE", 2, "SUBSCRIBE_TOPIC_NAME") /\ 2 \in 0..2
      BY DEF Subscribe
    <3> QED
      BY <1>2, <3>1, ReadsBytes, Zenon
  <2>2. type = "SUBSCRIBE" /\ rc' = "RUNNING" /\ state' = "SUBSCRIBE_TOPIC_NAME"
    BY <2>1 DEF Go, IInv, TypeInv, ConnectStates, IdentifiedStates
  <2>3. TypeInv'
    BY <2>1, <2>2 DEF IInv, TypeInv
  <2>4. CursorInv'
    BY <2>1, <2>2 DEF CursorInv
  <2>5. HandlerInv'
    BY <2>1, <2>2 DEF HandlerInv, IdentifiedStates
  <2> QED
    BY <2>1, <2>3, <2>4, <2>5 DEF IInv
<1> QED
  BY <1>1, <1>2

(* The QoS byte behind the filter takes the cursor past the end at most by *)
(* one.                                                                    *)
LEMMA SubscribeTopicNameKeeps ==
    ASSUME IInv, SubscribeTopicName
    PROVE  IInv'
<1>1. CASE Incomplete
  BY <1>1, Incompletes DEF SubscribeTopicName, In
<1>2. CASE ~Incomplete
  <2>1. rc = "RUNNING" /\ state = "SUBSCRIBE_TOPIC_NAME" /\ type = "SUBSCRIBE"
    BY DEF SubscribeTopicName, In, IInv, TypeInv, ConnectStates, IdentifiedStates
  <2>2. READ_STRING("topics", 1, "DONE") /\ 1 \in 0..1 /\ "topics" \in Strings
    BY DEF SubscribeTopicName, Strings
  <2>3. PICK n \in Nat :
              /\ str' = [str EXCEPT !["topics"] = [data |-> nread + 2, length |-> n]]
              /\ nread + 2 + n <= length
              /\ nread' = nread + 2 + n + 1
              /\ Go("DONE")
              /\ UNCHANGED <<type, qos, length, flags, out>>
              /\ StringsInv' /\ OutInv'
    BY <2>1, <2>2, <1>2, ReadsString
  <2>4. nread' \in Nat /\ nread' <= length + 1
    BY <2>3, Numbers
  <2>5. str' \in [Strings -> [data : Nat, length : Nat]] /\ str'["topics"].data # 0
    BY <2>3, Numbers DEF IInv, TypeInv, Strings
  <2>6. rc' = "DONE"
    BY <2>3 DEF Go
  <2>7. TypeInv'
    BY <2>1, <2>3, <2>4, <2>5, <2>6 DEF IInv, TypeInv
  <2>8. CursorInv'
    BY <2>1, <2>3, <2>4, <2>6 DEF CursorInv
  <2>9. HandlerInv'
    BY <2>1, <2>3, <2>5, <2>6 DEF HandlerInv
  <2> QED
    BY <2>3, <2>7, <2>8, <2>9 DEF IInv
<1> QED
  BY <1>1, <1>2

(* A new packet finds nothing of the last one.                             *)
LEMMA BeginKeeps ==
    ASSUME IInv, Begin
    PROVE  IInv'
<1>1. /\ rc = "FREE" /\ rc' = "RUNNING" /\ state' = "INITIAL"
      /\ type' \in MessageTypes /\ qos' \in 0..3 /\ length' \in 0..MaxLen
      /\ UNCHANGED <<nread, flags, str, out>>
  BY DEF Begin
<1>2. nread = 0 /\ \A s \in Strings : str[s] = NoString
  BY <1>1 DEF IInv, CursorInv
<1>3. length' \in Nat
  BY <1>1, CodecAssumption
<1>4. TypeInv'
  BY <1>1 DEF IInv, TypeInv
<1>5. CursorInv'
  BY <1>1, <1>2, <1>3 DEF CursorInv
<1>6. StringsInv'
  BY <1>1, <1>2 DEF StringsInv
<1>7. HandlerInv'
  BY <1>1 DEF HandlerInv, IdentifiedStates
<1>8. OutInv'
  BY <1>1 DEF IInv, OutInv, WriteFits, Readable
<1> QED
  BY <1>4, <1>5, <1>6, <1>7, <1>8 DEF IInv
-----------------------------------------------------------------------------
(* Below 255 the two bytes of a length stand for it.                       *)
LEMMA SaysIt ==
    ASSUME NEW t \in Nat, t < BYTE - 1
    PROVE  Says(t) = t
<1>1. BYTE \in Nat /\ BYTE > 1
  BY CodecAssumption
<1> DEFINE b == BYTE - 1
<1>2. b \in Nat /\ b > 0 /\ t < b
  BY <1>1
<1>3. t \div b = 0
  <2> HIDE DEF b
  <2> QED
    BY <1>2
<1>4. 0 % BYTE = 0 /\ t % BYTE = t
  BY <1>1
<1>5. 0 * BYTE = 0
  BY <1>1
<1> QED
  BY <1>3, <1>4, <1>5 DEF Says

(* A packet whose length is that of its body, and fits in four digits, is  *)
(* written into exactly the buffer allocated for it, with a header that    *)
(* loop_read can read.                                                     *)
LEMMA Written ==
    ASSUME NEW ptype, NEW len \in 0..(Weight(5) - 1), NEW t \in Nat, NEW n,
           NEW x \in Nat, NEW y \in Nat, NEW z \in Nat,
           Serialise(ptype, len, t, n),
           Body(ptype, t, n) = <<x, y, z>>, x + y + z = len, BodySize(ptype, t, n) = len
    PROVE  OutInv'
<1> DEFINE l == LengthBytes(len)
           h == <<0>> \o l
<1>1. /\ Len(l) = LengthSize(len) /\ Len(h) = 1 + LengthSize(len)
      /\ \A i \in 2..Len(h) : More(h[i]) <=> i < Len(h)
      /\ LengthOf(h) = len
  BY HeaderFacts
<1>2. LengthSize(len) \in Nat
  BY DEF LengthSize
<1> DEFINE o == out'
<1>3. /\ o.length = len /\ o.size = 1 + LengthSize(len) + len
      /\ o.written = 1 + Len(l) + x + y + z
      /\ o.header = h /\ o.topic = t /\ o.says = Says(t)
  <2> HIDE DEF l, h
  <2> QED
    BY DEF Serialise, l, h
<1> DEFINE k == LengthSize(len)
<1>4. len \in Nat
  OBVIOUS
<1>5. o.written = o.size /\ o.written = Len(h) + len
  <2>1. 1 + k + x + y + z = 1 + k + len /\ 1 + k + x + y + z = (1 + k) + len
    <3> HIDE DEF k
    <3> QED
      BY <1>2, <1>4 DEF k
  <2> HIDE DEF l, h, o
  <2> QED
    BY <1>1, <1>3, <2>1 DEF l, h
<1>6. WriteFits'
  BY <1>5 DEF WriteFits
<1>7. t < BYTE - 1 => o.says = o.topic
  BY <1>3, SaysIt
<1>8. Readable'
  <2> HIDE DEF h, l
  <2> QED
    BY <1>1, <1>3, <1>5, <1>7 DEF Readable
<1> QED
  BY <1>6, <1>8 DEF OutInv

(* Four digits are at least enough for 15.                                 *)
LEMMA Small ==
    Weight(5) \in Nat /\ Weight(5) >= 16
<1>1. BASE \in Nat /\ BASE >= 2
  BY HeaderAssumption
<1> DEFINE s == BASE * BASE
<1>2. s \in Nat /\ s >= 4
  BY <1>1, NatTimes
<1>3. Weight(5) = s * s
  BY <1>1 DEF Weight
<1>4. s * s \in Nat /\ s * s >= 16
  <2> HIDE DEF s
  <2> QED
    BY <1>2, NatTimes
<1> QED
  BY <1>3, <1>4

(* A step of the serialiser leaves the packet that was parsed alone.       *)
LEMMA SerialiserKeeps ==
    ASSUME IInv, UNCHANGED <<type, qos, length, state, rc, nread, flags, str>>, OutInv'
    PROVE  IInv'
<1>1. TypeInv'
  BY DEF IInv, TypeInv
<1>2. CursorInv'
  BY DEF IInv, CursorInv
<1>3. StringsInv'
  BY DEF IInv, StringsInv
<1>4. HandlerInv'
  BY DEF IInv, HandlerInv, IdBytes
<1> QED
  BY <1>1, <1>2, <1>3, <1>4 DEF IInv

(* What is forwarded is no longer than what came in, so its length still   *)
(* fits in four digits.                                                    *)
LEMMA ForwardKeeps ==
    ASSUME IInv, Forward
    PROVE  IInv'
<1>1. /\ rc = "DONE" /\ type = "PUBLISH"
      /\ UNCHANGED <<type, qos, length, state, rc, nread, flags, str>>
  BY DEF Forward, Message
<1> DEFINE n == str["content"].length
           m == str["topic_name"].length
           c == str["content"].data
<1>2. PICK t \in 0..m : Serialise("PUBLISH", 2 + t + n, t, n)
  BY DEF Forward
<1>3. n \in Nat /\ m \in Nat /\ c \in Nat /\ length \in 0..MaxLen /\ IdBytes \in 0..2
  BY DEF IInv, TypeInv, Strings, IdBytes
<1>4. c = 2 + m + IdBytes /\ c + n = length
  BY <1>1 DEF IInv, HandlerInv
<1>5. MaxLen \in 0..(Weight(5) - 1) /\ Weight(5) \in Nat
  BY CodecAssumption, Small
<1> DEFINE w == Weight(5)
           len == 2 + t + n
<1>6. len \in 0..(w - 1) /\ t \in Nat
  <2> HIDE DEF n, m, c, w
  <2> QED
    BY <1>2, <1>3, <1>4, <1>5 DEF w
<1>7. Body("PUBLISH", t, n) = <<2, t, n>> /\ BodySize("PUBLISH", t, n) = len
  BY DEF Body, BodySize
<1>8. OutInv'
  <2>1. Serialise("PUBLISH", len, t, n) /\ 2 + t + n = len /\ 2 \in Nat /\ n \in Nat
    BY <1>2, <1>3
  <2>2. len \in 0..(Weight(5) - 1) /\ t \in Nat
    BY <1>6
  <2> HIDE DEF n, len
  <2> QED
    BY <2>1, <2>2, <1>7, Written
<1> QED
  BY <1>1, <1>8, SerialiserKeeps

(* The three answers have the length of their bodies.                      *)
LEMMA AcknowledgeKeeps ==
    ASSUME IInv, Acknowledge
    PROVE  IInv'
<1>1. UNCHANGED <<type, qos, length, state, rc, nread, flags, str>>
  BY DEF Acknowledge, Message
<1>2. 2 \in 0..(Weight(5) - 1) /\ 3 \in 0..(Weight(5) - 1) /\ 0 \in 0..(Weight(5) - 1)
  BY Small
<1>3. CASE Serialise("CONNACK", 2, 0, 0)
  <2>1. Body("CONNACK", 0, 0) = <<1, 1, 0>> /\ BodySize("CONNACK", 0, 0) = 2 /\ 1 + 1 + 0 = 2
    BY DEF Body, BodySize
  <2>2. OutInv'
    BY <1>2, <1>3, <2>1, Written
  <2> QED
    BY <1>1, <2>2, SerialiserKeeps
<1>4. CASE Serialise("SUBACK", 3, 0, 0)
  <2>1. Body("SUBACK", 0, 0) = <<2, 1, 0>> /\ BodySize("SUBACK", 0, 0) = 3 /\ 2 + 1 + 0 = 3
    BY DEF Body, BodySize
  <2>2. OutInv'
    BY <1>2, <1>4, <2>1, Written
  <2> QED
    BY <1>1, <2>2, SerialiserKeeps
<1>5. CASE Serialise("PINGRESP", 0, 0, 0)
  <2>1. Body("PINGRESP", 0, 0) = <<0, 0, 0>> /\ BodySize("PINGRESP", 0, 0) = 0 /\ 0 + 0 + 0 = 0
    BY DEF Body, BodySize
  <2>2. OutInv'
    BY <1>2, <1>5, <2>1, Written
  <2> QED
    BY <1>1, <2>2, SerialiserKeeps
<1> QED
  BY <1>3, <1>4, <1>5 DEF Acknowledge

(* A free in_packet satisfies the invariant. *)
LEMMA Freed == Init => IInv
<1> SUFFICES ASSUME Init PROVE IInv
  OBVIOUS
<1>1. length \in 0..MaxLen
  BY CodecAssumption, Small DEF Init
<1>2. TypeInv
  BY <1>1 DEF Init, TypeInv, MessageTypes, NoString
<1>3. CursorInv
  BY DEF Init, CursorInv
<1>4. StringsInv
  BY DEF Init, StringsInv
<1>5. HandlerInv
  BY DEF Init, HandlerInv
<1>6. OutInv
  BY DEF Init, OutInv, WriteFits, Readable
<1> QED
  BY <1>2, <1>3, <1>4, <1>5, <1>6 DEF IInv

(* free_mqtt_msg leaves what the program starts with.                      *)
LEMMA FreeKeeps ==
    ASSUME IInv, Free
    PROVE  IInv'
<1>1. Init'
  BY DEF Free, Init
<1> QED
  BY <1>1, Freed, PTL
-----------------------------------------------------------------------------
(* No step of the parser, of the serialiser or of the loop that calls them *)
(* leaves the invariant.                                                   *)
LEMMA NextKeeps ==
    ASSUME IInv, [Next]_vars
    PROVE  IInv'
<1>1. CASE ConnectStep
  BY <1>1, ProtocolNameKeeps, ProtocolVersionKeeps, ConnectFlagsKeeps, KeepAliveKeeps,
     ClientIdentifierKeeps, OptionalsKeep DEF ConnectStep
<1>2. CASE PublishStep
  BY <1>2, PublishTopicNameKeeps, PublishMessageIdKeeps, PublishMessageKeeps
     DEF PublishStep
<1>3. CASE UNCHANGED vars
  <2>1. OutInv'
    BY <1>3 DEF vars, IInv, OutInv, WriteFits, Readable
  <2> QED
    BY <1>3, <2>1, SerialiserKeeps DEF vars
<1> QED
  BY <1>1, <1>2, <1>3, BeginKeeps, InitialKeeps, ConnackKeeps, SubscribeKeeps,
     SubscribeTopicNameKeeps, ForwardKeeps, AcknowledgeKeeps, FreeKeeps DEF Next

(* The invariant holds for all values of the constants.                    *)
THEOREM Invariant == Spec => []IInv
<1>1. IInv /\ [Next]_vars => IInv'
  BY NextKeeps
<1> QED
  BY <1>1, Freed, PTL DEF Spec

(* The cursor never passes the end of the payload but for the QoS byte of  *)
(* a SUBSCRIBE.                                                            *)
THEOREM TypeCorrect == Spec => []TypeOK
<1>1. IInv => TypeOK
  <2> SUFFICES ASSUME IInv PROVE TypeOK
    OBVIOUS
  <2>1. nread \in 0..(length + IF rc = "DONE" /\ type = "SUBSCRIBE" THEN 1 ELSE 0)
    <3>1. CASE rc = "DONE" /\ type = "SUBSCRIBE"
      BY <3>1, Numbers DEF IInv, CursorInv
    <3>2. CASE ~(rc = "DONE" /\ type = "SUBSCRIBE")
      BY <3>2, Numbers DEF IInv, CursorInv
    <3> QED
      BY <3>1, <3>2
  <2> QED
    BY <2>1 DEF IInv, TypeInv, TypeOK
<1> QED
  BY <1>1, Invariant, PTL

(* Every string that mqtt_parser_execute returns lies in the payload, and  *)
(* no two overlap.                                                         *)
THEOREM StringsStayInside == Spec => []StringsInside
<1>1. IInv => StringsInside
  BY DEF IInv, StringsInv, StringsInside, End
<1> QED
  BY <1>1, Invariant, PTL

(* A handler finds the strings it dereferences, and the content of a       *)
(* PUBLISH is the rest of its payload.                                     *)
THEOREM HandlersServed == Spec => []HandlerHasAll
<1>1. IInv => HandlerHasAll
  <2> SUFFICES ASSUME IInv PROVE HandlerHasAll
    OBVIOUS
  <2> QED
    BY DEF IInv, HandlerInv, HandlerHasAll, End
<1> QED
  BY <1>1, Invariant, PTL

(* mqtt_serialiser_write fills exactly the buffer that was sized for it.   *)
THEOREM WritesFit == Spec => []WriteFits
<1>1. IInv => WriteFits
  BY DEF IInv, OutInv
<1> QED
  BY <1>1, Invariant, PTL

(* What the serialiser writes, loop_read reads back.                       *)
THEOREM WritesReadable == Spec => []Readable
<1>1. IInv => Readable
  BY DEF IInv, OutInv
<1> QED
  BY <1>1, Invariant, PTL
=============================================================================
