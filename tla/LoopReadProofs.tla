--------------------------- MODULE LoopReadProofs ---------------------------
(***************************************************************************)
(* Proofs about LoopRead for every base, type field and word size that     *)
(* satisfy the assumptions: payload bytes are received inside the buffer,  *)
(* no buffer leaks, and the restartable reader implements Framing.         *)
(***************************************************************************)
EXTENDS LoopRead, SequenceTheorems, TLAPS

(* The pieces of the actions. *)
USE DEF DigitAllowed, LengthKnown, NextPacket

(* How the fields that survive between events determine the buffer: no     *)
(* buffer while the length is unknown, a partly filled one afterwards.     *)
BufferInv ==
    /\ pc = "closed" => remaining_count = 0
    /\ pc = "length" => remaining_count <= 0
    /\ pc \in {"payload", "parse"} => remaining_count > 0
    /\ remaining_count <= 0 => /\ in_payload = 0
                               /\ in_to_process = 0
                               /\ in_cur = 0
    /\ remaining_count > 0 => /\ in_cur + in_to_process = in_payload
                              /\ in_payload = length
                              /\ pc = "parse" <=> in_to_process = 0

MemoryInv == TypeOK /\ BufferInv

(* Bytes have types, digits are below the base. *)
LEMMA ByteFacts ==
    ASSUME NEW b \in Byte
    PROVE  TypeOf(b) \in Types /\ Digit(b) \in 0..(BASE - 1)
<1>1. b \in Nat /\ b <= 2 * BASE - 1 /\ 2 * BASE - 1 \in Nat
  BY HeaderAssumption DEF Byte
<1>2. b \div TYPE_UNIT <= (2 * BASE - 1) \div TYPE_UNIT /\ b \div TYPE_UNIT \in Nat
  BY <1>1, HeaderAssumption
<1>3. b % BASE \in 0..(BASE - 1)
  BY <1>1, HeaderAssumption
<1> QED
  BY <1>1, <1>2, <1>3, HeaderAssumption DEF TypeOf, Digit, Types

(* 0 is a packet type, and 0 and 1 are uint32_t values. *)
LEMMA SmallFacts == 0 \in Types /\ 0 \in 0..(UINT - 1) /\ 1 \in 0..(UINT - 1)
<1>1. UINT > 1
  BY HeaderAssumption DEF MAX_DIGITS, Weight
<1>2. (2 * BASE - 1) \div TYPE_UNIT \in Nat
  BY HeaderAssumption
<1> QED
  BY <1>1, <1>2, HeaderAssumption DEF Types, TypeOf

(* remove_client leaves a state with nothing read. *)
LEMMA RemoveKeeps ==
    ASSUME MemoryInv, Remove, handled' \in [type : Types, length : 0..(UINT - 1)]
    PROVE  MemoryInv'
<1>1. reserved' \in BOOLEAN
  BY Zenon DEF Remove
<1> QED
  BY <1>1, SmallFacts DEF MemoryInv, TypeOK, BufferInv, Remove, MAX_DIGITS

(* recv of a length byte allocates the buffer when, and only when, the     *)
(* length is known.                                                        *)
LEMMA ReadLengthKeeps ==
    ASSUME MemoryInv, ReadLength
    PROVE  MemoryInv'
<1> USE DEF MemoryInv
<1>1. PICK b \in Byte :
          LET len == (length + Digit(b) * remaining_mult) % UINT IN
          /\ head' = Append(head, b)
          /\ length' = len
          /\ remaining_mult' = (remaining_mult * BASE) % UINT
          /\ IF More(b)
             THEN /\ remaining_count' = remaining_count - 1
                  /\ UNCHANGED <<pc, in_payload, in_to_process>>
             ELSE /\ remaining_count' = -(remaining_count - 1)
                  /\ IF len > 0
                     THEN /\ in_payload' = len
                          /\ in_to_process' = len
                          /\ pc' = "payload"
                     ELSE /\ UNCHANGED <<in_payload, in_to_process>>
                          /\ pc' = "parse"
  BY DEF ReadLength
<1> DEFINE len == (length + Digit(b) * remaining_mult) % UINT
<1>2. UINT \in Nat /\ UINT > 0 /\ BASE \in Nat
  BY HeaderAssumption DEF MAX_DIGITS, Weight
<1>3. Digit(b) \in Nat /\ length \in Nat /\ remaining_mult \in Nat
  BY <1>2, ByteFacts, HeaderAssumption DEF TypeOK
<1>4. Digit(b) * remaining_mult \in Nat /\ remaining_mult * BASE \in Nat
  BY <1>2, <1>3
<1>5. len \in 0..(UINT - 1) /\ remaining_mult' \in 0..(UINT - 1)
  BY <1>1, <1>2, <1>3, <1>4
<1>6. head' \in Seq(Byte)
  BY <1>1, AppendProperties DEF TypeOK
<1>7. /\ pc = "length" /\ remaining_count - 1 >= -MAX_DIGITS
      /\ UNCHANGED <<type, in_cur, body, handled, reserved>>
      /\ remaining_count \in Int /\ remaining_count <= 0
      /\ in_payload = 0 /\ in_to_process = 0 /\ in_cur = 0
  BY DEF ReadLength, TypeOK, BufferInv
<1>8. TypeOK'
  <2> HIDE DEF len
  <2>1. length' = len
    BY <1>1 DEF len
  <2>2. remaining_count' \in -MAX_DIGITS..MAX_DIGITS
    BY <1>1, <1>7 DEF MAX_DIGITS
  <2>3. /\ in_payload' \in 0..(UINT - 1) /\ in_to_process' \in Nat
        /\ pc' \in {"closed", "wait", "command", "length", "payload", "parse"}
    BY <1>1, <1>5, <1>7 DEF len, TypeOK
  <2> QED
    BY <1>5, <1>6, <1>7, <2>1, <2>2, <2>3 DEF TypeOK
<1>9. BufferInv'
  BY <1>1, <1>5, <1>7 DEF BufferInv
<1> QED
  BY <1>8, <1>9

(* The fields determine the buffer in every reachable state. *)
THEOREM MemoryInductive == Spec => []MemoryInv
<1> USE DEF MemoryInv
<1>1. Init => MemoryInv
  <2>1. Init => reserved \in BOOLEAN
    BY Zenon DEF Init
  <2> QED
    BY <2>1, SmallFacts DEF Init, TypeOK, BufferInv, MAX_DIGITS
<1>2. ASSUME MemoryInv, [Next]_vars PROVE MemoryInv'
  <2> USE <1>2 DEF ctxVars, histVars
  <2>1. CASE Accept \/ Event \/ WouldBlock \/ UNCHANGED vars
    BY <2>1 DEF Accept, Event, WouldBlock, vars, AfterCommand, TypeOK, BufferInv
  <2>2. CASE ReadCommand
    <3>1. PICK b \in Commands \cup Byte :
              type' = TypeOf(b) /\ head' = IF head = <<>> THEN <<b>> ELSE head
      BY <2>2 DEF ReadCommand
    <3>2. type' \in Types /\ head' \in Seq(Byte)
      BY <3>1, ByteFacts, ReadAssumption DEF TypeOK
    <3> QED
      BY <2>2, <3>2, SmallFacts DEF ReadCommand, AfterCommand, TypeOK, BufferInv
  <2>3. CASE ReadLength
    BY <2>3, ReadLengthKeeps
  <2>4. CASE ReadPayload
    BY <2>4 DEF ReadPayload, TypeOK, BufferInv
  <2>5. CASE ReadTooLong \/ Fail \/ ParseError
    BY <2>5, RemoveKeeps DEF ReadTooLong, Fail, ParseError, TypeOK
  <2>6. CASE Handle
    <3>1. handled' \in [type : Types, length : 0..(UINT - 1)]
      BY <2>6 DEF Handle, TypeOK
    <3>2. CASE Remove
      BY <3>1, <3>2, RemoveKeeps
    <3>3. CASE ~Remove
      <4>1. /\ pc = "parse" /\ pc' = "wait" /\ type' = 0 /\ length' = 0
            /\ remaining_count' = 0 /\ in_payload' = 0 /\ in_cur' = 0
            /\ head' = <<>> /\ body' = 0
            /\ UNCHANGED <<remaining_mult, in_to_process, reserved>>
        BY <2>6, <3>3 DEF Handle
      <4>2. in_to_process = 0
        BY <4>1 DEF TypeOK, BufferInv
      <4> QED
        BY <3>1, <4>1, <4>2, SmallFacts DEF TypeOK, BufferInv, MAX_DIGITS
    <3> QED
      BY <3>2, <3>3
  <2> QED
    BY <2>1, <2>2, <2>3, <2>4, <2>5, <2>6 DEF Next, Recv
<1> QED
  BY <1>1, <1>2, PTL DEF Spec

(* The fields that survive between read events keep their types: the       *)
(* uint32_t length and multiplier do not leave their range.                *)
THEOREM TypeCorrect == Spec => []TypeOK
<1>1. MemoryInv => TypeOK
  BY DEF MemoryInv
<1> QED
  BY <1>1, MemoryInductive, PTL

(* recv never writes outside the payload buffer, for all interruptions and *)
(* all streams, reserved packet types included.                            *)
THEOREM MemorySafe == Spec => []PayloadInBounds
<1>1. MemoryInv => PayloadInBounds
  BY DEF MemoryInv, TypeOK, BufferInv, PayloadInBounds
<1> QED
  BY <1>1, MemoryInductive, PTL

(* loop_read allocates a payload buffer only when it holds none, so none   *)
(* leaks, and hands the parser a buffer that is filled to the end.         *)
THEOREM NoLeak == Spec => []OneBuffer
<1>1. MemoryInv => OneBuffer
  BY DEF MemoryInv, TypeOK, BufferInv, OneBuffer
<1> QED
  BY <1>1, MemoryInductive, PTL
-----------------------------------------------------------------------------
(* Until a packet starts with the reserved type: how the same fields       *)
(* determine the header that was read.                                     *)
HeaderInv ==
    /\ ~reserved
    /\ Len(head) <= MAX_DIGITS + 1
    /\ pc = "closed" => head = <<>>
    /\ head = <<>> => /\ type = 0
                      /\ length = 0
                      /\ remaining_count = 0
                      /\ pc \in {"closed", "wait", "command"}
    /\ head # <<>> => /\ pc # "command"
                      /\ type # 0
                      /\ type = TypeOf(head[1])
                      /\ length = Stream!LengthOf(head)
    /\ (head # <<>> /\ remaining_count <= 0) =>
          /\ remaining_count = 1 - Len(head)
          /\ ~Stream!Complete(head)
          /\ remaining_mult = Weight(Len(head))
          /\ length < Weight(Len(head))
    /\ remaining_count > 0 => Stream!Complete(head)
    /\ body = in_cur

(* Framing and the code read bytes the same way. *)
LEMMA SameBytes ==
    /\ Stream!Byte = Byte
    /\ Stream!MAX_DIGITS = MAX_DIGITS
    /\ \A b : /\ Stream!Digit(b) = Digit(b)
              /\ Stream!TypeOf(b) = TypeOf(b)
              /\ Stream!More(b) <=> More(b)
    /\ \A i : Stream!Weight(i) = Weight(i)
BY DEF Byte, MAX_DIGITS, Digit, TypeOf, More, Weight, Stream!Byte,
       Stream!MAX_DIGITS, Stream!Digit, Stream!TypeOf, Stream!More, Stream!Weight

LEMMA NatTimes == \A x, y \in Nat : x * y \in Nat
OBVIOUS

(* One digit more is one place further. *)
LEMMA WeightNext ==
    ASSUME NEW k \in 1..MAX_DIGITS
    PROVE  /\ Weight(k) \in Nat /\ Weight(k + 1) \in Nat
           /\ Weight(k + 1) = Weight(k) * BASE
           /\ Weight(k + 1) < UINT
<1> DEFINE B2 == BASE * BASE
           B3 == BASE * BASE * BASE
           B4 == BASE * BASE * BASE * BASE
<1>1. BASE \in Nat /\ BASE >= 2 /\ UINT \in Nat
  BY HeaderAssumption
<1>2. B2 \in Nat /\ B2 >= BASE
  BY <1>1
<1>3. B3 \in Nat /\ B3 >= B2
  BY <1>1, <1>2
<1>4. B4 \in Nat /\ B4 >= B3
  <2>1. B4 = B3 * BASE
    BY <1>1
  <2> HIDE DEF B3, B4
  <2> QED
    BY <1>1, <1>3, <2>1
<1>5. B4 < UINT
  <2>1. MAX_DIGITS * Weight(5) = 4 * B4
    BY DEF MAX_DIGITS, Weight
  <2> HIDE DEF B4
  <2> QED
    BY <1>1, <1>4, <2>1, HeaderAssumption
<1>6. k = 1 \/ k = 2 \/ k = 3 \/ k = 4
  BY DEF MAX_DIGITS
<1>7. CASE k = 1
  BY <1>1, <1>2, <1>3, <1>4, <1>5, <1>7 DEF Weight
<1>8. CASE k = 2
  BY <1>1, <1>2, <1>3, <1>4, <1>5, <1>8 DEF Weight
<1>9. CASE k = 3
  BY <1>1, <1>2, <1>3, <1>4, <1>5, <1>9 DEF Weight
<1>10. CASE k = 4
  BY <1>1, <1>2, <1>3, <1>4, <1>5, <1>10 DEF Weight
<1> QED
  BY <1>6, <1>7, <1>8, <1>9, <1>10

(* A digit below the base, added in a place above the sum so far, stays    *)
(* below the next place: the sum cannot wrap.                              *)
LEMMA DigitFits ==
    ASSUME NEW L \in Nat, NEW W \in Nat, NEW d \in Nat, L < W, d < BASE
    PROVE  L + d * W \in Nat /\ L + d * W < W * BASE
<1>1. BASE \in Nat /\ d <= BASE - 1
  BY HeaderAssumption
<1>2. d * W <= (BASE - 1) * W /\ d * W \in Nat
  BY <1>1
<1>3. (BASE - 1) * W = BASE * W - W
  BY <1>1
<1>4. BASE * W \in Nat /\ BASE * W = W * BASE
  BY <1>1
<1> QED
  BY <1>2, <1>3, <1>4

(* Framing's sum over the digits grows by the last digit in its place. *)
LEMMA LengthStep ==
    ASSUME NEW h \in Seq(Byte), Len(h) \in 1..MAX_DIGITS, NEW b \in Byte
    PROVE  Stream!LengthOf(Append(h, b)) =
               Stream!LengthOf(h) + Digit(b) * Weight(Len(h))
<1> DEFINE g == Append(h, b)
<1>1. /\ g \in Seq(Byte) /\ Len(g) = Len(h) + 1 /\ g[Len(h) + 1] = b
      /\ \A i \in 1..Len(h) : g[i] = h[i]
  BY AppendProperties
<1>2. \A i \in 1..4 : Weight(i) \in Nat
  BY WeightNext DEF MAX_DIGITS
<1>3. \A c \in Byte : Digit(c) \in Nat
  BY ByteFacts, HeaderAssumption
<1>4. ASSUME NEW i \in 1..4, i < Len(h)
      PROVE  /\ Stream!DigitAt(g, i) = Stream!DigitAt(h, i)
             /\ Stream!DigitAt(h, i) \in Nat
  <2>1. g[i + 1] = h[i + 1] /\ h[i + 1] \in Byte
    BY <1>1, <1>4
  <2>2. Digit(h[i + 1]) * Weight(i) \in Nat
    <3>1. Digit(h[i + 1]) \in Nat /\ Weight(i) \in Nat
      BY <1>2, <1>3, <2>1
    <3> QED
      BY <3>1, NatTimes
  <2> QED
    BY <1>1, <1>4, <2>1, <2>2, SameBytes DEF Stream!DigitAt
<1>5. ASSUME NEW i \in 1..4, i = Len(h)
      PROVE  /\ Stream!DigitAt(g, i) = Digit(b) * Weight(Len(h))
             /\ Stream!DigitAt(h, i) = 0 /\ Digit(b) * Weight(Len(h)) \in Nat
  <2>1. Digit(b) * Weight(Len(h)) \in Nat
    <3>1. Digit(b) \in Nat /\ Weight(Len(h)) \in Nat
      BY <1>2, <1>3, <1>5
    <3> QED
      BY <3>1, NatTimes
  <2>2. Len(g) >= i + 1 /\ ~(Len(h) >= i + 1) /\ g[i + 1] = b
    BY <1>1, <1>5
  <2> QED
    BY <1>5, <2>1, <2>2, SameBytes DEF Stream!DigitAt
<1>6. ASSUME NEW i \in 1..4, i > Len(h)
      PROVE  Stream!DigitAt(g, i) = 0 /\ Stream!DigitAt(h, i) = 0
  BY <1>1, <1>6 DEF Stream!DigitAt
<1>7. Len(h) = 1 \/ Len(h) = 2 \/ Len(h) = 3 \/ Len(h) = 4
  BY DEF MAX_DIGITS
<1> HIDE DEF g
<1>8. Stream!LengthOf(g) = Stream!LengthOf(h) + Digit(b) * Weight(Len(h))
  <2>1. CASE Len(h) = 1
    BY <1>4, <1>5, <1>6, <2>1 DEF Stream!LengthOf
  <2>2. CASE Len(h) = 2
    BY <1>4, <1>5, <1>6, <2>2 DEF Stream!LengthOf
  <2>3. CASE Len(h) = 3
    BY <1>4, <1>5, <1>6, <2>3 DEF Stream!LengthOf
  <2>4. CASE Len(h) = 4
    BY <1>4, <1>5, <1>6, <2>4 DEF Stream!LengthOf
  <2> QED
    BY <1>7, <2>1, <2>2, <2>3, <2>4
<1> QED
  BY <1>8 DEF g

(* An unfinished header of k bytes is followed by digit number k. *)
LEMMA ReadLengthHeader ==
    ASSUME MemoryInv, HeaderInv, ReadLength
    PROVE  HeaderInv' /\ \E b \in Byte : Stream!HeadByte(b)
<1>1. PICK b \in Byte :
          LET len == (length + Digit(b) * remaining_mult) % UINT IN
          /\ head' = Append(head, b)
          /\ length' = len
          /\ remaining_mult' = (remaining_mult * BASE) % UINT
          /\ IF More(b)
             THEN /\ remaining_count' = remaining_count - 1
                  /\ UNCHANGED <<pc, in_payload, in_to_process>>
             ELSE /\ remaining_count' = -(remaining_count - 1)
                  /\ IF len > 0
                     THEN /\ in_payload' = len
                          /\ in_to_process' = len
                          /\ pc' = "payload"
                     ELSE /\ UNCHANGED <<in_payload, in_to_process>>
                          /\ pc' = "parse"
  BY DEF ReadLength
<1>2. /\ pc = "length" /\ remaining_count - 1 >= -MAX_DIGITS
      /\ UNCHANGED <<type, in_cur, body, handled, reserved>>
      /\ pc' \in {"length", "payload", "parse"}
  BY <1>1 DEF ReadLength
<1>3. /\ head # <<>> /\ remaining_count <= 0 /\ remaining_count = 1 - Len(head)
      /\ ~Stream!Complete(head) /\ remaining_mult = Weight(Len(head))
      /\ length < Weight(Len(head)) /\ length = Stream!LengthOf(head)
      /\ ~reserved
  BY <1>2 DEF MemoryInv, BufferInv, HeaderInv
<1>4. head \in Seq(Byte) /\ Len(head) \in 1..MAX_DIGITS /\ remaining_count \in Int
  <2>1. head \in Seq(Byte) /\ remaining_count \in Int
    BY DEF MemoryInv, TypeOK
  <2>2. Len(head) \in Nat \ {0}
    BY <1>3, <2>1, EmptySeq
  <2> QED
    <3>1. (1 - Len(head)) - 1 >= -4
      BY <1>2, <1>3 DEF MAX_DIGITS
    <3>2. \A k \in Nat \ {0} : (1 - k) - 1 >= -4 => k \in 1..4
      OBVIOUS
    <3> QED
      BY <2>1, <2>2, <3>1, <3>2 DEF MAX_DIGITS
<1>5. /\ Len(head') = Len(head) + 1 /\ head'[Len(head) + 1] = b /\ head' # <<>>
      /\ head'[1] = head[1] /\ head' \in Seq(Byte)
  BY <1>1, <1>4, AppendProperties DEF MAX_DIGITS
<1>6. /\ length \in Nat /\ Weight(Len(head)) \in Nat /\ Digit(b) \in Nat /\ Digit(b) < BASE
      /\ Weight(Len(head) + 1) = Weight(Len(head)) * BASE
      /\ Weight(Len(head) + 1) < UINT /\ UINT \in Nat
      /\ Weight(Len(head) + 1) \in Nat
  BY <1>4, WeightNext, ByteFacts, HeaderAssumption DEF MemoryInv, TypeOK
<1>7. /\ length + Digit(b) * Weight(Len(head)) \in Nat
      /\ length + Digit(b) * Weight(Len(head)) < Weight(Len(head) + 1)
  <2> DEFINE W == Weight(Len(head))
             d == Digit(b)
  <2>1. W \in Nat /\ d \in Nat /\ d < BASE /\ length < W /\ length \in Nat
    BY <1>3, <1>6
  <2> HIDE DEF W, d
  <2>2. length + d * W \in Nat /\ length + d * W < W * BASE
    BY <2>1, DigitFits
  <2> QED
    BY <1>6, <2>2 DEF W, d
<1>8. \A x \in Nat : x < UINT => x % UINT = x
  BY <1>6
<1>9. /\ length' = length + Digit(b) * Weight(Len(head))
      /\ length' < Weight(Len(head'))
      /\ remaining_mult' = Weight(Len(head'))
  <2>1. length + Digit(b) * Weight(Len(head)) < UINT
    BY <1>6, <1>7
  <2>2. length' = length + Digit(b) * Weight(Len(head))
    BY <1>1, <1>3, <1>7, <1>8, <2>1
  <2>3. remaining_mult' = Weight(Len(head) + 1)
    BY <1>1, <1>3, <1>6, <1>8
  <2> QED
    BY <1>5, <1>7, <2>2, <2>3
<1>10. length' = Stream!LengthOf(head')
  BY <1>1, <1>3, <1>4, <1>9, LengthStep
<1>11. Stream!Complete(head') <=> ~More(b)
  BY <1>4, <1>5, SameBytes DEF Stream!Complete
<1>12. Stream!HeadByte(b)
  BY <1>1, <1>2, <1>3, <1>4, SameBytes DEF Stream!HeadByte, MAX_DIGITS
<1>13. /\ More(b) => remaining_count' = 1 - Len(head')
       /\ ~More(b) => remaining_count' > 0
       /\ remaining_count' \in Int
  BY <1>1, <1>3, <1>4, <1>5
<1>14. HeaderInv'
  <2>1. /\ Len(head') <= MAX_DIGITS + 1 /\ pc' # "closed" /\ pc' # "command"
        /\ type' # 0 /\ type' = TypeOf(head'[1]) /\ body' = in_cur' /\ ~reserved'
    BY <1>2, <1>3, <1>4, <1>5 DEF HeaderInv, MAX_DIGITS
  <2>2. CASE More(b)
    BY <1>3, <1>4, <1>5, <1>9, <1>10, <1>11, <1>13, <2>1, <2>2 DEF HeaderInv, MAX_DIGITS
  <2>3. CASE ~More(b)
    BY <1>5, <1>10, <1>11, <1>13, <2>1, <2>3 DEF HeaderInv
  <2> QED
    BY <2>2, <2>3
<1> QED
  BY <1>12, <1>14

(* Afterwards only the end of the connection matters, at which the fields  *)
(* are as at the start.                                                    *)
FramingInv == HeaderInv \/ (reserved /\ pc # "closed")

(* While no reserved type was read, a step of loop_read reads the next     *)
(* byte or bytes of the packet, handles it, or ends the connection.        *)
LEMMA FramedStep ==
    ASSUME MemoryInv, MemoryInv', HeaderInv, [Next]_vars
    PROVE  FramingInv' /\ [Stream!Next]_(Stream!vars)
<1> USE DEF ctxVars, histVars
<1>0. ~reserved
  BY DEF HeaderInv
<1>1. CASE Accept
  BY <1>0, <1>1 DEF Accept, HeaderInv, FramingInv, Stream!Open, Stream!Next
<1>2. CASE Event \/ WouldBlock \/ UNCHANGED vars
  <2>1. HeaderInv'
    BY <1>2 DEF Event, WouldBlock, vars, AfterCommand, HeaderInv, MemoryInv, BufferInv
  <2>2. UNCHANGED Stream!vars
    BY <1>2 DEF Event, WouldBlock, vars, AfterCommand, HeaderInv, Stream!vars
  <2> QED
    BY <2>1, <2>2 DEF FramingInv
<1>3. CASE ReadCommand
  <2>1. pc = "command" /\ head = <<>> /\ Len(head) = 0 /\ remaining_count = 0
        /\ length = 0 /\ body = 0
    BY <1>3, EmptySeq DEF ReadCommand, HeaderInv, MemoryInv, BufferInv
  <2>2. PICK b \in Commands : /\ type' = TypeOf(b) /\ head' = <<b>>
                              /\ reserved' = (reserved \/ TypeOf(b) = 0)
    BY <1>3, <2>1 DEF ReadCommand
  <2>3. pc' # "closed" /\ UNCHANGED handled /\ body' = 0
    BY <1>3, <2>1 DEF ReadCommand, AfterCommand
  <2>4. CASE TypeOf(b) = 0
    <3>1. reserved' = TRUE
      BY <2>2, <2>4
    <3>2. Stream!Close
      BY <1>0, <2>1, <2>3, <3>1 DEF Stream!Close
    <3> QED
      BY <2>3, <3>1, <3>2 DEF FramingInv, Stream!Next
  <2>5. CASE TypeOf(b) # 0
    <3>1. ~reserved'
      BY <1>0, <2>2, <2>5
    <3>3. /\ b \in Byte /\ TypeOf(b) # 0 /\ head' = Append(head, b)
          /\ Len(head') = 1 /\ head'[1] = b /\ head' # <<>>
      BY <2>1, <2>2, <2>5, ReadAssumption
    <3>4. ~Stream!Complete(head) /\ ~Stream!Complete(head')
      BY <2>1, <3>3 DEF Stream!Complete
    <3>5. Stream!LengthOf(head') = 0
      BY <3>3 DEF Stream!LengthOf, Stream!DigitAt
    <3>6. Weight(1) = 1
      BY DEF Weight
    <3>7. HeaderInv'
      BY <1>3, <2>1, <2>2, <3>1, <3>3, <3>4, <3>5, <3>6
      DEF ReadCommand, HeaderInv, AfterCommand, MAX_DIGITS
    <3>8. Stream!HeadByte(b)
      BY <1>0, <2>1, <2>3, <3>1, <3>3, <3>4, SameBytes
      DEF Stream!HeadByte, MAX_DIGITS
    <3> QED
      BY <3>3, <3>7, <3>8, SameBytes DEF FramingInv, Stream!Next
  <2> QED
    BY <2>4, <2>5
<1>4. CASE ReadLength
  BY <1>4, ReadLengthHeader, SameBytes DEF FramingInv, Stream!Next
<1>5. CASE ReadPayload
  <2>1. PICK n \in 1..in_to_process :
            /\ in_to_process' = in_to_process - n
            /\ in_cur' = in_cur + n
            /\ body' = body + n
            /\ pc' = IF n = in_to_process THEN "parse" ELSE "payload"
    BY <1>5 DEF ReadPayload
  <2>2. /\ pc = "payload" /\ remaining_count > 0 /\ in_cur + in_to_process = length
        /\ head # <<>> /\ Stream!Complete(head) /\ length = Stream!LengthOf(head)
        /\ body = in_cur /\ in_cur \in Nat /\ in_to_process \in Nat
        /\ UNCHANGED <<head, handled, reserved, type, length, remaining_count,
                       remaining_mult>>
    BY <1>5 DEF ReadPayload, MemoryInv, TypeOK, BufferInv, HeaderInv
  <2>3. HeaderInv'
    BY <2>1, <2>2 DEF HeaderInv
  <2>4. n \in 1..(Stream!LengthOf(head) - body)
    BY <2>1, <2>2
  <2>5. Stream!BodyBytes
    BY <1>0, <2>1, <2>2, <2>4 DEF Stream!BodyBytes
  <2> QED
    BY <2>3, <2>5 DEF FramingInv, Stream!Next
<1>6. ASSUME Remove, pc # "closed"
      PROVE  HeaderInv' /\ (handled' = handled => Stream!Close)
  <2>1. Len(head') = 0 /\ head' = <<>> /\ ~reserved'
    BY <1>6, EmptySeq DEF Remove
  <2> QED
    BY <1>0, <1>6, <2>1 DEF Remove, HeaderInv, Stream!Close, MAX_DIGITS
<1>7. CASE ReadTooLong \/ Fail \/ ParseError
  BY <1>6, <1>7 DEF ReadTooLong, Fail, ParseError, FramingInv, Stream!Next
<1>8. CASE Handle
  <2>1. /\ pc = "parse" /\ remaining_count > 0 /\ in_cur = length /\ body = length
        /\ head # <<>> /\ Stream!Complete(head) /\ length = Stream!LengthOf(head)
        /\ type = TypeOf(head[1])
    BY <1>8 DEF Handle, MemoryInv, TypeOK, BufferInv, HeaderInv
  <2>2. handled' = [type |-> Stream!TypeOf(head[1]), length |-> Stream!LengthOf(head)]
    BY <1>0, <1>8, <2>1, SameBytes DEF Handle
  <2>3. head' = <<>> /\ body' = 0 /\ Len(head') = 0 /\ ~reserved'
    BY <1>0, <1>8, EmptySeq DEF Handle, Remove
  <2>4. Stream!Handle
    BY <1>0, <2>1, <2>2, <2>3 DEF Stream!Handle
  <2>5. HeaderInv'
    BY <1>6, <1>8, <2>1, <2>3 DEF Handle, HeaderInv, MAX_DIGITS
  <2> QED
    BY <2>4, <2>5 DEF FramingInv, Stream!Next
<1> QED
  BY <1>1, <1>2, <1>3, <1>4, <1>5, <1>7, <1>8 DEF Next, Recv

(* Afterwards the framed stream has ended and steps do not show in it,     *)
(* until the connection ends.                                              *)
LEMMA StrayStep ==
    ASSUME MemoryInv, reserved, pc # "closed", [Next]_vars
    PROVE  FramingInv' /\ UNCHANGED Stream!vars
<1> USE DEF ctxVars, histVars
<1>1. CASE /\ UNCHANGED <<reserved, handled>> /\ pc' # "closed"
  BY <1>1 DEF FramingInv, Stream!vars
<1>2. CASE Remove /\ UNCHANGED handled
  <2>1. Len(head') = 0 /\ head' = <<>> /\ ~reserved' /\ pc' = "closed" /\ body' = 0
    BY <1>2, EmptySeq DEF Remove
  <2>2. HeaderInv'
    BY <1>2, <2>1 DEF Remove, HeaderInv, MAX_DIGITS
  <2> QED
    BY <1>2, <2>1, <2>2 DEF FramingInv, Stream!vars
<1>3. CASE ReadCommand
  BY <1>1, <1>3 DEF ReadCommand, AfterCommand, MemoryInv, TypeOK
<1>4. CASE Handle
  BY <1>1, <1>2, <1>4 DEF Handle
<1>5. CASE Event \/ WouldBlock \/ ReadLength \/ ReadPayload \/ UNCHANGED vars
  BY <1>1, <1>5 DEF Event, WouldBlock, ReadLength, ReadPayload, vars, AfterCommand
<1>6. CASE ReadTooLong \/ Fail \/ ParseError
  BY <1>2, <1>6 DEF ReadTooLong, Fail, ParseError
<1>7. ~Accept
  BY DEF Accept
<1> QED
  BY <1>3, <1>4, <1>5, <1>6, <1>7 DEF Next, Recv

(* The restartable reader of loop_read cuts the stream into the packets    *)
(* that the stream contains, however it arrives: with the type and length  *)
(* their headers say, one after the other, over any number of connections  *)
(* in the slot, in each until a packet of the reserved type 0 begins.      *)
THEOREM SegmentationIrrelevant == Spec => ImplementsFraming
<1>1. Init => Stream!Init /\ FramingInv
  <2>1. Init => Len(head) = 0
    BY EmptySeq DEF Init
  <2> QED
    BY <2>1 DEF Init, HeaderInv, FramingInv, Stream!Init, MAX_DIGITS
<1>2. ASSUME MemoryInv, MemoryInv', FramingInv, [Next]_vars
      PROVE  FramingInv' /\ [Stream!Next]_(Stream!vars)
  <2>1. CASE HeaderInv
    BY <1>2, <2>1, FramedStep
  <2>2. CASE reserved /\ pc # "closed"
    BY <1>2, <2>2, StrayStep
  <2> QED
    BY <1>2, <2>1, <2>2 DEF FramingInv
<1> QED
  BY <1>1, <1>2, MemoryInductive, PTL DEF Spec, ImplementsFraming, Stream!Spec
=============================================================================
