----------------------------- MODULE FixedHeader -----------------------------
(***************************************************************************)
(* The fixed header of an MQTT packet: a command byte whose high bits are  *)
(* the packet type, then the remaining length as digits in base 128, least *)
(* significant first, all but the last with the continuation bit set.  The *)
(* base and the position of the type are parameters so that small ones can *)
(* be checked; MAX_DIGITS is the 4 of the test remaining_count < -4.       *)
(***************************************************************************)
EXTENDS Integers, Sequences

CONSTANTS
    BASE,        \* 128
    TYPE_UNIT,   \* 16: the type is the byte shifted right by 4
    UINT         \* 2^32: lengths and multipliers are uint32_t

MAX_DIGITS == 4

(* The value of a 1 in the i-th digit. *)
Weight(i) == IF i = 1 THEN 1
             ELSE IF i = 2 THEN BASE
             ELSE IF i = 3 THEN BASE * BASE
             ELSE IF i = 4 THEN BASE * BASE * BASE
             ELSE BASE * BASE * BASE * BASE

ASSUME HeaderAssumption ==
    /\ BASE \in Nat \ {0, 1}
    /\ TYPE_UNIT \in Nat \ {0}
    /\ UINT \in Nat
    /\ MAX_DIGITS * Weight(5) < UINT

Byte == 0..(2 * BASE - 1)

TypeOf(b) == b \div TYPE_UNIT     \* (b >> 4) & 0x0f
Digit(b)  == b % BASE             \* b & 127
More(b)   == b >= BASE            \* (b & 128) != 0

(* The length a header h (command byte and digits) announces; a digit it  *)
(* does not have counts 0.                                                 *)
DigitAt(h, i) == IF Len(h) >= i + 1 THEN Digit(h[i + 1]) * Weight(i) ELSE 0

LengthOf(h) ==
    DigitAt(h, 1) + DigitAt(h, 2) + DigitAt(h, 3) + DigitAt(h, 4)

Types == 0..TypeOf(2 * BASE - 1)
=============================================================================
