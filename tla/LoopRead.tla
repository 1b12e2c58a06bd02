------------------------------ MODULE LoopRead ------------------------------
(***************************************************************************)
(* loop_read: reading packets from one client's non-blocking socket.       *)
(*                                                                         *)
(* One call of loop_read is made for each readiness event.  It goes        *)
(* through the command byte, the remaining length and the payload with one *)
(* recv after the other, returns whenever recv would block, and takes up   *)
(* where it was at the next event: where that is it works out from         *)
(* in_packet->common.type, remaining_count and in_to_process.  Here every  *)
(* recv is a step, and what it returns is chosen by the environment: bytes *)
(* of the client's stream, "would block", end of file or an error.         *)
(*                                                                         *)
(* in_payload is the size of the allocated buffer, 0 for none.             *)
(***************************************************************************)
EXTENDS FixedHeader

CONSTANTS
    Commands,   \* command bytes that clients start a packet with
    Parsed      \* packet types mqtt_parser_execute knows

ASSUME ReadAssumption ==
    /\ Commands \subseteq Byte
    /\ Parsed \subseteq Types \ {0}

VARIABLES
    pc,               \* "closed", "wait" for an event, or the recv to do
    type, length,     \* in_packet->common; 0, 0 when there is no in_packet
    remaining_count,
    remaining_mult,
    in_payload,
    in_to_process,
    in_cur,
    (* history *)
    head, body,       \* header and payload bytes read for this packet
    handled,          \* type and length of the last packet handled
    reserved          \* a packet of the reserved type 0 has begun

ctxVars  == <<type, length, remaining_count, remaining_mult, in_payload,
              in_to_process, in_cur>>
histVars == <<head, body, handled, reserved>>
vars     == <<pc, ctxVars, histVars>>
-----------------------------------------------------------------------------
(* Where loop_read goes once the command byte is known. *)
AfterCommand == IF remaining_count <= 0 THEN "length" ELSE "payload"

(* A new connection in the slot; its fields are as clean_context or main   *)
(* left them.                                                              *)
Accept ==
    /\ pc = "closed"
    /\ pc' = "wait"
    /\ UNCHANGED <<ctxVars, histVars>>

(* A readiness event: loop_read is called.  Mutant: it starts from the     *)
(* command byte each time.                                                 *)
EventRestarts ==
    /\ pc = "wait"
    /\ pc' = "command"
    /\ UNCHANGED <<ctxVars, histVars>>
Event ==
    /\ pc = "wait"
    /\ pc' = IF type = 0 THEN "command" ELSE AfterCommand
    /\ UNCHANGED <<ctxVars, histVars>>

(* recv returned the command byte.  It is the first byte of a packet       *)
(* unless loop_read took a type 0 for "no command byte yet": then it is    *)
(* any byte, and not one of the header's.                                  *)
ReadCommand ==
    /\ pc = "command"
    /\ \E b \in IF head = <<>> THEN Commands ELSE Byte :
          /\ type' = TypeOf(b)
          /\ head' = IF head = <<>> THEN <<b>> ELSE head
          /\ reserved' = (reserved \/ TypeOf(b) = 0)
    /\ remaining_mult' = 1
    /\ pc' = AfterCommand
    /\ UNCHANGED <<length, remaining_count, in_payload, in_to_process, in_cur,
                   body, handled>>

(* remove_client: clean_context forgets the packet that was being read.    *)
Remove ==
    /\ pc' = "closed"
    /\ type' = 0
    /\ length' = 0
    /\ remaining_count' = 0
    /\ remaining_mult' = 0
    /\ in_payload' = 0
    /\ in_to_process' = 0
    /\ in_cur' = 0
    /\ head' = <<>>
    /\ body' = 0
    /\ reserved' = FALSE

(* One more digit is allowed; mutant: off by one. *)
FifthAllowed == remaining_count >= -MAX_DIGITS
DigitAllowed == remaining_count - 1 >= -MAX_DIGITS

(* The last digit is read: allocate the payload buffer, unless there is no *)
(* payload; mutant: go on to read one of 0 bytes.                          *)
EmptyPayload(len) ==
    /\ in_payload' = len
    /\ in_to_process' = len
    /\ pc' = "payload"
LengthKnown(len) ==
    IF len > 0
    THEN /\ in_payload' = len
         /\ in_to_process' = len
         /\ pc' = "payload"
    ELSE /\ UNCHANGED <<in_payload, in_to_process>>
         /\ pc' = "parse"

(* recv returned one more byte of the remaining length, the last one or    *)
(* not; length and remaining_mult are uint32_t.                            *)
ReadLength ==
    /\ pc = "length"
    /\ DigitAllowed
    /\ \E b \in Byte :
          LET len == (length + Digit(b) * remaining_mult) % UINT IN
          /\ head' = Append(head, b)
          /\ length' = len
          /\ remaining_mult' = (remaining_mult * BASE) % UINT
          /\ IF More(b)
             THEN /\ remaining_count' = remaining_count - 1
                  /\ UNCHANGED <<pc, in_payload, in_to_process>>
             ELSE /\ remaining_count' = -(remaining_count - 1)
                  /\ LengthKnown(len)
    /\ UNCHANGED <<type, in_cur, body, handled, reserved>>

(* A fifth digit: protocol error. *)
ReadTooLong ==
    /\ pc = "length"
    /\ ~DigitAllowed
    /\ Remove
    /\ UNCHANGED handled

(* recv returned n bytes of the payload.  Mutant: the place to write the   *)
(* next ones to is not moved.                                              *)
ReadInPlace ==
    /\ pc = "payload"
    /\ \E n \in 1..in_to_process :
          /\ in_to_process' = in_to_process - n
          /\ body' = body + n
          /\ pc' = IF n = in_to_process THEN "parse" ELSE "payload"
    /\ UNCHANGED <<type, length, remaining_count, remaining_mult, in_payload,
                   in_cur, head, handled, reserved>>
ReadPayload ==
    /\ pc = "payload"
    /\ \E n \in 1..in_to_process :
          /\ in_to_process' = in_to_process - n
          /\ in_cur' = in_cur + n
          /\ body' = body + n
          /\ pc' = IF n = in_to_process THEN "parse" ELSE "payload"
    /\ UNCHANGED <<type, length, remaining_count, remaining_mult, in_payload,
                   head, handled, reserved>>

(* recv would block: loop_read returns 1. *)
WouldBlock ==
    /\ pc \in {"command", "length", "payload"}
    /\ pc' = "wait"
    /\ UNCHANGED <<ctxVars, histVars>>

(* Hang-up or error event, end of file, a recv error, or no memory for the *)
(* payload: loop_read returns a value <= 0.                                *)
Fail ==
    /\ pc \in {"wait", "command", "length", "payload"}
    /\ Remove
    /\ UNCHANGED handled

(* The parser rejects the packet; only types it knows have a parser.       *)
ParseError ==
    /\ pc = "parse"
    /\ Remove
    /\ UNCHANGED handled

(* Make ready for the next packet; mutant: the payload is not freed. *)
KeepPayload ==
    /\ pc' = "wait"
    /\ type' = 0
    /\ length' = 0
    /\ remaining_count' = 0
    /\ in_cur' = 0
    /\ head' = <<>>
    /\ body' = 0
    /\ UNCHANGED <<remaining_mult, in_payload, in_to_process, reserved>>
NextPacket ==
    /\ pc' = "wait"
    /\ type' = 0
    /\ length' = 0
    /\ remaining_count' = 0
    /\ in_payload' = 0
    /\ in_cur' = 0
    /\ head' = <<>>
    /\ body' = 0
    /\ UNCHANGED <<remaining_mult, in_to_process, reserved>>

(* The packet is parsed and handled; the handler's result says whether the *)
(* client stays.  What is handled once loop_read may have lost its place   *)
(* is not recorded.                                                        *)
Handle ==
    /\ pc = "parse"
    /\ type \in Parsed
    /\ handled' = IF reserved THEN handled ELSE [type |-> type, length |-> length]
    /\ Remove \/ NextPacket
-----------------------------------------------------------------------------
Init ==
    /\ pc = "closed"
    /\ type = 0
    /\ length = 0
    /\ remaining_count = 0
    /\ remaining_mult = 0
    /\ in_payload = 0
    /\ in_to_process = 0
    /\ in_cur = 0
    /\ head = <<>>
    /\ body = 0
    /\ handled = [type |-> 0, length |-> 0]
    /\ reserved = FALSE

Recv == ReadCommand \/ ReadLength \/ ReadTooLong \/ ReadPayload

Next ==
    \/ Accept
    \/ Event
    \/ Recv
    \/ WouldBlock
    \/ Fail
    \/ ParseError
    \/ Handle

Spec == Init /\ [][Next]_vars

(* The event loop calls loop_read while the socket is readable (epoll is   *)
(* level-triggered), and a client in the middle of a packet keeps sending  *)
(* it: recv does not return "would block" for ever.                        *)
Fairness ==
    /\ WF_vars(Event)
    /\ WF_vars(ParseError \/ Handle)
    /\ SF_vars(ReadCommand)
    /\ SF_vars(ReadLength \/ ReadTooLong)
    /\ SF_vars(ReadPayload)

FairSpec == Spec /\ Fairness
-----------------------------------------------------------------------------
(* Properties. *)

(* Every field has the type client.h and mqtt.h give it; the number of     *)
(* digits read so far fits the int8_t that also carries the "length is     *)
(* known" flag in its sign.                                                *)
TypeOK ==
    /\ pc \in {"closed", "wait", "command", "length", "payload", "parse"}
    /\ type \in Types
    /\ length \in 0..(UINT - 1)
    /\ remaining_count \in -MAX_DIGITS..MAX_DIGITS
    /\ remaining_mult \in 0..(UINT - 1)
    /\ in_payload \in 0..(UINT - 1)
    /\ in_to_process \in Nat
    /\ in_cur \in Nat
    /\ head \in Seq(Byte)
    /\ body \in Nat
    /\ handled \in [type : Types, length : 0..(UINT - 1)]
    /\ reserved \in BOOLEAN

(* recv writes inside the buffer: where it writes, plus what it is allowed *)
(* to write, is exactly the size that was allocated, over any number of    *)
(* interrupted calls, and even if a reserved packet type makes loop_read   *)
(* take a later byte for the command byte.                                 *)
PayloadInBounds ==
    /\ pc = "payload" => in_to_process > 0
    /\ in_to_process > 0 => in_cur + in_to_process = in_payload

(* A payload buffer is allocated only when there is none, so none leaks,   *)
(* and what the parser is given (in_payload, length) is the whole buffer,  *)
(* filled.                                                                 *)
OneBuffer ==
    /\ pc = "length" => in_payload = 0
    /\ pc = "parse" => in_payload = length /\ in_cur = length

(* Segmentation does not matter: the packets of the stream are handled     *)
(* whole, in order, with the type and length of their header, until a      *)
(* packet of the reserved type 0 begins, which loop_read cannot tell from  *)
(* no packet: there the framed stream ends, though the connection may not. *)
Stream == INSTANCE Framing WITH
              open <- pc # "closed" /\ ~reserved,
              head <- IF reserved THEN <<>> ELSE head,
              body <- IF reserved THEN 0 ELSE body
ImplementsFraming == Stream!Spec

(* A packet that was begun is handled, or its connection closed. *)
PacketFinished == head # <<>> ~> head = <<>>
=============================================================================
