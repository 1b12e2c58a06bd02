------------------------------- MODULE Framing -------------------------------
(***************************************************************************)
(* What reading packets from a TCP stream should amount to, however the    *)
(* bytes are cut into segments: a packet is handled once its header and    *)
(* exactly as many bytes as its header announces have arrived, with the    *)
(* type and the length the header says, and the next byte starts the next  *)
(* packet.  The length is written down here as a sum over the digits; the  *)
(* code computes it on the fly in fields that survive from one readiness   *)
(* event to the next.                                                      *)
(***************************************************************************)
EXTENDS FixedHeader

VARIABLES
    open,     \* the connection is open
    head,     \* header bytes of the packet being received
    body,     \* bytes of its payload received so far
    handled   \* type and length of the last packet handled

vars == <<open, head, body, handled>>

Complete(h) == Len(h) >= 2 /\ ~More(h[Len(h)])

Init ==
    /\ open = FALSE
    /\ head = <<>>
    /\ body = 0
    /\ handled = [type |-> 0, length |-> 0]

Open ==
    /\ ~open
    /\ open' = TRUE
    /\ UNCHANGED <<head, body, handled>>

(* The connection may end at any moment, a fifth digit included. *)
Close ==
    /\ open
    /\ open' = FALSE
    /\ head' = <<>>
    /\ body' = 0
    /\ UNCHANGED handled

HeadByte(b) ==
    /\ open
    /\ ~Complete(head)
    /\ Len(head) < MAX_DIGITS + 1
    /\ head' = Append(head, b)
    /\ UNCHANGED <<open, body, handled>>

BodyBytes ==
    /\ open
    /\ Complete(head)
    /\ \E n \in 1..(LengthOf(head) - body) : body' = body + n
    /\ UNCHANGED <<open, head, handled>>

(* The packet is handled; the handler may ask for the connection to end.   *)
Handle ==
    /\ open
    /\ Complete(head)
    /\ body = LengthOf(head)
    /\ handled' = [type |-> TypeOf(head[1]), length |-> LengthOf(head)]
    /\ head' = <<>>
    /\ body' = 0
    /\ open' \in BOOLEAN

Next ==
    \/ Open
    \/ Close
    \/ Handle
    \/ \E b \in Byte : HeadByte(b)
    \/ BodyBytes

Spec == Init /\ [][Next]_vars
=============================================================================
