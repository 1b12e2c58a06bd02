------------------------------- MODULE Outbox -------------------------------
(***************************************************************************)
(* What the outgoing message queue of one client promises to the threads   *)
(* that use it (the "FIFO linked list" message queue of the design): every *)
(* message is accepted at most once, and messages are handed to the socket *)
(* writer in the order in which they were accepted, none twice, none out   *)
(* of thin air.  Nothing is promised about a message ever being handed     *)
(* out: delivery is QoS 0.                                                 *)
(*                                                                         *)
(* Both variables are histories: put is every message accepted so far, got *)
(* every message handed to the writer so far.                              *)
(***************************************************************************)
EXTENDS Naturals, Sequences

CONSTANT Msgs                 \* the messages that may be sent

VARIABLES put, got

vars == <<put, got>>

Init == put = <<>> /\ got = <<>>

(* A message that was never accepted before is appended. *)
Put(m) ==
    /\ \A i \in 1..Len(put) : put[i] # m
    /\ put' = Append(put, m)
    /\ UNCHANGED got

(* The oldest message not yet handed out goes to the writer. *)
Get ==
    /\ Len(got) < Len(put)
    /\ got' = Append(got, put[Len(got) + 1])
    /\ UNCHANGED put

Next == Get \/ \E m \in Msgs : Put(m)

Spec == Init /\ [][Next]_vars
=============================================================================
