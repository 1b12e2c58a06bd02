------------------------------ MODULE MCBroker ------------------------------
(* Broker for TLC: of the filters a, # and #/a, the first two match the     *)
(* topic a and the last is below the second.  Threads, slots and           *)
(* identifiers are interchangeable.                                        *)
EXTENDS Broker

CONSTANTS exact, hash, below, a

MatchA  == {<<exact, a>>, <<hash, a>>}
HideAll == {<<below, hash>>}
Symmetric == Permutations(Threads) \cup Permutations(Slots) \cup Permutations(Ids)
=============================================================================
