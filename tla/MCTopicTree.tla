---------------------------- MODULE MCTopicTree ----------------------------
(* Instances of TopicTree for TLC: which thread serves which slot, the     *)
(* identifiers of the clients, their filters and topics.                   *)
EXTENDS TopicTree

CONSTANTS t1, t2, c1, c2, A, B

OneEach   == c1 :> t1 @@ c2 :> t2
OwnIds    == c1 :> {A} @@ c2 :> {B}

(* Nodes that are siblings, and parent and child, of each other, and one   *)
(* below a second child of the root.                                       *)
Wild   == c1 :> {<<"a">>, <<"$S">>} @@ c2 :> {<<"a", "#">>, <<"$S">>}
Few    == c1 :> {<<"#">>} @@ c2 :> {<<"a">>, <<"$S">>}
TopicA  == {<<"a">>}
TopicAB == {<<"a">>, <<"a", "b">>}

(* '#' and a filter that sub_topic_valid refuses. *)
Below == c1 :> {<<"#">>} @@ c2 :> {<<"#", "a">>}

(* One client, and filters and topics of every kind and up to 3 levels.    *)
Alone    == c1 :> t1
AloneId  == c1 :> {A}
ManyFilters == c1 :> {<<"#">>, <<"+">>, <<"a", "b">>, <<"+", "b", "#">>,
                      <<"a", "+", "c">>, <<"$S", "+">>}
ManyTopics  == {<<"a">>, <<"a", "b">>, <<"b">>, <<"a", "b", "c">>,
                <<"", "b">>, <<"$S", "a">>, <<"$S">>}
Dollars == {"$S"}
=============================================================================
