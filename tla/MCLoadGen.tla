------------------------------ MODULE MCLoadGen ------------------------------
(* The load generators on small instances. *)
EXTENDS LoadGen

(* No connections asked for; one core; one connection on each of two cores;*)
(* an uneven share.                                                        *)
SmallLoads ==
    {<<"eppub", 0, 1>>, <<"epsub", 0, 1>>, <<"eppub", 1, 2>>, <<"epsub", 1, 2>>,
     <<"eppub", 2, 1>>, <<"epsub", 2, 2>>, <<"epsub", 3, 1>>}
=============================================================================
