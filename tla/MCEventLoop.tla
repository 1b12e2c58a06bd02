----------------------------- MODULE MCEventLoop -----------------------------
(* The event loops on small instances. *)
EXTENDS EventLoop, TLC

Sym == Permutations(Threads)
=============================================================================
