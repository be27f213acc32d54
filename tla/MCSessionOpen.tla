---------------------------- MODULE MCSessionOpen ----------------------------
(* Session::open on a small process, for TLC. *)
EXTENDS SessionOpen, TLC

(* The threads are interchangeable: no action names one. *)
ThreadSymmetry == Permutations(Threads)
=============================================================================
