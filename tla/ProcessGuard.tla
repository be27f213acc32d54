---------------------------- MODULE ProcessGuard -----------------------------
(***************************************************************************)
(* What a process promises about the replay framework, whatever threads    *)
(* call Session::open and in whatever order: the framework is bootstrapped *)
(* at most once in the life of the process, that bootstrap ends in a       *)
(* session, in a failure or in a crash, and nothing ever makes the process *)
(* fresh again.                                                            *)
(***************************************************************************)

VARIABLE phase

Phases == {"fresh", "bootstrapping", "open", "spent", "dead"}

Init == phase = "fresh"

Claim   == phase = "fresh"         /\ phase' = "bootstrapping"
Succeed == phase = "bootstrapping" /\ phase' = "open"
Fail    == phase = "bootstrapping" /\ phase' = "spent"
Crash   == phase = "bootstrapping" /\ phase' = "dead"
Close   == phase = "open"          /\ phase' = "spent"

Next == Claim \/ Succeed \/ Fail \/ Crash \/ Close

Spec == Init /\ [][Next]_phase
=============================================================================
