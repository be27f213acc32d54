---------------------------- MODULE FetchPromise -----------------------------
(***************************************************************************)
(* What the blocking fetches of one Session promise their caller, with no  *)
(* handler, slot, mark or clock in sight.  Calls happen one after the      *)
(* other.  Each ends in one verdict:                                       *)
(*                                                                         *)
(*   Ok, Parse, Hard   only if that very call was answered, and only if    *)
(*                     the replayer complained of nothing while it ran     *)
(*   Timeout           only if its time was up, under the same condition   *)
(*   Replayer          only if it did complain while the call ran          *)
(*   NoToken           the replayer refused the batch, and whether it      *)
(*                     complained was not asked                            *)
(*   Rejected          the batch never reached the replayer                *)
(***************************************************************************)
EXTENDS Naturals

CONSTANT MaxCalls   (* bound on the calls of one behaviour *)

VARIABLES
  call,      (* the latest call, 0 before the first             *)
  busy,      (* whether it is still running                     *)
  answered,  (* the calls the replayer has answered             *)
  noise,     (* it complained since the running call began      *)
  expired,   (* the running call's time is up                   *)
  verdict    (* [Calls -> what each call returned]              *)

vars == <<call, busy, answered, noise, expired, verdict>>

Calls    == 1..MaxCalls
Verdicts == {"none", "Ok", "Parse", "Hard", "Timeout", "Replayer", "NoToken",
             "Rejected"}

Init ==
  /\ call = 0
  /\ busy = FALSE
  /\ answered = {}
  /\ noise = FALSE
  /\ expired = FALSE
  /\ verdict = [k \in Calls |-> "none"]

Start ==
  /\ ~busy
  /\ call < MaxCalls
  /\ call' = call + 1
  /\ busy' = TRUE
  /\ noise' = FALSE
  /\ expired' = FALSE
  /\ UNCHANGED <<answered, verdict>>

Reject ==
  /\ ~busy
  /\ call < MaxCalls
  /\ call' = call + 1
  /\ verdict' = [verdict EXCEPT ![call + 1] = "Rejected"]
  /\ UNCHANGED <<busy, answered, noise, expired>>

(* An answer may come late, to a call that has long returned. *)
Answer(k) ==
  /\ k <= call
  /\ answered' = answered \cup {k}
  /\ UNCHANGED <<call, busy, noise, expired, verdict>>

Complain ==
  /\ busy
  /\ noise' = TRUE
  /\ UNCHANGED <<call, busy, answered, expired, verdict>>

Expire ==
  /\ busy
  /\ expired' = TRUE
  /\ UNCHANGED <<call, busy, answered, noise, verdict>>

Allowed(v) ==
  \/ v = "NoToken"
  \/ v = "Replayer" /\ noise
  \/ v \in {"Ok", "Parse", "Hard"} /\ ~noise /\ call \in answered
  \/ v = "Timeout" /\ ~noise /\ expired

Return(v) ==
  /\ busy
  /\ Allowed(v)
  /\ busy' = FALSE
  /\ noise' = FALSE
  /\ expired' = FALSE
  /\ verdict' = [verdict EXCEPT ![call] = v]
  /\ UNCHANGED <<call, answered>>

Next ==
  \/ Start
  \/ Reject
  \/ \E k \in Calls : Answer(k)
  \/ Complain
  \/ Expire
  \/ \E v \in Verdicts : Return(v)

Spec == Init /\ [][Next]_vars
=============================================================================
