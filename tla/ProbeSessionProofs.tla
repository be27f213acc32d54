-------------------------- MODULE ProbeSessionProofs --------------------------
(***************************************************************************)
(* The probes' Session keeps the two promises of the library's, for any    *)
(* number of attempts, fetches, errors and late or repeated completions,   *)
(* and whatever PROBE_TOLERATE_REPLAYER_ERRORS is set to.                  *)
(***************************************************************************)
EXTENDS ProbeSession, TLAPS

(* What a slot, a result and a verdict may be. *)
Replies  == {"Ok", "Hard"}
Results  == Replies \cup {"empty", "Timeout"}
Verdicts == {"none", "Ok", "Hard", "Timeout", "Replayer", "NoToken", "Rejected"}

TypeInv ==
  /\ env \in {"unset", "0", "1"}
  /\ pc \in {"idle", "dead"} \cup Bootstrap \cup Fetch
  /\ attempts \in Nat
  /\ bootstrapped \in BOOLEAN
  /\ loaded \in BOOLEAN
  /\ loadError \in BOOLEAN
  /\ session \in BOOLEAN
  /\ errors \in Seq(0..MaxCalls)
  /\ call \in 0..MaxCalls
  /\ by \in Methods
  /\ mark \in Nat
  /\ slot \in [Calls -> Replies \cup {"empty"}]
  /\ remaining \in 0..Timeout
  /\ result \in Results
  /\ verdict \in [Calls -> Verdicts]
  /\ sent \in SUBSET Calls
  /\ answered \in SUBSET Calls

(* Whoever is past the guard set it, a Session is held by none of the      *)
(* calls that are still setting one up, and open is past an error of load: *)
(* only where that is tolerated.                                           *)
GuardInv ==
  /\ ~bootstrapped => pc = "idle" /\ ~session
  /\ pc \in Bootstrap \cup {"dead"} => ~session
  /\ busy => session
  /\ pc = "verify" /\ loadError => env = "1"

(* A slot is filled by an answer to its own call, and what wait_for came   *)
(* back with is such an answer, or the timeout it was entitled to.         *)
FetchInv ==
  /\ busy => call \in Calls
  /\ mark <= ErrorCount(errors)
  /\ \A k \in sent : k <= call
  /\ \A k \in Calls : slot[k] # "empty" => k \in answered
  /\ pc = "final" <=> result # "empty"
  /\ result \in Replies => call \in answered
  /\ result = "Timeout" => remaining = 0

IInv == TypeInv /\ GuardInv /\ FetchInv

-----------------------------------------------------------------------------
(* The observer. *)

LEMMA ErrorFacts ==
  ASSUME TypeInv
  PROVE  /\ ErrorCount(errors) \in Nat
         /\ FirstErrorSince(errors, mark) # NoError <=> mark < ErrorCount(errors)
  BY DEF TypeInv, ErrorCount, FirstErrorSince, NoError

LEMMA ReportFacts ==
  ASSUME TypeInv, ReportError
  PROVE  /\ errors' \in Seq(0..MaxCalls)
         /\ ErrorCount(errors') = ErrorCount(errors) + 1
  BY DEF TypeInv, ReportError, Record, ErrorCount

(* The phases of the bootstrap and of a fetch are apart. *)
LEMMA PhasesApart ==
  /\ Bootstrap \cap Fetch = {}
  /\ {"idle", "dead"} \cap (Bootstrap \cup Fetch) = {}
  BY DEF Bootstrap, Fetch

-----------------------------------------------------------------------------
(* The bootstrap, step by step: what each of its actions leaves alone, and *)
(* where it can go.                                                        *)
LEMMA OpeningSteps ==
  ASSUME TypeInv, GuardInv,
         \/ Refuse \/ Claim
         \/ InitApr \/ InitPool \/ InitClient \/ InitObserver \/ InitService
         \/ LoadBundle \/ Verify \/ DropSession
  PROVE  /\ UNCHANGED <<env, errors, fetching>>
         /\ ~busy /\ ~busy'
         /\ attempts' \in Nat /\ session' \in BOOLEAN
         /\ loaded' \in BOOLEAN /\ loadError' \in BOOLEAN
         /\ pc' = "verify" /\ loadError' => env = "1"
         /\ \/ /\ pc = "idle" /\ pc' = "idle" /\ ~session'
               /\ bootstrapped' = bootstrapped
            \/ UNCHANGED <<pc, bootstrapped, session>>
            \/ /\ pc = "idle" /\ pc' = "apr"
               /\ ~bootstrapped /\ bootstrapped' = TRUE
               /\ session' = session
            \/ /\ pc \in Bootstrap /\ pc' \in Bootstrap \cup {"idle", "dead"}
               /\ bootstrapped' = bootstrapped
               /\ session' => pc' = "idle"
<1> USE DEF opening, fetching, Bootstrap, Fetch, busy
<1>1. CASE Refuse
  BY <1>1 DEF Refuse, TypeInv
<1>2. CASE Claim
  <2>1. CASE bootstrapped
    BY <1>2, <2>1 DEF Claim, TypeInv
  <2>2. CASE ~bootstrapped
    BY <1>2, <2>2 DEF Claim, TypeInv
  <2>3. QED
    BY <2>1, <2>2
<1>3. CASE InitApr \/ InitPool \/ InitClient \/ InitObserver \/ InitService
  BY <1>3 DEF InitApr, InitPool, InitClient, InitObserver, InitService, MayFail,
       Goto, TypeInv, GuardInv
<1>4. CASE LoadBundle
  BY <1>4 DEF LoadBundle, LoadTolerates, TypeInv, GuardInv
<1>5. CASE Verify
  BY <1>5 DEF Verify, TypeInv
<1>6. CASE DropSession
  BY <1>6 DEF DropSession, TypeInv
<1>7. QED
  BY <1>1, <1>2, <1>3, <1>4, <1>5, <1>6

-----------------------------------------------------------------------------
(* The invariant. *)

LEMMA InitInv == Init => IInv
<1> SUFFICES ASSUME Init PROVE IInv
  OBVIOUS
<1>1. TypeInv
  <2>1. /\ slot \in [Calls -> Replies \cup {"empty"}]
        /\ verdict \in [Calls -> Verdicts]
    BY DEF Init, Verdicts
  <2>2. errors \in Seq(0..MaxCalls) /\ result \in Results
    BY DEF Init, Results
  <2>3. call \in 0..MaxCalls /\ remaining \in 0..Timeout
    BY ProbeAssumption DEF Init
  <2>4. QED
    BY <2>1, <2>2, <2>3 DEF Init, TypeInv, Methods
<1>2. GuardInv
  BY DEF Init, GuardInv, busy, Bootstrap, Fetch
<1>3. FetchInv
  BY DEF Init, FetchInv, busy, Fetch, ErrorCount, Calls, Replies
<1>4. QED
  BY <1>1, <1>2, <1>3 DEF IInv

(* The three methods begin each in its own code, and alike.                *)
LEMMA Begins ==
  ASSUME BeginTextures \/ BeginRaw \/ BeginWireframe
  PROVE  Reject \/ \E method \in Methods : Mark(method)
  BY DEF BeginTextures, BeginRaw, BeginWireframe, Methods

(* The three methods read the variable each for itself, and alike.         *)
LEMMA Finishes ==
  ASSUME FinishTextures \/ FinishRaw \/ FinishWireframe
  PROVE  FinalCheck(by, env = "1")
  BY DEF FinishTextures, FinishRaw, FinishWireframe, FinalCheck,
     TexturesTolerates, RawTolerates, WireframeTolerates

(* A call that returns leaves a verdict and nothing behind. *)
LEMMA ReturnFacts ==
  ASSUME TypeInv, call \in Calls, NEW v \in Verdicts, Return(v)
  PROVE  /\ pc' = "idle" /\ ~busy'
         /\ verdict' \in [Calls -> Verdicts]
         /\ verdict' = [verdict EXCEPT ![call] = v]
         /\ remaining' \in 0..Timeout
         /\ result' = "empty"
  BY ProbeAssumption DEF Return, TypeInv, busy, Fetch

LEMMA NextInv ==
  ASSUME IInv, [Next]_vars
  PROVE  IInv'
<1> USE DEF fetching, opening
<1>0. TypeInv /\ GuardInv /\ FetchInv
  BY DEF IInv
<1>a. ErrorCount(errors) \in Nat
  BY <1>0, ErrorFacts
<1>b. pc \in Fetch => session /\ bootstrapped = TRUE /\ call \in Calls
  BY <1>0, PhasesApart DEF GuardInv, FetchInv, busy, TypeInv, Fetch
<1>1. CASE \/ Refuse \/ Claim
           \/ InitApr \/ InitPool \/ InitClient \/ InitObserver \/ InitService
           \/ LoadBundle \/ Verify \/ DropSession
  <2>1. TypeInv'
    BY <1>0, <1>1, OpeningSteps DEF TypeInv, Bootstrap
  <2>2. GuardInv'
    BY <1>0, <1>1, OpeningSteps DEF TypeInv, GuardInv, Bootstrap, Fetch, busy
  <2>3. FetchInv'
    BY <1>0, <1>1, OpeningSteps DEF FetchInv, busy, Fetch, Bootstrap
  <2>4. QED
    BY <2>1, <2>2, <2>3 DEF IInv
<1>2. CASE Reject
  <2>1. call + 1 \in Calls /\ call' \in 0..MaxCalls
    BY <1>0, <1>2, ProbeAssumption DEF Reject, TypeInv, Calls
  <2>2. verdict' \in [Calls -> Verdicts]
    BY <1>0, <1>2, <2>1 DEF Reject, TypeInv, Verdicts
  <2>3. TypeInv'
    BY <1>0, <1>2, <2>1, <2>2 DEF Reject, TypeInv
  <2>4. GuardInv'
    BY <1>0, <1>2 DEF Reject, GuardInv, busy
  <2>5. result = "empty"
    BY <1>0, <1>2 DEF Reject, FetchInv
  <2>6. FetchInv'
    BY <1>0, <1>2, <2>1, <2>5 DEF Reject, FetchInv, busy, TypeInv, Calls, Fetch,
       Replies
  <2>7. QED
    BY <2>3, <2>4, <2>6 DEF IInv
<1>3. CASE \E method \in Methods : Mark(method)
  <2>0. PICK method \in Methods : Mark(method)
    BY <1>3
  <2>1. call + 1 \in Calls /\ call' \in 0..MaxCalls
    BY <1>0, <2>0, ProbeAssumption DEF Mark, TypeInv, Calls
  <2>2. TypeInv'
    BY <1>0, <1>a, <2>0, <2>1 DEF Mark, TypeInv, Fetch
  <2>3. GuardInv'
    BY <1>0, <2>0 DEF Mark, GuardInv, busy, Bootstrap, TypeInv
  <2>4. result = "empty"
    BY <1>0, <2>0 DEF Mark, FetchInv
  <2>5. FetchInv'
    BY <1>0, <1>a, <2>0, <2>1, <2>4 DEF Mark, FetchInv, busy, TypeInv, Calls,
       Replies
  <2>6. QED
    BY <2>2, <2>3, <2>5 DEF IInv
<1>4. CASE Dispatch
  <2>1. pc \in Fetch /\ pc' \in Fetch
    BY <1>4 DEF Dispatch, Fetch
  <2>2. TypeInv'
    BY <1>0, <1>b, <1>4, <2>1 DEF Dispatch, TypeInv
  <2>3. GuardInv'
    BY <1>0, <1>b, <1>4, <2>1, PhasesApart DEF Dispatch, GuardInv
  <2>4. FetchInv'
    BY <1>0, <1>b, <1>4, <2>1 DEF Dispatch, FetchInv, TypeInv, Calls
  <2>5. QED
    BY <2>2, <2>3, <2>4 DEF IInv
<1>5. CASE TakeToken
  <2>1. pc \in Fetch
    BY <1>5 DEF TakeToken, Fetch
  <2>2. CASE Return("NoToken")
    <3>1. "NoToken" \in Verdicts
      BY DEF Verdicts
    <3>2. /\ pc' = "idle" /\ ~busy' /\ verdict' \in [Calls -> Verdicts]
          /\ remaining' \in 0..Timeout /\ result' = "empty"
      BY <1>0, <1>b, <2>1, <2>2, <3>1, ReturnFacts
    <3>3. TypeInv'
      BY <1>0, <1>5, <3>2 DEF TakeToken, TypeInv, Results
    <3>4. GuardInv'
      BY <1>0, <1>b, <1>5, <2>1, <3>2 DEF TakeToken, GuardInv, Bootstrap
    <3>5. FetchInv'
      BY <1>0, <1>5, <3>2 DEF TakeToken, FetchInv, Replies
    <3>6. QED
      BY <3>3, <3>4, <3>5 DEF IInv
  <2>3. CASE pc' = "check" /\ remaining' = Timeout /\ UNCHANGED <<result, verdict>>
    <3>1. TypeInv'
      BY <1>0, <1>5, <2>3, ProbeAssumption DEF TakeToken, TypeInv, Fetch
    <3>2. GuardInv'
      BY <1>0, <1>b, <1>5, <2>1, <2>3 DEF TakeToken, GuardInv, busy, Bootstrap
    <3>3. result = "empty"
      BY <1>0, <1>5 DEF TakeToken, FetchInv
    <3>4. FetchInv'
      BY <1>0, <1>b, <1>5, <2>1, <2>3, <3>3 DEF TakeToken, FetchInv, Replies, busy
    <3>5. QED
      BY <3>1, <3>2, <3>4 DEF IInv
  <2>4. QED
    BY <1>5, <2>2, <2>3 DEF TakeToken
<1>6. CASE CheckSlot
  <2>1. pc \in Fetch /\ pc' \in Fetch
    BY <1>6 DEF CheckSlot, Fetch
  <2>2. slot[call] \in Replies \cup {"empty"} /\ result = "empty"
    BY <1>0, <1>b, <1>6, <2>1 DEF CheckSlot, TypeInv, FetchInv
  <2>3. slot' \in [Calls -> Replies \cup {"empty"}]
    BY <1>0, <1>6 DEF CheckSlot, TypeInv
  <2>4. TypeInv'
    BY <1>0, <1>6, <2>1, <2>2, <2>3 DEF CheckSlot, TypeInv, Results
  <2>5. GuardInv'
    BY <1>0, <1>b, <1>6, <2>1, PhasesApart DEF CheckSlot, GuardInv
  <2>6. \A k \in Calls : slot'[k] # "empty" => k \in answered
    BY <1>0, <1>6 DEF CheckSlot, FetchInv, TypeInv
  <2>7. CASE slot[call] # "empty"
    <3>1. result' \in Replies /\ call \in answered /\ pc' = "final"
      BY <1>0, <1>b, <1>6, <2>1, <2>2, <2>7 DEF CheckSlot, FetchInv
    <3>2. FetchInv'
      BY <1>0, <1>b, <1>6, <2>1, <2>6, <3>1 DEF CheckSlot, FetchInv, Replies
    <3>3. QED
      BY <2>4, <2>5, <3>2 DEF IInv
  <2>8. CASE slot[call] = "empty"
    <3>1. pc' = "empty" /\ result' = "empty"
      BY <1>6, <2>2, <2>8 DEF CheckSlot
    <3>2. FetchInv'
      BY <1>0, <1>b, <1>6, <2>1, <2>6, <3>1 DEF CheckSlot, FetchInv, Replies
    <3>3. QED
      BY <2>4, <2>5, <3>2 DEF IInv
  <2>9. QED
    BY <2>7, <2>8
<1>7. CASE CheckDeadline
  <2>1. pc \in Fetch /\ pc' \in Fetch
    BY <1>7 DEF CheckDeadline, Fetch
  <2>2. TypeInv'
    BY <1>0, <1>7, <2>1 DEF CheckDeadline, TypeInv, Results
  <2>3. GuardInv'
    BY <1>0, <1>b, <1>7, <2>1, PhasesApart DEF CheckDeadline, GuardInv
  <2>4. result = "empty"
    BY <1>0, <1>7 DEF CheckDeadline, FetchInv
  <2>5. FetchInv'
    BY <1>0, <1>b, <1>7, <2>1, <2>4 DEF CheckDeadline, FetchInv, Replies
  <2>6. QED
    BY <2>2, <2>3, <2>5 DEF IInv
<1>8. CASE FinishTextures \/ FinishRaw \/ FinishWireframe
  <2>0. FinalCheck(by, env = "1")
    BY <1>8, Finishes
  <2>1. pc \in Fetch
    BY <2>0 DEF FinalCheck, Fetch
  <2>2. PICK v \in Verdicts : Return(v)
    <3>1. result \in Verdicts /\ "Replayer" \in Verdicts
      BY <1>0, <2>0 DEF FinalCheck, FetchInv, TypeInv, Results, Replies, Verdicts
    <3>2. QED
      BY <2>0, <3>1 DEF FinalCheck
  <2>3. /\ pc' = "idle" /\ ~busy' /\ verdict' \in [Calls -> Verdicts]
        /\ remaining' \in 0..Timeout /\ result' = "empty"
    BY <1>0, <1>b, <2>1, <2>2, ReturnFacts
  <2>4. TypeInv'
    BY <1>0, <2>0, <2>3 DEF FinalCheck, TypeInv, Results
  <2>5. GuardInv'
    BY <1>0, <1>b, <2>0, <2>1, <2>3 DEF FinalCheck, GuardInv, Bootstrap
  <2>6. FetchInv'
    BY <1>0, <2>0, <2>3 DEF FinalCheck, FetchInv, Replies
  <2>7. QED
    BY <2>4, <2>5, <2>6 DEF IInv
<1>9. CASE \E k \in Calls : Fire(k)
  <2>1. PICK k \in Calls : Fire(k)
    BY <1>9
  <2>2. slot' \in [Calls -> Replies \cup {"empty"}] /\ answered' = answered \cup {k}
    BY <1>0, <2>1 DEF Fire, TypeInv, Replies
  <2>3. \A j \in Calls : slot'[j] # "empty" => j \in answered'
    BY <1>0, <2>1, <2>2 DEF Fire, TypeInv, FetchInv
  <2>4. TypeInv'
    BY <1>0, <2>1, <2>2 DEF Fire, TypeInv
  <2>5. GuardInv'
    BY <1>0, <2>1 DEF Fire, GuardInv, busy
  <2>6. FetchInv'
    BY <1>0, <2>1, <2>2, <2>3 DEF Fire, FetchInv, busy
  <2>7. QED
    BY <2>4, <2>5, <2>6 DEF IInv
<1>10. CASE ReportError
  <2>1. errors' \in Seq(0..MaxCalls) /\ ErrorCount(errors)' = ErrorCount(errors) + 1
    BY <1>0, <1>10, ReportFacts
  <2>2. TypeInv'
    BY <1>0, <1>10, <2>1 DEF ReportError, TypeInv
  <2>3. GuardInv'
    BY <1>0, <1>10 DEF ReportError, GuardInv, busy
  <2>4. mark \in Nat /\ mark <= ErrorCount(errors)
    BY <1>0 DEF TypeInv, FetchInv
  <2>5. mark <= ErrorCount(errors)'
    BY <1>a, <2>1, <2>4
  <2>6. FetchInv'
    BY <1>0, <1>10, <2>5 DEF ReportError, FetchInv, busy
  <2>7. QED
    BY <2>2, <2>3, <2>6 DEF IInv
<1>11. CASE Tick
  <2>1. TypeInv'
    BY <1>0, <1>11, ProbeAssumption DEF Tick, TypeInv
  <2>2. GuardInv'
    BY <1>0, <1>11 DEF Tick, GuardInv, busy
  <2>3. result = "empty"
    BY <1>0, <1>11 DEF Tick, FetchInv
  <2>4. FetchInv'
    BY <1>0, <1>11, <2>3 DEF Tick, FetchInv, busy, Replies
  <2>5. QED
    BY <2>1, <2>2, <2>4 DEF IInv
<1>12. CASE UNCHANGED vars
  BY <1>0, <1>12 DEF vars, IInv, TypeInv, GuardInv, FetchInv, busy
<1>13. QED
  BY <1>1, <1>2, <1>3, <1>4, <1>5, <1>6, <1>7, <1>8, <1>9, <1>10, <1>11, <1>12, Begins
     DEF Next

LEMMA Invariance == Spec => []IInv
  BY InitInv, NextInv, PTL DEF Spec

-----------------------------------------------------------------------------
(* One bootstrap per process. *)

LEMMA PhaseValues ==
  ASSUME TypeInv, GuardInv
  PROVE  /\ phase = "fresh" <=> ~bootstrapped
         /\ phase = "bootstrapping" <=> pc \in Bootstrap
         /\ phase = "dead" <=> pc = "dead"
         /\ phase = "open" <=> session
         /\ phase = "spent" <=>
              bootstrapped /\ ~session /\ pc \notin Bootstrap \cup {"dead"}
  BY DEF TypeInv, GuardInv, phase, Bootstrap, Fetch

LEMMA GuardStep ==
  ASSUME IInv, IInv', [Next]_vars
  PROVE  [Guard!Next]_phase
<1>0. TypeInv /\ GuardInv /\ TypeInv' /\ GuardInv'
  BY DEF IInv
<1>1. CASE \/ Refuse \/ Claim
           \/ InitApr \/ InitPool \/ InitClient \/ InitObserver \/ InitService
           \/ LoadBundle \/ Verify \/ DropSession
  <2>1. CASE pc = "idle" /\ pc' = "idle" /\ ~session' /\ bootstrapped' = bootstrapped
    <3>1. CASE session
      <4>1. phase = "open" /\ phase' = "spent"
        BY <1>0, <2>1, <3>1 DEF phase, Bootstrap, GuardInv
      <4>2. QED
        BY <4>1 DEF Guard!Next, Guard!Close
    <3>2. CASE ~session
      <4>1. UNCHANGED <<pc, bootstrapped, session>>
        BY <1>0, <2>1, <3>2 DEF TypeInv
      <4>2. QED
        BY <4>1 DEF phase
    <3>3. QED
      BY <3>1, <3>2
  <2>2. CASE UNCHANGED <<pc, bootstrapped, session>>
    BY <2>2 DEF phase
  <2>3. CASE /\ pc = "idle" /\ pc' = "apr"
             /\ ~bootstrapped /\ bootstrapped' = TRUE
    <3>1. phase = "fresh"
      BY <1>0, <2>3, PhaseValues
    <3>2. phase' = "bootstrapping"
      BY <1>0, <2>3 DEF phase, Bootstrap, GuardInv
    <3>3. QED
      BY <3>1, <3>2 DEF Guard!Next, Guard!Claim
  <2>4. CASE /\ pc \in Bootstrap /\ pc' \in Bootstrap \cup {"idle", "dead"}
             /\ bootstrapped' = bootstrapped
             /\ session' => pc' = "idle"
    <3>1. phase = "bootstrapping"
      BY <1>0, <2>4, PhaseValues
    <3>2. phase' \in {"bootstrapping", "dead", "open", "spent"}
      BY <1>0, <2>4 DEF phase, GuardInv, Bootstrap, TypeInv
    <3>3. QED
      BY <3>1, <3>2 DEF Guard!Next, Guard!Succeed, Guard!Fail, Guard!Crash
  <2>5. QED
    BY <1>0, <1>1, <2>1, <2>2, <2>3, <2>4, OpeningSteps
<1>2. CASE \/ UNCHANGED <<opening, pc>>
           \/ /\ UNCHANGED opening
              /\ pc \in Fetch \cup {"idle"} /\ pc' \in Fetch \cup {"idle"}
  BY <1>2 DEF phase, opening, Bootstrap, Fetch
<1>3. CASE \/ Reject
           \/ \E k \in Calls : Fire(k)
           \/ ReportError
           \/ Tick
           \/ UNCHANGED vars
  BY <1>2, <1>3 DEF Reject, Fire, ReportError, Tick, vars
<1>4. CASE \/ \E method \in Methods : Mark(method)
           \/ Dispatch \/ TakeToken \/ CheckSlot \/ CheckDeadline
           \/ FinishTextures \/ FinishRaw \/ FinishWireframe
  BY <1>2, <1>4, Finishes DEF Mark, Dispatch, TakeToken, CheckSlot,
     CheckDeadline, FinalCheck, Return, Fetch
<1>5. QED
  BY <1>1, <1>3, <1>4, Begins DEF Next

(* A Session is handed out only by a step past a load that answered YES,   *)
(* and past a complaint of load: or of the observer only where the         *)
(* variable is 1: for any number of attempts and errors.                   *)
THEOREM ProbeOpensClean == Spec => OpensClean
<1>1. IInv /\ [Next]_vars =>
        (session' /\ ~session =>
           /\ loaded
           /\ env = "1" \/ (~loadError /\ FirstError(errors) = NoError))
  <2> SUFFICES ASSUME IInv, [Next]_vars, session', ~session
               PROVE  /\ loaded
                      /\ env = "1" \/ (~loadError /\ FirstError(errors) = NoError)
    OBVIOUS
  <2>0. TypeInv /\ GuardInv
    BY DEF IInv
  <2>1. CASE Verify
    BY <2>0, <2>1 DEF Verify, OpenTolerates, GuardInv, TypeInv
  <2>2. CASE ~Verify
    <3>1. UNCHANGED session \/ ~session'
      BY <2>2, Begins, Finishes
         DEF Next, vars, opening, fetching, Refuse, Claim, InitApr, InitPool,
             InitClient, InitObserver, InitService, MayFail, Goto, LoadBundle,
             DropSession, Reject, Mark, Dispatch, TakeToken, CheckSlot,
             CheckDeadline, FinalCheck, Fire, ReportError, Tick
    <3>2. QED
      BY <3>1
  <2>3. QED
    BY <2>1, <2>2
<1>2. QED
  BY <1>1, Invariance, PTL DEF Spec, OpensClean

-----------------------------------------------------------------------------
(* Each fetch returns what it may. *)

(* An allowed verdict ends the promised call. *)
LEMMA PromisedReturn ==
  ASSUME pc \in Fetch, NEW v \in Verdicts, Return(v), Promise!Allowed(v),
         UNCHANGED <<call, answered>>
  PROVE  Promise!Next
<1>1. busy = TRUE /\ busy' = FALSE /\ noise' = FALSE /\ expired' = FALSE
  BY DEF Return, busy, noise, expired, Fetch
<1>2. Promise!Return(v)
  BY <1>1 DEF Return, Promise!Return
<1>3. v \in Promise!Verdicts
  BY DEF Verdicts, Promise!Verdicts
<1>4. QED
  BY <1>2, <1>3 DEF Promise!Next

(* While a call runs, its time may be up. *)
LEMMA PromisedWait ==
  ASSUME pc \in Fetch, pc' \in Fetch,
         UNCHANGED <<env, errors, mark, call, answered, verdict>>,
         expired => expired'
  PROVE  [Promise!Next]_(Promise!vars)
<1>1. busy = TRUE /\ busy' = TRUE
  BY DEF busy
<1>2. noise' = noise
  BY <1>1 DEF noise
<1>3. CASE ~expired /\ expired'
  <2>1. expired' = TRUE
    BY <1>3 DEF expired
  <2>2. Promise!Expire
    BY <1>1, <1>2, <2>1 DEF Promise!Expire
  <2>3. QED
    BY <2>2 DEF Promise!Next
<1>4. CASE ~(~expired /\ expired')
  <2>1. expired' = expired
    BY <1>4 DEF expired
  <2>2. QED
    BY <1>1, <1>2, <2>1 DEF Promise!vars
<1>5. QED
  BY <1>3, <1>4

LEMMA PromiseStep ==
  ASSUME IInv, IInv', [Next]_vars
  PROVE  [Promise!Next]_(Promise!vars)
<1> USE DEF opening, fetching
<1>0. TypeInv /\ FetchInv /\ GuardInv
  BY DEF IInv
<1>a. ErrorCount(errors) \in Nat /\ mark \in Nat /\ mark <= ErrorCount(errors)
  BY <1>0, ErrorFacts DEF TypeInv, FetchInv
<1>b. pc \in Fetch => call \in Calls
  BY <1>0 DEF FetchInv, busy
<1>c. Promise!Calls = Calls
  BY DEF Promise!Calls, Calls
<1>1. CASE \/ Refuse \/ Claim
           \/ InitApr \/ InitPool \/ InitClient \/ InitObserver \/ InitService
           \/ LoadBundle \/ Verify \/ DropSession
  <2>1. UNCHANGED <<env, errors, fetching>> /\ ~busy /\ ~busy'
    BY <1>0, <1>1, OpeningSteps
  <2>2. ~noise /\ ~noise' /\ ~expired /\ ~expired'
    BY <2>1 DEF noise, expired, busy, Fetch
  <2>3. busy = FALSE /\ busy' = FALSE /\ noise = FALSE /\ noise' = FALSE
        /\ expired = FALSE /\ expired' = FALSE
    BY <2>1, <2>2 DEF noise, expired, busy
  <2>4. QED
    BY <2>1, <2>3 DEF Promise!vars
<1>2. CASE Reject
  <2>1. busy = FALSE /\ busy' = FALSE /\ noise = FALSE /\ noise' = FALSE
        /\ expired = FALSE /\ expired' = FALSE
    BY <1>2 DEF Reject, noise, expired, busy, Fetch
  <2>2. QED
    BY <1>2, <2>1 DEF Reject, Promise!Next, Promise!Reject
<1>3. CASE \E method \in Methods : Mark(method)
  <2>0. PICK method \in Methods : Mark(method)
    BY <1>3
  <2>1. busy = FALSE /\ busy' = TRUE /\ expired' = FALSE
    BY <2>0 DEF Mark, expired, busy, Fetch
  <2>2. noise' = FALSE
    BY <1>a, <2>0 DEF Mark, noise
  <2>3. QED
    BY <2>0, <2>1, <2>2 DEF Mark, Promise!Next, Promise!Start
<1>4. CASE Dispatch
  <2>1. UNCHANGED <<busy, noise, expired>>
    BY <1>4 DEF Dispatch, noise, expired, busy, Fetch
  <2>2. QED
    BY <1>4, <2>1 DEF Dispatch, Promise!vars
<1>5. CASE TakeToken
  <2>1. pc \in Fetch /\ UNCHANGED <<call, answered>>
    BY <1>5 DEF TakeToken, Fetch
  <2>2. CASE Return("NoToken")
    BY <2>1, <2>2, PromisedReturn DEF Promise!Allowed, Verdicts
  <2>3. CASE pc' = "check" /\ UNCHANGED verdict
    <3>1. pc' \in Fetch /\ ~expired
      BY <1>5, <2>3 DEF TakeToken, Fetch, expired
    <3>2. QED
      BY <1>5, <2>1, <2>3, <3>1, PromisedWait DEF TakeToken
  <2>4. QED
    BY <1>5, <2>2, <2>3 DEF TakeToken
<1>6. CASE CheckSlot \/ CheckDeadline
  <2>1. pc \in Fetch /\ pc' \in Fetch
    BY <1>6 DEF CheckSlot, CheckDeadline, Fetch
  <2>2. expired => expired'
    BY <1>6 DEF CheckSlot, CheckDeadline, expired
  <2>3. QED
    BY <1>6, <2>1, <2>2, PromisedWait DEF CheckSlot, CheckDeadline
<1>7. CASE FinishTextures \/ FinishRaw \/ FinishWireframe
  <2>0. FinalCheck(by, env = "1")
    BY <1>7, Finishes
  <2>1. pc = "final" /\ pc \in Fetch /\ UNCHANGED <<call, answered>>
    BY <2>0 DEF FinalCheck, Fetch
  <2>2. noise <=> FirstErrorSince(errors, mark) # NoError /\ env # "1"
    BY <1>0, <2>1, ErrorFacts DEF noise, busy
  <2>3. CASE FirstErrorSince(errors, mark) # NoError /\ env # "1"
    <3>1. Return("Replayer") /\ noise
      BY <2>0, <2>2, <2>3 DEF FinalCheck
    <3>2. QED
      BY <2>1, <3>1, PromisedReturn DEF Promise!Allowed, Verdicts
  <2>4. CASE ~(FirstErrorSince(errors, mark) # NoError /\ env # "1")
    <3>1. Return(result) /\ ~noise
      BY <2>0, <2>2, <2>4 DEF FinalCheck
    <3>2. result \in Replies \cup {"Timeout"}
      BY <1>0, <2>1 DEF FetchInv, TypeInv, Results
    <3>3. Promise!Allowed(result)
      BY <1>0, <2>1, <3>1, <3>2 DEF Promise!Allowed, FetchInv, Replies, expired
    <3>4. QED
      BY <2>1, <3>1, <3>2, <3>3, PromisedReturn DEF Verdicts, Replies
  <2>5. QED
    BY <2>3, <2>4
<1>8. CASE \E k \in Calls : Fire(k)
  <2>1. PICK k \in Calls : Fire(k)
    BY <1>8
  <2>2. UNCHANGED <<busy, noise, expired>>
    BY <2>1 DEF Fire, busy, noise, expired
  <2>3. Promise!Answer(k)
    BY <1>0, <2>1, <2>2 DEF Fire, FetchInv, Promise!Answer
  <2>4. QED
    BY <1>c, <2>3 DEF Promise!Next
<1>9. CASE ReportError
  <2>1. UNCHANGED <<busy, expired>>
    BY <1>9 DEF ReportError, busy, expired
  <2>2. CASE busy /\ env # "1"
    <3>1. ErrorCount(errors)' = ErrorCount(errors) + 1
      BY <1>0, <1>9, ReportFacts
    <3>2. mark < ErrorCount(errors)'
      BY <1>a, <3>1
    <3>3. noise' = TRUE /\ busy = TRUE
      BY <1>9, <2>1, <2>2, <3>2 DEF ReportError, noise, busy
    <3>4. QED
      BY <1>9, <2>1, <3>3 DEF ReportError, Promise!Next, Promise!Complain
  <2>3. CASE ~(busy /\ env # "1")
    <3>1. noise' = noise
      BY <1>9, <2>1, <2>3 DEF ReportError, noise
    <3>2. QED
      BY <1>9, <2>1, <3>1 DEF ReportError, Promise!vars
  <2>4. QED
    BY <2>2, <2>3
<1>10. CASE Tick
  <2>1. pc \in Fetch /\ pc' \in Fetch /\ ~expired
    BY <1>10 DEF Tick, Fetch, expired
  <2>2. QED
    BY <1>10, <2>1, PromisedWait DEF Tick
<1>11. CASE UNCHANGED vars
  BY <1>11 DEF vars, Promise!vars, busy, noise, expired
<1>12. QED
  BY <1>1, <1>2, <1>3, <1>4, <1>5, <1>6, <1>7, <1>8, <1>9, <1>10, <1>11, Begins
     DEF Next

-----------------------------------------------------------------------------
(* The probe's Session implements ProcessGuard and, with the noise the     *)
(* variable lets it hear, FetchPromise: for any number of attempts, of     *)
(* fetches, of errors and any timeout.                                     *)
THEOREM ProbeKeepsPromises == Spec => ImplementsPromises
<1>1. Init => Guard!Init /\ Promise!Init
  <2> SUFFICES ASSUME Init PROVE Guard!Init /\ Promise!Init
    OBVIOUS
  <2>1. busy = FALSE /\ noise = FALSE /\ expired = FALSE
    BY DEF Init, busy, noise, expired, Fetch
  <2>2. Promise!Calls = Calls
    BY DEF Promise!Calls, Calls
  <2>3. Promise!Init
    BY <2>1, <2>2 DEF Init, Promise!Init
  <2>4. phase = "fresh"
    BY DEF Init, phase, Bootstrap
  <2>5. QED
    BY <2>3, <2>4 DEF Guard!Init
<1>2. IInv /\ IInv' /\ [Next]_vars => [Guard!Next]_phase
  BY GuardStep
<1>3. IInv /\ IInv' /\ [Next]_vars => [Promise!Next]_(Promise!vars)
  BY PromiseStep
<1>4. QED
  BY <1>1, <1>2, <1>3, Invariance, PTL
     DEF Spec, ImplementsPromises, Guard!Spec, Promise!Spec
==============================================================================
