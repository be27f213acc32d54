------------------------- MODULE FetchProtocolProofs -------------------------
(***************************************************************************)
(* The safety of the blocking fetches for any number of calls, of          *)
(* invocations of each completion block, of errors and any timeout.        *)
(***************************************************************************)
EXTENDS FetchProtocol, TLAPS

-----------------------------------------------------------------------------
(* The observer's list. *)

(* Recording an error adds one position and keeps the others. *)
LEMMA RecordFacts ==
  ASSUME NEW S, NEW es \in Seq(S), NEW e \in S
  PROVE  /\ Record(es, e) \in Seq(S)
         /\ ErrorCount(Record(es, e)) = ErrorCount(es) + 1
         /\ \A j \in 1..ErrorCount(es) : Record(es, e)[j] = es[j]
         /\ Record(es, e)[ErrorCount(es) + 1] = e
         /\ ErrorCount(es) \in Nat
  BY DEF Record, ErrorCount

(* An error found since a mark lies past the mark and in the list; none is *)
(* found exactly when the list has not grown past the mark.                *)
LEMMA SinceFacts ==
  ASSUME NEW S, NEW es \in Seq(S), NEW mark \in Nat
  PROVE  /\ FirstErrorSince(es, mark) \in Nat
         /\ FirstErrorSince(es, mark) # NoError =>
              /\ mark < FirstErrorSince(es, mark)
              /\ FirstErrorSince(es, mark) <= ErrorCount(es)
         /\ FirstErrorSince(es, mark) = NoError <=> ErrorCount(es) <= mark
  BY DEF FirstErrorSince, ErrorCount, NoError

-----------------------------------------------------------------------------
(* Type correctness. *)

LEMMA ConstantTypes ==
  /\ Calls \subseteq 0..MaxCalls
  /\ NoAnswer \in Answers /\ Timedout \in Answers
  /\ Unfired \in Invocations /\ Finished \in Invocations
  /\ NoVerdict \in Outcomes
  BY FetchAssumption DEF Calls, NoAnswer, Timedout, Answers, Unfired, Finished,
       Invocations, NoVerdict, Outcomes, Verdicts

LEMMA TypeInit == Init => TypeOK
<1> SUFFICES ASSUME Init PROVE TypeOK
  OBVIOUS
<1>1. errors \in Seq(0..MaxCalls)
  BY DEF Init
<1>2. pc \in Phases /\ call \in 0..MaxCalls /\ remaining \in 0..Timeout
  BY FetchAssumption DEF Init, Phases
<1>3. /\ outer \in [Calls -> Nat] /\ inner \in [Calls -> Nat]
      /\ fills \in [Calls -> Nat] /\ seen \in [Calls -> Nat]
      /\ handler \in [Calls -> BOOLEAN]
      /\ sent \in SUBSET Calls
  BY DEF Init
<1>4. /\ result \in Answers /\ slot \in [Calls -> Answers]
      /\ outcome \in [Calls -> Outcomes]
      /\ fire \in [Calls -> [Fires -> Invocations]]
  BY ConstantTypes DEF Init
<1>5. QED
  BY <1>1, <1>2, <1>3, <1>4 DEF TypeOK

(* What a call returns is an outcome. *)
LEMMA ReturnType ==
  ASSUME TypeOK, NEW k \in Calls, NEW kind \in Verdicts, NEW of \in 0..MaxCalls,
         NEW at \in Nat, Return(k, kind, of, at)
  PROVE  /\ pc' \in Phases /\ outcome' \in [Calls -> Outcomes]
         /\ result' \in Answers /\ remaining' \in 0..Timeout
         /\ seen' \in [Calls -> Nat]
<1>1. [kind |-> kind, of |-> of, at |-> at] \in Outcomes
  BY DEF Outcomes
<1>2. ErrorCount(errors) \in Nat
  BY DEF TypeOK, ErrorCount
<1>4. outcome' \in [Calls -> Outcomes]
  BY <1>1 DEF Return, TypeOK
<1>5. pc' \in Phases /\ remaining' \in 0..Timeout /\ seen' \in [Calls -> Nat]
  BY <1>2, FetchAssumption DEF Return, TypeOK, Phases
<1>6. QED
  BY <1>4, <1>5, ConstantTypes DEF Return

(* A running call is one of the calls; every step is typed from there. *)
LEMMA TypeNext ==
  ASSUME TypeOK, pc # "idle" => call \in Calls, Next
  PROVE  TypeOK'
<1> USE DEF caller, shared, replayer, history
<1>0. ErrorCount(errors) \in Nat
  BY DEF TypeOK, ErrorCount
<1>1. CASE Reject
  <2>1. call + 1 \in Calls /\ call + 1 \in 0..MaxCalls
    BY <1>1, FetchAssumption DEF Reject, TypeOK, Calls
  <2>2. "Rejected" \in Verdicts /\ 0 \in 0..MaxCalls /\ 0 \in Nat
    BY FetchAssumption DEF Verdicts
  <2>3. QED
    BY <1>1, <2>1, <2>2, ReturnType DEF Reject, TypeOK
<1>2. CASE Mark
  <2>1. call + 1 \in Calls /\ call + 1 \in 0..MaxCalls
    BY <1>2, FetchAssumption DEF Mark, TypeOK, Calls
  <2>2. QED
    BY <1>0, <1>2, <2>1, ConstantTypes DEF Mark, TypeOK, Phases
<1>3. CASE Arm
  <2>1. handler' \in [Calls -> BOOLEAN]
    BY <1>3 DEF Arm, TypeOK
  <2>2. inner' \in [Calls -> Nat] /\ pc' \in Phases
    BY <1>0, <1>3 DEF Arm, TypeOK, Phases
  <2>3. QED
    BY <1>3, <2>1, <2>2 DEF Arm, TypeOK
<1>4. CASE Dispatch
  BY <1>4 DEF Dispatch, TypeOK, Phases
<1>5. CASE TakeToken
  <2>1. "NoToken" \in Verdicts /\ 0 \in 0..MaxCalls /\ 0 \in Nat
    BY FetchAssumption DEF Verdicts
  <2>2. CASE Return(call, "NoToken", 0, 0)
    BY <1>5, <2>1, <2>2, ReturnType DEF TakeToken, TypeOK
  <2>3. CASE /\ pc' = "check"
             /\ remaining' = Timeout
             /\ UNCHANGED <<result, outcome, seen>>
    <3>1. pc' \in Phases /\ remaining' \in 0..Timeout
      BY <2>3, FetchAssumption DEF Phases
    <3>2. QED
      BY <1>5, <2>3, <3>1 DEF TakeToken, TypeOK
  <2>4. QED
    BY <1>5, <2>2, <2>3 DEF TakeToken
<1>6. CASE CheckSlot
  <2>1. pc' \in Phases /\ result' \in Answers
    BY <1>6 DEF CheckSlot, TypeOK, Phases
  <2>2. slot' \in [Calls -> Answers]
    BY <1>6, ConstantTypes DEF CheckSlot, TypeOK
  <2>3. QED
    BY <1>6, <2>1, <2>2 DEF CheckSlot, TypeOK
<1>7. CASE CheckDeadline
  BY <1>7, ConstantTypes DEF CheckDeadline, TypeOK, Phases
<1>8. CASE FinalCheck
  <2>1. PICK kind \in Verdicts, of \in 0..MaxCalls, at \in Nat :
          Return(call, kind, of, at)
    <3>1. FirstErrorSince(errors, outer[call]) \in Nat
      BY <1>8, SinceFacts DEF FinalCheck, TypeOK
    <3>2. {"Ok", "Parse", "Hard", "Replayer", "Timeout"} \subseteq Verdicts
      BY DEF Verdicts
    <3>3. 0 \in 0..MaxCalls /\ 0 \in Nat
      BY FetchAssumption
    <3>4. result.of \in 0..MaxCalls /\ result.at \in Nat
      BY DEF TypeOK, Answers
    <3>5. QED
      BY <1>8, <3>1, <3>2, <3>3, <3>4 DEF FinalCheck, Decode
  <2>2. QED
    BY <1>8, <2>1, ReturnType DEF FinalCheck, TypeOK
<1>9. ASSUME NEW k \in Calls, NEW i \in Fires, FireRead(k, i)
      PROVE  TypeOK'
  <2>1. PICK a \in Answers : fire' = [fire EXCEPT ![k][i] =
                                        [pc |-> "checked", ans |-> a]]
    <3>1. FirstErrorSince(errors, inner[k]) \in Nat
      BY SinceFacts DEF TypeOK
    <3>2. k \in 0..MaxCalls
      BY ConstantTypes
    <3>3. QED
      BY <1>9, <3>1, <3>2 DEF FireRead, Answers
  <2>2. [pc |-> "checked", ans |-> a] \in Invocations
    BY DEF Invocations
  <2>3. QED
    BY <1>9, <2>1, <2>2 DEF FireRead, TypeOK
<1>10. ASSUME NEW k \in Calls, NEW i \in Fires, FireTake(k, i)
       PROVE  TypeOK'
  <2>1. fire[k][i] \in Invocations
    BY DEF TypeOK
  <2>2. [fire[k][i] EXCEPT !.pc = "took"] \in Invocations
    BY <2>1 DEF Invocations
  <2>3. fire' \in [Calls -> [Fires -> Invocations]]
    BY <1>10, <2>2, ConstantTypes DEF FireTake, TypeOK
  <2>4. handler' \in [Calls -> BOOLEAN]
    BY <1>10 DEF FireTake, TypeOK
  <2>5. QED
    BY <1>10, <2>3, <2>4 DEF FireTake, TypeOK
<1>11. ASSUME NEW k \in Calls, NEW i \in Fires, FireStore(k, i)
       PROVE  TypeOK'
  <2>1. fire[k][i] \in Invocations
    BY DEF TypeOK
  <2>2. fire[k][i].ans \in Answers
    BY <2>1 DEF Invocations
  <2>3. slot' \in [Calls -> Answers] /\ fills' \in [Calls -> Nat]
    BY <1>11, <2>2 DEF FireStore, StoreInto, TypeOK
  <2>5. fire' \in [Calls -> [Fires -> Invocations]]
    BY <1>11, ConstantTypes DEF FireStore, TypeOK
  <2>6. QED
    BY <1>11, <2>3, <2>5 DEF FireStore, TypeOK
<1>12. ASSUME NEW c \in Calls \cup {Playback}, ReportError(c)
       PROVE  TypeOK'
  <2>1. c \in 0..MaxCalls
    BY ConstantTypes, FetchAssumption DEF Playback
  <2>2. errors' \in Seq(0..MaxCalls)
    BY <1>12, <2>1, RecordFacts DEF ReportError, TypeOK
  <2>3. QED
    BY <1>12, <2>2 DEF ReportError, TypeOK
<1>13. CASE Tick
  BY <1>13, FetchAssumption DEF Tick, TypeOK
<1>14. QED
  BY <1>1, <1>2, <1>3, <1>4, <1>5, <1>6, <1>7, <1>8, <1>9, <1>10, <1>11,
     <1>12, <1>13 DEF Next, CallerStep

-----------------------------------------------------------------------------
(* The inductive invariant. *)

(* Which calls have begun, been sent and returned, as the caller's pc says.*)
CallInv ==
  /\ pc # "idle" => call \in Calls
  /\ \A k \in sent : k <= call
  /\ pc \in {"marked", "armed"} => call \notin sent
  /\ pc \in {"fetching", "check", "empty", "final"} => call \in sent
  /\ \A k \in Calls :
       k > call \/ (k = call /\ pc # "idle") => outcome[k].kind = "none"

(* A slot is filled by the one invocation that took the handler, so once   *)
(* at most, and never before the batch is sent.                            *)
FillInv ==
  \A k \in Calls :
    /\ k \notin sent => /\ fills[k] = 0
                        /\ \A i \in Fires : fire[k][i] = Unfired
    /\ fills[k] <= 1
    /\ handler[k] => /\ fills[k] = 0
                     /\ \A i \in Fires : fire[k][i].pc # "took"
    /\ \A i \in Fires :
         fire[k][i].pc = "took" =>
           /\ fills[k] = 0
           /\ \A i2 \in Fires : fire[k][i2].pc = "took" => i2 = i
    /\ slot[k] # NoAnswer => fills[k] = 1

(* An answer a completion of call k can produce. *)
IsAnswer(a, k) ==
  /\ a.of = k
  /\ a.kind \in {"reply", "hard", "observed"}
  /\ a.kind = "observed" => outer[k] < a.at /\ a.at <= ErrorCount(errors)

Carries(k, i) ==
  IF fire[k][i].pc \in {"checked", "took"}
    THEN IsAnswer(fire[k][i].ans, k)
    ELSE fire[k][i].ans = NoAnswer

(* What an invocation carries, a slot holds and the caller has taken is an *)
(* answer to that call; a timeout is only claimed when the time is up.     *)
OwnInv ==
  /\ \A k \in Calls, i \in Fires : Carries(k, i)
  /\ \A k \in Calls : slot[k] # NoAnswer => IsAnswer(slot[k], k)
  /\ pc = "final" =>
       \/ result = Timedout /\ remaining = 0
       \/ IsAnswer(result, call) /\ fills[call] = 1
  /\ \A k \in Calls : outcome[k].kind = "Ok" => outcome[k].of = k

(* The method's mark is no later than the block's, no later than any error *)
(* its own batch causes, and no earlier than the return of the call before.*)
MarkInv ==
  /\ pc # "idle" => outer[call] <= ErrorCount(errors)
  /\ pc = "armed" => outer[call] <= inner[call]
  /\ \A k \in sent : outer[k] <= ErrorCount(errors) /\ outer[k] <= inner[k]
  /\ \A j \in 1..ErrorCount(errors) :
       errors[j] \in Calls => errors[j] \in sent /\ outer[errors[j]] < j
  /\ \A k \in Calls : seen[k] <= ErrorCount(errors)
  /\ \A k \in Calls : k <= call /\ outcome[k].kind # "Rejected" =>
       \A j \in 1..(k - 1) : seen[j] <= outer[k]
  /\ \A k \in Calls : outcome[k].kind = "Replayer" => outer[k] < outcome[k].at
  /\ \A k \in Calls :
       outcome[k].kind \in {"Ok", "Parse", "Hard", "Timeout"} =>
         seen[k] <= outer[k]

IInv == TypeOK /\ CallInv /\ FillInv /\ OwnInv /\ MarkInv

LEMMA InitInv == Init => IInv
<1> SUFFICES ASSUME Init PROVE IInv
  OBVIOUS
<1>1. TypeOK
  BY TypeInit
<1>2. CallInv
  BY FetchAssumption DEF Init, CallInv, NoVerdict
<1>3. FillInv
  BY DEF Init, FillInv, Unfired
<1>4. OwnInv
  BY DEF Init, OwnInv, Carries, Unfired, NoVerdict
<1>5. MarkInv
  <2>1. ErrorCount(errors) = 0
    BY DEF Init, ErrorCount
  <2>2. \A k \in Calls : seen[k] = 0 /\ outer[k] = 0 /\ outcome[k].kind = "none"
    BY DEF Init, NoVerdict
  <2>3. pc = "idle" /\ sent = {} /\ call = 0
    BY DEF Init
  <2>4. \A k \in Calls : k \in Nat /\ 0 < k
    BY DEF Calls
  <2>5. QED
    BY <2>1, <2>2, <2>3, <2>4 DEF MarkInv
<1>6. QED
  BY <1>1, <1>2, <1>3, <1>4, <1>5 DEF IInv

LEMMA CallNext ==
  ASSUME IInv, Next
  PROVE  CallInv'
<1> USE DEF IInv, TypeOK, CallInv, caller, shared, replayer, history
<1>1. CASE Reject
  BY <1>1, FetchAssumption DEF Reject, Return, Calls
<1>2. CASE Mark
  BY <1>2, FetchAssumption DEF Mark, Calls
<1>3. CASE Arm
  BY <1>3 DEF Arm
<1>4. CASE Dispatch
  BY <1>4 DEF Dispatch, Calls
<1>5. CASE TakeToken
  <2>1. CASE Return(call, "NoToken", 0, 0)
    BY <1>5, <2>1 DEF TakeToken, Return, Calls
  <2>2. CASE pc' = "check" /\ UNCHANGED outcome
    BY <1>5, <2>2 DEF TakeToken
  <2>3. QED
    BY <1>5, <2>1, <2>2 DEF TakeToken
<1>6. CASE CheckSlot
  BY <1>6 DEF CheckSlot
<1>7. CASE CheckDeadline
  BY <1>7 DEF CheckDeadline
<1>8. CASE FinalCheck
  <2>1. PICK kind, of, at : Return(call, kind, of, at)
    BY <1>8 DEF FinalCheck, Decode
  <2>2. QED
    BY <1>8, <2>1 DEF FinalCheck, Return, Calls
<1>9. ASSUME NEW k \in Calls, NEW i \in Fires, FireRead(k, i)
      PROVE  CallInv'
  BY <1>9 DEF FireRead
<1>10. ASSUME NEW k \in Calls, NEW i \in Fires, FireTake(k, i)
       PROVE  CallInv'
  BY <1>10 DEF FireTake
<1>11. ASSUME NEW k \in Calls, NEW i \in Fires, FireStore(k, i)
       PROVE  CallInv'
  BY <1>11 DEF FireStore
<1>12. ASSUME NEW c \in Calls \cup {Playback}, ReportError(c)
       PROVE  CallInv'
  BY <1>12 DEF ReportError
<1>13. CASE Tick
  BY <1>13 DEF Tick
<1>14. QED
  BY <1>1, <1>2, <1>3, <1>4, <1>5, <1>6, <1>7, <1>8, <1>9, <1>10, <1>11,
     <1>12, <1>13 DEF Next, CallerStep

LEMMA FillNext ==
  ASSUME IInv, Next
  PROVE  FillInv'
<1> USE DEF IInv, TypeOK, FillInv, caller, shared, replayer, history
<1>1. CASE Reject
  BY <1>1 DEF Reject, Return
<1>2. CASE Mark
  BY <1>2 DEF Mark
<1>3. CASE Arm
  <2>1. call \in Calls /\ call \notin sent
    BY <1>3 DEF Arm, CallInv
  <2>2. fills[call] = 0 /\ \A i \in Fires : fire[call][i].pc # "took"
    BY <2>1 DEF Unfired
  <2>3. QED
    BY <1>3, <2>1, <2>2 DEF Arm
<1>4. CASE Dispatch
  BY <1>4 DEF Dispatch
<1>5. CASE TakeToken
  BY <1>5 DEF TakeToken, Return
<1>6. CASE CheckSlot
  BY <1>6 DEF CheckSlot
<1>7. CASE CheckDeadline
  BY <1>7 DEF CheckDeadline
<1>8. CASE FinalCheck
  <2>1. PICK kind, of, at : Return(call, kind, of, at)
    BY <1>8 DEF FinalCheck, Decode
  <2>2. QED
    BY <1>8, <2>1 DEF FinalCheck, Return
<1>9. ASSUME NEW k \in Calls, NEW i \in Fires, FireRead(k, i)
      PROVE  FillInv'
  <2>1. PICK a : fire' = [fire EXCEPT ![k][i] =
                            [pc |-> "checked", ans |-> a]]
    BY <1>9 DEF FireRead
  <2>2. QED
    BY <1>9, <2>1 DEF FireRead
<1>10. ASSUME NEW k \in Calls, NEW i \in Fires, FireTake(k, i)
       PROVE  FillInv'
  <2>1. k \in sent
    BY <1>10 DEF FireTake, Unfired
  <2>2. CASE handler[k]
    BY <1>10, <2>1, <2>2 DEF FireTake
  <2>3. CASE ~handler[k]
    BY <1>10, <2>1, <2>3 DEF FireTake, Finished
  <2>4. QED
    BY <2>2, <2>3
<1>11. ASSUME NEW k \in Calls, NEW i \in Fires, FireStore(k, i)
       PROVE  FillInv'
  <2>1. k \in sent /\ ~handler[k] /\ fills[k] = 0 /\ slot[k] = NoAnswer
    BY <1>11 DEF FireStore, Unfired
  <2>2. fills' = [fills EXCEPT ![k] = 1]
    BY <1>11, <2>1 DEF FireStore, StoreInto
  <2>3. fire' = [fire EXCEPT ![k][i] = Finished]
    BY <1>11 DEF FireStore
  <2>4. \A c \in Calls : c # k => slot'[c] = slot[c]
    BY <1>11 DEF FireStore, StoreInto
  <2>5. sent' = sent /\ handler' = handler
    BY <1>11 DEF FireStore
  <2>6. \A i2 \in Fires : fire'[k][i2].pc # "took"
    BY <1>11, <2>3 DEF FireStore, Finished
  <2>7. QED
    BY <2>1, <2>2, <2>3, <2>4, <2>5, <2>6
<1>12. ASSUME NEW c \in Calls \cup {Playback}, ReportError(c)
       PROVE  FillInv'
  BY <1>12 DEF ReportError
<1>13. CASE Tick
  BY <1>13 DEF Tick
<1>14. QED
  BY <1>1, <1>2, <1>3, <1>4, <1>5, <1>6, <1>7, <1>8, <1>9, <1>10, <1>11,
     <1>12, <1>13 DEF Next, CallerStep

(* An invocation that has read its response carries an answer to its call. *)
LEMMA ReadAnswers ==
  ASSUME TypeOK, MarkInv, NEW k \in Calls, NEW i \in Fires, FireRead(k, i)
  PROVE  \E a : /\ IsAnswer(a, k)
                /\ fire' = [fire EXCEPT ![k][i] = [pc |-> "checked", ans |-> a]]
<1> DEFINE at == FirstErrorSince(errors, inner[k])
           Ans(kind) == IF kind = "reply" /\ at # NoError
                          THEN [kind |-> "observed", of |-> k, at |-> at]
                          ELSE [kind |-> kind, of |-> k, at |-> 0]
<1>1. PICK kind \in {"reply", "hard"} :
        fire' = [fire EXCEPT ![k][i] = [pc |-> "checked", ans |-> Ans(kind)]]
  BY DEF FireRead
<1>2. outer[k] \in Nat /\ inner[k] \in Nat /\ errors \in Seq(0..MaxCalls)
  BY DEF TypeOK
<1>3. outer[k] <= inner[k]
  BY DEF FireRead, MarkInv
<1>4. at \in Nat /\ (at # NoError => inner[k] < at /\ at <= ErrorCount(errors))
  BY <1>2, SinceFacts
<1>5. at # NoError => outer[k] < at /\ at <= ErrorCount(errors)
  BY <1>2, <1>3, <1>4
<1> HIDE DEF at
<1>6. IsAnswer(Ans(kind), k)
  BY <1>5 DEF IsAnswer
<1>7. QED
  BY <1>1, <1>6

(* The types of the answers in flight. *)
LEMMA AnswerTypes ==
  ASSUME TypeOK
  PROVE  /\ \A k \in Calls, i \in Fires : fire[k][i] \in Invocations
         /\ \A k \in Calls, i \in Fires : fire[k][i].ans.at \in Nat
         /\ \A k \in Calls : slot[k].at \in Nat
         /\ result.at \in Nat
<1>1. \A k \in Calls, i \in Fires : fire[k][i] \in Invocations
  BY DEF TypeOK
<1>2. \A x \in Invocations : x.ans \in Answers
  BY DEF Invocations
<1>3. \A a \in Answers : a.at \in Nat
  BY DEF Answers
<1>4. QED
  BY <1>1, <1>2, <1>3 DEF TypeOK

(* The two steps of an invocation that move an answer along. *)
LEMMA OwnRead ==
  ASSUME IInv, NEW k \in Calls, NEW i \in Fires, FireRead(k, i)
  PROVE  OwnInv'
<1>1. PICK a : /\ IsAnswer(a, k)
               /\ fire' = [fire EXCEPT ![k][i] = [pc |-> "checked", ans |-> a]]
  BY ReadAnswers DEF IInv
<1>2. UNCHANGED <<pc, call, outer, remaining, result, outcome, slot, errors,
                  fills>>
  BY DEF FireRead, caller, shared, history
<1>3. /\ fire'[k][i] = [pc |-> "checked", ans |-> a]
      /\ \A c \in Calls, h \in Fires :
           ~(c = k /\ h = i) => fire'[c][h] = fire[c][h]
  BY <1>1 DEF IInv, TypeOK
<1>4. ASSUME NEW c \in Calls, NEW h \in Fires
      PROVE  Carries(c, h)'
  <2>1. CASE c = k /\ h = i
    BY <1>1, <1>2, <1>3, <2>1 DEF Carries, IsAnswer
  <2>2. CASE ~(c = k /\ h = i)
    <3>1. Carries(c, h)
      BY DEF IInv, OwnInv
    <3>2. QED
      BY <1>2, <1>3, <2>2, <3>1 DEF Carries, IsAnswer
  <2>3. QED
    BY <2>1, <2>2
<1>5. QED
  BY <1>2, <1>4 DEF IInv, OwnInv, IsAnswer

LEMMA OwnStore ==
  ASSUME IInv, NEW k \in Calls, NEW i \in Fires, FireStore(k, i)
  PROVE  OwnInv'
<1>1. fills[k] = 0 /\ fire[k][i].pc = "took" /\ IsAnswer(fire[k][i].ans, k)
  BY DEF FireStore, IInv, FillInv, OwnInv, Carries
<1>2. UNCHANGED <<pc, call, outer, remaining, result, outcome, errors>>
  BY DEF FireStore, caller
<1>3. \A c \in Calls : fills[c] = 1 => fills'[c] = 1
  BY <1>1 DEF FireStore, StoreInto, IInv, TypeOK
<1>4. \A c \in Calls : slot'[c] = slot[c] \/ (c = k /\ slot'[c] = fire[k][i].ans)
  BY DEF FireStore, StoreInto, IInv, TypeOK
<1>5. /\ fire'[k][i] = Finished
      /\ \A c \in Calls, h \in Fires :
           ~(c = k /\ h = i) => fire'[c][h] = fire[c][h]
  BY DEF FireStore, IInv, TypeOK
<1>6. ASSUME NEW c \in Calls, NEW h \in Fires
      PROVE  Carries(c, h)'
  <2>1. CASE c = k /\ h = i
    BY <1>5, <2>1 DEF Carries, Finished
  <2>2. CASE ~(c = k /\ h = i)
    <3>1. Carries(c, h)
      BY DEF IInv, OwnInv
    <3>2. QED
      BY <1>2, <1>5, <2>2, <3>1 DEF Carries, IsAnswer
  <2>3. QED
    BY <2>1, <2>2
<1>7. ASSUME NEW c \in Calls, slot'[c] # NoAnswer
      PROVE  IsAnswer(slot[c], c)'
  <2>1. IsAnswer(slot'[c], c)
    BY <1>1, <1>4, <1>7 DEF IInv, OwnInv
  <2>2. QED
    BY <1>2, <2>1 DEF IsAnswer
<1>8. pc = "final" => call \in Calls
  BY DEF IInv, CallInv
<1>9. QED
  BY <1>2, <1>3, <1>6, <1>7, <1>8 DEF IInv, OwnInv, IsAnswer

(* What a call returned is what it took from its slot, or a timeout. *)
LEMMA OwnNext ==
  ASSUME IInv, Next
  PROVE  OwnInv'
<1>a. \A k \in Calls, i \in Fires : FireRead(k, i) => OwnInv'
  BY OwnRead
<1>b. \A k \in Calls, i \in Fires : FireStore(k, i) => OwnInv'
  BY OwnStore
<1> USE DEF IInv, TypeOK, OwnInv, Carries, IsAnswer, caller, shared, replayer, history
<1>1. CASE Reject
  BY <1>1 DEF Reject, Return
<1>2. CASE Mark
  <2>1. call + 1 \in Calls /\ call + 1 \notin sent /\ pc' = "marked"
    BY <1>2, FetchAssumption DEF Mark, CallInv, Calls
  <2>2. \A i \in Fires : fire[call + 1][i] = Unfired
    BY <2>1 DEF FillInv
  <2>3. \A k \in Calls, i \in Fires :
          fire[k][i].pc \in {"checked", "took"} => k # call + 1
    BY <2>2 DEF Unfired
  <2>4. QED
    BY <1>2, <2>1, <2>3 DEF Mark
<1>3. CASE Arm
  BY <1>3 DEF Arm
<1>4. CASE Dispatch
  BY <1>4 DEF Dispatch
<1>5. CASE TakeToken
  <2>1. CASE Return(call, "NoToken", 0, 0)
    BY <1>5, <2>1 DEF TakeToken, Return
  <2>2. CASE pc' = "check" /\ UNCHANGED outcome
    BY <1>5, <2>2 DEF TakeToken
  <2>3. QED
    BY <1>5, <2>1, <2>2 DEF TakeToken
<1>6. CASE CheckSlot
  <2>1. call \in Calls
    BY <1>6 DEF CheckSlot, CallInv
  <2>2. CASE slot[call] # NoAnswer
    <3>1. fills[call] = 1
      BY <2>1, <2>2 DEF FillInv
    <3>2. QED
      BY <1>6, <2>1, <2>2, <3>1 DEF CheckSlot
  <2>3. CASE slot[call] = NoAnswer
    BY <1>6, <2>3 DEF CheckSlot
  <2>4. QED
    BY <2>2, <2>3
<1>7. CASE CheckDeadline
  BY <1>7 DEF CheckDeadline
<1>8. CASE FinalCheck
  <2>1. call \in Calls
    BY <1>8 DEF FinalCheck, CallInv
  <2>2. PICK kind, of, at : Return(call, kind, of, at) /\ (kind = "Ok" => of = call)
    <3>1. result.kind = "reply" => result.of = call
      BY <1>8 DEF FinalCheck, Timedout
    <3>2. QED
      BY <1>8, <3>1 DEF FinalCheck, Decode
  <2>3. QED
    BY <1>8, <2>1, <2>2 DEF FinalCheck, Return
<1>9. ASSUME NEW k \in Calls, NEW i \in Fires, FireRead(k, i)
      PROVE  OwnInv'
  BY <1>9, <1>a
<1>10. ASSUME NEW k \in Calls, NEW i \in Fires, FireTake(k, i)
       PROVE  OwnInv'
  <2>1. fire[k][i] \in Invocations
    BY AnswerTypes
  <2>2. /\ [fire[k][i] EXCEPT !.pc = "took"].ans = fire[k][i].ans
        /\ [fire[k][i] EXCEPT !.pc = "took"].pc = "took"
    BY <2>1 DEF Invocations
  <2>3. IsAnswer(fire[k][i].ans, k)
    BY <1>10 DEF FireTake
  <2>4. QED
    BY <1>10, <2>2, <2>3 DEF FireTake, Finished
<1>11. ASSUME NEW k \in Calls, NEW i \in Fires, FireStore(k, i)
       PROVE  OwnInv'
  BY <1>11, <1>b
<1>12. ASSUME NEW c \in Calls \cup {Playback}, ReportError(c)
       PROVE  OwnInv'
  <2>1. ErrorCount(errors') = ErrorCount(errors) + 1 /\ ErrorCount(errors) \in Nat
    BY <1>12, FetchAssumption DEF ReportError, Record, ErrorCount
  <2>2. UNCHANGED <<caller, slot, replayer, fills>>
    BY <1>12 DEF ReportError
  <2>3. \A n \in Nat : n <= ErrorCount(errors) => n <= ErrorCount(errors')
    BY <2>1
  <2>4. /\ \A k \in Calls, i \in Fires : fire[k][i].ans.at \in Nat
        /\ \A k \in Calls : slot[k].at \in Nat
        /\ result.at \in Nat
    BY AnswerTypes
  <2>5. QED
    BY <2>2, <2>3, <2>4
<1>13. CASE Tick
  BY <1>13 DEF Tick, Waiting
<1>14. QED
  BY <1>1, <1>2, <1>3, <1>4, <1>5, <1>6, <1>7, <1>8, <1>9, <1>10, <1>11,
     <1>12, <1>13 DEF Next, CallerStep

(* Returning from the running call: the errors the call may be judged by   *)
(* are those the observer holds now.                                       *)
LEMMA MarkReturn ==
  ASSUME IInv, pc # "idle", NEW kind \in Verdicts, NEW of, NEW at,
         Return(call, kind, of, at),
         UNCHANGED <<call, outer, inner, errors, sent>>,
         kind = "Replayer" => outer[call] < at,
         kind \in {"Ok", "Parse", "Hard", "Timeout"} =>
           ErrorCount(errors) <= outer[call]
  PROVE  MarkInv'
<1>1. call \in Calls
  BY DEF IInv, CallInv
<1>2. /\ pc' = "idle"
      /\ outcome'[call] = [kind |-> kind, of |-> of, at |-> at]
      /\ seen'[call] = ErrorCount(errors)
      /\ \A k \in Calls : k # call => outcome'[k] = outcome[k] /\ seen'[k] = seen[k]
  BY <1>1 DEF Return, IInv, TypeOK
<1>3. \A k \in Calls : k <= call /\ outcome'[k].kind # "Rejected" =>
        \A j \in 1..(k - 1) : seen'[j] <= outer[k]
  <2>1. outcome[call].kind = "none"
    BY <1>1 DEF IInv, CallInv
  <2>2. \A k \in Calls : k <= call => \A j \in 1..(k - 1) : j \in Calls /\ j # call
    BY <1>1, FetchAssumption DEF Calls
  <2>3. \A k \in Calls : k <= call /\ outcome[k].kind # "Rejected" =>
          \A j \in 1..(k - 1) : seen[j] <= outer[k]
    BY DEF IInv, MarkInv
  <2>4. QED
    BY <1>1, <1>2, <2>1, <2>2, <2>3
<1>4. \A k \in Calls : seen'[k] <= ErrorCount(errors)
  <2>1. ErrorCount(errors) \in Nat
    BY DEF IInv, TypeOK, ErrorCount
  <2>2. QED
    BY <1>2, <2>1 DEF IInv, MarkInv
<1>5. \A k \in Calls : outcome'[k].kind = "Replayer" => outer[k] < outcome'[k].at
  BY <1>2 DEF IInv, MarkInv
<1>6. \A k \in Calls :
        outcome'[k].kind \in {"Ok", "Parse", "Hard", "Timeout"} =>
          seen'[k] <= outer[k]
  BY <1>2 DEF IInv, MarkInv
<1>7. QED
  BY <1>2, <1>3, <1>4, <1>5, <1>6 DEF IInv, MarkInv

(* What FinalCheck returns: the error past the mark if there is one, and a *)
(* verdict of the call's own only if there is none.                        *)
LEMMA FinalVerdict ==
  ASSUME TypeOK, CallInv, FinalCheck
  PROVE  \E kind, of, at :
           /\ kind \in Verdicts
           /\ Return(call, kind, of, at)
           /\ kind = "Replayer" =>
                \/ outer[call] < at
                \/ result.kind = "observed" /\ at = result.at
           /\ kind \in {"Ok", "Parse", "Hard", "Timeout"} =>
                ErrorCount(errors) <= outer[call]
<1>1. outer[call] \in Nat /\ errors \in Seq(0..MaxCalls)
  BY DEF TypeOK, CallInv, FinalCheck
<1> DEFINE at == FirstErrorSince(errors, outer[call])
<1>2. /\ at # NoError => outer[call] < at
      /\ at = NoError => ErrorCount(errors) <= outer[call]
  BY <1>1, SinceFacts
<1>3. {"Ok", "Parse", "Hard", "Replayer", "Timeout"} \subseteq Verdicts
  BY DEF Verdicts
<1>4. IF at # NoError THEN Return(call, "Replayer", 0, at) ELSE Decode
  BY DEF FinalCheck
<1> HIDE DEF at
<1>5. CASE at # NoError
  BY <1>2, <1>3, <1>4, <1>5
<1>6. CASE at = NoError
  BY <1>2, <1>3, <1>4, <1>6 DEF Decode
<1>7. QED
  BY <1>5, <1>6

LEMMA MarkNext ==
  ASSUME IInv, Next
  PROVE  MarkInv'
<1>0. ErrorCount(errors) \in Nat /\ TypeOK /\ CallInv
  BY DEF IInv, TypeOK, ErrorCount
<1>a. ASSUME UNCHANGED <<call, outer, inner, outcome, errors, sent, seen>>,
             pc' # "idle" => pc # "idle",
             pc' = "armed" => pc = "armed"
      PROVE  MarkInv'
  BY <1>a DEF IInv, MarkInv
<1>1. CASE Reject
  <2>1. /\ call + 1 \in Calls /\ call' = call + 1 /\ pc' = "idle"
        /\ outcome'[call + 1].kind = "Rejected"
        /\ seen'[call + 1] = ErrorCount(errors)
        /\ \A k \in Calls :
             k # call + 1 => outcome'[k] = outcome[k] /\ seen'[k] = seen[k]
        /\ UNCHANGED <<outer, inner, errors, sent>>
    BY <1>0, <1>1, FetchAssumption
       DEF Reject, Return, TypeOK, Calls, shared, replayer
  <2>2. \A k \in Calls : k <= call' /\ outcome'[k].kind # "Rejected" =>
          \A j \in 1..(k - 1) : seen'[j] <= outer[k]
    <3>1. \A k \in Calls : k <= call + 1 /\ k # call + 1 => k <= call
      BY <1>0, FetchAssumption DEF TypeOK, Calls
    <3>2. \A k \in Calls : k <= call =>
            \A j \in 1..(k - 1) : j \in Calls /\ j # call + 1
      BY <1>0, FetchAssumption DEF TypeOK, Calls
    <3>3. QED
      BY <2>1, <3>1, <3>2 DEF IInv, MarkInv
  <2>3. \A k \in Calls : seen'[k] <= ErrorCount(errors)
    BY <1>0, <2>1 DEF IInv, MarkInv
  <2>4. QED
    BY <2>1, <2>2, <2>3 DEF IInv, MarkInv
<1>2. CASE Mark
  <2>1. /\ call + 1 \in Calls /\ call + 1 \notin sent
        /\ call' = call + 1 /\ pc' = "marked"
        /\ outer'[call + 1] = ErrorCount(errors)
        /\ \A k \in Calls : k # call + 1 => outer'[k] = outer[k]
        /\ UNCHANGED <<outcome, seen, inner, errors, sent>>
    BY <1>0, <1>2, FetchAssumption
       DEF Mark, TypeOK, CallInv, Calls, replayer, history
  <2>2. \A k \in sent : k \in Calls /\ k # call + 1
    BY <1>0, <2>1 DEF TypeOK
  <2>3. outcome[call + 1].kind = "none"
    BY <1>0, <2>1, FetchAssumption DEF TypeOK, CallInv, Calls
  <2>4. \A k \in Calls : k <= call' /\ outcome'[k].kind # "Rejected" =>
          \A j \in 1..(k - 1) : seen'[j] <= outer'[k]
    <3>1. \A k \in Calls : k <= call + 1 /\ k # call + 1 => k <= call
      BY <1>0, FetchAssumption DEF TypeOK, Calls
    <3>2. \A j \in 1..((call + 1) - 1) : j \in Calls
      BY <2>1, FetchAssumption DEF Calls
    <3>3. QED
      BY <2>1, <3>1, <3>2 DEF IInv, MarkInv
  <2>5. \A j \in 1..ErrorCount(errors) :
          errors[j] \in Calls => errors[j] \in sent /\ outer'[errors[j]] < j
    BY <2>1, <2>2 DEF IInv, MarkInv
  <2>6. QED
    BY <1>0, <2>1, <2>2, <2>3, <2>4, <2>5 DEF IInv, MarkInv
<1>3. CASE Arm
  <2>1. /\ call \in Calls /\ call \notin sent /\ pc # "idle"
        /\ inner'[call] = ErrorCount(errors)
        /\ \A k \in Calls : k # call => inner'[k] = inner[k]
        /\ sent \subseteq Calls
        /\ UNCHANGED <<call, outer, outcome, seen, errors, sent>>
    BY <1>0, <1>3 DEF Arm, TypeOK, CallInv, replayer, history
  <2>2. \A k \in sent : k # call /\ inner'[k] = inner[k]
    BY <2>1
  <2>3. QED
    BY <2>1, <2>2 DEF IInv, MarkInv
<1>4. CASE Dispatch
  <2>1. /\ sent' = sent \cup {call} /\ pc = "armed" /\ pc' = "fetching"
        /\ UNCHANGED <<call, outer, inner, outcome, seen, errors>>
    BY <1>4 DEF Dispatch, shared, history
  <2>2. outer[call] <= ErrorCount(errors) /\ outer[call] <= inner[call]
    BY <2>1 DEF IInv, MarkInv
  <2>3. QED
    BY <2>1, <2>2 DEF IInv, MarkInv
<1>5. CASE TakeToken
  <2>1. CASE Return(call, "NoToken", 0, 0)
    BY <1>5, <2>1, MarkReturn DEF TakeToken, shared, replayer, Verdicts
  <2>2. CASE pc' = "check" /\ UNCHANGED <<outcome, seen>>
    BY <1>a, <1>5, <2>2 DEF TakeToken, shared, replayer
  <2>3. QED
    BY <1>5, <2>1, <2>2 DEF TakeToken
<1>6. CASE CheckSlot
  BY <1>a, <1>6 DEF CheckSlot, replayer, history
<1>7. CASE CheckDeadline
  BY <1>a, <1>7 DEF CheckDeadline, shared, replayer, history
<1>8. CASE FinalCheck
  <2>1. PICK kind, of, at :
          /\ kind \in Verdicts
          /\ Return(call, kind, of, at)
          /\ kind = "Replayer" =>
               \/ outer[call] < at
               \/ result.kind = "observed" /\ at = result.at
          /\ kind \in {"Ok", "Parse", "Hard", "Timeout"} =>
               ErrorCount(errors) <= outer[call]
    BY <1>0, <1>8, FinalVerdict
  <2>2. result.kind = "observed" => outer[call] < result.at
    BY <1>8 DEF FinalCheck, IInv, OwnInv, IsAnswer, Timedout
  <2>3. QED
    BY <1>8, <2>1, <2>2, MarkReturn DEF FinalCheck, shared, replayer
<1>9. ASSUME NEW k \in Calls, NEW i \in Fires, FireRead(k, i)
      PROVE  MarkInv'
  BY <1>9, <1>a DEF FireRead, caller, shared, history
<1>10. ASSUME NEW k \in Calls, NEW i \in Fires, FireTake(k, i)
       PROVE  MarkInv'
  BY <1>10, <1>a DEF FireTake, caller, history
<1>11. ASSUME NEW k \in Calls, NEW i \in Fires, FireStore(k, i)
       PROVE  MarkInv'
  BY <1>11, <1>a DEF FireStore, caller
<1>12. ASSUME NEW c \in Calls \cup {Playback}, ReportError(c)
       PROVE  MarkInv'
  <2>1. c \in 0..MaxCalls /\ (c \in Calls => c \in sent)
    BY <1>12, ConstantTypes, FetchAssumption DEF ReportError, Playback, Calls
  <2>2. /\ ErrorCount(errors') = ErrorCount(errors) + 1
        /\ \A j \in 1..ErrorCount(errors) : errors'[j] = errors[j]
        /\ errors'[ErrorCount(errors) + 1] = c
    <3>1. errors \in Seq(0..MaxCalls) /\ errors' = Record(errors, c)
      BY <1>0, <1>12 DEF ReportError, TypeOK
    <3>2. QED
      BY <2>1, <3>1 DEF Record, ErrorCount
  <2>3. UNCHANGED <<pc, call, outer, inner, outcome, sent, seen>>
    BY <1>12 DEF ReportError, caller, replayer, history
  <2>4. \A n \in Nat : n <= ErrorCount(errors) => n <= ErrorCount(errors')
    BY <1>0, <2>2
  <2>5. \A k \in Calls : outer[k] \in Nat /\ seen[k] \in Nat
    BY <1>0 DEF TypeOK
  <2>6. \A j \in 1..ErrorCount(errors') :
          errors'[j] \in Calls =>
            errors'[j] \in sent /\ outer[errors'[j]] < j
    <3>1. c \in Calls => c \in sent /\ outer[c] < ErrorCount(errors) + 1
      BY <1>0, <2>1, <2>5 DEF IInv, MarkInv
    <3>2. \A j \in 1..ErrorCount(errors') :
            j \in 1..ErrorCount(errors) \/ j = ErrorCount(errors) + 1
      BY <1>0, <2>2
    <3>3. QED
      BY <2>2, <3>1, <3>2 DEF IInv, MarkInv
  <2>7. sent \subseteq Calls /\ (pc # "idle" => call \in Calls)
    BY <1>0 DEF TypeOK, CallInv
  <2>8. QED
    BY <2>3, <2>4, <2>5, <2>6, <2>7 DEF IInv, MarkInv
<1>13. CASE Tick
  BY <1>13, <1>a DEF Tick, shared, replayer, history
<1>14. QED
  BY <1>1, <1>2, <1>3, <1>4, <1>5, <1>6, <1>7, <1>8, <1>9, <1>10, <1>11,
     <1>12, <1>13 DEF Next, CallerStep

LEMMA NextInv == IInv /\ [Next]_vars => IInv'
<1>1. ASSUME IInv, Next PROVE IInv'
  <2>1. TypeOK'
    BY <1>1, TypeNext DEF IInv, CallInv
  <2>2. QED
    BY <1>1, <2>1, CallNext, FillNext, OwnNext, MarkNext DEF IInv
<1>2. ASSUME IInv, UNCHANGED vars PROVE IInv'
  <2>1. UNCHANGED <<pc, call, outer, remaining, result, outcome, inner, handler,
                    slot, errors, sent, fire, fills, seen>>
    BY <1>2 DEF vars, caller, shared, replayer, history
  <2>2. TypeOK' /\ CallInv' /\ FillInv' /\ MarkInv'
    BY <1>2, <2>1 DEF IInv, TypeOK, CallInv, FillInv, MarkInv
  <2>3. OwnInv'
    BY <1>2, <2>1 DEF IInv, OwnInv, Carries, IsAnswer
  <2>4. QED
    BY <2>2, <2>3 DEF IInv
<1>3. QED
  BY <1>1, <1>2

THEOREM Invariance == Spec => []IInv
  BY InitInv, NextInv, PTL DEF Spec

-----------------------------------------------------------------------------
(* The theorems. *)

(* The state of the fetches is well typed, for any session. *)
THEOREM TypeCorrect == Spec => []TypeOK
<1>1. IInv => TypeOK
  BY DEF IInv
<1>2. QED
  BY <1>1, Invariance, PTL

(* A successful fetch returns the reply to its own batch: no late answer   *)
(* to an earlier fetch is ever taken for it.                               *)
THEOREM RepliesAreOwn == Spec => []OwnReply
<1>1. IInv => OwnReply
  BY DEF IInv, OwnInv, OwnReply
<1>2. QED
  BY <1>1, Invariance, PTL

(* No verdict of the call's own is returned over an error the call caused. *)
THEOREM ErrorsAreHeard == Spec => []OwnErrorsSurface
<1>1. IInv => OwnErrorsSurface
  <2>1. SUFFICES ASSUME IInv, NEW k \in Calls,
                        outcome[k].kind \in {"Ok", "Parse", "Hard", "Timeout"},
                        NEW j \in 1..seen[k], errors[j] = k
                 PROVE  FALSE
    BY DEF OwnErrorsSurface
  <2>2. /\ seen[k] \in Nat /\ outer[k] \in Nat /\ ErrorCount(errors) \in Nat
        /\ seen[k] <= ErrorCount(errors) /\ seen[k] <= outer[k]
    BY <2>1 DEF IInv, TypeOK, MarkInv, ErrorCount
  <2>3. j \in 1..ErrorCount(errors)
    BY <2>2
  <2>4. outer[k] < j
    BY <2>1, <2>3 DEF IInv, MarkInv
  <2>5. QED
    BY <2>2, <2>4
<1>2. QED
  BY <1>1, Invariance, PTL

(* No fetch is blamed for an error recorded before it began.               *)
THEOREM BlameIsFresh == Spec => []NoStaleBlame
<1>1. IInv => NoStaleBlame
  <2>1. SUFFICES ASSUME IInv, NEW k \in Calls, outcome[k].kind = "Replayer",
                        NEW j \in 1..(k - 1)
                 PROVE  seen[j] < outcome[k].at
    BY DEF NoStaleBlame
  <2>2. k <= call
    BY <2>1 DEF IInv, TypeOK, CallInv, Calls
  <2>3. seen[j] <= outer[k] /\ outer[k] < outcome[k].at
    BY <2>1, <2>2 DEF IInv, MarkInv
  <2>4. seen[j] \in Nat /\ outer[k] \in Nat /\ outcome[k].at \in Nat
    <3>1. j \in Calls
      BY FetchAssumption DEF Calls
    <3>2. outcome[k] \in Outcomes
      BY <2>1 DEF IInv, TypeOK
    <3>3. QED
      BY <2>1, <3>1, <3>2 DEF IInv, TypeOK, Outcomes
  <2>5. QED
    BY <2>3, <2>4
<1>2. QED
  BY <1>1, Invariance, PTL

(* First fire wins, whatever the invocations of a block do. *)
THEOREM FirstFireWins == Spec => []FilledOnce
<1>1. IInv => FilledOnce
  BY DEF IInv, FillInv, FilledOnce
<1>2. QED
  BY <1>1, Invariance, PTL

(* The method's mark covers what the block saw. *)
THEOREM BlockAgrees == Spec => []BlockErrorsAreSeen
<1>1. IInv => BlockErrorsAreSeen
  BY DEF IInv, OwnInv, Carries, IsAnswer, BlockErrorsAreSeen, NoAnswer
<1>2. QED
  BY <1>1, Invariance, PTL

-----------------------------------------------------------------------------
(* The refinement: every step is one of FetchPromise's, or is invisible.   *)

LEMMA PromiseInit == Init => Promise!Init
  BY FetchAssumption DEF Init, Promise!Init, Promise!Calls, Calls, busy,
       answered, noise, expired, verdict, Waiting, NoVerdict

(* A call that returns v, when FetchPromise allows v.                      *)
LEMMA PromiseReturn ==
  ASSUME IInv, pc # "idle", NEW v \in Promise!Verdicts, NEW of, NEW at,
         Return(call, v, of, at), UNCHANGED <<call, outer, errors, fills>>,
         Promise!Allowed(v)
  PROVE  Promise!Return(v)
<1>1. call \in Calls
  BY DEF IInv, CallInv
<1>2. pc' = "idle"
  BY DEF Return
<1>3. verdict' = [verdict EXCEPT ![call] = v]
  BY <1>1 DEF Return, verdict, IInv, TypeOK
<1>4. ~busy' /\ ~noise' /\ ~expired'
  BY <1>2 DEF busy, noise, expired, Waiting
<1>5. answered' = answered
  BY DEF answered
<1>6. QED
  BY <1>3, <1>4, <1>5 DEF Promise!Return, busy, noise, expired

(* Whatever FinalCheck returns is allowed: an error past the mark is noise,*)
(* a reply or failure was an answer, a timeout had its time up.            *)
LEMMA AllowedVerdict ==
  ASSUME IInv, FinalCheck
  PROVE  \E v, of, at :
           v \in Verdicts /\ Return(call, v, of, at) /\ Promise!Allowed(v)
<1>1. /\ outer[call] \in Nat /\ errors \in Seq(0..MaxCalls) /\ call \in Calls
      /\ ErrorCount(errors) \in Nat /\ fills[call] \in Nat /\ pc = "final"
  BY DEF IInv, TypeOK, CallInv, FinalCheck, ErrorCount
<1> DEFINE at == FirstErrorSince(errors, outer[call])
<1>2. at # NoError => outer[call] < ErrorCount(errors)
  BY <1>1, SinceFacts
<1>3. at = NoError => ErrorCount(errors) <= outer[call]
  BY <1>1, SinceFacts
<1>4. IF at # NoError THEN Return(call, "Replayer", 0, at) ELSE Decode
  BY DEF FinalCheck
<1> HIDE DEF at
<1>5. CASE at # NoError
  <2>1. Promise!Allowed("Replayer")
    BY <1>1, <1>2, <1>5 DEF Promise!Allowed, noise, busy
  <2>2. QED
    BY <1>4, <1>5, <2>1 DEF Verdicts
<1>6. CASE at = NoError
  <2>1. ~noise
    BY <1>1, <1>3, <1>6 DEF noise
  <2>2. CASE result = Timedout /\ remaining = 0
    <3>1. Promise!Allowed("Timeout")
      BY <1>1, <2>1, <2>2 DEF Promise!Allowed, expired
    <3>2. Return(call, "Timeout", 0, 0)
      BY <1>4, <1>6, <2>2 DEF Decode, Timedout
    <3>3. QED
      BY <3>1, <3>2 DEF Verdicts
  <2>3. CASE IsAnswer(result, call) /\ fills[call] = 1
    <3>1. call \in answered
      BY <1>1, <2>3 DEF answered
    <3>2. \A v \in {"Ok", "Parse", "Hard"} : Promise!Allowed(v)
      BY <2>1, <3>1 DEF Promise!Allowed
    <3>3. result.kind # "observed"
      <4>1. SUFFICES ASSUME result.kind = "observed"
                     PROVE  FALSE
        OBVIOUS
      <4>2. outer[call] < result.at /\ result.at <= ErrorCount(errors)
        BY <2>3, <4>1 DEF IsAnswer
      <4>3. result.at \in Nat
        BY DEF IInv, TypeOK, Answers
      <4>4. QED
        BY <1>1, <1>3, <1>6, <4>2, <4>3
    <3>4. \/ \E kind \in {"Ok", "Parse"} : Return(call, kind, result.of, 0)
          \/ Return(call, "Hard", 0, 0)
      BY <1>4, <1>6, <2>3, <3>3 DEF Decode, IsAnswer
    <3>5. QED
      BY <3>2, <3>4 DEF Verdicts
  <2>4. QED
    BY <1>1, <2>2, <2>3 DEF IInv, OwnInv
<1>7. QED
  BY <1>5, <1>6

LEMMA PromiseNext == IInv /\ IInv' /\ [Next]_vars => [Promise!Next]_(Promise!vars)
<1> SUFFICES ASSUME IInv, IInv', [Next]_vars
             PROVE  [Promise!Next]_(Promise!vars)
  OBVIOUS
<1> USE DEF caller, shared, replayer, history
<1>0. /\ TypeOK /\ CallInv /\ ErrorCount(errors) \in Nat
      /\ Promise!Calls = Calls /\ Promise!Verdicts = Verdicts
  BY DEF IInv, TypeOK, ErrorCount, Promise!Calls, Calls, Promise!Verdicts, Verdicts
<1>a. ASSUME UNCHANGED <<call, busy, answered, noise, expired, verdict>>
      PROVE  UNCHANGED Promise!vars
  BY <1>a DEF Promise!vars
<1>1. CASE Reject
  <2>1. call + 1 \in Calls /\ pc = "idle" /\ pc' = "idle"
    BY <1>0, <1>1, FetchAssumption DEF Reject, Return, TypeOK, Calls
  <2>2. verdict' = [verdict EXCEPT ![call + 1] = "Rejected"]
    BY <1>0, <1>1, <2>1 DEF Reject, Return, verdict, TypeOK
  <2>3. UNCHANGED <<busy, answered, noise, expired>>
    BY <1>1, <2>1 DEF Reject, busy, answered, noise, expired, Waiting
  <2>4. Promise!Reject
    BY <1>1, <2>1, <2>2, <2>3 DEF Promise!Reject, Reject, busy
  <2>5. QED
    BY <2>4 DEF Promise!Next
<1>2. CASE Mark
  <2>1. call + 1 \in Calls /\ pc = "idle" /\ pc' = "marked" /\ call' = call + 1
    BY <1>0, <1>2, FetchAssumption DEF Mark, TypeOK, Calls
  <2>2. outer'[call + 1] = ErrorCount(errors) /\ errors' = errors
    BY <1>0, <1>2, <2>1 DEF Mark, TypeOK
  <2>3. ~noise' /\ ~expired' /\ busy' /\ ~busy
    BY <1>0, <2>1, <2>2 DEF noise, expired, busy, Waiting
  <2>4. UNCHANGED <<answered, verdict>>
    BY <1>2 DEF Mark, answered, verdict
  <2>5. Promise!Start
    BY <1>2, <2>3, <2>4 DEF Promise!Start, Mark, noise, expired, busy
  <2>6. QED
    BY <2>5 DEF Promise!Next
<1>3. CASE Arm
  BY <1>3, <1>a DEF Arm, busy, answered, noise, expired, verdict, Waiting
<1>4. CASE Dispatch
  BY <1>4, <1>a DEF Dispatch, busy, answered, noise, expired, verdict, Waiting
<1>5. CASE TakeToken
  <2>1. CASE Return(call, "NoToken", 0, 0)
    <3>1. Promise!Return("NoToken")
      BY <1>0, <1>5, <2>1, PromiseReturn
         DEF TakeToken, Verdicts, Promise!Allowed
    <3>2. QED
      BY <1>0, <3>1 DEF Promise!Next, Verdicts
  <2>2. CASE pc' = "check" /\ UNCHANGED outcome
    <3>1. UNCHANGED <<call, busy, answered, noise, verdict>> /\ busy
      BY <1>5, <2>2 DEF TakeToken, busy, answered, noise, verdict
    <3>2. CASE expired'
      BY <3>1, <3>2 DEF Promise!Expire, Promise!Next, expired
    <3>3. CASE ~expired'
      <4>1. ~expired
        BY <1>5 DEF TakeToken, expired, Waiting
      <4>2. QED
        BY <1>a, <3>1, <3>3, <4>1 DEF expired
    <3>4. QED
      BY <3>2, <3>3
  <2>3. QED
    BY <1>5, <2>1, <2>2 DEF TakeToken
<1>6. CASE CheckSlot
  BY <1>6, <1>a DEF CheckSlot, busy, answered, noise, expired, verdict, Waiting
<1>7. CASE CheckDeadline
  BY <1>7, <1>a DEF CheckDeadline, busy, answered, noise, expired, verdict, Waiting
<1>8. CASE FinalCheck
  <2>1. PICK v, of, at :
          v \in Verdicts /\ Return(call, v, of, at) /\ Promise!Allowed(v)
    BY <1>8, AllowedVerdict
  <2>2. Promise!Return(v)
    BY <1>0, <1>8, <2>1, PromiseReturn DEF FinalCheck
  <2>3. QED
    BY <1>0, <2>1, <2>2 DEF Promise!Next
<1>9. ASSUME NEW k \in Calls, NEW i \in Fires, FireRead(k, i)
      PROVE  UNCHANGED Promise!vars
  BY <1>9, <1>a DEF FireRead, busy, answered, noise, expired, verdict
<1>10. ASSUME NEW k \in Calls, NEW i \in Fires, FireTake(k, i)
       PROVE  UNCHANGED Promise!vars
  BY <1>10, <1>a DEF FireTake, busy, answered, noise, expired, verdict
<1>11. ASSUME NEW k \in Calls, NEW i \in Fires, FireStore(k, i)
       PROVE  Promise!Answer(k)
  <2>1. fills[k] = 0 /\ slot[k] = NoAnswer /\ k \in sent
    BY <1>11 DEF FireStore, IInv, FillInv, Unfired
  <2>2. answered' = answered \cup {k}
    BY <1>0, <1>11, <2>1 DEF FireStore, StoreInto, answered, TypeOK
  <2>3. k <= call
    BY <1>0, <2>1 DEF CallInv
  <2>4. UNCHANGED <<call, busy, noise, expired, verdict>>
    BY <1>11 DEF FireStore, busy, noise, expired, verdict
  <2>5. QED
    BY <2>2, <2>3, <2>4 DEF Promise!Answer
<1>12. ASSUME NEW c \in Calls \cup {Playback}, ReportError(c)
       PROVE  Promise!Complain \/ UNCHANGED Promise!vars
  <2>1. UNCHANGED <<call, busy, answered, expired, verdict>>
    BY <1>12 DEF ReportError, busy, answered, expired, verdict
  <2>2. CASE ~busy
    <3>1. ~noise /\ ~noise'
      BY <2>1, <2>2 DEF noise
    <3>2. QED
      BY <1>a, <2>1, <3>1 DEF noise
  <2>3. CASE busy
    <3>1. outer[call] <= ErrorCount(errors) /\ outer[call] \in Nat
      BY <1>0, <2>3 DEF IInv, MarkInv, CallInv, TypeOK, busy
    <3>2. ErrorCount(errors') = ErrorCount(errors) + 1
      BY <1>0, <1>12 DEF ReportError, Record, ErrorCount, TypeOK
    <3>3. noise'
      BY <1>0, <1>12, <2>1, <2>3, <3>1, <3>2 DEF ReportError, noise
    <3>4. QED
      BY <2>1, <2>3, <3>3 DEF Promise!Complain, noise
  <2>4. QED
    BY <2>2, <2>3
<1>13. CASE Tick
  <2>1. UNCHANGED <<call, busy, answered, noise, verdict>> /\ busy
    BY <1>13 DEF Tick, busy, answered, noise, verdict, Waiting
  <2>2. ~expired
    BY <1>0, <1>13 DEF Tick, expired, TypeOK
  <2>3. CASE expired'
    BY <2>1, <2>3 DEF Promise!Expire, Promise!Next, expired
  <2>4. CASE ~expired'
    BY <1>a, <2>1, <2>2, <2>4 DEF expired
  <2>5. QED
    BY <2>3, <2>4
<1>14. CASE UNCHANGED vars
  BY <1>14, <1>a DEF vars, busy, answered, noise, expired, verdict
<1>15. QED
  BY <1>0, <1>1, <1>2, <1>3, <1>4, <1>5, <1>6, <1>7, <1>8, <1>9, <1>10, <1>11,
     <1>12, <1>13, <1>14 DEF Next, CallerStep, Promise!Next

(* The handler, slot, mark and deadline implement FetchPromise: the caller *)
(* can reason from it alone.                                               *)
THEOREM FetchKeepsPromise == Spec => KeepsPromise
<1>1. QED
  BY PromiseInit, PromiseNext, Invariance, PTL
  DEF Spec, KeepsPromise, Promise!Spec

-----------------------------------------------------------------------------
(* How long a fetch can last, without any fairness.                        *)

LEMMA ToGoIs ==
  /\ pc = "marked"   => ToGo = Timeout + 6
  /\ pc = "armed"    => ToGo = Timeout + 5
  /\ pc = "fetching" => ToGo = Timeout + 4
  /\ pc = "check"    => ToGo = remaining + 3
  /\ pc = "empty"    => ToGo = IF remaining = 0 THEN 2 ELSE remaining + 3
  /\ pc = "final"    => ToGo = 1
  /\ pc = "idle"     => ToGo = 0
  BY DEF ToGo

LEMMA ToGoIsNext ==
  /\ pc' = "armed"    => ToGo' = Timeout + 5
  /\ pc' = "fetching" => ToGo' = Timeout + 4
  /\ pc' = "check"    => ToGo' = remaining' + 3
  /\ pc' = "empty"    => ToGo' = IF remaining' = 0 THEN 2 ELSE remaining' + 3
  /\ pc' = "final"    => ToGo' = 1
  /\ pc' = "idle"     => ToGo' = 0
  BY DEF ToGo

LEMMA ToGoStays == UNCHANGED <<pc, remaining>> => ToGo' = ToGo
  BY DEF ToGo

LEMMA ToGoIsNat ==
  ASSUME TypeOK PROVE ToGo \in Nat /\ (pc # "idle" <=> ToGo > 0)
  BY ToGoIs, FetchAssumption DEF TypeOK, Phases

LEMMA CallerShortens ==
  ASSUME TypeOK, CallerStep
  PROVE  ToGo' <= ToGo /\ (~TimeLeft => ToGo' < ToGo)
<1>0. Timeout \in Nat /\ remaining \in Nat /\ remaining <= Timeout
  BY FetchAssumption DEF TypeOK
<1>1. CASE Arm
  BY <1>0, <1>1, ToGoIs, ToGoIsNext DEF Arm
<1>2. CASE Dispatch
  BY <1>0, <1>2, ToGoIs, ToGoIsNext DEF Dispatch
<1>3. CASE TakeToken
  <2>1. pc = "fetching" /\ (pc' = "idle" \/ (pc' = "check" /\ remaining' = Timeout))
    BY <1>3 DEF TakeToken, Return
  <2>2. QED
    BY <1>0, <2>1, ToGoIs, ToGoIsNext
<1>4. CASE CheckSlot
  <2>1. pc = "check" /\ pc' \in {"final", "empty"} /\ remaining' = remaining
    BY <1>4 DEF CheckSlot
  <2>2. QED
    BY <1>0, <2>1, ToGoIs, ToGoIsNext DEF TimeLeft, Waiting
<1>5. CASE CheckDeadline
  <2>1. /\ pc = "empty" /\ remaining' = remaining
        /\ pc' = IF remaining = 0 THEN "final" ELSE "check"
    BY <1>5 DEF CheckDeadline
  <2>2. QED
    BY <1>0, <2>1, ToGoIs, ToGoIsNext DEF TimeLeft, Waiting
<1>6. CASE FinalCheck
  <2>1. pc = "final" /\ pc' = "idle"
    BY <1>6 DEF FinalCheck, Decode, Return
  <2>2. QED
    BY <2>1, ToGoIs, ToGoIsNext
<1>7. QED
  BY <1>1, <1>2, <1>3, <1>4, <1>5, <1>6 DEF CallerStep

LEMMA TickShortens ==
  ASSUME TypeOK, Tick PROVE ToGo' < ToGo /\ ToGo' \in Nat
<1>1. /\ pc \in {"check", "empty"} /\ remaining \in Nat /\ remaining > 0
      /\ pc' = pc /\ remaining' = remaining - 1
  BY FetchAssumption DEF Tick, Waiting, TypeOK
<1>2. QED
  BY <1>1, ToGoIs, ToGoIsNext

LEMMA StepShortens ==
  ASSUME TypeOK, Next, pc # "idle" PROVE Shortens
<1>1. ToGo \in Nat
  BY ToGoIsNat
<1>2. CASE CallerStep
  <2>1. ToGo' <= ToGo /\ (~TimeLeft => ToGo' < ToGo)
    BY <1>2, CallerShortens
  <2>2. Tick => ToGo' < ToGo
    BY TickShortens
  <2>3. QED
    BY <2>1, <2>2 DEF Shortens
<1>3. CASE Tick
  <2>1. ToGo' < ToGo /\ ToGo' \in Nat
    BY <1>3, TickShortens
  <2>2. ToGo' <= ToGo
    BY <1>1, <2>1
  <2>3. QED
    BY <2>1, <2>2 DEF Shortens
<1>4. CASE ~CallerStep /\ ~Tick
  <2>1. UNCHANGED <<pc, remaining>>
    BY <1>4 DEF Next, Reject, Mark, FireRead, FireTake, FireStore, ReportError,
       caller
  <2>2. ToGo' = ToGo
    BY <2>1, ToGoStays
  <2>3. QED
    BY <1>1, <1>4, <2>2 DEF Shortens
<1>5. QED
  BY <1>2, <1>3, <1>4

(* The half of FetchReturns that needs no scheduler: nothing prolongs a    *)
(* fetch once it has begun, no late or repeated completion and no error;   *)
(* every tick shortens it, and so does every step of the caller but a turn *)
(* of the loop in pump_until with time left; and when there is nothing     *)
(* left to go the call has returned.  A pump_until that took its deadline  *)
(* anew on a turn, or looked at the slot again past it, would break this.  *)
THEOREM NothingProlongsAFetch ==
  Spec => /\ [](ToGo \in Nat /\ (pc # "idle" <=> ToGo > 0))
          /\ NothingProlongs
<1>1. TypeOK => ToGo \in Nat /\ (pc # "idle" <=> ToGo > 0)
  BY ToGoIsNat
<1>2. TypeOK /\ [Next]_vars => [pc # "idle" => Shortens]_vars
  BY StepShortens
<1>3. QED
  BY <1>1, <1>2, TypeCorrect, PTL DEF Spec, NothingProlongs
=============================================================================
