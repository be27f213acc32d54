---------------------------- MODULE FetchProtocol ----------------------------
(***************************************************************************)
(* The blocking fetches of one open Session (fetch.rs).  A Session is      *)
(* pinned to its thread, so the calls of that thread come one after the    *)
(* other; the six fetch methods differ in the batch they build and the     *)
(* records they decode and share everything modelled here.  Around the     *)
(* caller, the replayer's own threads run the completion handlers of any   *)
(* batch ever dispatched, as late and as often as they like or never, and  *)
(* report errors to the observer.                                          *)
(*                                                                         *)
(* The replayer is external: nothing says that a handler fires, that it    *)
(* fires once, or that it is done when it has fired ("the handler is       *)
(* documented nowhere, so nothing rules out a second call").               *)
(***************************************************************************)
EXTENDS Naturals, Sequences, ErrorObserver

CONSTANTS
  MaxCalls,     (* bound on the fetches of one behaviour                   *)
  Fires,        (* invocations one completion handler may see: names       *)
  MaxErrors,    (* bound on the errors the replayer reports                *)
  Timeout       (* a call's timeout, in ticks of the clock                 *)

ASSUME FetchAssumption ==
  /\ MaxCalls \in Nat
  /\ MaxErrors \in Nat
  /\ Timeout \in Nat

Calls == 1..MaxCalls

VARIABLES
  (* the calling thread *)
  pc,           (* where it is, see Phases                                 *)
  call,         (* its latest call, 0 before the first                     *)
  outer,        (* [Calls -> the mark taken by the fetch method]           *)
  remaining,    (* ticks until the deadline of the running call            *)
  result,       (* what pump_until returned to it                          *)
  outcome,      (* [Calls -> what each call returned]                      *)
  (* shared between the caller and the replayer's threads *)
  inner,        (* [Calls -> the mark captured by the completion block]    *)
  handler,      (* [Calls -> whether the block still holds its handler]    *)
  slot,         (* [Calls -> the Outcome of that call]                     *)
  errors,       (* the observer's list: the activity behind each error     *)
  (* the replayer *)
  sent,         (* the calls whose batch it has been given                 *)
  fire,         (* [Calls -> [Fires -> one invocation of the block]]       *)
  (* history, read by properties only *)
  fills,        (* [Calls -> times the slot went from empty to full]       *)
  seen          (* [Calls -> errors recorded when the call returned]       *)

caller   == <<pc, call, outer, remaining, result, outcome>>
shared   == <<inner, handler, slot, errors>>
replayer == <<sent, fire>>
history  == <<fills, seen>>
vars     == <<caller, shared, replayer, history>>

(* idle       between two calls                                            *)
(* marked     the fetch method has taken its mark                          *)
(* armed      the block is set as the batch's completion handler           *)
(* fetching   inside -fetch:, which has the batch                          *)
(* check      -fetch: returned a token; pump_until is about to look at     *)
(*            the slot                                                     *)
(* empty      it found the slot empty                                      *)
(* final      it returned; the observer is still to be asked               *)
Phases  == {"idle", "marked", "armed", "fetching", "check", "empty",
            "final"}
Waiting == {"check", "empty"}

(* The session's load and its playback report to the same observer; they   *)
(* are nobody's fetch.                                                     *)
Playback == 0

(* What a completion produces: a reply, a hard failure (NoResponse, NoData,*)
(* an error in the response, an envelope that does not parse), or an       *)
(* observed error.  `of` is the call whose batch was answered, `at` the    *)
(* error's position.                                                       *)
NoAnswer == [kind |-> "empty", of |-> 0, at |-> 0]
Timedout == [kind |-> "timeout", of |-> 0, at |-> 0]
Answers  == [kind : {"empty", "reply", "hard", "observed", "timeout"},
             of : 0..MaxCalls, at : Nat]

Unfired     == [pc |-> "unfired", ans |-> NoAnswer]
Finished    == [pc |-> "done", ans |-> NoAnswer]
Invocations == [pc : {"unfired", "checked", "took", "done"}, ans : Answers]

Verdicts == {"none", "Ok", "Parse", "Hard", "Timeout", "Replayer", "NoToken",
             "Rejected"}
NoVerdict == [kind |-> "none", of |-> 0, at |-> 0]
Outcomes == [kind : Verdicts, of : 0..MaxCalls, at : Nat]

TypeOK ==
  /\ pc \in Phases
  /\ call \in 0..MaxCalls
  /\ outer \in [Calls -> Nat]
  /\ remaining \in 0..Timeout
  /\ result \in Answers
  /\ outcome \in [Calls -> Outcomes]
  /\ inner \in [Calls -> Nat]
  /\ handler \in [Calls -> BOOLEAN]
  /\ slot \in [Calls -> Answers]
  /\ errors \in Seq(0..MaxCalls)
  /\ sent \in SUBSET Calls
  /\ fire \in [Calls -> [Fires -> Invocations]]
  /\ fills \in [Calls -> Nat]
  /\ seen \in [Calls -> Nat]

(* The session has just been opened: Session::open found no error. *)
Init ==
  /\ pc = "idle"
  /\ call = 0
  /\ outer = [k \in Calls |-> 0]
  /\ remaining = 0
  /\ result = NoAnswer
  /\ outcome = [k \in Calls |-> NoVerdict]
  /\ inner = [k \in Calls |-> 0]
  /\ handler = [k \in Calls |-> FALSE]
  /\ slot = [k \in Calls |-> NoAnswer]
  /\ errors = <<>>
  /\ sent = {}
  /\ fire = [k \in Calls |-> [i \in Fires |-> Unfired]]
  /\ fills = [k \in Calls |-> 0]
  /\ seen = [k \in Calls |-> 0]

-----------------------------------------------------------------------------
(* The calling thread. *)

Return(k, kind, of, at) ==
  /\ pc' = "idle"
  /\ outcome' = [outcome EXCEPT ![k] = [kind |-> kind, of |-> of, at |-> at]]
  /\ result' = NoAnswer
  /\ remaining' = 0
  /\ seen' = [seen EXCEPT ![k] = ErrorCount(errors)]

(* An empty batch (EmptyBatch), or a request object that cannot be built   *)
(* (Setup): nothing was marked, armed or sent.                             *)
Reject ==
  /\ pc = "idle"
  /\ call < MaxCalls
  /\ call' = call + 1
  /\ Return(call + 1, "Rejected", 0, 0)
  /\ UNCHANGED <<outer, shared, replayer, fills>>

(* The batch is built; the observer is marked; the outcome is new. *)
Mark ==
  /\ pc = "idle"
  /\ call < MaxCalls
  /\ call' = call + 1
  /\ pc' = "marked"
  /\ outer' = [outer EXCEPT ![call + 1] = ErrorCount(errors)]
  /\ slot' = [slot EXCEPT ![call + 1] = NoAnswer]
  /\ UNCHANGED <<remaining, result, outcome, inner, handler, errors, replayer,
                 history>>

(* fetch_with_handler marks again, for the block, and sets the block. *)
Arm ==
  /\ pc = "marked"
  /\ pc' = "armed"
  /\ inner' = [inner EXCEPT ![call] = ErrorCount(errors)]
  /\ handler' = [handler EXCEPT ![call] = TRUE]
  /\ UNCHANGED <<call, outer, remaining, result, outcome, slot, errors,
                 replayer, history>>

(* -fetch: is sent.  From here on the replayer has the batch, and may      *)
(* complain of it or answer it before -fetch: returns.  The batch and its  *)
(* block are leaked, so that stays so whatever becomes of the call.        *)
Dispatch ==
  /\ pc = "armed"
  /\ pc' = "fetching"
  /\ sent' = sent \cup {call}
  /\ UNCHANGED <<call, outer, remaining, result, outcome, shared, fire,
                 history>>

TakeTokenRemarking ==
  /\ pc = "fetching"
  /\ pc' = "check"
  /\ remaining' = Timeout
  /\ outer' = [outer EXCEPT ![call] = ErrorCount(errors)]
  /\ UNCHANGED <<call, result, outcome, shared, replayer, history>>

(* -fetch: returns.  With a token, pump_until fixes its deadline.  Without *)
(* one, fetch_with_handler answers NoToken, which the fetch method returns *)
(* at once.                                                                *)
TakeToken ==
  /\ pc = "fetching"
  /\ \/ /\ pc' = "check"
        /\ remaining' = Timeout
        /\ UNCHANGED <<result, outcome, seen>>
     \/ Return(call, "NoToken", 0, 0)
  /\ UNCHANGED <<call, outer, shared, replayer, fills>>

(* Under the slot's lock: take what is there. *)
CheckSlot ==
  /\ pc = "check"
  /\ IF slot[call] # NoAnswer
       THEN /\ result' = slot[call]
            /\ slot' = [slot EXCEPT ![call] = NoAnswer]
            /\ pc' = "final"
       ELSE /\ pc' = "empty"
            /\ UNCHANGED <<result, slot>>
  /\ UNCHANGED <<call, outer, remaining, outcome, inner, handler, errors,
                 replayer, history>>

CheckDeadlineNever ==
  /\ pc = "empty"
  /\ pc' = "check"
  /\ UNCHANGED <<call, outer, remaining, result, outcome, shared, replayer,
                 history>>

CheckDeadlineRenewing ==
  /\ pc = "empty"
  /\ pc' = "check"
  /\ remaining' = Timeout
  /\ UNCHANGED <<call, outer, result, outcome, shared, replayer, history>>

CheckDeadlineEarly ==
  /\ pc = "empty"
  /\ IF remaining <= 1
       THEN pc' = "final" /\ result' = Timedout
       ELSE pc' = "check" /\ UNCHANGED result
  /\ UNCHANGED <<call, outer, remaining, outcome, shared, replayer, history>>

(* The lock is released before the clock is read.  With time left the      *)
(* thread turns its run loop once, a bounded wait, and looks again.        *)
CheckDeadline ==
  /\ pc = "empty"
  /\ IF remaining = 0
       THEN pc' = "final" /\ result' = Timedout
       ELSE pc' = "check" /\ UNCHANGED result
  /\ UNCHANGED <<call, outer, remaining, outcome, shared, replayer, history>>

(* `Reply::decode(result?)`: an error is passed on; a reply decodes or it  *)
(* does not, which depends on its bytes alone.                             *)
Decode ==
  \/ /\ result.kind = "reply"
     /\ \E kind \in {"Ok", "Parse"} : Return(call, kind, result.of, 0)
  \/ result.kind = "hard" /\ Return(call, "Hard", 0, 0)
  \/ result.kind = "observed" /\ Return(call, "Replayer", 0, result.at)
  \/ result.kind = "timeout" /\ Return(call, "Timeout", 0, 0)

FinalCheckFromStart ==
  /\ pc = "final"
  /\ LET at == FirstError(errors)
     IN  IF at # NoError THEN Return(call, "Replayer", 0, at) ELSE Decode
  /\ UNCHANGED <<call, outer, shared, replayer, fills>>

FinalCheckAfterDecode ==
  /\ pc = "final"
  /\ LET at == FirstErrorSince(errors, outer[call])
     IN  IF result.kind = "reply" /\ at # NoError
           THEN Return(call, "Replayer", 0, at)
           ELSE Decode
  /\ UNCHANGED <<call, outer, shared, replayer, fills>>

(* The observer has the last word, over replies, failures and timeouts. *)
FinalCheck ==
  /\ pc = "final"
  /\ LET at == FirstErrorSince(errors, outer[call])
     IN  IF at # NoError THEN Return(call, "Replayer", 0, at) ELSE Decode
  /\ UNCHANGED <<call, outer, shared, replayer, fills>>

-----------------------------------------------------------------------------
(* The replayer: its completion threads, its errors, and time. *)

(* An invocation of call k's block reads the response it was handed, which *)
(* is the response to k's batch and touches nothing shared, then asks the  *)
(* observer: a clean reply is not a success if it heard something since    *)
(* the block's mark, a hard failure stays what it is.                      *)
FireRead(k, i) ==
  /\ k \in sent
  /\ fire[k][i] = Unfired
  /\ \E kind \in {"reply", "hard"} :
       LET at == FirstErrorSince(errors, inner[k])
       IN  fire' = [fire EXCEPT ![k][i] =
             [pc  |-> "checked",
              ans |-> IF kind = "reply" /\ at # NoError
                        THEN [kind |-> "observed", of |-> k, at |-> at]
                        ELSE [kind |-> kind, of |-> k, at |-> 0]]]
  /\ UNCHANGED <<caller, shared, sent, history>>

FireTakeCloning(k, i) ==
  /\ fire[k][i].pc = "checked"
  /\ fire' = [fire EXCEPT ![k][i] = IF handler[k]
                                      THEN [@ EXCEPT !.pc = "took"]
                                      ELSE Finished]
  /\ UNCHANGED <<caller, shared, sent, history>>

(* The block takes its FnOnce handler out of the mutex; a later invocation *)
(* finds none and ends.                                                    *)
FireTake(k, i) ==
  /\ fire[k][i].pc = "checked"
  /\ fire' = [fire EXCEPT ![k][i] = IF handler[k]
                                      THEN [@ EXCEPT !.pc = "took"]
                                      ELSE Finished]
  /\ handler' = [handler EXCEPT ![k] = FALSE]
  /\ UNCHANGED <<caller, inner, slot, errors, sent, history>>

(* Storing into slot c: only into an empty one. *)
StoreInto(c, ans) ==
  /\ slot' = IF slot[c] = NoAnswer THEN [slot EXCEPT ![c] = ans] ELSE slot
  /\ fills' = IF slot[c] = NoAnswer THEN [fills EXCEPT ![c] = @ + 1] ELSE fills

FireStoreCurrent(k, i) ==
  /\ fire[k][i].pc = "took"
  /\ fire' = [fire EXCEPT ![k][i] = Finished]
  /\ StoreInto(call, fire[k][i].ans)
  /\ UNCHANGED <<caller, inner, handler, errors, sent, seen>>

(* store_into: the handler of call k holds the slot of call k. *)
FireStore(k, i) ==
  /\ fire[k][i].pc = "took"
  /\ fire' = [fire EXCEPT ![k][i] = Finished]
  /\ StoreInto(k, fire[k][i].ans)
  /\ UNCHANGED <<caller, inner, handler, errors, sent, seen>>

(* Something the replayer was asked to do goes wrong: a dispatched fetch,  *)
(* however long ago, or the load and playback of the session.              *)
ReportError(c) ==
  /\ ErrorCount(errors) < MaxErrors
  /\ c \in sent \cup {Playback}
  /\ errors' = Record(errors, c)
  /\ UNCHANGED <<caller, inner, handler, slot, replayer, history>>

(* Time passes for a thread that waits. *)
Tick ==
  /\ pc \in Waiting
  /\ remaining > 0
  /\ remaining' = remaining - 1
  /\ UNCHANGED <<pc, call, outer, result, outcome, shared, replayer, history>>

-----------------------------------------------------------------------------
CallerStep ==
  \/ Arm
  \/ Dispatch
  \/ TakeToken
  \/ CheckSlot
  \/ CheckDeadline
  \/ FinalCheck

Next ==
  \/ Reject
  \/ Mark
  \/ CallerStep
  \/ \E k \in Calls, i \in Fires :
       \/ FireRead(k, i)
       \/ FireTake(k, i)
       \/ FireStore(k, i)
  \/ \E c \in Calls \cup {Playback} : ReportError(c)
  \/ Tick

Spec == Init /\ [][Next]_vars

(* A thread inside a fetch keeps running and time passes.  Nothing is      *)
(* assumed of the replayer: no handler need ever fire.                     *)
FairSpec == Spec /\ WF_vars(CallerStep) /\ WF_vars(Tick)

-----------------------------------------------------------------------------
(* Properties. *)

Returned(k) == outcome[k].kind # "none"

(* A fetch that succeeds returns the reply to its own batch, whatever      *)
(* completions of earlier, timed-out fetches arrive while it waits.        *)
OwnReply == \A k \in Calls : outcome[k].kind = "Ok" => outcome[k].of = k

(* A reply, a hard failure or a timeout is never returned over an error    *)
(* that the same fetch caused and the observer already held: a reply that  *)
(* decodes cleanly while the replayer was complaining is not a success.    *)
OwnErrorsSurface ==
  \A k \in Calls :
    outcome[k].kind \in {"Ok", "Parse", "Hard", "Timeout"} =>
      \A j \in 1..seen[k] : errors[j] # k

(* No fetch is blamed for an error that was in the list before it began:   *)
(* the observer never forgets, so only the mark stands between an old      *)
(* error and every later fetch.  The previous call's return bounds what    *)
(* was there when this one began.                                          *)
NoStaleBlame ==
  \A k \in Calls :
    outcome[k].kind = "Replayer" =>
      \A j \in 1..(k - 1) : seen[j] < outcome[k].at

(* First fire wins, for good: even after the waiter has emptied the slot,  *)
(* no second invocation of the block fills it again.                       *)
FilledOnce == \A k \in Calls : fills[k] <= 1

(* An error the completion block saw is always one the fetch method sees   *)
(* too: the method's mark is never later than the block's.                 *)
BlockErrorsAreSeen ==
  \A k \in Calls, i \in Fires :
    fire[k][i].ans.kind = "observed" => outer[k] < fire[k][i].ans.at

(* A bound on what a call has still to go through: its phases, and the     *)
(* ticks until its deadline.  A turn of the waiting loop is not counted:   *)
(* the clock ends those.                                                   *)
ToGo ==
  CASE pc = "marked"   -> Timeout + 6
    [] pc = "armed"    -> Timeout + 5
    [] pc = "fetching" -> Timeout + 4
    [] pc = "check"    -> remaining + 3
    [] pc = "empty"    -> IF remaining = 0 THEN 2 ELSE remaining + 3
    [] pc = "final"    -> 1
    [] OTHER           -> 0

TimeLeft == pc \in Waiting /\ remaining > 0

(* What one step takes off: nothing is ever added. *)
Shortens ==
  /\ ToGo' <= ToGo
  /\ Tick => ToGo' < ToGo
  /\ CallerStep /\ ~TimeLeft => ToGo' < ToGo

(* The deadline is taken once, when the waiting begins: nothing prolongs a *)
(* fetch, no late or repeated completion, no error and no turn of the loop *)
(* in pump_until, and every step of the caller but such a turn with time   *)
(* left brings it nearer its return.  A deadline computed anew on a turn   *)
(* waits for ever for a batch that is never answered.                      *)
NothingProlongs == [][pc # "idle" => Shortens]_vars

(* Every fetch returns, even if its completion handler never fires.        *)
FetchReturns == (pc # "idle") ~> (pc = "idle")

(* What fetch.rs says of attribution: what the observer reports from the   *)
(* mark on is this fetch's.  Here, only that it is not another fetch's.    *)
BlameIsOwn ==
  \A k \in Calls :
    outcome[k].kind = "Replayer" => errors[outcome[k].at] \in {k, Playback}

(* What fetch.rs says of the observer check: it is unconditional, so no    *)
(* failure is returned over an error reported for the fetch.               *)
CheckIsUnconditional ==
  \A k \in Calls :
    outcome[k].kind = "NoToken" => \A j \in 1..seen[k] : errors[j] # k

-----------------------------------------------------------------------------
(* The promise the protocol keeps. *)

(* FetchPromise's view of the state, under FetchPromise's names. *)
busy     == pc # "idle"
answered == {k \in Calls : fills[k] > 0}
noise    == busy /\ outer[call] < ErrorCount(errors)
expired  == pc \in (Waiting \cup {"final"}) /\ remaining = 0
verdict  == [k \in Calls |-> outcome[k].kind]

Promise == INSTANCE FetchPromise WITH
  MaxCalls <- MaxCalls, call <- call, busy <- busy, answered <- answered,
  noise <- noise, expired <- expired, verdict <- verdict

(* The handler, slot, mark and deadline together implement FetchPromise.   *)
KeepsPromise == Promise!Spec
=============================================================================
