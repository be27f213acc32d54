----------------------------- MODULE ProbeSession -----------------------------
(***************************************************************************)
(* The probes' own Session (probes/src/session.rs): one thread that opens  *)
(* a session, plays, and fetches through three methods, each with its own  *)
(* copy of one protocol.  It is a second implementation of what the        *)
(* library's Session does, and differs from it: a fetch marks the observer *)
(* once, the completion block does not ask it, nothing but the slot itself *)
(* stops a second invocation, and with PROBE_TOLERATE_REPLAYER_ERRORS=1    *)
(* what the replayer complained of is printed and passed over.  The        *)
(* variable is read at five places, each of them its own operator here.    *)
(***************************************************************************)
EXTENDS Naturals, ErrorObserver

CONSTANTS
  MaxAttempts,  (* bound on the calls of Session::open        *)
  MaxCalls,     (* bound on the fetches                       *)
  MaxErrors,    (* bound on the errors the replayer reports   *)
  Timeout       (* of a fetch, in ticks of the clock          *)

ASSUME ProbeAssumption ==
  /\ MaxAttempts \in Nat
  /\ MaxCalls \in Nat
  /\ MaxErrors \in Nat
  /\ Timeout \in Nat

VARIABLES
  env,          (* PROBE_TOLERATE_REPLAYER_ERRORS: "unset", "0" or "1"     *)
  pc,           (* where the thread is, see below                          *)
  attempts,     (* calls of Session::open                                  *)
  bootstrapped, (* the process-wide guard                                  *)
  loaded,       (* what load: answered                                     *)
  loadError,    (* whether it handed back an error object                  *)
  session,      (* open has returned one                                   *)
  errors,       (* the observer's list                                     *)
  call, by,     (* the running fetch and the method it runs in             *)
  mark, slot, remaining, result,         (* its locals                     *)
  verdict,      (* [Calls -> what each fetch returned]                     *)
  sent,         (* the calls whose batch the replayer has                  *)
  answered      (* the calls it has answered (history)                     *)

opening  == <<attempts, bootstrapped, loaded, loadError, session>>
fetching == <<call, by, mark, slot, remaining, result, verdict, sent, answered>>
vars     == <<env, pc, opening, errors, fetching>>

Calls   == 1..MaxCalls
Methods == {"fetch_textures", "fetch_raw", "fetch_wireframe"}

(* The bootstrap, in the order of `open`; then the phases of a fetch.      *)
Bootstrap == {"apr", "pool", "client", "observer", "service", "load", "verify"}
Fetch     == {"marked", "fetching", "check", "empty", "final"}

Init ==
  /\ env \in {"unset", "0", "1"}
  /\ pc = "idle"
  /\ attempts = 0
  /\ bootstrapped = FALSE
  /\ loaded = FALSE
  /\ loadError = FALSE
  /\ session = FALSE
  /\ errors = <<>>
  /\ call = 0
  /\ by = "fetch_textures"
  /\ mark = 0
  /\ slot = [k \in Calls |-> "empty"]
  /\ remaining = 0
  /\ result = "empty"
  /\ verdict = [k \in Calls |-> "none"]
  /\ sent = {}
  /\ answered = {}

OpenToleratesWhenSet      == env # "unset"
WireframeToleratesWhenSet == env # "unset"

(* The five reads of the variable: load_bundle's, open's and the fetches'. *)
LoadTolerates      == env = "1"
OpenTolerates      == env = "1"
TexturesTolerates  == env = "1"
RawTolerates       == env = "1"
WireframeTolerates == env = "1"

Goto(p) == pc' = p /\ UNCHANGED <<env, opening, errors, fetching>>

-----------------------------------------------------------------------------
(* Session::open. *)

(* The bundle's shape, its path and the unlock variable are checked before *)
(* the guard; a call that fails them leaves the process as it was.         *)
Refuse ==
  /\ pc = "idle"
  /\ attempts < MaxAttempts
  /\ attempts' = attempts + 1
  /\ UNCHANGED <<env, pc, bootstrapped, loaded, loadError, session, errors,
                 fetching>>

(* swap(true): the first call past the checks goes on, every other is told *)
(* AlreadyOpen.                                                            *)
Claim ==
  /\ pc = "idle"
  /\ attempts < MaxAttempts
  /\ attempts' = attempts + 1
  /\ bootstrapped' = TRUE
  /\ pc' = IF bootstrapped THEN "idle" ELSE "apr"
  /\ UNCHANGED <<env, loaded, loadError, session, errors, fetching>>

(* apr_initialize and apr_pool_create_ex answer a code; the service may be *)
(* missing or nil.  Each failure ends the call and leaves the guard burnt. *)
MayFail(here, next) == pc = here /\ (Goto(next) \/ Goto("idle"))

InitApr      == MayFail("apr", "pool")
InitPool     == MayFail("pool", "client")
InitClient   == pc = "client" /\ Goto("observer")
InitObserver == pc = "observer" /\ Goto("service")
InitService  == MayFail("service", "load")

(* load_bundle: YES or NO, with an error object or without one; an error   *)
(* ends the call unless it is tolerated, and then the answer stands.  load *)
(* crashes on a bundle that is no longer what was checked.                 *)
LoadBundle ==
  /\ pc = "load"
  /\ \/ \E ok, failed \in BOOLEAN :
          /\ loaded' = ok
          /\ loadError' = failed
          /\ pc' = IF failed /\ ~LoadTolerates THEN "idle" ELSE "verify"
     \/ pc' = "dead" /\ UNCHANGED <<loaded, loadError>>
  /\ UNCHANGED <<env, attempts, bootstrapped, session, errors, fetching>>

(* The observer is the authority on the load, unless tolerated; then NO is *)
(* a failure of its own.                                                   *)
Verify ==
  /\ pc = "verify"
  /\ session' = /\ FirstError(errors) = NoError \/ OpenTolerates
                /\ loaded
  /\ pc' = "idle"
  /\ UNCHANGED <<env, attempts, bootstrapped, loaded, loadError, errors,
                 fetching>>

(* The Session goes out of scope: nothing is released, nothing rearmed.    *)
DropSession ==
  /\ pc = "idle" /\ session
  /\ session' = FALSE
  /\ UNCHANGED <<env, pc, attempts, bootstrapped, loaded, loadError, errors,
                 fetching>>

-----------------------------------------------------------------------------
(* The fetches. *)

Return(v) ==
  /\ pc' = "idle"
  /\ verdict' = [verdict EXCEPT ![call] = v]
  /\ remaining' = 0
  /\ result' = "empty"

(* No batch: a class or an object is missing.                              *)
Reject ==
  /\ pc = "idle" /\ session
  /\ call < MaxCalls
  /\ call' = call + 1
  /\ verdict' = [verdict EXCEPT ![call + 1] = "Rejected"]
  /\ UNCHANGED <<env, pc, opening, errors, by, mark, slot, remaining, result,
                 sent, answered>>

(* The batch is built, and then the observer is marked, once.              *)
Mark(method) ==
  /\ pc = "idle" /\ session
  /\ call < MaxCalls
  /\ call' = call + 1
  /\ by' = method
  /\ mark' = ErrorCount(errors)
  /\ pc' = "marked"
  /\ UNCHANGED <<env, opening, errors, slot, remaining, result, verdict, sent,
                 answered>>

(* The three methods begin each in its own code.  An empty list is         *)
(* rejected by two of them and sent by fetch_wireframe; fetch_raw rejects  *)
(* a class that is not keyed by streamRef, too.                            *)
BeginTextures  == Reject \/ Mark("fetch_textures")
BeginRaw       == Reject \/ Mark("fetch_raw")
BeginWireframe == Reject \/ Mark("fetch_wireframe")

(* -setCompletionHandler: and -fetch:. *)
Dispatch ==
  /\ pc = "marked"
  /\ pc' = "fetching"
  /\ sent' = sent \cup {call}
  /\ UNCHANGED <<env, opening, errors, call, by, mark, slot, remaining, result,
                 verdict, answered>>

(* No token: `?` leaves before the wait and before the observer is asked.  *)
TakeToken ==
  /\ pc = "fetching"
  /\ \/ /\ pc' = "check"
        /\ remaining' = Timeout
        /\ UNCHANGED <<result, verdict>>
     \/ Return("NoToken")
  /\ UNCHANGED <<env, opening, errors, call, by, mark, slot, sent, answered>>

(* wait_for: take what is in the slot, under its lock ... *)
CheckSlot ==
  /\ pc = "check"
  /\ IF slot[call] # "empty"
       THEN /\ result' = slot[call]
            /\ slot' = [slot EXCEPT ![call] = "empty"]
            /\ pc' = "final"
       ELSE pc' = "empty" /\ UNCHANGED <<result, slot>>
  /\ UNCHANGED <<env, opening, errors, call, by, mark, remaining, verdict, sent,
                 answered>>

(* ... then look at the clock, and pump the run loop for one turn.         *)
CheckDeadline ==
  /\ pc = "empty"
  /\ IF remaining = 0
       THEN pc' = "final" /\ result' = "Timeout"
       ELSE pc' = "check" /\ UNCHANGED result
  /\ UNCHANGED <<env, opening, errors, call, by, mark, slot, remaining, verdict,
                 sent, answered>>

(* The batch and the token are leaked; an error since the mark replaces    *)
(* whatever came back, unless it is tolerated.                             *)
FinalCheck(method, tolerates) ==
  /\ pc = "final" /\ by = method
  /\ Return(IF FirstErrorSince(errors, mark) # NoError /\ ~tolerates
              THEN "Replayer" ELSE result)
  /\ UNCHANGED <<env, opening, errors, call, by, mark, slot, sent, answered>>

(* Again in its own code, and by its own read of the variable.             *)
FinishTextures  == FinalCheck("fetch_textures", TexturesTolerates)
FinishRaw       == FinalCheck("fetch_raw", RawTolerates)
FinishWireframe == FinalCheck("fetch_wireframe", WireframeTolerates)

-----------------------------------------------------------------------------
(* The replayer and the clock. *)

(* The block of call k runs, as late and as often as the replayer likes:   *)
(* read_response, then a store into an empty slot.  (The bytes are for     *)
(* reply.rs to parse: any reply is Ok here.)                               *)
Fire(k) ==
  /\ k \in sent
  /\ \E kind \in {"Ok", "Hard"} :
       slot' = IF slot[k] = "empty" THEN [slot EXCEPT ![k] = kind] ELSE slot
  /\ answered' = answered \cup {k}
  /\ UNCHANGED <<env, pc, opening, errors, call, by, mark, remaining,
                 result, verdict, sent>>

(* From its registration the observer hears of whatever goes wrong: a      *)
(* load, play_all, play_to or rewind, a fetch.                             *)
ReportError ==
  /\ bootstrapped
  /\ pc \notin {"apr", "pool", "client", "observer", "dead"}
  /\ ErrorCount(errors) < MaxErrors
  /\ errors' = Record(errors, call)
  /\ UNCHANGED <<env, pc, opening, fetching>>

Tick ==
  /\ pc \in {"check", "empty"}
  /\ remaining > 0
  /\ remaining' = remaining - 1
  /\ UNCHANGED <<env, pc, opening, errors, call, by, mark, slot, result,
                 verdict, sent, answered>>

Next ==
  \/ Refuse \/ Claim
  \/ InitApr \/ InitPool \/ InitClient \/ InitObserver \/ InitService
  \/ LoadBundle \/ Verify \/ DropSession
  \/ BeginTextures \/ BeginRaw \/ BeginWireframe
  \/ Dispatch \/ TakeToken \/ CheckSlot \/ CheckDeadline
  \/ FinishTextures \/ FinishRaw \/ FinishWireframe
  \/ \E k \in Calls : Fire(k)
  \/ ReportError
  \/ Tick

Spec == Init /\ [][Next]_vars

-----------------------------------------------------------------------------
(* A session is handed out only after a load that answered YES and, unless *)
(* the variable is 1, of which neither load: nor the observer complained:  *)
(* the two channels pass over an error under the same setting (open).      *)
OpensClean ==
  [][session' /\ ~session =>
       /\ loaded
       /\ env = "1" \/ (~loadError /\ FirstError(errors) = NoError)]_vars

(* The two promises of the library's Session, in the probe's terms.        *)

phase ==
  CASE ~bootstrapped   -> "fresh"
    [] pc \in Bootstrap -> "bootstrapping"
    [] pc = "dead"      -> "dead"
    [] session          -> "open"
    [] OTHER            -> "spent"

busy    == pc \in Fetch
noise   == busy /\ env # "1" /\ mark < ErrorCount(errors)
expired == pc \in {"check", "empty", "final"} /\ remaining = 0

Guard == INSTANCE ProcessGuard WITH phase <- phase

Promise == INSTANCE FetchPromise WITH
  MaxCalls <- MaxCalls, call <- call, busy <- busy, answered <- answered,
  noise <- noise, expired <- expired, verdict <- verdict

(* The probe keeps both promises the library keeps: its process is         *)
(* bootstrapped once, and each of its fetches, by whichever method,        *)
(* returns what it may, its own reply and no stale one.  With the variable *)
(* set to 1, and with no other value, the promise is the one of a replayer *)
(* that never complains: a complaint is never the verdict, and stops none. *)
ImplementsPromises == Guard!Spec /\ Promise!Spec
=============================================================================
