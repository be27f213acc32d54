----------------------------- MODULE SessionOpen -----------------------------
(***************************************************************************)
(* Session::open, called by any number of threads of one process, any      *)
(* number of times, against bundles that other programs may change and an  *)
(* environment the process may change.  The pc of a thread says how far    *)
(* its current call has come:                                              *)
(*                                                                         *)
(*   idle       not in open (it may hold a Session)                        *)
(*   shaped     check_bundle_shape and the UTF-8 conversion passed         *)
(*   unlocked   unlock_env_ok passed                                       *)
(*   claimed    its swap of BOOTSTRAPPED answered false                    *)
(*   pooled     APR initialised and a pool created                         *)
(*   inited     GTMTLReplayController_init and _Client_init returned       *)
(*   observed   the error observer is registered                           *)
(*   serviced   the service object exists                                  *)
(*   loading    inside -load:error:                                        *)
(*   loaded     -load:error: returned without an NSError                   *)
(***************************************************************************)
EXTENDS Naturals, Sequences, ErrorObserver

CONSTANTS
  Threads,      (* threads of the process                                  *)
  Bundles,      (* bundle paths an attempt may name                        *)
  NonUtf8,      (* the paths among them that are not valid UTF-8           *)
  MaxErrors     (* bound on errors the replayer reports in one behaviour   *)

ASSUME OpenAssumption ==
  /\ NonUtf8 \subseteq Bundles
  /\ MaxErrors \in Nat

VARIABLES
  bootstrapped, (* the static BOOTSTRAPPED                                 *)
  pc,           (* [Threads -> phase of its call]                          *)
  bundle,       (* [Threads -> the path its latest attempt named]          *)
  result,       (* [Threads -> what its latest attempt returned]           *)
  session,      (* [Threads -> whether it holds a Session]                 *)
  reply,        (* what -load:error: returned, YES or NO                   *)
  inits,        (* [Stages -> times that part of the framework was set up] *)
  errors,       (* the observer's list                                     *)
  crashed,      (* load: brought the process down                          *)
  disk,         (* [Bundles -> whether the path has the shape of a capture]*)
  unlocked,     (* whether the unlock variable is set to "0"               *)
  (* history, read by properties only:                                     *)
  disturbed,    (* [Threads -> bundle changed since its attempt checked it]*)
  complained,   (* the replayer reported an error while load: ran          *)
  everOpened    (* some open has returned a Session                        *)

code    == <<bootstrapped, pc, bundle, result, session, reply, inits, errors>>
history == <<disturbed, complained, everOpened>>
vars    == <<code, crashed, disk, unlocked, history>>

Stages == {"apr", "client", "observer", "service"}

BeforeGuard == {"shaped", "unlocked"}
Bootstrap   == {"claimed", "pooled", "inited", "observed", "serviced",
                "loading", "loaded"}
Phases      == {"idle"} \cup BeforeGuard \cup Bootstrap

Results == {"none", "Ok", "BadBundle", "UnlockEnv", "AlreadyOpen", "Apr",
            "Replayer", "LoadFailed"}

TypeOK ==
  /\ bootstrapped \in BOOLEAN
  /\ pc \in [Threads -> Phases]
  /\ bundle \in [Threads -> Bundles]
  /\ result \in [Threads -> Results]
  /\ session \in [Threads -> BOOLEAN]
  /\ reply \in BOOLEAN
  /\ inits \in [Stages -> Nat]
  /\ errors \in Seq({"error"})
  /\ crashed \in BOOLEAN
  /\ disk \in [Bundles -> BOOLEAN]
  /\ unlocked \in BOOLEAN
  /\ disturbed \in [Threads -> BOOLEAN]
  /\ complained \in BOOLEAN
  /\ everOpened \in BOOLEAN

Init ==
  /\ bootstrapped = FALSE
  /\ pc = [t \in Threads |-> "idle"]
  /\ bundle \in [Threads -> Bundles]
  /\ result = [t \in Threads |-> "none"]
  /\ session = [t \in Threads |-> FALSE]
  /\ reply = FALSE
  /\ inits = [s \in Stages |-> 0]
  /\ errors = <<>>
  /\ crashed = FALSE
  /\ disk \in [Bundles -> BOOLEAN]
  /\ unlocked \in BOOLEAN
  /\ disturbed = [t \in Threads |-> FALSE]
  /\ complained = FALSE
  /\ everOpened = FALSE

-----------------------------------------------------------------------------
(* Steps of a call. *)

At(t, phase) == ~crashed /\ pc[t] = phase

Goto(t, phase) ==
  /\ pc' = [pc EXCEPT ![t] = phase]
  /\ UNCHANGED result

Return(t, r) ==
  /\ pc' = [pc EXCEPT ![t] = "idle"]
  /\ result' = [result EXCEPT ![t] = r]

SetUp(stage) == inits' = [inits EXCEPT ![stage] = @ + 1]

(* check_bundle_shape and the conversion of the path to UTF-8: both answer *)
(* BadBundle, and neither touches anything global.                         *)
CheckShapeUnchecked(t, b) ==
  /\ At(t, "idle")
  /\ bundle' = [bundle EXCEPT ![t] = b]
  /\ IF b \notin NonUtf8 THEN Goto(t, "shaped") ELSE Return(t, "BadBundle")
  /\ disturbed' = [disturbed EXCEPT ![t] = FALSE]
  /\ UNCHANGED <<bootstrapped, session, reply, inits, errors, crashed, disk,
                 unlocked, complained, everOpened>>

CheckShape(t, b) ==
  /\ At(t, "idle")
  /\ bundle' = [bundle EXCEPT ![t] = b]
  /\ IF disk[b] /\ b \notin NonUtf8
       THEN Goto(t, "shaped")
       ELSE Return(t, "BadBundle")
  /\ disturbed' = [disturbed EXCEPT ![t] = FALSE]
  /\ UNCHANGED <<bootstrapped, session, reply, inits, errors, crashed, disk,
                 unlocked, complained, everOpened>>

CheckEnvBurning(t) ==
  /\ At(t, "shaped")
  /\ IF unlocked THEN Goto(t, "unlocked") ELSE Return(t, "UnlockEnv")
  /\ bootstrapped' = (bootstrapped \/ ~unlocked)
  /\ UNCHANGED <<bundle, session, reply, inits, errors, crashed, disk,
                 unlocked, history>>

(* unlock_env_ok reads the environment, before the guard so that a caller  *)
(* who forgot the variable can set it and try again.                       *)
CheckEnv(t) ==
  /\ At(t, "shaped")
  /\ IF unlocked THEN Goto(t, "unlocked") ELSE Return(t, "UnlockEnv")
  /\ UNCHANGED <<bootstrapped, bundle, session, reply, inits, errors, crashed,
                 disk, unlocked, history>>

ClaimGuardLoadOnly(t) ==
  /\ At(t, "unlocked")
  /\ IF bootstrapped THEN Return(t, "AlreadyOpen") ELSE Goto(t, "claimed")
  /\ UNCHANGED <<bootstrapped, bundle, session, reply, inits, errors, crashed,
                 disk, unlocked, history>>

(* BOOTSTRAPPED.swap(true): one atomic read-modify-write. *)
ClaimGuard(t) ==
  /\ At(t, "unlocked")
  /\ IF bootstrapped THEN Return(t, "AlreadyOpen") ELSE Goto(t, "claimed")
  /\ bootstrapped' = TRUE
  /\ UNCHANGED <<bundle, session, reply, inits, errors, crashed, disk,
                 unlocked, history>>

InitAprRearming(t) ==
  /\ At(t, "claimed")
  /\ SetUp("apr")
  /\ \/ Goto(t, "pooled") /\ UNCHANGED bootstrapped
     \/ Return(t, "Apr") /\ bootstrapped' = FALSE
  /\ UNCHANGED <<bundle, session, reply, errors, crashed, disk, unlocked,
                 history>>

InitAprRawCode(t) ==
  /\ At(t, "claimed")
  /\ SetUp("apr")
  /\ Goto(t, "pooled") \/ Return(t, "20014")
  /\ UNCHANGED <<bootstrapped, bundle, session, reply, errors, crashed, disk,
                 unlocked, history>>

(* apr_initialize, then apr_pool_create_ex; either may answer non-zero.    *)
(* The attempt counts as touching APR even when it fails.                  *)
InitApr(t) ==
  /\ At(t, "claimed")
  /\ SetUp("apr")
  /\ Goto(t, "pooled") \/ Return(t, "Apr")
  /\ UNCHANGED <<bootstrapped, bundle, session, reply, errors, crashed, disk,
                 unlocked, history>>

(* GTMTLReplayController_init, whose value is discarded, then              *)
(* GTMTLReplayClient_init: neither reports failure.                        *)
InitClient(t) ==
  /\ At(t, "pooled")
  /\ SetUp("client")
  /\ Goto(t, "inited")
  /\ UNCHANGED <<bootstrapped, bundle, session, reply, errors, crashed, disk,
                 unlocked, history>>

(* GTMTLReplayErrorHandling_initWithObserver, before load:. *)
RegisterObserver(t) ==
  /\ At(t, "inited")
  /\ SetUp("observer")
  /\ Goto(t, "observed")
  /\ UNCHANGED <<bootstrapped, bundle, session, reply, errors, crashed, disk,
                 unlocked, history>>

(* The class is not registered, or -initWithContext: answers nil: Replayer.*)
(* Otherwise the service is leaked into a raw pointer.                     *)
MakeService(t) ==
  /\ At(t, "observed")
  /\ \/ SetUp("service") /\ Goto(t, "serviced")
     \/ Return(t, "Replayer") /\ UNCHANGED inits
  /\ UNCHANGED <<bootstrapped, bundle, session, reply, errors, crashed, disk,
                 unlocked, history>>

(* -load:error: begins.  On anything that is not a capture it takes the    *)
(* process down, which is what check_bundle_shape is there to prevent.     *)
StartLoad(t) ==
  /\ At(t, "serviced")
  /\ IF disk[bundle[t]]
       THEN Goto(t, "loading") /\ UNCHANGED crashed
       ELSE crashed' = TRUE /\ UNCHANGED <<pc, result>>
  /\ UNCHANGED <<bootstrapped, bundle, session, reply, inits, errors, disk,
                 unlocked, history>>

(* -load:error: returns: with an NSError, which is the answer whatever the *)
(* BOOL says, or with YES or NO.                                           *)
FinishLoad(t) ==
  /\ At(t, "loading")
  /\ \/ Return(t, "Replayer") /\ UNCHANGED reply
     \/ Goto(t, "loaded") /\ reply' \in BOOLEAN
  /\ UNCHANGED <<bootstrapped, bundle, session, inits, errors, crashed, disk,
                 unlocked, history>>

CheckLoadTrusting(t) ==
  /\ At(t, "loaded")
  /\ IF reply
       THEN Return(t, "Ok") /\ session' = [session EXCEPT ![t] = TRUE]
                            /\ everOpened' = TRUE
       ELSE Return(t, "LoadFailed") /\ UNCHANGED <<session, everOpened>>
  /\ UNCHANGED <<bootstrapped, bundle, reply, inits, errors, crashed, disk,
                 unlocked, disturbed, complained>>

(* The observer first, then the BOOL: load: answering YES only says that   *)
(* its dispatched block ran.                                               *)
CheckLoad(t) ==
  /\ At(t, "loaded")
  /\ LET failed == FirstError(errors) # NoError
     IN  \/ /\ failed
            /\ Return(t, "Replayer")
            /\ UNCHANGED <<session, everOpened>>
         \/ /\ ~failed /\ ~reply
            /\ Return(t, "LoadFailed")
            /\ UNCHANGED <<session, everOpened>>
         \/ /\ ~failed /\ reply
            /\ Return(t, "Ok")
            /\ session' = [session EXCEPT ![t] = TRUE]
            /\ everOpened' = TRUE
  /\ UNCHANGED <<bootstrapped, bundle, reply, inits, errors, crashed, disk,
                 unlocked, disturbed, complained>>

DropSessionRearming(t) ==
  /\ At(t, "idle")
  /\ session[t]
  /\ session' = [session EXCEPT ![t] = FALSE]
  /\ bootstrapped' = FALSE
  /\ UNCHANGED <<pc, bundle, result, reply, inits, errors, crashed, disk,
                 unlocked, history>>

(* Dropping a Session frees nothing of the framework's and leaves the      *)
(* guard alone: Session has no Drop.                                       *)
DropSession(t) ==
  /\ At(t, "idle")
  /\ session[t]
  /\ session' = [session EXCEPT ![t] = FALSE]
  /\ UNCHANGED <<bootstrapped, pc, bundle, result, reply, inits, errors,
                 crashed, disk, unlocked, history>>

-----------------------------------------------------------------------------
(* What the rest of the world does. *)

(* The replayer reports an error from a queue of its own, which exists     *)
(* once the client struct is filled.  It is recorded only if an observer   *)
(* is registered; otherwise it is lost.                                    *)
ReportError ==
  /\ ~crashed
  /\ inits["client"] > 0
  /\ ErrorCount(errors) < MaxErrors
  /\ errors' = IF inits["observer"] > 0 THEN Record(errors, "error") ELSE errors
  /\ complained' = (complained \/ \E t \in Threads : pc[t] = "loading")
  /\ UNCHANGED <<bootstrapped, pc, bundle, result, session, reply, inits,
                 crashed, disk, unlocked, disturbed, everOpened>>

(* Another program creates, removes or truncates a bundle. *)
ChangeDisk(b) ==
  /\ disk' = [disk EXCEPT ![b] = ~@]
  /\ disturbed' = [t \in Threads |-> disturbed[t] \/ bundle[t] = b]
  /\ UNCHANGED <<code, crashed, unlocked, complained, everOpened>>

(* The program sets or unsets MTLREPLAYER_LOCK_PARAM_BUFFER_SIZE_TO_MAX. *)
ChangeEnv ==
  /\ ~crashed
  /\ unlocked' = ~unlocked
  /\ UNCHANGED <<code, crashed, disk, history>>

Next ==
  \/ \E t \in Threads :
       \/ \E b \in Bundles : CheckShape(t, b)
       \/ CheckEnv(t)
       \/ ClaimGuard(t)
       \/ InitApr(t)
       \/ InitClient(t)
       \/ RegisterObserver(t)
       \/ MakeService(t)
       \/ StartLoad(t)
       \/ FinishLoad(t)
       \/ CheckLoad(t)
       \/ DropSession(t)
  \/ ReportError
  \/ \E b \in Bundles : ChangeDisk(b)
  \/ ChangeEnv

Spec == Init /\ [][Next]_vars

-----------------------------------------------------------------------------
(* Properties. *)

(* A call past the guard, or a Session that such a call produced. *)
OwnsFramework(t) == pc[t] \in Bootstrap \/ session[t]

(* The framework is driven by one thread at most: whichever threads race   *)
(* through Session::open, only one is ever past the guard or holding a     *)
(* Session (session.rs, "Only one Session can ever exist in a process").   *)
AtMostOneOwner ==
  \A t1, t2 \in Threads :
    OwnsFramework(t1) /\ OwnsFramework(t2) => t1 = t2

(* No part of the framework's process-global state is set up twice, not    *)
(* even after a failed bootstrap or a dropped Session: the guard is never  *)
(* rearmed because a failed attempt has already touched that state.        *)
NoSecondBootstrap == \A s \in Stages : inits[s] <= 1

(* The guard is burnt exactly by an attempt that goes on to touch the      *)
(* framework: an attempt refused for its bundle, its path or the unlock    *)
(* variable leaves the process able to open a session.                     *)
RefusalsLeaveProcessFresh ==
  bootstrapped <=> inits["apr"] > 0 \/ \E t \in Threads : pc[t] = "claimed"

(* A Session is only handed out after a load that answered YES and during  *)
(* which the replayer reported nothing: load failures are not silent.      *)
NoSilentLoadFailure == everOpened => reply /\ ~complained

(* load: takes the process down only if the bundle changed between the     *)
(* shape check and the load: no path the check rejects reaches load:.      *)
CrashNeedsChangedBundle ==
  crashed => \E t \in Threads : pc[t] = "serviced" /\ disturbed[t]

(* The process as ProcessGuard sees it. *)
phase ==
  IF crashed THEN "dead"
  ELSE IF ~bootstrapped THEN "fresh"
  ELSE IF \E t \in Threads : pc[t] \in Bootstrap THEN "bootstrapping"
  ELSE IF \E t \in Threads : session[t] THEN "open"
  ELSE "spent"

Guard == INSTANCE ProcessGuard WITH phase <- phase

(* Session::open implements the one-shot life of the process. *)
ImplementsGuard == Guard!Spec
=============================================================================
