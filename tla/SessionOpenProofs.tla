-------------------------- MODULE SessionOpenProofs --------------------------
(***************************************************************************)
(* The safety of Session::open for any set of threads, any set of bundles  *)
(* and any number of attempts and errors: type correctness, the inductive  *)
(* invariant behind the one-shot guard, the invariants the runs check, and *)
(* the implementation of ProcessGuard.                                     *)
(***************************************************************************)
EXTENDS SessionOpen, TLAPS

-----------------------------------------------------------------------------
(* Type correctness: every variable keeps its type, whatever the threads,  *)
(* the replayer, the disk and the environment do.                          *)

LEMMA RecordType ==
  ASSUME NEW S, NEW es \in Seq(S), NEW e \in S
  PROVE  /\ Record(es, e) \in Seq(S)
         /\ Len(Record(es, e)) = Len(es) + 1
  BY DEF Record

LEMMA TypeInit == Init => TypeOK
<1> SUFFICES ASSUME Init PROVE TypeOK
  OBVIOUS
<1>1. errors \in Seq({"error"})
  BY DEF Init
<1>2. pc \in [Threads -> Phases] /\ result \in [Threads -> Results]
  BY DEF Init, Phases, Results
<1>3. inits \in [Stages -> Nat]
  BY DEF Init
<1>4. QED
  BY <1>1, <1>2, <1>3 DEF Init, TypeOK

LEMMA TypeNext == TypeOK /\ [Next]_vars => TypeOK'
<1> SUFFICES ASSUME TypeOK, [Next]_vars PROVE TypeOK'
  OBVIOUS
<1> USE DEF TypeOK, Phases, BeforeGuard, Bootstrap, Results, Stages, At, Goto,
            Return, SetUp, history, code
<1>1. ASSUME NEW t \in Threads, NEW b \in Bundles, CheckShape(t, b)
      PROVE  TypeOK'
  BY <1>1 DEF CheckShape
<1>2. ASSUME NEW t \in Threads, CheckEnv(t) PROVE TypeOK'
  BY <1>2 DEF CheckEnv
<1>3. ASSUME NEW t \in Threads, ClaimGuard(t) PROVE TypeOK'
  BY <1>3 DEF ClaimGuard
<1>4. ASSUME NEW t \in Threads, InitApr(t) PROVE TypeOK'
  BY <1>4 DEF InitApr
<1>5. ASSUME NEW t \in Threads, InitClient(t) PROVE TypeOK'
  BY <1>5 DEF InitClient
<1>6. ASSUME NEW t \in Threads, RegisterObserver(t) PROVE TypeOK'
  BY <1>6 DEF RegisterObserver
<1>7. ASSUME NEW t \in Threads, MakeService(t) PROVE TypeOK'
  BY <1>7 DEF MakeService
<1>8. ASSUME NEW t \in Threads, StartLoad(t) PROVE TypeOK'
  BY <1>8 DEF StartLoad
<1>9. ASSUME NEW t \in Threads, FinishLoad(t) PROVE TypeOK'
  BY <1>9 DEF FinishLoad
<1>10. ASSUME NEW t \in Threads, CheckLoad(t) PROVE TypeOK'
  BY <1>10 DEF CheckLoad
<1>11. ASSUME NEW t \in Threads, DropSession(t) PROVE TypeOK'
  BY <1>11 DEF DropSession
<1>12. ASSUME ReportError PROVE TypeOK'
  <2>1. errors' \in Seq({"error"})
    BY <1>12, RecordType DEF ReportError
  <2>2. QED
    BY <1>12, <2>1 DEF ReportError
<1>13. ASSUME NEW b \in Bundles, ChangeDisk(b) PROVE TypeOK'
  BY <1>13 DEF ChangeDisk
<1>14. ASSUME ChangeEnv PROVE TypeOK'
  BY <1>14 DEF ChangeEnv
<1>15. CASE UNCHANGED vars
  BY <1>15 DEF vars
<1>16. QED
  BY <1>1, <1>2, <1>3, <1>4, <1>5, <1>6, <1>7, <1>8, <1>9, <1>10, <1>11,
     <1>12, <1>13, <1>14, <1>15 DEF Next

THEOREM TypeCorrect == Spec => []TypeOK
<1>1. QED
  BY TypeInit, TypeNext, PTL DEF Spec

-----------------------------------------------------------------------------
(* The inductive invariant.  None of the safety properties is inductive on *)
(* its own: that two threads are never past the guard needs that an owner  *)
(* implies a burnt guard; that no stage runs twice needs which stages are  *)
(* still untouched at each point of the one bootstrap; that a Session      *)
(* means a clean load needs that nobody loads once a Session was made.     *)

OwnersBurnGuard ==
  /\ \A t \in Threads : OwnsFramework(t) => bootstrapped
  /\ everOpened => bootstrapped

Untouched(stages) == \A s \in stages : inits[s] = 0

StagesInOrder ==
  /\ \A s \in Stages : inits[s] <= 1
  /\ ~bootstrapped => Untouched(Stages)
  /\ \A t \in Threads :
       /\ pc[t] = "claimed"  => Untouched(Stages)
       /\ pc[t] = "pooled"   => Untouched({"client", "observer", "service"})
       /\ pc[t] = "inited"   => Untouched({"observer", "service"})
       /\ pc[t] = "observed" => Untouched({"service"})
       /\ pc[t] \in {"observed", "serviced", "loading", "loaded"} =>
            inits["observer"] = 1

LoadHistory ==
  /\ \A t \in Threads : session[t] => everOpened
  /\ everOpened => \A t \in Threads : pc[t] \notin Bootstrap
  /\ complained => FirstError(errors) # NoError
  /\ NoSilentLoadFailure

CheckedBundles ==
  /\ \A t \in Threads : pc[t] # "idle" /\ ~disturbed[t] => disk[bundle[t]]
  /\ CrashNeedsChangedBundle

IInv ==
  /\ TypeOK
  /\ OwnersBurnGuard
  /\ AtMostOneOwner
  /\ RefusalsLeaveProcessFresh
  /\ StagesInOrder
  /\ LoadHistory
  /\ CheckedBundles

LEMMA InvInit == Init => IInv
<1> SUFFICES ASSUME Init PROVE IInv
  OBVIOUS
<1>1. TypeOK
  BY TypeInit
<1>2. OwnersBurnGuard /\ AtMostOneOwner
  BY DEF Init, OwnersBurnGuard, AtMostOneOwner, OwnsFramework, Bootstrap
<1>3. RefusalsLeaveProcessFresh /\ StagesInOrder
  BY DEF Init, RefusalsLeaveProcessFresh, StagesInOrder, Untouched, Stages
<1>4. LoadHistory /\ CheckedBundles
  BY DEF Init, LoadHistory, NoSilentLoadFailure, CheckedBundles,
         CrashNeedsChangedBundle
<1>5. QED
  BY <1>1, <1>2, <1>3, <1>4 DEF IInv

LEMMA InvNext == IInv /\ [Next]_vars => IInv'
<1> SUFFICES ASSUME IInv, [Next]_vars PROVE IInv'
  OBVIOUS
<1>0. TypeOK'
  BY TypeNext DEF IInv
<1> USE <1>0 DEF IInv, TypeOK, At, Goto, Return, SetUp, history, code
<1> USE DEF OwnersBurnGuard, AtMostOneOwner, OwnsFramework, Bootstrap,
            BeforeGuard, Phases, RefusalsLeaveProcessFresh, StagesInOrder,
            Untouched, Stages, LoadHistory, NoSilentLoadFailure,
            CheckedBundles, CrashNeedsChangedBundle, FirstError,
            FirstErrorSince, NoError
<1>1. ASSUME NEW t \in Threads, NEW b \in Bundles, CheckShape(t, b)
      PROVE  IInv'
  BY <1>1 DEF CheckShape
<1>2. ASSUME NEW t \in Threads, CheckEnv(t) PROVE IInv'
  BY <1>2 DEF CheckEnv
<1>3. ASSUME NEW t \in Threads, ClaimGuard(t) PROVE IInv'
  BY <1>3 DEF ClaimGuard
<1>4. ASSUME NEW t \in Threads, InitApr(t) PROVE IInv'
  BY <1>4 DEF InitApr
<1>5. ASSUME NEW t \in Threads, InitClient(t) PROVE IInv'
  BY <1>5 DEF InitClient
<1>6. ASSUME NEW t \in Threads, RegisterObserver(t) PROVE IInv'
  BY <1>6 DEF RegisterObserver
<1>7. ASSUME NEW t \in Threads, MakeService(t) PROVE IInv'
  BY <1>7 DEF MakeService
<1>8. ASSUME NEW t \in Threads, StartLoad(t) PROVE IInv'
  BY <1>8 DEF StartLoad
<1>9. ASSUME NEW t \in Threads, FinishLoad(t) PROVE IInv'
  BY <1>9 DEF FinishLoad
<1>10. ASSUME NEW t \in Threads, CheckLoad(t) PROVE IInv'
  BY <1>10 DEF CheckLoad
<1>11. ASSUME NEW t \in Threads, DropSession(t) PROVE IInv'
  BY <1>11 DEF DropSession
<1>12. ASSUME ReportError PROVE IInv'
  BY <1>12, RecordType DEF ReportError
<1>13. ASSUME NEW b \in Bundles, ChangeDisk(b) PROVE IInv'
  BY <1>13 DEF ChangeDisk
<1>14. ASSUME ChangeEnv PROVE IInv'
  BY <1>14 DEF ChangeEnv
<1>15. CASE UNCHANGED vars
  BY <1>15 DEF vars
<1>16. QED
  BY <1>1, <1>2, <1>3, <1>4, <1>5, <1>6, <1>7, <1>8, <1>9, <1>10, <1>11,
     <1>12, <1>13, <1>14, <1>15 DEF Next

THEOREM Invariance == Spec => []IInv
<1>1. QED
  BY InvInit, InvNext, PTL DEF Spec

(* At most one thread is ever past the guard or holds a Session. *)
THEOREM OneOwner == Spec => []AtMostOneOwner
<1>1. IInv => AtMostOneOwner
  BY DEF IInv
<1>2. QED
  BY <1>1, Invariance, PTL

(* No part of the framework is set up twice in the life of a process. *)
THEOREM OneBootstrap == Spec => []NoSecondBootstrap
<1>1. IInv => NoSecondBootstrap
  BY DEF IInv, StagesInOrder, NoSecondBootstrap
<1>2. QED
  BY <1>1, Invariance, PTL

(* The guard is burnt exactly by the attempts that go on to the framework. *)
THEOREM RefusalIsHarmless == Spec => []RefusalsLeaveProcessFresh
<1>1. IInv => RefusalsLeaveProcessFresh
  BY DEF IInv
<1>2. QED
  BY <1>1, Invariance, PTL

(* A Session is only handed out after a load the observer heard no error   *)
(* of.                                                                     *)
THEOREM LoadFailuresAreHeard == Spec => []NoSilentLoadFailure
<1>1. IInv => NoSilentLoadFailure
  BY DEF IInv, LoadHistory
<1>2. QED
  BY <1>1, Invariance, PTL

(* load: crashes only on a bundle that changed after it was checked. *)
THEOREM CrashesNeedChange == Spec => []CrashNeedsChangedBundle
<1>1. IInv => CrashNeedsChangedBundle
  BY DEF IInv, CheckedBundles
<1>2. QED
  BY <1>1, Invariance, PTL

-----------------------------------------------------------------------------
(* Session::open implements ProcessGuard.  Each step of the code maps to   *)
(* one step of the abstract process or to a stutter.                       *)

(* While a thread is in the bootstrap, and the process alive, the abstract *)
(* process is bootstrapping.                                               *)
LEMMA InBootstrap ==
  ASSUME IInv, ~crashed, NEW t \in Threads, pc[t] \in Bootstrap
  PROVE  phase = "bootstrapping"
  BY DEF phase, IInv, OwnersBurnGuard, OwnsFramework

(* When the one thread in the bootstrap leaves it, nobody is in it. *)
LEMMA LeaveBootstrap ==
  ASSUME IInv, NEW t \in Threads, pc[t] \in Bootstrap,
         pc' = [pc EXCEPT ![t] = "idle"]
  PROVE  \A u \in Threads : pc'[u] \notin Bootstrap
  BY DEF IInv, AtMostOneOwner, OwnsFramework, TypeOK, Bootstrap

(* Before anyone is done, nobody holds a Session. *)
LEMMA NoSessionInBootstrap ==
  ASSUME IInv, NEW t \in Threads, pc[t] \in Bootstrap
  PROVE  ~everOpened /\ \A u \in Threads : ~session[u]
  BY DEF IInv, LoadHistory, TypeOK

LEMMA GuardInit == Init => Guard!Init
  BY DEF Init, Guard!Init, phase

LEMMA GuardNext == IInv /\ IInv' /\ [Next]_vars => [Guard!Next]_phase
<1> SUFFICES ASSUME IInv, IInv', [Next]_vars PROVE [Guard!Next]_phase
  OBVIOUS
<1> USE DEF At, Goto, Return, SetUp, history, code
<1> DEFINE Advances(t, from, to) ==
      /\ ~crashed /\ pc[t] = from /\ pc' = [pc EXCEPT ![t] = to]
      /\ UNCHANGED <<crashed, bootstrapped, session>>
<1>a. ASSUME NEW t \in Threads, NEW from \in Bootstrap, NEW to \in Bootstrap,
             Advances(t, from, to)
      PROVE  phase' = phase
  <2>1. pc'[t] \in Bootstrap
    BY <1>a DEF IInv, TypeOK
  <2>2. bootstrapped
    BY <1>a DEF IInv, OwnersBurnGuard, OwnsFramework
  <2>3. QED
    BY <1>a, <2>1, <2>2 DEF phase
<1>b. ASSUME NEW t \in Threads, NEW from \in Bootstrap, Advances(t, from, "idle")
      PROVE  Guard!Fail
  <2>1. phase = "bootstrapping"
    BY <1>b, InBootstrap
  <2>2. bootstrapped /\ \A u \in Threads : pc'[u] \notin Bootstrap
    BY <1>b, LeaveBootstrap DEF IInv, OwnersBurnGuard, OwnsFramework
  <2>3. \A u \in Threads : ~session[u]
    BY <1>b, NoSessionInBootstrap
  <2>4. phase' = "spent"
    BY <1>b, <2>2, <2>3 DEF phase
  <2>5. QED
    BY <2>1, <2>4 DEF Guard!Fail
<1>c. ASSUME NEW t \in Threads, pc[t] \notin Bootstrap, pc'[t] \notin Bootstrap,
             \E p : pc' = [pc EXCEPT ![t] = p],
             UNCHANGED <<crashed, bootstrapped, session>>
      PROVE  phase' = phase
  <2>1. \A u \in Threads : pc'[u] \in Bootstrap <=> pc[u] \in Bootstrap
    BY <1>c DEF IInv, TypeOK
  <2>2. QED
    BY <1>c, <2>1 DEF phase
<1>1. ASSUME NEW t \in Threads, NEW b \in Bundles, CheckShape(t, b)
      PROVE  phase' = phase
  BY <1>1, <1>c DEF CheckShape, IInv, TypeOK, Bootstrap
<1>2. ASSUME NEW t \in Threads, CheckEnv(t) PROVE phase' = phase
  BY <1>2, <1>c DEF CheckEnv, IInv, TypeOK, Bootstrap
<1>3. ASSUME NEW t \in Threads, ClaimGuard(t)
      PROVE  Guard!Claim \/ phase' = phase
  <2>1. CASE bootstrapped
    BY <1>3, <2>1, <1>c DEF ClaimGuard, IInv, TypeOK, Bootstrap
  <2>2. CASE ~bootstrapped
    <3>1. phase = "fresh"
      BY <1>3, <2>2 DEF ClaimGuard, phase
    <3>2. pc'[t] = "claimed" /\ bootstrapped' /\ ~crashed'
      BY <1>3, <2>2 DEF ClaimGuard, IInv, TypeOK
    <3>3. phase' = "bootstrapping"
      BY <3>2 DEF phase, Bootstrap
    <3>4. QED
      BY <3>1, <3>3 DEF Guard!Claim
  <2>3. QED
    BY <2>1, <2>2
<1>4. ASSUME NEW t \in Threads, InitApr(t) PROVE Guard!Fail \/ phase' = phase
  BY <1>4, <1>a, <1>b DEF InitApr, Bootstrap
<1>5. ASSUME NEW t \in Threads, InitClient(t) PROVE phase' = phase
  BY <1>5, <1>a DEF InitClient, Bootstrap
<1>6. ASSUME NEW t \in Threads, RegisterObserver(t) PROVE phase' = phase
  BY <1>6, <1>a DEF RegisterObserver, Bootstrap
<1>7. ASSUME NEW t \in Threads, MakeService(t)
      PROVE  Guard!Fail \/ phase' = phase
  BY <1>7, <1>a, <1>b DEF MakeService, Bootstrap
<1>8. ASSUME NEW t \in Threads, StartLoad(t) PROVE Guard!Crash \/ phase' = phase
  <2>1. CASE disk[bundle[t]]
    BY <1>8, <2>1, <1>a DEF StartLoad, Bootstrap
  <2>2. CASE ~disk[bundle[t]]
    <3>1. phase = "bootstrapping"
      BY <1>8, InBootstrap DEF StartLoad, Bootstrap
    <3>2. phase' = "dead"
      BY <1>8, <2>2 DEF StartLoad, phase
    <3>3. QED
      BY <3>1, <3>2 DEF Guard!Crash
  <2>3. QED
    BY <2>1, <2>2
<1>9. ASSUME NEW t \in Threads, FinishLoad(t)
      PROVE  Guard!Fail \/ phase' = phase
  BY <1>9, <1>a, <1>b DEF FinishLoad, Bootstrap
<1>10. ASSUME NEW t \in Threads, CheckLoad(t)
       PROVE  Guard!Succeed \/ Guard!Fail \/ phase' = phase
  <2>1. CASE UNCHANGED session
    BY <1>10, <2>1, <1>b DEF CheckLoad, Bootstrap
  <2>2. CASE session' = [session EXCEPT ![t] = TRUE]
    <3>1. phase = "bootstrapping"
      BY <1>10, InBootstrap DEF CheckLoad, Bootstrap
    <3>2. bootstrapped' /\ ~crashed' /\ session'[t]
      BY <1>10, <2>2 DEF CheckLoad, IInv, TypeOK, OwnersBurnGuard, OwnsFramework,
                         Bootstrap
    <3>3. \A u \in Threads : pc'[u] \notin Bootstrap
      BY <1>10, LeaveBootstrap DEF CheckLoad, Bootstrap
    <3>4. phase' = "open"
      BY <3>2, <3>3 DEF phase
    <3>5. QED
      BY <3>1, <3>4 DEF Guard!Succeed
  <2>3. QED
    BY <1>10, <2>1, <2>2 DEF CheckLoad
<1>11. ASSUME NEW t \in Threads, DropSession(t) PROVE Guard!Close
  <2>1. bootstrapped /\ \A u \in Threads : pc[u] \notin Bootstrap
    BY <1>11 DEF DropSession, IInv, LoadHistory, OwnersBurnGuard, OwnsFramework
  <2>2. phase = "open"
    BY <1>11, <2>1 DEF DropSession, phase
  <2>3. \A u \in Threads : ~session'[u]
    BY <1>11 DEF DropSession, IInv, TypeOK, AtMostOneOwner, OwnsFramework
  <2>4. phase' = "spent"
    BY <1>11, <2>1, <2>3 DEF DropSession, phase
  <2>5. QED
    BY <2>2, <2>4 DEF Guard!Close
<1>12. ASSUME ReportError PROVE phase' = phase
  BY <1>12 DEF ReportError, phase
<1>13. ASSUME NEW b \in Bundles, ChangeDisk(b) PROVE phase' = phase
  BY <1>13 DEF ChangeDisk, phase
<1>14. ASSUME ChangeEnv PROVE phase' = phase
  BY <1>14 DEF ChangeEnv, phase
<1>15. CASE UNCHANGED vars
  BY <1>15 DEF vars, phase
<1>16. QED
  BY <1>1, <1>2, <1>3, <1>4, <1>5, <1>6, <1>7, <1>8, <1>9, <1>10, <1>11,
     <1>12, <1>13, <1>14, <1>15 DEF Next, Guard!Next

(* The life of the process is the one ProcessGuard allows. *)
THEOREM OpenImplementsGuard == Spec => ImplementsGuard
<1>1. QED
  BY GuardInit, GuardNext, Invariance, PTL
  DEF Spec, ImplementsGuard, Guard!Spec
=============================================================================
