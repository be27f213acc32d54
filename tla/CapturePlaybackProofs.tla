------------------------ MODULE CapturePlaybackProofs ------------------------
(***************************************************************************)
(* What a Capture's callers may rely on through any order of playback,     *)
(* questions and fetches, for any bundle, any variables, any number of     *)
(* commands and of errors.                                                 *)
(***************************************************************************)
EXTENDS CapturePlayback, TLAPS

-----------------------------------------------------------------------------
(* The observer's list. *)

(* Recording an error adds one position and keeps the others. *)
LEMMA RecordKeeps ==
  ASSUME NEW S, NEW es \in Seq(S), NEW e \in S
  PROVE  /\ Record(es, e) \in Seq(S)
         /\ ErrorCount(es) \in Nat
         /\ ErrorCount(Record(es, e)) = ErrorCount(es) + 1
         /\ \A j \in 1..ErrorCount(es) : Record(es, e)[j] = es[j]
         /\ Record(es, e)[ErrorCount(es) + 1] = e
  BY DEF Record, ErrorCount

(* An error found since a mark is in the list, past the mark. *)
LEMMA FoundPastMark ==
  ASSUME NEW S, NEW es \in Seq(S), NEW m \in Nat, FirstErrorSince(es, m) # NoError
  PROVE  /\ FirstErrorSince(es, m) \in Nat \ {0}
         /\ m < FirstErrorSince(es, m)
         /\ FirstErrorSince(es, m) <= ErrorCount(es)
  BY DEF FirstErrorSince, ErrorCount, NoError

-----------------------------------------------------------------------------
(* Views of the object map. *)

LEMMA LoadIsCaptured ==
  ASSUME NEW f \in BOOLEAN
  PROVE  LoadOf(f) \in SUBSET Captured
  BY DEF LoadOf

(* Whatever the offset leads to, a view is a view. *)
LEMMA ViewType ==
  ASSUME NEW t \in Targets, NEW refs \in SUBSET Captured
  PROVE  ViewOf(ObjectMap(t), refs) \in Views
<1>1. ObjectMap(t) \in Layouts
  BY DEF ObjectMap, Layouts, Targets
<1>2. refs \in SUBSET Refs
  BY CaptureAssumption
<1>3. QED
  BY <1>1, <1>2 DEF ViewOf, Views

LEMMA SnapshotTypes ==
  ASSUME NEW t \in Targets, NEW m \in SUBSET Captured,
         NEW f \in BOOLEAN, NEW kept \in BOOLEAN
  PROVE  LoadedTextures(t, m) \in Views /\ UnusedRefs(t, f, kept) \in Views
<1>1. m \cap Textures \in SUBSET Captured /\ Unused \in SUBSET Captured
      /\ {} \in SUBSET Captured
  BY CaptureAssumption
<1>2. QED
  BY <1>1, ViewType DEF LoadedTextures, UnusedRefs

LEMMA DescriptorKinds ==
  ASSUME NEW v, NEW r
  PROVE  DescriptorIn(v, r) \in {"none", "some", "err"}
  BY DEF DescriptorIn

(* A fetch serves what the load included, of its own class. *)
LEMMA ServedIsLoaded ==
  ASSUME NEW f \in [class : Classes \cup {"none"}, refs : SUBSET Refs]
  PROVE  /\ Served(f) \in SUBSET Refs
         /\ Served(f) \cap Textures \subseteq LoadOf(forced) \cap Textures
  BY DEF Served

(* What a fetch may leave of the object map. *)
LEMMA RefillOutcomes ==
  ASSUME NEW f, NEW ok \in BOOLEAN
  PROVE  Refill(f, ok) \subseteq {map, LoadOf(forced)}
  BY DEF Refill

-----------------------------------------------------------------------------
(* The inductive invariant. *)

(* While a config was the last to touch the variables, they say what it    *)
(* says; and the load was decided by them.                                 *)
EnvInv ==
  /\ \A cfg \in applied : env = cfg
  /\ isOpen => forced = LoadsUnused(env)

(* The snapshot was taken of the load, before anything could play. *)
SnapInv ==
  isOpen =>
    /\ loaded = LoadedTextures(target, LoadOf(forced))
    /\ \E kept \in BOOLEAN : unused = UnusedRefs(target, forced, kept)

(* The map is as loaded, or empty; empty only after playback. *)
MapInv ==
  isOpen => map \in {{}, LoadOf(forced)} /\ (map = LoadOf(forced) \/ played)

(* A fetch is of a class; what the observer heard past its mark, it heard  *)
(* during the fetch.                                                       *)
MarkInv ==
  /\ fetching # NoFetch =>
       \A at \in 1..ErrorCount(errors) : mark < at => errors[at] = "busy"
  /\ \A at \in surfaced : at \in 1..ErrorCount(errors) /\ errors[at] = "busy"

(* Before there is a Capture nobody has been answered anything. *)
ClosedInv ==
  ~isOpen => answer = Silence /\ fetching = NoFetch /\ errors = <<>>

IInv ==
  /\ TypeOK
  /\ EnvInv
  /\ SnapInv
  /\ MapInv
  /\ MarkInv
  /\ ClosedInv
  /\ ServedHasDescriptor
  /\ LiveNoneIsExplained

-----------------------------------------------------------------------------
(* The shape of the steps. *)

Plays == PlayAll \/ (\E i \in 0..LastCommand : PlayTo(i)) \/ Rewind

(* Playback touches nothing but the index and the map, and the map only to *)
(* empty it or fill it.                                                    *)
LEMMA PlaysStep ==
  ASSUME Plays
  PROVE  /\ Forwarded
         /\ \/ UNCHANGED <<index, map, played>>
            \/ map' \in {{}, map, LoadOf(forced)} /\ played' = TRUE
         /\ index' = index \/ index' \in 0..LastCommand
<1>0. 0 \in 0..LastCommand /\ LastCommand \in 0..LastCommand
  BY CaptureAssumption
<1>1. CASE PlayAll
  BY <1>0, <1>1 DEF PlayAll, ReplayerPlaysAll, AdvanceTo, StayPut
<1>2. CASE \E i \in 0..LastCommand : PlayTo(i)
  BY <1>2 DEF PlayTo, ReplayerPlaysTo, AdvanceTo, StayPut
<1>3. CASE Rewind
  BY <1>0, <1>3 DEF Rewind, ReplayerRewinds, StayPut
<1>4. QED
  BY <1>1, <1>2, <1>3 DEF Plays

(* Once there is a Capture, nothing touches the variables, the snapshots   *)
(* or what the load included.                                              *)
LEMMA FixedOnceOpen ==
  ASSUME isOpen, Next
  PROVE  UNCHANGED <<env, applied, isOpen, loaded, unused, target, forced>>
<1> USE DEF capture, replayer, history
<1>1. CASE \/ \E cfg \in Configs : ConfigureEnv(cfg)
           \/ \E v \in Owned : Export(v)
           \/ Open
  BY <1>1 DEF ConfigureEnv, Export, Open
<1>2. CASE \/ \E r \in Refs : AskDescriptor(r) \/ AskLive(r)
           \/ AskTextures \/ AskUnused \/ AskManifest \/ AskIndex
           \/ FetchNothing
  BY <1>2 DEF AskDescriptor, AskLive, AskTextures, AskUnused, AskManifest,
       AskIndex, FetchNothing, Answer
<1>3. CASE Plays
  BY <1>3, PlaysStep DEF Forwarded
<1>4. CASE \/ \E class \in Classes, refs \in SUBSET Refs : BeginFetch(class, refs)
           \/ EndFetch
  BY <1>4 DEF BeginFetch, EndFetch
<1>5. CASE \/ ReportError
           \/ \E m \in Manifests : ChangeDisk(m)
  BY <1>5 DEF ReportError, ChangeDisk
<1>6. QED
  BY <1>1, <1>2, <1>3, <1>4, <1>5 DEF Next, Plays

(* Before there is one, only the environment changes, until open. *)
LEMMA OnlyEnvBeforeOpen ==
  ASSUME ~isOpen, ClosedInv, Next
  PROVE  \/ \E cfg \in Configs : ConfigureEnv(cfg)
         \/ \E v \in Owned : Export(v)
         \/ Open
BY DEF ClosedInv, Next, Ready, AskDescriptor, AskLive, AskTextures, AskUnused,
     AskManifest, AskIndex, FetchNothing, PlayAll, PlayTo, Rewind, Forwarded,
     BeginFetch, EndFetch, ReportError, ChangeDisk

-----------------------------------------------------------------------------
(* Type correctness. *)

LEMMA TypeInit == Init => TypeOK
<1> SUFFICES ASSUME Init PROVE TypeOK
  OBVIOUS
<1>1. Silence \in Answers /\ NoView \in Views
      /\ NoFetch \in [class : Classes \cup {"none"}, refs : SUBSET Refs]
  BY DEF Silence, Answers, NoView, Views, Layouts, NoFetch
<1>2. index \in 0..LastCommand
  BY CaptureAssumption DEF Init
<1>3. errors \in Seq({"quiet", "busy"}) /\ mark \in Nat
      /\ surfaced \in SUBSET (Nat \ {0})
  BY DEF Init
<1>4. applied \in SUBSET Configs /\ map \in SUBSET Captured
  BY DEF Init, NoConfig
<1>5. isOpen \in BOOLEAN /\ forced \in BOOLEAN /\ played \in BOOLEAN
  BY DEF Init
<1>6. QED
  BY <1>1, <1>2, <1>3, <1>4, <1>5 DEF Init, TypeOK

(* What a call returns is an answer. *)
LEMMA AnswerType ==
  ASSUME NEW api \in {"descriptor", "textures", "unused", "manifest", "live",
                      "index", "fetch"},
         NEW r \in Nat,
         NEW kind \in {"none", "some", "ok", "err", "refused", "replayer", "failed"}
                       \cup Manifests,
         NEW refs \in SUBSET Refs,
         Answer(api, r, kind, refs)
  PROVE  answer' \in Answers
<1>1. answer' = [api |-> api, ref |-> r, kind |-> kind, refs |-> refs]
  BY DEF Answer
<1>2. [api |-> api, ref |-> r, kind |-> kind, refs |-> refs] \in Answers
  BY Zenon DEF Answers
<1>3. QED
  BY <1>1, <1>2

LEMMA TypeFinish ==
  ASSUME TypeOK, NEW kind \in {"ok", "refused", "replayer", "failed"},
         NEW refs \in SUBSET Refs, NEW ok \in BOOLEAN,
         Finish(kind, refs, ok)
  PROVE  /\ answer' \in Answers /\ map' \in SUBSET Captured
         /\ played' \in BOOLEAN /\ index' \in 0..LastCommand
         /\ fetching' \in [class : Classes \cup {"none"}, refs : SUBSET Refs]
         /\ mark' \in Nat
<1>1. answer' \in Answers
  BY AnswerType DEF Finish
<1>2. map' \in SUBSET Captured
  <2>1. map' \in {map, LoadOf(forced)}
    BY RefillOutcomes DEF Finish
  <2>2. QED
    BY <2>1, LoadIsCaptured DEF TypeOK
<1>3. played' \in BOOLEAN /\ mark' \in Nat
      /\ fetching' \in [class : Classes \cup {"none"}, refs : SUBSET Refs]
  BY DEF Finish, NoFetch
<1>4. index' \in 0..LastCommand
  BY CaptureAssumption DEF Finish, TypeOK
<1>5. QED
  BY <1>1, <1>2, <1>3, <1>4

LEMMA TypeNext == TypeOK /\ Next => TypeOK'
<1> SUFFICES ASSUME TypeOK, Next PROVE TypeOK'
  OBVIOUS
<1> USE DEF capture, replayer, history
<1>a. Silence \in Answers
  BY DEF Silence, Answers
<1>b. Refs \subseteq Nat
  BY CaptureAssumption DEF Refs
<1>1. CASE \E cfg \in Configs : ConfigureEnv(cfg)
  <2>1. PICK cfg \in Configs : ConfigureEnv(cfg)
    BY <1>1
  <2>2. env' \in Configs /\ applied' \in SUBSET Configs
    BY <2>1 DEF ConfigureEnv, ApplyEnv, Configs
  <2>3. QED
    BY <2>1, <2>2 DEF ConfigureEnv, TypeOK
<1>2. CASE \E v \in Owned : Export(v)
  <2>1. PICK v \in Owned : Export(v)
    BY <1>2
  <2>2. env' \in Configs /\ applied' \in SUBSET Configs
    BY <2>1 DEF Export, TypeOK, Configs, NoConfig
  <2>3. QED
    BY <2>1, <2>2 DEF Export, TypeOK
<1>3. CASE Open
  <2>1. forced' \in BOOLEAN
    BY <1>3 DEF Open, LoadsUnused
  <2>2. map' \in SUBSET Captured
    BY <1>3, <2>1, LoadIsCaptured DEF Open
  <2>3. loaded' \in Views /\ unused' \in Views
    BY <1>3, <2>1, <2>2, SnapshotTypes DEF Open, TypeOK
  <2>4. QED
    BY <1>3, <1>a, <2>1, <2>2, <2>3 DEF Open, TypeOK
<1>4. CASE \E r \in Refs : AskDescriptor(r) \/ AskLive(r)
  <2>1. PICK r \in Refs : AskDescriptor(r) \/ AskLive(r)
    BY <1>4
  <2>2. answer' \in Answers
    BY <2>1, <1>b, AnswerType, DescriptorKinds
       DEF AskDescriptor, AskLive, LiveDescriptor
  <2>3. QED
    BY <2>1, <2>2 DEF AskDescriptor, AskLive, TypeOK
<1>5. CASE AskTextures
  <2>1. answer' \in Answers
    BY <1>5, AnswerType DEF AskTextures, ViewKind, TypeOK, Views
  <2>2. QED
    BY <1>5, <2>1 DEF AskTextures, TypeOK
<1>6. CASE AskUnused
  <2>1. answer' \in Answers
    BY <1>6, AnswerType DEF AskUnused, ViewKind, TypeOK, Views
  <2>2. QED
    BY <1>6, <2>1 DEF AskUnused, TypeOK
<1>7. CASE AskManifest
  <2>1. bundle' \in Manifests \/ bundle' = bundle
    BY <1>7 DEF AskManifest, TypeOK
  <2>2. bundle' \in Manifests
    BY <1>7 DEF AskManifest, TypeOK
  <2>3. answer' \in Answers
    <3>1. PICK m \in Manifests : bundle' = m
      BY <2>2
    <3>2. Answer("manifest", 0, m, {})
      BY <1>7, <3>1 DEF AskManifest
    <3>3. m \in {"none", "some", "ok", "err", "refused", "replayer", "failed"} \cup Manifests
          /\ {} \in SUBSET Refs /\ 0 \in Nat
      OBVIOUS
    <3>4. QED
      BY <3>2, <3>3, AnswerType
  <2>4. QED
    BY <1>7, <2>2, <2>3 DEF AskManifest, TypeOK
<1>8. CASE Plays
  <2>1. map' \in SUBSET Captured
    BY <1>8, PlaysStep, LoadIsCaptured DEF TypeOK
  <2>2. played' \in BOOLEAN
    BY <1>8, PlaysStep DEF TypeOK
  <2>3. index' \in 0..LastCommand
    BY <1>8, PlaysStep DEF TypeOK
  <2>4. Forwarded
    BY <1>8, PlaysStep
  <2>5. QED
    BY <2>4, <1>a, <2>1, <2>2, <2>3 DEF Forwarded, TypeOK
<1>9. CASE AskIndex
  <2>1. index \in Nat
    BY CaptureAssumption DEF TypeOK
  <2>2. answer' \in Answers
    BY <1>9, <2>1, AnswerType DEF AskIndex
  <2>3. QED
    BY <1>9, <2>2 DEF AskIndex, TypeOK
<1>10. CASE FetchNothing
  <2>1. answer' \in Answers
    BY <1>10, AnswerType DEF FetchNothing
  <2>2. QED
    BY <1>10, <2>1 DEF FetchNothing, TypeOK
<1>11. CASE \E class \in Classes, refs \in SUBSET Refs : BeginFetch(class, refs)
  <2>1. ErrorCount(errors) \in Nat
    BY DEF ErrorCount, TypeOK
  <2>2. QED
    BY <1>11, <1>a, <2>1 DEF BeginFetch, TypeOK
<1>12. CASE EndFetch
  <2>1. Served(fetching) \in SUBSET Refs /\ {} \in SUBSET Refs
    BY ServedIsLoaded DEF TypeOK
  <2>2. CASE /\ ErrorOfFetch # NoError
             /\ surfaced' = surfaced \cup {ErrorOfFetch}
             /\ \E ok \in BOOLEAN : Finish("replayer", {}, ok)
    <3>1. ErrorOfFetch \in Nat \ {0}
      BY <2>2, FoundPastMark DEF ErrorOfFetch, TypeOK
    <3>2. surfaced' \in SUBSET (Nat \ {0})
      BY <2>2, <3>1 DEF TypeOK
    <3>3. QED
      BY <1>12, <2>1, <2>2, <3>2, TypeFinish DEF EndFetch, TypeOK
  <2>3. CASE /\ \/ Finish("refused", {}, FALSE)
                \/ Finish("failed", {}, FALSE)
                \/ Finish("ok", Served(fetching), TRUE)
             /\ UNCHANGED surfaced
    BY <1>12, <2>1, <2>3, TypeFinish DEF EndFetch, TypeOK
  <2>4. QED
    BY <1>12, <2>2, <2>3 DEF EndFetch
<1>13. CASE ReportError
  <2>1. errors' \in Seq({"quiet", "busy"})
    BY <1>13, RecordKeeps DEF ReportError, TypeOK
  <2>2. QED
    BY <1>13, <2>1 DEF ReportError, TypeOK
<1>14. CASE \E m \in Manifests : ChangeDisk(m)
  BY <1>14 DEF ChangeDisk, TypeOK
<1>15. QED
  BY <1>1, <1>2, <1>3, <1>4, <1>5, <1>6, <1>7, <1>8, <1>9, <1>10, <1>11, <1>12,
     <1>13, <1>14 DEF Next, Plays

-----------------------------------------------------------------------------
(* The invariant. *)

LEMMA InitInv == Init => IInv
<1> SUFFICES ASSUME Init PROVE IInv
  OBVIOUS
<1>1. TypeOK
  BY TypeInit
<1>2. EnvInv /\ SnapInv /\ MapInv /\ ClosedInv
  BY DEF Init, NoConfig, EnvInv, SnapInv, MapInv, ClosedInv
<1>3. MarkInv
  BY DEF Init, MarkInv
<1>4. ServedHasDescriptor /\ LiveNoneIsExplained
  BY DEF Init, Silence, ServedHasDescriptor, LiveNoneIsExplained
<1>5. QED
  BY <1>1, <1>2, <1>3, <1>4 DEF IInv

LEMMA EnvNext == IInv /\ Next => EnvInv'
<1> SUFFICES ASSUME IInv, Next PROVE EnvInv'
  OBVIOUS
<1>1. CASE isOpen
  BY <1>1, FixedOnceOpen DEF IInv, EnvInv, LoadsUnused
<1>2. CASE ~isOpen
  <2>1. CASE \E cfg \in Configs : ConfigureEnv(cfg)
    <3>1. PICK cfg \in Configs : ConfigureEnv(cfg)
      BY <2>1
    <3>2. env' = cfg
      BY <3>1 DEF ConfigureEnv, ApplyEnv, Configs
    <3>3. QED
      BY <1>2, <3>1, <3>2 DEF ConfigureEnv, EnvInv, capture
  <2>2. CASE \E v \in Owned : Export(v)
    BY <1>2, <2>2 DEF Export, EnvInv, NoConfig, capture
  <2>3. CASE Open
    <3>1. env' = env /\ applied' = applied /\ forced' = LoadsUnused(env)
      BY <2>3 DEF Open, history
    <3>2. QED
      BY <3>1 DEF IInv, EnvInv, LoadsUnused
  <2>4. QED
    BY <1>2, <2>1, <2>2, <2>3, OnlyEnvBeforeOpen DEF IInv
<1>3. QED
  BY <1>1, <1>2

LEMMA SnapNext == IInv /\ Next => SnapInv'
<1> SUFFICES ASSUME IInv, Next, isOpen' PROVE SnapInv'
  BY DEF SnapInv
<1>1. CASE isOpen
  <2>1. UNCHANGED <<loaded, unused, target, forced>>
    BY <1>1, FixedOnceOpen
  <2>2. PICK kept \in BOOLEAN : unused = UnusedRefs(target, forced, kept)
    BY <1>1 DEF IInv, SnapInv
  <2>3. loaded = LoadedTextures(target, LoadOf(forced))
    BY <1>1 DEF IInv, SnapInv
  <2>4. LoadedTextures(target, LoadOf(forced))' = LoadedTextures(target, LoadOf(forced))
    BY <2>1 DEF LoadedTextures, LoadOf
  <2>5. unused' = UnusedRefs(target', forced', kept)
    BY <2>1, <2>2
  <2>6. QED
    BY <2>1, <2>3, <2>4, <2>5 DEF SnapInv
<1>2. CASE ~isOpen
  <2>1. Open
    BY <1>2, OnlyEnvBeforeOpen DEF IInv, ConfigureEnv, Export, capture
  <2>2. target' = target /\ loaded' = LoadedTextures(target, map')
        /\ map' = LoadOf(forced')
        /\ \E kept \in BOOLEAN : unused' = UnusedRefs(target, forced', kept)
    BY <2>1 DEF Open
  <2>3. QED
    BY <2>2 DEF SnapInv
<1>3. QED
  BY <1>1, <1>2

(* The map of a step is the one before, or empty after playback, or filled. *)
LEMMA MapStep ==
  ASSUME isOpen, Next
  PROVE  \/ map' = map /\ played' = played
         \/ map' \in {{}, map, LoadOf(forced)} /\ played' = TRUE
         \/ map' \in {map, LoadOf(forced)} /\ played' = (played /\ map' = {})
<1> USE DEF capture, replayer, history
<1>1. CASE \/ \E cfg \in Configs : ConfigureEnv(cfg)
           \/ \E v \in Owned : Export(v)
           \/ Open
  BY <1>1 DEF ConfigureEnv, Export, Open
<1>2. CASE \/ \E r \in Refs : AskDescriptor(r) \/ AskLive(r)
           \/ AskTextures \/ AskUnused \/ AskManifest \/ AskIndex
           \/ FetchNothing
  BY <1>2 DEF AskDescriptor, AskLive, AskTextures, AskUnused, AskManifest,
       AskIndex, FetchNothing
<1>3. CASE Plays
  BY <1>3, PlaysStep DEF Forwarded
<1>4. CASE \E class \in Classes, refs \in SUBSET Refs : BeginFetch(class, refs)
  BY <1>4 DEF BeginFetch
<1>5. CASE EndFetch
  <2>1. PICK ok \in BOOLEAN : \E kind, refs : Finish(kind, refs, ok)
    BY <1>5 DEF EndFetch
  <2>2. map' \in Refill(fetching, ok) /\ played' = (played /\ map' = {})
    BY <2>1 DEF Finish
  <2>3. QED
    BY <2>2, RefillOutcomes
<1>6. CASE \/ ReportError
           \/ \E m \in Manifests : ChangeDisk(m)
  BY <1>6 DEF ReportError, ChangeDisk
<1>7. QED
  BY <1>1, <1>2, <1>3, <1>4, <1>5, <1>6 DEF Next, Plays

LEMMA MapNext == IInv /\ Next => MapInv'
<1> SUFFICES ASSUME IInv, Next, isOpen' PROVE MapInv'
  BY DEF MapInv
<1>1. CASE isOpen
  <2>1. LoadOf(forced)' = LoadOf(forced)
    BY <1>1, FixedOnceOpen DEF LoadOf
  <2>2. map \in {{}, LoadOf(forced)} /\ (map = LoadOf(forced) \/ played)
    BY <1>1 DEF IInv, MapInv
  <2>3. QED
    BY <1>1, <2>1, <2>2, MapStep DEF MapInv
<1>2. CASE ~isOpen
  <2>1. Open
    BY <1>2, OnlyEnvBeforeOpen DEF IInv, ConfigureEnv, Export, capture
  <2>2. QED
    BY <2>1 DEF Open, MapInv, LoadOf
<1>3. QED
  BY <1>1, <1>2

(* The list only grows, and by what is reported while a fetch runs or not. *)
LEMMA ErrorsStep ==
  ASSUME TypeOK, Next
  PROVE  /\ ErrorCount(errors) \in Nat /\ ErrorCount(errors') \in Nat
         /\ ErrorCount(errors) <= ErrorCount(errors')
         /\ \A j \in 1..ErrorCount(errors) : errors'[j] = errors[j]
         /\ ~ReportError => errors' = errors
         /\ \A j \in 1..ErrorCount(errors') : j > ErrorCount(errors) =>
              errors'[j] = IF fetching = NoFetch THEN "quiet" ELSE "busy"
<1>0. ErrorCount(errors) \in Nat
  BY DEF TypeOK, ErrorCount
<1>1. CASE ReportError
  <2> DEFINE e == IF fetching = NoFetch THEN "quiet" ELSE "busy"
  <2>1. e \in {"quiet", "busy"} /\ errors' = Record(errors, e)
    BY <1>1 DEF ReportError
  <2>2. errors \in Seq({"quiet", "busy"})
    BY DEF TypeOK
  <2> HIDE DEF e
  <2>3. /\ ErrorCount(errors') = ErrorCount(errors) + 1
        /\ \A j \in 1..ErrorCount(errors) : errors'[j] = errors[j]
        /\ errors'[ErrorCount(errors) + 1] = e
    BY <2>1, <2>2 DEF Record, ErrorCount
  <2>5. \A j \in 1..ErrorCount(errors') : j > ErrorCount(errors) => errors'[j] = e
    BY <1>0, <2>3
  <2>6. ErrorCount(errors') \in Nat /\ ErrorCount(errors) <= ErrorCount(errors')
    BY <1>0, <2>3
  <2>7. QED
    BY <1>0, <1>1, <2>3, <2>5, <2>6 DEF e
<1>2. CASE ~ReportError
  <2>1. errors' = errors
    BY <1>2 DEF Next, ConfigureEnv, Export, Open, AskDescriptor, AskLive,
         AskTextures, AskUnused, AskManifest, AskIndex, FetchNothing, PlayAll,
         PlayTo, Rewind, Forwarded, BeginFetch, EndFetch, ChangeDisk
  <2>2. QED
    BY <1>0, <1>2, <2>1
<1>3. QED
  BY <1>1, <1>2

(* Who begins and ends fetches, and makes an error surface. *)
LEMMA FetchStep ==
  ASSUME Next
  PROVE  \/ UNCHANGED <<fetching, mark, surfaced>>
         \/ /\ \E class \in Classes, refs \in SUBSET Refs : BeginFetch(class, refs)
            /\ mark' = ErrorCount(errors) /\ surfaced' = surfaced
         \/ /\ EndFetch /\ fetching # NoFetch /\ fetching' = NoFetch
            /\ \/ surfaced' = surfaced
               \/ /\ ErrorOfFetch # NoError
                  /\ surfaced' = surfaced \cup {ErrorOfFetch}
<1> USE DEF capture, replayer, history
<1>1. CASE \/ \E cfg \in Configs : ConfigureEnv(cfg)
           \/ \E v \in Owned : Export(v)
           \/ Open
  BY <1>1 DEF ConfigureEnv, Export, Open
<1>2. CASE \/ \E r \in Refs : AskDescriptor(r) \/ AskLive(r)
           \/ AskTextures \/ AskUnused \/ AskManifest \/ AskIndex
           \/ FetchNothing
  BY <1>2 DEF AskDescriptor, AskLive, AskTextures, AskUnused, AskManifest,
       AskIndex, FetchNothing
<1>3. CASE Plays
  BY <1>3, PlaysStep DEF Forwarded
<1>4. CASE \E class \in Classes, refs \in SUBSET Refs : BeginFetch(class, refs)
  BY <1>4 DEF BeginFetch
<1>5. CASE EndFetch
  BY <1>5 DEF EndFetch, Finish
<1>6. CASE \/ ReportError
           \/ \E m \in Manifests : ChangeDisk(m)
  BY <1>6 DEF ReportError, ChangeDisk
<1>7. QED
  BY <1>1, <1>2, <1>3, <1>4, <1>5, <1>6 DEF Next, Plays

LEMMA MarkNext == IInv /\ Next => MarkInv'
<1> SUFFICES ASSUME IInv, Next PROVE MarkInv'
  OBVIOUS
<1>0. TypeOK /\ MarkInv
  BY DEF IInv
<1>1. ASSUME NEW at \in surfaced
      PROVE  at \in 1..ErrorCount(errors)' /\ errors'[at] = "busy"
  <2>1. at \in 1..ErrorCount(errors) /\ errors[at] = "busy"
    BY <1>0 DEF MarkInv
  <2>2. QED
    BY <1>0, <2>1, ErrorsStep
<1>2. CASE UNCHANGED <<fetching, mark, surfaced>>
  <2>1. ASSUME fetching # NoFetch, NEW at \in 1..ErrorCount(errors'), mark < at
        PROVE  errors'[at] = "busy"
    <3>1. CASE at \in 1..ErrorCount(errors)
      BY <1>0, <2>1, <3>1, ErrorsStep DEF MarkInv
    <3>2. CASE at > ErrorCount(errors)
      BY <1>0, <2>1, <3>2, ErrorsStep
    <3>3. QED
      BY <1>0, <3>1, <3>2, ErrorsStep
  <2>2. QED
    BY <1>1, <1>2, <2>1 DEF MarkInv
<1>3. CASE /\ \E class \in Classes, refs \in SUBSET Refs : BeginFetch(class, refs)
           /\ mark' = ErrorCount(errors) /\ surfaced' = surfaced
  <2>1. errors' = errors
    BY <1>3 DEF BeginFetch
  <2>2. QED
    BY <1>0, <1>1, <1>3, <2>1, ErrorsStep DEF MarkInv
<1>4. CASE /\ EndFetch /\ fetching # NoFetch /\ fetching' = NoFetch
           /\ surfaced' = surfaced
  BY <1>1, <1>4 DEF MarkInv
<1>5. CASE /\ EndFetch /\ fetching # NoFetch /\ fetching' = NoFetch
           /\ ErrorOfFetch # NoError
           /\ surfaced' = surfaced \cup {ErrorOfFetch}
  <2>1. /\ ErrorOfFetch \in Nat \ {0} /\ mark < ErrorOfFetch
        /\ ErrorOfFetch <= ErrorCount(errors)
    BY <1>0, <1>5, FoundPastMark DEF ErrorOfFetch, TypeOK
  <2>2. ErrorOfFetch \in 1..ErrorCount(errors)
    BY <1>0, <2>1, ErrorsStep
  <2>3. errors[ErrorOfFetch] = "busy"
    BY <1>0, <1>5, <2>1, <2>2 DEF MarkInv
  <2>4. errors' = errors
    BY <1>5 DEF EndFetch
  <2>5. QED
    BY <1>1, <1>5, <2>2, <2>3, <2>4 DEF MarkInv
<1>6. QED
  BY <1>2, <1>3, <1>4, <1>5, FetchStep

LEMMA ClosedNext == IInv /\ Next => ClosedInv'
<1> SUFFICES ASSUME IInv, Next, ~isOpen' PROVE ClosedInv'
  BY DEF ClosedInv
<1>1. ~isOpen
  BY FixedOnceOpen
<1>2. \/ \E cfg \in Configs : ConfigureEnv(cfg)
      \/ \E v \in Owned : Export(v)
  BY <1>1, OnlyEnvBeforeOpen DEF IInv, Open
<1>3. QED
  BY <1>1, <1>2 DEF IInv, ClosedInv, ConfigureEnv, Export, capture

(* Who answers what. *)
LEMMA AnswerStep ==
  ASSUME Next
  PROVE  \/ answer' = answer /\ played' = played
         \/ answer' = Silence
         \/ answer'.api \in {"descriptor", "textures", "unused", "manifest"}
         \/ \E r \in Refs : AskLive(r)
         \/ AskIndex
         \/ FetchNothing
         \/ EndFetch
<1> USE DEF capture, replayer, history
<1>1. CASE \/ \E cfg \in Configs : ConfigureEnv(cfg)
           \/ \E v \in Owned : Export(v)
           \/ Open
  BY <1>1 DEF ConfigureEnv, Export, Open
<1>2. CASE \/ \E r \in Refs : AskDescriptor(r)
           \/ AskTextures \/ AskUnused \/ AskManifest
  BY <1>2 DEF AskDescriptor, AskTextures, AskUnused, AskManifest, Answer
<1>3. CASE Plays
  BY <1>3, PlaysStep DEF Forwarded
<1>4. CASE \E class \in Classes, refs \in SUBSET Refs : BeginFetch(class, refs)
  BY <1>4 DEF BeginFetch
<1>5. CASE \/ ReportError
           \/ \E m \in Manifests : ChangeDisk(m)
  BY <1>5 DEF ReportError, ChangeDisk
<1>6. QED
  BY <1>1, <1>2, <1>3, <1>4, <1>5 DEF Next, Plays

(* A fetch is answered as one, with what it served or nothing. *)
LEMMA EndFetchAnswer ==
  ASSUME EndFetch
  PROVE  answer'.api = "fetch" /\ answer'.refs \in {{}, Served(fetching)}
<1>1. PICK refs \in {{}, Served(fetching)} :
        \E kind, ok : Finish(kind, refs, ok)
  BY DEF EndFetch
<1>2. QED
  BY <1>1 DEF Finish, Answer

(* What the snapshot is where the layout is the measured one. *)
LEMMA SnapshotOfMap ==
  ASSUME SnapInv, isOpen, target = "map"
  PROVE  loaded = ViewOf("map", LoadOf(forced) \cap Textures)
  BY DEF SnapInv, LoadedTextures, ObjectMap

LEMMA ServedNext == IInv /\ Next => ServedHasDescriptor'
<1> SUFFICES ASSUME IInv, Next, (answer.api = "fetch")', (target = "map")'
             PROVE  (answer.refs \cap Textures \subseteq loaded.refs)'
  BY DEF ServedHasDescriptor
<1>1. Silence.api # "fetch"
  BY DEF Silence
<1>2. CASE answer' = answer /\ played' = played
  <2>1. isOpen
    BY <1>1, <1>2 DEF IInv, ClosedInv
  <2>2. QED
    BY <1>2, <2>1, FixedOnceOpen DEF IInv, ServedHasDescriptor
<1>3. CASE FetchNothing
  BY <1>3 DEF FetchNothing, Answer
<1>4. CASE EndFetch
  <2>1. isOpen
    BY <1>4 DEF IInv, ClosedInv, EndFetch
  <2>2. UNCHANGED <<loaded, target>>
    BY <2>1, FixedOnceOpen
  <2>3. loaded.refs = LoadOf(forced) \cap Textures
    BY <2>1, <2>2, SnapshotOfMap DEF IInv, ViewOf
  <2>4. answer'.refs \in {{}, Served(fetching)}
    BY <1>4, EndFetchAnswer
  <2>5. Served(fetching) \cap Textures \subseteq LoadOf(forced) \cap Textures
    BY ServedIsLoaded DEF IInv, TypeOK
  <2>6. QED
    BY <2>2, <2>3, <2>4, <2>5
<1>5. CASE (\E r \in Refs : AskLive(r)) \/ AskIndex
  BY <1>5 DEF AskLive, AskIndex, Answer
<1>6. QED
  BY <1>1, <1>2, <1>3, <1>4, <1>5, AnswerStep

LEMMA LiveNext == IInv /\ Next => LiveNoneIsExplained'
<1> SUFFICES ASSUME IInv, Next, (answer.api = "live")', (answer.kind = "none")'
             PROVE  (/\ target = "map"
                     /\ answer.ref \in LoadOf(forced) \cap Textures => played)'
  BY DEF LiveNoneIsExplained
<1>1. Silence.api # "live"
  BY DEF Silence
<1>2. CASE answer' = answer /\ played' = played
  <2>1. isOpen
    BY <1>1, <1>2 DEF IInv, ClosedInv
  <2>2. UNCHANGED <<target, forced>>
    BY <2>1, FixedOnceOpen
  <2>3. LoadOf(forced)' = LoadOf(forced)
    BY <2>2 DEF LoadOf
  <2>4. QED
    BY <1>2, <2>2, <2>3 DEF IInv, LiveNoneIsExplained
<1>3. CASE \E r \in Refs : AskLive(r)
  <2>1. PICK r \in Refs : AskLive(r)
    BY <1>3
  <2>2. /\ isOpen
        /\ answer'.ref = r
        /\ answer'.kind = DescriptorIn(LoadedTextures(target, map), r)
        /\ UNCHANGED <<target, forced, map, played>>
    BY <2>1 DEF AskLive, Answer, LiveDescriptor, Ready, replayer, history
  <2>3. /\ LoadedTextures(target, map).why = "map"
        /\ r \notin LoadedTextures(target, map).refs
    BY <2>2 DEF DescriptorIn
  <2>4. target = "map" /\ r \notin map \cap Textures
    BY <2>3 DEF LoadedTextures, ViewOf, ObjectMap, IInv, TypeOK, Targets
  <2>5. r \in LoadOf(forced) \cap Textures => played
    BY <2>2, <2>4 DEF IInv, MapInv
  <2>6. LoadOf(forced)' = LoadOf(forced)
    BY <2>2 DEF LoadOf
  <2>7. QED
    BY <2>2, <2>4, <2>5, <2>6
<1>4. CASE FetchNothing \/ AskIndex
  BY <1>4 DEF FetchNothing, AskIndex, Answer
<1>5. CASE EndFetch
  BY <1>5, EndFetchAnswer
<1>6. QED
  BY <1>1, <1>2, <1>3, <1>4, <1>5, AnswerStep

(* A stuttering step keeps all of it. *)
LEMMA StutterInv == IInv /\ UNCHANGED vars => IInv'
<1> SUFFICES ASSUME IInv, UNCHANGED vars PROVE IInv'
  OBVIOUS
<1> USE DEF vars, capture, replayer, history
<1>1. TypeOK'
  BY DEF IInv, TypeOK
<1>2. EnvInv' /\ SnapInv' /\ MapInv'
  BY DEF IInv, EnvInv, SnapInv, MapInv, LoadsUnused, LoadedTextures, UnusedRefs,
     LoadOf
<1>3. MarkInv' /\ ClosedInv'
  BY DEF IInv, MarkInv, ClosedInv
<1>4. ServedHasDescriptor' /\ LiveNoneIsExplained'
  BY DEF IInv, ServedHasDescriptor, LiveNoneIsExplained, LoadOf
<1>5. QED
  BY <1>1, <1>2, <1>3, <1>4 DEF IInv

LEMMA NextInv == IInv /\ [Next]_vars => IInv'
<1> SUFFICES ASSUME IInv, Next PROVE IInv'
  BY StutterInv
<1>1. TypeOK'
  BY TypeNext DEF IInv
<1>2. EnvInv' /\ SnapInv' /\ MapInv' /\ MarkInv' /\ ClosedInv'
  BY EnvNext, SnapNext, MapNext, MarkNext, ClosedNext
<1>3. ServedHasDescriptor' /\ LiveNoneIsExplained'
  BY ServedNext, LiveNext
<1>4. QED
  BY <1>1, <1>2, <1>3 DEF IInv

LEMMA Invariance == Spec => []IInv
  BY InitInv, NextInv, PTL DEF Spec

-----------------------------------------------------------------------------
(* The theorems. *)

(* The Capture keeps its type invariant. *)
THEOREM TypeCorrect == Spec => []TypeOK
<1>1. IInv => TypeOK
  BY DEF IInv
<1>2. QED
  BY <1>1, Invariance, PTL

(* Whatever was exported before, the config applied last decides the load. *)
THEOREM ConfigDecides == Spec => []ConfigDecidesLoad
<1>1. IInv => ConfigDecidesLoad
  BY DEF IInv, EnvInv, ConfigDecidesLoad, LoadsUnused
<1>2. QED
  BY <1>1, Invariance, PTL

(* Every texture a fetch serves has its descriptor in the snapshot. *)
THEOREM ServedAreDescribed == Spec => []ServedHasDescriptor
<1>1. IInv => ServedHasDescriptor
  BY DEF IInv
<1>2. QED
  BY <1>1, Invariance, PTL

(* A live read answers "not loaded" of a loaded texture only after         *)
(* playback, and never because the layout is not the measured one.         *)
THEOREM LiveNoneExplained == Spec => []LiveNoneIsExplained
<1>1. IInv => LiveNoneIsExplained
  BY DEF IInv
<1>2. QED
  BY <1>1, Invariance, PTL

(* However many errors are reported, one that came while no fetch was      *)
(* running never surfaces.                                                 *)
THEOREM QuietErrorsStayQuiet == Spec => []QuietErrorsNeverSurface
<1>1. IInv => QuietErrorsNeverSurface
  BY DEF IInv, MarkInv, QuietErrorsNeverSurface
<1>2. QED
  BY <1>1, Invariance, PTL

-----------------------------------------------------------------------------
(* The facade. *)

LEMMA FacadeInit == Init => Facade!Init
  BY DEF Init, Facade!Init, Facade!NoView, Facade!Silence, NoView, Silence,
     facadeAnswer

LEMMA SilenceIsSilence == Facade!Silence = Silence /\ Silence.api = "none"
  BY DEF Facade!Silence, Silence

(* An answer that is not the facade's reads as none, and so does a call    *)
(* that returns nothing.                                                   *)
LEMMA FacadeForgets ==
  ASSUME UNCHANGED <<isOpen, loaded, unused, bundle>>,
         \/ answer' = Silence
         \/ answer'.api \in {"live", "index", "fetch"}
  PROVE  Facade!Next
<1>1. facadeAnswer' = Silence
  BY SilenceIsSilence DEF facadeAnswer
<1>2. QED
  BY <1>1, SilenceIsSilence DEF Facade!Next, Facade!Forget

LEMMA FacadeStep ==
  ASSUME IInv, TypeOK', Next
  PROVE  [Facade!Next]_(Facade!vars)
<1> USE DEF capture, replayer, history
<1>1. CASE \/ \E cfg \in Configs : ConfigureEnv(cfg)
           \/ \E v \in Owned : Export(v)
           \/ ReportError
           \/ \E m \in Manifests : ChangeDisk(m)
  BY <1>1 DEF ConfigureEnv, Export, ReportError, ChangeDisk, Facade!vars,
       facadeAnswer
<1>2. CASE Open
  <2>1. loaded' \in Facade!Views /\ unused' \in Facade!Views
    BY DEF TypeOK, Views, Facade!Views
  <2>2. facadeAnswer' = Facade!Silence
    BY <1>2, SilenceIsSilence DEF Open, facadeAnswer
  <2>3. QED
    BY <1>2, <2>1, <2>2 DEF Open, Facade!Next, Facade!Open
<1>3. CASE \E r \in Refs : AskDescriptor(r)
  <2>1. PICK r \in Refs : AskDescriptor(r)
    BY <1>3
  <2>2. facadeAnswer' = answer'
    BY <2>1 DEF AskDescriptor, Answer, facadeAnswer
  <2>3. Facade!AskDescriptor(r)
    BY <2>1, <2>2 DEF AskDescriptor, Answer, DescriptorIn, Facade!AskDescriptor,
       Facade!DescriptorOutcome
  <2>4. QED
    BY <2>1, <2>3 DEF AskDescriptor, Ready, Facade!Next, Facade!Ask
<1>4. CASE AskTextures
  <2>1. facadeAnswer' = answer'
    BY <1>4 DEF AskTextures, Answer, facadeAnswer
  <2>2. loaded.why # "map" => loaded.refs = {}
    BY <1>4 DEF AskTextures, Ready, IInv, SnapInv, LoadedTextures, ViewOf
  <2>3. Facade!AskAll("textures", loaded)
    BY <1>4, <2>1, <2>2 DEF AskTextures, Answer, ViewKind, Facade!AskAll
  <2>4. QED
    BY <1>4, <2>3 DEF AskTextures, Ready, Facade!Next, Facade!Ask
<1>5. CASE AskUnused
  <2>1. facadeAnswer' = answer'
    BY <1>5 DEF AskUnused, Answer, facadeAnswer
  <2>2. unused.why # "map" => unused.refs = {}
    BY <1>5 DEF AskUnused, Ready, IInv, SnapInv, UnusedRefs, ViewOf
  <2>3. Facade!AskAll("unused", unused)
    BY <1>5, <2>1, <2>2 DEF AskUnused, Answer, ViewKind, Facade!AskAll
  <2>4. QED
    BY <1>5, <2>3 DEF AskUnused, Ready, Facade!Next, Facade!Ask
<1>6. CASE AskManifest
  <2>1. facadeAnswer' = answer'
    BY <1>6 DEF AskManifest, Answer, facadeAnswer
  <2>2. PICK m \in Manifests : bundle' = m
    BY <1>6 DEF AskManifest, IInv, TypeOK
  <2>3. Facade!AskManifest(m)
    BY <1>6, <2>1, <2>2 DEF AskManifest, Answer, Facade!AskManifest
  <2>4. QED
    BY <1>6, <2>2, <2>3 DEF AskManifest, Ready, Facade!Next, Facade!Ask
<1>7. CASE \/ \E r \in Refs : AskLive(r)
           \/ AskIndex
           \/ FetchNothing
  BY <1>7, FacadeForgets DEF AskLive, AskIndex, FetchNothing, Answer
<1>8. CASE Plays
  BY <1>8, PlaysStep, FacadeForgets DEF Forwarded
<1>9. CASE \E class \in Classes, refs \in SUBSET Refs : BeginFetch(class, refs)
  BY <1>9, FacadeForgets DEF BeginFetch
<1>10. CASE EndFetch
  <2>1. UNCHANGED <<isOpen, loaded, unused, bundle>>
    BY <1>10 DEF EndFetch
  <2>2. QED
    BY <1>10, <2>1, EndFetchAnswer, FacadeForgets
<1>11. QED
  BY <1>1, <1>2, <1>3, <1>4, <1>5, <1>6, <1>7, <1>8, <1>9, <1>10 DEF Next, Plays

(* The descriptor and manifest API answers as CaptureFacade allows,        *)
(* whatever is played, fetched and reported in between.                    *)
THEOREM CaptureImplementsFacade == Spec => ImplementsFacade
<1>1. IInv /\ IInv' /\ [Next]_vars => [Facade!Next]_(Facade!vars)
  <2> SUFFICES ASSUME IInv, IInv', [Next]_vars PROVE [Facade!Next]_(Facade!vars)
    OBVIOUS
  <2>1. CASE Next
    BY <2>1, FacadeStep DEF IInv
  <2>2. CASE UNCHANGED vars
    BY <2>2 DEF vars, capture, Facade!vars, facadeAnswer
  <2>3. QED
    BY <2>1, <2>2
<1>2. QED
  BY <1>1, FacadeInit, Invariance, PTL DEF Spec, ImplementsFacade, Facade!Spec
=============================================================================
