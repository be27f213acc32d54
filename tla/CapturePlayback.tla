--------------------------- MODULE CapturePlayback ---------------------------
(***************************************************************************)
(* A Capture (capture.rs) over an open Session: the configuration it is    *)
(* opened under, the snapshot it takes of the replayer's object map,       *)
(* playback, and fetches, whose own protocol is FetchProtocol's.  One      *)
(* thread owns a Capture, so its calls come one after the other; what runs *)
(* beside them is the replayer, which reports errors whenever it likes.    *)
(*                                                                         *)
(* The replayer is external.  What playback and fetches do to its object   *)
(* map and command index is what the comments of session.rs and capture.rs *)
(* say was measured; where nothing was measured, any outcome may come.     *)
(***************************************************************************)
EXTENDS Naturals, ErrorObserver

CONSTANTS
  Owned,        (* the MTLREPLAYER_* variables a ReplayerConfig owns       *)
  MaxRef,       (* bound on the streamRefs a caller names                  *)
  Captured,     (* the streamRefs of the capture's resources               *)
  Textures,     (* those of them that are textures                         *)
  Unused,       (* those the captured commands never use                   *)
  Manifests,    (* what a manifest may turn out to be when it is parsed    *)
  LastCommand,  (* commands of the capture: the index playback ends at     *)
  MaxErrors     (* bound on the errors the replayer reports                *)

Refs == 1..MaxRef

ASSUME CaptureAssumption ==
  /\ {"force", "ignore"} \subseteq Owned
  /\ MaxRef \in Nat
  /\ LastCommand \in Nat
  /\ MaxErrors \in Nat
  /\ Captured \subseteq Refs
  /\ Textures \subseteq Captured
  /\ Unused \subseteq Captured

Configs == [Owned -> BOOLEAN]
NoConfig == {}

(* What `controller + OBJECT_MAP_OFFSET` holds in this build of the        *)
(* framework: the object map, no heap object, or another object; and what  *)
(* controller_object_map makes of it.                                      *)
Targets   == {"map", "stray", "other"}
Layouts   == {"map", "NotHeapObject", "WrongClass"}
Classes   == {"textures", "other"}

VARIABLES
  (* the process, before there is a session *)
  env,          (* [Owned -> whether the variable is set]                  *)
  (* the Capture *)
  isOpen,
  loaded,       (* its snapshot of the loaded textures                     *)
  unused,       (* its snapshot of the unused resources                    *)
  bundle,       (* the OnceCell: "unread", or the manifest's condition     *)
  fetching,     (* the fetch it is in, or NoFetch                          *)
  mark,         (* that fetch's mark                                       *)
  answer,       (* what its latest call returned                           *)
  (* the replayer *)
  target,       (* what the measured offset leads to                       *)
  forced,       (* the load includes the unused resources                  *)
  map,          (* the streamRefs in its object map                        *)
  index,        (* its command index                                       *)
  errors,       (* the observer's list: when each was reported             *)
  disk,         (* the bundle's manifest, as it is on disk                 *)
  (* history, read by properties only *)
  applied,      (* {the config applied last}, {} if a variable changed since*)
  played,       (* playback or a rewind ran since the map was last filled  *)
  surfaced      (* positions of the errors some call returned              *)

capture  == <<isOpen, loaded, unused, bundle, fetching, mark>>
replayer == <<target, forced, map, index>>
history  == <<applied, played, surfaced>>
vars     == <<env, capture, answer, replayer, errors, disk, history>>

Views   == [why : Layouts, refs : SUBSET Refs]
NoView  == [why |-> "map", refs |-> {}]
NoFetch == [class |-> "none", refs |-> {}]
Silence == [api |-> "none", ref |-> 0, kind |-> "none", refs |-> {}]

Answers ==
  [api  : {"none", "descriptor", "textures", "unused", "manifest", "live",
           "index", "fetch"},
   ref  : Nat,
   kind : {"none", "some", "ok", "err", "refused", "replayer", "failed"}
            \cup Manifests,
   refs : SUBSET Refs]

TypeOK ==
  /\ env \in Configs
  /\ isOpen \in BOOLEAN
  /\ loaded \in Views
  /\ unused \in Views
  /\ bundle \in Manifests \cup {"unread"}
  /\ fetching \in [class : Classes \cup {"none"}, refs : SUBSET Refs]
  /\ mark \in Nat
  /\ answer \in Answers
  /\ target \in Targets
  /\ forced \in BOOLEAN
  /\ map \in SUBSET Captured
  /\ index \in 0..LastCommand
  /\ errors \in Seq({"quiet", "busy"})
  /\ disk \in Manifests
  /\ applied \in SUBSET Configs
  /\ played \in BOOLEAN
  /\ surfaced \in SUBSET (Nat \ {0})

Init ==
  /\ env \in Configs
  /\ isOpen = FALSE
  /\ loaded = NoView
  /\ unused = NoView
  /\ bundle = "unread"
  /\ fetching = NoFetch
  /\ mark = 0
  /\ answer = Silence
  /\ target \in Targets
  /\ forced = FALSE
  /\ map = {}
  /\ index = 0
  /\ errors = <<>>
  /\ disk \in Manifests
  /\ applied = NoConfig
  /\ played = FALSE
  /\ surfaced = {}

-----------------------------------------------------------------------------
(* Before the session: the environment. *)

ApplyEnvSetting(cfg) == [v \in Owned |-> cfg[v] \/ env[v]]

(* apply_env: a field that is on sets its variable, one that is off or     *)
(* None removes it.                                                        *)
ApplyEnv(cfg) == [v \in Owned |-> cfg[v]]

ConfigureEnv(cfg) ==
  /\ ~isOpen
  /\ env' = ApplyEnv(cfg)
  /\ applied' = {cfg}
  /\ UNCHANGED <<capture, answer, replayer, errors, disk, played, surfaced>>

(* Whatever ran before exported or removed one of the variables. *)
Export(v) ==
  /\ ~isOpen
  /\ env' = [env EXCEPT ![v] = ~@]
  /\ applied' = NoConfig
  /\ UNCHANGED <<capture, answer, replayer, errors, disk, played, surfaced>>

-----------------------------------------------------------------------------
(* Reading the object map. *)

(* The replayer loads what the commands use, and the rest if told to force *)
(* it and not to ignore it: ignore overrides force.                        *)
LoadsUnused(e) == e["force"] /\ ~e["ignore"]
LoadOf(f) == IF f THEN Captured ELSE Captured \ Unused

(* controller_object_map: malloc_size is 0 for null and for what is not a  *)
(* heap object, object_getClass tells any other class.                     *)
ObjectMap(t) ==
  CASE t = "map" -> "map"
    [] t = "stray" -> "NotHeapObject"
    [] t = "other" -> "WrongClass"

ViewOf(why, refs) == [why |-> why, refs |-> IF why = "map" THEN refs ELSE {}]

LoadedTexturesOfUsed(t, m) == ViewOf(ObjectMap(t), (m \cap Textures) \ Unused)

(* Session::loaded_textures and loaded_texture_refs: the keys of the map   *)
(* for which it has a texture.                                             *)
LoadedTextures(t, m) == ViewOf(ObjectMap(t), m \cap Textures)

(* Session::unused_resource_refs.  Whether the replayer still counts a     *)
(* resource as unused that it was forced to load is not measured.          *)
UnusedRefs(t, f, kept) == ViewOf(ObjectMap(t), IF f /\ ~kept THEN {} ELSE Unused)

(* Capture::open: Session::open loads the bundle under the environment as  *)
(* it is, and the object map is read twice before anything can play.       *)
Open ==
  /\ ~isOpen
  /\ isOpen' = TRUE
  /\ forced' = LoadsUnused(env)
  /\ map' = LoadOf(forced')
  /\ loaded' = LoadedTextures(target, map')
  /\ \E kept \in BOOLEAN : unused' = UnusedRefs(target, forced', kept)
  /\ answer' = Silence
  /\ UNCHANGED <<env, bundle, fetching, mark, target, index, errors, disk,
                 history>>

Ready == isOpen /\ fetching = NoFetch

Answer(api, r, kind, refs) ==
  answer' = [api |-> api, ref |-> r, kind |-> kind, refs |-> refs]

DescriptorIn(v, r) ==
  IF v.why # "map" THEN "err" ELSE IF r \in v.refs THEN "some" ELSE "none"

AskDescriptorLive(r) ==
  /\ Ready
  /\ Answer("descriptor", r, DescriptorIn(LoadedTextures(target, map), r), {})
  /\ UNCHANGED <<env, capture, replayer, errors, disk, history>>

(* Capture::texture_descriptor, from the snapshot. *)
AskDescriptor(r) ==
  /\ Ready
  /\ Answer("descriptor", r, DescriptorIn(loaded, r), {})
  /\ UNCHANGED <<env, capture, replayer, errors, disk, history>>

ViewKind(v) == IF v.why = "map" THEN "ok" ELSE "err"

(* Capture::loaded_textures, and loaded_texture_refs. *)
AskTextures ==
  /\ Ready
  /\ Answer("textures", 0, ViewKind(loaded), loaded.refs)
  /\ UNCHANGED <<env, capture, replayer, errors, disk, history>>

(* Capture::unused_resource_refs. *)
AskUnused ==
  /\ Ready
  /\ Answer("unused", 0, ViewKind(unused), unused.refs)
  /\ UNCHANGED <<env, capture, replayer, errors, disk, history>>

LiveDescriptorFlat(r) ==
  IF r \in LoadedTextures(target, map).refs THEN "some" ELSE "none"

LiveDescriptor(r) == DescriptorIn(LoadedTextures(target, map), r)

(* Session::texture_descriptor, from the live map: what a caller of the    *)
(* Session underneath would be told at this moment.                        *)
AskLive(r) ==
  /\ Ready
  /\ Answer("live", r, LiveDescriptor(r), {})
  /\ UNCHANGED <<env, capture, replayer, errors, disk, history>>

(* open_bundle: parsed at the first question, whatever the file is then.   *)
(* manifest_status, record_count and describe read what it holds.          *)
AskManifest ==
  /\ Ready
  /\ bundle' = IF bundle = "unread" THEN disk ELSE bundle
  /\ Answer("manifest", 0, bundle', {})
  /\ UNCHANGED <<env, isOpen, loaded, unused, fetching, mark, replayer, errors,
                 disk, history>>

-----------------------------------------------------------------------------
(* Playback. *)

(* What the framework does.  Playback that executes a command moves the    *)
(* index and releases every entry of the map.                              *)
AdvanceTo(i) ==
  /\ index' = i
  /\ map' = {}
  /\ played' = TRUE

StayPut == UNCHANGED <<index, map, played>>

(* playAll ends at the command count; nothing says whether it leaves the   *)
(* map alone when it is there already.  playTo only goes forward.  rewind  *)
(* tears down and restores, with what effect on the map is not measured.   *)
ReplayerPlaysAll == AdvanceTo(LastCommand) \/ (index = LastCommand /\ StayPut)
ReplayerPlaysTo(i) == IF index < i THEN AdvanceTo(i) ELSE StayPut
ReplayerRewinds ==
  \/ /\ index' = 0
     /\ map' \in {{}, map, LoadOf(forced)}
     /\ played' = TRUE
  \/ index = 0 /\ StayPut

(* The three calls hand over to it, unconditionally, and return nothing:   *)
(* an error of theirs shows in the observer's list or not at all.          *)
Forwarded ==
  /\ Ready
  /\ answer' = Silence
  /\ UNCHANGED <<env, capture, target, forced, errors, disk, applied, surfaced>>

PlayAll == Forwarded /\ ReplayerPlaysAll

PlayTo(i) == Forwarded /\ ReplayerPlaysTo(i)

Rewind == Forwarded /\ ReplayerRewinds

(* command_index, read where the replayer keeps it. *)
AskIndex ==
  /\ Ready
  /\ Answer("index", index, "ok", {})
  /\ UNCHANGED <<env, capture, replayer, errors, disk, history>>

-----------------------------------------------------------------------------
(* Fetches. *)

(* No streamRefs: an empty answer, and the session is not asked. *)
FetchNothing ==
  /\ Ready
  /\ Answer("fetch", 0, "ok", {})
  /\ UNCHANGED <<env, capture, replayer, errors, disk, history>>

BeginFetch(class, refs) ==
  /\ Ready
  /\ refs # {}
  /\ fetching' = [class |-> class, refs |-> refs]
  /\ mark' = ErrorCount(errors)
  /\ answer' = Silence
  /\ UNCHANGED <<env, isOpen, loaded, unused, bundle, replayer, errors, disk,
                 history>>

(* The resources of the fetch's class that the replayer can serve, loading *)
(* all of them again if playback released them.                            *)
Served(f) ==
  f.refs \cap LoadOf(forced)
    \cap (IF f.class = "textures" THEN Textures ELSE Captured \ Textures)

(* What a fetch leaves behind.  One that serves a texture fills the whole  *)
(* map, one that asks for absent textures alone does not; the rest is not  *)
(* measured.                                                               *)
Refill(f, ok) ==
  CASE ok /\ f.class = "textures" /\ Served(f) # {} -> {LoadOf(forced)}
    [] ok /\ f.class = "textures" -> {map}
    [] OTHER -> {map, LoadOf(forced)}

Finish(kind, refs, ok) ==
  /\ Answer("fetch", 0, kind, refs)
  /\ map' \in Refill(fetching, ok)
  /\ played' = (played /\ map' = {})
  /\ index' \in IF ok THEN {0} ELSE {0, index}
  /\ fetching' = NoFetch
  /\ mark' = 0

ErrorOfFetchFromStart == FirstError(errors)

(* What the observer heard since the fetch began. *)
ErrorOfFetch == FirstErrorSince(errors, mark)

(* The fetch returns: refused before or by -fetch: (no batch, no token),   *)
(* which leaves before the observer is asked; or the first error since its *)
(* mark; or a failure of its own (no reply in time, an unreadable one, a   *)
(* resource that cannot be created again); or the handles of what was      *)
(* served.                                                                 *)
EndFetch ==
  /\ fetching # NoFetch
  /\ LET at == ErrorOfFetch
     IN  \/ /\ Finish("refused", {}, FALSE)
            /\ UNCHANGED surfaced
         \/ /\ at # NoError
            /\ surfaced' = surfaced \cup {at}
            /\ \E ok \in BOOLEAN : Finish("replayer", {}, ok)
         \/ /\ at = NoError
            /\ Finish("failed", {}, FALSE)
            /\ UNCHANGED surfaced
         \/ /\ at = NoError
            /\ Finish("ok", Served(fetching), TRUE)
            /\ UNCHANGED surfaced
  /\ UNCHANGED <<env, isOpen, loaded, unused, bundle, target, forced, errors,
                 disk, applied>>

-----------------------------------------------------------------------------
(* The replayer, and the world. *)

(* An error of a playback or of a fetch, reported from a queue of the      *)
(* replayer's own at any time; it is noted whether a fetch was running.    *)
ReportError ==
  /\ isOpen
  /\ ErrorCount(errors) < MaxErrors
  /\ errors' = Record(errors, IF fetching = NoFetch THEN "quiet" ELSE "busy")
  /\ UNCHANGED <<env, capture, answer, replayer, disk, history>>

(* Another program rewrites the bundle's manifest. *)
ChangeDisk(m) ==
  /\ isOpen
  /\ disk # m
  /\ disk' = m
  /\ UNCHANGED <<env, capture, answer, replayer, errors, history>>

Next ==
  \/ \E cfg \in Configs : ConfigureEnv(cfg)
  \/ \E v \in Owned : Export(v)
  \/ Open
  \/ \E r \in Refs : AskDescriptor(r) \/ AskLive(r)
  \/ AskTextures
  \/ AskUnused
  \/ AskManifest
  \/ PlayAll
  \/ \E i \in 0..LastCommand : PlayTo(i)
  \/ Rewind
  \/ AskIndex
  \/ FetchNothing
  \/ \E class \in Classes, refs \in SUBSET Refs : BeginFetch(class, refs)
  \/ EndFetch
  \/ ReportError
  \/ \E m \in Manifests : ChangeDisk(m)

Spec == Init /\ [][Next]_vars

-----------------------------------------------------------------------------
(* Properties. *)

(* The variables a stale export left behind cannot change the load: if a   *)
(* config was applied last, unused resources are loaded exactly if it asks *)
(* for them and does not also ask to ignore them.                          *)
ConfigDecidesLoad ==
  isOpen => \A cfg \in applied : forced <=> cfg["force"] /\ ~cfg["ignore"]

(* Every texture a fetch ever serves, before or after playback, has its    *)
(* descriptor in the snapshot.                                             *)
ServedHasDescriptor ==
  answer.api = "fetch" /\ target = "map" =>
    answer.refs \cap Textures \subseteq loaded.refs

(* The three outcomes of a live descriptor read stay apart: it answers     *)
(* "not a loaded texture" of one that the load included only if playback or *)
(* a rewind has run since the map was last filled, and never because the   *)
(* map is not where it was measured to be.                                 *)
LiveNoneIsExplained ==
  answer.api = "live" /\ answer.kind = "none" =>
    /\ target = "map"
    /\ answer.ref \in LoadOf(forced) \cap Textures => played

(* An error reported while no fetch runs, as those of a playback mostly    *)
(* are, is never returned to anyone: no playback call reports it and every *)
(* later fetch marks the list behind it.                                   *)
QuietErrorsNeverSurface == \A at \in surfaced : errors[at] = "busy"

-----------------------------------------------------------------------------
(* What the facade's callers see of an answer: fetches and live reads are  *)
(* not its business.                                                       *)
facadeAnswer ==
  IF answer.api \in {"descriptor", "textures", "unused", "manifest"}
    THEN answer
    ELSE Silence

Facade == INSTANCE CaptureFacade WITH
  view <- loaded, idle <- unused, manifest <- bundle, answer <- facadeAnswer

(* The descriptor and manifest API implements CaptureFacade: nothing that  *)
(* is played, fetched or reported changes an answer of it.                 *)
ImplementsFacade == Facade!Spec
=============================================================================
