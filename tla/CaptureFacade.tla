---------------------------- MODULE CaptureFacade ----------------------------
(***************************************************************************)
(* What a Capture promises whoever asks it about its bundle: one view of   *)
(* the loaded textures and one of the unused resources, both fixed when it *)
(* is opened, and one parse of the manifest, fixed when it is first asked  *)
(* for.  Playback, rewinding and fetches do not exist here: no answer may  *)
(* depend on them.                                                         *)
(***************************************************************************)
CONSTANTS
  Refs,         (* the streamRefs a caller may name                        *)
  Layouts,      (* what the measured offset of the object map may lead to  *)
  Manifests     (* what a manifest may turn out to be                      *)

VARIABLES
  isOpen,
  view,         (* the loaded textures: why they are unknown, or "map"     *)
  idle,         (* the unused resources, likewise                          *)
  manifest,     (* the manifest's condition, "unread" at first             *)
  answer        (* the latest answer                                       *)

vars == <<isOpen, view, idle, manifest, answer>>

Views    == [why : Layouts, refs : SUBSET Refs]
NoView   == [why |-> "map", refs |-> {}]
Silence  == [api |-> "none", ref |-> 0, kind |-> "none", refs |-> {}]

Init ==
  /\ isOpen = FALSE
  /\ view = NoView
  /\ idle = NoView
  /\ manifest = "unread"
  /\ answer = Silence

Open ==
  /\ ~isOpen
  /\ isOpen' = TRUE
  /\ view' \in Views
  /\ idle' \in Views
  /\ answer' = Silence
  /\ UNCHANGED manifest

(* Three outcomes for one streamRef: unknown, loaded, not loaded. *)
DescriptorOutcome(r) ==
  IF view.why # "map" THEN "err" ELSE IF r \in view.refs THEN "some" ELSE "none"

AskDescriptor(r) ==
  answer' = [api |-> "descriptor", ref |-> r, kind |-> DescriptorOutcome(r),
             refs |-> {}]

AskAll(api, v) ==
  answer' = [api  |-> api, ref |-> 0,
             kind |-> IF v.why = "map" THEN "ok" ELSE "err",
             refs |-> IF v.why = "map" THEN v.refs ELSE {}]

AskManifest(m) ==
  /\ manifest = "unread" \/ manifest = m
  /\ manifest' = m
  /\ answer' = [api |-> "manifest", ref |-> 0, kind |-> m, refs |-> {}]

Ask ==
  /\ isOpen
  /\ UNCHANGED <<isOpen, view, idle>>
  /\ \/ (\E r \in Refs : AskDescriptor(r)) /\ UNCHANGED manifest
     \/ AskAll("textures", view) /\ UNCHANGED manifest
     \/ AskAll("unused", idle) /\ UNCHANGED manifest
     \/ \E m \in Manifests : AskManifest(m)

Forget == answer' = Silence /\ UNCHANGED <<isOpen, view, idle, manifest>>

Next == Open \/ Ask \/ Forget

Spec == Init /\ [][Next]_vars
=============================================================================
