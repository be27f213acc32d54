--------------------------- MODULE DescriptorJoin ----------------------------
(***************************************************************************)
(* The offline join of describe.rs: describe_textures sorts the fetched    *)
(* textures by streamRef, drops all but the first of each streamRef, and   *)
(* zip_best_effort walks them against the manifest's descriptors in one    *)
(* pass, one descriptor at a time, never looking back or ahead.            *)
(*                                                                         *)
(* A texture or descriptor is abstracted to what the walk compares, its    *)
(* (width, height, format); a descriptor is known by its position.  The    *)
(* walk cannot know which descriptor a texture was really created from.    *)
(* The model does: `truth` is fixed with the inputs and read only by the   *)
(* properties.                                                             *)
(***************************************************************************)
EXTENDS Naturals, Sequences

CONSTANTS
  Geometries,     (* values of (width, height, format)                     *)
  Combined,       (* those whose format is combined depth and stencil      *)
  MaxRef,         (* bound on the streamRefs                               *)
  MaxTextures,    (* bound on the fetched textures                         *)
  MaxDescriptors  (* bound on the manifest's descriptors                   *)

ASSUME JoinAssumption ==
  /\ Combined \subseteq Geometries
  /\ MaxRef \in Nat /\ MaxTextures \in Nat /\ MaxDescriptors \in Nat

VARIABLES
  texs,         (* the fetched textures, in the order of the reply         *)
  descs,        (* the manifest's descriptors, by store0_offset            *)
  truth,        (* [Refs -> the descriptor it was created from, or None]   *)
  phase,
  order,        (* indices into texs, by streamRef, duplicates dropped     *)
  i, j,         (* the walk: next of order, next of descs                  *)
  matched,      (* [index into order -> descriptor, or None]: `out`        *)
  placed,       (* the descriptors the walk has placed                     *)
  perTexture,   (* [index into texs -> descriptor, or None]: the result    *)
  unplaced, transparent

inputs == <<texs, descs, truth>>
walk   == <<order, i, j, matched, placed>>
answer == <<perTexture, unplaced, transparent>>
vars   == <<inputs, phase, walk, answer>>

None     == 0
Refs     == 1..MaxRef
Textures == [ref : Refs, geom : Geometries]

SeqsUpTo(S, n) == UNION {[1..m -> S] : m \in 0..n}

(* The descriptor of texture t that the walk may place: the combined       *)
(* formats are never served, so a descriptor of one is nobody's.           *)
Served(t) ==
  LET d == truth[texs[t].ref]
  IN  IF d # None /\ descs[d] \notin Combined THEN d ELSE None

(* Both sides are numbered in creation order, and a texture has the        *)
(* geometry of the descriptor it was created from.                         *)
IsTruth ==
  /\ \A r1, r2 \in Refs :
       r1 < r2 /\ truth[r1] # None /\ truth[r2] # None => truth[r1] < truth[r2]
  /\ \A t \in DOMAIN texs :
       Served(t) # None => texs[t].geom = descs[Served(t)]

TypeOK ==
  /\ texs \in Seq(Textures)
  /\ descs \in Seq(Geometries)
  /\ truth \in [Refs -> 0..Len(descs)]
  /\ phase \in {"start", "zip", "done"}
  /\ order \in Seq(DOMAIN texs)
  /\ i \in 1..(Len(order) + 1)
  /\ j \in 1..(Len(descs) + 1)
  /\ matched \in [1..Len(order) -> 0..Len(descs)]
  /\ placed \subseteq DOMAIN descs
  /\ perTexture \in [DOMAIN texs -> 0..Len(descs)]
  /\ unplaced \subseteq DOMAIN descs
  /\ transparent \subseteq DOMAIN descs

Init ==
  /\ texs \in SeqsUpTo(Textures, MaxTextures)
  /\ descs \in SeqsUpTo(Geometries, MaxDescriptors)
  /\ truth \in [Refs -> 0..Len(descs)]
  /\ IsTruth
  /\ phase = "start"
  /\ order = <<>>
  /\ i = 1 /\ j = 1
  /\ matched = <<>>
  /\ placed = {}
  /\ perTexture = [t \in DOMAIN texs |-> None]
  /\ unplaced = {} /\ transparent = {}

-----------------------------------------------------------------------------
(* No manifest, or one without textures: nothing is described. *)
NoManifest ==
  /\ phase = "start"
  /\ descs = <<>>
  /\ phase' = "done"
  /\ UNCHANGED <<inputs, walk, answer>>

(* What sort_by_key (which is stable) and the filter on `seen` leave: of   *)
(* each streamRef its first texture, by ascending streamRef.               *)
IsOrder(s) ==
  /\ \A a, b \in DOMAIN s : a < b => texs[s[a]].ref < texs[s[b]].ref
  /\ \A a \in DOMAIN s, t \in DOMAIN texs :
       texs[t].ref = texs[s[a]].ref => s[a] <= t
  /\ \A t \in DOMAIN texs : \E a \in DOMAIN s : texs[s[a]].ref = texs[t].ref

Sort ==
  /\ phase = "start"
  /\ descs # <<>>
  /\ \E s \in SeqsUpTo(DOMAIN texs, Len(texs)) :
       /\ IsOrder(s)
       /\ order' = s
       /\ matched' = [a \in 1..Len(s) |-> None]
  /\ phase' = "zip"
  /\ UNCHANGED <<inputs, i, j, placed, answer>>

(* The walk is at texture order[i] and, once the combined descriptors are  *)
(* skipped, at descriptor j.                                               *)
AtCombined == j <= Len(descs) /\ descs[j] \in Combined
Agree      == j <= Len(descs) /\ descs[j] = texs[order[i]].geom

Skip ==
  /\ phase = "zip"
  /\ i <= Len(order)
  /\ AtCombined
  /\ j' = j + 1
  /\ UNCHANGED <<inputs, phase, order, i, matched, placed, answer>>

MatchUnchecked ==
  /\ phase = "zip"
  /\ i <= Len(order)
  /\ ~AtCombined
  /\ j <= Len(descs)
  /\ matched' = [matched EXCEPT ![i] = j]
  /\ placed' = placed \cup {j}
  /\ i' = i + 1
  /\ j' = j + 1
  /\ UNCHANGED <<inputs, phase, order, answer>>

MatchKeeping ==
  /\ phase = "zip"
  /\ i <= Len(order)
  /\ ~AtCombined
  /\ Agree
  /\ matched' = [matched EXCEPT ![i] = j]
  /\ placed' = placed \cup {j}
  /\ i' = i + 1
  /\ UNCHANGED <<inputs, phase, order, j, answer>>

Match ==
  /\ phase = "zip"
  /\ i <= Len(order)
  /\ ~AtCombined
  /\ Agree
  /\ matched' = [matched EXCEPT ![i] = j]
  /\ placed' = placed \cup {j}
  /\ i' = i + 1
  /\ j' = j + 1
  /\ UNCHANGED <<inputs, phase, order, answer>>

MissBoth ==
  /\ phase = "zip"
  /\ i <= Len(order)
  /\ ~AtCombined
  /\ ~Agree
  /\ i' = i + 1
  /\ j' = j + 1
  /\ UNCHANGED <<inputs, phase, order, matched, placed, answer>>

(* The texture gets None; the descriptor waits for a later texture. *)
Miss ==
  /\ phase = "zip"
  /\ i <= Len(order)
  /\ ~AtCombined
  /\ ~Agree
  /\ i' = i + 1
  /\ UNCHANGED <<inputs, phase, order, j, matched, placed, answer>>

Finish ==
  /\ phase = "zip"
  /\ i > Len(order)
  /\ perTexture' = [t \in DOMAIN texs |->
       IF \E a \in DOMAIN order : order[a] = t
         THEN matched[CHOOSE a \in DOMAIN order : order[a] = t]
         ELSE None]
  /\ transparent' = {d \in DOMAIN descs : descs[d] \in Combined}
  /\ unplaced' = {d \in DOMAIN descs : descs[d] \notin Combined /\ d \notin placed}
  /\ phase' = "done"
  /\ UNCHANGED <<inputs, walk>>

Next == NoManifest \/ Sort \/ Skip \/ Match \/ Miss \/ Finish

Spec == Init /\ [][Next]_vars

-----------------------------------------------------------------------------
(* Properties of the result. *)

Done == phase = "done"

(* Every descriptor is in exactly one place: given to one texture, left    *)
(* unplaced, or transparent.                                               *)
EachDescriptorOnce ==
  Done => \A d \in DOMAIN descs :
    LET holders == {t \in DOMAIN texs : perTexture[t] = d}
    IN  /\ d \in transparent <=> descs[d] \in Combined
        /\ d \in unplaced <=> d \notin transparent /\ holders = {}
        /\ \A t1, t2 \in holders : t1 = t2 /\ d \notin transparent

(* The pairing respects creation order on both sides, so no two textures   *)
(* are crossed, and dims and format are a hard check on each pairing.      *)
PairsInOrder ==
  Done => \A t1, t2 \in DOMAIN texs :
    perTexture[t1] # None /\ perTexture[t2] # None =>
      /\ texs[t1].ref < texs[t2].ref <=> perTexture[t1] < perTexture[t2]
      /\ texs[t1].geom = descs[perTexture[t1]]

(* The inputs on which the walk can tell: every descriptor it may place    *)
(* was fetched, and no texture without one looks like one that has.        *)
Unambiguous ==
  /\ \A d \in DOMAIN descs :
       descs[d] \notin Combined => \E t \in DOMAIN texs : Served(t) = d
  /\ \A t \in DOMAIN texs :
       Served(t) = None =>
         \A d \in DOMAIN descs : descs[d] \notin Combined =>
                                   descs[d] # texs[t].geom

FirstOfItsRef(t) ==
  \A u \in DOMAIN texs : texs[u].ref = texs[t].ref => t <= u

(* On such inputs the join is right, texture for texture: none is shifted, *)
(* none that has a descriptor goes without.                                *)
ExactWhenUnambiguous ==
  Done /\ Unambiguous =>
    \A t \in DOMAIN texs : FirstOfItsRef(t) => perTexture[t] = Served(t)
=============================================================================
