----------------------------- MODULE ArchiveGraph -----------------------------
(***************************************************************************)
(* What the decoders of ArchiveReaders promise, said of the archive as a   *)
(* graph and without a step of theirs: its walks, what a Uid stands for,   *)
(* and what tree a value means.                                            *)
(***************************************************************************)
EXTENDS ArchiveReaders, FiniteSets

(* What decoding v calls for: the members of a collection, in a dictionary *)
(* the keys too, and what a Uid refers to.                                 *)
Members(v) ==
  CASE Refers(v)             -> <<Target(v)>>
    [] v.kind = "nsarray"    -> v.objs
    [] v.kind = "nsdict" /\ Len(v.keys) = Len(v.objs) -> v.keys \o v.objs
    [] OTHER -> <<>>

Rng(s) == {s[i] : i \in DOMAIN s}

(* The values at the end of the walks of n steps from v, and from the root.*)
From(v) ==
  LET at[n \in Nat] ==
        IF n = 0 THEN {v} ELSE UNION {Rng(Members(w)) : w \in at[n - 1]}
  IN  at

AtDepth(n) == From(root)[n]

(* The sums of the first i members. *)
SumOf(s) ==
  LET sum[i \in Nat] == IF i \notin DOMAIN s THEN 0 ELSE sum[i - 1] + s[i]
  IN  sum

Total(s) == SumOf(s)[Len(s)]

(* How many walks of at most n steps start at each value. *)
Walks[n \in Nat] ==
  [v \in Values |->
     IF n = 0 THEN 1
     ELSE 1 + Total([i \in DOMAIN Members(v) |-> Walks[n - 1][Members(v)[i]]])]

(* What is left when every Uid in front of a value has been followed.  A   *)
(* chain longer than `$objects` is a cycle: it stands for nothing.         *)
Chase(v) ==
  LET at[n \in Nat] ==
        IF n = 0 THEN v
        ELSE IF Refers(at[n - 1]) THEN Target(at[n - 1]) ELSE at[n - 1]
  IN  at

Meant(v) == Chase(v)[Len(objects) + 1]

(* The places where an archived dictionary has a key, and the last of them.*)
IsKey(v, k)     == Meant(v).kind = "string" /\ Meant(v).name = k
Places(v, k)    == {i \in DOMAIN v.keys : IsKey(v.keys[i], k)}
LastPlace(v, k) == CHOOSE i \in Places(v, k) : \A j \in Places(v, k) : j <= i

Names(v) == {Meant(v.keys[i]).name : i \in DOMAIN v.keys}

(* A value as it is decoded, given what its members are decoded to: an     *)
(* array in its order, each key of a dictionary with what its last         *)
(* occurrence holds, anything else as it stands.                           *)
Built(w, under) ==
  CASE w.kind = "nsarray" ->
         Tree("array", "", [i \in DOMAIN w.objs |-> under[w.objs[i]]], {})
    [] w.kind = "nsdict" ->
         Tree("dict", "", <<>>,
              {Entry(k, under[w.objs[LastPlace(w, k)]]) : k \in Names(w)})
    [] OTHER -> AsIs(w)

(* The tree each value means, cut off below n levels: every Uid followed   *)
(* to the end, every member decoded.                                       *)
Meaning[n \in Nat] ==
  [v \in Values |-> IF n = 0 THEN NoTree ELSE Built(Meant(v), Meaning[n - 1])]

(* No tree that can be decoded has more levels. *)
Means(v) == Meaning[MaxDepth + 1][v]

(* What is wrong with a value wherever it stands. *)
Dangles(v)    == v.kind = "uid" /\ ~InObjects(v)
Mismatched(v) == v.kind = "nsdict" /\ Len(v.keys) # Len(v.objs)
BadlyKeyed(v) == /\ v.kind = "nsdict"
                 /\ \E i \in DOMAIN v.keys : Meant(v.keys[i]).kind # "string"

(* What a dictionary at the root holds under a key: in an archived one the *)
(* last occurrence counts and every Uid is followed, a plain one is taken  *)
(* as it stands.                                                           *)
PlainPlaces(w, k) == {i \in DOMAIN w.objs : w.keys[i].name = k}

HeldAt(w, k) ==
  CASE w.kind = "nsdict" /\ Places(w, k) # {} -> Meant(w.objs[LastPlace(w, k)])
    [] w.kind = "dict" /\ PlainPlaces(w, k) # {} ->
         w.objs[CHOOSE i \in PlainPlaces(w, k) : TRUE]
    [] OTHER -> Other

(* How many members, where that is an array. *)
ArrayKinds(w) == IF w.kind = "nsdict" THEN {"nsarray", "array"} ELSE {"array"}
Count(w, k) ==
  IF HeldAt(w, k).kind \in ArrayKinds(w) THEN Len(HeldAt(w, k).objs) ELSE 0

(* A member of it, decoded or as it stands. *)
MemberAt(w, k, i) ==
  LET h == HeldAt(w, k)
  IN  IF h.kind = "nsarray" THEN Means(h.objs[i]) ELSE AsIs(h.objs[i])

Within == UNION {AtDepth(n) : n \in 0..MaxDepth}

(* Every way the archive has of making the unarchiver fail. *)
Defects ==
  {why \in Failures :
     \/ why = "TooDeep"  /\ AtDepth(MaxDepth + 1) # {}
     \/ why = "Bounds"   /\ \E v \in Within : Dangles(v)
     \/ why = "Mismatch" /\ \E v \in Within : Mismatched(v)
     \/ why = "Key"      /\ \E v \in Within : BadlyKeyed(v)
     \/ why = "NotADictionary" /\ Meant(root).kind \notin {"nsdict", "dict"}}

-----------------------------------------------------------------------------

(* The decoded tree says what the archive means: every Uid followed to the *)
(* end, arrays in their order, every key of a dictionary with what its     *)
(* last occurrence holds, and nothing else; whatever is shared, and        *)
(* however the members of one level are interleaved with deeper ones.      *)
Faithful == verdict = "Ok" => reg.tree.kind = "dict" /\ reg.tree = Means(root)

(* The unarchiver succeeds exactly when the archive is without defect:     *)
(* nothing reachable is skipped on the way to an Ok, an entry that a later *)
(* one replaces included, and a failure has the cause it names.  In        *)
(* particular "too deep" is said only of an archive with a walk longer     *)
(* than the bound, and of each such archive unless another defect is met   *)
(* first (pipeline.rs:171-178).                                            *)
VerdictIsJustified ==
  /\ verdict \in Failures => verdict \in Defects
  /\ verdict = "Ok" => Defects = {}

(* What the depth bound does not bound: an object referred to from several *)
(* places is decoded once for each.  The calls made are the walks from the *)
(* root, no more on any archive and, up to the counter's bound, no fewer   *)
(* on an Ok one; so the work is linear for an archive that shares nothing  *)
(* and exponential in the depth for one that shares at every level.        *)
OneCallPerWalk ==
  /\ visits <= Walks[MaxDepth + 1][root]
  /\ verdict = "Ok" /\ visits < MaxVisits => visits = Walks[MaxDepth + 1][root]

(* reply.rs walks `$objects` by Uid "rather than using a general           *)
(* unarchiver, because only these three keys are needed" (reply.rs:7-9).   *)
(* Where both accept an archive they agree: info and data are the same,    *)
(* and unknown has as many members, whatever the order of the keys, and    *)
(* whichever of them come twice.                                           *)
EnvelopeAgrees ==
  (parse = "Ok" /\ verdict = "Ok") =>
    /\ \A k \in {"info", "data"} :
         Under(reg.tree, k) = {Tree("data", found[k].name, <<>>, {})}
    /\ \A t \in Under(reg.tree, "unknown") :
         \/ t.kind = "array" /\ Len(Items(t)) = found["unknown"].len
         \/ t.kind = "dict" /\ Cardinality(Entries(t)) <= found["unknown"].len
    /\ Under(reg.tree, "unknown") # {}

(* A pipeline's stages are all there, "nothing is dropped if there is more *)
(* than one" (pipeline.rs:99-100): one for each member of the array under  *)
(* each of the three keys, archived or plain.  The statistics are those of *)
(* the only member of their array, never one picked from several, which is *)
(* what the test at pipeline.rs:416-464 builds, all of plain collections.  *)
StagesComplete ==
  verdict = "Ok" =>
    LET top    == Meant(root)
        stages == Stages(reg.tree)
    IN  /\ stages.ok =>
             Len(stages.stages) = Count(top, "vertex") + Count(top, "fragment")
                                    + Count(top, "compute")
        /\ \A t \in Stats(reg.tree) :
             /\ Count(top, "PerformanceStatistics") = 1
             /\ t = MemberAt(top, "PerformanceStatistics", 1)
=============================================================================
