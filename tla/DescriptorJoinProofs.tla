------------------------- MODULE DescriptorJoinProofs ------------------------
(***************************************************************************)
(* The join is safe and, where it can be, right: for every reply, every    *)
(* manifest and every truth that is consistent with both.                  *)
(***************************************************************************)
EXTENDS DescriptorJoin, SequenceTheorems, TLAPS

(* A sequence of bounded length is a sequence. *)
LEMMA BoundedIsSeq ==
  ASSUME NEW S, NEW n \in Nat, NEW s \in SeqsUpTo(S, n)
  PROVE  s \in Seq(S)
<1>1. PICK m \in 0..n : s \in [1..m -> S]
  BY DEF SeqsUpTo
<1>2. QED
  BY <1>1, SeqDef

-----------------------------------------------------------------------------
(* The inductive invariant. *)

InputInv == IsTruth /\ (phase = "start" => order = <<>> /\ j = 1)

(* The walk's result so far: what it has placed is behind it on both sides.*)
WalkInv ==
  /\ phase # "start" /\ descs # <<>> => IsOrder(order)
  /\ descs = <<>> => order = <<>>
  /\ \A a \in 1..Len(order) : a >= i => matched[a] = None
  /\ \A a \in 1..Len(order) :
       matched[a] # None =>
         /\ matched[a] < j
         /\ descs[matched[a]] \notin Combined
         /\ descs[matched[a]] = texs[order[a]].geom
  /\ \A a, b \in 1..Len(order) :
       a < b /\ matched[a] # None /\ matched[b] # None => matched[a] < matched[b]
  /\ placed = {matched[a] : a \in 1..Len(order)} \ {None}

(* On inputs the walk can tell, everything behind it is right and every    *)
(* descriptor a later texture was created from is still ahead.             *)
ExactInv ==
  phase # "start" /\ Unambiguous =>
    /\ \A a \in 1..Len(order) : a < i => matched[a] = Served(order[a])
    /\ \A a \in 1..Len(order) :
         a >= i /\ Served(order[a]) # None => Served(order[a]) >= j

(* What Finish computed, once it has. *)
ResultInv ==
  phase = "done" /\ descs # <<>> =>
    /\ i = Len(order) + 1
    /\ \A a \in 1..Len(order) : perTexture[order[a]] = matched[a]
    /\ \A t \in DOMAIN texs : perTexture[t] # None =>
         \E a \in 1..Len(order) : order[a] = t
    /\ transparent = {d \in DOMAIN descs : descs[d] \in Combined}
    /\ unplaced = {d \in DOMAIN descs : descs[d] \notin Combined /\ d \notin placed}

IInv == TypeOK /\ InputInv /\ WalkInv /\ ExactInv /\ ResultInv

LEMMA InitInv == Init => IInv
<1> SUFFICES ASSUME Init PROVE IInv
  OBVIOUS
<1>1. texs \in Seq(Textures) /\ descs \in Seq(Geometries)
  BY BoundedIsSeq, JoinAssumption DEF Init
<1>2. order = <<>> /\ Len(order) = 0 /\ order \in Seq(DOMAIN texs)
  BY DEF Init
<1>3. matched \in [1..Len(order) -> 0..Len(descs)]
  BY <1>2 DEF Init
<1>4. TypeOK
  BY <1>1, <1>2, <1>3 DEF Init, TypeOK, None
<1>5. WalkInv
  BY <1>2 DEF Init, WalkInv
<1>6. InputInv /\ ExactInv /\ ResultInv
  BY DEF Init, InputInv, ExactInv, ResultInv
<1>7. QED
  BY <1>4, <1>5, <1>6 DEF IInv

(* An order names every texture at most once, and later means newer.       *)
LEMMA OrderFacts ==
  ASSUME texs \in Seq(Textures), NEW s \in Seq(DOMAIN texs), IsOrder(s)
  PROVE  /\ \A a, b \in 1..Len(s) : s[a] = s[b] => a = b
         /\ \A a, b \in 1..Len(s) : texs[s[a]].ref < texs[s[b]].ref => a < b
<1>1. DOMAIN s = 1..Len(s) /\ Len(s) \in Nat
  OBVIOUS
<1>2. \A a \in 1..Len(s) : s[a] \in DOMAIN texs /\ texs[s[a]] \in Textures
  BY <1>1
<1>3. \A a \in 1..Len(s) : texs[s[a]].ref \in Nat
  BY <1>2, JoinAssumption DEF Textures, Refs
<1>4. \A a, b \in 1..Len(s) : a < b => texs[s[a]].ref < texs[s[b]].ref
  BY <1>1 DEF IsOrder
<1>5. ASSUME NEW a \in 1..Len(s), NEW b \in 1..Len(s), s[a] = s[b], a # b
      PROVE  FALSE
  <2>1. a < b \/ b < a
    BY <1>5
  <2>2. QED
    BY <1>3, <1>4, <1>5, <2>1
<1>6. ASSUME NEW a \in 1..Len(s), NEW b \in 1..Len(s),
             texs[s[a]].ref < texs[s[b]].ref, ~(a < b)
      PROVE  FALSE
  <2>1. a = b \/ b < a
    BY <1>6
  <2>2. QED
    BY <1>3, <1>4, <1>6, <2>1
<1>7. QED
  BY <1>5, <1>6

(* The ranges of what the walk reads.                                      *)
LEMMA Ranges ==
  ASSUME TypeOK
  PROVE  /\ DOMAIN texs = 1..Len(texs) /\ Len(texs) \in Nat
         /\ DOMAIN descs = 1..Len(descs) /\ Len(descs) \in Nat
         /\ DOMAIN order = 1..Len(order) /\ Len(order) \in Nat
         /\ \A t \in DOMAIN texs :
              /\ texs[t].ref \in Refs /\ texs[t].ref \in Nat
              /\ texs[t].geom \in Geometries
              /\ truth[texs[t].ref] \in 0..Len(descs)
         /\ \A a \in 1..Len(order) : order[a] \in DOMAIN texs
<1>1. texs \in Seq(Textures) /\ descs \in Seq(Geometries) /\ order \in Seq(DOMAIN texs)
  BY DEF TypeOK
<1>2. /\ DOMAIN texs = 1..Len(texs) /\ Len(texs) \in Nat
      /\ DOMAIN descs = 1..Len(descs) /\ Len(descs) \in Nat
      /\ DOMAIN order = 1..Len(order) /\ Len(order) \in Nat
  BY <1>1
<1>3. ASSUME NEW t \in DOMAIN texs
      PROVE  /\ texs[t].ref \in Refs /\ texs[t].ref \in Nat
             /\ texs[t].geom \in Geometries
             /\ truth[texs[t].ref] \in 0..Len(descs)
  <2>1. texs[t] \in Textures
    BY <1>1, <1>2, <1>3
  <2>2. texs[t].ref \in Refs /\ texs[t].geom \in Geometries
    BY <2>1 DEF Textures
  <2>3. texs[t].ref \in Nat
    BY <2>2, JoinAssumption DEF Refs
  <2>4. truth \in [Refs -> 0..Len(descs)]
    BY DEF TypeOK
  <2>5. QED
    BY <2>2, <2>3, <2>4
<1>4. \A a \in 1..Len(order) : order[a] \in DOMAIN texs
  BY <1>1, <1>2
<1>5. QED
  BY <1>2, <1>3, <1>4

(* A later texture was created from a later descriptor.                    *)
LEMMA ServedInOrder ==
  ASSUME TypeOK, IsTruth, IsOrder(order),
         NEW a \in 1..Len(order), NEW b \in 1..Len(order), a < b,
         Served(order[a]) # None, Served(order[b]) # None
  PROVE  Served(order[a]) < Served(order[b])
<1>1. /\ order[a] \in DOMAIN texs /\ order[b] \in DOMAIN texs
      /\ a \in DOMAIN order /\ b \in DOMAIN order
  BY Ranges
<1>2. texs[order[a]].ref \in Refs /\ texs[order[b]].ref \in Refs
  BY <1>1, Ranges
<1>3. texs[order[a]].ref < texs[order[b]].ref
  BY <1>1 DEF IsOrder
<1>4. /\ Served(order[a]) = truth[texs[order[a]].ref]
      /\ Served(order[b]) = truth[texs[order[b]].ref]
  BY DEF Served, None
<1>5. QED
  BY <1>2, <1>3, <1>4 DEF IsTruth

(* What Served names is a descriptor the walk may place.                   *)
LEMMA ServedFacts ==
  ASSUME TypeOK, IsTruth, NEW t \in DOMAIN texs, Served(t) # None
  PROVE  /\ Served(t) \in 1..Len(descs)
         /\ descs[Served(t)] \notin Combined
         /\ texs[t].geom = descs[Served(t)]
<1>1. truth[texs[t].ref] \in 0..Len(descs) /\ Len(descs) \in Nat
  BY Ranges
<1>2. Served(t) = truth[texs[t].ref] /\ descs[Served(t)] \notin Combined
  BY DEF Served, None
<1>3. texs[t].geom = descs[Served(t)]
  BY DEF IsTruth
<1>4. QED
  BY <1>1, <1>2, <1>3 DEF None

LEMMA ServedInNat ==
  ASSUME TypeOK, NEW t \in DOMAIN texs
  PROVE  Served(t) \in 0..Len(descs)
<1>1. truth[texs[t].ref] \in 0..Len(descs) /\ Len(descs) \in Nat
  BY Ranges
<1>2. QED
  BY <1>1 DEF Served, None

(* A texture's descriptor is read off the inputs, which no step changes.  *)
LEMMA InputsStay ==
  ASSUME UNCHANGED inputs
  PROVE  /\ IsTruth <=> IsTruth'
         /\ Unambiguous <=> Unambiguous'
         /\ \A t : Served(t) = Served(t)'
<1>1. texs' = texs /\ descs' = descs /\ truth' = truth
  BY DEF inputs
<1>2. \A t : Served(t) = Served(t)'
  BY <1>1 DEF Served
<1>3. IsTruth <=> IsTruth'
  BY <1>1, <1>2 DEF IsTruth
<1>4. Unambiguous <=> Unambiguous'
  BY <1>1, <1>2 DEF Unambiguous
<1>5. QED
  BY <1>2, <1>3, <1>4

(* On inputs the walk can tell, the texture it is at was created from the  *)
(* descriptor it is at: a descriptor in between would be some texture's,   *)
(* and that texture would be in between too.                               *)
LEMMA AtItsOwn ==
  ASSUME TypeOK, IsTruth, IsOrder(order), Unambiguous, WalkInv,
         phase = "zip", ExactInv, i <= Len(order), ~AtCombined,
         Served(order[i]) # None
  PROVE  Served(order[i]) = j
<1>1. /\ i \in 1..Len(order) /\ j \in 1..(Len(descs) + 1)
      /\ Len(order) \in Nat /\ Len(descs) \in Nat
  BY Ranges DEF TypeOK
<1>2. order[i] \in DOMAIN texs /\ DOMAIN descs = 1..Len(descs) /\ DOMAIN order = 1..Len(order)
  BY <1>1, Ranges
<1>3. Served(order[i]) \in 1..Len(descs)
  BY <1>2, ServedFacts
<1>4. Served(order[i]) >= j
  BY <1>1 DEF ExactInv
<1>5. ASSUME Served(order[i]) > j PROVE FALSE
  <2>1. j \in DOMAIN descs /\ descs[j] \notin Combined /\ j # None
    BY <1>1, <1>2, <1>3, <1>5 DEF AtCombined, None
  <2>2. PICK t \in DOMAIN texs : Served(t) = j
    BY <2>1 DEF Unambiguous
  <2>3. PICK a \in 1..Len(order) : texs[order[a]].ref = texs[t].ref
    BY <1>2, <2>2 DEF IsOrder
  <2>4. Served(order[a]) = j
    BY <2>2, <2>3 DEF Served
  <2>5. CASE a < i
    <3>1. matched[a] = j
      BY <2>4, <2>5 DEF ExactInv
    <3>2. matched[a] < j
      BY <3>1, <2>1 DEF WalkInv
    <3>3. QED
      BY <1>1, <3>1, <3>2
  <2>6. CASE a = i
    BY <1>1, <1>5, <2>4, <2>6
  <2>7. CASE a > i
    <3>1. i < a
      BY <1>1, <2>7
    <3>2. Served(order[i]) < Served(order[a])
      BY <1>1, <2>1, <2>4, <3>1, ServedInOrder
    <3>3. QED
      BY <1>1, <1>3, <1>5, <2>4, <3>2
  <2>8. QED
    BY <1>1, <2>5, <2>6, <2>7
<1>6. QED
  BY <1>1, <1>3, <1>4, <1>5

-----------------------------------------------------------------------------
(* One lemma for each step. *)

LEMMA NoManifestKeeps ==
  ASSUME IInv, NoManifest PROVE IInv'
<1>1. TypeOK /\ InputInv /\ WalkInv
  BY DEF IInv
<1>2. /\ UNCHANGED inputs /\ UNCHANGED walk /\ UNCHANGED answer
      /\ phase = "start" /\ phase' = "done" /\ descs = <<>> /\ descs' = <<>>
  BY DEF NoManifest, inputs
<1>3. order = <<>> /\ order' = <<>>
  BY <1>1, <1>2 DEF InputInv, walk
<1>4. TypeOK'
  BY <1>1, <1>2 DEF TypeOK, inputs, walk, answer
<1>5. InputInv'
  BY <1>1, <1>2, InputsStay DEF InputInv
<1>6. WalkInv'
  BY <1>1, <1>2 DEF WalkInv, inputs, walk
<1>7. ExactInv'
  BY <1>3 DEF ExactInv
<1>8. ResultInv'
  BY <1>2 DEF ResultInv
<1>9. QED
  BY <1>4, <1>5, <1>6, <1>7, <1>8 DEF IInv

LEMMA SortKeeps ==
  ASSUME IInv, Sort PROVE IInv'
<1>1. TypeOK /\ InputInv /\ WalkInv
  BY DEF IInv
<1>2. /\ UNCHANGED inputs /\ UNCHANGED answer /\ i' = i /\ j' = j /\ placed' = placed
      /\ phase = "start" /\ phase' = "zip" /\ descs # <<>>
  BY DEF Sort
<1>3. texs' = texs /\ descs' = descs /\ truth' = truth
  BY <1>2 DEF inputs
<1>4. order = <<>> /\ j = 1 /\ Len(order) = 0
  BY <1>1, <1>2 DEF InputInv
<1>5. i = 1 /\ placed = {}
  <2>1. i \in 1..1
    BY <1>1, <1>4 DEF TypeOK
  <2>2. placed = {}
    BY <1>1, <1>4 DEF WalkInv
  <2>3. QED
    BY <2>1, <2>2
<1>6. PICK s \in SeqsUpTo(DOMAIN texs, Len(texs)) :
        IsOrder(s) /\ order' = s /\ matched' = [a \in 1..Len(s) |-> None]
  BY DEF Sort
<1>7. s \in Seq(DOMAIN texs)
  BY <1>1, Ranges, BoundedIsSeq
<1>8. /\ order' \in Seq(DOMAIN texs') /\ Len(order') \in Nat
      /\ \A a \in 1..Len(order') : matched'[a] = None
  BY <1>3, <1>6, <1>7
<1>9. Len(descs) \in Nat /\ matched' \in [1..Len(order') -> 0..Len(descs')]
  BY <1>1, <1>3, <1>6, Ranges DEF None
<1>10. TypeOK'
  <2>1. i' \in 1..(Len(order') + 1) /\ j' \in 1..(Len(descs') + 1)
    BY <1>2, <1>3, <1>4, <1>5, <1>8, <1>9
  <2>2. QED
    BY <1>1, <1>2, <1>3, <1>8, <1>9, <2>1 DEF TypeOK, answer
<1>11. InputInv'
  BY <1>1, <1>2, InputsStay DEF InputInv
<1>12. WalkInv'
  <2>1. IsOrder(order)'
    BY <1>3, <1>6 DEF IsOrder
  <2>2. placed' = {matched'[a] : a \in 1..Len(order')} \ {None}
    BY <1>2, <1>5, <1>8
  <2>3. QED
    BY <1>2, <1>3, <1>8, <2>1, <2>2 DEF WalkInv
<1>13. ExactInv'
  <2>1. TypeOK' /\ IsTruth'
    BY <1>10, <1>11 DEF InputInv
  <2>2. ASSUME NEW a \in 1..Len(order'), Served(order[a])' # None
        PROVE  Served(order[a])' >= j'
    <3>1. order'[a] \in DOMAIN texs
      BY <1>6, <1>7
    <3>2. Served(order'[a]) \in 0..Len(descs)
      BY <1>1, <3>1, ServedInNat
    <3>3. Served(order'[a]) = Served(order[a])'
      BY <1>3 DEF Served
    <3>4. QED
      BY <1>2, <1>4, <1>9, <2>2, <3>2, <3>3 DEF None
  <2>3. \A a \in 1..Len(order') : ~(a < i')
    BY <1>2, <1>5, <1>8
  <2>4. QED
    BY <2>2, <2>3 DEF ExactInv
<1>14. ResultInv'
  BY <1>2 DEF ResultInv
<1>15. QED
  BY <1>10, <1>11, <1>12, <1>13, <1>14 DEF IInv

LEMMA SkipKeeps ==
  ASSUME IInv, Skip PROVE IInv'
<1>1. TypeOK /\ InputInv /\ WalkInv /\ ExactInv
  BY DEF IInv
<1>2. /\ UNCHANGED inputs /\ UNCHANGED answer /\ i' = i /\ j' = j + 1 /\ placed' = placed
      /\ order' = order /\ matched' = matched
      /\ phase = "zip" /\ phase' = "zip" /\ i <= Len(order) /\ AtCombined
  BY DEF Skip
<1>3. texs' = texs /\ descs' = descs /\ truth' = truth
  BY <1>2 DEF inputs
<1>4. /\ j \in 1..Len(descs) /\ Len(descs) \in Nat /\ Len(order) \in Nat
      /\ descs[j] \in Combined
      /\ matched \in [1..Len(order) -> 0..Len(descs)]
  <2>1. Len(descs) \in Nat /\ Len(order) \in Nat
    BY <1>1, Ranges
  <2>2. j \in 1..(Len(descs) + 1) /\ matched \in [1..Len(order) -> 0..Len(descs)]
    BY <1>1 DEF TypeOK
  <2>3. QED
    BY <1>2, <2>1, <2>2 DEF AtCombined
<1>5. TypeOK'
  BY <1>1, <1>2, <1>3, <1>4 DEF TypeOK, answer
<1>6. InputInv'
  BY <1>1, <1>2, InputsStay DEF InputInv
<1>7. WalkInv'
  <2>1. \A a \in 1..Len(order) : matched[a] # None => matched[a] < j + 1
    BY <1>1, <1>4 DEF WalkInv
  <2>2. IsOrder(order) => IsOrder(order)'
    BY <1>2, <1>3 DEF IsOrder
  <2>3. QED
    BY <1>1, <1>2, <1>3, <2>1, <2>2 DEF WalkInv
<1>8. ExactInv'
  <2>1. SUFFICES ASSUME Unambiguous'
        PROVE  /\ \A a \in 1..Len(order) : a < i => matched[a] = Served(order[a])
               /\ \A a \in 1..Len(order) :
                    a >= i /\ Served(order[a]) # None => Served(order[a]) >= j + 1
    BY <1>2, InputsStay DEF ExactInv
  <2>2. Unambiguous
    BY <1>2, <2>1, InputsStay
  <2>3. ASSUME NEW a \in 1..Len(order), a >= i, Served(order[a]) # None
        PROVE  Served(order[a]) >= j + 1
    <3>1. order[a] \in DOMAIN texs /\ IsTruth
      BY <1>1, Ranges DEF InputInv
    <3>2. Served(order[a]) \in 1..Len(descs) /\ descs[Served(order[a])] \notin Combined
      BY <1>1, <2>3, <3>1, ServedFacts
    <3>3. Served(order[a]) >= j
      BY <1>1, <1>2, <2>2, <2>3 DEF ExactInv
    <3>4. QED
      BY <1>4, <3>2, <3>3
  <2>4. QED
    BY <1>1, <1>2, <2>2, <2>3 DEF ExactInv
<1>9. ResultInv'
  BY <1>2 DEF ResultInv
<1>10. QED
  BY <1>5, <1>6, <1>7, <1>8, <1>9 DEF IInv

LEMMA MatchKeeps ==
  ASSUME IInv, Match PROVE IInv'
<1>1. TypeOK /\ InputInv /\ WalkInv /\ ExactInv
  BY DEF IInv
<1>2. /\ UNCHANGED inputs /\ UNCHANGED answer /\ i' = i + 1 /\ j' = j + 1
      /\ placed' = placed \cup {j}
      /\ order' = order /\ matched' = [matched EXCEPT ![i] = j]
      /\ phase = "zip" /\ phase' = "zip" /\ i <= Len(order) /\ ~AtCombined /\ Agree
  BY DEF Match
<1>3. texs' = texs /\ descs' = descs /\ truth' = truth
  BY <1>2 DEF inputs
<1>4. /\ j \in 1..Len(descs) /\ Len(descs) \in Nat /\ Len(order) \in Nat
      /\ i \in 1..Len(order)
      /\ descs[j] \notin Combined /\ descs[j] = texs[order[i]].geom
      /\ matched \in [1..Len(order) -> 0..Len(descs)]
      /\ DOMAIN descs = 1..Len(descs)
  <2>1. Len(descs) \in Nat /\ Len(order) \in Nat /\ DOMAIN descs = 1..Len(descs)
    BY <1>1, Ranges
  <2>2. /\ i \in 1..(Len(order) + 1) /\ j \in 1..(Len(descs) + 1)
        /\ matched \in [1..Len(order) -> 0..Len(descs)]
    BY <1>1 DEF TypeOK
  <2>3. QED
    BY <1>2, <2>1, <2>2 DEF AtCombined, Agree
<1>5. /\ matched'[i] = j
      /\ \A a \in 1..Len(order) : a # i => matched'[a] = matched[a]
      /\ matched' \in [1..Len(order) -> 0..Len(descs)]
  BY <1>2, <1>4
<1>6. /\ \A a \in 1..Len(order) : a >= i => matched[a] = None
      /\ \A a \in 1..Len(order) :
           matched[a] # None =>
             /\ matched[a] < j
             /\ descs[matched[a]] \notin Combined
             /\ descs[matched[a]] = texs[order[a]].geom
      /\ \A a, b \in 1..Len(order) :
           a < b /\ matched[a] # None /\ matched[b] # None => matched[a] < matched[b]
      /\ placed = {matched[a] : a \in 1..Len(order)} \ {None}
  BY <1>1 DEF WalkInv
<1>7. TypeOK'
  <2>1. i' \in 1..(Len(order') + 1) /\ j' \in 1..(Len(descs') + 1)
    BY <1>2, <1>3, <1>4
  <2>2. placed' \subseteq DOMAIN descs'
    BY <1>1, <1>2, <1>3, <1>4 DEF TypeOK
  <2>3. matched' \in [1..Len(order') -> 0..Len(descs')]
    BY <1>2, <1>3, <1>5
  <2>4. QED
    BY <1>1, <1>2, <1>3, <2>1, <2>2, <2>3 DEF TypeOK, answer
<1>8. InputInv'
  BY <1>1, <1>2, InputsStay DEF InputInv
<1>9. WalkInv'
  <2>1. IsOrder(order) => IsOrder(order)'
    BY <1>2, <1>3 DEF IsOrder
  <2>2. \A a \in 1..Len(order) : a >= i + 1 => matched'[a] = None
    BY <1>4, <1>5, <1>6
  <2>3. \A a \in 1..Len(order) :
          matched'[a] # None =>
            /\ matched'[a] < j + 1
            /\ descs[matched'[a]] \notin Combined
            /\ descs[matched'[a]] = texs[order[a]].geom
    BY <1>4, <1>5, <1>6
  <2>4. ASSUME NEW a \in 1..Len(order), NEW b \in 1..Len(order),
               a < b, matched'[a] # None, matched'[b] # None
        PROVE  matched'[a] < matched'[b]
    <3>1. CASE b = i
      BY <1>4, <1>5, <1>6, <2>4, <3>1
    <3>2. CASE b # i
      <4>1. b < i
        BY <1>4, <1>5, <1>6, <2>4, <3>2
      <4>2. QED
        BY <1>4, <1>5, <1>6, <2>4, <3>2, <4>1
    <3>3. QED
      BY <3>1, <3>2
  <2>5. placed' = {matched'[a] : a \in 1..Len(order)} \ {None}
    <3>1. matched[i] = None /\ j # None
      BY <1>4, <1>6 DEF None
    <3>2. ASSUME NEW d, d \in placed'
          PROVE  \E a \in 1..Len(order) : d = matched'[a] /\ d # None
      <4>1. CASE d = j
        BY <1>4, <1>5, <3>1, <4>1
      <4>2. CASE d \in placed
        <5>1. PICK a \in 1..Len(order) : d = matched[a] /\ d # None
          BY <1>6, <4>2
        <5>2. a # i
          BY <3>1, <5>1
        <5>3. QED
          BY <1>5, <5>1, <5>2
      <4>3. QED
        BY <1>2, <3>2, <4>1, <4>2
    <3>3. ASSUME NEW a \in 1..Len(order), matched'[a] # None
          PROVE  matched'[a] \in placed'
      <4>1. CASE a = i
        BY <1>2, <1>5, <4>1
      <4>2. CASE a # i
        BY <1>2, <1>5, <1>6, <3>3, <4>2
      <4>3. QED
        BY <4>1, <4>2
    <3>4. QED
      BY <3>2, <3>3
  <2>6. QED
    BY <1>1, <1>2, <1>3, <2>1, <2>2, <2>3, <2>4, <2>5 DEF WalkInv
<1>10. ExactInv'
  <2>1. SUFFICES ASSUME Unambiguous'
        PROVE  /\ \A a \in 1..Len(order) : a < i + 1 => matched'[a] = Served(order[a])
               /\ \A a \in 1..Len(order) :
                    a >= i + 1 /\ Served(order[a]) # None => Served(order[a]) >= j + 1
    BY <1>2, InputsStay DEF ExactInv
  <2>2. Unambiguous /\ IsTruth /\ IsOrder(order)
    <3>1. DOMAIN descs # {}
      BY <1>4
    <3>2. descs # <<>>
      BY <3>1
    <3>3. QED
      BY <1>1, <1>2, <2>1, <3>2, InputsStay DEF InputInv, WalkInv
  <2>3. Served(order[i]) = j
    <3>1. CASE Served(order[i]) = None
      <4>1. order[i] \in DOMAIN texs /\ j \in DOMAIN descs
        BY <1>1, <1>4, Ranges
      <4>2. QED
        BY <1>4, <2>2, <3>1, <4>1 DEF Unambiguous
    <3>2. CASE Served(order[i]) # None
      BY <1>1, <1>2, <2>2, <3>2, AtItsOwn
    <3>3. QED
      BY <3>1, <3>2
  <2>4. \A a \in 1..Len(order) : a < i => matched[a] = Served(order[a])
    BY <1>1, <1>2, <2>2 DEF ExactInv
  <2>5. \A a \in 1..Len(order) : a < i + 1 => matched'[a] = Served(order[a])
    BY <1>4, <1>5, <2>3, <2>4
  <2>6. ASSUME NEW a \in 1..Len(order), a >= i + 1, Served(order[a]) # None
        PROVE  Served(order[a]) >= j + 1
    <3>1. i < a
      BY <1>4, <2>6
    <3>2. Served(order[i]) # None
      BY <1>4, <2>3 DEF None
    <3>3. Served(order[i]) < Served(order[a])
      BY <1>1, <1>4, <2>2, <2>6, <3>1, <3>2, ServedInOrder
    <3>4. Served(order[a]) \in 0..Len(descs)
      BY <1>1, Ranges, ServedInNat
    <3>5. QED
      BY <1>4, <2>3, <3>3, <3>4
  <2>7. QED
    BY <2>5, <2>6
<1>11. ResultInv'
  BY <1>2 DEF ResultInv
<1>12. QED
  BY <1>7, <1>8, <1>9, <1>10, <1>11 DEF IInv

LEMMA MissKeeps ==
  ASSUME IInv, Miss PROVE IInv'
<1>1. TypeOK /\ InputInv /\ WalkInv /\ ExactInv
  BY DEF IInv
<1>2. /\ UNCHANGED inputs /\ UNCHANGED answer /\ i' = i + 1 /\ j' = j
      /\ placed' = placed /\ order' = order /\ matched' = matched
      /\ phase = "zip" /\ phase' = "zip" /\ i <= Len(order) /\ ~AtCombined /\ ~Agree
  BY DEF Miss
<1>3. texs' = texs /\ descs' = descs /\ truth' = truth
  BY <1>2 DEF inputs
<1>4. /\ Len(descs) \in Nat /\ Len(order) \in Nat /\ i \in 1..Len(order)
      /\ j \in 1..(Len(descs) + 1)
  <2>1. Len(descs) \in Nat /\ Len(order) \in Nat
    BY <1>1, Ranges
  <2>2. i \in 1..(Len(order) + 1) /\ j \in 1..(Len(descs) + 1)
    BY <1>1 DEF TypeOK
  <2>3. QED
    BY <1>2, <2>1, <2>2
<1>5. TypeOK'
  BY <1>1, <1>2, <1>3, <1>4 DEF TypeOK, answer
<1>6. InputInv'
  BY <1>1, <1>2, InputsStay DEF InputInv
<1>7. WalkInv'
  <2>1. IsOrder(order) => IsOrder(order)'
    BY <1>2, <1>3 DEF IsOrder
  <2>2. \A a \in 1..Len(order) : a >= i + 1 => matched[a] = None
    BY <1>1, <1>4 DEF WalkInv
  <2>3. QED
    BY <1>1, <1>2, <1>3, <2>1, <2>2 DEF WalkInv
<1>8. ExactInv'
  <2>1. SUFFICES ASSUME Unambiguous'
        PROVE  /\ \A a \in 1..Len(order) : a < i + 1 => matched[a] = Served(order[a])
               /\ \A a \in 1..Len(order) :
                    a >= i + 1 /\ Served(order[a]) # None => Served(order[a]) >= j
    BY <1>2, InputsStay DEF ExactInv
  <2>2. Unambiguous
    BY <1>2, <2>1, InputsStay
  <2>3. /\ \A a \in 1..Len(order) : a < i => matched[a] = Served(order[a])
        /\ \A a \in 1..Len(order) :
             a >= i /\ Served(order[a]) # None => Served(order[a]) >= j
    BY <1>1, <1>2, <2>2 DEF ExactInv
  <2>4. Served(order[i]) = None
    <3>1. SUFFICES ASSUME Served(order[i]) # None PROVE FALSE
      OBVIOUS
    <3>2. order[i] \in DOMAIN texs /\ IsTruth
      BY <1>1, <1>4, Ranges DEF InputInv
    <3>3. /\ Served(order[i]) \in 1..Len(descs)
          /\ texs[order[i]].geom = descs[Served(order[i])]
      BY <1>1, <3>1, <3>2, ServedFacts
    <3>4. descs # <<>>
      BY <1>4, <3>3
    <3>5. IsOrder(order)
      BY <1>1, <1>2, <3>4 DEF WalkInv
    <3>6. Served(order[i]) = j
      BY <1>1, <1>2, <2>2, <3>1, <3>2, <3>5, AtItsOwn
    <3>7. QED
      BY <1>2, <1>4, <3>3, <3>6 DEF Agree
  <2>5. matched[i] = None
    BY <1>1, <1>4 DEF WalkInv
  <2>6. QED
    BY <1>4, <2>3, <2>4, <2>5
<1>9. ResultInv'
  BY <1>2 DEF ResultInv
<1>10. QED
  BY <1>5, <1>6, <1>7, <1>8, <1>9 DEF IInv

LEMMA FinishKeeps ==
  ASSUME IInv, Finish PROVE IInv'
<1>1. TypeOK /\ InputInv /\ WalkInv /\ ExactInv
  BY DEF IInv
<1>2. /\ UNCHANGED inputs /\ UNCHANGED walk
      /\ phase = "zip" /\ phase' = "done" /\ i > Len(order)
      /\ perTexture' = [t \in DOMAIN texs |->
           IF \E a \in DOMAIN order : order[a] = t
             THEN matched[CHOOSE a \in DOMAIN order : order[a] = t]
             ELSE None]
      /\ transparent' = {d \in DOMAIN descs : descs[d] \in Combined}
      /\ unplaced' = {d \in DOMAIN descs : descs[d] \notin Combined /\ d \notin placed}
  BY DEF Finish
<1>3. /\ texs' = texs /\ descs' = descs /\ truth' = truth
      /\ order' = order /\ i' = i /\ j' = j /\ matched' = matched /\ placed' = placed
  BY <1>2 DEF inputs, walk
<1>4. /\ Len(order) \in Nat /\ Len(descs) \in Nat /\ DOMAIN order = 1..Len(order)
      /\ i = Len(order) + 1
      /\ matched \in [1..Len(order) -> 0..Len(descs)]
  <2>1. Len(order) \in Nat /\ Len(descs) \in Nat /\ DOMAIN order = 1..Len(order)
    BY <1>1, Ranges
  <2>2. /\ i \in 1..(Len(order) + 1)
        /\ matched \in [1..Len(order) -> 0..Len(descs)]
    BY <1>1 DEF TypeOK
  <2>3. QED
    BY <1>2, <2>1, <2>2
<1>5. perTexture' \in [DOMAIN texs -> 0..Len(descs)]
  <2>1. ASSUME NEW t \in DOMAIN texs PROVE perTexture'[t] \in 0..Len(descs)
    <3>1. CASE \E a \in DOMAIN order : order[a] = t
      <4>1. (CHOOSE a \in DOMAIN order : order[a] = t) \in 1..Len(order)
        BY <1>4, <3>1
      <4>2. QED
        BY <1>2, <1>4, <3>1, <4>1
    <3>2. CASE ~\E a \in DOMAIN order : order[a] = t
      BY <1>2, <1>4, <3>2 DEF None
    <3>3. QED
      BY <3>1, <3>2
  <2>2. QED
    BY <1>2, <2>1
<1>6. TypeOK'
  BY <1>1, <1>2, <1>3, <1>5 DEF TypeOK
<1>7. InputInv'
  BY <1>1, <1>2, InputsStay DEF InputInv
<1>8. WalkInv'
  <2>1. IsOrder(order) => IsOrder(order)'
    BY <1>3 DEF IsOrder
  <2>2. QED
    BY <1>1, <1>2, <1>3, <2>1 DEF WalkInv
<1>9. ExactInv'
  <2>1. Unambiguous' => Unambiguous
    BY <1>2, InputsStay
  <2>2. \A t : Served(t) = Served(t)'
    BY <1>2, InputsStay
  <2>3. QED
    BY <1>1, <1>2, <1>3, <2>1, <2>2 DEF ExactInv
<1>10. ResultInv'
  <2>1. SUFFICES ASSUME descs # <<>>
        PROVE  /\ \A a \in 1..Len(order) : perTexture'[order[a]] = matched[a]
               /\ \A t \in DOMAIN texs : perTexture'[t] # None =>
                    \E a \in 1..Len(order) : order[a] = t
    BY <1>2, <1>3, <1>4 DEF ResultInv
  <2>2. \A a, b \in 1..Len(order) : order[a] = order[b] => a = b
    <3>1. texs \in Seq(Textures) /\ order \in Seq(DOMAIN texs) /\ IsOrder(order)
      BY <1>1, <1>2, <2>1 DEF TypeOK, WalkInv
    <3>2. QED
      BY <3>1, OrderFacts
  <2>3. ASSUME NEW a \in 1..Len(order) PROVE perTexture'[order[a]] = matched[a]
    <3>1. order[a] \in DOMAIN texs
      BY <1>1, Ranges
    <3>2. \E b \in DOMAIN order : order[b] = order[a]
      BY <1>4
    <3>3. (CHOOSE b \in DOMAIN order : order[b] = order[a]) = a
      BY <1>4, <2>2, <3>2
    <3>4. QED
      BY <1>2, <3>1, <3>2, <3>3
  <2>4. \A t \in DOMAIN texs : perTexture'[t] # None =>
          \E a \in 1..Len(order) : order[a] = t
    BY <1>2, <1>4
  <2>5. QED
    BY <2>3, <2>4
<1>11. QED
  BY <1>6, <1>7, <1>8, <1>9, <1>10 DEF IInv

LEMMA StutterKeeps ==
  ASSUME IInv, UNCHANGED vars PROVE IInv'
<1>1. UNCHANGED inputs /\ UNCHANGED phase /\ UNCHANGED walk /\ UNCHANGED answer
  BY DEF vars
<1>2. \A t : Served(t) = Served(t)'
  BY <1>1, InputsStay
<1>3. IsOrder(order) <=> IsOrder(order)'
  BY <1>1 DEF IsOrder, inputs, walk
<1>4. TypeOK' /\ ResultInv'
  BY <1>1 DEF IInv, TypeOK, ResultInv, inputs, walk, answer
<1>5. InputInv'
  BY <1>1, InputsStay DEF IInv, InputInv, walk
<1>6. WalkInv'
  BY <1>1, <1>3 DEF IInv, WalkInv, inputs, walk
<1>7. ExactInv'
  <2>1. Unambiguous' => Unambiguous
    BY <1>1, InputsStay
  <2>2. QED
    BY <1>1, <1>2, <2>1 DEF IInv, ExactInv, walk
<1>8. QED
  BY <1>4, <1>5, <1>6, <1>7 DEF IInv

-----------------------------------------------------------------------------
(* The invariant holds in every reachable state of the walk.               *)
THEOREM Invariance == Spec => []IInv
<1>1. Init => IInv
  BY InitInv
<1>2. IInv /\ [Next]_vars => IInv'
  BY NoManifestKeeps, SortKeeps, SkipKeeps, MatchKeeps, MissKeeps,
     FinishKeeps, StutterKeeps DEF Next
<1>3. QED
  BY <1>1, <1>2, PTL DEF Spec

(* The state of the join keeps its type: the walk never indexes outside    *)
(* its inputs.                                                             *)
THEOREM JoinTyped == Spec => []TypeOK
<1>1. IInv => TypeOK
  BY DEF IInv
<1>2. QED
  BY <1>1, Invariance, PTL

(* What a finished join says of a texture was placed for it by the walk.   *)
LEMMA ResultFacts ==
  ASSUME IInv, Done, descs # <<>>, NEW t \in DOMAIN texs, perTexture[t] # None
  PROVE  \E a \in 1..Len(order) :
           /\ order[a] = t /\ matched[a] = perTexture[t]
           /\ descs[matched[a]] \notin Combined
           /\ descs[matched[a]] = texs[t].geom
<1>1. phase = "done" /\ WalkInv /\ ResultInv
  BY DEF IInv, Done
<1>2. PICK a \in 1..Len(order) : order[a] = t
  BY <1>1 DEF ResultInv
<1>3. matched[a] = perTexture[t]
  BY <1>1, <1>2 DEF ResultInv
<1>4. QED
  BY <1>1, <1>2, <1>3 DEF WalkInv

(* Every descriptor ends in exactly one place: with one texture, among the *)
(* unplaced, or among the transparent (describe.rs, Descriptions).         *)
THEOREM DescriptorsPartitioned == Spec => []EachDescriptorOnce
<1>1. ASSUME IInv PROVE EachDescriptorOnce
  <2>1. SUFFICES ASSUME Done, NEW d \in DOMAIN descs
        PROVE  LET holders == {t \in DOMAIN texs : perTexture[t] = d}
               IN  /\ d \in transparent <=> descs[d] \in Combined
                   /\ d \in unplaced <=> (d \notin transparent /\ holders = {})
                   /\ \A t1, t2 \in holders : t1 = t2 /\ d \notin transparent
    BY DEF EachDescriptorOnce
  <2> DEFINE holders == {t \in DOMAIN texs : perTexture[t] = d}
  <2>2. /\ descs # <<>> /\ d # None /\ Len(order) \in Nat
        /\ matched \in [1..Len(order) -> 0..Len(descs)]
    <3>1. TypeOK
      BY <1>1 DEF IInv
    <3>2. DOMAIN descs = 1..Len(descs) /\ Len(order) \in Nat
      BY <3>1, Ranges
    <3>3. QED
      BY <2>1, <3>1, <3>2 DEF TypeOK, None
  <2>3. /\ \A a \in 1..Len(order) : perTexture[order[a]] = matched[a]
        /\ transparent = {e \in DOMAIN descs : descs[e] \in Combined}
        /\ unplaced = {e \in DOMAIN descs : descs[e] \notin Combined /\ e \notin placed}
        /\ placed = {matched[a] : a \in 1..Len(order)} \ {None}
    BY <1>1, <2>1, <2>2 DEF IInv, Done, ResultInv, WalkInv
  <2>4. d \in transparent <=> descs[d] \in Combined
    BY <2>1, <2>3
  <2>5. d \in placed <=> holders # {}
    <3>1. ASSUME d \in placed PROVE holders # {}
      <4>1. PICK a \in 1..Len(order) : matched[a] = d
        BY <2>3, <3>1
      <4>2. order[a] \in DOMAIN texs
        BY <1>1, Ranges DEF IInv
      <4>3. QED
        BY <2>3, <4>1, <4>2
    <3>2. ASSUME NEW t \in holders PROVE d \in placed
      <4>1. PICK a \in 1..Len(order) : matched[a] = perTexture[t]
        BY <1>1, <2>1, <2>2, <3>2, ResultFacts
      <4>2. QED
        BY <2>2, <2>3, <3>2, <4>1
    <3>3. QED
      BY <3>1, <3>2
  <2>6. ASSUME NEW t1 \in holders, NEW t2 \in holders
        PROVE  t1 = t2 /\ d \notin transparent
    <3>1. PICK a \in 1..Len(order) :
            order[a] = t1 /\ matched[a] = d /\ descs[matched[a]] \notin Combined
      BY <1>1, <2>1, <2>2, <2>6, ResultFacts
    <3>2. PICK b \in 1..Len(order) : order[b] = t2 /\ matched[b] = d
      BY <1>1, <2>1, <2>2, <2>6, ResultFacts
    <3>3. d \in Nat
      BY <2>2, <3>1
    <3>4. ~(a < b) /\ ~(b < a)
      BY <1>1, <2>2, <3>1, <3>2, <3>3 DEF IInv, WalkInv
    <3>5. QED
      BY <2>3, <3>1, <3>2, <3>4
  <2>7. QED
    BY <2>1, <2>3, <2>4, <2>5, <2>6
<1>2. QED
  BY <1>1, Invariance, PTL

(* No two textures are crossed, and each has its descriptor's geometry.    *)
THEOREM PairsOrdered == Spec => []PairsInOrder
<1>1. ASSUME IInv PROVE PairsInOrder
  <2>1. SUFFICES ASSUME Done, NEW t1 \in DOMAIN texs, NEW t2 \in DOMAIN texs,
                        perTexture[t1] # None, perTexture[t2] # None
        PROVE  /\ texs[t1].ref < texs[t2].ref <=> perTexture[t1] < perTexture[t2]
               /\ texs[t1].geom = descs[perTexture[t1]]
    BY DEF PairsInOrder
  <2>2. TypeOK
    BY <1>1 DEF IInv
  <2>3. descs # <<>>
    <3>1. perTexture \in [DOMAIN texs -> 0..Len(descs)]
      BY <2>2 DEF TypeOK
    <3>2. perTexture[t1] \in 0..Len(descs)
      BY <2>1, <3>1
    <3>3. ASSUME descs = <<>> PROVE FALSE
      <4>1. Len(descs) = 0
        BY <3>3
      <4>2. QED
        BY <2>1, <3>2, <4>1 DEF None
    <3>4. QED
      BY <3>3
  <2>4. PICK a \in 1..Len(order) :
          order[a] = t1 /\ matched[a] = perTexture[t1] /\ descs[matched[a]] = texs[t1].geom
    BY <1>1, <2>1, <2>3, ResultFacts
  <2>5. PICK b \in 1..Len(order) : order[b] = t2 /\ matched[b] = perTexture[t2]
    BY <1>1, <2>1, <2>3, ResultFacts
  <2>6. IsOrder(order) /\ order \in Seq(DOMAIN texs) /\ texs \in Seq(Textures)
    BY <1>1, <2>1, <2>2, <2>3 DEF IInv, WalkInv, Done, TypeOK
  <2>7. texs[t1].ref < texs[t2].ref => a < b
    BY <2>4, <2>5, <2>6, OrderFacts
  <2>8. a < b => texs[t1].ref < texs[t2].ref
    <3>1. a \in DOMAIN order /\ b \in DOMAIN order
      BY <2>2, Ranges
    <3>2. QED
      BY <2>4, <2>5, <2>6, <3>1 DEF IsOrder
  <2>9. \A c, e \in 1..Len(order) :
          c < e /\ matched[c] # None /\ matched[e] # None => matched[c] < matched[e]
    BY <1>1 DEF IInv, WalkInv
  <2>10. matched[a] \in Nat /\ matched[b] \in Nat
    <3>1. matched \in [1..Len(order) -> 0..Len(descs)] /\ Len(descs) \in Nat
      BY <2>2, Ranges DEF TypeOK
    <3>2. QED
      BY <3>1
  <2>11. a < b <=> matched[a] < matched[b]
    <3>1. a < b => matched[a] < matched[b]
      BY <2>1, <2>4, <2>5, <2>9
    <3>2. b < a => matched[b] < matched[a]
      BY <2>1, <2>4, <2>5, <2>9
    <3>3. a = b => matched[a] = matched[b]
      OBVIOUS
    <3>4. a \in Nat /\ b \in Nat
      BY <2>2, Ranges
    <3>5. QED
      BY <2>10, <3>1, <3>2, <3>3, <3>4
  <2>12. QED
    BY <2>4, <2>5, <2>7, <2>8, <2>11
<1>2. QED
  BY <1>1, Invariance, PTL

(* On inputs the walk can tell, every texture gets the descriptor it was   *)
(* created from.                                                           *)
THEOREM JoinExact == Spec => []ExactWhenUnambiguous
<1>1. ASSUME IInv PROVE ExactWhenUnambiguous
  <2>1. SUFFICES ASSUME Done, Unambiguous, NEW t \in DOMAIN texs, FirstOfItsRef(t)
        PROVE  perTexture[t] = Served(t)
    BY DEF ExactWhenUnambiguous
  <2>2. TypeOK
    BY <1>1 DEF IInv
  <2>3. CASE descs = <<>>
    <3>1. Len(descs) = 0
      BY <2>3
    <3>2. perTexture[t] \in 0..0
      BY <2>2, <3>1 DEF TypeOK
    <3>3. Served(t) \in 0..0
      BY <2>2, <3>1, ServedInNat
    <3>4. QED
      BY <3>2, <3>3
  <2>4. CASE descs # <<>>
    <3>1. IsOrder(order) /\ i = Len(order) + 1
      BY <1>1, <2>1, <2>4 DEF IInv, WalkInv, ResultInv, Done
    <3>2. PICK a \in DOMAIN order : texs[order[a]].ref = texs[t].ref
      BY <3>1 DEF IsOrder
    <3>3. a \in 1..Len(order) /\ order[a] \in DOMAIN texs /\ Len(order) \in Nat
      BY <2>2, Ranges
    <3>4. order[a] <= t
      BY <3>1, <3>2 DEF IsOrder
    <3>5. t <= order[a]
      BY <2>1, <3>2, <3>3 DEF FirstOfItsRef
    <3>6. order[a] = t
      BY <2>2, <3>3, <3>4, <3>5, Ranges
    <3>7. perTexture[t] = matched[a]
      BY <1>1, <2>1, <2>4, <3>3, <3>6 DEF IInv, ResultInv, Done
    <3>8. a < i
      BY <3>1, <3>3
    <3>9. matched[a] = Served(order[a])
      BY <1>1, <2>1, <3>3, <3>8 DEF IInv, ExactInv, Done
    <3>10. QED
      BY <3>6, <3>7, <3>9
  <2>5. QED
    BY <2>3, <2>4
<1>2. QED
  BY <1>1, Invariance, PTL
=============================================================================
