------------------------- MODULE ArchiveReadersProofs -------------------------
(***************************************************************************)
(* What the two decoders of ArchiveReaders promise, for archives of any    *)
(* shape and size, cyclic ones included, and any MAX_ARCHIVE_DEPTH: the    *)
(* recursion is bounded, what is returned is what the archive means, what  *)
(* is rejected has the defect it is rejected for, and the two decoders     *)
(* agree.                                                                  *)
(*                                                                         *)
(* The walks, chains and meanings of ArchiveGraph are recursive functions. *)
(* That they are what they say is proved here by taking the least number   *)
(* of a set (LeastOf, Induction).                                          *)
(***************************************************************************)
EXTENDS ArchiveGraph, FiniteSetTheorems, TLAPS

-----------------------------------------------------------------------------
(* Frames. *)

(* A frame has the fields of one. *)
IsFrame(f) ==
  f = [value |-> f.value, depth |-> f.depth, pos |-> f.pos, key |-> f.key,
       items |-> f.items, entries |-> f.entries]

Rec(v, d, p, k, is, es) ==
  [value |-> v, depth |-> d, pos |-> p, key |-> k, items |-> is, entries |-> es]

LEMMA RecIsFrame ==
  ASSUME NEW v, NEW d, NEW p, NEW k, NEW is, NEW es
  PROVE  IsFrame(Rec(v, d, p, k, is, es)) /\ Rec(v, d, p, k, is, es).depth = d
  BY DEF IsFrame, Rec

(* On to the next member. *)
Moved(f, p, k) == [f EXCEPT !.pos = p, !.key = k]

(* What a decoding step does to a frame leaves its depth alone. *)
LEMMA FrameKeepsDepth ==
  ASSUME NEW f, IsFrame(f), NEW k2, NEW is2, NEW es2
  PROVE  /\ IsFrame([f EXCEPT !.key = k2])
         /\ [f EXCEPT !.key = k2].depth = f.depth
         /\ IsFrame([f EXCEPT !.items = is2])
         /\ [f EXCEPT !.items = is2].depth = f.depth
         /\ IsFrame([f EXCEPT !.entries = es2])
         /\ [f EXCEPT !.entries = es2].depth = f.depth
<1>1. PICK v, d, p, k, is, es : f = Rec(v, d, p, k, is, es)
  BY DEF IsFrame, Rec
<1>2. f.depth = d
  BY <1>1, RecIsFrame
<1>3. [f EXCEPT !.key = k2] = Rec(v, d, p, k2, is, es)
  BY <1>1 DEF Rec
<1>4. [f EXCEPT !.items = is2] = Rec(v, d, p, k, is2, es)
  BY <1>1 DEF Rec
<1>5. [f EXCEPT !.entries = es2] = Rec(v, d, p, k, is, es2)
  BY <1>1 DEF Rec
<1>6. QED
  BY <1>2, <1>3, <1>4, <1>5, RecIsFrame

LEMMA RecMoves ==
  ASSUME NEW v, NEW d, NEW p, NEW k, NEW is, NEW es, NEW p2, NEW k2
  PROVE  Moved(Rec(v, d, p, k, is, es), p2, k2) = Rec(v, d, p2, k2, is, es)
<1> DEFINE f == Rec(v, d, p, k, is, es)
<1>1. Moved(f, p2, k2)
        = [x \in {"value", "depth", "pos", "key", "items", "entries"} |->
             IF x = "key" THEN k2 ELSE IF x = "pos" THEN p2 ELSE f[x]]
  BY DEF Rec, Moved
<1>2. Moved(f, p2, k2) = Rec(v, d, p2, k2, is, es)
  BY <1>1 DEF Rec
<1>3. QED
  BY <1>2

LEMMA MovedKeepsDepth ==
  ASSUME NEW f, IsFrame(f)
  PROVE  \A p, k : IsFrame(Moved(f, p, k)) /\ Moved(f, p, k).depth = f.depth
<1> SUFFICES ASSUME NEW p, NEW k
             PROVE  IsFrame(Moved(f, p, k)) /\ Moved(f, p, k).depth = f.depth
  OBVIOUS
<1>1. PICK v, d, p1, k1, is, es : f = Rec(v, d, p1, k1, is, es)
  BY DEF IsFrame, Rec
<1>2. f.depth = d
  BY <1>1, RecIsFrame
<1>3. Moved(f, p, k) = Rec(v, d, p, k, is, es)
  BY <1>1, RecMoves
<1>4. QED
  BY <1>2, <1>3, RecIsFrame

-----------------------------------------------------------------------------
(* Stacks. *)

(* A stack is a sequence of frames, of whatever values. *)
IsStack(s) == (\E S : s \in Seq(S)) /\ \A i \in DOMAIN s : IsFrame(s[i])

(* The depths on a stack: at least one more per frame, none past the bound.*)
Depths(s) ==
  /\ \A i \in DOMAIN s : s[i].depth \in (i - 1)..MaxDepth
  /\ \A i, j \in DOMAIN s : i < j => s[i].depth < s[j].depth
  /\ Len(s) <= MaxDepth + 1

Shallower(s, d) == \A i \in DOMAIN s : s[i].depth < d

LEMMA PushFacts ==
  ASSUME NEW S, NEW s \in Seq(S), NEW e
  PROVE  /\ \E T : Append(s, e) \in Seq(T)
         /\ Len(Append(s, e)) = Len(s) + 1 /\ Len(s) \in Nat
         /\ DOMAIN Append(s, e) = 1..Len(s) + 1 /\ DOMAIN s = 1..Len(s)
         /\ \A i \in 1..Len(s) : Append(s, e)[i] = s[i]
         /\ Append(s, e)[Len(s) + 1] = e
<1>1. s \in Seq(S \cup {e}) /\ e \in S \cup {e}
  OBVIOUS
<1>2. Append(s, e) \in Seq(S \cup {e})
  BY <1>1
<1>3. QED
  BY <1>1, <1>2

LEMMA PopFacts ==
  ASSUME NEW S, NEW s \in Seq(S), s # <<>>
  PROVE  /\ Len(s) \in Nat /\ Len(s) > 0 /\ DOMAIN s = 1..Len(s)
         /\ SubSeq(s, 1, Len(s) - 1) \in Seq(S)
         /\ Len(SubSeq(s, 1, Len(s) - 1)) = Len(s) - 1
         /\ DOMAIN SubSeq(s, 1, Len(s) - 1) = 1..Len(s) - 1
         /\ \A i \in 1..Len(s) - 1 : SubSeq(s, 1, Len(s) - 1)[i] = s[i]
<1>1. Len(s) \in Nat /\ Len(s) > 0 /\ DOMAIN s = 1..Len(s)
  OBVIOUS
<1>2. \A i \in 1..Len(s) - 1 : s[i] \in S
  BY <1>1
<1>3. SubSeq(s, 1, Len(s) - 1) = [i \in 1..Len(s) - 1 |-> s[i]]
  BY <1>1
<1>4. QED
  BY <1>1, <1>2, <1>3

(* A collection entered deeper than all that are open. *)
LEMMA PushKeeps ==
  ASSUME NEW s, IsStack(s), Depths(s),
         NEW e, IsFrame(e), e.depth \in 0..MaxDepth, Shallower(s, e.depth)
  PROVE  /\ IsStack(Append(s, e)) /\ Depths(Append(s, e))
         /\ Shallower(Append(s, e), e.depth + 1)
<1>1. PICK S : s \in Seq(S)
  BY DEF IsStack
<1> DEFINE t == Append(s, e)
<1>2. /\ \E T : t \in Seq(T)
      /\ Len(t) = Len(s) + 1 /\ Len(s) \in Nat
      /\ DOMAIN t = 1..Len(s) + 1 /\ DOMAIN s = 1..Len(s)
      /\ \A i \in 1..Len(s) : t[i] = s[i]
      /\ t[Len(s) + 1] = e
  BY <1>1, PushFacts
<1> HIDE DEF t
<1>3. IsStack(t)
  BY <1>2 DEF IsStack
<1>4. MaxDepth \in Nat
  BY DepthAssumption
<1>5. Len(s) <= e.depth
  <2>1. CASE Len(s) = 0
    BY <2>1
  <2>2. CASE Len(s) # 0
    <3>1. Len(s) \in DOMAIN s
      BY <1>2, <2>2
    <3>2. s[Len(s)].depth \in (Len(s) - 1)..MaxDepth /\ s[Len(s)].depth < e.depth
      BY <3>1 DEF Depths, Shallower
    <3>3. QED
      BY <1>2, <1>4, <3>2
  <2>3. QED
    BY <2>1, <2>2
<1>6. \A i \in DOMAIN t : t[i].depth \in (i - 1)..MaxDepth
  BY <1>2, <1>5 DEF Depths
<1>7. \A i, j \in DOMAIN t : i < j => t[i].depth < t[j].depth
  BY <1>2 DEF Depths, Shallower
<1>8. Len(t) <= MaxDepth + 1
  BY <1>2, <1>4, <1>5
<1>9. Shallower(t, e.depth + 1)
  <2> SUFFICES ASSUME NEW i \in DOMAIN t PROVE t[i].depth < e.depth + 1
    BY DEF Shallower
  <2>1. t[i].depth \in Nat /\ (t[i].depth < e.depth \/ t[i].depth = e.depth)
    BY <1>2, <1>6 DEF Shallower
  <2>2. QED
    BY <2>1
<1>10. QED
  BY <1>3, <1>6, <1>7, <1>8, <1>9 DEF Depths, t

(* The innermost collection is deeper than those around it. *)
LEMMA PopKeeps ==
  ASSUME NEW s, IsStack(s), Depths(s), s # <<>>
  PROVE  LET top == s[Len(s)]
             below == SubSeq(s, 1, Len(s) - 1)
         IN  /\ IsFrame(top) /\ top.depth \in 0..MaxDepth
             /\ IsStack(below) /\ Depths(below) /\ Shallower(below, top.depth)
<1>1. PICK S : s \in Seq(S)
  BY DEF IsStack
<1> DEFINE top == s[Len(s)]
<1> DEFINE below == SubSeq(s, 1, Len(s) - 1)
<1>2. /\ Len(s) \in Nat /\ Len(s) > 0 /\ DOMAIN s = 1..Len(s)
      /\ below \in Seq(S)
      /\ Len(below) = Len(s) - 1
      /\ DOMAIN below = 1..Len(s) - 1
      /\ \A i \in 1..Len(s) - 1 : below[i] = s[i]
  BY <1>1, PopFacts
<1> HIDE DEF below
<1>3. Len(s) \in DOMAIN s
  BY <1>2
<1>4. IsFrame(top) /\ top.depth \in (Len(s) - 1)..MaxDepth
  BY <1>3 DEF IsStack, Depths
<1>5. top.depth \in 0..MaxDepth
  BY <1>2, <1>4, DepthAssumption
<1>6. IsStack(below)
  BY <1>2 DEF IsStack
<1>7. Depths(below)
  <2>1. \A i \in DOMAIN below : i \in DOMAIN s /\ below[i] = s[i]
    BY <1>2
  <2>2. Len(below) <= MaxDepth + 1
    BY <1>2, DepthAssumption DEF Depths
  <2>3. /\ \A i \in DOMAIN below : below[i].depth \in (i - 1)..MaxDepth
        /\ \A i, j \in DOMAIN below : i < j => below[i].depth < below[j].depth
    BY <2>1 DEF Depths
  <2>4. QED
    BY <2>2, <2>3 DEF Depths
<1>8. Shallower(below, top.depth)
  BY <1>2, <1>3 DEF Depths, Shallower
<1>9. QED
  BY <1>4, <1>5, <1>6, <1>7, <1>8 DEF below

-----------------------------------------------------------------------------
(* The inductive invariant. *)

(* A call is deeper than every open collection, by at most one past the    *)
(* bound; what returns has no depth of its own.                            *)
Good(r, s) ==
  /\ IsStack(s)
  /\ Depths(s)
  /\ r.mode \in {"call", "return"}
  /\ r.depth \in 0..(MaxDepth + 1)
  /\ r.mode = "call" => Shallower(s, r.depth)

Counters == visits \in 0..MaxVisits /\ verdict \in Failures \cup {"running", "Ok"}

IInv == Good(reg, stack) /\ Counters

LEMMA IInvIsEnough == IInv => DepthBounded
  BY DEF IInv, Good, Counters, Depths, Shallower, DepthBounded

LEMMA CallIsGood ==
  ASSUME NEW s, IsStack(s), Depths(s), NEW v,
         NEW d \in 0..(MaxDepth + 1), Shallower(s, d)
  PROVE  Good(Calling(v, d), s)
<1>1. Calling(v, d).mode = "call"
  BY Zenon DEF Calling
<1>2. Calling(v, d).depth = d
  BY Zenon DEF Calling
<1>3. QED
  BY <1>1, <1>2, Zenon DEF Good

LEMMA ReturnIsGood ==
  ASSUME NEW s, IsStack(s), Depths(s), NEW t
  PROVE  Good(Returning(t), s)
<1>1. Returning(t).mode = "return"
  BY Zenon DEF Returning
<1>2. Returning(t).depth = 0
  BY Zenon DEF Returning
<1>3. 0 \in 0..(MaxDepth + 1)
  BY DepthAssumption
<1>4. "return" # "call"
  OBVIOUS
<1>5. QED
  BY <1>1, <1>2, <1>3, <1>4, Zenon DEF Good

(* A member of a collection is called with the collection, changed but for *)
(* its depth, back on top.                                                 *)
LEMMA MemberIsGood ==
  ASSUME NEW s, IsStack(s), Depths(s),
         NEW e, IsFrame(e), NEW d, e.depth = d, d \in 0..MaxDepth, Shallower(s, d),
         NEW v
  PROVE  Good(Calling(v, MemberDepth(d)), Append(s, e))
<1>1. IsStack(Append(s, e)) /\ Depths(Append(s, e)) /\ Shallower(Append(s, e), d + 1)
  BY PushKeeps
<1>2. MemberDepth(d) = d + 1 /\ MemberDepth(d) \in 0..(MaxDepth + 1)
  BY DepthAssumption DEF MemberDepth
<1>3. QED
  BY <1>1, <1>2, CallIsGood

LEMMA CountedKeeps ==
  ASSUME visits \in 0..MaxVisits, Counted PROVE visits' \in 0..MaxVisits
  BY DepthAssumption DEF Counted

LEMMA FailKeeps ==
  ASSUME IInv, NEW why \in Failures, Fail(why)
  PROVE  Good(reg, stack)' /\ verdict' \in Failures \cup {"running", "Ok"}
  BY DEF IInv, Good, Fail, IsStack, Depths, Shallower

-----------------------------------------------------------------------------
(* The steps. *)

LEMMA InitInv == Init => IInv
<1> SUFFICES ASSUME Init PROVE IInv
  OBVIOUS
<1>1. reg = Calling(root, 0) /\ stack = <<>> /\ visits = 0 /\ verdict = "running"
  BY DEF Init, InitUnarchive
<1>2. IsStack(<<>>) /\ Depths(<<>>) /\ Shallower(<<>>, 0)
  <2>1. <<>> \in Seq({}) /\ DOMAIN <<>> = {} /\ Len(<<>>) = 0
    OBVIOUS
  <2>2. QED
    BY <2>1, DepthAssumption DEF IsStack, Depths, Shallower
<1>3. Good(reg, stack)
  <2>1. 0 \in 0..(MaxDepth + 1)
    BY DepthAssumption
  <2>2. QED
    BY <1>1, <1>2, <2>1, CallIsGood
<1>4. Counters
  BY <1>1, DepthAssumption DEF Counters
<1>5. QED
  BY <1>3, <1>4 DEF IInv

(* The calls: the depth check, then what the value is. *)
LEMMA TooDeepStep ==
  ASSUME IInv, TooDeep PROVE IInv'
<1>1. Fail("TooDeep") /\ Counted
  BY DEF TooDeep
<1>2. QED
  BY <1>1, FailKeeps, CountedKeeps DEF IInv, Counters, Failures

LEMMA FollowStep ==
  ASSUME IInv, Follow PROVE IInv'
<1>1. Called /\ reg.depth <= MaxDepth /\ Counted
  BY DEF Follow, Visit
<1>2. visits' \in 0..MaxVisits
  BY <1>1, CountedKeeps DEF IInv, Counters
<1>3. CASE ~InObjects(reg.value)
  <2>1. Fail("Bounds")
    BY <1>3 DEF Follow
  <2>2. QED
    BY <1>2, <2>1, FailKeeps DEF IInv, Counters, Failures
<1>4. CASE InObjects(reg.value)
  <2>1. /\ reg' = Calling(Target(reg.value), reg.depth + 1)
        /\ stack' = stack /\ verdict' = verdict
    BY <1>4 DEF Follow
  <2>2. reg.depth + 1 \in 0..(MaxDepth + 1) /\ reg.depth \in Nat
    BY <1>1, DepthAssumption DEF IInv, Good
  <2>3. Shallower(stack, reg.depth + 1)
    <3>1. Shallower(stack, reg.depth)
      BY <1>1 DEF IInv, Good, Called
    <3>2. \A i \in DOMAIN stack : stack[i].depth \in (i - 1)..MaxDepth
      BY DEF IInv, Good, Depths
    <3>3. SUFFICES ASSUME NEW i \in DOMAIN stack
                   PROVE  stack[i].depth < reg.depth + 1
      BY DEF Shallower
    <3>4. stack[i].depth < reg.depth /\ stack[i].depth \in (i - 1)..MaxDepth
      BY <3>1, <3>2 DEF Shallower
    <3>5. IsStack(stack)
      BY DEF IInv, Good
    <3>6. i \in Nat
      BY <3>5 DEF IsStack
    <3>7. QED
      BY <2>2, <3>4, <3>6, DepthAssumption
  <2>4. Good(reg', stack')
    BY <2>1, <2>2, <2>3, CallIsGood DEF IInv, Good
  <2>5. QED
    BY <1>2, <2>1, <2>4 DEF IInv, Good, Counters, IsStack, Depths, Shallower
<1>5. QED
  BY <1>3, <1>4

LEMMA PassThroughStep ==
  ASSUME IInv, PassThrough PROVE IInv'
<1>1. /\ reg' = Returning(AsIs(reg.value)) /\ stack' = stack /\ verdict' = verdict
      /\ Counted
  BY DEF PassThrough, Visit
<1>2. visits' \in 0..MaxVisits
  BY <1>1, CountedKeeps DEF IInv, Counters
<1>3. Good(reg', stack')
  BY <1>1, ReturnIsGood DEF IInv, Good
<1>4. QED
  BY <1>1, <1>2, <1>3 DEF IInv, Good, Counters, IsStack, Depths, Shallower

LEMMA EnterStep ==
  ASSUME IInv, Enter PROVE IInv'
<1> DEFINE v == reg.value
<1>1. Called /\ reg.depth <= MaxDepth /\ Counted
  BY DEF Enter, Visit
<1>2. visits' \in 0..MaxVisits
  BY <1>1, CountedKeeps DEF IInv, Counters
<1>3. CASE v.kind = "nsdict" /\ Len(v.keys) # Len(v.objs)
  <2>1. Fail("Mismatch")
    BY <1>3 DEF Enter
  <2>2. QED
    BY <1>2, <2>1, FailKeeps DEF IInv, Counters, Failures
<1>4. CASE ~(v.kind = "nsdict" /\ Len(v.keys) # Len(v.objs)) /\ v.objs = <<>>
  <2>1. /\ \E t : reg' = Returning(t)
        /\ stack' = stack /\ verdict' = verdict
    BY <1>4, Zenon DEF Enter
  <2>2. Good(reg', stack')
    BY <2>1, ReturnIsGood DEF IInv, Good
  <2>3. QED
    BY <1>2, <2>1, <2>2 DEF IInv, Good, Counters, IsStack, Depths, Shallower
<1>5. CASE ~(v.kind = "nsdict" /\ Len(v.keys) # Len(v.objs)) /\ v.objs # <<>>
  <2>1. /\ \E m : reg' = Calling(m, MemberDepth(reg.depth))
        /\ stack' = Append(stack, Frame(v, reg.depth))
        /\ verdict' = verdict
    BY <1>5, Zenon DEF Enter
  <2>2. IsFrame(Frame(v, reg.depth)) /\ Frame(v, reg.depth).depth = reg.depth
    BY DEF IsFrame, Frame
  <2>3. reg.depth \in 0..MaxDepth /\ Shallower(stack, reg.depth)
    BY <1>1, DepthAssumption DEF IInv, Good, Called
  <2>4. Good(reg', stack')
    BY <2>1, <2>2, <2>3, MemberIsGood DEF IInv, Good
  <2>5. QED
    BY <1>2, <2>1, <2>4 DEF IInv, Good, Counters, IsStack, Depths, Shallower
<1>6. QED
  BY <1>3, <1>4, <1>5

(* The returns: a member, or its key, has been decoded. *)
LEMMA ReturnedFacts ==
  ASSUME IInv, Returned
  PROVE  /\ IsFrame(Top) /\ Top.depth \in 0..MaxDepth
         /\ IsStack(Below) /\ Depths(Below) /\ Shallower(Below, Top.depth)
  BY PopKeeps DEF IInv, Good, Returned, Top, Below

LEMMA TakeKeyStep ==
  ASSUME IInv, TakeKey PROVE IInv'
<1>1. Returned /\ visits' = visits
  BY DEF TakeKey
<1>2. CASE reg.tree.kind # "string"
  <2>1. Fail("Key")
    BY <1>2 DEF TakeKey
  <2>2. QED
    BY <1>1, <2>1, FailKeeps DEF IInv, Counters, Failures
<1>3. CASE reg.tree.kind = "string"
  <2> DEFINE top == [Top EXCEPT !.key = <<reg.tree.name>>]
  <2>1. /\ stack' = Append(Below, top)
        /\ reg' = Calling(Top.value.objs[Top.pos], MemberDepth(Top.depth))
        /\ verdict' = verdict
    BY <1>3 DEF TakeKey
  <2>2. IsFrame(top) /\ top.depth = Top.depth
    BY <1>1, ReturnedFacts, FrameKeepsDepth, Zenon
  <2> HIDE DEF top
  <2>3. Good(reg', stack')
    BY <1>1, <2>1, <2>2, ReturnedFacts, MemberIsGood
  <2>4. QED
    BY <1>1, <2>1, <2>3 DEF IInv, Good, Counters, IsStack, Depths, Shallower
<1>4. QED
  BY <1>2, <1>3

LEMMA TakeMemberStep ==
  ASSUME IInv, TakeMember PROVE IInv'
<1> DEFINE full == IF Top.value.kind = "nsdict"
                     THEN [Top EXCEPT !.entries = Insert(@, Top.key[1], reg.tree)]
                     ELSE [Top EXCEPT !.items = Append(@, reg.tree)]
           next == [full EXCEPT !.pos = @ + 1, !.key = <<>>]
<1>1. Returned /\ visits' = visits /\ verdict' = verdict
  BY DEF TakeMember
<1>2. IsFrame(full) /\ full.depth = Top.depth
  <2>1. CASE Top.value.kind = "nsdict"
    <3>1. full = [Top EXCEPT !.entries = Insert(Top.entries, Top.key[1], reg.tree)]
      BY <2>1
    <3>2. QED
      BY <1>1, <3>1, ReturnedFacts, FrameKeepsDepth, Zenon
  <2>2. CASE Top.value.kind # "nsdict"
    <3>1. full = [Top EXCEPT !.items = Append(Top.items, reg.tree)]
      BY <2>2
    <3>2. QED
      BY <1>1, <3>1, ReturnedFacts, FrameKeepsDepth, Zenon
  <2>3. QED
    BY <2>1, <2>2
<1>3. \/ stack' = Below /\ \E t : reg' = Returning(t)
      \/ /\ stack' = Append(Below, next)
         /\ \E m : reg' = Calling(m, MemberDepth(Top.depth))
  BY Zenon DEF TakeMember
<1> HIDE DEF full
<1>4. IsFrame(next) /\ next.depth = Top.depth
  <2>1. next = Moved(full, full.pos + 1, <<>>)
    BY DEF Moved
  <2>2. \A p, k : IsFrame(Moved(full, p, k)) /\ Moved(full, p, k).depth = full.depth
    BY <1>2, MovedKeepsDepth
  <2> HIDE DEF next
  <2>3. IsFrame(next) /\ next.depth = full.depth
    BY <2>1, <2>2, Zenon
  <2>4. QED
    BY <1>2, <2>3
<1> HIDE DEF next
<1>5. Good(reg', stack')
  BY <1>1, <1>3, <1>4, ReturnedFacts, ReturnIsGood, MemberIsGood
<1>6. QED
  BY <1>1, <1>5 DEF IInv, Good, Counters, IsStack, Depths, Shallower

LEMMA StutterStep ==
  ASSUME IInv, reg' = reg, stack' = stack, visits' = visits,
         verdict' \in Failures \cup {"running", "Ok"}
  PROVE  IInv'
  BY DEF IInv, Good, Counters, IsStack, Depths, Shallower

LEMMA NextInv == IInv /\ [Next]_vars => IInv'
<1> SUFFICES ASSUME IInv, [Next]_vars PROVE IInv'
  OBVIOUS
<1>1. CASE UNCHANGED vars \/ UNCHANGED unarchive
  BY <1>1, StutterStep DEF vars, unarchive, IInv, Counters
<1>2. CASE NextUnarchive
  <2>1. CASE FinishRoot
    BY <2>1, StutterStep DEF FinishRoot, Failures
  <2>2. QED
    BY <1>2, <2>1, TooDeepStep, FollowStep, PassThroughStep, EnterStep,
       TakeKeyStep, TakeMemberStep DEF NextUnarchive
<1>3. QED
  BY <1>1, <1>2 DEF Next

(* Whatever `$objects` holds, the recursion of unarchive_value is at most  *)
(* one call past MAX_ARCHIVE_DEPTH, and each open collection is deeper     *)
(* than the one it is in: a cycle ends in TooDeep, not in the stack guard. *)
THEOREM RecursionBounded == Spec => []DepthBounded
<1>1. Spec => []IInv
  BY InitInv, NextInv, PTL DEF Spec
<1>2. QED
  BY <1>1, IInvIsEnough, PTL

-----------------------------------------------------------------------------
(* Induction on the naturals, of a set; sequences made by iteration.       *)

LEMMA LeastOf ==
  ASSUME NEW T, T \subseteq Nat, T # {}
  PROVE  \E x \in T : \A y \in T : x <= y
<1> DEFINE R == OpToRel(<, Nat)
<1>1. IsWellFoundedOn(R, Nat)
  BY NatLessThanWellFounded, Zenon
<1>2. \A a, b \in Nat : a < b => <<a, b>> \in R
  BY DEF OpToRel
<1> HIDE DEF R
<1>3. PICK x \in T : \A y \in T : ~(<<y, x>> \in R)
  BY <1>1, WFMin, Zenon
<1>4. ASSUME NEW y \in T PROVE x <= y
  <2>1. x \in Nat /\ y \in Nat
    OBVIOUS
  <2>2. ~(y < x)
    BY <1>2, <1>3, <2>1
  <2>3. QED
    BY <2>1, <2>2
<1>5. QED
  BY <1>4

LEMMA Induction ==
  ASSUME NEW T, 0 \in T, \A n \in Nat : n \in T => n + 1 \in T
  PROVE  \A n \in Nat : n \in T
<1> SUFFICES ASSUME Nat \ T # {} PROVE FALSE
  OBVIOUS
<1>1. PICK x \in Nat \ T : \A y \in Nat \ T : x <= y
  BY LeastOf
<1>2. x - 1 \in Nat
  BY <1>1
<1>3. x - 1 \in T
  BY <1>1, <1>2
<1>4. QED
  BY <1>1, <1>2, <1>3

(* The first n + 1 members of what F makes of c, each from the last one.   *)
Upto(S, c, F, n, g) ==
  /\ g \in [0..n -> S]
  /\ g[0] = c
  /\ \A i \in Nat : i < n => g[i + 1] = F[<<i, g[i]>>]

LEMMA UptoNext ==
  ASSUME NEW S, NEW c, NEW F \in [Nat \X S -> S], NEW n \in Nat,
         NEW g, Upto(S, c, F, n, g)
  PROVE  \E h : Upto(S, c, F, n + 1, h)
<1> DEFINE next == F[<<n, g[n]>>]
           h == [i \in 0..(n + 1) |-> IF i <= n THEN g[i] ELSE next]
<1>1. g \in [0..n -> S] /\ g[0] = c
      /\ \A i \in Nat : i < n => g[i + 1] = F[<<i, g[i]>>]
  BY DEF Upto
<1>2. next \in S
  BY <1>1
<1>3. h \in [0..(n + 1) -> S] /\ h[0] = c
  BY <1>1, <1>2
<1>4. ASSUME NEW i \in Nat, i < n + 1 PROVE h[i + 1] = F[<<i, h[i]>>]
  <2>1. CASE i < n
    BY <1>1, <2>1
  <2>2. CASE i = n
    BY <2>2
  <2>3. QED
    BY <1>4, <2>1, <2>2
<1> HIDE DEF h
<1>5. Upto(S, c, F, n + 1, h)
  BY <1>3, <1>4 DEF Upto
<1>6. QED
  BY <1>5

LEMMA UptoAgree ==
  ASSUME NEW S, NEW c, NEW F, NEW n \in Nat,
         NEW g, Upto(S, c, F, n, g), NEW h, Upto(S, c, F, n + 1, h)
  PROVE  g[n] = h[n]
<1> DEFINE E == {i \in Nat : i <= n => g[i] = h[i]}
<1>1. 0 \in E
  BY DEF Upto
<1>2. ASSUME NEW i \in Nat, i \in E PROVE i + 1 \in E
  <2>1. CASE i + 1 <= n
    <3>1. i < n /\ i < n + 1 /\ g[i] = h[i]
      BY <1>2, <2>1
    <3>2. g[i + 1] = F[<<i, g[i]>>] /\ h[i + 1] = F[<<i, h[i]>>]
      BY <3>1 DEF Upto
    <3>3. QED
      BY <3>1, <3>2
  <2>2. QED
    BY <2>1
<1>3. \A i \in Nat : i \in E
  <2> HIDE DEF E
  <2>1. QED
    BY <1>1, <1>2, Induction
<1>4. QED
  BY <1>3

(* An infinite sequence in S from c, each member made of the last by F.    *)
Iterates(S, c, F, f) ==
  f \in [Nat -> S] /\ f[0] = c /\ \A n \in Nat : f[n + 1] = F[<<n, f[n]>>]

LEMMA Iteration ==
  ASSUME NEW S, NEW c \in S, NEW F \in [Nat \X S -> S]
  PROVE  \E f : Iterates(S, c, F, f)
<1> DEFINE T == {n \in Nat : \E g : Upto(S, c, F, n, g)}
<1>1. 0 \in T
  <2>1. Upto(S, c, F, 0, [i \in 0..0 |-> c])
    BY DEF Upto
  <2>2. QED
    BY <2>1
<1>2. ASSUME NEW n \in Nat, n \in T PROVE n + 1 \in T
  BY <1>2, UptoNext
<1>3. \A n \in Nat : n \in T
  <2> HIDE DEF T
  <2>1. QED
    BY <1>1, <1>2, Induction
<1> DEFINE G(n) == CHOOSE g : Upto(S, c, F, n, g)
           f == [n \in Nat |-> G(n)[n]]
<1>4. \A n \in Nat : Upto(S, c, F, n, G(n))
  BY <1>3, Zenon
<1> HIDE DEF G
<1>5. \A n \in Nat : G(n)[n] \in S
  BY <1>4 DEF Upto
<1>6. f \in [Nat -> S]
  BY <1>5
<1>7. f[0] = c
  BY <1>4 DEF Upto
<1>8. ASSUME NEW n \in Nat PROVE f[n + 1] = F[<<n, f[n]>>]
  <2>1. Upto(S, c, F, n, G(n)) /\ Upto(S, c, F, n + 1, G(n + 1))
    BY <1>4
  <2>2. G(n)[n] = G(n + 1)[n]
    BY <2>1, UptoAgree
  <2>3. G(n + 1)[n + 1] = F[<<n, G(n + 1)[n]>>]
    BY <2>1 DEF Upto
  <2>4. QED
    BY <2>2, <2>3
<1> HIDE DEF f
<1>9. QED
  BY <1>6, <1>7, <1>8 DEF Iterates

-----------------------------------------------------------------------------
(* Archives, and the functions by which ArchiveGraph reads them.           *)

ArchiveIs == objects \in Seq(Values) /\ root \in Values

LEMMA ValueFields ==
  ASSUME NEW v \in Values
  PROVE  /\ v.kind \in Kinds /\ v.to \in Nat
         /\ v.keys \in Seq(Values) /\ v.objs \in Seq(Values)
         /\ Len(v.keys) \in Nat /\ DOMAIN v.keys = 1..Len(v.keys)
         /\ Len(v.objs) \in Nat /\ DOMAIN v.objs = 1..Len(v.objs)
         /\ \A i \in 1..Len(v.keys) : v.keys[i] \in Values
         /\ \A i \in 1..Len(v.objs) : v.objs[i] \in Values
<1>1. /\ v.kind \in Kinds /\ v.to \in Nat
      /\ v.keys \in Seq(Values) /\ v.objs \in Seq(Values)
  BY ArchiveAssumption
<1>2. QED
  BY <1>1

LEMMA TargetIsValue ==
  ASSUME ArchiveIs, NEW v \in Values, Refers(v)
  PROVE  Target(v) \in Values /\ v.to + 1 \in 1..Len(objects)
<1>1. v.to \in Nat /\ v.to < Len(objects) /\ Len(objects) \in Nat
  BY ValueFields DEF Refers, InObjects, ArchiveIs
<1>2. v.to + 1 \in 1..Len(objects)
  BY <1>1
<1>3. QED
  BY <1>2 DEF Target, ArchiveIs

LEMMA MembersAreValues ==
  ASSUME ArchiveIs, NEW v \in Values
  PROVE  /\ Members(v) \in Seq(Values)
         /\ Rng(Members(v)) \subseteq Values
<1>1. Members(v) \in Seq(Values)
  <2>1. v.objs \in Seq(Values) /\ v.keys \o v.objs \in Seq(Values) /\ <<>> \in Seq(Values)
    BY ValueFields
  <2>2. Refers(v) => <<Target(v)>> \in Seq(Values)
    BY TargetIsValue
  <2>3. QED
    BY <2>1, <2>2 DEF Members
<1>2. QED
  BY <1>1 DEF Rng

LEMMA MembersOf ==
  ASSUME ArchiveIs, NEW v \in Values
  PROVE  /\ Refers(v) => Rng(Members(v)) = {Target(v)}
         /\ v.kind = "nsarray" => Rng(Members(v)) = Rng(v.objs)
         /\ v.kind = "nsdict" /\ Len(v.keys) = Len(v.objs) =>
              Rng(Members(v)) = Rng(v.keys) \cup Rng(v.objs)
         /\ ~Refers(v) /\ v.kind \notin {"nsarray", "nsdict"} =>
              Rng(Members(v)) = {}
<1>1. ASSUME Refers(v) PROVE Rng(Members(v)) = {Target(v)}
  <2>1. Members(v) = <<Target(v)>>
    BY <1>1 DEF Members, Refers
  <2>2. QED
    BY <2>1 DEF Rng
<1>2. ASSUME v.kind = "nsarray" PROVE Rng(Members(v)) = Rng(v.objs)
  BY <1>2 DEF Members, Refers
<1>3. ASSUME v.kind = "nsdict", Len(v.keys) = Len(v.objs)
      PROVE  Rng(Members(v)) = Rng(v.keys) \cup Rng(v.objs)
  <2>1. Members(v) = v.keys \o v.objs
    BY <1>3 DEF Members, Refers
  <2> DEFINE ks == v.keys
             os == v.objs
             n == Len(v.objs)
  <2>2. /\ n \in Nat /\ ks \in Seq(Values) /\ os \in Seq(Values)
        /\ Len(ks) = n /\ Len(os) = n /\ DOMAIN ks = 1..n /\ DOMAIN os = 1..n
    BY <1>3, ValueFields
  <2> HIDE DEF ks, os, n
  <2>3. DOMAIN (ks \o os) = 1..(n + n)
    BY <2>2
  <2>4. \A i \in 1..n : (ks \o os)[i] = ks[i] /\ (ks \o os)[n + i] = os[i]
    BY <2>2
  <2>5. \A i \in 1..(n + n) : i \in 1..n \/ \E j \in 1..n : i = n + j
    <3> SUFFICES ASSUME NEW i \in 1..(n + n), i \notin 1..n
                 PROVE  \E j \in 1..n : i = n + j
      OBVIOUS
    <3>1. i - n \in 1..n /\ i = n + (i - n)
      BY <2>2
    <3>2. QED
      BY <3>1
  <2>6. Rng(ks \o os) \subseteq Rng(ks) \cup Rng(os)
    <3> SUFFICES ASSUME NEW i \in 1..(n + n)
                 PROVE  (ks \o os)[i] \in Rng(ks) \cup Rng(os)
      BY <2>3 DEF Rng
    <3>1. QED
      BY <2>2, <2>4, <2>5 DEF Rng
  <2>7. Rng(ks) \cup Rng(os) \subseteq Rng(ks \o os)
    <3>1. \A i \in 1..n : i \in 1..(n + n) /\ n + i \in 1..(n + n)
      BY <2>2
    <3>2. QED
      BY <2>2, <2>3, <2>4, <3>1 DEF Rng
  <2>8. QED
    BY <2>1, <2>6, <2>7 DEF ks, os
<1>4. ASSUME ~Refers(v), v.kind \notin {"nsarray", "nsdict"}
      PROVE  Rng(Members(v)) = {}
  <2>1. Members(v) = <<>>
    BY <1>4 DEF Members
  <2>2. QED
    BY <2>1 DEF Rng
<1>5. QED
  BY <1>1, <1>2, <1>3, <1>4

LEMMA ChaseIs ==
  ASSUME ArchiveIs, NEW v \in Values
  PROVE  /\ Chase(v) \in [Nat -> Values]
         /\ Chase(v)[0] = v
         /\ \A n \in Nat : Chase(v)[n + 1] = IF Refers(Chase(v)[n])
                                               THEN Target(Chase(v)[n])
                                               ELSE Chase(v)[n]
<1> DEFINE Hop(w) == IF Refers(w) THEN Target(w) ELSE w
           F == [p \in Nat \X Values |-> Hop(p[2])]
           Is(f) == f = [n \in Nat |-> IF n = 0 THEN v ELSE Hop(f[n - 1])]
<1>1. \A w \in Values : Hop(w) \in Values
  BY TargetIsValue
<1>2. F \in [Nat \X Values -> Values]
  BY <1>1
<1>3. \A n \in Nat, w \in Values : F[<<n, w>>] = Hop(w)
  OBVIOUS
<1> HIDE DEF F, Hop
<1>4. PICK f : Iterates(Values, v, F, f)
  BY <1>2, Iteration
<1>5. Is(f)
  <2> DEFINE g == [n \in Nat |-> IF n = 0 THEN v ELSE Hop(f[n - 1])]
  <2>1. \A n \in Nat : f[n] = g[n]
    <3> SUFFICES ASSUME NEW n \in Nat, n # 0 PROVE f[n] = Hop(f[n - 1])
      BY <1>4 DEF Iterates
    <3>1. n - 1 \in Nat /\ n = (n - 1) + 1
      OBVIOUS
    <3>2. f[(n - 1) + 1] = F[<<n - 1, f[n - 1]>>] /\ f[n - 1] \in Values
      BY <1>4, <3>1 DEF Iterates
    <3>3. QED
      BY <1>3, <3>1, <3>2
  <2>2. f = g
    BY <1>4, <2>1 DEF Iterates
  <2>3. QED
    BY <2>2
<1>6. Chase(v) = CHOOSE at : Is(at)
  BY DEF Chase, Hop
<1>7. Is(Chase(v))
  BY <1>5, <1>6, Zenon
<1> DEFINE c == Chase(v)
<1> HIDE DEF c
<1>8. c = [n \in Nat |-> IF n = 0 THEN v ELSE Hop(c[n - 1])]
  BY <1>7 DEF c
<1>9. c[0] = v
  BY <1>8
<1>10. \A n \in Nat : c[n + 1] = Hop(c[n])
  <2> SUFFICES ASSUME NEW n \in Nat PROVE c[n + 1] = Hop(c[n])
    OBVIOUS
  <2>1. n + 1 \in Nat /\ n + 1 # 0 /\ (n + 1) - 1 = n
    OBVIOUS
  <2>2. c[n + 1] = Hop(c[(n + 1) - 1])
    BY <1>8, <2>1
  <2>3. QED
    BY <2>1, <2>2
<1>11. \A n \in Nat : c[n] \in Values
  <2> DEFINE T == {n \in Nat : c[n] \in Values}
  <2>1. 0 \in T
    BY <1>9
  <2>2. \A n \in Nat : n \in T => n + 1 \in T
    BY <1>1, <1>10
  <2> HIDE DEF T
  <2>3. \A n \in Nat : n \in T
    BY <2>1, <2>2, Induction
  <2>4. QED
    BY <2>3 DEF T
<1>12. c \in [Nat -> Values]
  BY <1>8, <1>11
<1>13. QED
  BY <1>9, <1>10, <1>12 DEF c, Hop

(* One step on from each value of a set. *)
Onward(X) == UNION {Rng(Members(w)) : w \in X}

LEMMA FromIs ==
  ASSUME ArchiveIs, NEW v \in Values
  PROVE  /\ From(v) \in [Nat -> SUBSET Values]
         /\ From(v)[0] = {v}
         /\ \A n \in Nat : From(v)[n + 1] = Onward(From(v)[n])
<1> DEFINE S == SUBSET Values
           F == [p \in Nat \X S |-> Onward(p[2])]
           first == {v}
           Is(f) == f = [n \in Nat |-> IF n = 0 THEN first ELSE Onward(f[n - 1])]
<1>1. \A X \in S : Onward(X) \in S
  BY MembersAreValues DEF Onward
<1>2. F \in [Nat \X S -> S]
  BY <1>1
<1>3. \A n \in Nat, X \in S : F[<<n, X>>] = Onward(X)
  OBVIOUS
<1>4. first \in S
  OBVIOUS
<1> HIDE DEF F, S, first
<1>5. PICK f : Iterates(S, first, F, f)
  BY <1>2, <1>4, Iteration
<1>6. Is(f)
  <2> DEFINE g == [n \in Nat |-> IF n = 0 THEN first ELSE Onward(f[n - 1])]
  <2>1. \A n \in Nat : f[n] = g[n]
    <3> SUFFICES ASSUME NEW n \in Nat, n # 0 PROVE f[n] = Onward(f[n - 1])
      BY <1>5 DEF Iterates
    <3>1. n - 1 \in Nat /\ n = (n - 1) + 1
      OBVIOUS
    <3>2. f[(n - 1) + 1] = F[<<n - 1, f[n - 1]>>] /\ f[n - 1] \in S
      BY <1>5, <3>1 DEF Iterates
    <3>3. QED
      BY <1>3, <3>1, <3>2
  <2>2. f = g
    BY <1>5, <2>1 DEF Iterates
  <2>3. QED
    BY <2>2
<1>7. From(v) = CHOOSE at : Is(at)
  BY DEF From, Onward, first
<1>8. Is(From(v))
  BY <1>6, <1>7, Zenon
<1> DEFINE c == From(v)
<1> HIDE DEF c
<1>9. c = [n \in Nat |-> IF n = 0 THEN first ELSE Onward(c[n - 1])]
  BY <1>8 DEF c
<1>10. c[0] = first
  BY <1>9
<1>11. \A n \in Nat : c[n + 1] = Onward(c[n])
  <2> SUFFICES ASSUME NEW n \in Nat PROVE c[n + 1] = Onward(c[n])
    OBVIOUS
  <2>1. n + 1 \in Nat /\ n + 1 # 0 /\ (n + 1) - 1 = n
    OBVIOUS
  <2>2. c[n + 1] = Onward(c[(n + 1) - 1])
    BY <1>9, <2>1
  <2>3. QED
    BY <2>1, <2>2
<1>12. \A n \in Nat : c[n] \in S
  <2> DEFINE T == {n \in Nat : c[n] \in S}
  <2>1. 0 \in T
    BY <1>4, <1>10
  <2>2. \A n \in Nat : n \in T => n + 1 \in T
    BY <1>1, <1>11
  <2> HIDE DEF T
  <2>3. \A n \in Nat : n \in T
    BY <2>1, <2>2, Induction
  <2>4. QED
    BY <2>3 DEF T
<1>13. c \in [Nat -> S]
  BY <1>9, <1>12
<1>14. QED
  BY <1>10, <1>11, <1>13 DEF c, S, first

(* The first step of a walk, then the others. *)
LEMMA FromMembers ==
  ASSUME ArchiveIs, NEW v \in Values, NEW n \in Nat, NEW w \in From(v)[n + 1]
  PROVE  \E m \in Rng(Members(v)) : w \in From(m)[n]
<1> DEFINE Split(k) == \A x \in From(v)[k + 1] : \E m \in Rng(Members(v)) : x \in From(m)[k]
           T == {k \in Nat : Split(k)}
<1>1. Rng(Members(v)) \subseteq Values
  BY MembersAreValues
<1>2. 0 \in T
  <2>1. From(v)[0 + 1] = Onward({v})
    BY FromIs
  <2>2. Onward({v}) = Rng(Members(v))
    BY DEF Onward
  <2>3. \A m \in Rng(Members(v)) : From(m)[0] = {m}
    BY <1>1, FromIs
  <2>4. QED
    BY <2>1, <2>2, <2>3
<1>3. ASSUME NEW k \in Nat, k \in T PROVE k + 1 \in T
  <2>1. Split(k)
    BY <1>3
  <2>2. k + 1 \in Nat /\ From(v)[(k + 1) + 1] = Onward(From(v)[k + 1])
    BY FromIs
  <2>3. ASSUME NEW x \in Onward(From(v)[k + 1])
        PROVE  \E m \in Rng(Members(v)) : x \in From(m)[k + 1]
    <3>1. PICK y \in From(v)[k + 1] : x \in Rng(Members(y))
      BY DEF Onward
    <3>2. PICK m \in Rng(Members(v)) : y \in From(m)[k]
      BY <2>1
    <3>3. x \in Onward(From(m)[k])
      BY <3>1, <3>2 DEF Onward
    <3>4. From(m)[k + 1] = Onward(From(m)[k])
      BY <1>1, FromIs
    <3>5. QED
      BY <3>3, <3>4
  <2>4. Split(k + 1)
    BY <2>2, <2>3
  <2> HIDE DEF Split
  <2>5. QED
    BY <2>2, <2>4
<1>4. \A k \in Nat : k \in T
  <2> HIDE DEF T
  <2>1. QED
    BY <1>2, <1>3, Induction
<1>5. Split(n)
  BY <1>4
<1>6. QED
  BY <1>5

-----------------------------------------------------------------------------
(* Chains of Uids.  One that ends does so within `$objects`: a longer one  *)
(* comes back to where it was.                                             *)

LEMMA ChaseStays ==
  ASSUME ArchiveIs, NEW v \in Values, NEW n \in Nat, ~Refers(Chase(v)[n])
  PROVE  \A m \in Nat : Chase(v)[n + m] = Chase(v)[n]
<1> DEFINE c == Chase(v)
           T == {m \in Nat : c[n + m] = c[n]}
<1>1. \A k \in Nat : c[k + 1] = IF Refers(c[k]) THEN Target(c[k]) ELSE c[k]
  BY ChaseIs
<1>2. ~Refers(c[n])
  OBVIOUS
<1> HIDE DEF c
<1>3. 0 \in T
  OBVIOUS
<1>4. ASSUME NEW m \in Nat, m \in T PROVE m + 1 \in T
  <2>1. n + m \in Nat /\ n + (m + 1) = (n + m) + 1
    OBVIOUS
  <2>2. c[(n + m) + 1] = c[n]
    BY <1>1, <1>2, <1>4, <2>1
  <2>3. QED
    BY <2>1, <2>2
<1>5. \A m \in Nat : m \in T
  <2> HIDE DEF T
  <2>1. QED
    BY <1>3, <1>4, Induction
<1>6. QED
  BY <1>5 DEF c

LEMMA ChaseRepeats ==
  ASSUME ArchiveIs, NEW v \in Values, NEW i \in Nat, NEW j \in Nat,
         Chase(v)[i] = Chase(v)[j]
  PROVE  \A m \in Nat : Chase(v)[i + m] = Chase(v)[j + m]
<1> DEFINE c == Chase(v)
           T == {m \in Nat : c[i + m] = c[j + m]}
<1>1. \A k \in Nat : c[k + 1] = IF Refers(c[k]) THEN Target(c[k]) ELSE c[k]
  BY ChaseIs
<1>2. c[i] = c[j]
  OBVIOUS
<1> HIDE DEF c
<1>3. 0 \in T
  BY <1>2
<1>4. ASSUME NEW m \in Nat, m \in T PROVE m + 1 \in T
  <2>1. /\ i + m \in Nat /\ i + (m + 1) = (i + m) + 1
        /\ j + m \in Nat /\ j + (m + 1) = (j + m) + 1
    OBVIOUS
  <2>2. c[(i + m) + 1] = c[(j + m) + 1]
    BY <1>1, <1>4, <2>1
  <2>3. QED
    BY <2>1, <2>2
<1>5. \A m \in Nat : m \in T
  <2> HIDE DEF T
  <2>1. QED
    BY <1>3, <1>4, Induction
<1>6. QED
  BY <1>5 DEF c

(* More Uids than there are objects: two of them refer to the same one.    *)
LEMMA ChainMeetsItself ==
  ASSUME ArchiveIs, NEW v \in Values,
         \A k \in 0..Len(objects) : Refers(Chase(v)[k])
  PROVE  \E i, j \in 0..Len(objects) :
            i < j /\ Chase(v)[i + 1] = Chase(v)[j + 1]
<1> DEFINE L == Len(objects)
           c == Chase(v)
           f == [k \in 0..L |-> c[k].to + 1]
<1>1. L \in Nat
  BY DEF ArchiveIs
<1>2. \A k \in 0..L : k \in Nat /\ c[k] \in Values /\ Refers(c[k])
  BY <1>1, ChaseIs
<1>3. \A k \in 0..L : c[k].to + 1 \in 1..L
  BY <1>2, TargetIsValue
<1>4. \A k \in 0..L : c[k + 1] = objects[c[k].to + 1]
  BY <1>2, ChaseIs DEF Target
<1> HIDE DEF L, c
<1>5. f \in [0..L -> 1..L]
  BY <1>3
<1>6. /\ IsFiniteSet(0..L) /\ IsFiniteSet(1..L)
      /\ Cardinality(0..L) = L + 1 /\ Cardinality(1..L) = L
  <2>1. 0 \in Int /\ 1 \in Int /\ L \in Int
    BY <1>1
  <2>2. IsFiniteSet(0..L) /\ Cardinality(0..L) = IF 0 > L THEN 0 ELSE L - 0 + 1
    BY <2>1, FS_Interval
  <2>3. IsFiniteSet(1..L) /\ Cardinality(1..L) = IF 1 > L THEN 0 ELSE L - 1 + 1
    BY <2>1, FS_Interval
  <2>4. QED
    BY <1>1, <2>2, <2>3
<1> HIDE DEF f
<1>7. \E x, y \in 0..L : x # y /\ f[x] = f[y]
  <2>1. Cardinality(1..L) < Cardinality(0..L)
    BY <1>1, <1>6
  <2>2. QED
    BY <1>5, <1>6, <2>1, FS_PigeonHole
<1>8. PICK x, y \in 0..L : x # y /\ f[x] = f[y]
  BY <1>7
<1>9. c[x + 1] = c[y + 1]
  BY <1>4, <1>8 DEF f
<1>10. x < y \/ y < x
  BY <1>1, <1>8
<1>11. QED
  BY <1>9, <1>10 DEF L, c

LEMMA LongChainNeverEnds ==
  ASSUME ArchiveIs, NEW v \in Values,
         \A k \in 0..Len(objects) : Refers(Chase(v)[k])
  PROVE  \A n \in Nat : Refers(Chase(v)[n])
<1> DEFINE L == Len(objects)
           c == Chase(v)
           Ends == {n \in Nat : ~Refers(c[n])}
<1>1. L \in Nat
  BY DEF ArchiveIs
<1>2. PICK i, j \in 0..L : i < j /\ c[i + 1] = c[j + 1]
  BY ChainMeetsItself
<1>3. \A m \in Nat : c[(i + 1) + m] = c[(j + 1) + m]
  BY <1>1, <1>2, ChaseRepeats
<1>4. \A k \in 0..L : Refers(c[k])
  OBVIOUS
<1> HIDE DEF L, c
<1> SUFFICES ASSUME Ends # {} PROVE FALSE
  BY DEF c
<1>5. PICK n \in Ends : \A m \in Ends : n <= m
  BY LeastOf
<1>6. n \in Nat /\ n > L
  BY <1>1, <1>4, <1>5
<1> DEFINE m == n - (j + 1)
<1>7. m \in Nat /\ n = (j + 1) + m /\ (i + 1) + m \in Nat /\ (i + 1) + m < n
  BY <1>1, <1>2, <1>6
<1>8. c[(i + 1) + m] = c[n]
  BY <1>3, <1>7
<1>9. (i + 1) + m \in Ends
  BY <1>5, <1>7, <1>8
<1>10. QED
  BY <1>5, <1>6, <1>7, <1>9

(* What a chain ends in is what its first member means. *)
LEMMA EndIsMeant ==
  ASSUME ArchiveIs, NEW v \in Values, NEW k \in Nat, ~Refers(Chase(v)[k])
  PROVE  Meant(v) = Chase(v)[k]
<1> DEFINE L == Len(objects)
           c == Chase(v)
<1>1. L \in Nat
  BY DEF ArchiveIs
<1>2. PICK n \in 0..L : ~Refers(c[n])
  BY LongChainNeverEnds
<1>3. n \in Nat /\ n <= L
  BY <1>1
<1>4. \A m \in Nat : c[n + m] = c[n]
  BY <1>2, <1>3, ChaseStays
<1>5. \A m \in Nat : c[k + m] = c[k]
  BY ChaseStays
<1> HIDE DEF c, L
<1>6. c[L + 1] = c[n]
  <2>1. (L + 1) - n \in Nat /\ L + 1 = n + ((L + 1) - n)
    BY <1>1, <1>3
  <2>2. QED
    BY <1>4, <2>1
<1>7. c[k] = c[n]
  <2>1. CASE k <= n
    <3>1. n - k \in Nat /\ n = k + (n - k)
      BY <1>3, <2>1
    <3>2. c[k + (n - k)] = c[k]
      BY <1>5, <3>1
    <3>3. QED
      BY <3>1, <3>2
  <2>2. CASE n <= k
    <3>1. k - n \in Nat /\ k = n + (k - n)
      BY <1>3, <2>2
    <3>2. c[n + (k - n)] = c[n]
      BY <1>4, <3>1
    <3>3. QED
      BY <3>1, <3>2
  <2>3. QED
    BY <1>3, <2>1, <2>2
<1>8. QED
  BY <1>6, <1>7 DEF Meant, c, L

(* From a at depth d a chain of Uids leads to b at depth e. *)
Leads(a, d, b, e) ==
  /\ d \in Nat /\ e \in Nat /\ d <= e
  /\ Chase(a)[e - d] = b
  /\ \A j \in Nat : j < e - d => Refers(Chase(a)[j])

LEMMA LeadsToItself ==
  ASSUME ArchiveIs, NEW a \in Values, NEW d \in Nat
  PROVE  Leads(a, d, a, d)
<1>1. d - d = 0 /\ Chase(a)[0] = a
  BY ChaseIs
<1>2. QED
  BY <1>1 DEF Leads

LEMMA LeadsOn ==
  ASSUME ArchiveIs, NEW a \in Values, NEW d, NEW b, NEW e,
         Leads(a, d, b, e), Refers(b)
  PROVE  Leads(a, d, Target(b), e + 1)
<1> DEFINE n == e - d
<1>1. d \in Nat /\ e \in Nat /\ d <= e /\ n \in Nat /\ (e + 1) - d = n + 1
  BY DEF Leads
<1>2. Chase(a)[n] = b /\ \A j \in Nat : j < n => Refers(Chase(a)[j])
  BY DEF Leads
<1>3. Chase(a)[n + 1] = Target(b)
  BY <1>1, <1>2, ChaseIs
<1>4. \A j \in Nat : j < n + 1 => Refers(Chase(a)[j])
  <2> SUFFICES ASSUME NEW j \in Nat, j < n + 1 PROVE Refers(Chase(a)[j])
    OBVIOUS
  <2>1. j < n \/ j = n
    BY <1>1
  <2>2. QED
    BY <1>2, <2>1
<1> HIDE DEF n
<1>5. QED
  BY <1>1, <1>3, <1>4 DEF Leads

LEMMA LeadsToMeant ==
  ASSUME ArchiveIs, NEW a \in Values, NEW d, NEW b, NEW e,
         Leads(a, d, b, e), ~Refers(b)
  PROVE  Meant(a) = b
<1>1. e - d \in Nat /\ Chase(a)[e - d] = b
  BY DEF Leads
<1>2. QED
  BY <1>1, EndIsMeant

-----------------------------------------------------------------------------
(* Values that decode without failing.                                     *)

Bad(w) == Dangles(w) \/ Mismatched(w) \/ BadlyKeyed(w)

(* From v at depth d no walk is longer than the bound, and none meets a    *)
(* value that makes the decoder fail.                                      *)
Clean(v, d) ==
  \A k \in Nat : \A w \in From(v)[k] : d + k <= MaxDepth /\ ~Bad(w)

LEMMA CleanIsBounded ==
  ASSUME ArchiveIs, NEW v \in Values, NEW d \in Nat, Clean(v, d)
  PROVE  d <= MaxDepth /\ ~Bad(v)
<1>1. v \in From(v)[0] /\ d + 0 = d
  BY FromIs
<1>2. QED
  BY <1>1 DEF Clean

LEMMA CleanStep ==
  ASSUME ArchiveIs, NEW v \in Values, NEW d \in Nat, d <= MaxDepth, ~Bad(v),
         \A m \in Rng(Members(v)) : Clean(m, d + 1)
  PROVE  Clean(v, d)
<1> SUFFICES ASSUME NEW k \in Nat, NEW w \in From(v)[k]
             PROVE  d + k <= MaxDepth /\ ~Bad(w)
  BY DEF Clean
<1>1. CASE k = 0
  BY <1>1, FromIs
<1>2. CASE k # 0
  <2>1. k - 1 \in Nat /\ k = (k - 1) + 1
    BY <1>2
  <2>2. w \in From(v)[(k - 1) + 1]
    BY <2>1
  <2>3. PICK m \in Rng(Members(v)) : w \in From(m)[k - 1]
    BY <2>1, <2>2, FromMembers
  <2>4. (d + 1) + (k - 1) <= MaxDepth /\ ~Bad(w)
    BY <2>1, <2>3 DEF Clean
  <2>5. QED
    BY <2>4
<1>3. QED
  BY <1>1, <1>2

(* A chain of Uids is clean where its end is. *)
LEMMA LeadsFromClean ==
  ASSUME ArchiveIs, NEW a \in Values, NEW d, NEW b, NEW e,
         Leads(a, d, b, e), Clean(b, e)
  PROVE  Clean(a, d)
<1> DEFINE n == e - d
           T == {i \in Nat : i <= n => Clean(Chase(a)[n - i], e - i)}
<1>1. d \in Nat /\ e \in Nat /\ n \in Nat /\ d + n = e
  BY DEF Leads
<1>2. Chase(a)[n] = b /\ \A j \in Nat : j < n => Refers(Chase(a)[j])
  BY DEF Leads
<1> HIDE DEF n
<1>3. 0 \in T
  <2>1. n - 0 = n /\ e - 0 = e
    BY <1>1
  <2>2. QED
    BY <1>2, <2>1
<1>4. ASSUME NEW i \in Nat, i \in T PROVE i + 1 \in T
  <2> SUFFICES ASSUME i + 1 <= n PROVE Clean(Chase(a)[n - (i + 1)], e - (i + 1))
    OBVIOUS
  <2> DEFINE j == n - (i + 1)
             w == Chase(a)[j]
             f == e - (i + 1)
  <2>1. /\ j \in Nat /\ j < n /\ n - i = j + 1
        /\ f \in Nat /\ e - i = f + 1
    BY <1>1
  <2>2. w \in Values /\ Refers(w) /\ Chase(a)[j + 1] = Target(w)
    <3> HIDE DEF j
    <3>1. w \in Values
      BY <2>1, ChaseIs
    <3>2. Refers(w)
      BY <1>2, <2>1
    <3>3. Chase(a)[j + 1] = Target(w)
      BY <2>1, <3>2, ChaseIs
    <3>4. QED
      BY <3>1, <3>2, <3>3
  <2>3. i <= n
    BY <1>1
  <2>4. Clean(Target(w), f + 1)
    BY <1>4, <2>1, <2>2, <2>3
  <2> HIDE DEF j, f, w
  <2>5. Target(w) \in Values /\ f + 1 <= MaxDepth
    BY <2>1, <2>2, <2>4, TargetIsValue, CleanIsBounded
  <2>6. f <= MaxDepth
    BY <2>1, <2>5, DepthAssumption
  <2>7. ~Bad(w)
    BY <2>2 DEF Bad, Dangles, Mismatched, BadlyKeyed, Refers
  <2>8. Rng(Members(w)) = {Target(w)}
    BY <2>2, MembersOf
  <2>9. Clean(w, f)
    BY <2>1, <2>2, <2>4, <2>6, <2>7, <2>8, CleanStep
  <2>10. QED
    BY <2>9 DEF w, f, j
<1>5. \A i \in Nat : i \in T
  <2> HIDE DEF T
  <2>1. QED
    BY <1>3, <1>4, Induction
<1>6. n \in T /\ n - n = 0 /\ e - n = d
  BY <1>1, <1>5
<1>7. Clean(Chase(a)[0], d)
  BY <1>1, <1>6
<1>8. QED
  BY <1>7, ChaseIs

-----------------------------------------------------------------------------
(* Meaning, level by level. *)

LevelOn(under) == [v \in Values |-> Built(Meant(v), under)]
Bare           == [v \in Values |-> NoTree]

Levels(n, g) == g = [i \in 0..n |-> IF i = 0 THEN Bare ELSE LevelOn(g[i - 1])]

LEMMA LevelsNext ==
  ASSUME NEW n \in Nat, NEW g, Levels(n, g)
  PROVE  \E h : Levels(n + 1, h)
<1> DEFINE h == [i \in 0..(n + 1) |-> IF i <= n THEN g[i] ELSE LevelOn(g[n])]
           r == [i \in 0..(n + 1) |-> IF i = 0 THEN Bare ELSE LevelOn(h[i - 1])]
<1>1. ASSUME NEW i \in 0..(n + 1) PROVE h[i] = r[i]
  <2>1. CASE i = 0
    BY <2>1 DEF Levels
  <2>2. CASE i # 0 /\ i <= n
    <3>1. i - 1 \in 0..(n + 1) /\ i - 1 <= n /\ i \in 0..n
      BY <2>2
    <3>2. g[i] = LevelOn(g[i - 1])
      BY <2>2, <3>1 DEF Levels
    <3>3. QED
      BY <2>2, <3>1, <3>2
  <2>3. CASE i = n + 1
    <3>1. i - 1 = n /\ n \in 0..(n + 1) /\ i # 0 /\ ~(i <= n)
      BY <2>3
    <3>2. h[i - 1] = g[n]
      BY <3>1
    <3>3. QED
      BY <3>1, <3>2
  <2>4. QED
    BY <2>1, <2>2, <2>3
<1>2. h = r
  BY <1>1
<1> HIDE DEF h
<1>3. Levels(n + 1, h)
  BY <1>2 DEF Levels
<1>4. QED
  BY <1>3

LEMMA LevelsAgree ==
  ASSUME NEW n \in Nat, NEW g, Levels(n, g), NEW h, Levels(n + 1, h)
  PROVE  g[n] = h[n]
<1> DEFINE E == {i \in Nat : i <= n => g[i] = h[i]}
<1>1. /\ \A i \in 0..n : g[i] = IF i = 0 THEN Bare ELSE LevelOn(g[i - 1])
      /\ \A i \in 0..(n + 1) : h[i] = IF i = 0 THEN Bare ELSE LevelOn(h[i - 1])
  <2>1. \A i \in 0..n : g[i] = IF i = 0 THEN Bare ELSE LevelOn(g[i - 1])
    BY Zenon DEF Levels
  <2>2. \A i \in 0..(n + 1) : h[i] = IF i = 0 THEN Bare ELSE LevelOn(h[i - 1])
    BY Zenon DEF Levels
  <2>3. QED
    BY <2>1, <2>2
<1>2. 0 \in E
  BY <1>1
<1>3. ASSUME NEW i \in Nat, i \in E PROVE i + 1 \in E
  <2> SUFFICES ASSUME i + 1 <= n PROVE g[i + 1] = h[i + 1]
    OBVIOUS
  <2>1. /\ i + 1 \in 0..n /\ i + 1 \in 0..(n + 1) /\ i + 1 # 0 /\ (i + 1) - 1 = i
        /\ i <= n
    OBVIOUS
  <2>2. g[i + 1] = LevelOn(g[i]) /\ h[i + 1] = LevelOn(h[i])
    BY <1>1, <2>1
  <2>3. QED
    BY <1>3, <2>1, <2>2
<1>4. \A i \in Nat : i \in E
  <2> HIDE DEF E
  <2>1. QED
    BY <1>2, <1>3, Induction
<1>5. QED
  BY <1>4

LEMMA MeaningIs ==
  /\ \A v \in Values : Meaning[0][v] = NoTree
  /\ \A n \in Nat, v \in Values : Meaning[n + 1][v] = Built(Meant(v), Meaning[n])
<1> DEFINE T == {n \in Nat : \E g : Levels(n, g)}
<1>1. 0 \in T
  <2> DEFINE g == [i \in 0..0 |-> Bare]
  <2>1. \A i \in 0..0 : i = 0
    OBVIOUS
  <2>2. g = [i \in 0..0 |-> IF i = 0 THEN Bare ELSE LevelOn(g[i - 1])]
    BY <2>1
  <2>3. Levels(0, g)
    BY <2>2 DEF Levels
  <2>4. QED
    BY <2>3
<1>2. ASSUME NEW n \in Nat, n \in T PROVE n + 1 \in T
  BY <1>2, LevelsNext
<1>3. \A n \in Nat : n \in T
  <2> HIDE DEF T
  <2>1. QED
    BY <1>1, <1>2, Induction
<1> DEFINE G(n) == CHOOSE g : Levels(n, g)
           f == [n \in Nat |-> G(n)[n]]
           Is(m) == m = [n \in Nat |-> [v \in Values |->
                           IF n = 0 THEN NoTree ELSE Built(Meant(v), m[n - 1])]]
           r == [n \in Nat |-> [v \in Values |->
                           IF n = 0 THEN NoTree ELSE Built(Meant(v), f[n - 1])]]
<1>4. \A n \in Nat : Levels(n, G(n))
  BY <1>3, Zenon
<1> HIDE DEF G
<1>5. ASSUME NEW n \in Nat PROVE f[n] = r[n]
  <2>1. CASE n = 0
    <3>1. G(0)[0] = Bare
      BY <1>4 DEF Levels
    <3>2. f[0] = Bare /\ r[0] = Bare
      BY <3>1 DEF Bare
    <3>3. QED
      BY <2>1, <3>2
  <2>2. CASE n # 0
    <3>1. n - 1 \in Nat /\ (n - 1) + 1 = n
      BY <2>2
    <3>2. Levels(n, G(n)) /\ Levels(n - 1, G(n - 1))
      BY <1>4, <3>1
    <3>3. G(n - 1)[n - 1] = G(n)[n - 1]
      <4> DEFINE k == n - 1
      <4>1. k \in Nat /\ Levels(k, G(k)) /\ Levels(k + 1, G(n))
        BY <3>1, <3>2
      <4> HIDE DEF k
      <4>2. G(k)[k] = G(n)[k]
        BY <4>1, LevelsAgree
      <4>3. QED
        BY <4>2 DEF k
    <3>4. G(n)[n] = LevelOn(G(n)[n - 1])
      BY <2>2, <3>2 DEF Levels
    <3>5. f[n] = LevelOn(f[n - 1])
      BY <3>1, <3>3, <3>4
    <3>6. r[n] = LevelOn(f[n - 1])
      BY <2>2 DEF LevelOn
    <3>7. QED
      BY <3>5, <3>6
  <2>3. QED
    BY <2>1, <2>2
<1>6. Is(f)
  <2>1. f = r
    BY <1>5
  <2> HIDE DEF f
  <2>2. QED
    BY <2>1
<1>7. Meaning = CHOOSE m : Is(m)
  BY DEF Meaning
<1>8. Is(Meaning)
  BY <1>6, <1>7, Zenon
<1> DEFINE m == Meaning
<1> HIDE DEF m
<1>9. m = [n \in Nat |-> [v \in Values |->
              IF n = 0 THEN NoTree ELSE Built(Meant(v), m[n - 1])]]
  BY <1>8 DEF m
<1>10. \A v \in Values : m[0][v] = NoTree
  BY <1>9
<1>11. ASSUME NEW n \in Nat, NEW v \in Values
       PROVE  m[n + 1][v] = Built(Meant(v), m[n])
  <2>1. n + 1 \in Nat /\ n + 1 # 0 /\ (n + 1) - 1 = n
    OBVIOUS
  <2>2. m[n + 1][v] = Built(Meant(v), m[(n + 1) - 1])
    BY <1>9, <2>1
  <2>3. QED
    BY <2>1, <2>2
<1>12. QED
  BY <1>10, <1>11 DEF m

-----------------------------------------------------------------------------
(* What it is to have decoded a value. *)

(* v, called at depth d, can be decoded, and t is what it means; at no     *)
(* depth that can be decoded does Meaning cut anything off it.             *)
Decoded(v, d, t) ==
  Clean(v, d) /\ \A n \in Nat : n + d > MaxDepth => t = Meaning[n][v]

LEMMA DecodedIsBuilt ==
  ASSUME ArchiveIs, NEW a \in Values, NEW d, NEW b \in Values, NEW e,
         Leads(a, d, b, e), ~Refers(b), Clean(b, e), NEW t,
         \A n \in Nat : n + (e + 1) > MaxDepth => t = Built(b, Meaning[n])
  PROVE  Decoded(a, d, t)
<1>1. d \in Nat /\ e \in Nat /\ d <= e
  BY DEF Leads
<1>2. Clean(a, d)
  BY LeadsFromClean
<1>3. d <= MaxDepth
  BY <1>1, <1>2, CleanIsBounded
<1>4. Meant(a) = b
  BY LeadsToMeant
<1>5. ASSUME NEW n \in Nat, n + d > MaxDepth PROVE t = Meaning[n][a]
  <2> DEFINE k == n - 1
  <2>1. k \in Nat /\ n = k + 1 /\ k + (e + 1) > MaxDepth
    BY <1>1, <1>3, <1>5, DepthAssumption
  <2> HIDE DEF k
  <2>2. Meaning[k + 1][a] = Built(b, Meaning[k])
    BY <1>4, <2>1, MeaningIs
  <2>3. t = Built(b, Meaning[k])
    BY <2>1
  <2>4. QED
    BY <2>1, <2>2, <2>3
<1>6. QED
  BY <1>2, <1>5 DEF Decoded

LEMMA OtherKind == Other.kind = "other"
  BY DEF Other, Value

LEMMA TreeKind ==
  \A k, n, is, es : Tree(k, n, is, es).kind = k
  BY DEF Tree

(* A tree that was decoded shows what it was given. *)
LEMMA TreeReads ==
  ASSUME NEW t, NEW k, NEW n, NEW is, NEW es, t = Tree(k, n, is, es)
  PROVE  t.kind = k /\ Items(t) = is /\ Entries(t) = es
<1>1. t.kind = k /\ t.items = is /\ t.entries = es /\ t.plain = Other
  BY DEF Tree
<1>2. t.plain.kind = "other"
  BY <1>1, OtherKind
<1>3. Items(t) = is
  BY <1>1, <1>2 DEF Items
<1>4. Entries(t) = es
  BY <1>1, <1>2 DEF Entries
<1>5. QED
  BY <1>1, <1>3, <1>4

LEMMA StandingReads ==
  ASSUME NEW k, NEW v
  PROVE  /\ Standing(k, v).kind = k
         /\ v.kind = "array" => Items(Standing(k, v)) = EachAsIs(v.objs)
         /\ v.kind = "dict" =>
              Entries(Standing(k, v))
                = {Entry(v.keys[i].name, AsIs(v.objs[i])) : i \in DOMAIN v.objs}
<1> DEFINE t == Standing(k, v)
<1>1. t.kind = k /\ t.plain = v
  BY DEF Standing
<1> HIDE DEF t
<1>2. v.kind = "array" => Items(t) = EachAsIs(v.objs)
  BY <1>1 DEF Items
<1>3. v.kind = "dict" =>
        Entries(t) = {Entry(v.keys[i].name, AsIs(v.objs[i])) : i \in DOMAIN v.objs}
  BY <1>1 DEF Entries
<1>4. QED
  BY <1>1, <1>2, <1>3 DEF t

(* What a value shows as it stands. *)
LEMMA AsIsKind ==
  ASSUME NEW v
  PROVE  /\ v.kind = "array" => AsIs(v) = Standing("array", v)
         /\ v.kind = "dict" => AsIs(v) = Standing("dict", v)
         /\ v.kind \in {"array", "dict"} => AsIs(v).kind = v.kind
         /\ v.kind \notin {"array", "dict", "nsarray", "nsdict"} => AsIs(v) = Leaf(v)
         /\ v.kind # "array" => AsIs(v).kind # "array"
<1>1. v.kind = "array" => AsIs(v) = Standing("array", v)
  BY DEF AsIs
<1>2. v.kind \in {"dict", "nsarray", "nsdict"} => AsIs(v) = Standing("dict", v)
  BY DEF AsIs
<1>3. v.kind \notin {"array", "dict", "nsarray", "nsdict"} => AsIs(v) = Leaf(v)
  BY DEF AsIs
<1>4. v.kind = "array" => AsIs(v).kind = "array"
  BY <1>1, StandingReads
<1>5. v.kind \in {"dict", "nsarray", "nsdict"} => AsIs(v).kind = "dict"
  BY <1>2, StandingReads
<1>6. v.kind \notin {"array", "dict", "nsarray", "nsdict"} => AsIs(v).kind = v.kind
  BY <1>3, TreeKind DEF Leaf
<1>7. QED
  BY <1>1, <1>2, <1>3, <1>4, <1>5, <1>6

Plain == {"string", "data", "other", "array", "dict"}

LEMMA PlainDecoded ==
  ASSUME ArchiveIs, NEW a \in Values, NEW d, NEW b \in Values, NEW e,
         Leads(a, d, b, e), e <= MaxDepth, b.kind \in Plain
  PROVE  Decoded(a, d, AsIs(b))
<1>1. e \in Nat
  BY DEF Leads
<1>2. ~Refers(b) /\ b.kind \notin {"nsarray", "nsdict"} /\ ~Bad(b)
  BY DEF Plain, Refers, Bad, Dangles, Mismatched, BadlyKeyed
<1>3. Rng(Members(b)) = {}
  BY <1>2, MembersOf
<1>4. Clean(b, e)
  BY <1>1, <1>2, <1>3, CleanStep
<1>5. \A n \in Nat : AsIs(b) = Built(b, Meaning[n])
  BY <1>2 DEF Built
<1>6. QED
  BY <1>2, <1>4, <1>5, DecodedIsBuilt

(* The items of an array, as many as it has members. *)
LEMMA ArrayDecoded ==
  ASSUME ArchiveIs, NEW a \in Values, NEW d, NEW b \in Values, NEW e,
         Leads(a, d, b, e), e <= MaxDepth, b.kind = "nsarray",
         NEW S, NEW items \in Seq(S), Len(items) = Len(b.objs),
         \A i \in 1..Len(items) : Decoded(b.objs[i], e + 1, items[i])
  PROVE  Decoded(a, d, Tree("array", "", items, {}))
<1>1. e \in Nat
  BY DEF Leads
<1>2. ~Refers(b) /\ ~Bad(b)
  BY DEF Refers, Bad, Dangles, Mismatched, BadlyKeyed
<1>3. /\ DOMAIN b.objs = 1..Len(items) /\ DOMAIN items = 1..Len(items)
      /\ Rng(Members(b)) = Rng(b.objs)
  BY ValueFields, MembersOf
<1>4. Clean(b, e)
  <2>1. \A m \in Rng(Members(b)) : Clean(m, e + 1)
    BY <1>3 DEF Rng, Decoded
  <2>2. QED
    BY <1>1, <1>2, <2>1, CleanStep
<1>5. ASSUME NEW n \in Nat, n + (e + 1) > MaxDepth
      PROVE  Tree("array", "", items, {}) = Built(b, Meaning[n])
  <2> DEFINE u == Meaning[n]
             f == [i \in DOMAIN b.objs |-> u[b.objs[i]]]
  <2>1. \A i \in 1..Len(items) : items[i] = u[b.objs[i]]
    BY <1>5 DEF Decoded
  <2> HIDE DEF u
  <2>2. items = f
    BY <1>3, <2>1
  <2>3. Built(b, u) = Tree("array", "", f, {})
    BY DEF Built
  <2>4. QED
    BY <2>2, <2>3 DEF u
<1>6. QED
  BY <1>2, <1>4, <1>5, DecodedIsBuilt

-----------------------------------------------------------------------------
(* The entries of a dictionary. *)

Spelled(v, i) == Meant(v.keys[i]).name

(* The last occurrences of its keys among the first ones. *)
Lasts(v, upto) ==
  {i \in 1..upto : \A j \in 1..upto : j > i => Spelled(v, j) # Spelled(v, i)}

Gather(v, upto, under) ==
  {Entry(Spelled(v, i), under[v.objs[i]]) : i \in Lasts(v, upto)}

LEMMA InsertGathers ==
  ASSUME NEW v, NEW upto \in Nat, NEW under
  PROVE  Insert(Gather(v, upto, under), Spelled(v, upto + 1), under[v.objs[upto + 1]])
           = Gather(v, upto + 1, under)
<1> DEFINE m == upto + 1
           k == Spelled(v, m)
           E(i) == Entry(Spelled(v, i), under[v.objs[i]])
           kept == {i \in Lasts(v, upto) : Spelled(v, i) # k}
<1>1. \A i : E(i).key = Spelled(v, i)
  BY DEF Entry
<1>2. Lasts(v, m) = kept \cup {m}
  <2>1. Lasts(v, m) \subseteq kept \cup {m}
    BY DEF Lasts
  <2>2. kept \cup {m} \subseteq Lasts(v, m)
    BY DEF Lasts
  <2>3. QED
    BY <2>1, <2>2
<1>3. Gather(v, upto, under) = {E(i) : i \in Lasts(v, upto)}
  BY DEF Gather
<1>4. Gather(v, m, under) = {E(i) : i \in Lasts(v, m)}
  BY DEF Gather
<1>5. Insert(Gather(v, upto, under), k, under[v.objs[m]])
        = {e \in Gather(v, upto, under) : e.key # k} \cup {E(m)}
  BY DEF Insert
<1> HIDE DEF E, k, m
<1>6. {e \in {E(i) : i \in Lasts(v, upto)} : e.key # k} = {E(i) : i \in kept}
  BY <1>1
<1>7. {E(i) : i \in kept \cup {m}} = {E(i) : i \in kept} \cup {E(m)}
  OBVIOUS
<1>8. Insert(Gather(v, upto, under), k, under[v.objs[m]]) = Gather(v, m, under)
  BY <1>2, <1>3, <1>4, <1>5, <1>6, <1>7
<1>9. QED
  BY <1>8 DEF k, m

(* With the last occurrence of each key it is what Built gathers. *)
LEMMA GatheredIsBuilt ==
  ASSUME NEW b \in Values, b.kind = "nsdict", Len(b.keys) = Len(b.objs),
         \A i \in 1..Len(b.keys) : Meant(b.keys[i]).kind = "string", NEW under
  PROVE  Tree("dict", "", <<>>, Gather(b, Len(b.objs), under)) = Built(b, under)
<1> DEFINE L == Len(b.objs)
           E(k) == Entry(k, under[b.objs[LastPlace(b, k)]])
           es == {E(k) : k \in Names(b)}
<1>1. L \in Nat /\ DOMAIN b.keys = 1..L /\ Len(b.keys) = L
  BY ValueFields
<1>2. Built(b, under) = Tree("dict", "", <<>>, es)
  BY DEF Built
<1>3. \A k : Places(b, k) = {i \in 1..L : Spelled(b, i) = k}
  BY <1>1 DEF Places, IsKey, Spelled
<1>4. \A i \in Lasts(b, L) : /\ i \in 1..L
                             /\ Spelled(b, i) \in Names(b)
                             /\ LastPlace(b, Spelled(b, i)) = i
  <2> SUFFICES ASSUME NEW i \in Lasts(b, L)
               PROVE  i \in 1..L /\ Spelled(b, i) \in Names(b)
                      /\ LastPlace(b, Spelled(b, i)) = i
    OBVIOUS
  <2>1. i \in 1..L /\ \A j \in 1..L : j > i => Spelled(b, j) # Spelled(b, i)
    BY DEF Lasts
  <2> DEFINE P == Places(b, Spelled(b, i))
  <2>2. P = {j \in 1..L : Spelled(b, j) = Spelled(b, i)}
    BY <1>3
  <2> HIDE DEF P
  <2>3. i \in P /\ P \subseteq 1..L
    BY <2>1, <2>2
  <2>4. \A j \in P : j <= i
    BY <1>1, <2>1, <2>2
  <2>5. \A x \in P : (\A j \in P : j <= x) => x = i
    BY <1>1, <2>3, <2>4
  <2>6. LastPlace(b, Spelled(b, i)) = CHOOSE x \in P : \A j \in P : j <= x
    BY DEF LastPlace, P
  <2>7. LastPlace(b, Spelled(b, i)) = i
    BY <2>3, <2>4, <2>5, <2>6
  <2>8. Spelled(b, i) \in Names(b)
    BY <1>1, <2>1 DEF Names, Spelled
  <2>9. QED
    BY <2>1, <2>7, <2>8
<1>5. \A k \in Names(b) : \E i \in Lasts(b, L) : Spelled(b, i) = k
  <2> SUFFICES ASSUME NEW k \in Names(b)
               PROVE  \E i \in Lasts(b, L) : Spelled(b, i) = k
    OBVIOUS
  <2>1. PICK i \in 1..L : Spelled(b, i) = k
    BY <1>1 DEF Names, Spelled
  <2> DEFINE T == {L - j : j \in {x \in 1..L : Spelled(b, x) = k}}
  <2>2. T \subseteq Nat /\ L - i \in T
    BY <1>1, <2>1
  <2>3. PICK x \in T : \A y \in T : x <= y
    BY <2>2, LeastOf
  <2>4. PICK j \in 1..L : Spelled(b, j) = k /\ x = L - j
    BY <2>3
  <2>5. \A y \in 1..L : y > j => Spelled(b, y) # k
    <3> SUFFICES ASSUME NEW y \in 1..L, y > j, Spelled(b, y) = k PROVE FALSE
      OBVIOUS
    <3>1. L - y \in T
      OBVIOUS
    <3>2. L - j <= L - y
      BY <2>3, <2>4, <3>1
    <3>3. QED
      BY <1>1, <3>2
  <2>6. j \in Lasts(b, L)
    BY <2>4, <2>5 DEF Lasts
  <2>7. QED
    BY <2>4, <2>6
<1>6. Gather(b, L, under) = es
  <2>1. Gather(b, L, under) = {Entry(Spelled(b, i), under[b.objs[i]]) : i \in Lasts(b, L)}
    BY DEF Gather
  <2>2. \A i \in Lasts(b, L) : Entry(Spelled(b, i), under[b.objs[i]]) = E(Spelled(b, i))
    BY <1>4
  <2> HIDE DEF E
  <2>3. QED
    BY <1>4, <1>5, <2>1, <2>2
<1>7. QED
  BY <1>2, <1>6

(* The first `upto` pairs have been decoded, into these entries. *)
Gathered(v, d, upto, entries) ==
  /\ \A i \in 1..upto : /\ Meant(v.keys[i]).kind = "string"
                        /\ Clean(v.keys[i], d)
                        /\ Clean(v.objs[i], d)
  /\ \A n \in Nat : n + d > MaxDepth => entries = Gather(v, upto, Meaning[n])

LEMMA NothingGathered ==
  ASSUME NEW v, NEW d PROVE Gathered(v, d, 0, {})
<1>1. \A under : Gather(v, 0, under) = {}
  BY DEF Gather, Lasts
<1>2. QED
  BY <1>1 DEF Gathered

LEMMA OneMoreGathered ==
  ASSUME NEW v, NEW d, NEW upto \in Nat, NEW entries,
         Gathered(v, d, upto, entries),
         Meant(v.keys[upto + 1]).kind = "string", Clean(v.keys[upto + 1], d),
         NEW t, Decoded(v.objs[upto + 1], d, t)
  PROVE  Gathered(v, d, upto + 1, Insert(entries, Spelled(v, upto + 1), t))
<1>1. ASSUME NEW i \in 1..(upto + 1)
      PROVE  /\ Meant(v.keys[i]).kind = "string"
             /\ Clean(v.keys[i], d)
             /\ Clean(v.objs[i], d)
  <2>1. CASE i = upto + 1
    BY <2>1 DEF Decoded
  <2>2. CASE i # upto + 1
    <3>1. i \in 1..upto
      BY <2>2
    <3>2. QED
      BY <3>1 DEF Gathered
  <2>3. QED
    BY <2>1, <2>2
<1>2. ASSUME NEW n \in Nat, n + d > MaxDepth
      PROVE  Insert(entries, Spelled(v, upto + 1), t) = Gather(v, upto + 1, Meaning[n])
  <2>1. entries = Gather(v, upto, Meaning[n]) /\ t = Meaning[n][v.objs[upto + 1]]
    BY <1>2 DEF Gathered, Decoded
  <2> DEFINE u == Meaning[n]
  <2> HIDE DEF u
  <2>2. entries = Gather(v, upto, u) /\ t = u[v.objs[upto + 1]]
    BY <2>1 DEF u
  <2>3. Insert(entries, Spelled(v, upto + 1), t) = Gather(v, upto + 1, u)
    BY <2>2, InsertGathers
  <2>4. QED
    BY <2>3 DEF u
<1>3. QED
  BY <1>1, <1>2 DEF Gathered

LEMMA DictDecoded ==
  ASSUME ArchiveIs, NEW a \in Values, NEW d, NEW b \in Values, NEW e,
         Leads(a, d, b, e), e <= MaxDepth, b.kind = "nsdict",
         Len(b.keys) = Len(b.objs),
         NEW entries, Gathered(b, e + 1, Len(b.objs), entries)
  PROVE  Decoded(a, d, Tree("dict", "", <<>>, entries))
<1>1. e \in Nat
  BY DEF Leads
<1>2. /\ DOMAIN b.keys = 1..Len(b.objs) /\ DOMAIN b.objs = 1..Len(b.objs)
      /\ Rng(Members(b)) = Rng(b.keys) \cup Rng(b.objs)
  BY ValueFields, MembersOf
<1>3. \A i \in 1..Len(b.objs) : /\ Meant(b.keys[i]).kind = "string"
                                /\ Clean(b.keys[i], e + 1)
                                /\ Clean(b.objs[i], e + 1)
  BY DEF Gathered
<1>4. ~Refers(b) /\ ~Bad(b)
  BY <1>2, <1>3 DEF Refers, Bad, Dangles, Mismatched, BadlyKeyed
<1>5. Clean(b, e)
  <2>1. \A m \in Rng(Members(b)) : Clean(m, e + 1)
    BY <1>2, <1>3 DEF Rng
  <2>2. QED
    BY <1>1, <1>4, <2>1, CleanStep
<1>6. ASSUME NEW n \in Nat, n + (e + 1) > MaxDepth
      PROVE  Tree("dict", "", <<>>, entries) = Built(b, Meaning[n])
  <2>1. entries = Gather(b, Len(b.objs), Meaning[n])
    BY <1>6 DEF Gathered
  <2> DEFINE u == Meaning[n]
  <2> HIDE DEF u
  <2>2. entries = Gather(b, Len(b.objs), u)
    BY <2>1 DEF u
  <2>3. Tree("dict", "", <<>>, Gather(b, Len(b.objs), u)) = Built(b, u)
    BY <1>3, GatheredIsBuilt
  <2>4. QED
    BY <2>2, <2>3 DEF u
<1>7. QED
  BY <1>4, <1>5, <1>6, DecodedIsBuilt

-----------------------------------------------------------------------------
(* What the machine holds while it decodes. *)

(* The member a frame waits for: of a dictionary, its key first. *)
Wants(v, p, k) == IF v.kind = "nsdict" /\ k = <<>> THEN v.keys[p] ELSE v.objs[p]

ReadsArray(v, d, p, is, es) ==
  /\ v.kind = "nsarray" /\ es = {}
  /\ \E S : is \in Seq(S)
  /\ Len(is) = p - 1
  /\ \A i \in 1..(p - 1) : Decoded(v.objs[i], d + 1, is[i])

KeyRead(v, d, p, k) ==
  \/ k = <<>>
  \/ /\ k = <<Spelled(v, p)>>
     /\ Meant(v.keys[p]).kind = "string"
     /\ Clean(v.keys[p], d + 1)

ReadsDict(v, d, p, k, is, es) ==
  /\ v.kind = "nsdict" /\ Len(v.keys) = Len(v.objs) /\ is = <<>>
  /\ Gathered(v, d + 1, p - 1, es)
  /\ KeyRead(v, d, p, k)

(* A collection before its end, with what its first members mean. *)
Reads(v, d, p, k, is, es) ==
  /\ v \in Values /\ d \in Nat /\ d <= MaxDepth /\ v \in AtDepth(d)
  /\ p \in 1..Len(v.objs)
  /\ ReadsArray(v, d, p, is, es) \/ ReadsDict(v, d, p, k, is, es)

FrameReads(f) == Reads(f.value, f.depth, f.pos, f.key, f.items, f.entries)

(* What the frame above the first i was entered for, and at what depth. *)
Source(s, i) == IF i = 0 THEN root ELSE Wants(s[i].value, s[i].pos, s[i].key)
Level(s, i)  == IF i = 0 THEN 0 ELSE s[i].depth + 1

(* Each open collection stands for what the one around it waits for. *)
Sound(s) ==
  \A i \in DOMAIN s :
    /\ FrameReads(s[i])
    /\ Leads(Source(s, i - 1), Level(s, i - 1), s[i].value, s[i].depth)

(* A call is for what the innermost collection waits for, on some way      *)
(* along a chain of Uids; what is returned is what that means.             *)
Asked(a, d, v, e)  == v \in Values /\ v \in AtDepth(e) /\ Leads(a, d, v, e)

Asks(s, r) ==
  /\ r.mode = "call" =>
       Asked(Source(s, Len(s)), Level(s, Len(s)), r.value, r.depth)
  /\ r.mode = "return" => Decoded(Source(s, Len(s)), Level(s, Len(s)), r.tree)

Judged(s, r, why) ==
  /\ why \in Failures => why \in Defects
  /\ why = "Ok" => s = <<>> /\ r.mode = "return" /\ r.tree.kind = "dict"

Holds(s, r, why) == ArchiveIs /\ Sound(s) /\ Asks(s, r) /\ Judged(s, r, why)



-----------------------------------------------------------------------------
(* No step changes the archive, so what is read off it stays as it is.     *)

LEMMA GraphStays ==
  ASSUME archive' = archive
  PROVE  /\ objects' = objects /\ root' = root
         /\ \A v : /\ Chase(v)' = Chase(v) /\ From(v)' = From(v)
                   /\ Refers(v)' = Refers(v) /\ Meant(v)' = Meant(v)
                   /\ Bad(v)' = Bad(v)
         /\ \A n : AtDepth(n)' = AtDepth(n)
         /\ Meaning' = Meaning
<1>1. objects' = objects /\ root' = root
  BY DEF archive
<1>2. ASSUME NEW v
      PROVE  /\ Chase(v)' = Chase(v) /\ From(v)' = From(v)
             /\ Refers(v)' = Refers(v) /\ Meant(v)' = Meant(v)
  BY <1>1 DEF Chase, Refers, InObjects, Target, From, Members, Meant
<1>3. ASSUME NEW v PROVE Bad(v)' = Bad(v)
  BY <1>1, <1>2 DEF Bad, Dangles, Mismatched, BadlyKeyed, InObjects
<1>4. ASSUME NEW n PROVE AtDepth(n)' = AtDepth(n)
  BY <1>1 DEF AtDepth, From, Members, Refers, InObjects, Target
<1>5. Meaning' = Meaning
  BY <1>1 DEF Meaning, Built, LastPlace, Places, IsKey, Names,
    Meant, Chase, Refers, InObjects, Target
<1>6. QED
  BY <1>1, <1>2, <1>3, <1>4, <1>5

LEMMA DecodingStays ==
  ASSUME archive' = archive
  PROVE  /\ \A a, d, b, e : Leads(a, d, b, e)' = Leads(a, d, b, e)
         /\ \A v, d : Clean(v, d)' = Clean(v, d)
         /\ \A v, d, t : Decoded(v, d, t)' = Decoded(v, d, t)
         /\ \A v, i : Spelled(v, i)' = Spelled(v, i)
         /\ \A v, d, n, es : Gathered(v, d, n, es)' = Gathered(v, d, n, es)
<1>1. ASSUME NEW a, NEW d, NEW b, NEW e
      PROVE  Leads(a, d, b, e)' = Leads(a, d, b, e)
  BY GraphStays DEF Leads
<1>2. ASSUME NEW v, NEW d PROVE Clean(v, d)' = Clean(v, d)
  BY GraphStays DEF Clean
<1>3. ASSUME NEW v, NEW d, NEW t PROVE Decoded(v, d, t)' = Decoded(v, d, t)
  BY <1>2, GraphStays DEF Decoded
<1>4. ASSUME NEW v, NEW i PROVE Spelled(v, i)' = Spelled(v, i)
  BY GraphStays DEF Spelled
<1>5. ASSUME NEW v, NEW d, NEW n, NEW es
      PROVE  Gathered(v, d, n, es)' = Gathered(v, d, n, es)
  BY <1>2, <1>4, GraphStays DEF Gathered, Gather, Lasts
<1>6. QED
  BY <1>1, <1>2, <1>3, <1>4, <1>5

LEMMA ReadsStays ==
  ASSUME archive' = archive
  PROVE  \A v, d, p, k, is, es :
            Reads(v, d, p, k, is, es)' = Reads(v, d, p, k, is, es)
<1> SUFFICES ASSUME NEW v, NEW d, NEW p, NEW k, NEW is, NEW es
             PROVE  Reads(v, d, p, k, is, es)' = Reads(v, d, p, k, is, es)
  OBVIOUS
<1>1. ReadsArray(v, d, p, is, es)' = ReadsArray(v, d, p, is, es)
  BY DecodingStays DEF ReadsArray
<1>2. KeyRead(v, d, p, k)' = KeyRead(v, d, p, k)
  BY DecodingStays, GraphStays DEF KeyRead
<1>3. ReadsDict(v, d, p, k, is, es)' = ReadsDict(v, d, p, k, is, es)
  BY <1>2, DecodingStays DEF ReadsDict
<1>4. QED
  BY <1>1, <1>3, GraphStays DEF Reads

LEMMA DefectsStay ==
  ASSUME archive' = archive PROVE Defects' = Defects
<1>1. objects' = objects /\ root' = root
  BY DEF archive
<1>2. QED
  BY <1>1 DEF Defects, Within, AtDepth, From, Members, Refers, InObjects, Target,
    Dangles, Mismatched, BadlyKeyed, Meant, Chase

LEMMA ArchiveStays ==
  ASSUME archive' = archive, Holds(stack', reg', verdict')
  PROVE  Holds(stack, reg, verdict)'
<1>1. ArchiveIs'
  BY GraphStays DEF Holds, ArchiveIs
<1>2. Sound(stack)'
  <2>1. Sound(stack')
    BY DEF Holds
  <2>2. QED
    BY <2>1, GraphStays, DecodingStays, ReadsStays DEF Sound, FrameReads, Source, Level
<1>3. Asks(stack, reg)'
  <2>1. Asks(stack', reg')
    BY DEF Holds
  <2>2. QED
    BY <2>1, GraphStays, DecodingStays DEF Asks, Asked, Source, Level
<1>4. Judged(stack, reg, verdict)'
  <2>1. Judged(stack', reg', verdict')
    BY DEF Holds
  <2>2. QED
    BY <2>1, DefectsStay DEF Judged
<1>5. QED
  BY <1>1, <1>2, <1>3, <1>4 DEF Holds

-----------------------------------------------------------------------------
(* Places in the archive. *)

LEMMA NextDepth ==
  ASSUME ArchiveIs, NEW n \in Nat, NEW v \in AtDepth(n), v \in Values,
         NEW m \in Rng(Members(v))
  PROVE  m \in Values /\ m \in AtDepth(n + 1)
<1>1. root \in Values
  BY DEF ArchiveIs
<1>2. From(root)[n + 1] = Onward(From(root)[n])
  BY <1>1, FromIs
<1>3. QED
  BY <1>2, MembersAreValues DEF AtDepth, Onward

LEMMA InWithin ==
  ASSUME NEW n \in Nat, n <= MaxDepth, NEW v \in AtDepth(n)
  PROVE  v \in Within
  BY DepthAssumption DEF Within

LEMMA WantsIsThere ==
  ASSUME ArchiveIs, NEW v, NEW d, NEW p, NEW k, NEW is, NEW es,
         Reads(v, d, p, k, is, es)
  PROVE  /\ Wants(v, p, k) \in Values /\ Wants(v, p, k) \in AtDepth(d + 1)
         /\ d + 1 \in Nat
<1>1. v \in Values /\ d \in Nat /\ v \in AtDepth(d) /\ p \in 1..Len(v.objs)
  BY DEF Reads
<1>2. Wants(v, p, k) \in Rng(Members(v))
  <2>1. CASE ReadsArray(v, d, p, is, es)
    <3>1. v.kind = "nsarray"
      BY <2>1 DEF ReadsArray
    <3>2. Wants(v, p, k) = v.objs[p] /\ p \in DOMAIN v.objs
      BY <1>1, <3>1, ValueFields DEF Wants
    <3>3. QED
      BY <1>1, <3>1, <3>2, MembersOf DEF Rng
  <2>2. CASE ReadsDict(v, d, p, k, is, es)
    <3>1. v.kind = "nsdict" /\ Len(v.keys) = Len(v.objs)
      BY <2>2 DEF ReadsDict
    <3>2. p \in DOMAIN v.objs /\ p \in DOMAIN v.keys
      BY <1>1, <3>1, ValueFields
    <3>3. Wants(v, p, k) \in Rng(v.keys) \cup Rng(v.objs)
      BY <3>2 DEF Wants, Rng
    <3>4. QED
      BY <1>1, <3>1, <3>3, MembersOf
  <2>3. QED
    BY <2>1, <2>2 DEF Reads
<1>3. QED
  BY <1>1, <1>2, NextDepth

-----------------------------------------------------------------------------
(* Frames and stacks, by what they have read. *)

LEMMA RecFields ==
  ASSUME NEW v, NEW d, NEW p, NEW k, NEW is, NEW es
  PROVE  LET f == Rec(v, d, p, k, is, es)
         IN  /\ f.value = v /\ f.depth = d /\ f.pos = p
             /\ f.key = k /\ f.items = is /\ f.entries = es
  BY DEF Rec

LEMMA RecReads ==
  ASSUME NEW v, NEW d, NEW p, NEW k, NEW is, NEW es, Reads(v, d, p, k, is, es)
  PROVE  FrameReads(Rec(v, d, p, k, is, es))
<1> DEFINE f == Rec(v, d, p, k, is, es)
<1>1. /\ f.value = v /\ f.depth = d /\ f.pos = p
      /\ f.key = k /\ f.items = is /\ f.entries = es
  BY RecFields
<1> HIDE DEF f
<1>2. FrameReads(f)
  BY <1>1 DEF FrameReads
<1>3. QED
  BY <1>2 DEF f

LEMMA PushSound ==
  ASSUME NEW s, IsStack(s), Sound(s), NEW e, FrameReads(e),
         Leads(Source(s, Len(s)), Level(s, Len(s)), e.value, e.depth)
  PROVE  LET t == Append(s, e)
         IN  /\ Sound(t)
             /\ Source(t, Len(t)) = Wants(e.value, e.pos, e.key)
             /\ Level(t, Len(t)) = e.depth + 1
<1> DEFINE t == Append(s, e)
           n == Len(s)
<1>1. PICK S : s \in Seq(S)
  BY DEF IsStack
<1>2. /\ Len(t) = n + 1 /\ n \in Nat
      /\ DOMAIN t = 1..n + 1 /\ DOMAIN s = 1..n
      /\ \A i \in 1..n : t[i] = s[i]
      /\ t[n + 1] = e
  BY <1>1, PushFacts
<1> HIDE DEF t
<1>3. \A i \in 0..n : Source(t, i) = Source(s, i) /\ Level(t, i) = Level(s, i)
  BY <1>2 DEF Source, Level
<1>4. Source(t, n + 1) = Wants(e.value, e.pos, e.key) /\ Level(t, n + 1) = e.depth + 1
  BY <1>2 DEF Source, Level
<1>5. ASSUME NEW i \in DOMAIN t
      PROVE  /\ FrameReads(t[i])
             /\ Leads(Source(t, i - 1), Level(t, i - 1), t[i].value, t[i].depth)
  <2>1. CASE i = n + 1
    <3>1. i - 1 = n /\ n \in 0..n
      BY <1>2, <2>1
    <3>2. Source(t, i - 1) = Source(s, n) /\ Level(t, i - 1) = Level(s, n) /\ t[i] = e
      BY <1>2, <1>3, <2>1, <3>1
    <3>3. QED
      BY <3>2
  <2>2. CASE i # n + 1
    <3>1. i \in DOMAIN s /\ i - 1 \in 0..n /\ i \in 1..n
      BY <1>2, <2>2
    <3>2. /\ Source(t, i - 1) = Source(s, i - 1) /\ Level(t, i - 1) = Level(s, i - 1)
          /\ t[i] = s[i]
      BY <1>2, <1>3, <3>1
    <3>3. QED
      BY <3>1, <3>2 DEF Sound
  <2>3. QED
    BY <2>1, <2>2
<1>6. QED
  BY <1>2, <1>4, <1>5 DEF Sound, t

LEMMA PopSound ==
  ASSUME NEW s, IsStack(s), Sound(s), s # <<>>
  PROVE  LET e == s[Len(s)]
             t == SubSeq(s, 1, Len(s) - 1)
         IN  /\ Sound(t) /\ IsStack(t) /\ FrameReads(e) /\ IsFrame(e)
             /\ Leads(Source(t, Len(t)), Level(t, Len(t)), e.value, e.depth)
             /\ Source(s, Len(s)) = Wants(e.value, e.pos, e.key)
             /\ Level(s, Len(s)) = e.depth + 1
<1> DEFINE n == Len(s)
           t == SubSeq(s, 1, n - 1)
           e == s[n]
<1>1. PICK S : s \in Seq(S)
  BY DEF IsStack
<1>2. /\ n \in Nat /\ n > 0 /\ DOMAIN s = 1..n
      /\ t \in Seq(S)
      /\ Len(t) = n - 1 /\ DOMAIN t = 1..n - 1
      /\ \A i \in 1..n - 1 : t[i] = s[i]
  BY <1>1, PopFacts
<1> HIDE DEF t
<1>3. n \in DOMAIN s /\ n # 0 /\ n - 1 \in 0..(n - 1)
  BY <1>2
<1>4. \A i \in 0..(n - 1) : Source(t, i) = Source(s, i) /\ Level(t, i) = Level(s, i)
  BY <1>2 DEF Source, Level
<1>5. ASSUME NEW i \in DOMAIN t
      PROVE  /\ FrameReads(t[i])
             /\ Leads(Source(t, i - 1), Level(t, i - 1), t[i].value, t[i].depth)
  <2>1. i \in DOMAIN s /\ i - 1 \in 0..(n - 1) /\ t[i] = s[i]
    BY <1>2
  <2>2. Source(t, i - 1) = Source(s, i - 1) /\ Level(t, i - 1) = Level(s, i - 1)
    BY <1>4, <2>1
  <2>3. QED
    BY <2>1, <2>2 DEF Sound
<1>6. Sound(t)
  BY <1>5 DEF Sound
<1>7. FrameReads(e) /\ Leads(Source(s, n - 1), Level(s, n - 1), e.value, e.depth)
  BY <1>3 DEF Sound
<1>8. Leads(Source(t, Len(t)), Level(t, Len(t)), e.value, e.depth)
  BY <1>2, <1>3, <1>4, <1>7
<1>9. Source(s, n) = Wants(e.value, e.pos, e.key) /\ Level(s, n) = e.depth + 1
  BY <1>3 DEF Source, Level
<1>10. IsStack(t) /\ IsFrame(e)
  BY <1>2, <1>3 DEF IsStack
<1>11. QED
  BY <1>6, <1>7, <1>8, <1>9, <1>10 DEF t

LEMMA CallIsAsked ==
  ASSUME NEW s, NEW v, NEW d, Asked(Source(s, Len(s)), Level(s, Len(s)), v, d)
  PROVE  Asks(s, Calling(v, d))
<1>1. /\ Calling(v, d).mode = "call" /\ Calling(v, d).value = v
      /\ Calling(v, d).depth = d
  BY Zenon DEF Calling
<1>2. "call" # "return"
  OBVIOUS
<1>3. QED
  BY <1>1, <1>2, Zenon DEF Asks

LEMMA ReturnIsAsked ==
  ASSUME NEW s, NEW t, Decoded(Source(s, Len(s)), Level(s, Len(s)), t)
  PROVE  Asks(s, Returning(t))
<1>1. Returning(t).mode = "return" /\ Returning(t).tree = t
  BY Zenon DEF Returning
<1>2. "call" # "return"
  OBVIOUS
<1>3. QED
  BY <1>1, <1>2, Zenon DEF Asks

(* A collection on top of the stack, and its next member called. *)
LEMMA MemberIsAsked ==
  ASSUME ArchiveIs, NEW s, IsStack(s), Sound(s),
         NEW v, NEW d, NEW p, NEW k, NEW is, NEW es, Reads(v, d, p, k, is, es),
         Leads(Source(s, Len(s)), Level(s, Len(s)), v, d),
         NEW e, e = Rec(v, d, p, k, is, es),
         NEW m, m = Wants(v, p, k)
  PROVE  Sound(Append(s, e)) /\ Asks(Append(s, e), Calling(m, MemberDepth(d)))
<1> DEFINE t == Append(s, e)
<1>1. /\ e.value = v /\ e.depth = d /\ e.pos = p /\ e.key = k /\ FrameReads(e)
  BY RecFields, RecReads
<1>2. /\ Sound(t) /\ Source(t, Len(t)) = m /\ Level(t, Len(t)) = d + 1
  BY <1>1, PushSound
<1>3. m \in Values /\ m \in AtDepth(d + 1) /\ d + 1 \in Nat
  BY WantsIsThere
<1>4. Leads(m, d + 1, m, d + 1)
  BY <1>3, LeadsToItself
<1> HIDE DEF t
<1>5. Asked(Source(t, Len(t)), Level(t, Len(t)), m, d + 1)
  BY <1>2, <1>3, <1>4 DEF Asked
<1>6. Asks(t, Calling(m, d + 1))
  BY <1>5, CallIsAsked
<1>7. QED
  BY <1>2, <1>6 DEF t, MemberDepth

LEMMA SourceIsThere ==
  ASSUME ArchiveIs, NEW s, IsStack(s), Sound(s)
  PROVE  /\ Source(s, Len(s)) \in Values
         /\ Source(s, Len(s)) \in AtDepth(Level(s, Len(s)))
         /\ Level(s, Len(s)) \in Nat
<1>1. PICK S : s \in Seq(S)
  BY DEF IsStack
<1>2. CASE s = <<>>
  <2>1. Len(s) = 0
    BY <1>2
  <2>2. Source(s, Len(s)) = root /\ Level(s, Len(s)) = 0
    BY <2>1 DEF Source, Level
  <2>3. root \in Values /\ root \in AtDepth(0)
    BY FromIs DEF ArchiveIs, AtDepth
  <2>4. QED
    BY <2>2, <2>3
<1>3. CASE s # <<>>
  <2> DEFINE e == s[Len(s)]
  <2>1. /\ FrameReads(e)
        /\ Source(s, Len(s)) = Wants(e.value, e.pos, e.key)
        /\ Level(s, Len(s)) = e.depth + 1
    BY <1>3, PopSound
  <2>2. Reads(e.value, e.depth, e.pos, e.key, e.items, e.entries)
    BY <2>1 DEF FrameReads
  <2>3. QED
    BY <2>1, <2>2, WantsIsThere
<1>4. QED
  BY <1>2, <1>3

(* What is decoded is of the kind that is meant. *)
LEMMA DecodedKind ==
  ASSUME ArchiveIs, NEW v \in Values, NEW d \in Nat, NEW t, Decoded(v, d, t)
  PROVE  /\ t = Meaning[MaxDepth + 1][v]
         /\ t = Built(Meant(v), Meaning[MaxDepth])
         /\ Meant(v).kind = "nsarray" => t.kind = "array"
         /\ Meant(v).kind = "nsdict"  => t.kind = "dict"
         /\ Meant(v).kind \notin {"nsarray", "nsdict"} =>
              t.kind = Meant(v).kind /\ (Meant(v).kind = "string" => t.name = Meant(v).name)
<1>1. MaxDepth + 1 \in Nat /\ (MaxDepth + 1) + d > MaxDepth /\ MaxDepth \in Nat
  BY DepthAssumption
<1>2. t = Meaning[MaxDepth + 1][v]
  BY <1>1 DEF Decoded
<1>3. t = Built(Meant(v), Meaning[MaxDepth])
  BY <1>1, <1>2, MeaningIs
<1> DEFINE w == Meant(v)
           u == Meaning[MaxDepth]
<1> HIDE DEF w, u
<1>4. t = Built(w, u)
  BY <1>3 DEF w, u
<1>5. \A a, b, c, x : Tree(a, b, c, x).kind = a /\ Tree(a, b, c, x).name = b
  BY DEF Tree
<1>6. ASSUME w.kind = "nsarray" PROVE t.kind = "array"
  <2>1. PICK c : t = Tree("array", "", c, {})
    BY <1>4, <1>6, Zenon DEF Built
  <2>2. QED
    BY <1>5, <2>1, Zenon
<1>7. ASSUME w.kind = "nsdict" PROVE t.kind = "dict"
  <2>1. PICK x : t = Tree("dict", "", <<>>, x)
    <3>1. w.kind # "nsarray"
      BY <1>7
    <3>2. QED
      BY <1>4, <1>7, <3>1, Zenon DEF Built
  <2>2. QED
    BY <1>5, <2>1, Zenon
<1>8. w.kind \notin {"nsarray", "nsdict"} => t = AsIs(w)
  BY <1>4 DEF Built
<1> DEFINE y == AsIs(w)
<1>9. w.kind \notin {"nsarray", "nsdict"} =>
        /\ w.kind \in {"array", "dict"} => y.kind = w.kind
        /\ w.kind \notin {"array", "dict"} => y = Leaf(w)
  BY AsIsKind
<1> HIDE DEF y
<1>10. w.kind \notin {"nsarray", "nsdict"} =>
         y.kind = w.kind /\ (w.kind = "string" => y.name = w.name)
  <2> SUFFICES ASSUME w.kind \notin {"nsarray", "nsdict"}
               PROVE  y.kind = w.kind /\ (w.kind = "string" => y.name = w.name)
    OBVIOUS
  <2>1. CASE w.kind \in {"array", "dict"}
    BY <1>9, <2>1
  <2>3. CASE w.kind \notin {"array", "dict"}
    <3>1. y = Tree(w.kind, w.name, <<>>, {})
      BY <1>9, <2>3 DEF Leaf
    <3> DEFINE p == w.kind
               q == w.name
    <3>2. y = Tree(p, q, <<>>, {})
      BY <3>1
    <3> HIDE DEF p, q
    <3>3. Tree(p, q, <<>>, {}).kind = p /\ Tree(p, q, <<>>, {}).name = q
      BY DEF Tree
    <3>4. y.kind = p
      BY <3>2, <3>3
    <3>5. y.name = q
      BY <3>2, <3>3
    <3>6. QED
      BY <3>4, <3>5 DEF p, q
  <2>4. QED
    BY <2>1, <2>3
<1>11. QED
  BY <1>2, <1>3, <1>6, <1>7, <1>8, <1>10 DEF w, y

-----------------------------------------------------------------------------
(* The steps of the unarchiver. *)

LEMMA StillRunning == \A s, r : Judged(s, r, "running")
  BY DEF Judged, Failures

LEMMA FailHolds ==
  ASSUME Holds(stack, reg, verdict), NEW why \in Defects, why # "Ok", Fail(why)
  PROVE  Holds(stack', reg', verdict')
<1>1. stack' = stack /\ reg' = reg /\ verdict' = why
  BY DEF Fail
<1>2. Judged(stack, reg, why)
  BY DEF Judged
<1>3. QED
  BY <1>1, <1>2 DEF Holds

LEMMA InitHolds ==
  ASSUME ArchiveIs, InitUnarchive PROVE Holds(stack, reg, verdict)
<1>1. stack = <<>> /\ reg = Calling(root, 0) /\ verdict = "running"
  BY DEF InitUnarchive
<1>2. Len(<<>>) = 0 /\ DOMAIN <<>> = {}
  OBVIOUS
<1>3. Source(<<>>, Len(<<>>)) = root /\ Level(<<>>, Len(<<>>)) = 0
  BY <1>2 DEF Source, Level
<1>4. Asked(root, 0, root, 0)
  <2>1. root \in Values /\ root \in AtDepth(0)
    BY FromIs DEF ArchiveIs, AtDepth
  <2>2. QED
    BY <2>1, LeadsToItself DEF Asked
<1>5. Asks(<<>>, Calling(root, 0))
  BY <1>3, <1>4, CallIsAsked
<1>6. Sound(<<>>)
  BY <1>2 DEF Sound
<1>7. QED
  BY <1>1, <1>5, <1>6, StillRunning DEF Holds

(* What is asked for, when a call is about to be made. *)
LEMMA CalledFacts ==
  ASSUME IInv, Holds(stack, reg, verdict), Called
  PROVE  /\ ArchiveIs /\ IsStack(stack) /\ Sound(stack)
         /\ verdict = "running" /\ reg.value \in Values
         /\ reg.depth \in 0..(MaxDepth + 1) /\ reg.value \in AtDepth(reg.depth)
         /\ Leads(Source(stack, Len(stack)), Level(stack, Len(stack)),
                  reg.value, reg.depth)
         /\ Source(stack, Len(stack)) \in Values
<1>1. ArchiveIs /\ Sound(stack) /\ Asks(stack, reg)
  BY DEF Holds
<1>2. IsStack(stack) /\ reg.depth \in 0..(MaxDepth + 1)
  BY DEF IInv, Good
<1>3. verdict = "running" /\ reg.mode = "call"
  BY DEF Called
<1>4. Asked(Source(stack, Len(stack)), Level(stack, Len(stack)), reg.value, reg.depth)
  BY <1>1, <1>3 DEF Asks
<1>5. QED
  BY <1>1, <1>2, <1>3, <1>4, SourceIsThere DEF Asked

LEMMA TooDeepHolds ==
  ASSUME IInv, Holds(stack, reg, verdict), TooDeep
  PROVE  Holds(stack', reg', verdict')
<1>1. Called /\ reg.depth > MaxDepth /\ Fail("TooDeep")
  BY DEF TooDeep
<1>2. reg.depth = MaxDepth + 1
  BY <1>1, CalledFacts, DepthAssumption
<1>3. "TooDeep" \in Defects
  BY <1>1, <1>2, CalledFacts DEF Defects, Failures
<1>4. QED
  BY <1>1, <1>3, FailHolds

LEMMA FollowHolds ==
  ASSUME IInv, Holds(stack, reg, verdict), Follow
  PROVE  Holds(stack', reg', verdict')
<1> DEFINE v == reg.value
           d == reg.depth
           a == Source(stack, Len(stack))
           l == Level(stack, Len(stack))
<1>1. Called /\ d <= MaxDepth /\ v.kind = "uid"
  BY DEF Follow, Visit
<1>2. /\ ArchiveIs /\ Sound(stack) /\ verdict = "running" /\ v \in Values
      /\ d \in Nat /\ v \in AtDepth(d) /\ Leads(a, l, v, d) /\ a \in Values
  BY <1>1, CalledFacts
<1>3. CASE ~InObjects(v)
  <2>1. Fail("Bounds")
    BY <1>3 DEF Follow
  <2>2. v \in Within /\ Dangles(v)
    BY <1>1, <1>2, <1>3, InWithin DEF Dangles
  <2>3. "Bounds" \in Defects
    BY <2>2 DEF Defects, Failures
  <2>4. QED
    BY <2>1, <2>3, FailHolds
<1>4. CASE InObjects(v)
  <2>1. /\ reg' = Calling(Target(v), d + 1)
        /\ stack' = stack /\ verdict' = verdict
    BY <1>4 DEF Follow
  <2>2. Refers(v)
    BY <1>1, <1>4 DEF Refers
  <2> HIDE DEF v, d, a, l
  <2>3. Leads(a, l, Target(v), d + 1)
    BY <1>2, <2>2, LeadsOn
  <2>4. Target(v) \in Values /\ Target(v) \in AtDepth(d + 1)
    <3>1. Target(v) \in Rng(Members(v))
      BY <1>2, <2>2, MembersOf
    <3>2. QED
      BY <1>2, <3>1, NextDepth
  <2>5. Asked(a, l, Target(v), d + 1)
    BY <2>3, <2>4 DEF Asked
  <2>6. Asks(stack, Calling(Target(v), d + 1))
    BY <2>5, CallIsAsked DEF a, l
  <2>7. QED
    BY <1>2, <2>1, <2>6, StillRunning DEF Holds
<1>5. QED
  BY <1>3, <1>4

LEMMA PassThroughHolds ==
  ASSUME IInv, Holds(stack, reg, verdict), PassThrough
  PROVE  Holds(stack', reg', verdict')
<1> DEFINE v == reg.value
           a == Source(stack, Len(stack))
           l == Level(stack, Len(stack))
<1>1. /\ Called /\ reg.depth <= MaxDepth /\ v.kind \in Plain
      /\ reg' = Returning(AsIs(v)) /\ stack' = stack /\ verdict' = verdict
  BY DEF PassThrough, Visit, Plain
<1>2. /\ ArchiveIs /\ Sound(stack) /\ verdict = "running" /\ v \in Values
      /\ Leads(a, l, v, reg.depth) /\ a \in Values
  BY <1>1, CalledFacts
<1>3. Decoded(a, l, AsIs(v))
  BY <1>1, <1>2, PlainDecoded
<1>4. Asks(stack, Returning(AsIs(v)))
  BY <1>3, ReturnIsAsked
<1>5. QED
  BY <1>1, <1>2, <1>4, StillRunning DEF Holds

LEMMA EnterHolds ==
  ASSUME IInv, Holds(stack, reg, verdict), Enter
  PROVE  Holds(stack', reg', verdict')
<1> DEFINE v == reg.value
           d == reg.depth
           a == Source(stack, Len(stack))
           l == Level(stack, Len(stack))
           kind == IF v.kind = "nsdict" THEN "dict" ELSE "array"
           first == IF v.kind = "nsdict" THEN v.keys[1] ELSE v.objs[1]
<1>1. Called /\ d <= MaxDepth /\ v.kind \in {"nsarray", "nsdict"}
  BY DEF Enter, Visit
<1>2. /\ ArchiveIs /\ IsStack(stack) /\ Sound(stack) /\ verdict = "running"
      /\ v \in Values /\ d \in Nat /\ v \in AtDepth(d)
      /\ Leads(a, l, v, d) /\ a \in Values
  BY <1>1, CalledFacts
<1>3. CASE v.kind = "nsdict" /\ Len(v.keys) # Len(v.objs)
  <2>1. Fail("Mismatch")
    BY <1>3 DEF Enter
  <2>2. v \in Within /\ Mismatched(v)
    BY <1>1, <1>2, <1>3, InWithin DEF Mismatched
  <2>3. "Mismatch" \in Defects
    BY <2>2 DEF Defects, Failures
  <2>4. QED
    BY <2>1, <2>3, FailHolds
<1>4. CASE ~(v.kind = "nsdict" /\ Len(v.keys) # Len(v.objs)) /\ v.objs = <<>>
  <2>1. /\ reg' = Returning(Tree(kind, "", <<>>, {}))
        /\ stack' = stack /\ verdict' = verdict
    BY <1>4 DEF Enter
  <2>2. Decoded(a, l, Tree(kind, "", <<>>, {}))
    <3>0. Len(v.objs) = 0
      BY <1>4
    <3> HIDE DEF v, d, a, l
    <3>1. CASE v.kind = "nsarray"
      <4>1. kind = "array"
        BY <3>1
      <4>2. <<>> \in Seq({}) /\ Len(<<>>) = 0
        OBVIOUS
      <4>3. \A i \in 1..Len(<<>>) : Decoded(v.objs[i], d + 1, <<>>[i])
        BY <4>2
      <4>4. Decoded(a, l, Tree("array", "", <<>>, {}))
        BY <1>1, <1>2, <3>0, <3>1, <4>2, <4>3, ArrayDecoded
      <4>5. QED
        BY <4>1, <4>4
    <3>2. CASE v.kind = "nsdict"
      <4>1. kind = "dict" /\ Len(v.keys) = Len(v.objs)
        BY <1>4, <3>2
      <4>2. Gathered(v, d + 1, Len(v.objs), {})
        BY <3>0, NothingGathered
      <4>3. Decoded(a, l, Tree("dict", "", <<>>, {}))
        BY <1>1, <1>2, <3>2, <4>1, <4>2, DictDecoded
      <4>4. QED
        BY <4>1, <4>3
    <3>3. QED
      BY <1>1, <3>1, <3>2
  <2>3. Asks(stack, Returning(Tree(kind, "", <<>>, {})))
    BY <2>2, ReturnIsAsked
  <2>4. QED
    BY <1>2, <2>1, <2>3, StillRunning DEF Holds
<1>5. CASE ~(v.kind = "nsdict" /\ Len(v.keys) # Len(v.objs)) /\ v.objs # <<>>
  <2>1. /\ reg' = Calling(first, MemberDepth(d))
        /\ stack' = Append(stack, Frame(v, d))
        /\ verdict' = verdict
    BY <1>5 DEF Enter
  <2>2. Frame(v, d) = Rec(v, d, 1, <<>>, <<>>, {})
    BY DEF Frame, Rec
  <2>3. first = Wants(v, 1, <<>>)
    BY DEF Wants
  <2> HIDE DEF v, d, a, l, first
  <2>4. 1 \in 1..Len(v.objs) /\ 1 - 1 = 0
    BY <1>2, <1>5, ValueFields
  <2>5. Reads(v, d, 1, <<>>, <<>>, {})
    <3>1. CASE v.kind = "nsarray"
      <4>1. <<>> \in Seq({}) /\ Len(<<>>) = 0
        OBVIOUS
      <4>2. ReadsArray(v, d, 1, <<>>, {})
        BY <2>4, <3>1, <4>1 DEF ReadsArray
      <4>3. QED
        BY <1>1, <1>2, <2>4, <4>2 DEF Reads
    <3>2. CASE v.kind = "nsdict"
      <4>1. Len(v.keys) = Len(v.objs) /\ Gathered(v, d + 1, 0, {})
        BY <1>5, <3>2, NothingGathered
      <4>2. ReadsDict(v, d, 1, <<>>, <<>>, {})
        BY <2>4, <3>2, <4>1 DEF ReadsDict, KeyRead
      <4>3. QED
        BY <1>1, <1>2, <2>4, <4>2 DEF Reads
    <3>3. QED
      BY <1>1, <3>1, <3>2
  <2>6. /\ Sound(Append(stack, Frame(v, d)))
        /\ Asks(Append(stack, Frame(v, d)), Calling(first, MemberDepth(d)))
    BY <1>2, <2>2, <2>3, <2>5, MemberIsAsked DEF a, l
  <2>7. QED
    BY <1>2, <2>1, <2>6, StillRunning DEF Holds
<1>6. QED
  BY <1>3, <1>4, <1>5

(* A member, or its key, has been decoded: what the innermost collection   *)
(* has read so far, and what stands where the collection does.             *)
LEMMA TopFacts ==
  ASSUME IInv, Holds(stack, reg, verdict), Returned
  PROVE  /\ ArchiveIs /\ verdict = "running"
         /\ IsStack(Below) /\ Sound(Below) /\ IsFrame(Top)
         /\ Reads(Top.value, Top.depth, Top.pos, Top.key, Top.items, Top.entries)
         /\ Source(Below, Len(Below)) \in Values
         /\ Leads(Source(Below, Len(Below)), Level(Below, Len(Below)),
                  Top.value, Top.depth)
         /\ Decoded(Wants(Top.value, Top.pos, Top.key), Top.depth + 1, reg.tree)
<1>1. ArchiveIs /\ Sound(stack) /\ Asks(stack, reg)
  BY DEF Holds
<1>2. verdict = "running" /\ reg.mode = "return" /\ stack # <<>>
  BY DEF Returned
<1>3. IsStack(stack)
  BY DEF IInv, Good
<1>4. Decoded(Source(stack, Len(stack)), Level(stack, Len(stack)), reg.tree)
  BY <1>1, <1>2 DEF Asks
<1>5. /\ Sound(Below) /\ IsStack(Below) /\ FrameReads(Top) /\ IsFrame(Top)
      /\ Leads(Source(Below, Len(Below)), Level(Below, Len(Below)),
               Top.value, Top.depth)
      /\ Source(stack, Len(stack)) = Wants(Top.value, Top.pos, Top.key)
      /\ Level(stack, Len(stack)) = Top.depth + 1
  BY <1>1, <1>2, <1>3, PopSound DEF Top, Below
<1>6. QED
  BY <1>1, <1>2, <1>4, <1>5, SourceIsThere DEF FrameReads

LEMMA TakeKeyHolds ==
  ASSUME IInv, Holds(stack, reg, verdict), TakeKey
  PROVE  Holds(stack', reg', verdict')
<1> DEFINE v == Top.value
           d == Top.depth
           p == Top.pos
           is == Top.items
           es == Top.entries
           t == reg.tree
           key == v.keys[p]
<1>1. Returned /\ v.kind = "nsdict" /\ Top.key = <<>>
  BY DEF TakeKey, KeyPending
<1>2. /\ ArchiveIs /\ verdict = "running" /\ IsStack(Below) /\ Sound(Below)
      /\ Reads(v, d, p, <<>>, is, es) /\ IsFrame(Top)
      /\ Leads(Source(Below, Len(Below)), Level(Below, Len(Below)), v, d)
      /\ Decoded(Wants(v, p, <<>>), d + 1, t)
  BY <1>1, TopFacts
<1>3. /\ v \in Values /\ d \in Nat /\ d <= MaxDepth /\ v \in AtDepth(d)
      /\ p \in 1..Len(v.objs) /\ ReadsDict(v, d, p, <<>>, is, es)
  BY <1>1, <1>2 DEF Reads, ReadsArray
<1>4. Len(v.keys) = Len(v.objs) /\ Gathered(v, d + 1, p - 1, es) /\ is = <<>>
  BY <1>3 DEF ReadsDict
<1>5. p \in DOMAIN v.keys /\ key \in Values
  BY <1>3, <1>4, ValueFields
<1>6. Decoded(key, d + 1, t) /\ Clean(key, d + 1)
  BY <1>1, <1>2 DEF Wants, Decoded
<1>7. /\ Meant(key).kind = "nsarray" => t.kind = "array"
      /\ Meant(key).kind = "nsdict"  => t.kind = "dict"
      /\ Meant(key).kind \notin {"nsarray", "nsdict"} =>
           t.kind = Meant(key).kind /\ (Meant(key).kind = "string" => t.name = Meant(key).name)
  <2>1. d + 1 \in Nat
    BY <1>3
  <2> HIDE DEF key, t, v, d, p
  <2>2. QED
    BY <1>2, <1>5, <1>6, <2>1, DecodedKind
<1>8. CASE t.kind # "string"
  <2>1. Fail("Key")
    BY <1>8 DEF TakeKey
  <2>2. Meant(key).kind # "string"
    BY <1>7, <1>8
  <2>3. BadlyKeyed(v) /\ v \in Within
    BY <1>1, <1>3, <1>5, <2>2, InWithin DEF BadlyKeyed
  <2>4. "Key" \in Defects
    BY <2>3 DEF Defects, Failures
  <2>5. QED
    BY <2>1, <2>4, FailHolds
<1>9. CASE t.kind = "string"
  <2> DEFINE e == [Top EXCEPT !.key = <<t.name>>]
  <2>1. /\ stack' = Append(Below, e)
        /\ reg' = Calling(v.objs[p], MemberDepth(d))
        /\ verdict' = verdict
    BY <1>9 DEF TakeKey
  <2>2. Top = Rec(v, d, p, <<>>, is, es)
    <3>1. Top = Rec(v, d, p, Top.key, is, es)
      BY <1>2 DEF IsFrame, Rec
    <3>2. QED
      BY <1>1, <3>1
  <2>3. e = Rec(v, d, p, <<t.name>>, is, es)
    <3> HIDE DEF v, d, p, is, es, t
    <3>1. QED
      BY <2>2 DEF Rec
  <2>4. Meant(key).kind = "string" /\ t.name = Spelled(v, p)
    BY <1>7, <1>9 DEF Spelled
  <2> DEFINE k == <<Spelled(v, p)>>
             a == Source(Below, Len(Below))
             l == Level(Below, Len(Below))
  <2>5. KeyRead(v, d, p, k)
    BY <1>6, <2>4 DEF KeyRead
  <2> HIDE DEF v, d, p, is, es, t, key, e
  <2>6. Reads(v, d, p, k, is, es)
    BY <1>1, <1>3, <1>4, <2>5 DEF Reads, ReadsDict
  <2>7. v.objs[p] = Wants(v, p, k)
    BY DEF Wants
  <2>8. e = Rec(v, d, p, k, is, es)
    BY <2>3, <2>4
  <2> HIDE DEF k
  <2>9. Sound(Append(Below, e)) /\ Asks(Append(Below, e), Calling(v.objs[p], MemberDepth(d)))
    BY <1>2, <2>6, <2>7, <2>8, MemberIsAsked
  <2>10. QED
    BY <1>2, <2>1, <2>9, StillRunning DEF Holds
<1>10. QED
  BY <1>8, <1>9

(* A member joins the others: of an array. *)
LEMMA ItemJoins ==
  ASSUME ArchiveIs, NEW v, NEW d, NEW p, NEW k, NEW is, NEW es,
         Reads(v, d, p, k, is, es), v.kind = "nsarray",
         NEW t, Decoded(v.objs[p], d + 1, t),
         NEW a \in Values, NEW l, Leads(a, l, v, d)
  PROVE  /\ p = Len(v.objs) => Decoded(a, l, Tree("array", "", Append(is, t), es))
         /\ p # Len(v.objs) =>
              /\ Reads(v, d, p + 1, <<>>, Append(is, t), es)
              /\ Wants(v, p + 1, <<>>) = v.objs[p + 1]
<1>1. /\ v \in Values /\ d \in Nat /\ d <= MaxDepth /\ v \in AtDepth(d)
      /\ p \in 1..Len(v.objs) /\ ReadsArray(v, d, p, is, es)
  BY DEF Reads, ReadsDict
<1>2. /\ es = {} /\ Len(is) = p - 1
      /\ \A i \in 1..(p - 1) : Decoded(v.objs[i], d + 1, is[i])
  BY <1>1 DEF ReadsArray
<1>3. PICK S : is \in Seq(S)
  BY <1>1 DEF ReadsArray
<1>4. Len(v.objs) \in Nat /\ p \in Nat /\ (p - 1) + 1 = p /\ (p + 1) - 1 = p
  BY <1>1, ValueFields
<1> DEFINE more == Append(is, t)
<1>5. PICK T : more \in Seq(T)
  BY <1>3, PushFacts
<1>6. /\ Len(more) = p
      /\ \A i \in 1..(p - 1) : more[i] = is[i]
      /\ more[p] = t
  BY <1>2, <1>3, <1>4, PushFacts
<1> HIDE DEF more
<1>7. \A i \in 1..p : Decoded(v.objs[i], d + 1, more[i])
  <2> SUFFICES ASSUME NEW i \in 1..p PROVE Decoded(v.objs[i], d + 1, more[i])
    OBVIOUS
  <2>1. CASE i = p
    BY <1>6, <2>1
  <2>2. CASE i # p
    <3>1. i \in 1..(p - 1)
      BY <1>4, <2>2
    <3>2. QED
      BY <1>2, <1>6, <3>1
  <2>3. QED
    BY <2>1, <2>2
<1>8. ASSUME p = Len(v.objs) PROVE Decoded(a, l, Tree("array", "", more, {}))
  BY <1>1, <1>5, <1>6, <1>7, <1>8, ArrayDecoded
<1>9. ASSUME p # Len(v.objs)
      PROVE  Reads(v, d, p + 1, <<>>, more, es) /\ Wants(v, p + 1, <<>>) = v.objs[p + 1]
  <2>1. p + 1 \in 1..Len(v.objs)
    BY <1>1, <1>4, <1>9
  <2>2. ReadsArray(v, d, p + 1, more, es)
    BY <1>2, <1>4, <1>5, <1>6, <1>7 DEF ReadsArray
  <2>3. Reads(v, d, p + 1, <<>>, more, es)
    BY <1>1, <2>1, <2>2 DEF Reads
  <2>4. QED
    BY <2>3 DEF Wants
<1>10. QED
  BY <1>2, <1>8, <1>9 DEF more

(* And of a dictionary, under the key that was read before it. *)
LEMMA EntryJoins ==
  ASSUME ArchiveIs, NEW v, NEW d, NEW p, NEW k, NEW is, NEW es,
         Reads(v, d, p, k, is, es), v.kind = "nsdict", k # <<>>,
         NEW t, Decoded(v.objs[p], d + 1, t),
         NEW a \in Values, NEW l, Leads(a, l, v, d)
  PROVE  LET more == Insert(es, k[1], t)
         IN  /\ p = Len(v.objs) => Decoded(a, l, Tree("dict", "", is, more))
             /\ p # Len(v.objs) =>
                  /\ Reads(v, d, p + 1, <<>>, is, more)
                  /\ Wants(v, p + 1, <<>>) = v.keys[p + 1]
<1>1. /\ v \in Values /\ d \in Nat /\ d <= MaxDepth /\ v \in AtDepth(d)
      /\ p \in 1..Len(v.objs) /\ ReadsDict(v, d, p, k, is, es)
  BY DEF Reads, ReadsArray
<1>2. /\ Len(v.keys) = Len(v.objs) /\ is = <<>>
      /\ Gathered(v, d + 1, p - 1, es) /\ KeyRead(v, d, p, k)
  BY <1>1 DEF ReadsDict
<1>3. /\ k = <<Spelled(v, p)>> /\ Meant(v.keys[p]).kind = "string"
      /\ Clean(v.keys[p], d + 1)
  BY <1>2 DEF KeyRead
<1>4. Len(v.objs) \in Nat /\ p \in Nat /\ (p - 1) \in Nat
      /\ (p - 1) + 1 = p /\ (p + 1) - 1 = p
  BY <1>1, ValueFields
<1> DEFINE more == Insert(es, k[1], t)
           q == p - 1
<1>5. Gathered(v, d + 1, p, more)
  <2>1. q \in Nat /\ q + 1 = p /\ Gathered(v, d + 1, q, es)
    BY <1>2, <1>4
  <2>2. k[1] = Spelled(v, p)
    BY <1>3
  <2> HIDE DEF q
  <2>3. Gathered(v, d + 1, q + 1, Insert(es, Spelled(v, q + 1), t))
    BY <1>3, <2>1, OneMoreGathered
  <2>4. QED
    BY <2>1, <2>2, <2>3
<1> HIDE DEF more
<1>6. ASSUME p = Len(v.objs) PROVE Decoded(a, l, Tree("dict", "", <<>>, more))
  BY <1>1, <1>2, <1>5, <1>6, DictDecoded
<1>7. ASSUME p # Len(v.objs)
      PROVE  Reads(v, d, p + 1, <<>>, is, more) /\ Wants(v, p + 1, <<>>) = v.keys[p + 1]
  <2>1. p + 1 \in 1..Len(v.objs)
    BY <1>1, <1>4, <1>7
  <2>2. ReadsDict(v, d, p + 1, <<>>, is, more)
    BY <1>2, <1>4, <1>5 DEF ReadsDict, KeyRead
  <2>3. Reads(v, d, p + 1, <<>>, is, more)
    BY <1>1, <2>1, <2>2 DEF Reads
  <2>4. QED
    BY <2>3 DEF Wants
<1>8. QED
  BY <1>2, <1>6, <1>7 DEF more

LEMMA RecJoins ==
  ASSUME NEW f, NEW v, NEW d, NEW p, NEW k, NEW is, NEW es,
         f = Rec(v, d, p, k, is, es), NEW is2, NEW es2
  PROVE  /\ [f EXCEPT !.items = is2] = Rec(v, d, p, k, is2, es)
         /\ [f EXCEPT !.entries = es2] = Rec(v, d, p, k, is, es2)
  BY DEF Rec

LEMMA TakeMemberHolds ==
  ASSUME IInv, Holds(stack, reg, verdict), TakeMember
  PROVE  Holds(stack', reg', verdict')
<1> DEFINE v == Top.value
           d == Top.depth
           p == Top.pos
           k == Top.key
           is == Top.items
           es == Top.entries
           t == reg.tree
           dict == v.kind = "nsdict"
           is2 == IF dict THEN is ELSE Append(is, t)
           es2 == IF dict THEN Insert(es, k[1], t) ELSE es
           full == IF dict
                     THEN [Top EXCEPT !.entries = Insert(@, Top.key[1], reg.tree)]
                     ELSE [Top EXCEPT !.items = Append(@, reg.tree)]
           next == [full EXCEPT !.pos = @ + 1, !.key = <<>>]
           kind == IF dict THEN "dict" ELSE "array"
           m == IF dict THEN v.keys[p + 1] ELSE v.objs[p + 1]
           a == Source(Below, Len(Below))
           l == Level(Below, Len(Below))
<1>1. Returned /\ ~(dict /\ k = <<>>) /\ verdict' = verdict
  BY DEF TakeMember, KeyPending
<1>2. /\ ArchiveIs /\ verdict = "running" /\ IsStack(Below) /\ Sound(Below)
      /\ Reads(v, d, p, k, is, es) /\ IsFrame(Top)
      /\ a \in Values /\ Leads(a, l, v, d)
      /\ Decoded(Wants(v, p, k), d + 1, t)
  BY <1>1, TopFacts
<1>3. Decoded(v.objs[p], d + 1, t)
  <2>1. Wants(v, p, k) = v.objs[p]
    BY <1>1 DEF Wants
  <2>2. QED
    BY <1>2, <2>1
<1>4. Top = Rec(v, d, p, k, is, es)
  BY <1>2 DEF IsFrame, Rec
<1>5. \/ /\ p = Len(v.objs) /\ stack' = Below
         /\ reg' = Returning(Tree(kind, "", full.items, full.entries))
      \/ /\ p # Len(v.objs) /\ stack' = Append(Below, next)
         /\ reg' = Calling(m, MemberDepth(d))
  BY Zenon DEF TakeMember
<1>6. full = Rec(v, d, p, k, is2, es2)
  <2>1. CASE dict
    <3>1. full = [Top EXCEPT !.entries = Insert(es, k[1], t)]
      BY <2>1
    <3>2. is2 = is /\ es2 = Insert(es, k[1], t)
      BY <2>1
    <3>3. [Top EXCEPT !.entries = Insert(es, k[1], t)]
            = Rec(v, d, p, k, is, Insert(es, k[1], t))
      BY <1>4, RecJoins
    <3>4. QED
      BY <3>1, <3>2, <3>3
  <2>2. CASE ~dict
    <3>1. full = [Top EXCEPT !.items = Append(is, t)]
      BY <2>2
    <3>2. is2 = Append(is, t) /\ es2 = es
      BY <2>2
    <3>3. [Top EXCEPT !.items = Append(is, t)] = Rec(v, d, p, k, Append(is, t), es)
      <4> DEFINE more == Append(is, t)
      <4> HIDE DEF v, d, p, k, is, es, t, more
      <4>1. [Top EXCEPT !.items = more] = Rec(v, d, p, k, more, es)
        BY <1>4, RecJoins
      <4>2. QED
        BY <4>1 DEF more
    <3>4. QED
      BY <3>1, <3>2, <3>3
  <2>3. QED
    BY <2>1, <2>2
<1> HIDE DEF full
<1>7. full.items = is2 /\ full.entries = es2 /\ full.pos = p
  BY <1>6, RecFields
<1>8. next = Rec(v, d, p + 1, <<>>, is2, es2)
  <2>1. next = Moved(full, full.pos + 1, <<>>)
    BY DEF Moved
  <2>2. full.pos + 1 = p + 1
    BY <1>7
  <2>3. Moved(Rec(v, d, p, k, is2, es2), p + 1, <<>>) = Rec(v, d, p + 1, <<>>, is2, es2)
    BY RecMoves
  <2>4. QED
    BY <1>6, <2>1, <2>2, <2>3
<1> HIDE DEF next
<1>9. /\ p = Len(v.objs) => Decoded(a, l, Tree(kind, "", is2, es2))
      /\ p # Len(v.objs) => /\ Reads(v, d, p + 1, <<>>, is2, es2)
                            /\ Wants(v, p + 1, <<>>) = m
  <2>1. CASE dict
    <3>1. is2 = is /\ es2 = Insert(es, k[1], t) /\ kind = "dict" /\ m = v.keys[p + 1]
          /\ k # <<>> /\ v.kind = "nsdict"
      BY <1>1, <2>1
    <3> HIDE DEF v, d, p, k, is, es, t, a, l, dict, is2, es2, m, kind
    <3>2. LET more == Insert(es, k[1], t)
          IN  /\ p = Len(v.objs) => Decoded(a, l, Tree("dict", "", is, more))
              /\ p # Len(v.objs) =>
                   /\ Reads(v, d, p + 1, <<>>, is, more)
                   /\ Wants(v, p + 1, <<>>) = v.keys[p + 1]
      BY <1>2, <1>3, <3>1, EntryJoins
    <3>3. QED
      BY <3>1, <3>2
  <2>2. CASE ~dict
    <3>1. v.kind = "nsarray"
      BY <1>2, <2>2 DEF Reads, ReadsArray, ReadsDict
    <3>2. is2 = Append(is, t) /\ es2 = es /\ kind = "array" /\ m = v.objs[p + 1]
      BY <2>2
    <3> HIDE DEF v, d, p, k, is, es, t, a, l, dict, is2, es2, m, kind
    <3>3. /\ p = Len(v.objs) => Decoded(a, l, Tree("array", "", Append(is, t), es))
          /\ p # Len(v.objs) =>
               /\ Reads(v, d, p + 1, <<>>, Append(is, t), es)
               /\ Wants(v, p + 1, <<>>) = v.objs[p + 1]
      BY <1>2, <1>3, <3>1, ItemJoins
    <3>4. QED
      BY <3>2, <3>3
  <2>3. QED
    BY <2>1, <2>2
<1>10. CASE p = Len(v.objs)
  <2>1. stack' = Below /\ reg' = Returning(Tree(kind, "", is2, es2))
    BY <1>5, <1>7, <1>10
  <2>2. Asks(Below, Returning(Tree(kind, "", is2, es2)))
    BY <1>9, <1>10, ReturnIsAsked
  <2> HIDE DEF kind, is2, es2
  <2>3. QED
    BY <1>1, <1>2, <2>1, <2>2, StillRunning DEF Holds
<1>11. CASE p # Len(v.objs)
  <2>1. stack' = Append(Below, next) /\ reg' = Calling(m, MemberDepth(d))
    BY <1>5, <1>11
  <2>2. Reads(v, d, p + 1, <<>>, is2, es2) /\ m = Wants(v, p + 1, <<>>)
    BY <1>9, <1>11
  <2> HIDE DEF v, d, p, is2, es2, m, dict
  <2>3. Sound(Append(Below, next)) /\ Asks(Append(Below, next), Calling(m, MemberDepth(d)))
    BY <1>2, <1>8, <2>2, MemberIsAsked
  <2>4. QED
    BY <1>1, <1>2, <2>1, <2>3, StillRunning DEF Holds
<1>12. QED
  BY <1>10, <1>11

LEMMA FinishRootHolds ==
  ASSUME IInv, Holds(stack, reg, verdict), FinishRoot
  PROVE  Holds(stack', reg', verdict')
<1>1. /\ reg.mode = "return" /\ stack = <<>> /\ stack' = stack /\ reg' = reg
      /\ verdict' = IF reg.tree.kind = "dict" THEN "Ok" ELSE "NotADictionary"
  BY DEF FinishRoot
<1>2. ArchiveIs /\ Sound(stack) /\ Asks(stack, reg)
  BY DEF Holds
<1>3. CASE reg.tree.kind = "dict"
  <2>1. verdict' = "Ok"
    BY <1>1, <1>3
  <2>2. Judged(stack, reg, "Ok")
    BY <1>1, <1>3 DEF Judged, Failures
  <2>3. QED
    BY <1>1, <1>2, <2>1, <2>2 DEF Holds
<1>4. CASE reg.tree.kind # "dict"
  <2>1. verdict' = "NotADictionary"
    BY <1>1, <1>4
  <2>2. Len(stack) = 0
    BY <1>1
  <2>3. Decoded(root, 0, reg.tree)
    BY <1>1, <1>2, <2>2 DEF Asks, Source, Level
  <2>4. Meant(root).kind \notin {"nsdict", "dict"}
    <3>1. root \in Values /\ 0 \in Nat
      BY <1>2 DEF ArchiveIs
    <3> DEFINE t == reg.tree
               k == Meant(root).kind
    <3>2. /\ k = "nsdict" => t.kind = "dict"
          /\ k \notin {"nsarray", "nsdict"} => t.kind = k
      BY <1>2, <2>3, <3>1, DecodedKind
    <3> HIDE DEF k, t
    <3>3. t.kind # "dict"
      BY <1>4 DEF t
    <3>4. k \notin {"nsdict", "dict"}
      BY <3>2, <3>3
    <3>5. QED
      BY <3>4 DEF k
  <2>5. "NotADictionary" \in Defects
    BY <2>4 DEF Defects, Failures
  <2>6. Judged(stack, reg, "NotADictionary")
    BY <2>5 DEF Judged
  <2>7. QED
    BY <1>1, <1>2, <2>1, <2>6 DEF Holds
<1>5. QED
  BY <1>3, <1>4

LEMMA NextHolds ==
  ASSUME IInv, Holds(stack, reg, verdict), [Next]_vars
  PROVE  archive' = archive /\ Holds(stack', reg', verdict')
<1>1. archive' = archive
  BY DEF Next, NextEnvelope, NextUnarchive, TooDeep, Follow, PassThrough, Enter,
    TakeKey, TakeMember, FinishRoot, Visit, vars
<1>2. Holds(stack', reg', verdict')
  <2>1. CASE UNCHANGED vars \/ UNCHANGED unarchive
    BY <2>1 DEF vars, unarchive
  <2>2. CASE NextUnarchive
    BY <2>2, TooDeepHolds, FollowHolds, PassThroughHolds, EnterHolds,
       TakeKeyHolds, TakeMemberHolds, FinishRootHolds DEF NextUnarchive
  <2>3. QED
    BY <2>1, <2>2 DEF Next
<1>3. QED
  BY <1>1, <1>2

LEMMA StepHolds ==
  ASSUME IInv, Holds(stack, reg, verdict), [Next]_vars
  PROVE  Holds(stack, reg, verdict)'
  BY NextHolds, ArchiveStays

LEMMA InitStands == Init => Holds(stack, reg, verdict)
<1> SUFFICES ASSUME Init PROVE Holds(stack, reg, verdict)
  OBVIOUS
<1>1. PICK a \in Archives : objects = a.objects /\ root = a.root
  BY DEF Init
<1>2. ArchiveIs
  BY <1>1, ArchiveAssumption DEF ArchiveIs
<1>3. QED
  BY <1>2, InitHolds DEF Init

DecodingInv == IInv /\ Holds(stack, reg, verdict)

LEMMA Decoding == Spec => []DecodingInv
<1>1. Init => DecodingInv
  BY InitInv, InitStands DEF DecodingInv
<1>2. DecodingInv /\ [Next]_vars => DecodingInv'
  BY NextInv, StepHolds DEF DecodingInv
<1>3. QED
  BY <1>1, <1>2, PTL DEF Spec

-----------------------------------------------------------------------------

(* What an Ok is worth. *)
LEMMA OkMeans ==
  ASSUME DecodingInv, verdict = "Ok"
  PROVE  /\ ArchiveIs /\ reg.tree.kind = "dict"
         /\ Decoded(root, 0, reg.tree) /\ Clean(root, 0)
         /\ reg.tree = Means(root)
         /\ reg.tree = Built(Meant(root), Meaning[MaxDepth])
         /\ Meant(root).kind \in {"nsdict", "dict"}
<1>1. ArchiveIs /\ Asks(stack, reg) /\ Judged(stack, reg, verdict)
  BY DEF DecodingInv, Holds
<1>2. stack = <<>> /\ reg.mode = "return" /\ reg.tree.kind = "dict"
  BY <1>1 DEF Judged
<1>3. Len(stack) = 0
  BY <1>2
<1>4. Decoded(root, 0, reg.tree)
  BY <1>1, <1>2, <1>3 DEF Asks, Source, Level
<1>5. root \in Values /\ 0 \in Nat
  BY <1>1 DEF ArchiveIs
<1> DEFINE t == reg.tree
           k == Meant(root).kind
<1>6. /\ t = Meaning[MaxDepth + 1][root]
      /\ t = Built(Meant(root), Meaning[MaxDepth])
      /\ k = "nsarray" => t.kind = "array"
      /\ k \notin {"nsarray", "nsdict"} => t.kind = k
  BY <1>1, <1>4, <1>5, DecodedKind
<1>7. k \in {"nsdict", "dict"}
  <2>1. t.kind = "dict"
    BY <1>2
  <2> HIDE DEF k, t
  <2>2. QED
    BY <1>6, <2>1
<1>8. QED
  BY <1>1, <1>2, <1>4, <1>6, <1>7 DEF Means, Decoded

(* The general unarchiver returns what the archive means, whatever it      *)
(* shares and however deep: the loop over the members of one level never   *)
(* loses, repeats or swaps one for those of a deeper level, and the entry  *)
(* kept under a key is that of its last occurrence.                        *)
THEOREM TheTreeIsFaithful == Spec => []Faithful
<1>1. DecodingInv => Faithful
  BY OkMeans DEF Faithful
<1>2. QED
  BY <1>1, Decoding, PTL

(* An archive is rejected only for a defect that it has, and accepted only *)
(* without any: no walk longer than MAX_ARCHIVE_DEPTH, and nothing out of  *)
(* bounds, mismatched or badly keyed anywhere within it.                   *)
THEOREM TheVerdictIsJustified == Spec => []VerdictIsJustified
<1>1. ASSUME DecodingInv, verdict \in Failures PROVE verdict \in Defects
  BY <1>1 DEF DecodingInv, Holds, Judged
<1>2. ASSUME DecodingInv, verdict = "Ok" PROVE Defects = {}
  <2>1. Clean(root, 0) /\ Meant(root).kind \in {"nsdict", "dict"}
    BY <1>2, OkMeans
  <2>2. \A n \in Nat : \A w \in AtDepth(n) : 0 + n <= MaxDepth /\ ~Bad(w)
    BY <2>1 DEF Clean, AtDepth
  <2>3. AtDepth(MaxDepth + 1) = {}
    BY <2>2, DepthAssumption
  <2>4. \A w \in Within : ~Bad(w)
    <3>1. \A n \in 0..MaxDepth : n \in Nat
      OBVIOUS
    <3>2. QED
      BY <2>2, <3>1 DEF Within
  <2>5. QED
    BY <2>1, <2>3, <2>4 DEF Defects, Bad
<1>3. DecodingInv => VerdictIsJustified
  BY <1>1, <1>2 DEF VerdictIsJustified
<1>4. QED
  BY <1>3, Decoding, PTL

-----------------------------------------------------------------------------
(* Below a clean value everything is clean, and its meaning does not       *)
(* depend on where it is cut off.                                          *)

LEMMA MembersFrom ==
  ASSUME ArchiveIs, NEW v \in Values, NEW m \in Rng(Members(v))
  PROVE  \A n \in Nat : From(m)[n] \subseteq From(v)[n + 1]
<1> DEFINE Part(n) == From(m)[n] \subseteq From(v)[n + 1]
           T == {n \in Nat : Part(n)}
<1>1. m \in Values
  BY MembersAreValues
<1>2. 0 \in T
  <2>1. From(m)[0] = {m} /\ From(v)[0 + 1] = Onward({v})
    BY <1>1, FromIs
  <2>2. m \in Onward({v})
    BY DEF Onward
  <2>3. QED
    BY <2>1, <2>2
<1>3. ASSUME NEW n \in Nat, n \in T PROVE n + 1 \in T
  <2>1. /\ From(m)[n + 1] = Onward(From(m)[n])
        /\ n + 1 \in Nat /\ From(v)[(n + 1) + 1] = Onward(From(v)[n + 1])
    BY <1>1, FromIs
  <2>2. Part(n)
    BY <1>3
  <2>3. Onward(From(m)[n]) \subseteq Onward(From(v)[n + 1])
    BY <2>2 DEF Onward
  <2>4. Part(n + 1)
    BY <2>1, <2>3
  <2> HIDE DEF Part
  <2>5. QED
    BY <2>1, <2>4
<1>4. \A n \in Nat : n \in T
  <2> HIDE DEF T
  <2>1. QED
    BY <1>2, <1>3, Induction
<1>5. QED
  BY <1>4

LEMMA CleanMember ==
  ASSUME ArchiveIs, NEW v \in Values, NEW d \in Nat, Clean(v, d),
         NEW m \in Rng(Members(v))
  PROVE  m \in Values /\ Clean(m, d + 1)
<1>1. m \in Values
  BY MembersAreValues
<1>2. ASSUME NEW k \in Nat, NEW w \in From(m)[k]
      PROVE  (d + 1) + k <= MaxDepth /\ ~Bad(w)
  <2>1. w \in From(v)[k + 1] /\ k + 1 \in Nat
    BY <1>2, MembersFrom
  <2>2. d + (k + 1) <= MaxDepth /\ ~Bad(w)
    BY <2>1 DEF Clean
  <2>3. QED
    BY <2>2
<1>3. QED
  BY <1>1, <1>2 DEF Clean

LEMMA CleanHigher ==
  ASSUME NEW v, NEW d \in Nat, NEW e \in Nat, d <= e, Clean(v, e)
  PROVE  Clean(v, d)
<1> SUFFICES ASSUME NEW k \in Nat, NEW w \in From(v)[k]
             PROVE  d + k <= MaxDepth /\ ~Bad(w)
  BY DEF Clean
<1>1. e + k <= MaxDepth /\ ~Bad(w)
  BY DEF Clean
<1>2. QED
  BY <1>1, DepthAssumption

(* The chain of Uids in front of it ends. *)
LEMMA CleanMeant ==
  ASSUME ArchiveIs, NEW v \in Values, NEW d \in Nat, Clean(v, d)
  PROVE  Meant(v) \in Values /\ ~Refers(Meant(v)) /\ Clean(Meant(v), d)
<1> DEFINE c == Chase(v)
           On(n) == \A j \in Nat : j < n => Refers(c[j])
           T == {n \in Nat : On(n) => Clean(c[n], d + n)}
<1>1. /\ c[0] = v /\ \A n \in Nat : c[n] \in Values
      /\ \A n \in Nat : Refers(c[n]) => c[n + 1] = Target(c[n])
  BY ChaseIs
<1> HIDE DEF c
<1>2. 0 \in T
  BY <1>1
<1>3. ASSUME NEW n \in Nat, n \in T PROVE n + 1 \in T
  <2> SUFFICES ASSUME On(n + 1) PROVE Clean(c[n + 1], d + (n + 1))
    OBVIOUS
  <2>1. On(n) /\ Refers(c[n])
    OBVIOUS
  <2>2. Clean(c[n], d + n) /\ c[n + 1] = Target(c[n]) /\ c[n] \in Values /\ d + n \in Nat
    BY <1>1, <1>3, <2>1
  <2>3. Target(c[n]) \in Rng(Members(c[n]))
    BY <2>1, <2>2, MembersOf
  <2>4. Clean(c[n + 1], (d + n) + 1)
    BY <2>2, <2>3, CleanMember
  <2>5. (d + n) + 1 = d + (n + 1)
    OBVIOUS
  <2>6. QED
    BY <2>4, <2>5
<1>4. \A n \in Nat : n \in T
  <2> HIDE DEF T
  <2>1. QED
    BY <1>2, <1>3, Induction
<1>5. \E n \in Nat : ~Refers(c[n])
  <2> SUFFICES ASSUME \A n \in Nat : Refers(c[n]) PROVE FALSE
    OBVIOUS
  <2> DEFINE n == MaxDepth + 1
  <2>1. n \in Nat /\ On(n)
    BY DepthAssumption
  <2>2. Clean(c[n], d + n) /\ c[n] \in Values /\ d + n \in Nat
    BY <1>1, <1>4, <2>1
  <2>3. d + n <= MaxDepth
    BY <2>2, CleanIsBounded
  <2>4. QED
    BY <2>3, DepthAssumption
<1> DEFINE Ends == {n \in Nat : ~Refers(c[n])}
<1>6. PICK n \in Ends : \A m \in Ends : n <= m
  <2>1. Ends # {} /\ Ends \subseteq Nat
    BY <1>5
  <2> HIDE DEF Ends
  <2>2. QED
    BY <2>1, LeastOf
<1>7. n \in Nat /\ ~Refers(c[n]) /\ On(n)
  <2>1. \A j \in Nat : j < n => ~(j \in Ends)
    BY <1>6
  <2>2. QED
    BY <1>6, <2>1
<1>8. Clean(c[n], d + n) /\ c[n] \in Values
  BY <1>1, <1>4, <1>7
<1>9. Meant(v) = c[n]
  BY <1>7, EndIsMeant DEF c
<1>10. d <= d + n /\ d + n \in Nat
  BY <1>7
<1>11. Clean(c[n], d)
  BY <1>8, <1>10, CleanHigher
<1>12. QED
  BY <1>7, <1>8, <1>9, <1>11

(* A clean dictionary: as many members as keys, and every key a string. *)
LEMMA CleanDict ==
  ASSUME ArchiveIs, NEW w \in Values, NEW d \in Nat, Clean(w, d), w.kind = "nsdict"
  PROVE  /\ Len(w.keys) = Len(w.objs)
         /\ \A i \in 1..Len(w.keys) : Meant(w.keys[i]).kind = "string"
         /\ \A i \in 1..Len(w.objs) :
              w.keys[i] \in Values /\ w.objs[i] \in Values /\ Clean(w.objs[i], d + 1)
<1>1. ~Bad(w)
  BY CleanIsBounded
<1>2. /\ Len(w.keys) = Len(w.objs)
      /\ \A i \in 1..Len(w.keys) : Meant(w.keys[i]).kind = "string"
  BY <1>1, ValueFields DEF Bad, Mismatched, BadlyKeyed
<1>3. \A i \in 1..Len(w.objs) : w.objs[i] \in Rng(Members(w)) /\ w.keys[i] \in Rng(Members(w))
  <2>1. Rng(Members(w)) = Rng(w.keys) \cup Rng(w.objs)
    BY <1>2, MembersOf
  <2>2. DOMAIN w.objs = 1..Len(w.objs) /\ DOMAIN w.keys = 1..Len(w.objs)
    BY <1>2, ValueFields
  <2>3. QED
    BY <2>1, <2>2 DEF Rng
<1>4. QED
  BY <1>2, <1>3, CleanMember

LEMMA CleanArray ==
  ASSUME ArchiveIs, NEW w \in Values, NEW d \in Nat, Clean(w, d), w.kind = "nsarray"
  PROVE  \A i \in 1..Len(w.objs) : w.objs[i] \in Values /\ Clean(w.objs[i], d + 1)
<1>1. DOMAIN w.objs = 1..Len(w.objs) /\ Rng(Members(w)) = Rng(w.objs)
  BY ValueFields, MembersOf
<1>2. \A i \in 1..Len(w.objs) : w.objs[i] \in Rng(Members(w))
  BY <1>1 DEF Rng
<1>3. QED
  BY <1>2, CleanMember

(* Only what its members mean matters to what a clean value is built of. *)
LEMMA BuiltAgrees ==
  ASSUME ArchiveIs, NEW w \in Values, NEW d \in Nat, Clean(w, d), NEW f, NEW g,
         \A x \in Values : Clean(x, d + 1) => f[x] = g[x]
  PROVE  Built(w, f) = Built(w, g)
<1>1. CASE w.kind = "nsarray"
  <2> DEFINE F == [i \in DOMAIN w.objs |-> f[w.objs[i]]]
             G == [i \in DOMAIN w.objs |-> g[w.objs[i]]]
  <2>1. DOMAIN w.objs = 1..Len(w.objs)
    BY ValueFields
  <2>2. \A i \in DOMAIN w.objs : f[w.objs[i]] = g[w.objs[i]]
    BY <1>1, <2>1, CleanArray
  <2>3. F = G
    BY <2>2
  <2>4. Built(w, f) = Tree("array", "", F, {}) /\ Built(w, g) = Tree("array", "", G, {})
    BY <1>1 DEF Built
  <2>5. QED
    BY <2>3, <2>4
<1>2. CASE w.kind = "nsdict"
  <2> DEFINE L == Len(w.objs)
  <2>1. /\ Len(w.keys) = L
        /\ \A i \in 1..Len(w.keys) : Meant(w.keys[i]).kind = "string"
        /\ \A i \in 1..L : w.objs[i] \in Values /\ Clean(w.objs[i], d + 1)
    BY <1>2, CleanDict
  <2>2. /\ Built(w, f) = Tree("dict", "", <<>>, Gather(w, L, f))
        /\ Built(w, g) = Tree("dict", "", <<>>, Gather(w, L, g))
    BY <1>2, <2>1, GatheredIsBuilt
  <2>3. \A i \in Lasts(w, L) : f[w.objs[i]] = g[w.objs[i]]
    BY <2>1 DEF Lasts
  <2>4. Gather(w, L, f) = Gather(w, L, g)
    BY <2>3 DEF Gather
  <2>5. QED
    BY <2>2, <2>4
<1>3. CASE w.kind \notin {"nsarray", "nsdict"}
  BY <1>3 DEF Built
<1>4. QED
  BY <1>1, <1>2, <1>3

(* Levels that differ but are deep enough agree. *)
Agree(k) ==
  \A d \in Nat, v \in Values, n \in Nat, m \in Nat :
     Clean(v, d) /\ d + k >= MaxDepth /\ n > k /\ m > k => Meaning[n][v] = Meaning[m][v]

LEMMA AgreeStep ==
  ASSUME ArchiveIs, NEW k \in Nat, k = 0 \/ Agree(k - 1) PROVE Agree(k)
<1> SUFFICES ASSUME NEW d \in Nat, NEW v \in Values, NEW n \in Nat, NEW m \in Nat,
                    Clean(v, d), d + k >= MaxDepth, n > k, m > k
             PROVE  Meaning[n][v] = Meaning[m][v]
  BY DEF Agree
<1> DEFINE w == Meant(v)
           n1 == n - 1
           m1 == m - 1
<1>1. n1 \in Nat /\ m1 \in Nat /\ n = n1 + 1 /\ m = m1 + 1
  OBVIOUS
<1>2. w \in Values /\ Clean(w, d)
  BY CleanMeant
<1>3. Meaning[n1 + 1][v] = Built(w, Meaning[n1]) /\ Meaning[m1 + 1][v] = Built(w, Meaning[m1])
  BY <1>1, MeaningIs
<1>4. ASSUME NEW x \in Values, Clean(x, d + 1) PROVE Meaning[n1][x] = Meaning[m1][x]
  <2>1. d + 1 <= MaxDepth
    BY <1>4, CleanIsBounded
  <2>2. k # 0 /\ k - 1 \in Nat /\ d + 1 \in Nat /\ (d + 1) + (k - 1) >= MaxDepth
        /\ n1 > k - 1 /\ m1 > k - 1
    BY <2>1, DepthAssumption
  <2>3. Agree(k - 1)
    BY <2>2
  <2> HIDE DEF n1, m1
  <2>4. QED
    BY <1>1, <1>4, <2>2, <2>3 DEF Agree
<1> HIDE DEF w, n1, m1
<1> DEFINE f == Meaning[n1]
           g == Meaning[m1]
<1>5. \A x \in Values : Clean(x, d + 1) => f[x] = g[x]
  BY <1>4
<1> HIDE DEF f, g
<1>6. Built(w, f) = Built(w, g)
  BY <1>2, <1>5, BuiltAgrees
<1>7. QED
  BY <1>1, <1>3, <1>6 DEF f, g

LEMMA MeaningIsStable ==
  ASSUME ArchiveIs, NEW v \in Values, NEW d \in Nat, Clean(v, d),
         NEW n \in Nat, n + d > MaxDepth
  PROVE  Meaning[n][v] = Means(v)
<1> DEFINE T == {k \in Nat : Agree(k)}
           k == MaxDepth - d
<1>1. 0 \in T
  BY AgreeStep
<1>2. ASSUME NEW i \in Nat, i \in T PROVE i + 1 \in T
  <2>1. i + 1 \in Nat /\ (i + 1) - 1 = i /\ Agree(i)
    BY <1>2
  <2>2. Agree(i + 1)
    BY <2>1, AgreeStep
  <2>3. QED
    BY <2>1, <2>2
<1>3. \A i \in Nat : i \in T
  <2> HIDE DEF T
  <2>1. QED
    BY <1>1, <1>2, Induction
<1>4. d <= MaxDepth
  BY CleanIsBounded
<1>5. k \in Nat /\ d + k >= MaxDepth /\ n > k /\ MaxDepth + 1 > k /\ MaxDepth + 1 \in Nat
  BY <1>4, DepthAssumption
<1>6. Agree(k)
  BY <1>3, <1>5
<1>7. QED
  BY <1>5, <1>6 DEF Agree, Means

-----------------------------------------------------------------------------
(* What a decoded dictionary holds under a key. *)

LEMMA LastPlaceIs ==
  ASSUME NEW w \in Values, NEW k, Places(w, k) # {}
  PROVE  /\ LastPlace(w, k) \in Places(w, k)
         /\ \A j \in Places(w, k) : j <= LastPlace(w, k)
         /\ Places(w, k) \subseteq 1..Len(w.keys)
<1> DEFINE L == Len(w.keys)
           P == Places(w, k)
           T == {L - j : j \in P}
<1>1. L \in Nat /\ P \subseteq 1..L
  BY ValueFields DEF Places
<1>2. LastPlace(w, k) = CHOOSE i \in P : \A j \in P : j <= i
  BY DEF LastPlace
<1> HIDE DEF P, L
<1>3. P # {}
  BY DEF P
<1>4. T \subseteq Nat /\ T # {}
  <2>1. \A j \in P : L - j \in Nat
    BY <1>1
  <2>2. QED
    BY <1>3, <2>1
<1>5. PICK x \in T : \A y \in T : x <= y
  BY <1>4, LeastOf
<1>6. PICK i \in P : x = L - i
  BY <1>5
<1>7. \A j \in P : j <= i
  <2> SUFFICES ASSUME NEW j \in P PROVE j <= i
    OBVIOUS
  <2>1. L - j \in T
    OBVIOUS
  <2>2. L - i <= L - j
    BY <1>5, <1>6, <2>1
  <2>3. i \in Nat /\ j \in Nat
    BY <1>1
  <2>4. QED
    BY <1>1, <2>2, <2>3
<1>8. \E y \in P : \A j \in P : j <= y
  BY <1>7
<1>9. LastPlace(w, k) \in P /\ \A j \in P : j <= LastPlace(w, k)
  BY <1>2, <1>8
<1>10. QED
  BY <1>1, <1>9 DEF P, L

LEMMA UnderIs ==
  ASSUME ArchiveIs, NEW w \in Values, NEW d \in Nat, Clean(w, d), w.kind = "nsdict",
         NEW u, NEW k
  PROVE  /\ Places(w, k) = {} => Under(Built(w, u), k) = {}
         /\ Places(w, k) # {} =>
              /\ Under(Built(w, u), k) = {u[w.objs[LastPlace(w, k)]]}
              /\ LastPlace(w, k) \in 1..Len(w.objs)
<1> DEFINE E(n) == Entry(n, u[w.objs[LastPlace(w, n)]])
           es == {E(n) : n \in Names(w)}
<1>1. /\ Len(w.keys) = Len(w.objs)
      /\ \A i \in 1..Len(w.keys) : Meant(w.keys[i]).kind = "string"
  BY CleanDict
<1>2. Built(w, u) = Tree("dict", "", <<>>, es)
  BY DEF Built
<1>3. Entries(Built(w, u)) = es
  <2> DEFINE b == Built(w, u)
  <2>1. b = Tree("dict", "", <<>>, es)
    BY <1>2
  <2> HIDE DEF b, es
  <2>2. Entries(b) = es
    <3>1. \A a, n, is, x : b = Tree(a, n, is, x) => Entries(b) = x
      BY TreeReads
    <3>2. QED
      BY <2>1, <3>1, Zenon
  <2>3. QED
    BY <2>2 DEF b
<1>4. \A n : E(n).key = n /\ E(n).tree = u[w.objs[LastPlace(w, n)]]
  BY DEF Entry
<1>5. k \in Names(w) <=> Places(w, k) # {}
  <2>1. DOMAIN w.keys = 1..Len(w.keys)
    BY ValueFields
  <2>2. QED
    BY <1>1, <2>1 DEF Names, Places, IsKey
<1> HIDE DEF E
<1>6. Under(Built(w, u), k) = {e.tree : e \in {f \in es : f.key = k}}
  BY <1>3 DEF Under
<1>7. {f \in es : f.key = k} = IF k \in Names(w) THEN {E(k)} ELSE {}
  BY <1>4
<1>8. CASE Places(w, k) = {}
  BY <1>5, <1>6, <1>7, <1>8
<1>9. CASE Places(w, k) # {}
  <2>1. LastPlace(w, k) \in 1..Len(w.objs)
    BY <1>1, <1>9, LastPlaceIs
  <2>2. Under(Built(w, u), k) = {E(k).tree}
    BY <1>5, <1>6, <1>7, <1>9
  <2>3. QED
    BY <1>4, <1>9, <2>1, <2>2
<1>10. QED
  BY <1>8, <1>9

(* What a key of the root means, decoded. *)
LEMMA HeldIs ==
  ASSUME ArchiveIs, NEW w \in Values, NEW d \in Nat, Clean(w, d), w.kind = "nsdict",
         NEW k, Places(w, k) # {}
  PROVE  LET o == w.objs[LastPlace(w, k)]
         IN  /\ MaxDepth - 1 \in Nat
             /\ Under(Built(w, Meaning[MaxDepth]), k)
                  = {Built(Meant(o), Meaning[MaxDepth - 1])}
             /\ Meant(o) \in Values /\ Clean(Meant(o), d + 1)
<1> DEFINE i == LastPlace(w, k)
           o == w.objs[i]
           n == MaxDepth - 1
<1>1. i \in 1..Len(w.objs) /\ Under(Built(w, Meaning[MaxDepth]), k) = {Meaning[MaxDepth][o]}
  BY UnderIs
<1>2. o \in Values /\ Clean(o, d + 1) /\ d + 1 \in Nat
  BY <1>1, CleanDict
<1>3. d + 1 <= MaxDepth
  BY <1>2, CleanIsBounded
<1>4. n \in Nat /\ MaxDepth = n + 1
  BY <1>3, DepthAssumption
<1> HIDE DEF n, o
<1>5. Meaning[n + 1][o] = Built(Meant(o), Meaning[n])
  BY <1>2, <1>4, MeaningIs
<1>6. Meant(o) \in Values /\ Clean(Meant(o), d + 1)
  BY <1>2, CleanMeant
<1>7. Meaning[MaxDepth][o] = Built(Meant(o), Meaning[n])
  BY <1>4, <1>5
<1>8. QED
  BY <1>1, <1>4, <1>6, <1>7 DEF n, o

-----------------------------------------------------------------------------
(* The stages of a pipeline. *)

(* What a value that was decoded shows. *)
LEMMA BuiltKind ==
  ASSUME NEW w, NEW u
  PROVE  /\ w.kind = "nsarray" =>
              Built(w, u) = Tree("array", "", [i \in DOMAIN w.objs |-> u[w.objs[i]]], {})
         /\ w.kind = "array" => Built(w, u) = Standing("array", w)
         /\ w.kind = "dict" => Built(w, u) = Standing("dict", w)
         /\ w.kind \notin {"nsarray", "array"} => Built(w, u).kind # "array"
<1>1. ASSUME w.kind = "nsarray"
      PROVE  Built(w, u) = Tree("array", "", [i \in DOMAIN w.objs |-> u[w.objs[i]]], {})
  BY <1>1 DEF Built
<1>2. w.kind \notin {"nsarray", "nsdict"} => Built(w, u) = AsIs(w)
  BY DEF Built
<1>3. w.kind = "array" => Built(w, u) = Standing("array", w)
  BY <1>2, AsIsKind
<1>4. w.kind = "dict" => Built(w, u) = Standing("dict", w)
  BY <1>2, AsIsKind
<1>5. ASSUME w.kind = "nsdict" PROVE Built(w, u).kind # "array"
  <2>1. w.kind # "nsarray"
    BY <1>5
  <2>2. PICK x : Built(w, u) = Tree("dict", "", <<>>, x)
    BY <1>5, <2>1, Zenon DEF Built
  <2> DEFINE b == Built(w, u)
  <2>3. b = Tree("dict", "", <<>>, x)
    BY <2>2
  <2> HIDE DEF b
  <2>4. b.kind = "dict"
    BY <2>3, TreeKind, Zenon
  <2>5. QED
    BY <2>4 DEF b
<1>6. w.kind \notin {"nsarray", "nsdict", "array"} => Built(w, u).kind # "array"
  BY <1>2, AsIsKind
<1>7. QED
  BY <1>1, <1>3, <1>4, <1>5, <1>6

(* A plain dictionary holds one value, if any, under a key. *)
LEMMA PlainRoot ==
  ASSUME NEW w \in Values, w.kind = "dict", NEW u, NEW k
  PROVE  /\ PlainPlaces(w, k) = {} => Under(Built(w, u), k) = {}
         /\ PlainPlaces(w, k) # {} =>
              /\ Under(Built(w, u), k) = {AsIs(HeldAt(w, k))}
              /\ HeldAt(w, k) \in Values
<1> DEFINE E(i) == Entry(w.keys[i].name, AsIs(w.objs[i]))
           es == {E(i) : i \in DOMAIN w.objs}
           P == PlainPlaces(w, k)
<1>1. Built(w, u) = Standing("dict", w)
  BY BuiltKind
<1>2. Entries(Built(w, u)) = es
  BY <1>1, StandingReads
<1>3. \A i : E(i).key = w.keys[i].name /\ E(i).tree = AsIs(w.objs[i])
  BY DEF Entry
<1> HIDE DEF E
<1>4. Under(Built(w, u), k) = {e.tree : e \in {f \in es : f.key = k}}
  BY <1>2 DEF Under
<1>5. P = {i \in DOMAIN w.objs : w.keys[i].name = k}
  BY DEF PlainPlaces
<1> HIDE DEF P
<1>6. {f \in es : f.key = k} = {E(i) : i \in P}
  BY <1>3, <1>5
<1>7. CASE P = {}
  BY <1>4, <1>6, <1>7 DEF P
<1>8. CASE P # {}
  <2> DEFINE p == CHOOSE i \in P : TRUE
  <2>1. p \in P
    BY <1>8
  <2>2. HeldAt(w, k) = w.objs[p]
    <3>1. w.kind # "nsdict" /\ PlainPlaces(w, k) # {}
      BY <1>8 DEF P
    <3>2. QED
      BY <3>1 DEF HeldAt, P
  <2> HIDE DEF p
  <2>3. DOMAIN w.objs = DOMAIN w.keys
    <3>1. Len(w.keys) = Len(w.objs)
      BY ArchiveAssumption DEF Keyed
    <3>2. QED
      BY <3>1, ValueFields
  <2>4. \A i \in P : i = p
    <3>1. \A i, j \in DOMAIN w.keys : w.keys[i].name = w.keys[j].name => i = j
      BY ArchiveAssumption DEF Keyed
    <3>2. QED
      BY <1>5, <2>1, <2>3, <3>1
  <2>5. P = {p}
    BY <2>1, <2>4
  <2>6. {E(i) : i \in P} = {E(p)}
    BY <2>5
  <2>7. Under(Built(w, u), k) = {E(p).tree}
    BY <1>4, <1>6, <2>6
  <2>8. w.objs[p] \in Values
    BY <1>5, <2>1, ValueFields
  <2>9. QED
    BY <1>3, <1>8, <2>2, <2>7, <2>8 DEF P
<1>9. QED
  BY <1>7, <1>8 DEF P

LEMMA FunctionIsSeq ==
  ASSUME NEW n \in Nat, NEW f, f = [i \in 1..n |-> f[i]]
  PROVE  (\E S : f \in Seq(S)) /\ Len(f) = n /\ DOMAIN f = 1..n
<1> DEFINE S == {f[i] : i \in 1..n}
<1>1. f \in [1..n -> S]
  OBVIOUS
<1> HIDE DEF S
<1>2. f \in Seq(S) /\ Len(f) = n
  BY <1>1
<1>3. QED
  BY <1>1, <1>2

LEMMA EachAsIsIs ==
  ASSUME NEW v \in Values
  PROVE  /\ \E S : EachAsIs(v.objs) \in Seq(S)
         /\ Len(EachAsIs(v.objs)) = Len(v.objs)
         /\ \A i \in 1..Len(v.objs) : EachAsIs(v.objs)[i] = AsIs(v.objs[i])
<1> DEFINE f == EachAsIs(v.objs)
           n == Len(v.objs)
<1>1. n \in Nat /\ DOMAIN v.objs = 1..n
  BY ValueFields
<1>2. f = [i \in 1..n |-> AsIs(v.objs[i])]
  BY <1>1 DEF EachAsIs
<1>3. f = [i \in 1..n |-> f[i]] /\ \A i \in 1..n : f[i] = AsIs(v.objs[i])
  BY <1>2
<1> HIDE DEF f, n
<1>4. (\E S : f \in Seq(S)) /\ Len(f) = n
  BY <1>1, <1>3, FunctionIsSeq
<1>5. QED
  BY <1>3, <1>4 DEF f, n

(* What a key of the root leads to in the tree: nothing, when the archive  *)
(* has nothing there; else one tree, an array exactly if the reference     *)
(* counts its members, and then these, decoded or as they stand.           *)
OneTree(w, k, x) ==
  LET h == HeldAt(w, k)
      n == Len(h.objs)
  IN  /\ h.kind \in ArrayKinds(w) =>
           /\ x.kind = "array" /\ \E S : Items(x) \in Seq(S)
           /\ n \in Nat /\ Len(Items(x)) = n
           /\ \A i \in 1..n : Items(x)[i] = MemberAt(w, k, i)
      /\ h.kind \notin ArrayKinds(w) => x.kind # "array"

LEMMA RootReads ==
  ASSUME ArchiveIs, NEW w \in Values, NEW d \in Nat, Clean(w, d),
         w.kind \in {"nsdict", "dict"}, NEW k
  PROVE  LET T == Under(Built(w, Meaning[MaxDepth]), k)
         IN  \/ T = {} /\ HeldAt(w, k).kind \notin ArrayKinds(w)
             \/ \E x : T = {x} /\ OneTree(w, k, x)
<1> DEFINE T == Under(Built(w, Meaning[MaxDepth]), k)
           h == HeldAt(w, k)
           n == Len(h.objs)
<1>1. \A v \in {"nsarray", "array"} : v # "other"
  OBVIOUS
<1>2. ASSUME T = {}, h = Other
      PROVE  T = {} /\ h.kind \notin ArrayKinds(w)
  BY <1>2, OtherKind DEF ArrayKinds
<1>3. CASE w.kind = "dict"
  <2>0. ArrayKinds(w) = {"array"} /\ w.kind # "nsdict"
    BY <1>3 DEF ArrayKinds
  <2>1. CASE PlainPlaces(w, k) = {}
    <3>1. T = {}
      BY <1>3, <2>1, PlainRoot
    <3>2. h = Other
      BY <2>0, <2>1 DEF HeldAt
    <3>3. QED
      BY <1>2, <3>1, <3>2
  <2>2. CASE PlainPlaces(w, k) # {}
    <3> DEFINE x == AsIs(h)
    <3>1. T = {x} /\ h \in Values
      BY <1>3, <2>2, PlainRoot
    <3>2. n \in Nat
      BY <3>1, ValueFields
    <3>3. ASSUME h.kind = "array"
          PROVE  /\ x.kind = "array" /\ Items(x) = EachAsIs(h.objs)
                 /\ \A i : MemberAt(w, k, i) = AsIs(h.objs[i])
      <4>1. x = Standing("array", h)
        BY <3>3, AsIsKind
      <4>2. h.kind # "nsarray"
        BY <3>3
      <4> HIDE DEF x
      <4>3. x.kind = "array" /\ Items(x) = EachAsIs(h.objs)
        BY <3>3, <4>1, StandingReads
      <4>4. QED
        BY <4>2, <4>3 DEF MemberAt
    <3>4. h.kind # "array" => x.kind # "array"
      BY AsIsKind
    <3>5. /\ \E S : EachAsIs(h.objs) \in Seq(S)
          /\ Len(EachAsIs(h.objs)) = n
          /\ \A i \in 1..n : EachAsIs(h.objs)[i] = AsIs(h.objs[i])
      BY <3>1, EachAsIsIs
    <3> HIDE DEF x
    <3>6. OneTree(w, k, x)
      BY <2>0, <3>2, <3>3, <3>4, <3>5 DEF OneTree
    <3>7. QED
      BY <3>1, <3>6
  <2>3. QED
    BY <2>1, <2>2
<1>4. CASE w.kind = "nsdict" /\ Places(w, k) = {}
  <2>1. T = {}
    BY <1>4, UnderIs
  <2>2. w.kind # "dict"
    BY <1>4
  <2>3. h = Other
    BY <1>4, <2>2 DEF HeldAt
  <2>4. QED
    BY <1>2, <2>1, <2>3
<1>5. CASE w.kind = "nsdict" /\ Places(w, k) # {}
  <2> DEFINE u == Meaning[MaxDepth - 1]
             x == Built(h, u)
  <2>0. ArrayKinds(w) = {"nsarray", "array"}
    BY <1>5 DEF ArrayKinds
  <2>1. h = Meant(w.objs[LastPlace(w, k)])
    BY <1>5 DEF HeldAt
  <2>2. T = {x} /\ h \in Values /\ Clean(h, d + 1) /\ MaxDepth - 1 \in Nat
    BY <1>5, <2>1, HeldIs
  <2>3. n \in Nat /\ DOMAIN h.objs = 1..n
    BY <2>2, ValueFields
  <2>4. CASE h.kind = "nsarray"
    <3> DEFINE f == [i \in DOMAIN h.objs |-> u[h.objs[i]]]
    <3>1. x = Tree("array", "", f, {})
      BY <2>4, BuiltKind
    <3>2. \A i \in 1..n : f[i] = u[h.objs[i]]
      BY <2>3
    <3>3. f = [i \in 1..n |-> f[i]]
      BY <2>3
    <3>4. \A i \in 1..n : MemberAt(w, k, i) = u[h.objs[i]]
      <4> SUFFICES ASSUME NEW i \in 1..n PROVE MemberAt(w, k, i) = u[h.objs[i]]
        OBVIOUS
      <4> DEFINE o == h.objs[i]
      <4>1. o \in Values /\ Clean(o, (d + 1) + 1) /\ (d + 1) + 1 \in Nat
        BY <2>2, <2>4, CleanArray
      <4>2. (MaxDepth - 1) + ((d + 1) + 1) > MaxDepth
        BY <2>2, DepthAssumption
      <4>3. MemberAt(w, k, i) = Means(o)
        BY <2>4 DEF MemberAt
      <4> HIDE DEF o, h
      <4>4. Meaning[MaxDepth - 1][o] = Means(o)
        BY <2>2, <4>1, <4>2, MeaningIsStable
      <4>5. QED
        BY <4>3, <4>4 DEF o
    <3> HIDE DEF x, f, u
    <3>5. x.kind = "array" /\ Items(x) = f
      <4>1. \A a, b, is, es : x = Tree(a, b, is, es) => x.kind = a /\ Items(x) = is
        BY TreeReads
      <4>2. QED
        BY <3>1, <4>1, Zenon
    <3> HIDE DEF n
    <3>6. (\E S : f \in Seq(S)) /\ Len(f) = n
      BY <2>3, <3>3, FunctionIsSeq
    <3>7. OneTree(w, k, x)
      BY <2>0, <2>3, <2>4, <3>2, <3>4, <3>5, <3>6 DEF OneTree, n
    <3>8. QED
      BY <2>2, <3>7
  <2>5. CASE h.kind = "array"
    <3>1. x = Standing("array", h)
      BY <2>5, BuiltKind
    <3> HIDE DEF x
    <3>2. x.kind = "array" /\ Items(x) = EachAsIs(h.objs)
      BY <2>5, <3>1, StandingReads
    <3>3. \A i : MemberAt(w, k, i) = AsIs(h.objs[i])
      <4>1. h.kind # "nsarray"
        BY <2>5
      <4>2. QED
        BY <4>1 DEF MemberAt
    <3>4. /\ \E S : EachAsIs(h.objs) \in Seq(S)
          /\ Len(EachAsIs(h.objs)) = n
          /\ \A i \in 1..n : EachAsIs(h.objs)[i] = AsIs(h.objs[i])
      BY <2>2, EachAsIsIs
    <3>5. OneTree(w, k, x)
      BY <2>0, <2>3, <2>5, <3>2, <3>3, <3>4 DEF OneTree
    <3>6. QED
      BY <2>2, <3>5
  <2>6. CASE h.kind \notin {"nsarray", "array"}
    <3>1. x.kind # "array"
      BY <2>6, BuiltKind
    <3> HIDE DEF x
    <3>2. OneTree(w, k, x)
      BY <2>0, <2>6, <3>1 DEF OneTree
    <3>3. QED
      BY <2>2, <3>2
  <2>7. QED
    BY <2>4, <2>5, <2>6
<1>6. QED
  BY <1>3, <1>4, <1>5

(* A key's array has as many entries as the archive has members there. *)
LEMMA StageArrayIs ==
  ASSUME ArchiveIs, NEW w \in Values, NEW d \in Nat, Clean(w, d),
         w.kind \in {"nsdict", "dict"}, NEW k
  PROVE  LET s == StageArray(Built(w, Meaning[MaxDepth]), k)
         IN  (\E S : s \in Seq(S)) /\ Len(s) = Count(w, k)
<1> DEFINE T == Under(Built(w, Meaning[MaxDepth]), k)
           A == {t \in T : t.kind = "array"}
           s == StageArray(Built(w, Meaning[MaxDepth]), k)
           h == HeldAt(w, k)
<1>1. s = IF A = {} THEN <<>> ELSE Items(CHOOSE t \in A : TRUE)
  BY DEF StageArray
<1>2. \/ T = {} /\ h.kind \notin ArrayKinds(w)
      \/ \E x : T = {x} /\ OneTree(w, k, x)
  BY RootReads
<1>3. <<>> \in Seq({}) /\ Len(<<>>) = 0
  OBVIOUS
<1> SUFFICES (\E S : s \in Seq(S)) /\ Len(s) = Count(w, k)
  OBVIOUS
<1> HIDE DEF T, s, h
<1>4. ASSUME A = {}, h.kind \notin ArrayKinds(w)
      PROVE  (\E S : s \in Seq(S)) /\ Len(s) = Count(w, k)
  BY <1>1, <1>3, <1>4 DEF Count, h
<1>5. CASE T = {} /\ h.kind \notin ArrayKinds(w)
  BY <1>4, <1>5
<1>6. ASSUME NEW x, T = {x}, OneTree(w, k, x)
      PROVE  (\E S : s \in Seq(S)) /\ Len(s) = Count(w, k)
  <2>1. CASE h.kind \in ArrayKinds(w)
    <3>1. /\ x.kind = "array" /\ \E S : Items(x) \in Seq(S)
          /\ Len(Items(x)) = Len(h.objs)
      BY <1>6, <2>1 DEF OneTree, h
    <3>2. A = {x}
      BY <1>6, <3>1
    <3> HIDE DEF A
    <3>3. s = Items(x)
      BY <1>1, <3>2
    <3>4. Count(w, k) = Len(h.objs)
      BY <2>1 DEF Count, h
    <3>5. QED
      BY <3>1, <3>3, <3>4
  <2>2. CASE h.kind \notin ArrayKinds(w)
    <3>1. x.kind # "array"
      BY <1>6, <2>2 DEF OneTree, h
    <3>2. A = {}
      BY <1>6, <3>1
    <3>3. QED
      BY <1>4, <2>2, <3>2
  <2>3. QED
    BY <2>1, <2>2
<1>7. QED
  BY <1>2, <1>5, <1>6

LEMMA ConcatFacts ==
  ASSUME NEW S, NEW s \in Seq(S), NEW T, NEW t \in Seq(T)
  PROVE  /\ s \o t \in Seq(S \cup T)
         /\ Len(s \o t) = Len(s) + Len(t) /\ Len(s) \in Nat /\ Len(t) \in Nat
         /\ \A i \in DOMAIN s : i \in DOMAIN (s \o t) /\ (s \o t)[i] = s[i]
         /\ \A i \in DOMAIN t : /\ Len(s) + i \in DOMAIN (s \o t)
                                /\ (s \o t)[Len(s) + i] = t[i]
<1>1. s \in Seq(S \cup T) /\ t \in Seq(S \cup T)
  OBVIOUS
<1> DEFINE U == S \cup T
<1> HIDE DEF U
<1>2. s \in Seq(U) /\ t \in Seq(U)
  BY <1>1 DEF U
<1>3. /\ s \o t \in Seq(U)
      /\ Len(s \o t) = Len(s) + Len(t) /\ Len(s) \in Nat /\ Len(t) \in Nat
      /\ DOMAIN s = 1..Len(s) /\ DOMAIN t = 1..Len(t)
      /\ DOMAIN (s \o t) = 1..(Len(s) + Len(t))
  BY <1>2
<1>4. ASSUME NEW i \in DOMAIN s PROVE i \in DOMAIN (s \o t) /\ (s \o t)[i] = s[i]
  BY <1>2, <1>3
<1>5. ASSUME NEW i \in DOMAIN t
      PROVE  Len(s) + i \in DOMAIN (s \o t) /\ (s \o t)[Len(s) + i] = t[i]
  BY <1>2, <1>3
<1>6. QED
  BY <1>3, <1>4, <1>5 DEF U

AllStages(s) == \A i \in DOMAIN s : IsStage(s[i])

LEMMA AllStagesOf ==
  ASSUME NEW S, NEW s \in Seq(S), NEW T, NEW t \in Seq(T), AllStages(s \o t)
  PROVE  AllStages(s) /\ AllStages(t)
<1>1. ASSUME NEW i \in DOMAIN s PROVE IsStage(s[i])
  <2>1. i \in DOMAIN (s \o t) /\ (s \o t)[i] = s[i]
    BY ConcatFacts
  <2>2. IsStage((s \o t)[i])
    BY <2>1 DEF AllStages
  <2>3. QED
    BY <2>1, <2>2
<1>2. ASSUME NEW i \in DOMAIN t PROVE IsStage(t[i])
  <2>1. Len(s) + i \in DOMAIN (s \o t) /\ (s \o t)[Len(s) + i] = t[i]
    BY ConcatFacts
  <2>2. IsStage((s \o t)[Len(s) + i])
    BY <2>1 DEF AllStages
  <2>3. QED
    BY <2>1, <2>2
<1>3. QED
  BY <1>1, <1>2 DEF AllStages

LEMMA StatsIs ==
  ASSUME ArchiveIs, NEW w \in Values, NEW d \in Nat, Clean(w, d),
         w.kind \in {"nsdict", "dict"},
         NEW t \in Stats(Built(w, Meaning[MaxDepth]))
  PROVE  /\ Count(w, "PerformanceStatistics") = 1
         /\ t = MemberAt(w, "PerformanceStatistics", 1)
<1> DEFINE k == "PerformanceStatistics"
           T == Under(Built(w, Meaning[MaxDepth]), k)
           h == HeldAt(w, k)
<1>1. PICK y \in T : y.kind = "array" /\ Len(Items(y)) = 1 /\ t = Items(y)[1]
  BY DEF Stats
<1>2. \/ T = {} /\ h.kind \notin ArrayKinds(w)
      \/ \E x : T = {x} /\ OneTree(w, k, x)
  BY RootReads
<1> HIDE DEF T, h
<1>3. OneTree(w, k, y)
  BY <1>1, <1>2
<1>4. h.kind \in ArrayKinds(w)
  BY <1>1, <1>3 DEF OneTree, h
<1>5. /\ Len(Items(y)) = Len(h.objs)
      /\ \A i \in 1..Len(h.objs) : Items(y)[i] = MemberAt(w, k, i)
  BY <1>3, <1>4, Zenon DEF OneTree, h
<1>6. Len(h.objs) = 1
  BY <1>1, <1>5
<1>7. Items(y)[1] = MemberAt(w, k, 1)
  BY <1>5, <1>6
<1>8. Count(w, k) = 1
  BY <1>4, <1>6 DEF Count, h
<1>9. QED
  BY <1>1, <1>7, <1>8

(* A pipeline that decodes has all the stages its archive holds, and the   *)
(* statistics are of the only member of their array.                       *)
THEOREM TheStagesAreComplete == Spec => []StagesComplete
<1>1. ASSUME DecodingInv, verdict = "Ok"
      PROVE  /\ Stages(reg.tree).ok =>
                  Len(Stages(reg.tree).stages)
                    = Count(Meant(root), "vertex") + Count(Meant(root), "fragment")
                        + Count(Meant(root), "compute")
             /\ \A t \in Stats(reg.tree) :
                  /\ Count(Meant(root), "PerformanceStatistics") = 1
                  /\ t = MemberAt(Meant(root), "PerformanceStatistics", 1)
  <2> DEFINE w == Meant(root)
             tree == Built(w, Meaning[MaxDepth])
             a == StageArray(tree, "vertex")
             b == StageArray(tree, "fragment")
             c == StageArray(tree, "compute")
             all == a \o b \o c
  <2>1. ArchiveIs /\ root \in Values /\ Clean(root, 0) /\ 0 \in Nat
        /\ reg.tree = tree /\ w.kind \in {"nsdict", "dict"}
    BY <1>1, OkMeans DEF ArchiveIs
  <2>2. w \in Values /\ Clean(w, 0)
    BY <2>1, CleanMeant
  <2> HIDE DEF w
  <2>3. /\ \E S : a \in Seq(S)
        /\ AllStages(a) => Len(a) = Count(w, "vertex")
    BY <2>1, <2>2, StageArrayIs DEF AllStages
  <2>4. /\ \E S : b \in Seq(S)
        /\ AllStages(b) => Len(b) = Count(w, "fragment")
    BY <2>1, <2>2, StageArrayIs DEF AllStages
  <2>5. /\ \E S : c \in Seq(S)
        /\ AllStages(c) => Len(c) = Count(w, "compute")
    BY <2>1, <2>2, StageArrayIs DEF AllStages
  <2>6. Stages(tree) = IF AllStages(all) THEN [ok |-> TRUE, stages |-> all]
                                         ELSE [ok |-> FALSE, stages |-> <<>>]
    BY DEF Stages, StageKeys, AllStages
  <2>7. \A t \in Stats(tree) : /\ Count(w, "PerformanceStatistics") = 1
                               /\ t = MemberAt(w, "PerformanceStatistics", 1)
    BY <2>1, <2>2, StatsIs
  <2> HIDE DEF tree, a, b, c
  <2>8. ASSUME AllStages(all)
        PROVE  Len(all) = Count(w, "vertex") + Count(w, "fragment") + Count(w, "compute")
    <3>1. PICK S : a \in Seq(S)
      BY <2>3
    <3>2. PICK T : b \in Seq(T)
      BY <2>4
    <3>3. PICK U : c \in Seq(U)
      BY <2>5
    <3> DEFINE ab == a \o b
    <3>4. ab \in Seq(S \cup T) /\ Len(ab) = Len(a) + Len(b)
      BY <3>1, <3>2, ConcatFacts
    <3>5. AllStages(ab \o c)
      BY <2>8
    <3> HIDE DEF ab
    <3>6. AllStages(ab) /\ AllStages(c) /\ Len(ab \o c) = Len(ab) + Len(c)
      <4> DEFINE V == S \cup T
      <4>1. ab \in Seq(V) /\ c \in Seq(U)
        BY <3>3, <3>4
      <4> HIDE DEF V
      <4>2. AllStages(ab) /\ AllStages(c)
        BY <3>5, <4>1, AllStagesOf
      <4>3. Len(ab \o c) = Len(ab) + Len(c)
        BY <4>1, ConcatFacts
      <4>4. QED
        BY <4>2, <4>3
    <3>7. AllStages(a) /\ AllStages(b)
      BY <3>1, <3>2, <3>6, AllStagesOf DEF ab
    <3>8. Len(all) = Len(ab) + Len(c)
      BY <3>6 DEF ab
    <3>9. QED
      BY <2>3, <2>4, <2>5, <3>4, <3>6, <3>7, <3>8
  <2> HIDE DEF all
  <2>9. ASSUME Stages(tree).ok
        PROVE  AllStages(all) /\ Stages(tree).stages = all
    <3>1. AllStages(all)
      BY <2>6, <2>9
    <3>2. QED
      BY <2>6, <3>1
  <2>10. QED
    BY <2>1, <2>7, <2>8, <2>9 DEF w
<1>2. DecodingInv => StagesComplete
  <2>1. SUFFICES ASSUME DecodingInv, verdict = "Ok" PROVE StagesComplete
    BY DEF StagesComplete
  <2>2. QED
    BY <1>1, <2>1 DEF StagesComplete
<1>3. QED
  BY <1>2, Decoding, PTL

-----------------------------------------------------------------------------
(* The reader of reply.rs, next to the general one.                        *)

SpelledThere(j) == Resolve(Payload.keys[j]).name
ReadThere(k, j) == Reading(k, Resolve(Payload.objs[j]))

LastRead(k, n, j) ==
  /\ j \in 1..(n - 1) /\ SpelledThere(j) = k
  /\ \A i \in 1..(n - 1) : i > j => SpelledThere(i) # k

(* Before its n-th turn the loop holds, for each key, what was read at its *)
(* last occurrence, if there was one.                                      *)
ReadSoFar(n, fd) ==
  /\ Payload.kind = "nsdict" /\ Len(Payload.keys) = Len(Payload.objs)
  /\ n <= Len(Payload.objs) + 1
  /\ \A j \in 1..(n - 1) : Resolve(Payload.keys[j]).kind = "string"
  /\ \A k \in Wanted :
       fd[k] # Missing => \E j \in Nat : LastRead(k, n, j) /\ fd[k] = ReadThere(k, j)

EnvelopeHolds(n, fd, ps) ==
  /\ n \in Nat
  /\ fd = [k \in Wanted |-> fd[k]]
  /\ n = 0 => \A k \in Wanted : fd[k] = Missing
  /\ n > 0 => ReadSoFar(n, fd)
  /\ ps = "Ok" => /\ n > 0 /\ n > Len(Payload.objs)
                  /\ \A k \in Wanted : fd[k] # Missing

EnvelopeInv == EnvelopeHolds(step, found, parse)

LEMMA PayloadIsValue ==
  ASSUME ArchiveIs, Payload.kind = "nsdict"
  PROVE  /\ Payload \in Values /\ Len(Payload.objs) \in Nat
         /\ DOMAIN Payload.objs = 1..Len(Payload.objs)
         /\ DOMAIN Payload.keys = 1..Len(Payload.keys)
<1>1. Payload \in Values
  <2>1. CASE root.kind # "uid"
    BY <2>1 DEF Payload, Resolve, ArchiveIs
  <2>2. CASE root.kind = "uid" /\ InObjects(root)
    <3>1. Refers(root) /\ root \in Values
      BY <2>2 DEF Refers, ArchiveIs
    <3>2. QED
      BY <2>2, <3>1, TargetIsValue DEF Payload, Resolve
  <2>3. CASE root.kind = "uid" /\ ~InObjects(root)
    BY <2>3, OtherKind DEF Payload, Resolve
  <2>4. QED
    BY <2>1, <2>2, <2>3
<1>2. QED
  BY <1>1, ValueFields

LEMMA InitEnvelopeHolds == InitEnvelope => EnvelopeInv
<1> SUFFICES ASSUME InitEnvelope PROVE EnvelopeInv
  OBVIOUS
<1>1. step = 0 /\ parse = "running" /\ found = [k \in Wanted |-> Missing]
  BY DEF InitEnvelope
<1>2. \A k \in Wanted : found[k] = Missing
  BY <1>1
<1>3. found = [k \in Wanted |-> found[k]]
  BY <1>1
<1>4. QED
  BY <1>1, <1>2, <1>3 DEF EnvelopeInv, EnvelopeHolds

LEMMA RejectHolds ==
  ASSUME EnvelopeInv, Reject PROVE EnvelopeHolds(step', found', parse')
  BY DEF EnvelopeInv, EnvelopeHolds, Reject

LEMMA ReadRootHolds ==
  ASSUME ArchiveIs, EnvelopeInv, ReadRoot PROVE EnvelopeHolds(step', found', parse')
<1>1. /\ step = 0 /\ parse = "running" /\ \A k \in Wanted : found[k] = Missing
      /\ found = [k \in Wanted |-> found[k]]
  BY DEF ReadRoot, EnvelopeInv, EnvelopeHolds
<1>2. CASE Payload.kind = "nsdict" /\ Len(Payload.keys) = Len(Payload.objs)
  <2>1. step' = 1 /\ parse' = parse /\ found' = found
    BY <1>2 DEF ReadRoot
  <2>2. ReadSoFar(1, found)
    <3>1. Len(Payload.objs) \in Nat /\ 1..(1 - 1) = {}
      BY <1>2, PayloadIsValue
    <3>2. QED
      BY <1>1, <1>2, <3>1 DEF ReadSoFar
  <2>3. QED
    BY <1>1, <2>1, <2>2 DEF EnvelopeHolds
<1>3. CASE ~(Payload.kind = "nsdict" /\ Len(Payload.keys) = Len(Payload.objs))
  BY <1>3, RejectHolds DEF ReadRoot
<1>4. QED
  BY <1>2, <1>3

LEMMA FinishParseHolds ==
  ASSUME EnvelopeInv, FinishParse PROVE EnvelopeHolds(step', found', parse')
<1>1. step' = step /\ found' = found /\ step > Len(Payload.objs) /\ step > 0
  BY DEF FinishParse
<1>2. parse' = "Ok" => \A k \in Wanted : found[k] # Missing
  BY DEF FinishParse
<1>3. QED
  BY <1>1, <1>2 DEF EnvelopeInv, EnvelopeHolds

(* One more key read, and what was read under the others kept. *)
LEMMA OneMoreRead ==
  ASSUME NEW n \in Nat, n > 0, NEW fd, NEW k \in Wanted, NEW f2,
         fd[k] # Missing => \E j \in Nat : LastRead(k, n, j) /\ fd[k] = ReadThere(k, j),
         f2 = IF SpelledThere(n) = k THEN ReadThere(k, n) ELSE fd[k],
         f2 # Missing
  PROVE  \E j \in Nat : LastRead(k, n + 1, j) /\ f2 = ReadThere(k, j)
<1>1. CASE SpelledThere(n) = k
  <2>1. LastRead(k, n + 1, n)
    BY <1>1 DEF LastRead
  <2>2. QED
    BY <1>1, <2>1
<1>2. CASE SpelledThere(n) # k
  <2>1. PICK j \in Nat : LastRead(k, n, j) /\ fd[k] = ReadThere(k, j)
    BY <1>2
  <2>2. /\ j \in 1..(n - 1) /\ SpelledThere(j) = k
        /\ \A i \in 1..(n - 1) : i > j => SpelledThere(i) # k
    BY <2>1 DEF LastRead
  <2>3. \A i \in 1..((n + 1) - 1) : i > j => SpelledThere(i) # k
    <3> SUFFICES ASSUME NEW i \in 1..((n + 1) - 1), i > j PROVE SpelledThere(i) # k
      OBVIOUS
    <3>1. i = n \/ i \in 1..(n - 1)
      OBVIOUS
    <3>2. QED
      BY <1>2, <2>2, <3>1
  <2>4. LastRead(k, n + 1, j)
    BY <2>2, <2>3 DEF LastRead
  <2>5. QED
    BY <1>2, <2>1, <2>4
<1>3. QED
  BY <1>1, <1>2

LEMMA ReadEntryHolds ==
  ASSUME ArchiveIs, EnvelopeInv, ReadEntry PROVE EnvelopeHolds(step', found', parse')
<1> DEFINE n == step
           key == Resolve(Payload.keys[n])
           r == Reading(key.name, Resolve(Payload.objs[n]))
<1>1. parse = "running" /\ n \in 1..Len(Payload.objs) /\ n \in Nat /\ n > 0
  BY DEF ReadEntry, EnvelopeInv, EnvelopeHolds
<1>2. ReadSoFar(n, found) /\ found = [k \in Wanted |-> found[k]]
  BY <1>1 DEF EnvelopeInv, EnvelopeHolds
<1>3. CASE Reject
  BY <1>3, RejectHolds
<1>4. CASE ~Reject
  <2>1. /\ step' = n + 1 /\ parse' = parse
        /\ found' = IF key.name \in Wanted THEN Keep(key.name, r) ELSE found
        /\ key.kind = "string"
    BY <1>4 DEF ReadEntry
  <2>2. /\ SpelledThere(n) = key.name
        /\ SpelledThere(n) \in Wanted => r = ReadThere(SpelledThere(n), n)
    BY DEF SpelledThere, ReadThere
  <2>3. /\ found' = [k \in Wanted |-> found'[k]]
        /\ \A k \in Wanted :
             found'[k] = IF SpelledThere(n) = k THEN ReadThere(k, n) ELSE found[k]
    <3> DEFINE s == SpelledThere(n)
    <3>1. CASE s \in Wanted
      <4>1. found' = [found EXCEPT ![s] = r]
        BY <2>1, <2>2, <3>1 DEF Keep
      <4>2. r = ReadThere(s, n)
        BY <2>2, <3>1
      <4> HIDE DEF s, r, n
      <4>3. found' = [k \in Wanted |-> IF k = s THEN r ELSE found[k]]
        BY <1>2, <4>1
      <4>4. QED
        BY <4>2, <4>3 DEF s
    <3>2. CASE s \notin Wanted
      <4>1. found' = found
        BY <2>1, <2>2, <3>2
      <4>2. QED
        BY <1>2, <3>2, <4>1
    <3>3. QED
      BY <3>1, <3>2
  <2>4. ReadSoFar(n + 1, found')
    <3>1. /\ Payload.kind = "nsdict" /\ Len(Payload.keys) = Len(Payload.objs)
          /\ \A j \in 1..(n - 1) : Resolve(Payload.keys[j]).kind = "string"
      BY <1>2 DEF ReadSoFar
    <3>2. n + 1 <= Len(Payload.objs) + 1
      BY <1>1, <3>1, PayloadIsValue
    <3>3. \A j \in 1..((n + 1) - 1) : Resolve(Payload.keys[j]).kind = "string"
      <4> SUFFICES ASSUME NEW j \in 1..((n + 1) - 1)
                   PROVE  Resolve(Payload.keys[j]).kind = "string"
        OBVIOUS
      <4>1. j = n \/ j \in 1..(n - 1)
        BY <1>1
      <4>2. QED
        BY <2>1, <3>1, <4>1
    <3>4. ASSUME NEW k \in Wanted, found'[k] # Missing
          PROVE  \E j \in Nat : LastRead(k, n + 1, j) /\ found'[k] = ReadThere(k, j)
      <4>1. found[k] # Missing => \E j \in Nat : LastRead(k, n, j) /\ found[k] = ReadThere(k, j)
        BY <1>2 DEF ReadSoFar
      <4>2. found'[k] = IF SpelledThere(n) = k THEN ReadThere(k, n) ELSE found[k]
        BY <2>3
      <4> DEFINE f2 == found'[k]
      <4> HIDE DEF n, f2
      <4>3. \E j \in Nat : LastRead(k, n + 1, j) /\ f2 = ReadThere(k, j)
        BY <1>1, <3>4, <4>1, <4>2, OneMoreRead DEF f2
      <4>4. QED
        BY <4>3 DEF f2
    <3>5. QED
      BY <3>1, <3>2, <3>3, <3>4 DEF ReadSoFar
  <2>5. QED
    BY <1>1, <2>1, <2>3, <2>4 DEF EnvelopeHolds
<1>5. QED
  BY <1>3, <1>4

LEMMA EnvelopeStays ==
  ASSUME archive' = archive, EnvelopeHolds(step', found', parse')
  PROVE  EnvelopeInv'
<1>1. objects' = objects /\ root' = root
  BY DEF archive
<1>2. \A v : Resolve(v)' = Resolve(v)
  BY <1>1 DEF Resolve, InObjects, Target
<1>3. Payload' = Payload
  BY <1>1 DEF Payload, Resolve, InObjects, Target
<1>4. ReadSoFar(step', found') => ReadSoFar(step, found)'
  BY <1>2, <1>3 DEF ReadSoFar, LastRead, ReadThere, SpelledThere
<1>5. QED
  BY <1>3, <1>4 DEF EnvelopeInv, EnvelopeHolds

LEMMA EnvelopeNext ==
  ASSUME ArchiveIs, EnvelopeInv, [Next]_vars PROVE EnvelopeInv'
<1>1. archive' = archive
  BY DEF Next, NextEnvelope, NextUnarchive, TooDeep, Follow, PassThrough, Enter,
    TakeKey, TakeMember, FinishRoot, Visit, vars
<1>2. EnvelopeHolds(step', found', parse')
  <2>1. CASE UNCHANGED vars \/ UNCHANGED envelope
    BY <2>1 DEF vars, envelope, EnvelopeInv
  <2>2. CASE NextEnvelope
    BY <2>2, ReadRootHolds, ReadEntryHolds, FinishParseHolds DEF NextEnvelope
  <2>3. QED
    BY <2>1, <2>2 DEF Next
<1>3. QED
  BY <1>1, <1>2, EnvelopeStays

LEMMA BothDecoders == Spec => [](DecodingInv /\ EnvelopeInv)
<1>1. Init => DecodingInv /\ EnvelopeInv
  BY InitInv, InitStands, InitEnvelopeHolds DEF DecodingInv, Init
<1>2. DecodingInv /\ EnvelopeInv /\ [Next]_vars => DecodingInv' /\ EnvelopeInv'
  <2>1. DecodingInv => ArchiveIs
    BY DEF DecodingInv, Holds
  <2>2. QED
    BY <2>1, NextInv, StepHolds, EnvelopeNext DEF DecodingInv
<1>3. QED
  BY <1>1, <1>2, PTL DEF Spec

(* One indirection is enough where it ends in what the reader accepts. *)
LEMMA ResolvedIsMeant ==
  ASSUME ArchiveIs, NEW v \in Values,
         Resolve(v).kind \in {"nsdict", "nsarray", "string", "data"}
  PROVE  Meant(v) = Resolve(v)
<1>1. Chase(v)[0] = v /\ (Refers(v) => Chase(v)[1] = Target(v))
  <2> DEFINE c == Chase(v)
  <2>1. c[0] = v /\ \A n \in Nat : Refers(c[n]) => c[n + 1] = Target(c[n])
    BY ChaseIs
  <2> HIDE DEF c
  <2>2. Refers(c[0]) => c[0 + 1] = Target(c[0])
    BY <2>1
  <2>3. 0 + 1 = 1
    OBVIOUS
  <2>4. QED
    BY <2>1, <2>2, <2>3 DEF c
<1>2. CASE v.kind # "uid"
  <2>1. ~Refers(v) /\ Resolve(v) = v
    BY <1>2 DEF Refers, Resolve
  <2>2. QED
    BY <1>1, <2>1, EndIsMeant
<1>3. CASE v.kind = "uid" /\ InObjects(v)
  <2>1. Refers(v) /\ Resolve(v) = Target(v)
    BY <1>3 DEF Refers, Resolve
  <2>2. ~Refers(Target(v))
    BY <2>1 DEF Refers
  <2>3. Chase(v)[1] = Target(v)
    BY <1>1, <2>1
  <2>4. QED
    BY <2>1, <2>2, <2>3, EndIsMeant
<1>4. CASE v.kind = "uid" /\ ~InObjects(v)
  BY <1>4, OtherKind DEF Resolve
<1>5. QED
  BY <1>2, <1>3, <1>4

LEMMA ReadingFields ==
  ASSUME NEW k, NEW v, Reading(k, v) # Missing
  PROVE  /\ k = "unknown" => /\ v.kind \in {"nsarray", "nsdict"}
                             /\ Reading(k, v).len = Len(v.objs)
         /\ k # "unknown" => v.kind = "data" /\ Reading(k, v).name = v.name
  BY DEF Reading

(* What the reader found is what the general one has under that key. *)
LEMMA FoundIsHeld ==
  ASSUME ArchiveIs, Clean(root, 0), EnvelopeInv, parse = "Ok",
         NEW k \in Wanted
  PROVE  /\ Meant(root) = Payload /\ Payload \in Values /\ Payload.kind = "nsdict"
         /\ Clean(Payload, 0)
         /\ Places(Payload, k) # {}
         /\ LET h == Meant(Payload.objs[LastPlace(Payload, k)])
            IN  found[k] = Reading(k, h) /\ Reading(k, h) # Missing
<1> DEFINE w == Payload
           L == Len(Payload.objs)
<1>1. /\ step \in Nat /\ step > 0 /\ step > L /\ ReadSoFar(step, found)
      /\ found[k] # Missing
  BY DEF EnvelopeInv, EnvelopeHolds
<1>2. /\ w.kind = "nsdict" /\ Len(w.keys) = L /\ step <= L + 1
      /\ \A j \in 1..(step - 1) : Resolve(w.keys[j]).kind = "string"
  BY <1>1 DEF ReadSoFar
<1>3. w \in Values /\ L \in Nat /\ DOMAIN w.objs = 1..L /\ DOMAIN w.keys = 1..L
  BY <1>2, PayloadIsValue
<1>4. step - 1 = L
  BY <1>1, <1>2, <1>3
<1>5. Meant(root) = w
  BY <1>2, ResolvedIsMeant DEF Payload, ArchiveIs
<1>6. Clean(w, 0)
  BY <1>5, CleanMeant DEF ArchiveIs
<1>7. \A j \in 1..L : w.keys[j] \in Values /\ Meant(w.keys[j]) = Resolve(w.keys[j])
  BY <1>2, <1>3, <1>4, ResolvedIsMeant, ValueFields
<1>8. Places(w, k) = {j \in 1..L : SpelledThere(j) = k}
  BY <1>2, <1>3, <1>4, <1>7 DEF Places, IsKey, SpelledThere
<1>9. PICK j \in Nat : LastRead(k, step, j) /\ found[k] = ReadThere(k, j)
  BY <1>1 DEF ReadSoFar
<1>10. /\ j \in 1..L /\ SpelledThere(j) = k
       /\ \A i \in 1..L : i > j => SpelledThere(i) # k
  BY <1>4, <1>9 DEF LastRead
<1> DEFINE P == Places(w, k)
           l == LastPlace(w, k)
<1>11. P # {} /\ j \in P
  BY <1>8, <1>10
<1>12. l \in P /\ \A i \in P : i <= l
  BY <1>3, <1>11, LastPlaceIs
<1>13. l = j
  <2> HIDE DEF P, l, w, L
  <2>1. l \in 1..L /\ SpelledThere(l) = k /\ j <= l
    BY <1>8, <1>11, <1>12 DEF P
  <2>2. ~(l > j)
    BY <1>10, <2>1
  <2>3. QED
    BY <1>3, <1>10, <2>1, <2>2
<1> DEFINE o == w.objs[j]
<1>14. o \in Values /\ found[k] = Reading(k, Resolve(o)) /\ Reading(k, Resolve(o)) # Missing
  BY <1>1, <1>3, <1>9, <1>10, ValueFields DEF ReadThere
<1>15. Resolve(o).kind \in {"nsdict", "nsarray", "string", "data"}
  BY <1>14, ReadingFields
<1>16. Meant(o) = Resolve(o)
  BY <1>14, <1>15, ResolvedIsMeant
<1>17. QED
  BY <1>2, <1>3, <1>5, <1>6, <1>11, <1>13, <1>14, <1>16

LEMMA FewLasts ==
  ASSUME NEW w, NEW n \in Nat, NEW u
  PROVE  Cardinality(Gather(w, n, u)) <= n
<1> DEFINE E(i) == Entry(Spelled(w, i), u[w.objs[i]])
           S == Lasts(w, n)
           T == Gather(w, n, u)
           f == [i \in S |-> E(i)]
<1>1. S \subseteq 1..n
  BY DEF Lasts
<1>2. IsFiniteSet(1..n) /\ Cardinality(1..n) = n
  <2>1. 1 \in Int /\ n \in Int
    OBVIOUS
  <2>2. IsFiniteSet(1..n) /\ Cardinality(1..n) = IF 1 > n THEN 0 ELSE n - 1 + 1
    BY <2>1, FS_Interval
  <2>3. QED
    BY <2>2
<1>3. IsFiniteSet(S) /\ Cardinality(S) <= n
  BY <1>1, <1>2, FS_Subset
<1>4. T = {E(i) : i \in S}
  BY DEF Gather
<1> HIDE DEF E, S, T
<1>5. f \in Surjection(S, T)
  <2>1. f \in [S -> T]
    BY <1>4
  <2>2. \A t \in T : \E i \in S : f[i] = t
    BY <1>4
  <2>3. QED
    BY <2>1, <2>2 DEF Surjection
<1> HIDE DEF f
<1>6. IsFiniteSet(T) /\ Cardinality(T) <= Cardinality(S)
  BY <1>3, <1>5, FS_Surjection
<1>7. Cardinality(T) \in Nat /\ Cardinality(S) \in Nat
  BY <1>3, <1>6, FS_CardinalityType
<1>8. Cardinality(T) <= n
  BY <1>3, <1>6, <1>7
<1>9. QED
  BY <1>8 DEF T

(* Where both decoders accept an archive, the reader that takes a single   *)
(* step from each key and value has what the general one has: the same     *)
(* info and data, and of `unknown` as many members.                        *)
THEOREM TheEnvelopeAgrees == Spec => []EnvelopeAgrees
<1>1. ASSUME DecodingInv, EnvelopeInv, parse = "Ok", verdict = "Ok"
      PROVE  EnvelopeAgrees
  <2> DEFINE w == Payload
             u == Meaning[MaxDepth - 1]
             H(k) == Meant(w.objs[LastPlace(w, k)])
  <2>1. /\ ArchiveIs /\ Clean(root, 0)
        /\ reg.tree = Built(Meant(root), Meaning[MaxDepth])
    BY <1>1, OkMeans
  <2>2. ASSUME NEW k \in Wanted
        PROVE  /\ Under(reg.tree, k) = {Built(H(k), u)} /\ H(k) \in Values
               /\ Clean(H(k), 1)
               /\ found[k] = Reading(k, H(k)) /\ Reading(k, H(k)) # Missing
    <3>1. /\ Meant(root) = w /\ w \in Values /\ w.kind = "nsdict" /\ Clean(w, 0)
          /\ Places(w, k) # {}
          /\ found[k] = Reading(k, H(k)) /\ Reading(k, H(k)) # Missing
      BY <1>1, <2>1, FoundIsHeld
    <3>2. /\ Under(Built(w, Meaning[MaxDepth]), k) = {Built(H(k), u)}
          /\ H(k) \in Values /\ Clean(H(k), 0 + 1)
      BY <2>1, <3>1, HeldIs
    <3>3. QED
      BY <2>1, <3>1, <3>2
  <2> HIDE DEF w, u, H
  <2>3. ASSUME NEW k \in {"info", "data"}
        PROVE  Under(reg.tree, k) = {Tree("data", found[k].name, <<>>, {})}
    <3>1. k \in Wanted /\ k # "unknown"
      BY DEF Wanted
    <3>2. H(k).kind = "data" /\ found[k].name = H(k).name
      BY <2>2, <3>1, ReadingFields
    <3>3. Built(H(k), u) = Tree("data", H(k).name, <<>>, {})
      BY <3>2 DEF Built, AsIs, Leaf
    <3>4. QED
      BY <2>2, <3>1, <3>2, <3>3
  <2>4. "unknown" \in Wanted
    BY DEF Wanted
  <2> DEFINE h == H("unknown")
             x == Built(h, u)
  <2>5. /\ Under(reg.tree, "unknown") = {x} /\ h \in Values /\ Clean(h, 1)
        /\ h.kind \in {"nsarray", "nsdict"} /\ found["unknown"].len = Len(h.objs)
    BY <2>2, <2>4, ReadingFields
  <2>6. Len(h.objs) \in Nat /\ DOMAIN h.objs = 1..Len(h.objs)
    BY <2>5, ValueFields
  <2>7. \/ x.kind = "array" /\ Len(Items(x)) = found["unknown"].len
        \/ x.kind = "dict" /\ Cardinality(Entries(x)) <= found["unknown"].len
    <3> HIDE DEF h
    <3>1. CASE h.kind = "nsarray"
      <4> DEFINE f == [i \in DOMAIN h.objs |-> u[h.objs[i]]]
      <4>1. x = Tree("array", "", f, {})
        BY <3>1, BuiltKind
      <4>2. f = [i \in 1..Len(h.objs) |-> f[i]]
        BY <2>6
      <4> HIDE DEF f, x
      <4>3. x.kind = "array" /\ Items(x) = f
        <5>1. \A a, b, is, e : x = Tree(a, b, is, e) => x.kind = a /\ Items(x) = is
          BY TreeReads
        <5>2. QED
          BY <4>1, <5>1, Zenon
      <4>4. Len(f) = Len(h.objs)
        BY <2>6, <4>2, FunctionIsSeq
      <4>5. QED
        BY <2>5, <4>3, <4>4
    <3>2. CASE h.kind = "nsdict"
      <4> DEFINE es == Gather(h, Len(h.objs), u)
      <4>1. /\ Len(h.keys) = Len(h.objs)
            /\ \A i \in 1..Len(h.keys) : Meant(h.keys[i]).kind = "string"
        BY <2>1, <2>5, <3>2, CleanDict
      <4>2. x = Tree("dict", "", <<>>, es)
        BY <2>5, <3>2, <4>1, GatheredIsBuilt
      <4>3. Cardinality(es) <= Len(h.objs)
        BY <2>6, FewLasts
      <4> HIDE DEF es, x
      <4>4. x.kind = "dict" /\ Entries(x) = es
        <5>1. \A a, b, is, e : x = Tree(a, b, is, e) => x.kind = a /\ Entries(x) = e
          BY TreeReads
        <5>2. QED
          BY <4>2, <5>1, Zenon
      <4>5. QED
        BY <2>5, <4>3, <4>4
    <3>3. QED
      BY <2>5, <3>1, <3>2
  <2> HIDE DEF x
  <2>8. QED
    BY <2>3, <2>5, <2>7 DEF EnvelopeAgrees
<1>2. DecodingInv /\ EnvelopeInv => EnvelopeAgrees
  BY <1>1 DEF EnvelopeAgrees
<1>3. QED
  BY <1>2, BothDecoders, PTL

-----------------------------------------------------------------------------
(* Sums of sequences of naturals. *)

LEMMA SumOfIs ==
  ASSUME NEW s \in Seq(Nat)
  PROVE  /\ SumOf(s)[0] = 0
         /\ \A n \in Nat : SumOf(s)[n] \in Nat
         /\ \A n \in Nat : n + 1 \in 1..Len(s) =>
              SumOf(s)[n + 1] = SumOf(s)[n] + s[n + 1]
<1> DEFINE D == DOMAIN s
           More(n, x) == IF n \notin D THEN 0 ELSE x + s[n]
           F == [p \in Nat \X Nat |-> More(p[1] + 1, p[2])]
           Is(f) == f = [i \in Nat |-> IF i \notin D THEN 0 ELSE f[i - 1] + s[i]]
<1>1. D = 1..Len(s) /\ Len(s) \in Nat /\ \A i \in D : s[i] \in Nat
  OBVIOUS
<1>2. \A n, x \in Nat : More(n, x) \in Nat
  BY <1>1
<1>3. F \in [Nat \X Nat -> Nat]
  <2> HIDE DEF More
  <2>1. ASSUME NEW p \in Nat \X Nat PROVE More(p[1] + 1, p[2]) \in Nat
    <3>1. p[1] + 1 \in Nat /\ p[2] \in Nat
      OBVIOUS
    <3>2. QED
      BY <1>2, <3>1, Zenon
  <2>2. QED
    BY <2>1
<1>4. \A n, x \in Nat : F[<<n, x>>] = More(n + 1, x)
  OBVIOUS
<1> HIDE DEF F
<1>5. PICK f : Iterates(Nat, 0, F, f)
  BY <1>3, Iteration
<1> HIDE DEF D
<1>6. f = [i \in Nat |-> IF i \notin D THEN 0 ELSE f[i - 1] + s[i]]
  <2> DEFINE g == [i \in Nat |-> IF i \notin D THEN 0 ELSE f[i - 1] + s[i]]
  <2>1. \A n \in Nat : f[n] = g[n]
    <3> SUFFICES ASSUME NEW n \in Nat PROVE f[n] = g[n]
      OBVIOUS
    <3>1. CASE n = 0
      BY <1>1, <1>5, <3>1 DEF Iterates
    <3>2. CASE n # 0
      <4>1. n - 1 \in Nat /\ (n - 1) + 1 = n
        BY <3>2
      <4>2. f[(n - 1) + 1] = F[<<n - 1, f[n - 1]>>] /\ f[n - 1] \in Nat
        BY <1>5, <4>1 DEF Iterates
      <4>3. f[n] = More(n, f[n - 1])
        <5> HIDE DEF More
        <5>1. QED
          BY <1>4, <4>1, <4>2
      <4>4. QED
        BY <4>3
    <3>3. QED
      BY <3>1, <3>2
  <2>2. QED
    BY <1>5, <2>1 DEF Iterates
<1>7. SumOf(s) = CHOOSE f2 : Is(f2)
  BY DEF SumOf, D
<1>8. Is(SumOf(s))
  BY <1>6, <1>7, Zenon
<1> DEFINE c == SumOf(s)
<1> HIDE DEF c
<1>9. c = [i \in Nat |-> IF i \notin D THEN 0 ELSE c[i - 1] + s[i]]
  BY <1>8 DEF c
<1>10. c[0] = 0
  BY <1>1, <1>9
<1>11. ASSUME NEW n \in Nat PROVE c[n + 1] = More(n + 1, c[n])
  <2>1. n + 1 \in Nat /\ (n + 1) - 1 = n
    OBVIOUS
  <2>2. c[n + 1] = More(n + 1, c[(n + 1) - 1])
    BY <1>9, <2>1
  <2>3. QED
    BY <2>1, <2>2
<1>12. \A n \in Nat : c[n] \in Nat
  <2> DEFINE T == {n \in Nat : c[n] \in Nat}
  <2> HIDE DEF More
  <2>1. 0 \in T
    BY <1>10
  <2>2. ASSUME NEW n \in Nat, n \in T PROVE n + 1 \in T
    <3>1. c[n] \in Nat /\ n + 1 \in Nat
      BY <2>2
    <3>2. More(n + 1, c[n]) \in Nat
      BY <1>2, <3>1
    <3>3. QED
      BY <1>11, <3>1, <3>2
  <2> HIDE DEF T
  <2>3. \A n \in Nat : n \in T
    BY <2>1, <2>2, Induction
  <2>4. QED
    BY <2>3 DEF T
<1>13. QED
  BY <1>1, <1>10, <1>11, <1>12 DEF c

LEMMA TotalIs ==
  ASSUME NEW s \in Seq(Nat) PROVE Total(s) \in Nat /\ Total(s) = SumOf(s)[Len(s)]
<1>1. Len(s) \in Nat
  OBVIOUS
<1>2. QED
  BY <1>1, SumOfIs DEF Total

(* The first sums depend on the first members only. *)
LEMMA SumsAgree ==
  ASSUME NEW s \in Seq(Nat), NEW t \in Seq(Nat), NEW n \in Nat,
         n <= Len(s), n <= Len(t), \A i \in 1..n : s[i] = t[i]
  PROVE  SumOf(s)[n] = SumOf(t)[n]
<1> DEFINE a == SumOf(s)
           b == SumOf(t)
           T == {i \in Nat : i <= n => a[i] = b[i]}
<1>0. Len(s) \in Nat /\ Len(t) \in Nat
  OBVIOUS
<1>1. /\ a[0] = 0 /\ \A i \in Nat : i + 1 \in 1..Len(s) => a[i + 1] = a[i] + s[i + 1]
      /\ b[0] = 0 /\ \A i \in Nat : i + 1 \in 1..Len(t) => b[i + 1] = b[i] + t[i + 1]
  BY SumOfIs
<1> HIDE DEF a, b
<1>2. 0 \in T
  BY <1>1
<1>3. ASSUME NEW i \in Nat, i \in T PROVE i + 1 \in T
  <2> SUFFICES ASSUME i + 1 <= n PROVE a[i + 1] = b[i + 1]
    OBVIOUS
  <2>1. i <= n /\ i + 1 \in 1..n /\ i + 1 \in 1..Len(s) /\ i + 1 \in 1..Len(t)
    BY <1>0
  <2>2. QED
    BY <1>1, <1>3, <2>1
<1> HIDE DEF T
<1>4. n \in T
  BY <1>2, <1>3, Induction
<1>5. QED
  BY <1>4 DEF T, a, b

(* No sum of the first members is more than the total. *)
LEMMA SumGrows ==
  ASSUME NEW s \in Seq(Nat), NEW i \in 0..Len(s)
  PROVE  SumOf(s)[i] <= Total(s)
<1> DEFINE a == SumOf(s)
           T == {m \in Nat : i + m <= Len(s) => a[i] <= a[i + m]}
<1>0. Len(s) \in Nat /\ i \in Nat /\ \A j \in 1..Len(s) : s[j] \in Nat
  OBVIOUS
<1>1. /\ \A j \in Nat : a[j] \in Nat
      /\ \A j \in Nat : j + 1 \in 1..Len(s) => a[j + 1] = a[j] + s[j + 1]
  BY SumOfIs
<1> HIDE DEF a
<1>2. 0 \in T
  BY <1>0, <1>1
<1>3. ASSUME NEW m \in Nat, m \in T PROVE m + 1 \in T
  <2> SUFFICES ASSUME i + (m + 1) <= Len(s) PROVE a[i] <= a[i + (m + 1)]
    OBVIOUS
  <2> DEFINE j == i + m
  <2>1. j \in Nat /\ j + 1 \in 1..Len(s) /\ i + (m + 1) = j + 1 /\ i + m <= Len(s)
    BY <1>0
  <2>2. a[i] <= a[j]
    BY <1>3, <2>1
  <2> HIDE DEF j
  <2>3. /\ a[j + 1] = a[j] + s[j + 1] /\ s[j + 1] \in Nat
        /\ a[j] \in Nat /\ a[i] \in Nat
    BY <1>0, <1>1, <2>1
  <2>4. a[i] <= a[j + 1]
    BY <2>2, <2>3
  <2>5. QED
    BY <2>1, <2>4
<1> DEFINE k == Len(s) - i
<1>4. k \in Nat /\ i + k = Len(s) /\ i + k <= Len(s)
  BY <1>0
<1> HIDE DEF T, k
<1>5. k \in T
  BY <1>2, <1>3, <1>4, Induction
<1>6. a[i] <= a[Len(s)]
  BY <1>4, <1>5 DEF T
<1>7. QED
  BY <1>6 DEF Total, a

LEMMA TotalOfNothing == Total(<<>>) = 0
<1>1. <<>> \in Seq(Nat) /\ Len(<<>>) = 0
  OBVIOUS
<1>2. QED
  BY <1>1, SumOfIs DEF Total

LEMMA TotalOfAppend ==
  ASSUME NEW s \in Seq(Nat), NEW x \in Nat
  PROVE  Append(s, x) \in Seq(Nat) /\ Total(Append(s, x)) = Total(s) + x
<1> DEFINE t == Append(s, x)
           n == Len(s)
<1>1. /\ t \in Seq(Nat) /\ n \in Nat /\ Len(t) = n + 1
      /\ \A i \in 1..n : s[i] = t[i]
      /\ t[n + 1] = x
  OBVIOUS
<1> HIDE DEF t
<1>2. SumOf(s)[n] = SumOf(t)[n]
  <2>1. n <= Len(s) /\ n <= Len(t)
    BY <1>1
  <2>2. QED
    BY <1>1, <2>1, SumsAgree
<1>3. SumOf(t)[n + 1] = SumOf(t)[n] + t[n + 1]
  <2>1. n + 1 \in 1..Len(t)
    BY <1>1
  <2>2. QED
    BY <1>1, <2>1, SumOfIs
<1>4. QED
  BY <1>1, <1>2, <1>3 DEF Total, t

LEMMA TotalOfConcat ==
  ASSUME NEW s \in Seq(Nat), NEW t \in Seq(Nat)
  PROVE  s \o t \in Seq(Nat) /\ Total(s \o t) = Total(s) + Total(t)
<1> DEFINE u == s \o t
           n == Len(s)
           a == SumOf(s)
           b == SumOf(t)
           c == SumOf(u)
           T == {m \in Nat : m <= Len(t) => c[n + m] = a[n] + b[m]}
<1>1. /\ u \in Seq(Nat) /\ n \in Nat /\ Len(t) \in Nat /\ Len(u) = n + Len(t)
      /\ \A i \in 1..n : s[i] = u[i]
      /\ \A i \in 1..Len(t) : u[n + i] = t[i] /\ t[i] \in Nat
  OBVIOUS
<1> HIDE DEF u
<1>2. /\ \A j \in Nat : a[j] \in Nat /\ b[j] \in Nat
      /\ b[0] = 0
      /\ \A j \in Nat : j + 1 \in 1..Len(t) => b[j + 1] = b[j] + t[j + 1]
      /\ \A j \in Nat : j + 1 \in 1..Len(u) => c[j + 1] = c[j] + u[j + 1]
  BY <1>1, SumOfIs
<1>3. a[n] = c[n]
  <2>1. n <= Len(s) /\ n <= Len(u)
    BY <1>1
  <2>2. QED
    BY <1>1, <2>1, SumsAgree
<1>4. Total(s) = a[n] /\ Total(t) = b[Len(t)] /\ Total(u) = c[n + Len(t)]
  BY <1>1 DEF Total
<1> HIDE DEF a, b, c
<1>5. 0 \in T
  BY <1>1, <1>2, <1>3
<1>6. ASSUME NEW m \in Nat, m \in T PROVE m + 1 \in T
  <2> SUFFICES ASSUME m + 1 <= Len(t) PROVE c[n + (m + 1)] = a[n] + b[m + 1]
    OBVIOUS
  <2> DEFINE j == n + m
  <2>1. /\ j \in Nat /\ j + 1 \in 1..Len(u) /\ n + (m + 1) = j + 1
        /\ m + 1 \in 1..Len(t) /\ m <= Len(t)
    BY <1>1
  <2>2. c[j] = a[n] + b[m]
    BY <1>6, <2>1
  <2>3. u[j + 1] = t[m + 1] /\ t[m + 1] \in Nat
    BY <1>1, <2>1
  <2> HIDE DEF j
  <2>4. c[j + 1] = c[j] + u[j + 1] /\ b[m + 1] = b[m] + t[m + 1]
    BY <1>2, <2>1
  <2>5. a[n] \in Nat /\ b[m] \in Nat
    BY <1>1, <1>2
  <2>6. c[j + 1] = a[n] + b[m + 1]
    BY <2>2, <2>3, <2>4, <2>5
  <2>7. QED
    BY <2>1, <2>6
<1> HIDE DEF T
<1>7. Len(t) \in T
  BY <1>1, <1>5, <1>6, Induction
<1>8. c[n + Len(t)] = a[n] + b[Len(t)]
  BY <1>7 DEF T
<1>9. QED
  BY <1>1, <1>4, <1>8 DEF u

-----------------------------------------------------------------------------
(* Walks, and those that start at the members of a sequence.               *)

WalksOf(s, n) == [i \in DOMAIN s |-> Walks[n][s[i]]]

OneMore(w) == [v \in Values |-> 1 + Total([i \in DOMAIN Members(v) |-> w[Members(v)[i]]])]

LEMMA MappedIsSeq ==
  ASSUME NEW s \in Seq(Values), NEW w \in [Values -> Nat]
  PROVE  [i \in DOMAIN s |-> w[s[i]]] \in Seq(Nat)
<1>1. Len(s) \in Nat /\ DOMAIN s = 1..Len(s) /\ \A i \in 1..Len(s) : s[i] \in Values
  OBVIOUS
<1>2. \A i \in 1..Len(s) : w[s[i]] \in Nat
  BY <1>1
<1>3. [i \in 1..Len(s) |-> w[s[i]]] \in Seq(Nat)
  BY <1>1, <1>2
<1>4. QED
  BY <1>1, <1>3

LEMMA OneMoreIs ==
  ASSUME ArchiveIs, NEW w \in [Values -> Nat]
  PROVE  OneMore(w) \in [Values -> Nat]
<1>1. ASSUME NEW v \in Values
      PROVE  1 + Total([i \in DOMAIN Members(v) |-> w[Members(v)[i]]]) \in Nat
  <2>1. Members(v) \in Seq(Values)
    BY MembersAreValues
  <2>2. [i \in DOMAIN Members(v) |-> w[Members(v)[i]]] \in Seq(Nat)
    BY <2>1, MappedIsSeq
  <2>3. QED
    BY <2>2, TotalIs
<1>2. QED
  BY <1>1 DEF OneMore

LEMMA WalksIs ==
  ASSUME ArchiveIs
  PROVE  /\ \A n \in Nat : Walks[n] \in [Values -> Nat]
         /\ \A v \in Values : Walks[0][v] = 1
         /\ \A n \in Nat, v \in Values : Walks[n + 1][v] = 1 + Total(WalksOf(Members(v), n))
<1> DEFINE S == [Values -> Nat]
           F == [p \in Nat \X S |-> OneMore(p[2])]
           one == [v \in Values |-> 1]
           Is(f) == f = [n \in Nat |-> [v \in Values |->
                      IF n = 0 THEN 1
                      ELSE 1 + Total([i \in DOMAIN Members(v) |->
                                        f[n - 1][Members(v)[i]]])]]
<1>1. one \in S
  OBVIOUS
<1>2. F \in [Nat \X S -> S]
  <2>1. ASSUME NEW p \in Nat \X S PROVE OneMore(p[2]) \in S
    <3>1. p[2] \in S
      OBVIOUS
    <3>2. QED
      BY <3>1, OneMoreIs
  <2> HIDE DEF S
  <2>2. QED
    BY <2>1
<1>3. \A n \in Nat, w \in S : F[<<n, w>>] = OneMore(w)
  <2> HIDE DEF S
  <2>1. QED
    OBVIOUS
<1> HIDE DEF F
<1>4. PICK f : Iterates(S, one, F, f)
  <2> HIDE DEF S, one
  <2>1. QED
    BY <1>1, <1>2, Iteration
<1> HIDE DEF S
<1>5. ASSUME NEW n \in Nat, n # 0
      PROVE  f[n] = OneMore(f[n - 1])
  <2>1. n - 1 \in Nat /\ n = (n - 1) + 1
    BY <1>5
  <2>2. f[(n - 1) + 1] = F[<<n - 1, f[n - 1]>>] /\ f[n - 1] \in S
    BY <1>4, <2>1 DEF Iterates
  <2>3. QED
    BY <1>3, <2>1, <2>2
<1>6. Is(f)
  <2> DEFINE r == [n \in Nat |-> [v \in Values |->
                     IF n = 0 THEN 1
                     ELSE 1 + Total([i \in DOMAIN Members(v) |->
                                       f[n - 1][Members(v)[i]]])]]
  <2>1. ASSUME NEW n \in Nat PROVE f[n] = r[n]
    <3>1. CASE n = 0
      <4>1. f[0] = one
        BY <1>4 DEF Iterates
      <4>2. r[0] = one
        OBVIOUS
      <4>3. QED
        BY <3>1, <4>1, <4>2
    <3>2. CASE n # 0
      <4>1. r[n] = OneMore(f[n - 1])
        BY <3>2 DEF OneMore
      <4> HIDE DEF r
      <4>2. QED
        BY <1>5, <3>2, <4>1
    <3>3. QED
      BY <3>1, <3>2
  <2>2. f = [n \in Nat |-> f[n]]
    BY <1>4 DEF Iterates
  <2>3. f = r
    BY <2>1, <2>2
  <2>4. QED
    BY <2>3
<1>7. Walks = CHOOSE f2 : Is(f2)
  BY DEF Walks
<1>8. Is(Walks)
  BY <1>6, <1>7, Zenon
<1> DEFINE c == Walks
<1> HIDE DEF c
<1>9. c = [n \in Nat |-> [v \in Values |->
             IF n = 0 THEN 1
             ELSE 1 + Total([i \in DOMAIN Members(v) |-> c[n - 1][Members(v)[i]]])]]
  BY <1>8 DEF c
<1>10. c[0] = one
  BY <1>9
<1>11. ASSUME NEW n \in Nat PROVE c[n + 1] = OneMore(c[n])
  <2>1. n + 1 \in Nat /\ n + 1 # 0 /\ (n + 1) - 1 = n
    OBVIOUS
  <2>2. c[n + 1] = OneMore(c[(n + 1) - 1])
    BY <1>9, <2>1 DEF OneMore
  <2>3. QED
    BY <2>1, <2>2
<1>12. \A n \in Nat : c[n] \in S
  <2> DEFINE T == {n \in Nat : c[n] \in S}
  <2>1. 0 \in T
    BY <1>1, <1>10
  <2>2. \A n \in Nat : n \in T => n + 1 \in T
    BY <1>11, OneMoreIs DEF S
  <2> HIDE DEF T
  <2>3. \A n \in Nat : n \in T
    BY <2>1, <2>2, Induction
  <2>4. QED
    BY <2>3 DEF T
<1>13. \A v \in Values : c[0][v] = 1
  BY <1>10
<1>14. ASSUME NEW n \in Nat, NEW v \in Values
       PROVE  c[n + 1][v] = 1 + Total([i \in DOMAIN Members(v) |-> c[n][Members(v)[i]]])
  BY <1>11 DEF OneMore
<1>15. QED
  BY <1>12, <1>13, <1>14 DEF c, S, WalksOf

LEMMA WalksOfIs ==
  ASSUME ArchiveIs, NEW s \in Seq(Values), NEW n \in Nat
  PROVE  /\ WalksOf(s, n) \in Seq(Nat) /\ Len(WalksOf(s, n)) = Len(s)
         /\ Len(s) \in Nat
         /\ \A i \in 1..Len(s) : WalksOf(s, n)[i] = Walks[n][s[i]]
<1>1. Walks[n] \in [Values -> Nat]
  BY WalksIs
<1>2. WalksOf(s, n) \in Seq(Nat)
  BY <1>1, MappedIsSeq DEF WalksOf
<1>3. DOMAIN s = 1..Len(s) /\ Len(s) \in Nat
  OBVIOUS
<1>4. Len(WalksOf(s, n)) = Len(s)
  BY <1>2, <1>3 DEF WalksOf
<1>5. QED
  BY <1>2, <1>3, <1>4 DEF WalksOf

LEMMA WalksOfConcat ==
  ASSUME ArchiveIs, NEW s \in Seq(Values), NEW t \in Seq(Values), NEW n \in Nat
  PROVE  Total(WalksOf(s \o t, n)) = Total(WalksOf(s, n)) + Total(WalksOf(t, n))
<1>1. s \o t \in Seq(Values)
  OBVIOUS
<1> DEFINE a == WalksOf(s, n)
           b == WalksOf(t, n)
           c == WalksOf(s \o t, n)
           st == s \o t
           ab == a \o b
<1>2. /\ a \in Seq(Nat) /\ Len(a) = Len(s) /\ \A i \in 1..Len(s) : a[i] = Walks[n][s[i]]
      /\ b \in Seq(Nat) /\ Len(b) = Len(t) /\ \A i \in 1..Len(t) : b[i] = Walks[n][t[i]]
  BY WalksOfIs
<1>3. c \in Seq(Nat) /\ Len(c) = Len(st) /\ \A i \in 1..Len(st) : c[i] = Walks[n][st[i]]
  BY <1>1, WalksOfIs
<1> HIDE DEF a, b, c, st, ab
<1>4. /\ Len(st) = Len(s) + Len(t) /\ Len(s) \in Nat /\ Len(t) \in Nat
      /\ \A i \in 1..Len(s) : st[i] = s[i]
      /\ \A i \in 1..Len(t) : st[Len(s) + i] = t[i]
  BY DEF st
<1>5. /\ ab \in Seq(Nat) /\ Len(ab) = Len(a) + Len(b)
      /\ \A i \in 1..Len(a) : ab[i] = a[i]
      /\ \A i \in 1..Len(b) : ab[Len(a) + i] = b[i]
  <2>1. /\ a \in Seq(Nat) /\ b \in Seq(Nat)
        /\ DOMAIN a = 1..Len(a) /\ DOMAIN b = 1..Len(b) /\ Nat \cup Nat = Nat
    BY <1>2
  <2>2. QED
    BY <2>1, ConcatFacts DEF ab
<1>6. ASSUME NEW i \in 1..Len(st) PROVE c[i] = ab[i]
  <2>1. CASE i <= Len(s)
    <3>1. i \in 1..Len(s)
      BY <1>4, <2>1
    <3>2. c[i] = Walks[n][s[i]]
      BY <1>3, <1>4, <3>1
    <3>3. ab[i] = Walks[n][s[i]]
      BY <1>2, <1>5, <3>1
    <3>4. QED
      BY <3>2, <3>3
  <2>2. CASE i > Len(s)
    <3> DEFINE j == i - Len(s)
    <3>1. j \in 1..Len(t) /\ i = Len(s) + j
      BY <1>4, <2>2
    <3> HIDE DEF j
    <3>2. st[i] = t[j] /\ ab[i] = b[j]
      BY <1>2, <1>4, <1>5, <3>1
    <3>3. QED
      BY <1>2, <1>3, <3>1, <3>2
  <2>3. QED
    BY <1>4, <2>1, <2>2
<1>7. Len(st) \in Nat /\ Len(st) <= Len(c) /\ Len(st) <= Len(ab) /\ Len(ab) = Len(st)
  BY <1>2, <1>3, <1>4, <1>5
<1>8. SumOf(c)[Len(st)] = SumOf(ab)[Len(st)]
  BY <1>3, <1>5, <1>6, <1>7, SumsAgree
<1>9. Total(c) = Total(ab)
  BY <1>3, <1>7, <1>8 DEF Total
<1>10. Total(ab) = Total(a) + Total(b)
  BY <1>2, TotalOfConcat DEF ab
<1>11. QED
  BY <1>9, <1>10 DEF a, b, c, st

(* The walks from the members of s after the first i.                      *)
Unread(s, n, i) == Total(WalksOf(s, n)) - SumOf(WalksOf(s, n))[i]

LEMMA UnreadIs ==
  ASSUME ArchiveIs, NEW s \in Seq(Values), NEW n \in Nat
  PROVE  /\ \A i \in 0..Len(s) : Unread(s, n, i) \in Nat
         /\ Unread(s, n, 0) = Total(WalksOf(s, n))
         /\ Unread(s, n, Len(s)) = 0
         /\ \A i \in 1..Len(s) : Unread(s, n, i - 1) = Walks[n][s[i]] + Unread(s, n, i)
<1> DEFINE w == WalksOf(s, n)
<1>1. /\ w \in Seq(Nat) /\ Len(w) = Len(s) /\ Len(s) \in Nat
      /\ \A i \in 1..Len(s) : w[i] = Walks[n][s[i]]
  BY WalksOfIs
<1>2. Total(w) \in Nat /\ Total(w) = SumOf(w)[Len(s)]
  BY <1>1, TotalIs
<1>3. /\ SumOf(w)[0] = 0
      /\ \A i \in Nat : SumOf(w)[i] \in Nat
      /\ \A i \in Nat : i + 1 \in 1..Len(s) => SumOf(w)[i + 1] = SumOf(w)[i] + w[i + 1]
  BY <1>1, SumOfIs
<1>4. ASSUME NEW i \in 0..Len(s) PROVE Unread(s, n, i) \in Nat
  <2>1. i \in Nat /\ i \in 0..Len(w)
    BY <1>1
  <2>2. SumOf(w)[i] <= Total(w)
    BY <1>1, <2>1, SumGrows
  <2>3. SumOf(w)[i] \in Nat
    BY <1>3, <2>1
  <2>4. QED
    BY <1>2, <2>2, <2>3 DEF Unread
<1>5. Unread(s, n, 0) = Total(w) /\ Unread(s, n, Len(s)) = 0
  BY <1>2, <1>3 DEF Unread
<1>6. ASSUME NEW i \in 1..Len(s)
      PROVE  Unread(s, n, i - 1) = Walks[n][s[i]] + Unread(s, n, i)
  <2> DEFINE j == i - 1
  <2>1. j \in Nat /\ j + 1 = i
    BY <1>1
  <2>2. SumOf(w)[i] = SumOf(w)[j] + w[i] /\ w[i] \in Nat
    BY <1>1, <1>3, <2>1
  <2>3. SumOf(w)[j] \in Nat /\ w[i] = Walks[n][s[i]]
    BY <1>1, <1>3, <2>1
  <2>4. Unread(s, n, j) = Total(w) - SumOf(w)[j] /\ Unread(s, n, i) = Total(w) - SumOf(w)[i]
    BY DEF Unread
  <2> HIDE DEF j, w
  <2>5. Unread(s, n, j) = Walks[n][s[i]] + Unread(s, n, i)
    BY <1>2, <2>2, <2>3, <2>4
  <2>6. QED
    BY <2>5 DEF j
<1>7. QED
  BY <1>4, <1>5, <1>6

(* What a call is, by the kind of its value.                               *)
LEMMA WalksFrom ==
  ASSUME ArchiveIs, NEW v \in Values, NEW n \in Nat
  PROVE  /\ Walks[n][v] \in Nat /\ Walks[n][v] >= 1
         /\ Refers(v) => Walks[n + 1][v] = 1 + Walks[n][Target(v)]
         /\ v.kind \in Plain => Walks[n + 1][v] = 1
         /\ v.kind = "nsarray" => Walks[n + 1][v] = 1 + Unread(v.objs, n, 0)
         /\ v.kind = "nsdict" /\ Len(v.keys) = Len(v.objs) =>
              Walks[n + 1][v] = 1 + (Unread(v.keys, n, 0) + Unread(v.objs, n, 0))
<1>1. Walks[n + 1][v] = 1 + Total(WalksOf(Members(v), n))
  BY WalksIs
<1>2. v.keys \in Seq(Values) /\ v.objs \in Seq(Values)
  BY ValueFields
<1>3. Walks[n][v] \in Nat /\ Walks[n][v] >= 1
  <2>1. Walks[n][v] \in Nat
    BY WalksIs
  <2>2. CASE n = 0
    BY <2>2, WalksIs
  <2>3. CASE n # 0
    <3> DEFINE k == n - 1
    <3>1. k \in Nat /\ k + 1 = n
      BY <2>3
    <3> HIDE DEF k
    <3>2. Walks[k + 1][v] = 1 + Total(WalksOf(Members(v), k))
      BY <3>1, WalksIs
    <3>3. Total(WalksOf(Members(v), k)) \in Nat
      BY <3>1, MembersAreValues, WalksOfIs, TotalIs
    <3>4. QED
      BY <3>1, <3>2, <3>3
  <2>4. QED
    BY <2>1, <2>2, <2>3
<1>4. ASSUME Refers(v) PROVE Walks[n + 1][v] = 1 + Walks[n][Target(v)]
  <2> DEFINE t == Target(v)
  <2>1. Members(v) = <<t>>
    BY <1>4 DEF Members, Refers
  <2>2. t \in Values
    BY <1>4, TargetIsValue
  <2> HIDE DEF t
  <2>3. <<t>> \in Seq(Values) /\ Len(<<t>>) = 1 /\ <<t>>[1] = t
    BY <2>2
  <2> DEFINE s == <<t>>
  <2>4. s \in Seq(Values) /\ Len(s) = 1 /\ s[1] = t /\ 1 \in 1..1 /\ 1 - 1 = 0
    BY <2>3
  <2> HIDE DEF s
  <2>5. /\ Unread(s, n, 0) = Total(WalksOf(s, n)) /\ Unread(s, n, 1) = 0
        /\ Unread(s, n, 1 - 1) = Walks[n][t] + Unread(s, n, 1)
    BY <2>4, UnreadIs
  <2>6. Total(WalksOf(<<t>>, n)) = Walks[n][t]
    <3>1. Walks[n][t] \in Nat
      BY <2>2, WalksIs
    <3>2. QED
      BY <2>4, <2>5, <3>1 DEF s
  <2>7. QED
    BY <1>1, <2>1, <2>6 DEF t
<1>5. ASSUME v.kind \in Plain PROVE Walks[n + 1][v] = 1
  <2>1. Members(v) = <<>>
    BY <1>5 DEF Members, Refers, Plain
  <2>2. WalksOf(<<>>, n) = <<>>
    BY DEF WalksOf
  <2>3. QED
    BY <1>1, <2>1, <2>2, TotalOfNothing
<1>6. ASSUME v.kind = "nsarray" PROVE Walks[n + 1][v] = 1 + Unread(v.objs, n, 0)
  <2>1. Members(v) = v.objs
    BY <1>6 DEF Members, Refers
  <2>2. QED
    BY <1>1, <1>2, <2>1, UnreadIs
<1>7. ASSUME v.kind = "nsdict", Len(v.keys) = Len(v.objs)
      PROVE  Walks[n + 1][v] = 1 + (Unread(v.keys, n, 0) + Unread(v.objs, n, 0))
  <2>1. Members(v) = v.keys \o v.objs
    BY <1>7 DEF Members, Refers
  <2>2. Total(WalksOf(Members(v), n)) = Total(WalksOf(v.keys, n)) + Total(WalksOf(v.objs, n))
    BY <1>2, <2>1, WalksOfConcat
  <2>3. QED
    BY <1>1, <1>2, <2>2, UnreadIs
<1>8. QED
  BY <1>3, <1>4, <1>5, <1>6, <1>7

-----------------------------------------------------------------------------
(* The calls an open collection has still to make, and with the call about *)
(* to be made, those that the stack owes.                                  *)

Rest(v, d, p, k) ==
  IF v.kind = "nsdict"
    THEN Unread(v.keys, MaxDepth - d, p)
           + Unread(v.objs, MaxDepth - d, IF k = <<>> THEN p - 1 ELSE p)
    ELSE Unread(v.objs, MaxDepth - d, p)

RestOf(f)  == Rest(f.value, f.depth, f.pos, f.key)
Rests(s)   == [i \in DOMAIN s |-> RestOf(s[i])]
Pending(r) == IF r.mode = "call" THEN Walks[MaxDepth + 1 - r.depth][r.value] ELSE 0
Owed(r, s) == Total(Rests(s)) + Pending(r)

(* The n calls made and the o owed are the w walks; n stops at its bound.  *)
Tally(n, o, w, why) ==
  /\ n <= w
  /\ why = "running" => n + o <= w /\ (n < MaxVisits => n + o = w)
  /\ why = "Ok" /\ n < MaxVisits => n = w

TallyInv == Tally(visits, Owed(reg, stack), Walks[MaxDepth + 1][root], verdict)

LEMMA PendingIs ==
  /\ \A v, d : Pending(Calling(v, d)) = Walks[MaxDepth + 1 - d][v]
  /\ \A t : Pending(Returning(t)) = 0
  BY DEF Pending, Calling, Returning

LEMMA RestFacts ==
  ASSUME ArchiveIs, NEW v \in Values, NEW d \in Nat, d <= MaxDepth,
         NEW p \in 1..Len(v.objs), v.kind = "nsdict" => Len(v.keys) = Len(v.objs)
  PROVE  /\ MaxDepth - d \in Nat
         /\ \A k : Rest(v, d, p, k) \in Nat
         /\ v.kind = "nsarray" \/ v.kind = "nsdict" =>
              Walks[MaxDepth - d + 1][v]
                >= 1 /\ (p = 1 => Walks[MaxDepth - d + 1][v]
                           = 1 + (Rest(v, d, 1, <<>>)
                                    + Walks[MaxDepth - d][Wants(v, 1, <<>>)]))
         /\ v.kind = "nsdict" =>
              \A k : k # <<>> =>
                Rest(v, d, p, <<>>) = Rest(v, d, p, k) + Walks[MaxDepth - d][v.objs[p]]
         /\ \A k : v.kind # "nsdict" \/ k # <<>> =>
              /\ p = Len(v.objs) => Rest(v, d, p, k) = 0
              /\ p # Len(v.objs) =>
                   Rest(v, d, p, k) = Rest(v, d, p + 1, <<>>)
                                        + Walks[MaxDepth - d][Wants(v, p + 1, <<>>)]
<1> DEFINE n == MaxDepth - d
           ks == v.keys
           os == v.objs
           dict == v.kind = "nsdict"
           K(i) == Unread(ks, n, i)
           O(i) == Unread(os, n, i)
           W(x) == Walks[n][x]
<1>1. n \in Nat
  BY DepthAssumption
<1>2. /\ ks \in Seq(Values) /\ os \in Seq(Values) /\ Len(os) \in Nat /\ Len(ks) \in Nat
      /\ \A i \in 1..Len(ks) : ks[i] \in Values
      /\ \A i \in 1..Len(os) : os[i] \in Values
  BY ValueFields
<1>3. /\ \A i \in 0..Len(os) : O(i) \in Nat
      /\ O(Len(os)) = 0
      /\ \A i \in 1..Len(os) : O(i - 1) = W(os[i]) + O(i)
  <2> HIDE DEF n, os
  <2>1. QED
    BY <1>1, <1>2, UnreadIs
<1>4. /\ \A i \in 0..Len(ks) : K(i) \in Nat
      /\ K(Len(ks)) = 0
      /\ \A i \in 1..Len(ks) : K(i - 1) = W(ks[i]) + K(i)
  <2> HIDE DEF n, ks
  <2>1. QED
    BY <1>1, <1>2, UnreadIs
<1>5. /\ \A i \in 1..Len(os) : W(os[i]) \in Nat
      /\ \A i \in 1..Len(ks) : W(ks[i]) \in Nat
  <2> HIDE DEF n, ks, os
  <2>1. QED
    BY <1>1, <1>2, WalksFrom
<1>6. /\ \A k, q : dict => Rest(v, d, q, k) = K(q) + O(IF k = <<>> THEN q - 1 ELSE q)
      /\ \A k, q : ~dict => Rest(v, d, q, k) = O(q)
  BY DEF Rest
<1>7. /\ \A k, q : dict => Wants(v, q, <<>>) = ks[q]
      /\ \A k, q : ~dict => Wants(v, q, <<>>) = os[q]
  BY DEF Wants
<1>8. /\ Walks[n + 1][v] \in Nat /\ Walks[n + 1][v] >= 1
      /\ v.kind = "nsarray" => Walks[n + 1][v] = 1 + O(0)
      /\ dict => Walks[n + 1][v] = 1 + (K(0) + O(0))
  <2>1. n + 1 \in Nat
    BY <1>1
  <2> HIDE DEF n
  <2>2. QED
    BY <1>1, <2>1, WalksFrom
<1>9. p \in Nat /\ p >= 1 /\ p <= Len(os) /\ (dict => Len(ks) = Len(os))
      /\ (v.kind = "nsarray" => ~dict)
  BY <1>2
<1> HIDE DEF n, ks, os, dict, K, O, W
<1>10. /\ p \in 0..Len(os) /\ p - 1 \in 0..Len(os) /\ 0 \in 0..Len(os)
       /\ 1 \in 1..Len(os) /\ 1 \in 0..Len(os) /\ p \in 1..Len(os)
       /\ p # Len(os) => p + 1 \in 1..Len(os) /\ p + 1 \in 0..Len(os)
       /\ dict => /\ p \in 1..Len(ks) /\ p \in 0..Len(ks)
                  /\ 1 \in 1..Len(ks) /\ 1 \in 0..Len(ks)
                  /\ p # Len(os) => p + 1 \in 1..Len(ks) /\ p + 1 \in 0..Len(ks)
  <2> DEFINE l == Len(os)
  <2>1. l \in Nat /\ p \in Nat /\ p >= 1 /\ p <= l
    BY <1>2, <1>9
  <2> HIDE DEF l
  <2>2. /\ p \in 0..l /\ p - 1 \in 0..l /\ 0 \in 0..l /\ 1 \in 1..l /\ 1 \in 0..l
        /\ p \in 1..l /\ (p # l => p + 1 \in 1..l /\ p + 1 \in 0..l)
    BY <2>1
  <2>3. dict => Len(ks) = l
    BY <1>9 DEF l
  <2>4. QED
    BY <2>2, <2>3 DEF l
<1>11. \A k : Rest(v, d, p, k) \in Nat
  <2>1. p \in 0..Len(os) /\ p - 1 \in 0..Len(os) /\ (dict => p \in 0..Len(ks))
    BY <1>10
  <2>2. O(p) \in Nat /\ O(p - 1) \in Nat /\ (dict => K(p) \in Nat)
    BY <1>3, <1>4, <2>1
  <2>3. QED
    BY <1>6, <2>2
<1>12. ASSUME v.kind = "nsarray" \/ dict, p = 1
       PROVE  Walks[n + 1][v] = 1 + (Rest(v, d, 1, <<>>) + W(Wants(v, 1, <<>>)))
  <2>1. 1 \in 1..Len(os) /\ 1 - 1 = 0 /\ 0 \in 0..Len(os) /\ 1 \in 0..Len(os)
        /\ (dict => 1 \in 1..Len(ks) /\ 1 \in 0..Len(ks))
    BY <1>10
  <2>2. CASE dict
    <3>1. Rest(v, d, 1, <<>>) = K(1) + O(0)
      BY <1>6, <2>1, <2>2
    <3>2. K(0) = W(ks[1]) + K(1) /\ W(ks[1]) \in Nat /\ K(1) \in Nat /\ O(0) \in Nat
      BY <1>3, <1>4, <1>5, <2>1, <2>2
    <3>3. QED
      BY <1>7, <1>8, <2>2, <3>1, <3>2
  <2>3. CASE ~dict
    <3>1. Rest(v, d, 1, <<>>) = O(1)
      BY <1>6, <2>3
    <3>2. O(0) = W(os[1]) + O(1) /\ W(os[1]) \in Nat /\ O(1) \in Nat
      BY <1>3, <1>5, <2>1
    <3>3. QED
      BY <1>7, <1>8, <1>12, <2>3, <3>1, <3>2
  <2>4. QED
    BY <2>2, <2>3
<1>13. ASSUME dict, NEW k, k # <<>>
       PROVE  Rest(v, d, p, <<>>) = Rest(v, d, p, k) + W(os[p])
  <2>1. Rest(v, d, p, <<>>) = K(p) + O(p - 1) /\ Rest(v, d, p, k) = K(p) + O(p)
    BY <1>6, <1>13
  <2>2. O(p - 1) = W(os[p]) + O(p) /\ W(os[p]) \in Nat /\ O(p) \in Nat /\ K(p) \in Nat
    BY <1>3, <1>4, <1>5, <1>10, <1>13
  <2>3. QED
    BY <2>1, <2>2
<1>14. ASSUME NEW k, ~dict \/ k # <<>>, p = Len(os)
       PROVE  Rest(v, d, p, k) = 0
  <2>1. CASE dict
    <3>1. Rest(v, d, p, k) = K(p) + O(p)
      BY <1>6, <1>14, <2>1
    <3>2. K(p) = 0 /\ O(p) = 0
      BY <1>3, <1>4, <1>9, <1>14, <2>1
    <3>3. QED
      BY <3>1, <3>2
  <2>2. CASE ~dict
    BY <1>3, <1>6, <1>14, <2>2
  <2>3. QED
    BY <2>1, <2>2
<1>15. ASSUME NEW k, ~dict \/ k # <<>>, p # Len(os)
       PROVE  Rest(v, d, p, k) = Rest(v, d, p + 1, <<>>) + W(Wants(v, p + 1, <<>>))
  <2>1. p + 1 \in 1..Len(os) /\ (p + 1) - 1 = p /\ (dict => p + 1 \in 1..Len(ks))
        /\ p + 1 \in 0..Len(os) /\ p \in 0..Len(os) /\ (dict => p + 1 \in 0..Len(ks))
    <3>1. (p + 1) - 1 = p
      BY <1>9
    <3>2. QED
      BY <1>10, <1>15, <3>1
  <2>2. CASE dict
    <3>1. Rest(v, d, p, k) = K(p) + O(p) /\ Rest(v, d, p + 1, <<>>) = K(p + 1) + O(p)
      BY <1>6, <1>15, <2>1, <2>2
    <3>2. K(p) = W(ks[p + 1]) + K(p + 1) /\ W(ks[p + 1]) \in Nat
          /\ K(p + 1) \in Nat /\ O(p) \in Nat
      BY <1>3, <1>4, <1>5, <2>1, <2>2
    <3>3. QED
      BY <1>7, <2>2, <3>1, <3>2
  <2>3. CASE ~dict
    <3>1. Rest(v, d, p, k) = O(p) /\ Rest(v, d, p + 1, <<>>) = O(p + 1)
      BY <1>6, <2>3
    <3>2. O(p) = W(os[p + 1]) + O(p + 1) /\ W(os[p + 1]) \in Nat /\ O(p + 1) \in Nat
      BY <1>3, <1>5, <2>1
    <3>3. QED
      BY <1>7, <2>3, <3>1, <3>2
  <2>4. QED
    BY <2>2, <2>3
<1>16. QED
  BY <1>1, <1>8, <1>11, <1>12, <1>13, <1>14, <1>15 DEF n, os, dict, W

LEMMA ReadsRest ==
  ASSUME ArchiveIs, NEW f, FrameReads(f)
  PROVE  /\ f.value \in Values /\ f.depth \in Nat /\ f.depth <= MaxDepth
         /\ f.pos \in 1..Len(f.value.objs)
         /\ f.value.kind = "nsdict" => Len(f.value.keys) = Len(f.value.objs)
         /\ f.value.kind \in {"nsarray", "nsdict"}
         /\ RestOf(f) \in Nat
<1>1. /\ f.value \in Values /\ f.depth \in Nat /\ f.depth <= MaxDepth
      /\ f.pos \in 1..Len(f.value.objs)
  BY DEF FrameReads, Reads
<1>2. /\ f.value.kind = "nsdict" => Len(f.value.keys) = Len(f.value.objs)
      /\ f.value.kind \in {"nsarray", "nsdict"}
  BY DEF FrameReads, Reads, ReadsArray, ReadsDict
<1>3. RestOf(f) \in Nat
  BY <1>1, <1>2, RestFacts DEF RestOf
<1>4. QED
  BY <1>1, <1>2, <1>3

LEMMA RestsIs ==
  ASSUME ArchiveIs, NEW s, IsStack(s), Sound(s)
  PROVE  /\ Rests(s) \in Seq(Nat) /\ Len(Rests(s)) = Len(s) /\ Len(s) \in Nat
         /\ DOMAIN s = 1..Len(s)
         /\ \A i \in 1..Len(s) : Rests(s)[i] = RestOf(s[i])
<1>1. PICK S : s \in Seq(S)
  BY DEF IsStack
<1>2. DOMAIN s = 1..Len(s) /\ Len(s) \in Nat
  BY <1>1
<1>3. \A i \in 1..Len(s) : RestOf(s[i]) \in Nat
  BY <1>2, ReadsRest DEF Sound
<1> DEFINE n == Len(s)
           r == [i \in 1..n |-> RestOf(s[i])]
<1>4. Rests(s) = r
  BY <1>2 DEF Rests
<1> HIDE DEF n
<1>5. r \in Seq(Nat) /\ Len(r) = n
  BY <1>2, <1>3 DEF n
<1>6. \A i \in 1..n : r[i] = RestOf(s[i])
  OBVIOUS
<1> HIDE DEF r
<1>7. QED
  BY <1>2, <1>4, <1>5, <1>6 DEF n

(* One collection more is open in t than in s. *)
LEMMA LastRest ==
  ASSUME ArchiveIs, NEW s, IsStack(s), Sound(s), NEW t, IsStack(t), Sound(t),
         Len(t) = Len(s) + 1, \A i \in 1..Len(s) : s[i] = t[i]
  PROVE  /\ Total(Rests(t)) = Total(Rests(s)) + RestOf(t[Len(t)])
         /\ Total(Rests(s)) \in Nat /\ RestOf(t[Len(t)]) \in Nat
<1> DEFINE a == Rests(s)
           b == Rests(t)
           n == Len(s)
<1>1. /\ a \in Seq(Nat) /\ Len(a) = n /\ n \in Nat /\ \A i \in 1..n : a[i] = RestOf(s[i])
      /\ b \in Seq(Nat) /\ Len(b) = n + 1 /\ \A i \in 1..(n + 1) : b[i] = RestOf(t[i])
  BY RestsIs
<1> HIDE DEF a, b, n
<1>2. \A i \in 1..n : a[i] = b[i]
  BY <1>1 DEF n
<1>3. n <= Len(a) /\ n <= Len(b) /\ n + 1 \in 1..Len(b)
  BY <1>1
<1>4. SumOf(a)[n] = SumOf(b)[n]
  BY <1>1, <1>2, <1>3, SumsAgree
<1>5. SumOf(b)[n + 1] = SumOf(b)[n] + b[n + 1]
  BY <1>1, <1>3, SumOfIs
<1>6. Total(b) = Total(a) + RestOf(t[n + 1])
  BY <1>1, <1>4, <1>5 DEF Total
<1>7. b[n + 1] \in Nat /\ Total(a) \in Nat
  BY <1>1, <1>3, TotalIs
<1>8. QED
  BY <1>1, <1>3, <1>6, <1>7 DEF a, b, n

LEMMA PushOwes ==
  ASSUME ArchiveIs, NEW s, IsStack(s), Sound(s),
         NEW e, IsStack(Append(s, e)), Sound(Append(s, e))
  PROVE  /\ Total(Rests(Append(s, e))) = Total(Rests(s)) + RestOf(e)
         /\ Total(Rests(s)) \in Nat /\ RestOf(e) \in Nat
<1>1. PICK S : s \in Seq(S)
  BY DEF IsStack
<1> DEFINE t == Append(s, e)
<1>2. Len(t) = Len(s) + 1 /\ (\A i \in 1..Len(s) : s[i] = t[i]) /\ t[Len(t)] = e
  BY <1>1, PushFacts
<1>3. IsStack(t) /\ Sound(t)
  OBVIOUS
<1> HIDE DEF t
<1>4. QED
  BY <1>2, <1>3, LastRest DEF t

LEMMA PopOwes ==
  ASSUME ArchiveIs, NEW s, IsStack(s), Sound(s), s # <<>>
  PROVE  LET e == s[Len(s)]
             t == SubSeq(s, 1, Len(s) - 1)
         IN  /\ Total(Rests(s)) = Total(Rests(t)) + RestOf(e)
             /\ Total(Rests(t)) \in Nat /\ RestOf(e) \in Nat
<1>1. PICK S : s \in Seq(S)
  BY DEF IsStack
<1> DEFINE t == SubSeq(s, 1, Len(s) - 1)
<1>2. Len(s) \in Nat /\ Len(t) = Len(s) - 1 /\ \A i \in 1..Len(s) - 1 : t[i] = s[i]
  BY <1>1, PopFacts
<1>3. Sound(t) /\ IsStack(t)
  BY PopSound
<1> HIDE DEF t
<1>4. Len(s) = Len(t) + 1 /\ \A i \in 1..Len(t) : t[i] = s[i]
  BY <1>2
<1>5. /\ Total(Rests(s)) = Total(Rests(t)) + RestOf(s[Len(s)])
      /\ Total(Rests(t)) \in Nat /\ RestOf(s[Len(s)]) \in Nat
  BY <1>3, <1>4, LastRest
<1>6. QED
  BY <1>5 DEF t

-----------------------------------------------------------------------------
(* Each step keeps the tally.                                              *)

LEMMA TallySpends ==
  ASSUME visits \in 0..MaxVisits, NEW o \in Nat, NEW w \in Nat,
         Tally(visits, 1 + o, w, "running"), Counted, NEW why, why # "Ok"
  PROVE  Tally(visits', o, w, why)
<1>1. visits + (1 + o) <= w /\ (visits < MaxVisits => visits + (1 + o) = w)
      /\ visits \in Nat /\ visits <= MaxVisits /\ MaxVisits \in Nat
  BY DepthAssumption DEF Tally
<1>2. visits' = IF visits < MaxVisits THEN visits + 1 ELSE visits
  BY DEF Counted
<1>3. visits' + o <= w /\ (visits' < MaxVisits => visits' + o = w) /\ visits' <= w
  <2>1. CASE visits < MaxVisits
    BY <1>1, <1>2, <2>1
  <2>2. CASE ~(visits < MaxVisits)
    BY <1>1, <1>2, <2>2
  <2>3. QED
    BY <2>1, <2>2
<1>4. QED
  BY <1>3 DEF Tally

(* A call that fails is one of those owed. *)
LEMMA TallyFails ==
  ASSUME visits \in 0..MaxVisits, NEW o \in Nat, o >= 1, NEW w \in Nat,
         Tally(visits, o, w, "running"), Counted, NEW why \in Failures, NEW o2
  PROVE  Tally(visits', o2, w, why)
<1> DEFINE m == o - 1
<1>1. m \in Nat /\ o = 1 + m
  OBVIOUS
<1> HIDE DEF m
<1>2. Tally(visits', m, w, "TooDeep")
  BY <1>1, TallySpends
<1>3. why # "Ok" /\ why # "running"
  BY DEF Failures
<1>4. QED
  BY <1>2, <1>3 DEF Tally

LEMMA TallyCalled ==
  ASSUME IInv, Holds(stack, reg, verdict), TallyInv, Called
  PROVE  /\ visits \in 0..MaxVisits
         /\ Walks[MaxDepth + 1][root] \in Nat
         /\ Total(Rests(stack)) \in Nat
         /\ Walks[MaxDepth + 1 - reg.depth][reg.value] \in Nat
         /\ Walks[MaxDepth + 1 - reg.depth][reg.value] >= 1
         /\ Tally(visits, Total(Rests(stack))
                            + Walks[MaxDepth + 1 - reg.depth][reg.value],
                  Walks[MaxDepth + 1][root], "running")
<1>1. ArchiveIs /\ IsStack(stack) /\ Sound(stack) /\ verdict = "running"
      /\ reg.value \in Values /\ reg.depth \in 0..(MaxDepth + 1)
  BY CalledFacts
<1>2. MaxDepth + 1 \in Nat /\ MaxDepth + 1 - reg.depth \in Nat
  BY <1>1, DepthAssumption
<1>3. Walks[MaxDepth + 1][root] \in Nat
  BY <1>1, <1>2, WalksFrom DEF ArchiveIs
<1>4. /\ Walks[MaxDepth + 1 - reg.depth][reg.value] \in Nat
      /\ Walks[MaxDepth + 1 - reg.depth][reg.value] >= 1
  BY <1>1, <1>2, WalksFrom
<1>5. Total(Rests(stack)) \in Nat
  BY <1>1, RestsIs, TotalIs
<1>6. Pending(reg) = Walks[MaxDepth + 1 - reg.depth][reg.value]
  BY DEF Pending, Called
<1>7. QED
  BY <1>1, <1>3, <1>4, <1>5, <1>6 DEF TallyInv, Owed, IInv, Counters

(* The tally after a step, of the archive as it was before. *)
Tallied == Tally(visits', Owed(reg', stack'), Walks[MaxDepth + 1][root], verdict')

(* A call that is made is one owed less; a return owes as much as before,  *)
(* and is followed by a call or closes a collection.                       *)
Spent ==
  verdict' = "running" =>
    IF reg.mode = "call"
      THEN Owed(reg, stack) = 1 + Owed(reg', stack')
      ELSE /\ Owed(reg', stack') = Owed(reg, stack)
           /\ reg'.mode = "return" => Len(stack') < Len(stack)

Paid == Tallied /\ Spent

LEMMA CallFails ==
  ASSUME IInv, Holds(stack, reg, verdict), TallyInv, Called, Counted,
         NEW why \in Failures, Fail(why)
  PROVE  Paid
<1> DEFINE o == Total(Rests(stack)) + Walks[MaxDepth + 1 - reg.depth][reg.value]
           w == Walks[MaxDepth + 1][root]
<1>1. /\ visits \in 0..MaxVisits /\ w \in Nat /\ o \in Nat /\ o >= 1
      /\ Tally(visits, o, w, "running")
  BY TallyCalled
<1>2. verdict' = why
  BY DEF Fail
<1> HIDE DEF o, w
<1>3. \A o2 : Tally(visits', o2, w, why)
  BY <1>1, TallyFails
<1>4. QED
  BY <1>2, <1>3 DEF Paid, Tallied, Spent, Failures, w

(* One call is made, and owed is what it calls for in its turn. *)
LEMMA CallSpends ==
  ASSUME IInv, Holds(stack, reg, verdict), TallyInv, Called, Counted,
         verdict' = verdict, NEW x \in Nat,
         Walks[MaxDepth + 1 - reg.depth][reg.value] = 1 + x,
         Owed(reg', stack') = Total(Rests(stack)) + x
  PROVE  Paid
<1> DEFINE r == Total(Rests(stack))
           w == Walks[MaxDepth + 1][root]
           o == r + x
<1>1. /\ visits \in 0..MaxVisits /\ w \in Nat /\ r \in Nat
      /\ Tally(visits, r + (1 + x), w, "running")
  BY TallyCalled
<1>2. verdict' = "running" /\ Owed(reg', stack') = o
  BY DEF Called
<1> HIDE DEF r, w
<1>3. o \in Nat /\ r + (1 + x) = 1 + o
  BY <1>1
<1> HIDE DEF o
<1>4. Tally(visits', o, w, "running")
  BY <1>1, <1>3, TallySpends
<1>5. Owed(reg, stack) = r + (1 + x) /\ reg.mode = "call"
  BY DEF Owed, Pending, Called, r
<1>6. QED
  BY <1>2, <1>3, <1>4, <1>5 DEF Paid, Tallied, Spent, w

LEMMA TooDeepTallied ==
  ASSUME IInv, Holds(stack, reg, verdict), TallyInv, TooDeep PROVE Paid
  BY CallFails DEF TooDeep, Failures

LEMMA FollowTallied ==
  ASSUME IInv, Holds(stack, reg, verdict), TallyInv, Follow PROVE Paid
<1> DEFINE v == reg.value
           d == reg.depth
           n == MaxDepth - d
<1>1. Called /\ d <= MaxDepth /\ v.kind = "uid" /\ Counted
  BY DEF Follow, Visit
<1>2. ArchiveIs /\ v \in Values /\ d \in 0..(MaxDepth + 1)
  BY <1>1, CalledFacts
<1>3. CASE ~InObjects(v)
  BY <1>1, <1>3, CallFails DEF Follow, Failures
<1>4. CASE InObjects(v)
  <2>1. /\ reg' = Calling(Target(v), d + 1) /\ stack' = stack /\ verdict' = verdict
    BY <1>4 DEF Follow
  <2>2. Refers(v) /\ Target(v) \in Values
    BY <1>1, <1>2, <1>4, TargetIsValue DEF Refers
  <2>3. n \in Nat /\ MaxDepth + 1 - d = n + 1 /\ MaxDepth + 1 - (d + 1) = n
    BY <1>1, <1>2, DepthAssumption
  <2> DEFINE x == Walks[n][Target(v)]
  <2>4. x \in Nat /\ Walks[n + 1][v] = 1 + x
    <3> HIDE DEF n, v
    <3>1. QED
      BY <1>2, <2>2, <2>3, WalksFrom
  <2>5. Pending(reg') = x
    <3>1. Pending(reg') = Walks[MaxDepth + 1 - (d + 1)][Target(v)]
      BY <2>1, PendingIs
    <3>2. QED
      BY <2>3, <3>1
  <2>6. Owed(reg', stack') = Total(Rests(stack)) + x
    BY <2>1, <2>5 DEF Owed
  <2>7. Walks[MaxDepth + 1 - reg.depth][reg.value] = 1 + x
    BY <2>3, <2>4
  <2> HIDE DEF x
  <2>8. QED
    BY <1>1, <2>1, <2>4, <2>6, <2>7, CallSpends
<1>5. QED
  BY <1>3, <1>4

(* A value that calls for nothing: it returns at once. *)
LEMMA ReturnTallied ==
  ASSUME IInv, Holds(stack, reg, verdict), TallyInv, Called, Counted,
         NEW t, reg' = Returning(t), stack' = stack, verdict' = verdict,
         Walks[MaxDepth + 1 - reg.depth][reg.value] = 1
  PROVE  Paid
<1>1. Pending(reg') = 0
  BY PendingIs
<1>2. Owed(reg', stack') = Total(Rests(stack)) + 0
  BY <1>1 DEF Owed
<1>3. Walks[MaxDepth + 1 - reg.depth][reg.value] = 1 + 0
  OBVIOUS
<1>4. QED
  BY <1>2, <1>3, CallSpends

LEMMA PassThroughTallied ==
  ASSUME IInv, Holds(stack, reg, verdict), TallyInv, PassThrough PROVE Paid
<1> DEFINE v == reg.value
           n == MaxDepth - reg.depth
<1>1. /\ Called /\ reg.depth <= MaxDepth /\ v.kind \in Plain /\ Counted
      /\ reg' = Returning(AsIs(v)) /\ stack' = stack /\ verdict' = verdict
  BY DEF PassThrough, Visit, Plain
<1>2. ArchiveIs /\ v \in Values /\ reg.depth \in 0..(MaxDepth + 1)
  BY <1>1, CalledFacts
<1>3. n \in Nat /\ MaxDepth + 1 - reg.depth = n + 1
  BY <1>1, <1>2, DepthAssumption
<1>4. Walks[n + 1][v] = 1
  <2> HIDE DEF n, v
  <2>1. QED
    BY <1>1, <1>2, <1>3, WalksFrom
<1>5. QED
  BY <1>1, <1>3, <1>4, ReturnTallied

LEMMA EnterTallied ==
  ASSUME IInv, Holds(stack, reg, verdict), TallyInv, Enter,
         Sound(stack'), IsStack(stack')
  PROVE  Paid
<1> DEFINE v == reg.value
           d == reg.depth
           n == MaxDepth - d
           first == IF v.kind = "nsdict" THEN v.keys[1] ELSE v.objs[1]
<1>1. Called /\ d <= MaxDepth /\ v.kind \in {"nsarray", "nsdict"} /\ Counted
  BY DEF Enter, Visit
<1>2. /\ ArchiveIs /\ v \in Values /\ d \in 0..(MaxDepth + 1)
      /\ IsStack(stack) /\ Sound(stack)
  BY <1>1, CalledFacts
<1>3. n \in Nat /\ MaxDepth + 1 - d = n + 1 /\ d \in Nat
      /\ MaxDepth + 1 - MemberDepth(d) = n
  BY <1>1, <1>2, DepthAssumption DEF MemberDepth
<1>4. CASE v.kind = "nsdict" /\ Len(v.keys) # Len(v.objs)
  BY <1>1, <1>4, CallFails DEF Enter, Failures
<1>5. CASE ~(v.kind = "nsdict" /\ Len(v.keys) # Len(v.objs)) /\ v.objs = <<>>
  <2>1. /\ \E t : reg' = Returning(t)
        /\ stack' = stack /\ verdict' = verdict
    BY <1>5, Zenon DEF Enter
  <2>2. Walks[n + 1][v] = 1
    <3>1. Len(v.objs) = 0 /\ (v.kind = "nsdict" => Len(v.keys) = 0)
          /\ v.objs \in Seq(Values) /\ v.keys \in Seq(Values)
      BY <1>2, <1>5, ValueFields
    <3> HIDE DEF n, v
    <3>2. Unread(v.objs, n, 0) = 0 /\ (v.kind = "nsdict" => Unread(v.keys, n, 0) = 0)
      BY <1>2, <1>3, <3>1, UnreadIs
    <3>3. CASE v.kind = "nsarray"
      <4>1. Walks[n + 1][v] = 1 + Unread(v.objs, n, 0)
        BY <1>2, <1>3, <3>3, WalksFrom
      <4>2. QED
        BY <3>2, <4>1
    <3>4. CASE v.kind = "nsdict"
      <4>1. Len(v.keys) = Len(v.objs)
        BY <3>1, <3>4
      <4>2. Walks[n + 1][v] = 1 + (Unread(v.keys, n, 0) + Unread(v.objs, n, 0))
        BY <1>2, <1>3, <3>4, <4>1, WalksFrom
      <4>3. QED
        BY <3>2, <3>4, <4>2
    <3>5. QED
      BY <1>1, <3>3, <3>4
  <2>3. QED
    BY <1>1, <1>3, <2>1, <2>2, ReturnTallied
<1>6. CASE ~(v.kind = "nsdict" /\ Len(v.keys) # Len(v.objs)) /\ v.objs # <<>>
  <2> DEFINE e == Frame(v, d)
  <2>1. /\ reg' = Calling(first, MemberDepth(d))
        /\ stack' = Append(stack, e)
        /\ verdict' = verdict
    BY <1>6 DEF Enter
  <2>2. RestOf(e) = Rest(v, d, 1, <<>>)
    BY DEF RestOf, Frame
  <2>3. first = Wants(v, 1, <<>>)
    BY DEF Wants
  <2> DEFINE x == Rest(v, d, 1, <<>>) + Walks[n][first]
  <2>4. Pending(reg') = Walks[n][first]
    <3>1. Pending(reg') = Walks[MaxDepth + 1 - MemberDepth(d)][first]
      BY <2>1, PendingIs
    <3>2. QED
      BY <1>3, <3>1
  <2>5. /\ Total(Rests(stack')) = Total(Rests(stack)) + RestOf(e)
        /\ Total(Rests(stack)) \in Nat /\ RestOf(e) \in Nat
    <3> HIDE DEF e
    <3>1. QED
      BY <1>2, <2>1, PushOwes
  <2>6. Walks[n + 1][v] = 1 + x
    <3>1. 1 \in 1..Len(v.objs)
      BY <1>2, <1>6, ValueFields
    <3>2. v.kind = "nsdict" => Len(v.keys) = Len(v.objs)
      BY <1>6
    <3> HIDE DEF v, d, first
    <3>3. Walks[MaxDepth - d + 1][v]
            = 1 + (Rest(v, d, 1, <<>>) + Walks[MaxDepth - d][Wants(v, 1, <<>>)])
      BY <1>1, <1>2, <1>3, <3>1, <3>2, RestFacts
    <3>4. QED
      BY <2>3, <3>3
  <2>7. Walks[n][first] \in Nat
    <3>1. first \in Values
      BY <1>2, <1>6, ValueFields
    <3> HIDE DEF first, n
    <3>2. QED
      BY <1>2, <1>3, <3>1, WalksFrom
  <2> HIDE DEF e, first
  <2>8. x \in Nat /\ Owed(reg', stack') = Total(Rests(stack)) + x
    BY <2>2, <2>4, <2>5, <2>7 DEF Owed
  <2>9. Walks[MaxDepth + 1 - reg.depth][reg.value] = 1 + x
    BY <1>3, <2>6
  <2> HIDE DEF x
  <2>10. QED
    BY <1>1, <2>1, <2>8, <2>9, CallSpends
<1>7. QED
  BY <1>4, <1>5, <1>6

(* A return makes no call: what is owed is shifted. *)
LEMMA TallyReturned ==
  ASSUME IInv, Holds(stack, reg, verdict), TallyInv, Returned
  PROVE  /\ ArchiveIs /\ verdict = "running" /\ IsStack(Below) /\ Sound(Below)
         /\ IsFrame(Top) /\ FrameReads(Top)
         /\ Total(Rests(Below)) \in Nat /\ RestOf(Top) \in Nat
         /\ Tally(visits, Total(Rests(Below)) + RestOf(Top),
                  Walks[MaxDepth + 1][root], "running")
         /\ Owed(reg, stack) = Total(Rests(Below)) + RestOf(Top)
         /\ reg.mode = "return" /\ Len(Below) < Len(stack)
<1>1. ArchiveIs /\ verdict = "running" /\ IsStack(Below) /\ Sound(Below)
      /\ IsFrame(Top) /\ FrameReads(Top)
  BY TopFacts DEF FrameReads
<1>2. IsStack(stack) /\ Sound(stack) /\ stack # <<>> /\ reg.mode = "return"
  BY DEF IInv, Good, Holds, Returned
<1>3. /\ Total(Rests(stack)) = Total(Rests(Below)) + RestOf(Top)
      /\ Total(Rests(Below)) \in Nat /\ RestOf(Top) \in Nat
  BY <1>1, <1>2, PopOwes DEF Top, Below
<1>4. Pending(reg) = 0
  BY <1>2 DEF Pending
<1>5. Owed(reg, stack) = Total(Rests(Below)) + RestOf(Top)
  BY <1>3, <1>4 DEF Owed
<1>6. Len(Below) < Len(stack)
  <2>1. PICK S : stack \in Seq(S)
    BY <1>2 DEF IsStack
  <2>2. Len(stack) \in Nat /\ Len(Below) = Len(stack) - 1
    BY <1>2, <2>1, PopFacts DEF Below
  <2>3. QED
    BY <2>2
<1>7. QED
  BY <1>1, <1>2, <1>3, <1>5, <1>6 DEF TallyInv

LEMMA TakeKeyTallied ==
  ASSUME IInv, Holds(stack, reg, verdict), TallyInv, TakeKey,
         Sound(stack'), IsStack(stack')
  PROVE  Paid
<1> DEFINE v == Top.value
           d == Top.depth
           p == Top.pos
           n == MaxDepth - d
           w == Walks[MaxDepth + 1][root]
<1>1. Returned /\ v.kind = "nsdict" /\ Top.key = <<>> /\ visits' = visits
  BY DEF TakeKey, KeyPending
<1>2. /\ ArchiveIs /\ verdict = "running" /\ IsStack(Below) /\ Sound(Below)
      /\ IsFrame(Top) /\ FrameReads(Top)
      /\ Total(Rests(Below)) \in Nat /\ RestOf(Top) \in Nat
      /\ Tally(visits, Total(Rests(Below)) + RestOf(Top), w, "running")
      /\ Owed(reg, stack) = Total(Rests(Below)) + RestOf(Top)
      /\ reg.mode = "return" /\ Len(Below) < Len(stack)
  BY <1>1, TallyReturned
<1>3. CASE reg.tree.kind # "string"
  <2>1. verdict' = "Key"
    BY <1>3 DEF TakeKey, Fail
  <2>2. QED
    BY <1>1, <1>2, <2>1 DEF Paid, Tallied, Tally, Spent
<1>4. CASE reg.tree.kind = "string"
  <2> DEFINE k == <<reg.tree.name>>
             e == [Top EXCEPT !.key = k]
             o == v.objs[p]
  <2>1. /\ stack' = Append(Below, e)
        /\ reg' = Calling(o, MemberDepth(d))
        /\ verdict' = verdict
    BY <1>4 DEF TakeKey
  <2>2. RestOf(e) = Rest(v, d, p, k)
    <3>1. PICK v1, d1, p1, k1, is, es : Top = Rec(v1, d1, p1, k1, is, es)
      BY <1>2 DEF IsFrame, Rec
    <3>2. v = v1 /\ d = d1 /\ p = p1
      BY <3>1, RecFields
    <3> HIDE DEF k
    <3>3. e = Rec(v1, d1, p1, k, is, es)
      BY <3>1 DEF Rec
    <3> HIDE DEF e
    <3>4. e.value = v1 /\ e.depth = d1 /\ e.pos = p1 /\ e.key = k
      BY <3>3, RecFields
    <3>5. QED
      BY <3>2, <3>4 DEF RestOf
  <2>3. /\ v \in Values /\ d \in Nat /\ d <= MaxDepth /\ p \in 1..Len(v.objs)
        /\ v.kind = "nsdict" => Len(v.keys) = Len(v.objs)
    BY <1>2, ReadsRest
  <2>4. k # <<>>
    OBVIOUS
  <2>5. RestOf(Top) = Rest(v, d, p, <<>>)
    BY <1>1 DEF RestOf
  <2>6. /\ n \in Nat /\ Rest(v, d, p, <<>>) = Rest(v, d, p, k) + Walks[n][o]
        /\ Rest(v, d, p, k) \in Nat
    <3> HIDE DEF v, d, p, k
    <3>1. QED
      BY <1>1, <1>2, <2>3, <2>4, RestFacts
  <2>7. Walks[n][o] \in Nat
    <3>1. o \in Values
      BY <2>3, ValueFields
    <3> HIDE DEF o, n
    <3>2. QED
      BY <1>2, <2>6, <3>1, WalksFrom
  <2>8. Pending(reg') = Walks[n][o]
    <3>1. Pending(reg') = Walks[MaxDepth + 1 - MemberDepth(d)][o]
      BY <2>1, PendingIs
    <3>2. MaxDepth + 1 - MemberDepth(d) = n
      BY <2>3, DepthAssumption DEF MemberDepth
    <3>3. QED
      BY <3>1, <3>2
  <2>9. Total(Rests(stack')) = Total(Rests(Below)) + RestOf(e)
    <3> HIDE DEF e
    <3>1. QED
      BY <1>2, <2>1, PushOwes
  <2>10. Owed(reg', stack') = Total(Rests(Below)) + RestOf(Top)
    <3> HIDE DEF e, k, o, v, d, p, n
    <3>1. QED
      BY <1>2, <2>2, <2>5, <2>6, <2>7, <2>8, <2>9 DEF Owed
  <2>11. reg'.mode = "call"
    BY <2>1 DEF Calling
  <2>12. QED
    BY <1>1, <1>2, <2>1, <2>10, <2>11 DEF Paid, Tallied, Spent
<1>5. QED
  BY <1>3, <1>4

(* The frame a member's return leaves, whatever the member was. *)
LEMMA NextFrame ==
  ASSUME NEW f, IsFrame(f), NEW g, NEW p, NEW is2, NEW es2,
         \/ g = [f EXCEPT !.items = is2]
         \/ g = [f EXCEPT !.entries = es2]
  PROVE  /\ g.pos = f.pos
         /\ RestOf(Moved(g, p, <<>>)) = Rest(f.value, f.depth, p, <<>>)
<1>1. PICK v1, d1, p1, k1, is, es : f = Rec(v1, d1, p1, k1, is, es)
  BY DEF IsFrame, Rec
<1>2. f.value = v1 /\ f.depth = d1 /\ f.pos = p1
  BY <1>1, RecFields
<1>3. /\ [f EXCEPT !.items = is2] = Rec(v1, d1, p1, k1, is2, es)
      /\ [f EXCEPT !.entries = es2] = Rec(v1, d1, p1, k1, is, es2)
  BY <1>1, RecJoins
<1>4. PICK is3, es3 : g = Rec(v1, d1, p1, k1, is3, es3)
  BY <1>3
<1>5. g.pos = p1
  BY <1>4, RecFields
<1>6. Moved(g, p, <<>>) = Rec(v1, d1, p, <<>>, is3, es3)
  BY <1>4, RecMoves
<1> DEFINE h == Moved(g, p, <<>>)
<1> HIDE DEF h
<1>7. h.value = v1 /\ h.depth = d1 /\ h.pos = p /\ h.key = <<>>
  BY <1>6, RecFields DEF h
<1>8. RestOf(h) = Rest(v1, d1, p, <<>>)
  BY <1>7 DEF RestOf
<1>9. QED
  BY <1>2, <1>5, <1>8 DEF h

LEMMA TakeMemberTallied ==
  ASSUME IInv, Holds(stack, reg, verdict), TallyInv, TakeMember,
         Sound(stack'), IsStack(stack')
  PROVE  Paid
<1> DEFINE v == Top.value
           d == Top.depth
           p == Top.pos
           k == Top.key
           n == MaxDepth - d
           w == Walks[MaxDepth + 1][root]
           full == IF v.kind = "nsdict"
                     THEN [Top EXCEPT !.entries = Insert(@, Top.key[1], reg.tree)]
                     ELSE [Top EXCEPT !.items = Append(@, reg.tree)]
           next == [full EXCEPT !.pos = @ + 1, !.key = <<>>]
           m == IF v.kind = "nsdict" THEN v.keys[p + 1] ELSE v.objs[p + 1]
<1>1. /\ Returned /\ visits' = visits /\ verdict' = verdict
      /\ v.kind # "nsdict" \/ k # <<>>
  BY DEF TakeMember, KeyPending
<1>2. /\ ArchiveIs /\ verdict = "running" /\ IsStack(Below) /\ Sound(Below)
      /\ IsFrame(Top) /\ FrameReads(Top)
      /\ Total(Rests(Below)) \in Nat /\ RestOf(Top) \in Nat
      /\ Tally(visits, Total(Rests(Below)) + RestOf(Top), w, "running")
      /\ Owed(reg, stack) = Total(Rests(Below)) + RestOf(Top)
      /\ reg.mode = "return" /\ Len(Below) < Len(stack)
  BY <1>1, TallyReturned
<1>3. \/ /\ p = Len(v.objs) /\ stack' = Below
         /\ \E t : reg' = Returning(t)
      \/ /\ p # Len(v.objs) /\ stack' = Append(Below, next)
         /\ reg' = Calling(m, MemberDepth(d))
  BY Zenon DEF TakeMember
<1>4. /\ v \in Values /\ d \in Nat /\ d <= MaxDepth /\ p \in 1..Len(v.objs)
      /\ v.kind = "nsdict" => Len(v.keys) = Len(v.objs)
  BY <1>2, ReadsRest
<1>5. RestOf(Top) = Rest(v, d, p, k)
  BY DEF RestOf
<1>6. /\ n \in Nat
      /\ p = Len(v.objs) => Rest(v, d, p, k) = 0
      /\ p # Len(v.objs) =>
           Rest(v, d, p, k) = Rest(v, d, p + 1, <<>>) + Walks[n][Wants(v, p + 1, <<>>)]
  <2> HIDE DEF v, d, p, k
  <2>1. QED
    BY <1>1, <1>2, <1>4, RestFacts
<1>7. CASE p = Len(v.objs)
  <2>1. stack' = Below /\ Pending(reg') = 0
    BY <1>3, <1>7, PendingIs
  <2>2. Owed(reg', stack') = Total(Rests(Below)) + RestOf(Top)
    BY <1>2, <1>5, <1>6, <1>7, <2>1 DEF Owed
  <2>3. QED
    BY <1>1, <1>2, <2>1, <2>2 DEF Paid, Tallied, Spent
<1>8. CASE p # Len(v.objs)
  <2>1. stack' = Append(Below, next) /\ reg' = Calling(m, MemberDepth(d))
    BY <1>3, <1>8
  <2>2. m = Wants(v, p + 1, <<>>)
    BY DEF Wants
  <2>3. RestOf(next) = Rest(v, d, p + 1, <<>>)
    <3>1. \/ full = [Top EXCEPT !.items = Append(Top.items, reg.tree)]
          \/ full = [Top EXCEPT !.entries = Insert(Top.entries, Top.key[1], reg.tree)]
      OBVIOUS
    <3>2. next = Moved(full, full.pos + 1, <<>>)
      BY DEF Moved
    <3> HIDE DEF full, next
    <3>3. IsFrame(Top)
      BY <1>2
    <3>4. \A q : full.pos = p /\ RestOf(Moved(full, q, <<>>)) = Rest(v, d, q, <<>>)
      BY <3>1, <3>3, NextFrame
    <3>5. QED
      BY <3>2, <3>4
  <2>4. Pending(reg') = Walks[n][m]
    <3>1. Pending(reg') = Walks[MaxDepth + 1 - MemberDepth(d)][m]
      BY <2>1, PendingIs
    <3>2. MaxDepth + 1 - MemberDepth(d) = n
      BY <1>4, DepthAssumption DEF MemberDepth
    <3>3. QED
      BY <3>1, <3>2
  <2>5. Total(Rests(stack')) = Total(Rests(Below)) + RestOf(next) /\ RestOf(next) \in Nat
    <3> HIDE DEF next
    <3>1. QED
      BY <1>2, <2>1, PushOwes
  <2>6. Walks[n][m] \in Nat
    <3>1. m \in Values
      <4>1. p + 1 \in 1..Len(v.objs)
        BY <1>4, <1>8, ValueFields
      <4>2. QED
        BY <1>4, <4>1, ValueFields
    <3> HIDE DEF m, n
    <3>2. QED
      BY <1>2, <1>6, <3>1, WalksFrom
  <2>7. Owed(reg', stack') = Total(Rests(Below)) + RestOf(Top)
    <3> HIDE DEF next, m, v, d, p, k, n
    <3>1. QED
      BY <1>2, <1>5, <1>6, <1>8, <2>2, <2>3, <2>4, <2>5, <2>6 DEF Owed
  <2>8. reg'.mode = "call"
    BY <2>1 DEF Calling
  <2>9. QED
    BY <1>1, <1>2, <2>7, <2>8 DEF Paid, Tallied, Spent
<1>9. QED
  BY <1>7, <1>8

LEMMA FinishRootTallied ==
  ASSUME IInv, Holds(stack, reg, verdict), TallyInv, FinishRoot PROVE Paid
<1>1. /\ verdict = "running" /\ reg.mode = "return" /\ stack = <<>>
      /\ verdict' \in {"Ok", "NotADictionary"}
      /\ reg' = reg /\ stack' = stack /\ visits' = visits
  BY DEF FinishRoot
<1>2. Rests(<<>>) = <<>>
  BY DEF Rests
<1>3. Owed(reg, stack) = 0
  BY <1>1, <1>2, TotalOfNothing DEF Owed, Pending
<1>4. visits \in Nat
  BY DEF IInv, Counters
<1> DEFINE w == Walks[MaxDepth + 1][root]
<1>5. visits <= w /\ (visits < MaxVisits => visits + 0 = w)
  BY <1>1, <1>3 DEF TallyInv, Tally
<1> HIDE DEF w
<1>6. visits <= w /\ (visits < MaxVisits => visits = w)
  BY <1>4, <1>5
<1>7. QED
  BY <1>1, <1>6 DEF Paid, Tallied, Tally, Spent, w

LEMMA WalksStay ==
  ASSUME archive' = archive
  PROVE  Walks' = Walks /\ root' = root /\ \A s : Rests(s)' = Rests(s)
<1>1. objects' = objects /\ root' = root
  BY DEF archive
<1>2. Walks' = Walks
  BY <1>1 DEF Walks, Members, Refers, InObjects, Target
<1>3. \A s, n, i : Unread(s, n, i)' = Unread(s, n, i)
  BY <1>2 DEF Unread, WalksOf
<1>4. \A v, d, p, k : Rest(v, d, p, k)' = Rest(v, d, p, k)
  BY <1>3 DEF Rest
<1>5. \A s : Rests(s)' = Rests(s)
  BY <1>4 DEF Rests, RestOf
<1>6. QED
  BY <1>1, <1>2, <1>5

LEMMA TallyStays ==
  ASSUME archive' = archive, Tallied PROVE TallyInv'
<1>1. Walks' = Walks /\ root' = root /\ \A s : Rests(s)' = Rests(s)
  BY WalksStay
<1>2. Pending(reg)' = Pending(reg')
  BY <1>1 DEF Pending
<1>3. Rests(stack)' = Rests(stack')
  BY <1>1 DEF Rests, RestOf, Rest, Unread, WalksOf
<1>4. Owed(reg, stack)' = Owed(reg', stack')
  BY <1>2, <1>3 DEF Owed
<1>5. QED
  BY <1>1, <1>4 DEF Tallied, TallyInv

LEMMA InitOwes ==
  ASSUME Init
  PROVE  /\ Owed(reg, stack) = Walks[MaxDepth + 1][root]
         /\ Walks[MaxDepth + 1][root] \in Nat
         /\ reg.mode = "call" /\ verdict = "running" /\ visits = 0
<1>1. /\ reg = Calling(root, 0) /\ stack = <<>> /\ visits = 0
      /\ verdict = "running" /\ ArchiveIs
  BY InitStands DEF Init, InitUnarchive, Holds
<1>2. Rests(<<>>) = <<>>
  BY DEF Rests
<1>3. MaxDepth + 1 \in Nat /\ MaxDepth + 1 - 0 = MaxDepth + 1
  BY DepthAssumption
<1> DEFINE w == Walks[MaxDepth + 1][root]
<1>4. w \in Nat
  BY <1>1, <1>3, WalksFrom DEF ArchiveIs
<1>5. Pending(reg) = w
  <2>1. Pending(reg) = Walks[MaxDepth + 1 - 0][root]
    BY <1>1, PendingIs
  <2>2. QED
    BY <1>3, <2>1
<1>6. reg.mode = "call"
  BY <1>1 DEF Calling
<1> HIDE DEF w
<1>7. Owed(reg, stack) = w
  BY <1>1, <1>2, <1>4, <1>5, TotalOfNothing DEF Owed
<1>8. QED
  BY <1>1, <1>4, <1>6, <1>7 DEF w

LEMMA InitTally == Init => TallyInv
<1> DEFINE w == Walks[MaxDepth + 1][root]
<1> SUFFICES ASSUME Init PROVE TallyInv
  OBVIOUS
<1>1. Owed(reg, stack) = w /\ w \in Nat /\ verdict = "running" /\ visits = 0
  BY InitOwes
<1> HIDE DEF w
<1>2. Tally(0, w, w, "running")
  BY <1>1 DEF Tally
<1>3. QED
  BY <1>1, <1>2 DEF TallyInv, w

LEMMA StepPays ==
  ASSUME DecodingInv, TallyInv, NextUnarchive, UNCHANGED envelope, parse # "running"
  PROVE  Paid
<1>1. IInv /\ Holds(stack, reg, verdict) /\ [Next]_vars
  BY DEF DecodingInv, Next
<1>2. Sound(stack')
  BY <1>1, NextHolds DEF Holds
<1>3. IsStack(stack')
  <2>1. IInv'
    BY <1>1, NextInv
  <2>2. QED
    BY <2>1 DEF IInv, Good, IsStack
<1>4. QED
  BY <1>1, <1>2, <1>3, TooDeepTallied, FollowTallied, PassThroughTallied,
     EnterTallied, TakeKeyTallied, TakeMemberTallied, FinishRootTallied
     DEF NextUnarchive

LEMMA TallyNext ==
  ASSUME DecodingInv, TallyInv, [Next]_vars PROVE TallyInv'
<1>1. archive' = archive
  BY NextHolds DEF DecodingInv
<1>2. Tallied
  <2>1. CASE UNCHANGED vars \/ UNCHANGED unarchive
    BY <1>1, <2>1, WalksStay DEF vars, unarchive, TallyInv, Tallied
  <2>2. CASE parse # "running" /\ NextUnarchive /\ UNCHANGED envelope
    BY <2>2, StepPays DEF Paid
  <2>3. QED
    BY <2>1, <2>2 DEF Next
<1>3. QED
  BY <1>1, <1>2, TallyStays

(* unarchive_value is called once for each walk of at most                 *)
(* MAX_ARCHIVE_DEPTH + 1 steps from the root: never more often, and, as    *)
(* far as the counter counts, no less often when it succeeds.              *)
THEOREM TheWorkIsTheWalks == Spec => []OneCallPerWalk
<1>1. Init => TallyInv
  BY InitTally
<1>2. DecodingInv /\ TallyInv /\ [Next]_vars => TallyInv'
  BY TallyNext
<1>3. Spec => []TallyInv
  BY <1>1, <1>2, Decoding, PTL DEF Spec
<1>4. TallyInv => OneCallPerWalk
  BY DEF TallyInv, Tally, OneCallPerWalk
<1>5. QED
  BY <1>3, <1>4, PTL

-----------------------------------------------------------------------------
(* The steps run out, on any archive and without any fairness.             *)

(* A bound on the steps each decoder has still to take: the reader of      *)
(* reply.rs one for each entry, the general one MaxDepth + 3 for each call *)
(* that is owed, and on the way back one for each open collection.         *)
EnvelopeLeft == IF parse = "running" THEN Len(Payload.objs) + 2 - step ELSE 0

Back(r, s) == IF r.mode = "return" THEN 1 + Len(s) ELSE 0

Left(r, s, why) ==
  IF why = "running" THEN 1 + ((MaxDepth + 3) * Owed(r, s) + Back(r, s)) ELSE 0

DecoderLeft == Left(reg, stack, verdict)

StepsLeft == EnvelopeLeft + DecoderLeft

LEMMA CallsAreDear ==
  ASSUME NEW m \in Nat, NEW o \in Nat, NEW b \in Nat, b <= m + 2
  PROVE  /\ (m + 3) * o \in Nat
         /\ (m + 3) * o + b < (m + 3) * (1 + o)
<1>1. (m + 3) * o \in Nat
  OBVIOUS
<1>2. (m + 3) * (1 + o) = (m + 3) * o + (m + 3)
  OBVIOUS
<1> DEFINE x == (m + 3) * o
<1> HIDE DEF x
<1>3. x \in Nat
  BY <1>1 DEF x
<1>4. x + b < x + (m + 3)
  BY <1>3
<1>5. QED
  BY <1>1, <1>2, <1>4 DEF x

LEMMA OwedIsNat ==
  ASSUME ArchiveIs, NEW s, IsStack(s), Sound(s), NEW r,
         r.mode = "call" => r.value \in Values /\ MaxDepth + 1 - r.depth \in Nat
  PROVE  Owed(r, s) \in Nat
<1>1. Total(Rests(s)) \in Nat
  BY RestsIs, TotalIs
<1>2. Pending(r) \in Nat
  <2>1. CASE r.mode = "call"
    <3>1. Walks[MaxDepth + 1 - r.depth][r.value] \in Nat
      BY <2>1, WalksFrom
    <3>2. QED
      BY <2>1, <3>1 DEF Pending
  <2>2. CASE r.mode # "call"
    BY <2>2 DEF Pending
  <2>3. QED
    BY <2>1, <2>2
<1>3. QED
  BY <1>1, <1>2 DEF Owed

(* A decoder that runs owes a number of calls, and has at most MaxDepth + 1*)
(* collections open.                                                       *)
OwesSome(r, s) ==
  /\ Owed(r, s) \in Nat
  /\ Back(r, s) \in Nat /\ Back(r, s) <= MaxDepth + 2
  /\ r.mode = "call" => Back(r, s) = 0
  /\ r.mode = "return" => Back(r, s) = 1 + Len(s)
  /\ Len(s) \in Nat

LEMMA HoldsOwes ==
  ASSUME NEW r, NEW s, Holds(s, r, "running"), Good(r, s)
  PROVE  OwesSome(r, s)
<1>1. ArchiveIs /\ IsStack(s) /\ Sound(s) /\ Asks(s, r)
  BY DEF Holds, Good
<1>2. /\ r.mode \in {"call", "return"} /\ r.depth \in 0..(MaxDepth + 1)
      /\ Len(s) <= MaxDepth + 1
  BY DEF Good, Depths
<1>3. MaxDepth \in Nat /\ MaxDepth + 1 - r.depth \in Nat
  BY <1>2, DepthAssumption
<1>4. r.mode = "call" => r.value \in Values
  <2> SUFFICES ASSUME r.mode = "call" PROVE r.value \in Values
    OBVIOUS
  <2>1. Asked(Source(s, Len(s)), Level(s, Len(s)), r.value, r.depth)
    BY <1>1 DEF Asks
  <2>2. QED
    BY <2>1, SourceIsThere, <1>1 DEF Asked
<1>5. Owed(r, s) \in Nat
  BY <1>1, <1>3, <1>4, OwedIsNat
<1>6. Len(s) \in Nat
  <2>1. PICK S : s \in Seq(S)
    BY <1>1 DEF IsStack
  <2>2. QED
    BY <2>1
<1>7. QED
  BY <1>2, <1>3, <1>5, <1>6 DEF OwesSome, Back

LEMMA LeftIsNat ==
  ASSUME NEW r, NEW s, NEW why, why = "running" => OwesSome(r, s)
  PROVE  Left(r, s, why) \in Nat
<1> DEFINE x == (MaxDepth + 3) * Owed(r, s)
<1>1. CASE why = "running"
  <2>1. Owed(r, s) \in Nat /\ Back(r, s) \in Nat /\ MaxDepth \in Nat
    BY <1>1, DepthAssumption DEF OwesSome
  <2>2. x \in Nat
    BY <2>1, CallsAreDear
  <2> HIDE DEF x
  <2>3. 1 + (x + Back(r, s)) \in Nat
    BY <2>1, <2>2
  <2>4. QED
    BY <1>1, <2>3 DEF Left, x
<1>2. CASE why # "running"
  BY <1>2 DEF Left
<1>3. QED
  BY <1>1, <1>2

LEMMA StateOwes ==
  DecodingInv => (verdict = "running" => OwesSome(reg, stack))
  BY HoldsOwes DEF DecodingInv, IInv

LEMMA NextOwes ==
  ASSUME DecodingInv, Next, verdict' = "running" PROVE OwesSome(reg', stack')
<1>1. Holds(stack', reg', "running")
  BY NextHolds DEF DecodingInv
<1>2. IInv'
  BY NextInv DEF DecodingInv
<1>3. Good(reg', stack')
  BY <1>2 DEF IInv, Good, IsStack, IsFrame, Depths, Shallower
<1>4. QED
  BY <1>1, <1>3, HoldsOwes

LEMMA DecoderFalls ==
  ASSUME DecodingInv, TallyInv, NextUnarchive, UNCHANGED envelope, parse # "running"
  PROVE  Left(reg', stack', verdict') < Left(reg, stack, verdict)
<1> DEFINE m == MaxDepth
           o == Owed(reg, stack)
           o2 == Owed(reg', stack')
           b == Back(reg, stack)
           b2 == Back(reg', stack')
<1>1. verdict = "running" /\ reg.mode \in {"call", "return"}
  BY DEF NextUnarchive, TooDeep, Follow, PassThrough, Enter, TakeKey, TakeMember,
     FinishRoot, Visit, Called, Returned, DecodingInv, IInv, Good
<1>2. Spent
  BY StepPays DEF Paid
<1>3. OwesSome(reg, stack) /\ m \in Nat
  BY <1>1, StateOwes, DepthAssumption
<1>4. Left(reg, stack, verdict) = 1 + ((m + 3) * o + b)
  BY <1>1 DEF Left
<1>5. (m + 3) * o + b \in Nat
  <2>1. o \in Nat /\ b \in Nat
    BY <1>3 DEF OwesSome
  <2>2. (m + 3) * o \in Nat
    BY <1>3, <2>1, CallsAreDear
  <2> DEFINE x == (m + 3) * o
  <2> HIDE DEF x, b
  <2>3. x + b \in Nat
    BY <2>1, <2>2 DEF x
  <2>4. QED
    BY <2>3 DEF x
<1>6. CASE verdict' # "running"
  <2>1. Left(reg', stack', verdict') = 0
    BY <1>6 DEF Left
  <2> DEFINE y == (m + 3) * o + b
  <2> HIDE DEF y
  <2>2. 0 < 1 + y
    BY <1>5 DEF y
  <2>3. QED
    BY <1>4, <2>1, <2>2 DEF y
<1>7. CASE verdict' = "running"
  <2>1. OwesSome(reg', stack')
    BY <1>7, NextOwes DEF Next
  <2>2. /\ o \in Nat /\ b \in Nat /\ b <= m + 2 /\ (reg.mode = "call" => b = 0)
        /\ o2 \in Nat /\ b2 \in Nat /\ b2 <= m + 2
    BY <1>3, <2>1 DEF OwesSome
  <2>3. Left(reg', stack', verdict') = 1 + ((m + 3) * o2 + b2)
    BY <1>7 DEF Left
  <2>4. (m + 3) * o2 \in Nat /\ (m + 3) * o2 + b2 < (m + 3) * (1 + o2)
    <3> HIDE DEF o2, b2, m
    <3>1. QED
      BY <1>3, <2>2, CallsAreDear
  <2>5. CASE reg.mode = "call"
    <3>1. o = 1 + o2 /\ b = 0
      BY <1>2, <1>7, <2>2, <2>5 DEF Spent
    <3> DEFINE x == (m + 3) * o
               x2 == (m + 3) * o2
    <3>2. x2 + b2 < x /\ x2 \in Nat /\ x \in Nat
      <4> HIDE DEF o, o2, b2, m
      <4>1. x \in Nat
        BY <1>3, <2>2, CallsAreDear
      <4>2. QED
        BY <2>4, <3>1, <4>1
    <3> HIDE DEF x, x2, b, b2
    <3>3. 1 + (x2 + b2) < 1 + (x + b)
      BY <2>2, <3>1, <3>2
    <3>4. QED
      BY <1>4, <2>3, <3>3 DEF x, x2
  <2>6. CASE reg.mode = "return"
    <3>1. o2 = o /\ (reg'.mode = "return" => Len(stack') < Len(stack))
      BY <1>2, <1>7, <2>6 DEF Spent
    <3>2. b2 < b
      <4>1. b = 1 + Len(stack) /\ Len(stack) \in Nat /\ Len(stack') \in Nat
        BY <1>3, <2>1, <2>6 DEF OwesSome
      <4>2. b2 = IF reg'.mode = "return" THEN 1 + Len(stack') ELSE 0
        BY DEF Back
      <4>3. QED
        BY <3>1, <4>1, <4>2
    <3> DEFINE x == (m + 3) * o
    <3>3. x \in Nat /\ (m + 3) * o2 = x
      BY <2>4, <3>1
    <3> HIDE DEF x, b, b2
    <3>4. 1 + (x + b2) < 1 + (x + b)
      BY <2>2, <3>2, <3>3
    <3>5. QED
      BY <1>4, <2>3, <3>3, <3>4 DEF x
  <2>7. QED
    BY <1>1, <2>5, <2>6
<1>8. QED
  BY <1>6, <1>7

(* The reader of reply.rs is at an entry of the root or just past the last.*)
LEMMA EnvelopeIsNat ==
  ASSUME ArchiveIs, EnvelopeInv
  PROVE  /\ EnvelopeLeft \in Nat /\ Len(Payload.objs) \in Nat /\ step \in Nat
         /\ step <= Len(Payload.objs) + 1
<1>1. Len(Payload.objs) \in Nat
  <2>1. CASE root.kind # "uid"
    BY <2>1, ValueFields DEF Payload, Resolve, ArchiveIs
  <2>2. CASE root.kind = "uid" /\ InObjects(root)
    <3>1. Refers(root) /\ root \in Values
      BY <2>2 DEF Refers, ArchiveIs
    <3>2. Target(root) \in Values
      BY <3>1, TargetIsValue
    <3>3. QED
      BY <2>2, <3>2, ValueFields DEF Payload, Resolve
  <2>3. CASE root.kind = "uid" /\ ~InObjects(root)
    <3>1. Payload = Other
      BY <2>3 DEF Payload, Resolve
    <3>2. Other.objs = <<>>
      BY DEF Other, Value
    <3>3. QED
      BY <3>1, <3>2
  <2>4. QED
    BY <2>1, <2>2, <2>3
<1>2. step \in Nat /\ step <= Len(Payload.objs) + 1
  <2>1. step \in Nat
    BY DEF EnvelopeInv, EnvelopeHolds
  <2>2. CASE step = 0
    BY <1>1, <2>2
  <2>3. CASE step > 0
    BY <2>3 DEF EnvelopeInv, EnvelopeHolds, ReadSoFar
  <2>4. QED
    BY <2>1, <2>2, <2>3
<1>3. QED
  BY <1>1, <1>2 DEF EnvelopeLeft

LEMMA EnvelopeFalls ==
  ASSUME ArchiveIs, EnvelopeInv, EnvelopeInv', NextEnvelope
  PROVE  EnvelopeLeft' < EnvelopeLeft /\ EnvelopeLeft' \in Nat
<1>1. archive' = archive /\ (ReadRoot \/ ReadEntry \/ FinishParse)
  BY DEF NextEnvelope
<1>2. objects' = objects /\ root' = root
  BY <1>1 DEF archive
<1>3. Payload' = Payload
  BY <1>2 DEF Payload, Resolve, InObjects, Target
<1> DEFINE l == Len(Payload.objs)
<1>4. l \in Nat /\ step \in Nat /\ step <= l + 1
  BY EnvelopeIsNat
<1>5. parse = "running"
  BY <1>1 DEF ReadRoot, ReadEntry, FinishParse
<1>6. parse' # "running" \/ (step' = step + 1 /\ step' <= l + 1)
  <2>1. CASE ReadRoot
    BY <1>4, <2>1 DEF ReadRoot, Reject
  <2>2. CASE ReadEntry
    BY <1>4, <2>2 DEF ReadEntry, Reject
  <2>3. CASE FinishParse
    BY <2>3 DEF FinishParse
  <2>4. QED
    BY <1>1, <2>1, <2>2, <2>3
<1>7. /\ EnvelopeLeft = l + 2 - step
      /\ EnvelopeLeft' = IF parse' = "running" THEN l + 2 - step' ELSE 0
  BY <1>3, <1>5 DEF EnvelopeLeft
<1> HIDE DEF l
<1>8. QED
  BY <1>4, <1>6, <1>7

LEMMA StepsFall ==
  ASSUME DecodingInv, TallyInv, EnvelopeInv, EnvelopeInv', Next
  PROVE  StepsLeft' < StepsLeft
<1> DEFINE e == EnvelopeLeft
           e2 == EnvelopeLeft'
           d == Left(reg, stack, verdict)
           d2 == Left(reg', stack', verdict')
<1>1. ArchiveIs /\ archive' = archive
  BY NextHolds DEF DecodingInv, Holds
<1>2. DecoderLeft' = d2
  <2>1. Walks' = Walks /\ root' = root
    BY <1>1, WalksStay
  <2>2. Owed(reg, stack)' = Owed(reg', stack')
    BY <2>1 DEF Owed, Pending, Rests, RestOf, Rest, Unread, WalksOf
  <2>3. QED
    BY <2>2 DEF DecoderLeft, Left, Back
<1>3. e \in Nat /\ d \in Nat
  BY <1>1, EnvelopeIsNat, StateOwes, LeftIsNat
<1>4. StepsLeft = e + d /\ StepsLeft' = e2 + d2
  BY <1>2 DEF StepsLeft, DecoderLeft
<1>5. CASE NextEnvelope /\ UNCHANGED unarchive
  <2>1. e2 < e /\ e2 \in Nat
    BY <1>1, <1>5, EnvelopeFalls
  <2>2. d2 = d
    BY <1>5 DEF unarchive
  <2> HIDE DEF e, e2, d, d2
  <2>3. QED
    BY <1>3, <1>4, <2>1, <2>2
<1>6. CASE parse # "running" /\ NextUnarchive /\ UNCHANGED envelope
  <2>1. d2 < d
    BY <1>6, DecoderFalls
  <2>2. e = 0 /\ e2 = 0
    BY <1>6 DEF EnvelopeLeft, envelope
  <2>3. d2 \in Nat
    <3>1. verdict' = "running" => OwesSome(reg', stack')
      BY NextOwes
    <3>2. QED
      BY <3>1, LeftIsNat
  <2> HIDE DEF e, e2, d, d2
  <2>4. QED
    BY <1>3, <1>4, <2>1, <2>2, <2>3
<1>7. QED
  BY <1>5, <1>6 DEF Next

(* The half of Terminates that needs no scheduler: whatever the archive, a *)
(* cyclic one included, every step of either decoder leaves fewer steps to *)
(* take, and there are never less than none.  So neither decoder can run   *)
(* for ever, and the general one takes, to each walk of the archive, at    *)
(* most MAX_ARCHIVE_DEPTH + 3 steps, and one at the end (pipeline.rs, the  *)
(* depth check before every match).                                        *)
THEOREM TheStepsRunOut ==
  Spec => /\ DecoderLeft = 1 + (MaxDepth + 3) * Walks[MaxDepth + 1][root]
          /\ [](StepsLeft \in Nat)
          /\ [][StepsLeft' < StepsLeft]_vars
<1> DEFINE All == DecodingInv /\ TallyInv /\ EnvelopeInv
<1>1. All => StepsLeft \in Nat
  <2> SUFFICES ASSUME All PROVE StepsLeft \in Nat
    OBVIOUS
  <2>1. ArchiveIs
    BY DEF DecodingInv, Holds
  <2>2. EnvelopeLeft \in Nat /\ DecoderLeft \in Nat
    BY <2>1, EnvelopeIsNat, StateOwes, LeftIsNat DEF DecoderLeft
  <2>3. QED
    BY <2>2 DEF StepsLeft
<1>2. All /\ All' /\ [Next]_vars => [StepsLeft' < StepsLeft]_vars
  BY StepsFall
<1>3. Spec => []TallyInv
  <2>1. Init => TallyInv
    BY InitTally
  <2>2. DecodingInv /\ TallyInv /\ [Next]_vars => TallyInv'
    BY TallyNext
  <2>3. QED
    BY <2>1, <2>2, Decoding, PTL DEF Spec
<1>4. Spec => []All
  BY <1>3, BothDecoders, PTL
<1>5. Init => DecoderLeft = 1 + (MaxDepth + 3) * Walks[MaxDepth + 1][root]
  <2> SUFFICES ASSUME Init
               PROVE  DecoderLeft = 1 + (MaxDepth + 3) * Walks[MaxDepth + 1][root]
    OBVIOUS
  <2> DEFINE x == (MaxDepth + 3) * Walks[MaxDepth + 1][root]
  <2>1. DecoderLeft = 1 + (x + 0)
    BY InitOwes DEF DecoderLeft, Left, Back
  <2>2. x \in Nat
    BY InitOwes, DepthAssumption, CallsAreDear
  <2> HIDE DEF x
  <2>3. DecoderLeft = 1 + x
    BY <2>1, <2>2
  <2>4. QED
    BY <2>3 DEF x
<1>6. QED
  BY <1>1, <1>2, <1>4, <1>5, PTL DEF Spec
=============================================================================
