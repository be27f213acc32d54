------------------------------ MODULE Unarchive ------------------------------
(***************************************************************************)
(* unarchive_root and unarchive_value of pipeline.rs: the general          *)
(* unarchiver for a pipeline's nested archive, and the two questions asked *)
(* of what it returns.  The recursion is a machine with a stack: a frame   *)
(* is an NSArray or NSDictionary whose members are being decoded, `reg` is *)
(* the call about to be made or the value just returned.                   *)
(***************************************************************************)
EXTENDS Archive

CONSTANTS
  MaxDepth,   (* MAX_ARCHIVE_DEPTH                               *)
  MaxVisits   (* the bound of the counter `visits`, a ghost      *)

ASSUME DepthAssumption == MaxDepth \in Nat /\ MaxVisits \in Nat

VARIABLES
  reg,            (* [mode, value, depth, tree], see above                 *)
  stack,          (* the open collections, innermost last                  *)
  visits,         (* calls of unarchive_value so far, up to MaxVisits      *)
  verdict         (* "running", "Ok", or why it failed                     *)

unarchive == <<reg, stack, visits, verdict>>

Failures == {"TooDeep", "Bounds", "Mismatch", "Key", "NotADictionary"}

NoTree == Tree("none", "", <<>>, {})

Calling(v, d)   == [mode |-> "call", value |-> v, depth |-> d, tree |-> NoTree]
Returning(tree) == [mode |-> "return", value |-> Other, depth |-> 0, tree |-> tree]

(* `pos` is the member being decoded and `key` holds its key, once that    *)
(* has been decoded itself.                                                *)
Frame(v, d) ==
  [value |-> v, depth |-> d, pos |-> 1, key |-> <<>>, items |-> <<>>, entries |-> {}]

InitUnarchive ==
  /\ reg = Calling(root, 0)
  /\ stack = <<>>
  /\ visits = 0
  /\ verdict = "running"

Fail(why) == verdict' = why /\ UNCHANGED <<reg, stack>>

Counted == visits' = IF visits < MaxVisits THEN visits + 1 ELSE visits

Called == verdict = "running" /\ reg.mode = "call"

TooDeepAtBound ==
  /\ Called
  /\ reg.depth >= MaxDepth
  /\ Fail("TooDeep")
  /\ Counted
  /\ UNCHANGED archive

(* The depth check comes before anything is looked at. *)
TooDeep ==
  /\ Called
  /\ reg.depth > MaxDepth
  /\ Fail("TooDeep")
  /\ Counted
  /\ UNCHANGED archive

Visit(kinds) ==
  /\ Called
  /\ reg.depth <= MaxDepth
  /\ reg.value.kind \in kinds
  /\ Counted
  /\ UNCHANGED archive

FollowFree ==
  /\ Visit({"uid"})
  /\ IF InObjects(reg.value)
       THEN /\ reg' = Calling(Target(reg.value), reg.depth)
            /\ UNCHANGED <<stack, verdict>>
       ELSE Fail("Bounds")

(* A Uid: its `$objects` entry is decoded in its place, one deeper. *)
Follow ==
  /\ Visit({"uid"})
  /\ IF InObjects(reg.value)
       THEN /\ reg' = Calling(Target(reg.value), reg.depth + 1)
            /\ UNCHANGED <<stack, verdict>>
       ELSE Fail("Bounds")

(* A leaf, a plain array, or a dictionary without NS.objects: unchanged. *)
PassThrough ==
  /\ Visit({"string", "data", "other", "array", "dict"})
  /\ reg' = Returning(AsIs(reg.value))
  /\ UNCHANGED <<stack, verdict>>

MemberDepthFlat(d) == d

(* A member is decoded one deeper than its collection. *)
MemberDepth(d) == d + 1

(* An archived collection.  An empty one is decoded at once; another is    *)
(* pushed, and its first member (of a dictionary, the key of it) called.   *)
Enter ==
  /\ Visit({"nsarray", "nsdict"})
  /\ LET v == reg.value
     IN  IF v.kind = "nsdict" /\ Len(v.keys) # Len(v.objs)
           THEN Fail("Mismatch")
           ELSE /\ IF v.objs = <<>>
                     THEN /\ reg' = Returning(Tree(
                               IF v.kind = "nsdict" THEN "dict" ELSE "array",
                               "", <<>>, {}))
                          /\ UNCHANGED stack
                     ELSE /\ reg' = Calling(
                               IF v.kind = "nsdict" THEN v.keys[1] ELSE v.objs[1],
                               MemberDepth(reg.depth))
                          /\ stack' = Append(stack, Frame(v, reg.depth))
                /\ UNCHANGED verdict

Returned == verdict = "running" /\ reg.mode = "return" /\ stack # <<>>
Top      == stack[Len(stack)]
Below    == SubSeq(stack, 1, Len(stack) - 1)

KeyPending == Top.value.kind = "nsdict" /\ Top.key = <<>>

(* A key has been decoded: it must be a string; the member it names is     *)
(* called.                                                                 *)
TakeKey ==
  /\ Returned
  /\ KeyPending
  /\ IF reg.tree.kind = "string"
       THEN /\ stack' = Append(Below, [Top EXCEPT !.key = <<reg.tree.name>>])
            /\ reg' = Calling(Top.value.objs[Top.pos], MemberDepth(Top.depth))
            /\ UNCHANGED verdict
       ELSE Fail("Key")
  /\ UNCHANGED <<archive, visits>>

InsertFirst(entries, k, tree) ==
  IF \E e \in entries : e.key = k THEN entries ELSE entries \cup {Entry(k, tree)}

(* Dictionary::insert: a key that comes again replaces what was there. *)
Insert(entries, k, tree) ==
  {e \in entries : e.key # k} \cup {Entry(k, tree)}

(* A member has been decoded: it joins the others; the next one is called, *)
(* or the collection is complete and returned.                             *)
TakeMember ==
  /\ Returned
  /\ ~KeyPending
  /\ LET v    == Top.value
         full == IF v.kind = "nsdict"
                   THEN [Top EXCEPT !.entries = Insert(@, Top.key[1], reg.tree)]
                   ELSE [Top EXCEPT !.items = Append(@, reg.tree)]
     IN  IF Top.pos = Len(v.objs)
           THEN /\ stack' = Below
                /\ reg' = Returning(Tree(
                     IF v.kind = "nsdict" THEN "dict" ELSE "array", "",
                     full.items, full.entries))
           ELSE /\ stack' = Append(Below, [full EXCEPT !.pos = @ + 1, !.key = <<>>])
                /\ reg' = Calling(IF v.kind = "nsdict"
                                    THEN v.keys[Top.pos + 1]
                                    ELSE v.objs[Top.pos + 1],
                                  MemberDepth(Top.depth))
  /\ UNCHANGED <<archive, visits, verdict>>

(* unarchive_root: what comes out must be a dictionary. *)
FinishRoot ==
  /\ verdict = "running" /\ reg.mode = "return" /\ stack = <<>>
  /\ verdict' = IF reg.tree.kind = "dict" THEN "Ok" ELSE "NotADictionary"
  /\ UNCHANGED <<archive, reg, stack, visits>>

NextUnarchive ==
  \/ TooDeep
  \/ Follow
  \/ PassThrough
  \/ Enter
  \/ TakeKey
  \/ TakeMember
  \/ FinishRoot

-----------------------------------------------------------------------------
(* Pipeline::stages and performance_stats, of a decoded root. *)

StageKeys == <<"vertex", "fragment", "compute">>

(* The entries under a stage key, if there is an array there: no array, no *)
(* stages, and no error.                                                   *)
StageArray(tree, k) ==
  LET arrays == {t \in Under(tree, k) : t.kind = "array"}
  IN  IF arrays = {} THEN <<>> ELSE Items(CHOOSE t \in arrays : TRUE)

(* A stage is a dictionary with data under "data"; uniqueId may be absent. *)
IsStage(t) == t.kind = "dict" /\ \E d \in Under(t, "data") : d.kind = "data"

Stages(tree) ==
  LET all == StageArray(tree, StageKeys[1]) \o StageArray(tree, StageKeys[2])
               \o StageArray(tree, StageKeys[3])
  IN  IF \A i \in DOMAIN all : IsStage(all[i])
        THEN [ok |-> TRUE, stages |-> all]
        ELSE [ok |-> FALSE, stages |-> <<>>]

(* Exactly one entry, a dictionary, is supported. *)
Stats(tree) ==
  {Items(t)[1] : t \in {u \in Under(tree, "PerformanceStatistics") :
                          /\ u.kind = "array"
                          /\ Len(Items(u)) = 1
                          /\ Items(u)[1].kind = "dict"}}
=============================================================================
