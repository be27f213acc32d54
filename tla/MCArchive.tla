------------------------------ MODULE MCArchive ------------------------------
(* The archives TLC reads: three objects that refer to each other, and to  *)
(* themselves, in every way the lists below allow; Uid(3) is out of bounds. *)
EXTENDS ArchiveGraph

PlainStage == PlainDict(<<"data">>, <<Data("d1")>>)

Leaves == {Str("data"), Data("d1"), Other, PlainDict(<<"data">>, <<Uid(1)>>)}

Chains == {Uid(0), Uid(1), Uid(2)}

Collections ==
  {NSArray(<<>>), NSArray(<<Uid(1), Uid(2)>>), NSArray(<<Uid(0)>>),
   NSArray(<<Uid(2), Uid(2)>>), NSArray(<<Data("d1"), Data("d2")>>),
   NSDict(<<>>, <<>>), NSDict(<<Uid(2)>>, <<>>),
   NSDict(<<Uid(2)>>, <<Uid(1)>>), NSDict(<<Uid(2), Uid(2)>>, <<Uid(1), Data("d2")>>),
   NSDict(<<Str("data"), Str("data")>>, <<Data("d1"), Data("d2")>>)}

(* What a reply and a pipeline have at their root. *)
Replies ==
  {NSDict(<<Str("unknown"), Str("info"), Str("data")>>,
          <<Uid(1), Data("d1"), Uid(2)>>),
   NSDict(<<Str("data"), Str("info"), Str("unknown"), Str("info")>>,
          <<Uid(2), Data("d1"), Uid(1), Data("d2")>>),
   NSDict(<<Str("unknown"), Uid(2), Str("unknown"), Str("data"), Str("info")>>,
          <<Uid(2), Other, Uid(1), Data("d1"), Data("d2")>>)}

Pipelines ==
  {NSDict(<<Str("compute"), Str("PerformanceStatistics")>>, <<Uid(1), Uid(2)>>),
   NSDict(<<Str("compute"), Str("vertex"), Str("PerformanceStatistics")>>,
          <<Uid(1), Uid(1), Uid(1)>>),
   NSDict(<<Str("compute"), Uid(2), Str("compute")>>, <<Uid(2), Uid(1), Uid(1)>>)}

(* A pipeline's root in plain collections, whole or in part: with two      *)
(* statistics, as the test of pipeline.rs builds it; with a stage that is  *)
(* not one, for nobody decodes it there; and below an archived root.       *)
PlainPipelines ==
  {PlainDict(<<"compute", "PerformanceStatistics">>,
             <<PlainArray(<<PlainStage, PlainStage>>),
               PlainArray(<<PlainStage, PlainStage>>)>>),
   PlainDict(<<"vertex", "compute", "PerformanceStatistics">>,
             <<PlainArray(<<PlainStage>>), NSArray(<<Uid(1), Uid(2)>>),
               PlainArray(<<NSDict(<<Uid(2)>>, <<Uid(1)>>)>>)>>),
   PlainDict(<<"vertex", "fragment">>,
             <<PlainArray(<<NSDict(<<Str("data"), Str("data")>>, <<Data("d1"), Data("d2")>>)>>),
               PlainArray(<<PlainStage>>)>>),
   NSDict(<<Str("compute"), Str("PerformanceStatistics")>>,
          <<PlainArray(<<PlainStage, PlainStage>>), PlainArray(<<PlainStage>>)>>)}

Nested ==
  {PlainStage, PlainArray(<<PlainStage>>), PlainArray(<<PlainStage, PlainStage>>),
   PlainArray(<<NSDict(<<Uid(2)>>, <<Uid(1)>>)>>),
   PlainArray(<<NSDict(<<Str("data"), Str("data")>>, <<Data("d1"), Data("d2")>>)>>)}

Held == Rng(StageKeys) \cup {"PerformanceStatistics"}

Objects == Leaves \cup Chains \cup Collections

Roots == {Uid(0), Uid(3), NSDict(<<Uid(1)>>, <<Uid(2)>>)}

(* Theirs, and what they hold. *)
MCValues == Objects \cup Replies \cup Pipelines \cup PlainPipelines \cup Nested
              \cup Roots \cup {Data("d2")} \cup {Str(k) : k \in Wanted \cup Held}

MCArchives ==
  {[objects |-> <<a, b, c>>, root |-> r] :
     a \in Objects \cup Replies \cup Pipelines \cup PlainPipelines, b \in Objects, c \in Objects,
     r \in Roots}
=============================================================================
