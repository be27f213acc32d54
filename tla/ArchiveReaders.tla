---------------------------- MODULE ArchiveReaders ----------------------------
(***************************************************************************)
(* The two decoders of an NSKeyedArchiver archive put to one archive:      *)
(* RawReply::parse, which looks only at what a fetch's reply needs, then   *)
(* the general unarchiver of pipeline.rs.                                  *)
(***************************************************************************)
EXTENDS Unarchive, ReplyEnvelope

CONSTANTS
  Values,    (* the values of property lists, with all that they hold    *)
  Archives   (* [objects, root]: the archives to be read                 *)

(* A plain dictionary has a value to each of its keys, and these differ:   *)
(* plist::Dictionary is a map.                                             *)
Keyed(v) ==
  v.kind = "dict" =>
    /\ Len(v.keys) = Len(v.objs)
    /\ \A i, j \in DOMAIN v.keys : v.keys[i].name = v.keys[j].name => i = j

ASSUME ArchiveAssumption ==
  /\ Values \subseteq [kind : Kinds, name : STRING, to : Nat,
                       keys : Seq(Values), objs : Seq(Values)]
  /\ \A v \in Values : Keyed(v)
  /\ \A a \in Archives : a.objects \in Seq(Values) /\ a.root \in Values

vars == <<archive, unarchive, envelope>>

Init ==
  /\ \E a \in Archives : objects = a.objects /\ root = a.root
  /\ InitEnvelope
  /\ InitUnarchive

Next ==
  \/ NextEnvelope /\ UNCHANGED unarchive
  \/ parse # "running" /\ NextUnarchive /\ UNCHANGED envelope

Spec     == Init /\ [][Next]_vars
FairSpec == Spec /\ WF_vars(Next)

(* Type invariant, with what MAX_ARCHIVE_DEPTH is there for: whatever the  *)
(* archive, a cyclic one included, the recursion of unarchive_value is no  *)
(* deeper than the bound.  The open collections are at increasing depths,  *)
(* so they are never more than MaxDepth + 1, and a call is at most one     *)
(* deeper than the bound (pipeline.rs, the check before every match).      *)
DepthBounded ==
  /\ reg.mode \in {"call", "return"}
  /\ reg.depth \in 0..(MaxDepth + 1)
  /\ visits \in 0..MaxVisits
  /\ verdict \in Failures \cup {"running", "Ok"}
  /\ \A i \in DOMAIN stack :
       /\ stack[i].depth \in (i - 1)..MaxDepth
       /\ reg.mode = "call" => stack[i].depth < reg.depth
  /\ \A i, j \in DOMAIN stack : i < j => stack[i].depth < stack[j].depth
  /\ Len(stack) <= MaxDepth + 1

(* The decoders answer, whatever the archive: a loop over the entries, and *)
(* a recursion the depth bound stops on a cycle.                           *)
Terminates == <>(verdict # "running")
=============================================================================
