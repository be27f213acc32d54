---------------------------- MODULE ReplyEnvelope ----------------------------
(***************************************************************************)
(* RawReply::parse (reply.rs): the archive every fetch answers with, a     *)
(* dictionary of `unknown`, `info` and `data`.  It does not use a general  *)
(* unarchiver: it follows one Uid from the root, one from each key and one *)
(* from each value, and reads no further.                                  *)
(***************************************************************************)
EXTENDS Archive

VARIABLES
  step,           (* the entry being read; 0 before the root has been      *)
  found,          (* [Wanted -> what that key gave so far]                 *)
  parse           (* "running", "Ok", or "Parse"                           *)

envelope == <<step, found, parse>>

Wanted == {"unknown", "info", "data"}

Missing == [is |-> "missing", name |-> "", len |-> 0]

InitEnvelope ==
  /\ step = 0
  /\ found = [k \in Wanted |-> Missing]
  /\ parse = "running"

(* resolve: one indirection at most; Other stands for an error, which no   *)
(* reader of it accepts either.                                            *)
Resolve(v) ==
  IF v.kind # "uid" THEN v
  ELSE IF InObjects(v) THEN Target(v) ELSE Other

Dangling(v) == v.kind = "uid" /\ ~InObjects(v)

Payload == Resolve(root)

Reject == parse' = "Parse" /\ UNCHANGED <<step, found>>

(* The root must be an archived dictionary whose two arrays agree.         *)
ReadRoot ==
  /\ parse = "running" /\ step = 0
  /\ IF Payload.kind = "nsdict" /\ Len(Payload.keys) = Len(Payload.objs)
       THEN step' = 1 /\ UNCHANGED <<found, parse>>
       ELSE Reject

(* What a key's value must be: `unknown` an archived collection, of which  *)
(* the length is kept, the others data.                                    *)
Reading(k, v) ==
  IF k = "unknown"
    THEN IF v.kind \in {"nsarray", "nsdict"}
           THEN [is |-> "length", name |-> "", len |-> Len(v.objs)]
           ELSE Missing
    ELSE IF v.kind = "data"
           THEN [is |-> "data", name |-> v.name, len |-> 0]
           ELSE Missing

KeepFirst(k, r) == [found EXCEPT ![k] = IF @ = Missing THEN r ELSE @]

(* A key that comes again replaces what was read. *)
Keep(k, r) == [found EXCEPT ![k] = r]

(* One turn of the loop: the key must resolve to a string and the value to *)
(* something; a wanted key's value must be of its kind; others are passed  *)
(* over.                                                                   *)
ReadEntry ==
  /\ parse = "running"
  /\ step \in 1..Len(Payload.objs)
  /\ LET key   == Resolve(Payload.keys[step])
         value == Resolve(Payload.objs[step])
         r     == Reading(key.name, value)
     IN  IF \/ key.kind # "string"
            \/ Dangling(Payload.objs[step])
            \/ key.name \in Wanted /\ r = Missing
           THEN Reject
           ELSE /\ step' = step + 1
                /\ found' = IF key.name \in Wanted THEN Keep(key.name, r) ELSE found
                /\ UNCHANGED parse

(* All three keys must have been seen. *)
FinishParse ==
  /\ parse = "running"
  /\ step > Len(Payload.objs) /\ step > 0
  /\ parse' = IF \E k \in Wanted : found[k] = Missing THEN "Parse" ELSE "Ok"
  /\ UNCHANGED <<step, found>>

NextEnvelope ==
  (ReadRoot \/ ReadEntry \/ FinishParse) /\ UNCHANGED archive
=============================================================================
