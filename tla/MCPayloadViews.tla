---------------------------- MODULE MCPayloadViews ----------------------------
EXTENDS PayloadViews

MCElements ==
  {[size |-> s, align |-> a] : s \in {1, 2, 4, 8, 12, 16}, a \in {1, 2, 4, 8, 16}}

(* Small payloads at every offset, and those around the fields of an       *)
(* acceleration structure: the last byte of each, and of one, two and      *)
(* three triangles; the counts end with ones that overflow at each of the  *)
(* three checked operations.                                               *)
MCPayloads ==
  {[off |-> o, len |-> n, count |-> 0] : o \in 0..8 \cup {12, 16}, n \in 0..17}
    \cup
  {[off |-> o, len |-> n, count |-> c] :
     o \in {0, 2, 8},
     n \in {43, 47, 48, 183, 184, 1047, 1048, 1083, 1084, 1119, 1120, 1155, 1156},
     c \in {0, 1, 2, 3, 100, 200, 1500}}

(* Around the end of the header and of one, two planes. *)
MCFiles ==
  {[magic |-> m, type |-> t, meta |-> s, len |-> n, count |-> c] :
     m \in BOOLEAN, t \in {0, 1}, s \in {0, 24, 72, 73, 120, 121, 3000},
     n \in {0, 7, 23, 24, 71, 72, 73, 119, 120, 121, 130},
     c \in {0, 1, 2, 3, 83, 84, 86, 4000}}
=============================================================================
