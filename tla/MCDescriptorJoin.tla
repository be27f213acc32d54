-------------------------- MODULE MCDescriptorJoin ---------------------------
(* The join on every small capture, for TLC. *)
EXTENDS DescriptorJoin, TLC

(* Only equality of geometries matters to the walk. *)
GeometrySymmetry == Permutations(Geometries \ Combined)
=============================================================================
