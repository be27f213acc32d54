\* Every reply of up to three textures, with repeated streamRefs, against every
\* manifest of up to three descriptors, and every truth consistent with both.
SPECIFICATION Spec
CONSTANTS
  Geometries = {g1, g2, ds}
  Combined = {ds}
  MaxRef = 3
  MaxTextures = 3
  MaxDescriptors = 3
SYMMETRY GeometrySymmetry
INVARIANTS
  EachDescriptorOnce
  PairsInOrder
  ExactWhenUnambiguous
CHECK_DEADLOCK FALSE
