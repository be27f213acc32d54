\* Every small reply, every geometry a record may declare, every view.
SPECIFICATION Spec
CONSTANTS
  U32 = 8
  Formats <- SomeFormats
  Elements <- SomeElements
  MaxRecords = 2
  DataLens = {0, 4, 6, 8}
  Offsets = {0, 1, 2, 4, 7}
  Sizes = {0, 2, 4, 6}
  Widths = {0, 1, 2, 3}
  Heights = {0, 1, 2, 3}
  Strides = {0, 1, 2, 3, 4, 6}
INVARIANTS
  ViewsNeverPanic
  PixelsInPlace
  ViewsAgree
  BlocksInPlace
CHECK_DEADLOCK FALSE
