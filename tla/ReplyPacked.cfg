\* Is a packed color really refused by pixels(), as its documentation says?
SPECIFICATION Spec
CONSTANTS
  U32 = 8
  Formats <- SomeFormats
  Elements <- SomeElements
  MaxRecords = 1
  DataLens = {4}
  Offsets = {0}
  Sizes = {4}
  Widths = {1, 2}
  Heights = {1}
  Strides = {2, 4}
INVARIANT
  PixelsOnlyByteAligned
CHECK_DEADLOCK FALSE
