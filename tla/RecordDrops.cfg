SPECIFICATION Spec

CONSTANTS
  UsizeMax = 4100
  Elements <- MCElements
  Payloads = {}
  Files = {}
  Indices = {}

INVARIANTS
  NothingDropped

CHECK_DEADLOCK FALSE
