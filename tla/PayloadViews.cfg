SPECIFICATION Spec

\* usize::MAX scaled down, so that the counts below overflow it.
CONSTANTS
  UsizeMax = 4100
  Elements <- MCElements
  Payloads <- MCPayloads
  Files <- MCFiles
  Indices = {0, 1, 2, 82, 84, 86, 4000}

INVARIANTS
  BytesSeenOnce
  ViewsFit
  RefusedForCause

\* Views are asked for until the caller stops; some records have none.
CHECK_DEADLOCK FALSE
