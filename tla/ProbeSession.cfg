SPECIFICATION Spec

\* Two attempts: one refused or past the guard, one that finds it burnt; two
\* fetches, so that the first can time out and answer late; two errors, one
\* before a mark and one after.
CONSTANTS
  MaxAttempts = 2
  MaxCalls = 2
  MaxErrors = 2
  Timeout = 1

PROPERTIES
  OpensClean
  ImplementsPromises

\* A probe that has made its calls ends.
CHECK_DEADLOCK FALSE
