SPECIFICATION FairSpec

\* Deep enough for a collection in a collection in a collection; the counter
\* is never stopped by its bound: no archive of the list has so many walks.
CONSTANTS
  MaxDepth = 6
  MaxVisits = 150
  Values <- MCValues
  Archives <- MCArchives

INVARIANTS
  DepthBounded
  Faithful
  VerdictIsJustified
  OneCallPerWalk
  EnvelopeAgrees
  StagesComplete

PROPERTIES
  Terminates

\* A reader that has answered has nothing left to do.
CHECK_DEADLOCK FALSE
