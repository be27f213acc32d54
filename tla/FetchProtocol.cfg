\* Two fetches; handlers that fire late, twice or never; an error at any time.
\* Nothing makes the replayer answer: only the caller's own steps are fair.
SPECIFICATION FairSpec
CONSTANTS
  MaxCalls = 2
  Fires = {f1, f2}
  MaxErrors = 1
  Timeout = 1
INVARIANTS
  OwnReply
  OwnErrorsSurface
  NoStaleBlame
  FilledOnce
  BlockErrorsAreSeen
PROPERTIES
  FetchReturns
  NothingProlongs
  KeepsPromise
CHECK_DEADLOCK FALSE
