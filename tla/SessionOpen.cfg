\* Two threads racing through Session::open, again and again.
SPECIFICATION Spec
CONSTANTS
  Threads = {t1, t2}
  Bundles = {good, odd}
  NonUtf8 = {odd}
  MaxErrors = 2
SYMMETRY ThreadSymmetry
INVARIANTS
  TypeOK
  AtMostOneOwner
  NoSecondBootstrap
  RefusalsLeaveProcessFresh
  NoSilentLoadFailure
  CrashNeedsChangedBundle
PROPERTY
  ImplementsGuard
