\* Two units, one of them authorised in the old layout.
CONSTANTS
  u1 = u1
  u2 = u2
  Blank = Blank
  Missing = Missing
  Unit = {u1, u2, Blank}
  Devices <- OneOrBoth
  Found <- EachLayout
  Legacy <- FirstMayMove
  MaxRuns = 3
  MaxEvents = 1
SPECIFICATION Spec
INVARIANT TypeOK
INVARIANT FailureChangesNothing
INVARIANT RestoreUndoesInstall
INVARIANT UninstallIsClean
INVARIANT NeverLockedOut
INVARIANT NothingRetiredTooEarly
INVARIANT TrustsOnlyThePerson
CHECK_DEADLOCK FALSE
