SPECIFICATION Spec
CONSTANTS
  Modes = {"monitor", "protect"}
  Segments = 2
  Measures = {20, 22, 25}
  Attempts = 1
INVARIANT TypeOK
INVARIANT RoundsDoNotMix
INVARIANT CalibrationIsStill
INVARIANT FaultHoldsPath
PROPERTY MonitorIsReadOnly
