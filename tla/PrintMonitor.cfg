SPECIFICATION Spec
CONSTANTS
  Detection = 3
  Resolution = 2
  Lag = 1
  PauseMode = TRUE
  CounterResets = TRUE
  MaxTravel = 5
  MaxPosition = 3
INVARIANT RunsOnAQuietPath
INVARIANT AccumulatorsMeasure
PROPERTY AlarmsAreSlips
INVARIANT JamsAreReported
PROPERTY OneEventPerJam
