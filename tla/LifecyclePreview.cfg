SPECIFICATION Spec
CONSTANTS
  Tasks = {t1}
  NoTask = NoTask
  Kinds = {"preview"}
  AudioStages = 1
  MaxAttempt = 1
  MaxHandlers = 1
  MaxCrashes = 1
  t1 = t1
INVARIANTS AllOrphansAreSignalled
