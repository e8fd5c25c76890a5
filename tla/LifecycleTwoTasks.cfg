SPECIFICATION Spec
CONSTANTS
  Tasks = {t1, t2}
  NoTask = NoTask
  Kinds = {"audio", "plain", "step"}
  AudioStages = 1
  MaxAttempt = 1
  MaxHandlers = 1
  MaxCrashes = 1
  t1 = t1
  t2 = t2
SYMMETRY Symm
INVARIANTS OneActiveRecord RecordsHaveFiles
PROPERTIES KeepsContract
