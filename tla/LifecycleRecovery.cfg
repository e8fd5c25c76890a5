SPECIFICATION Spec
CONSTANTS
  Tasks = {t1}
  NoTask = NoTask
  Kinds = {"audio", "full"}
  AudioStages = 2
  MaxAttempt = 2
  MaxHandlers = 2
  MaxCrashes = 1
  t1 = t1
INVARIANTS TypeOK SlotHasOneOwner AcceptedNeverSucceeds ControlIsOwn OrphansAreSignalled
PROPERTIES NothingIsUndone KeepsContract
