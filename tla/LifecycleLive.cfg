SPECIFICATION FairSpec
CONSTANTS
  Tasks = {t1}
  NoTask = NoTask
  Kinds = {"audio", "full", "plain"}
  AudioStages = 1
  MaxAttempt = 1
  MaxHandlers = 1
  MaxCrashes = 1
  t1 = t1
PROPERTIES AcceptedSettles OrphansStop
