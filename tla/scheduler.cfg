\* The periodic scheduler over any broker, started, stopped and edited.
SPECIFICATION FairSpec
CONSTANTS
  n1 = n1
  n2 = n2
  Names = {n1, n2}
  ScheduleOf <- MCScheduleOf
  MaxLoops = 2
  RestTicks = 2
  MinuteTicks = 2
  LastMinute = 1
  None = None
  MaxEdits = 2
  MaxFaults = 1
INVARIANTS
  OneLoop
  RunningIsTrue
  StoppedIsQuiet
  QueuedOncePerDue
PROPERTIES
  KeepsRunning
