\* Three jobs, a stop, a crash and two failing queries
SPECIFICATION FairSpec
CONSTANTS
  r1 = r1
  r2 = r2
  Jobs <- ThreeJobs
  Drains <- TwoDrains
  None = None
  MaxStops = 1
  MaxCrashes = 1
  MaxFailures = 2
INVARIANTS
  OneDrain
  StoppedIsQuiet
  StopInterruptsNothing
PROPERTIES
  ImplementsQueue
  EveryJobEnds
  PendingIsClaimed
