SPECIFICATION FairSpec
CONSTANTS
  Faults = {"path", "stubborn"}
INVARIANTS
  SuspendedMeansQuiet
PROPERTIES
  OwnBannerIsEnded
  RunningModuleTerminates
