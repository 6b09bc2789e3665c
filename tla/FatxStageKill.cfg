\* Runs killed between any two writes, then run again with --clean-known-boot.
CONSTANTS
  ClusterCount = 8
  SlotCount = 5
  Name <- Names
  ShortEnd = {7}
  InitialVolumes <- Volumes
  Plans <- CleanPlans
  Blocks <- FileBlocks
  ConfigName = "linuxboot.cfg"
  PayloadName = "linuxroot.ext2"
  MaxRuns = 2
  MayKill = TRUE
SPECIFICATION Spec
INVARIANTS
  TypeOK
  NoCrossLink
  NoDanglingAtAllocation
  MismatchMeansShortEnd
PROPERTY
  OtherFilesUntouched
CHECK_DEADLOCK FALSE
