\* A 32-bit table, where 0xFFF8 and 0xFFFF are cluster numbers.
CONSTANTS
  ClusterCount = 8
  SlotCount = 5
  Name <- Names
  ShortEnd = {4}
  InitialVolumes <- Volumes
  Plans <- HddPlans
  Blocks <- FileBlocks
  ConfigName = "linuxboot.cfg"
  PayloadName = "linuxroot.ext2"
  MaxRuns = 1
  MayKill = FALSE
SPECIFICATION Spec
INVARIANT
  ReadbackAlwaysMatches
CHECK_DEADLOCK FALSE
