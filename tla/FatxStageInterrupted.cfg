\* A killed run, then one without --clean-known-boot.
CONSTANTS
  ClusterCount = 8
  SlotCount = 5
  Name <- Names
  ShortEnd = {}
  InitialVolumes <- Volumes
  Plans <- HddPlans
  Blocks <- FileBlocks
  ConfigName = "linuxboot.cfg"
  PayloadName = "linuxroot.ext2"
  MaxRuns = 2
  MayKill = TRUE
SPECIFICATION Spec
INVARIANT
  ManifestDescribesDisk
CHECK_DEADLOCK FALSE
