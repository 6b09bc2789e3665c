\* Every plan, two runs on one image; on sound volumes with room and
\* without, so that runs also fail, wherever the code raises, and on volumes
\* that came damaged.
CONSTANTS
  ClusterCount = 8
  SlotCount = 4
  Name <- Names
  ShortEnd = {}
  InitialVolumes <- EveryVolume
  Plans <- AnyPlans
  Blocks <- FileBlocks
  ConfigName = "linuxboot.cfg"
  PayloadName = "linuxroot.ext2"
  MaxRuns = 2
  MayKill = FALSE
SPECIFICATION FairSpec
PROPERTIES
  ManifestTrueIfSound
  ConfigTrueIfSound
  DamageStays
  RunEnds
CHECK_DEADLOCK FALSE
