\* Every machine and command line; two seconds' patience instead of five.
CONSTANTS
  Device <- Drives
  ProbeOrder <- Probed
  DefaultDisk = "hda"
  SysOrder <- Glob
  Matching = {"hdb", "sda", "sr0"}
  FallbackOrder <- Fallback
  HardNumber = {"hda", "hdb", "sr0"}
  MaxPolls = 2
  Machines <- Consoles
  CommandLines <- Lines
SPECIFICATION Spec
INVARIANTS
  TypeOK
  GaveUpJustified
  GivenDiskWins
PROPERTY
  LoaderEnds
CHECK_DEADLOCK FALSE
