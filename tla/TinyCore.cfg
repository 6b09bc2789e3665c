\* Two runs of the resolver, any medium made of what they leave, any machine.
CONSTANTS
  Ext <- Extensions
  LowerCase <- Small
  Seeds <- Desktop
  Deps <- Lists
  Packed <- Has
  Summed <- Sums
  Cut = "cut"
  MaxVersion = 2
  MaxRuns = 2
  Fonts = "Xorg-fonts"
  NameSize <- Bytes
  NameOrder <- Alphabet
  RootSector = 18
  FirstDirSector = 21
  DirCapacity = 7
  Device <- Drives
  SysOrder <- Glob
  Matching = {"hdb", "sr0"}
  FallbackOrder <- Fixed
  DiskOrder <- Disks
  MaxTries = 2
  Path <- Paths
  Provides <- Brings
  CorePaths = {"conf"}
  HotOrder <- Hot
  Dropbear = "sshd"
  Machines <- Consoles
SPECIFICATION Spec
INVARIANTS
  TypeOK
  DependenciesFirst
  FinishedOrderIsWhole
  ListedIsIntact
  ArchiveUnpacksWhole
  OverlayIsSound
  GivenUpJustified
  WholePayloadLoads
  PathsReadRight
  ReleaseTellsTheTruth
PROPERTIES
  BootEnds
  RemoteComesUp
CHECK_DEADLOCK FALSE
