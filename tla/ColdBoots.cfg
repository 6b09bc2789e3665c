\* Three sessions, a package rebuilt between them, boots of up to four frames.
CONSTANTS
  MaxBuilds = 2
  MaxSessions = 3
  Runs = 2
  MaxFrames = 4
SPECIFICATION Spec
INVARIANTS
  TypeOK
  RebuiltMeasuresPackage
  PassedMeansStable
PROPERTY
  SessionEnds
CHECK_DEADLOCK FALSE
