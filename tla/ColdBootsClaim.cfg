\* The same, against what the report and its result files say.
CONSTANTS
  MaxBuilds = 2
  MaxSessions = 2
  Runs = 1
  MaxFrames = 4
SPECIFICATION Spec
INVARIANT ResultNamesBootedPackage
CHECK_DEADLOCK FALSE
