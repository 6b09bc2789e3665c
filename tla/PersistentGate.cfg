\* The gate as run: two boots of one image.
CONSTANTS
  Note = note
  Status = status
  File = {note, status}
  Content = {"absent", "text", "PENDING", "SAFE", "FAILED"}
  FirstImage <- PackagedImage
  MaxAttempts = 2
  BootCount = 2
SPECIFICATION Spec
INVARIANTS
  GateTypeOK
  StatusTellsTheEnd
  PassedMeansStoppedItself
PROPERTY
  GateEnds
CHECK_DEADLOCK FALSE
