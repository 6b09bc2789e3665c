\* What the gate says of the poweroff when it passes.
CONSTANTS
  Note = note
  Status = status
  File = {note, status}
  Content = {"absent", "text", "PENDING", "SAFE", "FAILED"}
  FirstImage <- PackagedImage
  MaxAttempts = 2
  BootCount = 2
SPECIFICATION Spec
INVARIANT
  PassedMeansPoweredOff
CHECK_DEADLOCK FALSE
