\* What the gate says of the remount when it passes.
CONSTANTS
  Marker = marker
  Normal = normal
  Status = status
  File = {marker, normal, status}
  Content = {"absent", "text", "PENDING", "OK", "FAILED"}
  FirstImage <- PackagedImage
  MaxAttempts = 2
  MaxBoots = 3
  BootCount = 2
SPECIFICATION GateSpec
INVARIANT
  ConfirmedAfterEachBoot
CHECK_DEADLOCK FALSE
