\* Uploads at the same time, images that hang, boots that format, and restarts.
SPECIFICATION DeviceSpec
CONSTANTS
  WebTasks = {w1, w2}
  Uploads <- ManyUploads
  EraseSize = 2
  ActivePages = 2
  Factory = Factory
  None = None
  MaxResets = 1
  Period = 3
  MountTime = 0
  FormatTime = 1
  SeedTime = 1
  EthernetTime = 0
  DhcpPause = 0
  BlinkPause = 0
  FeedPause = 0
  Busy = 1
  Broken <- HangingUpload
INVARIANTS
  TypeOK
  StartupTypes
  BitesOnlyTheSlow
  RunsWholeImage
  FallbackIsWhole
  HangsWithFallback
PROPERTIES
  MarkedGetsToRun
  ComesBack
CHECK_DEADLOCK FALSE
