\* Every command, in any order, with failures and changing sources.
SPECIFICATION Safety
CONSTANTS
  FlashBase = 16
  AppOffset = 12
  FlashSize = 32
  BootState = 24
  SectorSize = 4
  PayloadSize = 2
  Boot2 <- Boot2Bytes
  Bootloader <- BootloaderBytes
  Layout <- AppLayouts
  CutPoints <- InActive
  MaxCommands = 4
  MaxVersion = 2
INVARIANTS
  TypeOK
  ProbeLeavesRunning
PROPERTIES
  UploadInPlace
CHECK_DEADLOCK FALSE
