\* Flashing the combined image.
SPECIFICATION Safety
CONSTANTS
  FlashBase = 16
  AppOffset = 12
  FlashSize = 32
  BootState = 24
  SectorSize = 4
  PayloadSize = 2
  Boot2 <- Boot2Bytes
  Bootloader <- BootloaderBytes
  Layout <- OneLayout
  CutPoints <- Nowhere
  MaxCommands = 1
  MaxVersion = 1
INVARIANTS
  CombinedPlacesApp
CHECK_DEADLOCK FALSE
