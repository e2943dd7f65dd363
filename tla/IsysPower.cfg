\* Two files, two contexts, and every fault except a reset of the device that
\* fails half way or meets a function-level reset.
SPECIFICATION FairSpec
CONSTANTS
  File = {f1, f2}
  NoFile = NoFile
  Ctx = {c1, c2}
  NoCtx = NoCtx
  Faults = {"powerUp", "powerDown", "tsc", "alloc", "pipe", "boot", "close", "flr", "broken", "strayIrq"}
INVARIANTS FirmwareHasOneOwner OpenFilesHaveFirmware IsrHasPower ContextsAccounted CountsMatchFiles
PROPERTIES MemoryOutlivesFirmware CallsReturn
