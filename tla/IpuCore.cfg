SPECIFICATION Spec
CONSTANTS
  Thread = {pci, dbg1}
  Pci = pci
  MaxPolls = 1
  MaxJobs = 1
  MaxResets = 2
  MaxPhases = 1
  MaxUsage = 2
  Faults = {"validity", "nack", "badImage", "noReset", "alloc", "power", "modeChange"}
INVARIANTS SuccessIsReal AuthenticatesAwake CseReadsMappedImage NothingHeldUnbound ResetRemembered
