\* One or two sensors on three versions of the hardware; see MCIsysCamera for the boards.
SPECIFICATION Spec
CONSTANTS
  s1 = s1
  s2 = s2
  Sensor = {s1, s2}
  Mode = {1, 3, 4}
  Faults = {"i2c", "power", "phy", "fw", "alloc"}
  Versions = {"6", "6SE", "MTL"}
  Boards <- MCBoards
  PadFormats <- MCPadFormats
  Crops <- MCCrops
  Activities <- MCActivities
  MaxCalls = 4
INVARIANTS RegistersAreSettings ReceivesWhatStreams PhyCountsPorts BackEndFollowsItsInput FirmwareToldTheNode SensorsHaveReceivers
