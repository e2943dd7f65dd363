\* One pipeline, and everything that can fail does: waits expire, commands cannot be sent, memory
\* runs out, the sensor refuses, resets come and go, the firmware may be dead.
CONSTANTS
  Pipe = {p1}
  NoPipe = NoPipe
  Handle = {0, 1}
  Msg = {m1, m2}
  NoMsg = NoMsg
  Pins = 1
  Buffers = 1
  RespSize = 1
  PoolReserve = 0
  MaxFailedStarts = 1
  TimeOuts = {"open", "start", "stop", "close"}
  SendMayFail = TRUE
  FwMayRefuse = FALSE
  FrameMayErr = FALSE
  SensorMayFail = TRUE
  ResetMayRun = TRUE
SPECIFICATION FairSpec
PROPERTIES StartsAndStopsEnd
