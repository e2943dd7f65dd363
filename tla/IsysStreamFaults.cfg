\* Two pipelines on two handles.  START, FLUSH and CLOSE may time out and answer
\* late, the firmware may refuse, frames may be bad; OPEN is always answered.
CONSTANTS
  Pipe = {p1, p2}
  NoPipe = NoPipe
  Handle = {0, 1}
  Msg = {m1, m2, m3}
  NoMsg = NoMsg
  Pins = 1
  Buffers = 1
  RespSize = 3
  PoolReserve = 0
  MaxFailedStarts = 1
  TimeOuts = {"start", "stop", "close"}
  SendMayFail = FALSE
  FwMayRefuse = TRUE
  FrameMayErr = TRUE
  SensorMayFail = FALSE
  ResetMayRun = FALSE
SPECIFICATION Spec
SYMMETRY FullSymmetry
INVARIANTS ResponsesAreRouted OpenedCountsSessions NoHandleLeak
  FirmwareCommandsLegal FreeMessagesUnused CaptureSubmittedOnce
