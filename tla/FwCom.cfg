\* Callers keep to the queue size, as the driver is meant to.
CONSTANTS
  Token = {t1, t2}
  NoToken = NoToken
  QueueSize = 3
  Credits = 3
SPECIFICATION Spec
PROPERTIES CommandsAreFifo ResponsesAreFifo
