SPECIFICATION FairSpec
CONSTANTS
  Pins = {p1}
  Objects = {o1, o2}
  QueueSize = 3
  DepthMax = 3
  CallbackSteps = 1
  ConsoleMax = 2
  InterruptMax = 3
  CallbacksReturn = TRUE
  Swallows = FALSE
  DropsInCallbacks = FALSE
  None = None
PROPERTIES
  QueueIsFifo
  CtrlCStopsTask
  EventsAreDispatched
