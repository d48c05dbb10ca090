CONSTANTS
  c1 = c1
  c2 = c2
  tick = tick
  drv = drv
  NoHandler = NoHandler
  Cpus <- MCCpus
  Handlers <- MCHandlers
  TimerCb = tick
  ExtDevice = TRUE
  Primary = c1
  NoStack = NoStack

SPECIFICATION Spec
PROPERTY ExtHandlerInvoked
