SPECIFICATION Spec
CONSTANTS
  Backends = {"x11", "wayland", "win32", "cocoa"}
  Calls = {"poll", "wait", "timed"}
  PipeSize = 1
  MaxEvents = 2
  MaxWakes = 2
CHECK_DEADLOCK FALSE
INVARIANTS
  WakesAreKept
PROPERTIES
  NothingIsHonest
  TimedWaitReturns
  WaiterIsWoken
