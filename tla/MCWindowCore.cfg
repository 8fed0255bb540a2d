SPECIFICATION Spec
CONSTANTS
  Window = {w1, w2}
  Key = {k1, k2}
  Context = {c1}
  NoWindow = NoWindow
  NoKey = NoKey
  NoContext = NoContext
  MaxWire = 2
  MaxStamp = 4
SYMMETRY Symmetry
INVARIANTS
  NoDanglingEvent
  CurrentIsLive
  NoStuckKeyInApplication
  FocusIsTracked
  SettledInput
PROPERTIES
  RepeatMeansHeld
