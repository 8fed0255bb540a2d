SPECIFICATION Spec
CONSTANTS
  Window = {w1, w2}
  Key = {k1, k2}
  Repeating = {k1}
  Button = {b1}
  NoWindow = NoWindow
  NoKey = NoKey
  MaxWire = 2
SYMMETRY Symmetry
INVARIANTS
  KeysFollowFocus
  SettledKeyboard
  SettledPointer
PROPERTIES
  KeepsKeyboardPromise
