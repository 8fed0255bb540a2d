SPECIFICATION Spec
CONSTANTS
  lshift = lshift
  rshift = rshift
  caps = caps
  command = command
  letter = letter
  left = left
  extra = extra
  Backends = {"x11", "win32", "cocoa"}
  Size = {1, 2}
  Screen = 3
  Scale = {1, 2}
  Key = {lshift, rshift, caps, command, letter}
  Modifier = {lshift, rshift, caps, command}
  Lock = {caps}
  Command = {command}
  Shift = {lshift, rshift}
  Button = {left, extra}
  Extra = {extra}
  MaxWire = 3
  MaxMoves <- MCMoves
INVARIANTS
  SettledGeometry
  SettledStates
  SettledInput
  SettledButtons
PROPERTIES
  KeepsKeyboardPromise
CHECK_DEADLOCK FALSE
