SPECIFICATION FairSpec
CONSTANTS
  t1 = t1
  t2 = t2
  nothing = nothing
  Backends = {"x11", "wayland", "primary", "win32", "cocoa"}
  Text = {t1, t2}
  Nothing = nothing
  MaxWire = 3
  MaxSending = 1
  MaxMoves <- MCMoves
INVARIANTS
  PasteFindsText
  ServesItsSource
PROPERTIES
  KeepsClipboardPromise
  ReadsEnd
CHECK_DEADLOCK FALSE
