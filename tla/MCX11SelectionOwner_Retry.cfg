SPECIFICATION Spec
CONSTANTS
  t1 = t1
  t2 = t2
  Requestor = {r1}
  Prop = {p1}
  Text = {t1, t2}
  Large = {t1}
  Pieces <- MCPieces
  Slots = 2
  Concurrent = FALSE
  NoText = NoText
  NoRequestor = NoRequestor
  MaxAsks = 3
  MaxSets = 2
  MaxMoves = 4
  MaxWire = 2
CHECK_DEADLOCK FALSE
INVARIANT
  ChunksAreOfOneText
