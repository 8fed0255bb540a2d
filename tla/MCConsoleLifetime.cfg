SPECIFICATION Spec
CONSTANTS
  t1 = t1
  t2 = t2
  t3 = t3
  h1 = h1
  h2 = h2
  NoTileset = NoTileset
  Platforms = {"unix", "windows", "macos"}
  Address = {t1, t2, t3}
  Handle = {h1, h2}
  MaxTiles = 2
  MaxStarts = 2
  MaxCalls = 5
INVARIANTS
  CleanSlate
  NestedLifetimes
  FallsBack
  FramesAreSound
SYMMETRY Interchangeable
CHECK_DEADLOCK FALSE
