SPECIFICATION Spec
CONSTANTS
  Codepoint <- MCCodepoint
  Cp437 <- MCCp437
  Sheet <- MCSheet
  Index <- MCIndex
  glDraw = glDraw
  glBlit = glBlit
  glFog = glFog
  wglSwap = wglSwap
  glLong = glLong
  Name = {glDraw, glBlit, glFog, wglSwap, glLong}
  LongName = {glLong}
  Absent = {glFog}
  Contextual = {wglSwap}
  Size = 4
  MaxSessions = 2
  Columns = 12
  Rows = 3
  Units <- MCUnits
  Composed <- MCComposed
  Strings <- MCStrings
  Texts <- MCTexts
  Widths = {1, 2, 3, 4}
  MaxMaps = 2
INVARIANTS
  TextSurvives
  WrapsWell
  AnswersAreTheDrivers
SYMMETRY Interchangeable
CHECK_DEADLOCK FALSE
