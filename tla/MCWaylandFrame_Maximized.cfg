SPECIFICATION FrameSpec
CONSTANTS
  Sizes <- MCSizes
  Screen <- MCScreen
  Scales = {1, 2}
  Failing = {"top"}
  Resizable = TRUE
  Largest <- MCLargest
INVARIANT MaximizedFits
