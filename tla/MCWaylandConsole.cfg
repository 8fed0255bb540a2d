SPECIFICATION Spec
CONSTANTS
  Output = {o1, o2}
  Scales = {1, 2}
  Fractions = {180}
  Proposals <- MCProposals
  Asked = {4}
  Setups <- MCSetups
  Configs <- MCConfigs
  MaxOutputs = 2
  MaxWire = 2
  MaxEvents = 2
  Columns = {2}
  Tiles = {2, 3}
SYMMETRY Symmetry
INVARIANTS
  SizeIsAgreed
  ScaleIsSharp
  MouseInCells
