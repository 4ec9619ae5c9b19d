SPECIFICATION LayoutSpec
CONSTANTS
  Inputs <- AllInputs
INVARIANTS
  RanksAreOrdered
  FramesStandTogether
PROPERTIES
  SwitchingOnlyHelps
  LayoutEnds
