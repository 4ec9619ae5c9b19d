SPECIFICATION LayeringSpec
CONSTANTS
  Inputs <- AllInputs
INVARIANTS
  LayeringTypeOK
  EffectiveEdgesDescend
  ReversedOnlyInCycles
  TightTreeSpansFeasibleRanks
  OptimalOnSimpleGraphs
  ChainsReplaceEdges
  CompoundsHoldTheirNodes
  ExitsEndBelowTheFrame
