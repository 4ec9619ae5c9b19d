SPECIFICATION LayeringSpec
CONSTANTS
  Inputs <- ShortInputs
INVARIANT LabelsHaveADummy
