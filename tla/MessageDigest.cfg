SPECIFICATION Spec
CONSTANTS
  Types <- MCTypes
  Data <- MCData
  MaxLength = 168
  Garbage = {170}
  None = None
INVARIANTS HashesPadded OutputInOrder
