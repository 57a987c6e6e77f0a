CONSTANTS
  AlphabetSize = 4
  MaxBits = 3
  FirstLength = 2
  DwordRange = 65536
  MaxLiterals = 0
  ComplexSymbol <- MCComplexSymbol
SPECIFICATION PcSpec
INVARIANTS SimpleCodeSorted
CHECK_DEADLOCK FALSE
