CONSTANTS
  Characters <- MCCharacters
  Root <- MCRoot
  Pieces <- MCPieces
  MaxPieces = 5
SPECIFICATION Spec
INVARIANTS IgnoredAsAsked CutAtRoot BufferFits
