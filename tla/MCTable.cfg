SPECIFICATION Spec
CONSTANTS
  Keys <- MCKeys
  Values = {a, b}
  None = None
  Hashes <- MCHashes
  Sizes <- MCSizes
  Caps = {0, 3}
  MallocFails = {"rehash", "key"}
  FreedKeyIntact = FALSE
SYMMETRY MCSymmetry
INVARIANTS
  TypeOK
  CountIsEntries
  LoadRespected
  LookupAgrees
  PairsVisitsAll
PROPERTIES
  ImplementsMap
