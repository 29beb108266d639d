SPECIFICATION Spec
CONSTANTS
  Keys <- MCKeys
  Values = {a}
  None = None
  Hashes <- MCHashes
  Sizes <- MCSizes
  Caps = {0}
  MallocFails = {"rehash", "key", "key after a move"}
  FreedKeyIntact = FALSE
INVARIANTS
  CountIsEntries
