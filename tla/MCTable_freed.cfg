SPECIFICATION Spec
CONSTANTS
  Keys <- MCKeys
  Values = {a}
  None = None
  Hashes <- MCHashes
  Sizes <- MCSizes
  Caps = {3}
  MallocFails = {"rehash", "key"}
  FreedKeyIntact = TRUE
INVARIANTS
  FindsOnlySet
