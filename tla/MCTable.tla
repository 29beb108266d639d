------------------------------- MODULE MCTable -------------------------------
(* Small instances of Table for TLC.                                          *)
EXTENDS Table

MCKeys == 1 .. 4
MCSizes == <<5, 7, 11>>
\* every way keys may collide on these hashes, up to a renaming of the keys
MCHashes == {h \in [MCKeys -> {0, 5, 6}] : \A i, j \in MCKeys : i < j => h[i] <= h[j]}
\* values are only stored and compared
MCSymmetry == Permutations(Values)
===============================================================================
