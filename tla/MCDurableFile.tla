--------------------------- MODULE MCDurableFile ---------------------------
EXTENDS DurableFile, TLC

CONSTANTS w1, w2, x, y

FileSymmetry == Permutations({w1, w2}) \cup Permutations({x, y})

=============================================================================
