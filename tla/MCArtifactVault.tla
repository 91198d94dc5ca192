-------------------------- MODULE MCArtifactVault --------------------------
EXTENDS ArtifactVault, TLC

CONSTANTS c1, c2, c3, x, y

VaultSymmetry == Permutations({c1, c2, c3}) \cup Permutations({x, y})

=============================================================================
