----------------------------- MODULE MCGardener -----------------------------
EXTENDS Gardener

CONSTANTS j1, j2, p1, p2

=============================================================================
