----------------------------- MODULE MCHandover -----------------------------
EXTENDS Handover

CONSTANTS c1, c2

=============================================================================
