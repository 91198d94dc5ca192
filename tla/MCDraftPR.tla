----------------------------- MODULE MCDraftPR -----------------------------
(* Two requests for one tuple that differ in their content.                *)
EXTENDS DraftPR

CONSTANTS w1, w2, p, q

TwoRequests == {[key |-> 1, content |-> "x"], [key |-> 1, content |-> "y"]}

=============================================================================
