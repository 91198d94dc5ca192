-------------------------- MODULE MCChangeSetApply --------------------------
(* Instances of ChangeSetApply for TLC.                                    *)
EXTENDS ChangeSetApply

CONSTANTS a1, a2

=============================================================================
