------------------------------- MODULE MCWatch -------------------------------
(* Instances of Watch for TLC.                                             *)
EXTENDS Watch, TLC

CONSTANTS root, sub, leaf, a, b

Nested == (sub :> root) @@ (leaf :> sub)

\* A file in the root, and one in the directory that can be ignored.
InRootAndLeaf == (a :> root) @@ (b :> leaf)

=============================================================================
