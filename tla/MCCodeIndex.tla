----------------------------- MODULE MCCodeIndex -----------------------------
(* Small instances of CodeIndex for TLC. *)
EXTENDS CodeIndex, TLC

CONSTANTS a, b, empty, irregular

\* Every worker is a process of its own, or all but one share a process.
OwnProcess == [w \in Workers |-> w]
TwoAndOne ==
    LET shared == CHOOSE p \in Procs : TRUE
        alone == CHOOSE w \in Workers : TRUE
    IN  [w \in Workers |-> IF w = alone THEN CHOOSE p \in Procs : p # shared ELSE shared]

\* Workers (and with OwnProcess their processes) and the two ordinary bodies
\* are interchangeable.
Symmetry == Permutations(Workers) \cup Permutations({a, b})

=============================================================================
