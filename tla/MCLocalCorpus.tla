--------------------------- MODULE MCLocalCorpus ---------------------------
EXTENDS LocalCorpus, TLC

CONSTANTS a, b, t, u, p1, p2

\* One goroutine ingests; the other ingests, prunes and runs the gardener.
MCCalls == (p1 :> {"upsert", "burst"}) @@ (p2 :> {"burst", "delete", "warm"})

CorpusSymmetry == Permutations({a, b}) \cup Permutations({t, u})

=============================================================================
