-------------------------- MODULE MCEmbeddingClient --------------------------
\* Four calls of one gateway.
EXTENDS EmbeddingClient, TLC

CONSTANTS c1, c2, c3, c4

MCCalls == {c1, c2, c3, c4}

CallSymmetry == Permutations(MCCalls)
=============================================================================
