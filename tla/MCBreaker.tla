------------------------------ MODULE MCBreaker ------------------------------
\* Three concurrent calls, threshold 2, a window of 3 ticks, timed calls of at most 2.
EXTENDS Breaker, TLC

CONSTANTS c1, c2, c3

MCCalls == {c1, c2, c3}

CallSymmetry == Permutations(MCCalls)
=============================================================================
