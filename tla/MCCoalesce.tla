------------------------------ MODULE MCCoalesce ------------------------------
\* Requests of one scope, merged by text or by meaning.
EXTENDS SemanticRedis, TLC

CONSTANTS r1, r2, r3, text, dead

MCRequests == {r1, r2, r3}
MCDead == {dead}
MCKeys == MCRequests \cup {text, dead}

\* r2 and r3 are similar to r1, and not to each other.
Chain == {{r1, r2}, {r1, r3}}

RequestSymmetry == Permutations({r2, r3})
=============================================================================
