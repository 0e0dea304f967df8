-------------------------------- MODULE MCQA --------------------------------
\* Four requests whose vectors lie in a row, each similar to its neighbours; the
\* fourth is of another scope, and the first two have the same text.
EXTENDS QA, TLC

CONSTANTS r1, r2, r3, r4, s1, s2, t1, t2, t3

FourRequests == {r1, r2, r3, r4}
ScopeOf == (r1 :> s1) @@ (r2 :> s1) @@ (r3 :> s1) @@ (r4 :> s2)
TextOf == (r1 :> t1) @@ (r2 :> t1) @@ (r3 :> t2) @@ (r4 :> t3)
Neighbours == (r1 :> {r1, r2}) @@ (r2 :> {r1, r2, r3}) @@ (r3 :> {r2, r3, r4}) @@ (r4 :> {r3, r4})

\* Merging by vectors with a shared collection; no merging with a collection for
\* the answers written back; merging by text; and parts alone.
Wirings ==
  {{"embedder", "vector", "writer", "downstream", "coalesce", "semantic"},
   {"embedder", "vector", "writer", "dedup", "downstream"},
   {"downstream", "coalesce"}, {"vector"}}
=============================================================================
