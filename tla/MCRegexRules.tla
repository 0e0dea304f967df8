---------------------------- MODULE MCRegexRules ----------------------------
\* Two queries, rules that match one or both, and patches of every field, one of
\* which does not compile and one of which names no field.
EXTENDS RegexRules

CONSTANTS g1, g2, s1, q1, q2, t1, t2

OneGateway == {g1}
OtherGateway == {g2}
ThreeOps == 1 .. 3
OneScope == {s1}
TwoQueries == {q1, q2}
TwoStamps == {1, 2}

Wide == [scope |-> s1, pat |-> {q1, q2}, pri |-> 1, dat |-> t1]
Narrow == [scope |-> s1, pat |-> {q1}, pri |-> 2, dat |-> t1]
Wrong == [scope |-> s1, pat |-> Bad, pri |-> 2, dat |-> t1]

MCDrafts == {Wide, Narrow, Wrong}

MCPatches == {[pri |-> 2], [dat |-> t2], [pat |-> {q2}], [pat |-> Bad], <<>>}
=============================================================================
