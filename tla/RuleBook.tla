------------------------------ MODULE RuleBook ------------------------------
(***************************************************************************)
(* What the administration of exact rules promises                         *)
(* (specs/requirements.md FR-A01): rules are created, changed and deleted  *)
(* one at a time, a patch changes the fields it names and no others, and a *)
(* key belongs to at most one rule of its scope.                           *)
(***************************************************************************)
CONSTANTS Ops, Keys, NoRule

VARIABLE book  \* the rule under each id, or NoRule

Free(k) == \A i \in Ops : book[i] # NoRule => book[i].key # k

Init == book = [i \in Ops |-> NoRule]

Create(i, k) ==
  /\ book[i] = NoRule
  /\ Free(k)
  /\ book' = [book EXCEPT ![i] = [key |-> k, dat |-> i]]

SetText(i, d) ==
  /\ book[i] # NoRule
  /\ book' = [book EXCEPT ![i] = [key |-> book[i].key, dat |-> d]]

SetKey(i, k) ==
  /\ book[i] # NoRule
  /\ Free(k)
  /\ book' = [book EXCEPT ![i] = [key |-> k, dat |-> book[i].dat]]

Delete(i) ==
  /\ book[i] # NoRule
  /\ book' = [book EXCEPT ![i] = NoRule]

Next ==
  \E i \in Ops :
    \/ Delete(i)
    \/ \E d \in Ops : SetText(i, d)
    \/ \E k \in Keys : Create(i, k) \/ SetKey(i, k)

Spec == Init /\ [][Next]_book
=============================================================================
