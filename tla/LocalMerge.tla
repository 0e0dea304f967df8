----------------------------- MODULE LocalMerge -----------------------------
(***************************************************************************)
(* Coalescing inside one gateway: SemanticLocal (coalesce/semantic_local.  *)
(* go) puts a request into a group whose representative vector is similar, *)
(* RAG (coalesce/rag.go) puts it with those of the same text, and in both  *)
(* cases a singleflight lets one request of the group run downstream while *)
(* the others wait for its answer.  A semantic group is chosen under the   *)
(* mutex, entered without it and taken off the list under it again, so     *)
(* that a request can enter a group that is no longer listed.              *)
(*                                                                         *)
(* A semantic group is named after the request that founds it, whose       *)
(* vector represents it; a text group is its merge key.  An answer is the  *)
(* name of the request it was made for.  Of several similar groups the     *)
(* code takes the oldest; here it is any of them.                          *)
(***************************************************************************)
EXTENDS Naturals

CONSTANTS Requests,
          Scope,      \* the scope of each request
          Text,       \* the merge key of each request
          Similar,    \* Similar[r]: the requests whose vector is similar to that of r
          Blank,      \* an answer without text
          Failed,     \* an error instead of an answer
          Nobody

Scopes == {Scope[r] : r \in Requests}
Groups == Requests \cup {Text[r] : r \in Requests}
Outcomes == Requests \cup {Blank, Failed}

ASSUME MergeAssumption ==
  /\ \A r \in Requests : r \in Similar[r] /\ Similar[r] \subseteq Requests
  /\ \A r \in Requests : \A p \in Similar[r] : r \in Similar[p]
  /\ \A r, p \in Requests : Text[r] = Text[p] => Scope[r] = Scope[p]
  /\ \A r \in Requests : Text[r] \notin Requests
  /\ {Blank, Failed} \cap Requests = {}
  /\ Nobody \notin Groups \cup Outcomes

VARIABLES listed,  \* byScope: per scope the groups open to new requests
          runner,  \* per group: the request inside singleflight's function
          at,      \* per request: where it is in Merge or Do
          group,   \* per request: the group it has chosen
          result   \* per request: what its run or its group returned

\* The requests that entered a group after it had been taken off the list.  For
\* the properties; no action reads it.
VARIABLE late

mergeVars == <<listed, runner, at, group, result, late>>

MergeInit ==
  /\ listed = [s \in Scopes |-> {}]
  /\ runner = [g \in Groups |-> Nobody]
  /\ at = [r \in Requests |-> "out"]
  /\ group = [r \in Requests |-> Nobody]
  /\ result = [r \in Requests |-> Nobody]
  /\ late = {}

Listed(g) == \E s \in Scopes : g \in listed[s]

\* (variant) The list of every scope is searched.
MatchesAnywhere(r) == {g \in Similar[r] : Listed(g)}

\* The listed groups of its scope that r may join.
Matches(r) == listed[Scope[r]] \cap Similar[r]

\* (variant) The list is not searched.
ChooseOwn(r) ==
  /\ group' = [group EXCEPT ![r] = r]
  /\ at' = [at EXCEPT ![r] = "enter"]
  /\ listed' = [listed EXCEPT ![Scope[r]] = @ \cup {r}]
  /\ UNCHANGED <<runner, result, late>>

\* Under the mutex: a similar group, or a new one.
Choose(r) ==
  /\ at' = [at EXCEPT ![r] = "enter"]
  /\ \/ /\ \E g \in Matches(r) : group' = [group EXCEPT ![r] = g]
        /\ UNCHANGED listed
     \/ /\ Matches(r) = {}
        /\ group' = [group EXCEPT ![r] = r]
        /\ listed' = [listed EXCEPT ![Scope[r]] = @ \cup {r}]
  /\ UNCHANGED <<runner, result, late>>

\* RAG.Do: the group is given by the text.
ChooseText(r) ==
  /\ group' = [group EXCEPT ![r] = Text[r]]
  /\ at' = [at EXCEPT ![r] = "enter"]
  /\ UNCHANGED <<listed, runner, result, late>>

\* (variant) The group is taken off the list before fn is called.
EnterUnlisted(r) ==
  /\ at[r] = "enter"
  /\ late' = IF Listed(group[r]) THEN late ELSE late \cup {r}
  /\ IF runner[group[r]] # Nobody
       THEN at' = [at EXCEPT ![r] = "wait"] /\ UNCHANGED <<runner, listed>>
       ELSE /\ at' = [at EXCEPT ![r] = "run"] /\ runner' = [runner EXCEPT ![group[r]] = r]
            /\ listed' = [listed EXCEPT ![Scope[r]] = @ \ {group[r]}]
  /\ UNCHANGED <<group, result>>

\* singleflight.Group.Do: join the run that is in progress, or begin one.
Enter(r) ==
  /\ at[r] = "enter"
  /\ late' = IF Listed(group[r]) THEN late ELSE late \cup {r}
  /\ IF runner[group[r]] # Nobody
       THEN at' = [at EXCEPT ![r] = "wait"] /\ UNCHANGED runner
       ELSE at' = [at EXCEPT ![r] = "run"] /\ runner' = [runner EXCEPT ![group[r]] = r]
  /\ UNCHANGED <<listed, group, result>>

\* (variant) The group of a failed run stays listed.
RemoveIfAnswered(r, v) ==
  /\ at[r] = "run"
  /\ result' = [result EXCEPT ![r] = v]
  /\ listed' = [listed EXCEPT ![Scope[r]] = IF v = Failed THEN @ ELSE @ \ {group[r]}]
  /\ at' = [at EXCEPT ![r] = "finish"]
  /\ UNCHANGED <<runner, group, late>>

\* fn returns an answer or an error and the group is taken off the list, under the
\* mutex, if it is there.  (Between the two fn might as well be running.)
FnReturns(r, v) ==
  /\ at[r] = "run"
  /\ result' = [result EXCEPT ![r] = v]
  /\ listed' = [listed EXCEPT ![Scope[r]] = @ \ {group[r]}]
  /\ at' = [at EXCEPT ![r] = "finish"]
  /\ UNCHANGED <<runner, group, late>>

\* (variant) The run is not forgotten: whoever enters later waits for it.
FinishHalf(r) ==
  /\ at[r] = "finish"
  /\ LET woken == {p \in Requests : p = r \/ (at[p] = "wait" /\ group[p] = group[r])}
     IN  /\ at' = [p \in Requests |-> IF p \in woken THEN "merged" ELSE at[p]]
         /\ result' = [p \in Requests |-> IF p \in woken THEN result[r] ELSE result[p]]
  /\ UNCHANGED <<listed, group, runner, late>>

\* singleflight ends the run: those who wait get its result, later ones run anew.
Finish(r) ==
  /\ at[r] = "finish"
  /\ runner' = [runner EXCEPT ![group[r]] = Nobody]
  /\ LET woken == {p \in Requests : p = r \/ (at[p] = "wait" /\ group[p] = group[r])}
     IN  /\ at' = [p \in Requests |-> IF p \in woken THEN "merged" ELSE at[p]]
         /\ result' = [p \in Requests |-> IF p \in woken THEN result[r] ELSE result[p]]
  /\ UNCHANGED <<listed, group, late>>

-----------------------------------------------------------------------------
(* Properties *)

MergeTypeOK ==
  /\ listed \in [Scopes -> SUBSET Requests]
  /\ runner \in [Groups -> Requests \cup {Nobody}]
  /\ at \in [Requests -> {"out", "enter", "run", "finish", "wait", "alone", "merged"}]
  /\ group \in [Requests -> Groups \cup {Nobody}]
  /\ result \in [Requests -> Outcomes \cup {Nobody}]
  /\ late \subseteq Requests

\* The listed groups of a scope are never similar to each other, although requests
\* found and take off groups at the same time: whoever is similar to a listed group
\* joins one (semantic_local.go:49-66).
ListedApart ==
  \A s \in Scopes : \A g, h \in listed[s] : g \in Similar[h] => g = h

\* A listed group has a request that will run and take it off the list, so that no
\* list grows for ever, also after errors (semantic_local.go:72-73).
ListedGroupsEnd ==
  \A s \in Scopes : \A g \in listed[s] :
    \E r \in Requests : group[r] = g /\ at[r] \in {"enter", "run"}

\* A run is over when singleflight hands out its result.
Promised(place) ==
  CASE place = "out" -> "out"
    [] place = "enter" -> "asked"
    [] place = "wait" -> "joined"
    [] place \in {"run", "finish"} -> "running"
    [] OTHER -> "over"

Stage == [r \in Requests |-> Promised(at[r])]
Want == [r \in Requests |-> IF at[r] \in {"alone", "merged"} THEN Nobody ELSE group[r]]

Shared ==
  INSTANCE SharedRuns WITH Keys <- Groups, stage <- Stage, want <- Want,
                           kept <- {}, early <- {}, faults <- 0

\* The mergers inside a process keep the promise of a merger, and nothing that
\* fails downstream or goes away makes a waiter give up: who waits has a
\* run to wait for until he gets its result (rag.go:26-38, semantic_local.go:66-82).
MergesShareRuns == Shared!Spec

\* Two similar groups of a scope are run at the same time only if a request was
\* overtaken between choosing its group and entering it (semantic_local.go:66-68).
OverlapNeedsStraggler ==
  \A r, p \in Requests \ late :
    at[r] = "run" /\ at[p] = "run" /\ Scope[r] = Scope[p] /\ {group[r], group[p]} \subseteq Requests =>
      r = p \/ group[p] \notin Similar[group[r]]
=============================================================================
