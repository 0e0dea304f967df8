----------------------------- MODULE SharedRuns -----------------------------
(***************************************************************************)
(* What merging promises, in one process and over Redis alike (the         *)
(* interface Merger, internal/coalesce/merger.go; COALESCE_DESIGN.md:4):   *)
(* requests that ask for the same thing share one run of fn.  Runs for one *)
(* key do not overlap, whoever has joined a run waits for no other one,    *)
(* and unless something fails he gets its outcome.                         *)
(*                                                                         *)
(* An outcome may be kept for those who ask later.  Then a new run begins  *)
(* only for a request that had asked earlier and was told of no outcome.   *)
(***************************************************************************)
EXTENDS Naturals

CONSTANTS Requests,
          Keys,     \* what requests may ask for
          Nobody    \* no key

VARIABLES stage,   \* per request: "out", "asked", "joined", "running" or "over"
          want,    \* per request: its key, from asking until it is over
          kept,    \* the keys whose outcome can still be had
          early,   \* requests that asked before the outcome that is kept
          faults   \* the number of failures

vars == <<stage, want, kept, early, faults>>

Init ==
  /\ want \in [Requests -> Keys \cup {Nobody}]
  /\ stage = [r \in Requests |-> IF want[r] = Nobody THEN "out" ELSE "asked"]
  /\ kept = {}
  /\ early = {}
  /\ faults = 0

Same(r, label) == {q \in Requests : stage[q] = label /\ want[q] = want[r]}

Enter(r, label) == stage' = [stage EXCEPT ![r] = label]

\* The requests of S are over.
Leave(S) ==
  /\ stage' = [q \in Requests |-> IF q \in S THEN "over" ELSE stage[q]]
  /\ want' = [q \in Requests |-> IF q \in S THEN Nobody ELSE want[q]]

Ask(r, k) ==
  /\ stage[r] = "out"
  /\ Enter(r, "asked")
  /\ want' = [want EXCEPT ![r] = k]
  /\ UNCHANGED <<kept, early, faults>>

\* A request that is not merged.
GoAlone(r) ==
  /\ stage[r] = "out"
  /\ Leave({r})
  /\ UNCHANGED <<kept, early, faults>>

Begin(r) ==
  /\ stage[r] = "asked"
  /\ Same(r, "running") = {}
  /\ want[r] \in kept => r \in early
  /\ Enter(r, "running")
  /\ early' = early \ {r}
  /\ UNCHANGED <<want, kept, faults>>

\* There is a run to wait for or an outcome to get, unless one has failed.
Join(r) ==
  /\ stage[r] = "asked"
  /\ Same(r, "running") # {} \/ want[r] \in kept \/ faults > 0
  /\ Enter(r, "joined")
  /\ early' = early \ {r}
  /\ UNCHANGED <<want, kept, faults>>

\* A run ends and its outcome is handed to those who have joined it.
HandOver(r) ==
  /\ stage[r] = "running"
  /\ Leave({r} \cup Same(r, "joined"))
  /\ UNCHANGED <<kept, early, faults>>

\* A run ends and its outcome is kept.
Keep(r) ==
  /\ stage[r] = "running"
  /\ Leave({r})
  /\ kept' = kept \cup {want[r]}
  /\ \E E \in SUBSET Same(r, "asked") : early' = early \cup E
  /\ UNCHANGED faults

\* A request gets the outcome that is kept.
Get(r) ==
  /\ stage[r] \in {"asked", "joined"}
  /\ want[r] \in kept
  /\ Leave({r})
  /\ UNCHANGED <<kept, early, faults>>

\* An outcome is kept for as long as somebody who has joined has not got it.
Forget ==
  /\ kept' \subseteq kept
  /\ \A r \in Requests : stage[r] = "joined" /\ want[r] \in kept => want[r] \in kept'
  /\ UNCHANGED <<stage, want, early, faults>>

Fail(r) ==
  /\ faults' = faults + 1
  /\ Leave({r})
  /\ early' = early \ {r}
  /\ UNCHANGED kept

\* After a failure there may be nothing to wait for.
GiveUp(r) ==
  /\ stage[r] = "joined"
  /\ faults > 0
  /\ Leave({r})
  /\ UNCHANGED <<kept, early, faults>>

Next ==
  \/ Forget
  \/ \E r \in Requests :
       \/ \E k \in Keys : Ask(r, k)
       \/ GoAlone(r) \/ Begin(r) \/ Join(r) \/ HandOver(r) \/ Keep(r)
       \/ Get(r) \/ Fail(r) \/ GiveUp(r)

Spec == Init /\ [][Next]_vars
=============================================================================
