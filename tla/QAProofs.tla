------------------------------ MODULE QAProofs ------------------------------
(***************************************************************************)
(* Proofs about LocalMerge and QA: the types, the groups of the merger,    *)
(* and what becomes of the answers.  The steps of the merger are told      *)
(* apart once (Layers); its invariants speak of them only.                 *)
(***************************************************************************)
EXTENDS QA, TLAPS

LEMMA Names ==
  /\ Requests \subseteq Groups /\ Requests \subseteq Outcomes
  /\ Nobody \notin Groups /\ Nobody \notin Outcomes /\ Nobody \notin Requests
  /\ Blank \in Outcomes /\ Failed \in Outcomes
  /\ Blank \notin Requests /\ Failed \notin Requests
  /\ \A r \in Requests :
       /\ Scope[r] \in Scopes /\ Text[r] \in Groups /\ Text[r] \notin Requests
       /\ r \in Similar[r] /\ Similar[r] \subseteq Requests
BY MergeAssumption DEF Groups, Outcomes, Scopes

-----------------------------------------------------------------------------
(* Types *)

Before == {"idle", "embed", "vector", "dedup", "rag"}
Merging == {"enter", "run", "finish", "wait"}

\* How far a request is in the handler, and what it has in the merger then.
Place(r) ==
  /\ stage[r] \in Before => at[r] = "out"
  /\ stage[r] = "over" => at[r] \in {"out", "merged"}
  /\ at[r] \in {"out", "alone"} => group[r] = Nobody
  /\ at[r] \in Merging => group[r] # Nobody
  /\ group[r] # Nobody => "coalesce" \in deps
  /\ at[r] = "alone" => "coalesce" \notin deps
  /\ result[r] # Nobody <=> at[r] \in {"finish", "merged"}

Places == \A r \in Requests : Place(r)

\* The handlers' own state.
HandlerTypeOK ==
  /\ deps \in Deployments
  /\ stage \in [Requests -> Before \cup {"merge", "over"}]
  /\ source \in [Requests -> {"none", "known", "rag", "error"}]
  /\ writing \subseteq Points
  /\ stored \subseteq Points
  /\ gone \subseteq Requests
  /\ faults \in 0 .. MaxFaults

\* The steps of the merger.
ChoosesByVector(r) ==
  /\ at[r] = "out" /\ {"semantic", "coalesce"} \subseteq deps
  /\ Choose(r)

ChoosesByText(r) ==
  /\ at[r] = "out" /\ "coalesce" \in deps /\ "semantic" \notin deps
  /\ ChooseText(r)

GoesAlone(r) ==
  /\ at[r] = "out" /\ "coalesce" \notin deps
  /\ at' = [at EXCEPT ![r] = "alone"]
  /\ UNCHANGED <<listed, runner, group, result, late>>

ReturnsAlone(r, v) ==
  /\ at[r] = "alone" /\ at' = [at EXCEPT ![r] = "merged"]
  /\ result' = [result EXCEPT ![r] = v]
  /\ UNCHANGED <<listed, runner, group, late>>

MergeMove(r) ==
  \/ ChoosesByVector(r) \/ ChoosesByText(r) \/ GoesAlone(r)
  \/ Enter(r) \/ Finish(r)
  \/ \E v \in {r, Blank, Failed} : FnReturns(r, v) \/ ReturnsAlone(r, v)

LEMMA RagMoves ==
  ASSUME TypeOK, Places, NEW r \in Requests, Rag(r) PROVE MergeMove(r)
<1>1. at[r] = "out" /\ Legal(deps)
  BY QAAssumption DEF Rag, Places, Place, Before, TypeOK
<1>2. CASE "coalesce" \notin deps
  BY <1>1, <1>2 DEF Rag, MergeMove, GoesAlone, Legal
<1>3. CASE "coalesce" \in deps /\ "semantic" \in deps
  BY <1>1, <1>3 DEF Rag, MergeMove, ChoosesByVector
<1>4. CASE "coalesce" \in deps /\ "semantic" \notin deps
  BY <1>1, <1>4 DEF Rag, MergeMove, ChoosesByText
<1>5. QED BY <1>2, <1>3, <1>4

\* Every step leaves the merger alone or is one of its steps.
LEMMA Layers ==
  ASSUME TypeOK, Places, [Next]_qaVars
  PROVE  /\ deps' = deps
         /\ UNCHANGED mergeVars \/ \E r \in Requests : MergeMove(r)
<1>1. ASSUME NEW r \in Requests, Rag(r) PROVE deps' = deps /\ MergeMove(r)
  BY <1>1, RagMoves DEF Rag
<1>2. ASSUME NEW r \in Requests, Run(r) \/ RunAlone(r) \/ MergeStep(r)
      PROVE  deps' = deps /\ MergeMove(r)
  BY <1>2 DEF Run, RunAlone, MergeStep, MergeMove, ReturnsAlone
<1>3. ASSUME NEW r \in Requests,
             \/ Begin(r) \/ Embed(r) \/ Vector(r) \/ Dedup(r)
             \/ NoDownstream(r) \/ Deliver(r) \/ Disconnect(r)
      PROVE  deps' = deps /\ UNCHANGED mergeVars
  BY <1>3 DEF Begin, Embed, Vector, Dedup, Search, NoDownstream, Deliver, Disconnect
<1>4. ASSUME NEW w \in writing, WriteBack(w) PROVE deps' = deps /\ UNCHANGED mergeVars
  BY <1>4 DEF WriteBack
<1>5. CASE UNCHANGED qaVars
  BY <1>5 DEF qaVars
<1>6. QED BY <1>1, <1>2, <1>3, <1>4, <1>5 DEF Next, Step, Over

LEMMA MoveType ==
  ASSUME MergeTypeOK, NEW r \in Requests, MergeMove(r) PROVE MergeTypeOK'
<1> USE Names DEF MergeTypeOK
<1>1. CASE ChoosesByVector(r)
  BY <1>1 DEF ChoosesByVector, Choose, Matches
<1>2. CASE ChoosesByText(r)
  BY <1>2 DEF ChoosesByText, ChooseText
<1>3. CASE GoesAlone(r)
  BY <1>3 DEF GoesAlone
<1>4. CASE Enter(r)
  BY <1>4 DEF Enter
<1>5. CASE Finish(r)
  BY <1>5 DEF Finish
<1>6. ASSUME NEW v \in {r, Blank, Failed}, FnReturns(r, v) \/ ReturnsAlone(r, v)
      PROVE  MergeTypeOK'
  BY <1>6 DEF FnReturns, ReturnsAlone
<1>7. QED BY <1>1, <1>2, <1>3, <1>4, <1>5, <1>6 DEF MergeMove

LEMMA Stages == \A s : After(s) \in Before
BY DEF After, Before

\* Where a step of the merger takes the requests in the merger.
LEMMA MovePlace ==
  ASSUME TypeOK, Places, NEW r \in Requests, MergeMove(r), deps' = deps,
         NEW q \in Requests
  PROVE  /\ at'[q] \in {"out", "alone"} => group'[q] = Nobody
         /\ at'[q] \in Merging => group'[q] # Nobody
         /\ group'[q] # Nobody => "coalesce" \in deps'
         /\ at'[q] = "alone" => "coalesce" \notin deps'
         /\ result'[q] # Nobody <=> at'[q] \in {"finish", "merged"}
         /\ at'[q] # at[q] => at'[q] # "out" /\ at[q] # "merged"
         /\ at[q] = "out" /\ at'[q] # "out" => q = r
<1> USE Names DEF TypeOK, MergeTypeOK, Places, Place, Merging
<1>1. CASE ChoosesByVector(r)
  BY <1>1 DEF ChoosesByVector, Choose, Matches
<1>2. CASE ChoosesByText(r)
  BY <1>2 DEF ChoosesByText, ChooseText
<1>3. CASE GoesAlone(r)
  BY <1>3 DEF GoesAlone
<1>4. CASE Enter(r)
  BY <1>4 DEF Enter
<1>5. CASE Finish(r)
  BY <1>5 DEF Finish
<1>6. ASSUME NEW v \in {r, Blank, Failed}, FnReturns(r, v) \/ ReturnsAlone(r, v)
      PROVE  /\ at'[q] \in {"out", "alone"} => group'[q] = Nobody
             /\ at'[q] \in Merging => group'[q] # Nobody
             /\ group'[q] # Nobody => "coalesce" \in deps'
             /\ at'[q] = "alone" => "coalesce" \notin deps'
             /\ result'[q] # Nobody <=> at'[q] \in {"finish", "merged"}
             /\ at'[q] # at[q] => at'[q] # "out" /\ at[q] # "merged"
             /\ at[q] = "out" /\ at'[q] # "out" => q = r
  BY <1>6 DEF FnReturns, ReturnsAlone
<1>7. QED BY <1>1, <1>2, <1>3, <1>4, <1>5, <1>6 DEF MergeMove

\* The rest of the steps, and what they do to one request.
LEMMA NextPlaces ==
  ASSUME TypeOK, Places, [Next]_qaVars PROVE Places'
<1> SUFFICES ASSUME NEW q \in Requests PROVE Place(q)'
  BY DEF Places
<1>1. /\ stage \in [Requests -> Before \cup {"merge", "over"}]
      /\ at[q] \in {"out", "enter", "run", "finish", "wait", "alone", "merged"}
      /\ Place(q)
  BY DEF TypeOK, MergeTypeOK, Before, Places
<1>2. ASSUME NEW r \in Requests, MergeMove(r), deps' = deps,
             \/ stage' = [stage EXCEPT ![r] = "merge"]
             \/ stage' = stage /\ at[r] # "out"
      PROVE  Place(q)'
  <2>1. /\ at'[q] # at[q] => at'[q] # "out" /\ at[q] # "merged"
        /\ at[q] = "out" /\ at'[q] # "out" => q = r
    BY <1>2, MovePlace
  <2>2. stage'[q] \in Before => at'[q] = "out"
    BY <1>1, <1>2, <2>1 DEF Place, Before
  <2>3. stage'[q] = "over" => at'[q] \in {"out", "merged"}
    BY <1>1, <1>2, <2>1 DEF Place, Before
  <2>4. QED BY <1>2, <2>2, <2>3, MovePlace DEF Place
<1>3. ASSUME NEW r \in Requests, Rag(r) PROVE Place(q)'
  <2>1. deps' = deps /\ stage' = [stage EXCEPT ![r] = "merge"]
    BY <1>3 DEF Rag, Goto
  <2>2. MergeMove(r)
    BY <1>3, RagMoves
  <2>3. QED BY <1>2, <2>1, <2>2
<1>4. ASSUME NEW r \in Requests, Run(r) \/ RunAlone(r) \/ MergeStep(r)
      PROVE  Place(q)'
  <2>1. deps' = deps /\ stage' = stage /\ MergeMove(r)
    BY <1>4 DEF Run, RunAlone, MergeStep, MergeMove, ReturnsAlone
  <2>2. at[r] # "out"
    BY <1>4 DEF Run, RunAlone, MergeStep, FnReturns, Enter, Finish
  <2>3. QED BY <1>2, <2>1, <2>2
<1>5. ASSUME deps' = deps, UNCHANGED mergeVars,
             \/ stage'[q] = stage[q]
             \/ stage[q] \in Before /\ stage'[q] \in Before \cup {"over"}
             \/ at[q] = "merged" /\ stage'[q] = "over"
      PROVE  Place(q)'
  BY <1>1, <1>5 DEF Place, Before, mergeVars
<1>6. ASSUME NEW r \in Requests,
             \/ Begin(r) \/ Embed(r) \/ Vector(r) \/ Dedup(r) \/ NoDownstream(r)
      PROVE  Place(q)'
  <2>1. stage[r] \in Before /\ deps' = deps /\ UNCHANGED mergeVars
    BY <1>6 DEF Begin, Embed, Vector, Dedup, Search, NoDownstream, Before
  <2>2. PICK s \in Before \cup {"over"} : stage' = [stage EXCEPT ![r] = s]
    BY <1>6, Stages DEF Begin, Embed, Vector, Dedup, Search, NoDownstream, End, Proceed, Goto
  <2>3. QED BY <1>1, <1>5, <2>1, <2>2
<1>7. ASSUME NEW r \in Requests, Deliver(r) PROVE Place(q)'
  BY <1>1, <1>5, <1>7 DEF Deliver, End, Goto
<1>8. ASSUME NEW r \in Requests, Disconnect(r) PROVE Place(q)'
  BY <1>5, <1>8 DEF Disconnect
<1>9. ASSUME NEW w \in writing, WriteBack(w) PROVE Place(q)'
  BY <1>1, <1>9 DEF WriteBack, mergeVars, Place
<1>10. CASE UNCHANGED qaVars
  BY <1>1, <1>10 DEF qaVars, mergeVars, Place
<1>11. QED BY <1>3, <1>4, <1>6, <1>7, <1>8, <1>9, <1>10 DEF Next, Step, Over

LEMMA NextHandlerType ==
  ASSUME TypeOK, Places, [Next]_qaVars PROVE HandlerTypeOK'
<1> USE DEF HandlerTypeOK
<1>1. HandlerTypeOK
  BY DEF TypeOK, Before
<1>2. MaxFaults \in Nat
  BY QAAssumption
<1>3. ASSUME NEW r \in Requests, Begin(r) \/ Embed(r) \/ NoDownstream(r) PROVE HandlerTypeOK'
  BY <1>1, <1>2, <1>3, Stages DEF Begin, Embed, NoDownstream, End, Proceed, Goto, FaultOrGone, Fault
<1>4. ASSUME NEW r \in Requests, Vector(r) \/ Dedup(r) PROVE HandlerTypeOK'
  BY <1>1, <1>2, <1>4, Stages DEF Vector, Dedup, Search, End, Proceed, Goto, FaultOrGone, Fault
<1>5. ASSUME NEW r \in Requests, Rag(r) PROVE HandlerTypeOK'
  BY <1>1, <1>5 DEF Rag, Goto
<1>6. ASSUME NEW r \in Requests, Run(r) \/ RunAlone(r) \/ MergeStep(r) PROVE HandlerTypeOK'
  BY <1>1, <1>2, <1>6 DEF Run, RunAlone, MergeStep, CompleteOrGone, Complete, Fault
<1>7. ASSUME NEW r \in Requests, Deliver(r) PROVE HandlerTypeOK'
  <2>1. source'[r] = "rag" => result[r] # Failed
    BY <1>1, <1>7 DEF Deliver, End
  <2>2. result[r] \in Outcomes
    BY <1>7 DEF Deliver, Places, Place, TypeOK, MergeTypeOK
  <2>3. source'[r] = "rag" /\ WorthKeeping(r) => [vec |-> r, text |-> result[r]] \in Points
    BY <2>1, <2>2 DEF WorthKeeping, Outcomes, Points
  <2>4. QED BY <1>1, <1>7, <2>3 DEF Deliver, End, Goto
<1>8. ASSUME NEW r \in Requests, Disconnect(r) PROVE HandlerTypeOK'
  BY <1>1, <1>2, <1>8 DEF Disconnect, Fault
<1>9. ASSUME NEW w \in writing, WriteBack(w) PROVE HandlerTypeOK'
  BY <1>1, <1>2, <1>9 DEF WriteBack, Fault
<1>10. CASE UNCHANGED qaVars
  BY <1>1, <1>10 DEF qaVars
<1>11. QED BY <1>3, <1>4, <1>5, <1>6, <1>7, <1>8, <1>9, <1>10 DEF Next, Step, Over

LEMMA NextType == ASSUME TypeOK, Places, [Next]_qaVars PROVE TypeOK'
<1>1. MergeTypeOK'
  <2>1. CASE UNCHANGED mergeVars
    BY <2>1 DEF TypeOK, MergeTypeOK, mergeVars
  <2>2. ASSUME NEW r \in Requests, MergeMove(r) PROVE MergeTypeOK'
    BY <2>2, MoveType DEF TypeOK
  <2>3. QED BY <2>1, <2>2, Layers
<1>2. QED BY <1>1, NextHandlerType DEF HandlerTypeOK, TypeOK, Before

LEMMA InitType == Init => TypeOK /\ Places
<1> SUFFICES ASSUME Init PROVE TypeOK /\ Places
  OBVIOUS
<1>1. MergeTypeOK
  BY Names DEF Init, MergeInit, MergeTypeOK
<1>2. TypeOK
  BY <1>1, QAAssumption DEF Init, TypeOK
<1>3. Places
  BY Names DEF Init, MergeInit, Places, Place, Before, Merging
<1>4. QED BY <1>2, <1>3

LEMMA Typed == Spec => [](TypeOK /\ Places)
BY InitType, NextType, NextPlaces, PTL DEF Spec

\* The types hold for any requests, deployments and faults; no blank answer and no
\* error is ever written back.
THEOREM TypeCorrect == Spec => []TypeOK
BY Typed, PTL

-----------------------------------------------------------------------------
(* The groups *)

\* A request is in a group that fits it, and in a list there are groups of the
\* scope whose founders have left the start.
Grouped ==
  /\ \A r \in Requests : group[r] # Nobody =>
       IF "semantic" \in deps
         THEN group[r] \in Requests /\ Scope[group[r]] = Scope[r] /\ r \in Similar[group[r]]
         ELSE group[r] = Text[r]
  /\ \A s \in Scopes : \A g \in listed[s] :
       Scope[g] = s /\ at[g] # "out" /\ "semantic" \in deps
  /\ \A r \in Requests : group[r] \in Requests => at[group[r]] # "out"

\* The runner of a group is the one request in it that runs or is about to end
\* its run.
Running ==
  \A g \in Groups, p \in Requests :
    runner[g] = p <=> group[p] = g /\ at[p] \in {"run", "finish"}

\* Who waits has a runner, a finished run is not listed, and the run of one who
\* was not overtaken is.
Waits ==
  /\ \A r \in Requests : at[r] = "wait" => runner[group[r]] # Nobody
  /\ \A r \in Requests : at[r] = "finish" => ~Listed(group[r])
  /\ \A r \in Requests \ late : at[r] = "run" /\ group[r] \in Requests => Listed(group[r])

LEMMA MoveGrouped ==
  ASSUME MergeTypeOK, Grouped, NEW r \in Requests, MergeMove(r), deps' = deps
  PROVE  Grouped'
<1> USE Names DEF MergeTypeOK, Grouped
<1>1. CASE ChoosesByVector(r)
  BY <1>1, MergeAssumption DEF ChoosesByVector, Choose, Matches
<1>2. CASE ChoosesByText(r)
  BY <1>2 DEF ChoosesByText, ChooseText
<1>3. CASE GoesAlone(r)
  BY <1>3 DEF GoesAlone
<1>4. CASE Enter(r)
  BY <1>4 DEF Enter
<1>5. CASE Finish(r)
  BY <1>5 DEF Finish
<1>6. ASSUME NEW v \in {r, Blank, Failed}, FnReturns(r, v) \/ ReturnsAlone(r, v)
      PROVE  Grouped'
  BY <1>6 DEF FnReturns, ReturnsAlone
<1>7. QED BY <1>1, <1>2, <1>3, <1>4, <1>5, <1>6 DEF MergeMove

LEMMA MoveRunning ==
  ASSUME MergeTypeOK, Running, NEW r \in Requests, MergeMove(r),
         at[r] \in Merging => group[r] # Nobody
  PROVE  Running'
<1> USE Names DEF MergeTypeOK, Running, Merging
<1>1. CASE ChoosesByVector(r)
  BY <1>1 DEF ChoosesByVector, Choose, Matches
<1>2. CASE ChoosesByText(r)
  BY <1>2 DEF ChoosesByText, ChooseText
<1>3. CASE GoesAlone(r)
  BY <1>3 DEF GoesAlone
<1>4. CASE Enter(r)
  BY <1>4 DEF Enter
<1>5. CASE Finish(r)
  BY <1>5 DEF Finish
<1>6. ASSUME NEW v \in {r, Blank, Failed}, FnReturns(r, v) \/ ReturnsAlone(r, v)
      PROVE  Running'
  BY <1>6 DEF FnReturns, ReturnsAlone
<1>7. QED BY <1>1, <1>2, <1>3, <1>4, <1>5, <1>6 DEF MergeMove

\* A finished run takes its group off the only list it can be in.
LEMMA ReturnUnlists ==
  ASSUME MergeTypeOK, Grouped, NEW r \in Requests, NEW v, FnReturns(r, v), group[r] # Nobody
  PROVE  \A g : Listed(g)' <=> Listed(g) /\ g # group[r]
<1> USE Names DEF MergeTypeOK, Grouped, Listed
<1>1. CASE "semantic" \in deps
  BY <1>1 DEF FnReturns
<1>2. CASE "semantic" \notin deps
  BY <1>2 DEF FnReturns
<1>3. QED BY <1>1, <1>2

\* A new request only adds a group of its own.
LEMMA ChooseLists ==
  ASSUME MergeTypeOK, NEW r \in Requests, Choose(r)
  PROVE  /\ \A g : Listed(g) => Listed(g)'
         /\ \A g : Listed(g)' => Listed(g) \/ g = r
<1>1. Scope[r] \in Scopes
  BY Names
<1>2. QED BY <1>1 DEF Choose, MergeTypeOK, Listed

LEMMA MoveWaits ==
  ASSUME MergeTypeOK, Grouped, Running, Waits, NEW r \in Requests, MergeMove(r),
         at[r] \in Merging => group[r] # Nobody
  PROVE  Waits'
<1> USE Names DEF MergeTypeOK, Waits, Merging
<1>1. CASE ChoosesByVector(r)
  <2>1. /\ \A g : Listed(g) => Listed(g)'
        /\ \A g : Listed(g)' => Listed(g) \/ g = r
    BY <1>1, ChooseLists DEF ChoosesByVector
  <2>2. \A q \in Requests : group[q] # r
    BY <1>1 DEF ChoosesByVector, Grouped
  <2>3. QED BY <1>1, <2>1, <2>2 DEF ChoosesByVector, Choose
<1>2. CASE ChoosesByText(r)
  BY <1>2 DEF ChoosesByText, ChooseText, Listed
<1>3. CASE GoesAlone(r)
  BY <1>3 DEF GoesAlone, Listed
<1>4. CASE Enter(r)
  <2>1. \A g : Listed(g)' <=> Listed(g)
    BY <1>4 DEF Enter, Listed
  <2>2. CASE runner[group[r]] # Nobody
    BY <1>4, <2>1, <2>2 DEF Enter
  <2>3. CASE runner[group[r]] = Nobody
    <3>1. /\ at' = [at EXCEPT ![r] = "run"] /\ group' = group
          /\ runner' = [runner EXCEPT ![group[r]] = r]
          /\ late' = IF Listed(group[r]) THEN late ELSE late \cup {r}
      BY <1>4, <2>3 DEF Enter
    <3>2. \A q \in Requests : at'[q] = "wait" => runner'[group'[q]] # Nobody
      BY <3>1
    <3>3. \A q \in Requests : at'[q] = "finish" => ~Listed(group[q])'
      BY <2>1, <3>1
    <3>4. \A q \in Requests \ late' :
            at'[q] = "run" /\ group'[q] \in Requests => Listed(group[q])'
      BY <2>1, <3>1
    <3>5. QED BY <3>2, <3>3, <3>4
  <2>4. QED BY <2>2, <2>3
<1>5. CASE Finish(r)
  BY <1>5 DEF Finish, Listed
<1>6. ASSUME NEW v \in {r, Blank, Failed}, FnReturns(r, v) PROVE Waits'
  <2>1. \A g : Listed(g)' <=> Listed(g) /\ g # group[r]
    BY <1>6, ReturnUnlists DEF FnReturns
  <2>2. \A q \in Requests : at[q] \in {"run", "finish"} /\ group[q] = group[r] => q = r
    BY <1>6 DEF FnReturns, Running
  <2>3. QED BY <1>6, <2>1, <2>2 DEF FnReturns
<1>7. ASSUME NEW v \in {r, Blank, Failed}, ReturnsAlone(r, v) PROVE Waits'
  BY <1>7 DEF ReturnsAlone, Listed
<1>8. QED BY <1>1, <1>2, <1>3, <1>4, <1>5, <1>6, <1>7 DEF MergeMove

LEMMA MoveApart ==
  ASSUME MergeTypeOK, ListedApart, NEW r \in Requests, MergeMove(r) PROVE ListedApart'
<1> USE Names DEF MergeTypeOK, ListedApart
<1>1. CASE ChoosesByVector(r)
  BY <1>1, MergeAssumption DEF ChoosesByVector, Choose, Matches
<1>2. ASSUME NEW v \in {r, Blank, Failed}, FnReturns(r, v) PROVE ListedApart'
  BY <1>2 DEF FnReturns
<1>3. CASE listed' = listed
  BY <1>3
<1>4. QED BY <1>1, <1>2, <1>3
     DEF MergeMove, ChoosesByText, ChooseText, GoesAlone, Enter, Finish, ReturnsAlone

LEMMA MoveGroupsEnd ==
  ASSUME MergeTypeOK, Grouped, Running, Waits, ListedGroupsEnd, NEW r \in Requests,
         MergeMove(r), at[r] \in Merging => group[r] # Nobody
  PROVE  ListedGroupsEnd'
<1> SUFFICES ASSUME NEW s \in Scopes, NEW g \in listed'[s]
             PROVE  \E q \in Requests : group'[q] = g /\ at'[q] \in {"enter", "run"}
  BY DEF ListedGroupsEnd
<1> USE Names DEF MergeTypeOK, Merging
<1>1. CASE g \notin listed[s]
  BY <1>1 DEF MergeMove, ChoosesByVector, Choose, ChoosesByText, ChooseText, GoesAlone,
              Enter, Finish, FnReturns, ReturnsAlone
<1>2. CASE g \in listed[s]
  <2>1. Listed(g) /\ g \in Requests
    BY <1>2 DEF Listed
  <2>2. PICK q \in Requests : group[q] = g /\ at[q] \in {"enter", "run"}
    BY <1>2 DEF ListedGroupsEnd
  <2>3. CASE q # r
    <3>1. group'[q] = group[q] /\ at'[q] = at[q]
      BY <2>2, <2>3 DEF MergeMove, ChoosesByVector, Choose, ChoosesByText, ChooseText,
           GoesAlone, Enter, Finish, FnReturns, ReturnsAlone
    <3>2. QED BY <2>2, <3>1
  <2>4. CASE q = r /\ at[r] = "run"
    <3>1. PICK v \in {r, Blank, Failed} : FnReturns(r, v)
      BY <2>2, <2>4 DEF MergeMove, ChoosesByVector, ChoosesByText, GoesAlone, Enter, Finish,
           ReturnsAlone
    <3>2. ~Listed(g)'
      BY <2>2, <2>4, <3>1, ReturnUnlists
    <3>3. QED BY <3>2 DEF Listed
  <2>5. CASE q = r /\ at[r] = "enter"
    <3>1. Enter(r)
      BY <2>2, <2>5 DEF MergeMove, ChoosesByVector, ChoosesByText, GoesAlone, Finish,
           FnReturns, ReturnsAlone
    <3>2. CASE runner[g] = Nobody
      BY <2>2, <2>5, <3>1, <3>2 DEF Enter
    <3>3. CASE runner[g] # Nobody
      <4>1. PICK p \in Requests : group[p] = g /\ at[p] \in {"run", "finish"}
        BY <2>1, <3>3 DEF Running
      <4>2. at[p] = "run"
        BY <2>1, <4>1 DEF Waits
      <4>3. QED BY <2>5, <3>1, <4>1, <4>2 DEF Enter
    <3>4. QED BY <3>2, <3>3
  <2>6. QED BY <2>2, <2>3, <2>4, <2>5
<1>3. QED BY <1>1, <1>2

Merger == Grouped /\ Running /\ Waits /\ ListedApart /\ ListedGroupsEnd

LEMMA InitMerger == Init => Merger
<1> SUFFICES ASSUME Init PROVE Merger
  OBVIOUS
<1>1. Grouped /\ Running /\ Waits
  BY Names DEF Init, MergeInit, Grouped, Running, Waits, Listed
<1>2. ListedApart /\ ListedGroupsEnd
  BY DEF Init, MergeInit, ListedApart, ListedGroupsEnd
<1>3. QED BY <1>1, <1>2 DEF Merger

LEMMA NextMerger == ASSUME TypeOK, Places, Merger, [Next]_qaVars PROVE Merger'
<1> USE DEF Merger
<1>1. deps' = deps
  BY Layers
<1>2. CASE UNCHANGED mergeVars
  BY <1>1, <1>2
     DEF mergeVars, Grouped, Running, Waits, Listed, ListedApart, ListedGroupsEnd
<1>3. ASSUME NEW r \in Requests, MergeMove(r) PROVE Merger'
  <2>1. MergeTypeOK /\ (at[r] \in Merging => group[r] # Nobody)
    BY DEF TypeOK, Places, Place
  <2>2. QED BY <1>1, <1>3, <2>1, MoveGrouped, MoveRunning, MoveWaits, MoveApart, MoveGroupsEnd
<1>4. QED BY <1>2, <1>3, Layers

LEMMA Merged == Spec => [](TypeOK /\ Places /\ Merger)
BY InitType, InitMerger, NextType, NextPlaces, NextMerger, PTL DEF Spec

\* However many requests found, leave and remove groups, no two groups of a list
\* are similar.
THEOREM GroupsApart == Spec => []ListedApart
BY Merged, PTL DEF Merger

\* Every listed group has a request that will run and then remove it.
THEOREM GroupsEnd == Spec => []ListedGroupsEnd
BY Merged, PTL DEF Merger

LEMMA PlacesPromise ==
  /\ Promised("out") = "out" /\ Promised("enter") = "asked" /\ Promised("wait") = "joined"
  /\ Promised("run") = "running" /\ Promised("finish") = "running"
  /\ Promised("alone") = "over" /\ Promised("merged") = "over"
BY DEF Promised

\* What the merger that is promised sees of a request.
LEMMA SeenAs ==
  ASSUME NEW q \in Requests
  PROVE  /\ Stage[q] = Promised(at[q])
         /\ Want[q] = IF at[q] \in {"alone", "merged"} THEN Nobody ELSE group[q]
BY DEF Stage, Want

LEMMA Goes ==
  ASSUME MergeTypeOK, NEW r \in Requests, NEW place, at' = [at EXCEPT ![r] = place]
  PROVE  Stage' = [Stage EXCEPT ![r] = Promised(place)]
BY DEF MergeTypeOK, Stage

\* A step of the merger is one that is promised, or none.
LEMMA MoveShared ==
  ASSUME MergeTypeOK, Running, NEW r \in Requests, MergeMove(r),
         at[r] \in {"out", "alone"} => group[r] = Nobody,
         at[r] \in Merging => group[r] # Nobody
  PROVE  Shared!Next \/ UNCHANGED Shared!vars
<1>1. ASSUME NEW g \in Groups, at[r] = "out",
             group' = [group EXCEPT ![r] = g], at' = [at EXCEPT ![r] = "enter"]
      PROVE  Shared!Ask(r, g)
  <2>1. Stage[r] = "out"
    BY <1>1, SeenAs, PlacesPromise
  <2>2. Stage' = [Stage EXCEPT ![r] = "asked"]
    BY <1>1, Goes, PlacesPromise
  <2>3. Want' = [Want EXCEPT ![r] = g]
    BY <1>1 DEF Want, MergeTypeOK
  <2>4. QED BY <2>1, <2>2, <2>3 DEF Shared!Ask, Shared!Enter
<1>2. CASE ChoosesByVector(r)
  <2>1. PICK g \in Groups : group' = [group EXCEPT ![r] = g]
    BY <1>2, Names DEF ChoosesByVector, Choose, Matches, MergeTypeOK
  <2>2. QED BY <1>1, <1>2, <2>1 DEF ChoosesByVector, Choose, Shared!Next
<1>3. CASE ChoosesByText(r)
  BY <1>1, <1>3, Names DEF ChoosesByText, ChooseText, MergeTypeOK, Shared!Next
<1>4. CASE GoesAlone(r)
  <2>1. Stage[r] = "out"
    BY <1>4, SeenAs, PlacesPromise DEF GoesAlone
  <2>2. Stage' = [q \in Requests |-> IF q \in {r} THEN "over" ELSE Stage[q]]
    BY <1>4, PlacesPromise DEF GoesAlone, Stage, MergeTypeOK
  <2>3. Want' = [q \in Requests |-> IF q \in {r} THEN Nobody ELSE Want[q]]
    BY <1>4 DEF GoesAlone, Want, MergeTypeOK
  <2>4. Shared!GoAlone(r)
    BY <2>1, <2>2, <2>3 DEF Shared!GoAlone, Shared!Leave
  <2>5. QED BY <2>4 DEF Shared!Next
<1>5. CASE Enter(r)
  <2>1. /\ Stage[r] = "asked" /\ Want[r] = group[r] /\ group[r] \in Groups
    BY <1>5, SeenAs, PlacesPromise DEF Enter, Merging, MergeTypeOK
  <2>2. CASE runner[group[r]] # Nobody
    <3>1. at' = [at EXCEPT ![r] = "wait"] /\ group' = group
      BY <1>5, <2>2 DEF Enter
    <3>2. Stage' = [Stage EXCEPT ![r] = "joined"]
      BY <3>1, Goes, PlacesPromise
    <3>3. Want' = Want
      BY <1>5, <3>1 DEF Want, Enter, MergeTypeOK
    <3>4. PICK p \in Requests : group[p] = group[r] /\ at[p] \in {"run", "finish"}
      BY <2>1, <2>2 DEF Running, MergeTypeOK
    <3>5. Stage[p] = "running" /\ Want[p] = Want[r]
      BY <2>1, <3>4, SeenAs, PlacesPromise
    <3>6. Shared!Join(r)
      BY <2>1, <3>2, <3>3, <3>5 DEF Shared!Join, Shared!Enter, Shared!Same
    <3>7. QED BY <3>6 DEF Shared!Next
  <2>3. CASE runner[group[r]] = Nobody
    <3>1. at' = [at EXCEPT ![r] = "run"] /\ group' = group
      BY <1>5, <2>3 DEF Enter
    <3>2. Stage' = [Stage EXCEPT ![r] = "running"]
      BY <3>1, Goes, PlacesPromise
    <3>3. Want' = Want
      BY <1>5, <3>1 DEF Want, Enter, MergeTypeOK
    <3>4. ASSUME NEW p \in Requests, Stage[p] = "running" PROVE Want[p] # Want[r]
      <4>1. at[p] \in {"run", "finish"} /\ Want[p] = group[p]
        BY <3>4, SeenAs DEF Promised
      <4>2. QED BY <2>1, <2>3, <4>1, Names DEF Running, MergeTypeOK
    <3>5. Shared!Begin(r)
      BY <2>1, <3>2, <3>3, <3>4 DEF Shared!Begin, Shared!Enter, Shared!Same
    <3>6. QED BY <3>5 DEF Shared!Next
  <2>4. QED BY <2>2, <2>3
<1>6. CASE Finish(r)
  <2> DEFINE woken == {p \in Requests : p = r \/ (at[p] = "wait" /\ group[p] = group[r])}
             S == {r} \cup Shared!Same(r, "joined")
  <2>1. Stage[r] = "running" /\ Want[r] = group[r]
    BY <1>6, SeenAs, PlacesPromise DEF Finish
  <2>2. ASSUME NEW q \in Requests PROVE q \in S <=> q \in woken
    <3>1. Stage[q] = "joined" <=> at[q] = "wait"
      BY SeenAs DEF Promised
    <3>2. at[q] = "wait" => Want[q] = group[q]
      BY SeenAs
    <3>3. QED BY <2>1, <3>1, <3>2 DEF Shared!Same
  <2>3. at' = [p \in Requests |-> IF p \in woken THEN "merged" ELSE at[p]] /\ group' = group
    BY <1>6 DEF Finish
  <2>4. Stage' = [q \in Requests |-> IF q \in S THEN "over" ELSE Stage[q]]
    BY <2>2, <2>3, PlacesPromise DEF Stage
  <2>5. Want' = [q \in Requests |-> IF q \in S THEN Nobody ELSE Want[q]]
    BY <2>2, <2>3 DEF Want, MergeTypeOK
  <2>6. Shared!HandOver(r)
    BY <2>1, <2>4, <2>5 DEF Shared!HandOver, Shared!Leave
  <2>7. QED BY <2>6 DEF Shared!Next
<1>7. ASSUME NEW v \in {r, Blank, Failed}, FnReturns(r, v) \/ ReturnsAlone(r, v)
      PROVE  UNCHANGED Shared!vars
  <2>1. Stage' = Stage
    BY <1>7, PlacesPromise DEF FnReturns, ReturnsAlone, Stage, MergeTypeOK
  <2>2. Want' = Want
    BY <1>7 DEF FnReturns, ReturnsAlone, Want, MergeTypeOK
  <2>3. QED BY <2>1, <2>2 DEF Shared!vars
<1>8. QED BY <1>2, <1>3, <1>4, <1>5, <1>6, <1>7 DEF MergeMove

\* The mergers in the process keep the promise for any number of requests, whatever
\* fails and whoever goes away: runs for one group do not overlap, and nobody waits
\* for a run that has ended.
THEOREM MergerSharesRuns == Spec => MergesShareRuns
<1>1. Init => Shared!Init
  <2> SUFFICES ASSUME Init PROVE Shared!Init
    OBVIOUS
  <2>1. Want = [q \in Requests |-> Nobody]
    BY DEF Init, MergeInit, Want
  <2>2. Stage = [q \in Requests |-> "out"]
    BY PlacesPromise DEF Init, MergeInit, Stage
  <2>3. QED BY <2>1, <2>2 DEF Shared!Init
<1>2. TypeOK /\ Places /\ Merger /\ [Next]_qaVars => [Shared!Next]_(Shared!vars)
  <2> SUFFICES ASSUME TypeOK, Places, Merger, [Next]_qaVars
               PROVE  Shared!Next \/ UNCHANGED Shared!vars
    OBVIOUS
  <2>1. CASE UNCHANGED mergeVars
    BY <2>1 DEF mergeVars, Shared!vars, Stage, Want
  <2>2. ASSUME NEW r \in Requests, MergeMove(r) PROVE Shared!Next \/ UNCHANGED Shared!vars
    BY <2>2, MoveShared DEF TypeOK, Places, Place, Merger
  <2>3. QED BY <2>1, <2>2, Layers
<1>3. QED BY <1>1, <1>2, Merged, PTL DEF Spec, MergesShareRuns, Shared!Spec

\* Similar questions run side by side only if one of them was overtaken before it
\* entered its group.
THEOREM OverlapOnlyBehindStragglers == Spec => []OverlapNeedsStraggler
<1>1. ASSUME TypeOK, Merger,
             NEW r \in Requests \ late, NEW p \in Requests \ late,
             at[r] = "run", at[p] = "run", Scope[r] = Scope[p],
             group[r] \in Requests, group[p] \in Requests,
             group[p] \in Similar[group[r]]
      PROVE  r = p
  <2>1. Listed(group[r]) /\ Listed(group[p])
    BY <1>1 DEF Merger, Waits
  <2>2. group[r] \in listed[Scope[r]] /\ group[p] \in listed[Scope[p]]
    BY <1>1, <2>1, Names DEF Merger, Grouped, Listed
  <2>3. group[p] = group[r]
    BY <1>1, <2>2, Names DEF Merger, ListedApart
  <2>4. QED BY <1>1, <2>3, Names DEF Merger, Running
<1>2. TypeOK /\ Merger => OverlapNeedsStraggler
  BY <1>1 DEF OverlapNeedsStraggler
<1>3. QED BY <1>2, Merged, PTL

-----------------------------------------------------------------------------
(* The answers *)

\* A run returns its own answer, what a request has got fits it, and so does what
\* is written back of it.
Answers ==
  /\ \A r \in Requests : at[r] = "finish" => result[r] \in {r, Blank, Failed}
  /\ \A r \in Requests : result[r] \in Requests => Fits(r, result[r])
  /\ \A r \in Requests : source[r] = "rag" => at[r] = "merged" /\ result[r] # Failed
  /\ \A w \in writing \cup stored : at[w.vec] = "merged" /\ Fits(w.vec, w.text)

\* The requests of one group fit each other.
LEMMA GroupFits ==
  ASSUME Grouped, NEW r \in Requests, NEW p \in Requests, group[p] = group[r],
         group[r] # Nobody
  PROVE  Fits(p, r)
BY MergeAssumption, Names DEF Grouped, Fits

\* Nobody changes the group of a request that has got an answer.
LEMMA FitsStays ==
  ASSUME MergeTypeOK, NEW q \in Requests, NEW p,
         UNCHANGED mergeVars \/ \E r \in Requests : MergeMove(r),
         at[q] # "out", Fits(q, p)
  PROVE  Fits(q, p)'
<1>1. group'[q] = group[q]
  BY DEF mergeVars, MergeTypeOK, MergeMove, ChoosesByVector, Choose, ChoosesByText, ChooseText,
     GoesAlone, Enter, Finish, FnReturns, ReturnsAlone
<1>2. QED BY <1>1 DEF Fits

\* A request keeps its result, or gets its own, or that of its group's runner.
ResultStep(q) ==
  /\ at'[q] = "finish" => result'[q] \in {q, Blank, Failed}
  /\ at[q] = "out" => result'[q] = Nobody
  /\ \A p \in Requests : result'[q] = p => Fits(q, p)
  /\ at[q] = "merged" => at'[q] = "merged" /\ result'[q] = result[q]

LEMMA MoveResult ==
  ASSUME TypeOK, Places, Merger, Answers, NEW r \in Requests, MergeMove(r), NEW q \in Requests
  PROVE  ResultStep(q)
<1> USE Names DEF TypeOK, MergeTypeOK, ResultStep
<1>1. \A p \in Requests : result[q] = p => Fits(q, p)
  BY DEF Answers
<1>2. Fits(q, q)
  BY DEF Fits
<1>3. at[q] = "out" => result[q] = Nobody
  BY DEF Places, Place
<1>4. CASE ChoosesByVector(r) \/ ChoosesByText(r) \/ GoesAlone(r) \/ Enter(r)
  <2>1. /\ result' = result /\ at[r] \in {"out", "enter"}
        /\ \E l \in {"enter", "alone", "wait", "run"} : at' = [at EXCEPT ![r] = l]
    BY <1>4 DEF ChoosesByVector, Choose, ChoosesByText, ChooseText, GoesAlone, Enter
  <2>2. QED BY <1>1, <1>3, <2>1 DEF Answers
<1>5. ASSUME NEW v \in {r, Blank, Failed}, FnReturns(r, v) \/ ReturnsAlone(r, v)
      PROVE  ResultStep(q)
  BY <1>1, <1>2, <1>3, <1>5 DEF Answers, FnReturns, ReturnsAlone
<1>6. CASE Finish(r)
  <2>1. result[r] \in {r, Blank, Failed} /\ group[r] # Nobody
    BY <1>6 DEF Finish, Answers, Places, Place, Merging
  <2>2. CASE q = r \/ (at[q] = "wait" /\ group[q] = group[r])
    <3>1. at'[q] = "merged" /\ result'[q] = result[r]
      BY <1>6, <2>2 DEF Finish
    <3>2. Fits(q, r)
      BY <1>2, <2>1, <2>2, GroupFits DEF Merger
    <3>3. QED BY <1>6, <2>1, <2>2, <3>1, <3>2 DEF Finish
  <2>3. CASE q # r /\ ~(at[q] = "wait" /\ group[q] = group[r])
    <3>1. at'[q] = at[q] /\ result'[q] = result[q]
      BY <1>6, <2>3 DEF Finish
    <3>2. QED BY <1>1, <1>3, <3>1 DEF Answers
  <2>4. QED BY <2>2, <2>3
<1>7. QED BY <1>4, <1>5, <1>6 DEF MergeMove

LEMMA NextAnswers ==
  ASSUME TypeOK, Places, Merger, Answers, [Next]_qaVars PROVE Answers'
<1>1. ASSUME NEW q \in Requests PROVE ResultStep(q)
  <2>1. CASE UNCHANGED mergeVars
    BY <2>1 DEF mergeVars, Answers, Places, Place, ResultStep
  <2>2. ASSUME NEW r \in Requests, MergeMove(r) PROVE ResultStep(q)
    BY <2>2, MoveResult
  <2>3. QED BY <2>1, <2>2, Layers
<1>2. ASSUME NEW q \in Requests, result'[q] \in Requests PROVE Fits(q, result[q])'
  <2>1. PICK p \in Requests : p = result'[q]
    BY <1>2
  <2>2. at[q] # "out" /\ Fits(q, p)
    BY <1>1, <2>1, Names DEF ResultStep
  <2>3. Fits(q, p)'
    BY <2>2, FitsStays, Layers DEF TypeOK
  <2>4. QED BY <2>1, <2>3 DEF Fits
<1>3. ASSUME NEW q \in Requests, source'[q] = "rag"
      PROVE  at'[q] = "merged" /\ result'[q] # Failed
  <2>1. at[q] = "merged" /\ result[q] # Failed
    <3>1. CASE source[q] = "rag"
      BY <3>1 DEF Answers
    <3>2. CASE source[q] # "rag"
      <4>1. PICK r \in Requests : Deliver(r)
        BY <1>3, <3>2 DEF Next, Step, Over, Begin, Embed, Vector, Dedup, Search, End, Proceed,
             NoDownstream, Rag, Run, RunAlone, MergeStep, Disconnect, WriteBack, qaVars, TypeOK
      <4>2. QED BY <1>3, <3>2, <4>1 DEF Deliver, End, TypeOK
    <3>3. QED BY <3>1, <3>2
  <2>2. QED BY <1>1, <2>1 DEF ResultStep
<1>4. ASSUME NEW w \in writing' \cup stored' PROVE at'[w.vec] = "merged" /\ Fits(w.vec, w.text)'
  <2>1. w.vec \in Requests /\ at[w.vec] = "merged" /\ Fits(w.vec, w.text)
    <3>1. CASE w \in writing \cup stored
      BY <3>1 DEF Answers, TypeOK, Points
    <3>2. CASE w \notin writing \cup stored
      <4>1. PICK r \in Requests : Deliver(r)
        BY <1>4, <3>2 DEF Next, Step, Over, Begin, Embed, Vector, Dedup, Search, End, Proceed,
             NoDownstream, Rag, Run, RunAlone, MergeStep, Disconnect, WriteBack, qaVars
      <4>2. w = [vec |-> r, text |-> result[r]] /\ source'[r] = "rag" /\ WorthKeeping(r)
        BY <1>4, <3>2, <4>1 DEF Deliver
      <4>3. at[r] = "merged" /\ result[r] \in Requests
        BY <4>1, <4>2 DEF Deliver, End, WorthKeeping, Places, Place, TypeOK, MergeTypeOK, Outcomes
      <4>4. QED BY <4>2, <4>3 DEF Answers
    <3>3. QED BY <3>1, <3>2
  <2>2. QED BY <1>1, <2>1, FitsStays, Layers DEF TypeOK, ResultStep
<1>5. QED BY <1>1, <1>2, <1>3, <1>4 DEF Answers, ResultStep

\* Whatever is merged, delivered and written back, answers do not drift: each fits
\* whoever gets it or finds it stored with his vector.
THEOREM AnswersAreFit == Spec => []AnswersFit
<1>1. Init => Answers
  BY Names DEF Init, MergeInit, Answers
<1>2. TypeOK /\ Places /\ Answers => AnswersFit
  <2> SUFFICES ASSUME TypeOK, Places, Answers PROVE AnswersFit
    OBVIOUS
  <2>1. ASSUME NEW r \in Requests, source[r] = "rag"
        PROVE  result[r] = Blank \/ Fits(r, result[r])
    <3>1. result[r] \in Requests \cup {Blank}
      BY <2>1 DEF Answers, Places, Place, TypeOK, MergeTypeOK, Outcomes
    <3>2. QED BY <3>1 DEF Answers
  <2>2. QED BY <2>1 DEF Answers, AnswersFit
<1>3. QED BY <1>1, <1>2, Merged, NextAnswers, PTL DEF Spec

LEMMA NextHarmless ==
  ASSUME TypeOK, Places, Merger, Answers, DisconnectHarmsNobody, [Next]_qaVars
  PROVE  DisconnectHarmsNobody'
<1> SUFFICES ASSUME NEW q \in Requests, "coalesce" \in deps, result'[q] = Failed
             PROVE  broken'
  BY Layers DEF DisconnectHarmsNobody
<1> USE DEF DisconnectHarmsNobody
<1>1. ASSUME NEW r \in Requests, NEW v \in {r, Blank, Failed}, FnReturns(r, v), Complete(r, v)
      PROVE  broken'
  <2>1. CASE broken
    BY <1>1, <2>1 DEF Complete
  <2>2. CASE ~broken
    <3>1. q = r /\ v = Failed
      BY <1>1, <2>2 DEF FnReturns, TypeOK, MergeTypeOK
    <3>2. QED BY <1>1, <3>1, Names DEF Complete
  <2>3. QED BY <2>1, <2>2
<1>2. ASSUME NEW r \in Requests, Run(r) PROVE broken'
  BY <1>1, <1>2 DEF Run
<1>3. ASSUME NEW r \in Requests, RunAlone(r) PROVE broken'
  <2>1. "coalesce" \notin deps
    BY <1>3 DEF RunAlone, Places, Place
  <2>2. QED BY <2>1
<1>4. ASSUME NEW r \in Requests, MergeStep(r) PROVE broken'
  BY <1>4 DEF MergeStep, Enter, Finish, history
<1>5. ASSUME NEW r \in Requests, Rag(r) PROVE broken'
  <2>1. result' = result
    BY <1>5, RagMoves DEF Rag, Choose, ChooseText, MergeMove, ChoosesByVector, ChoosesByText,
       GoesAlone
  <2>2. QED BY <1>5, <2>1 DEF Rag, history
<1>6. ASSUME UNCHANGED <<mergeVars, broken>> PROVE broken'
  BY <1>6 DEF mergeVars
<1>7. QED
  BY <1>2, <1>3, <1>4, <1>5, <1>6
     DEF Next, Step, Over, Begin, Embed, Vector, Dedup, Search, NoDownstream, Deliver,
         WriteBack, Disconnect, qaVars, history

\* A client that goes away makes no coalesced call fail.
THEOREM Harmless == Spec => []DisconnectHarmsNobody
<1>1. Init => Answers /\ DisconnectHarmsNobody
  BY Names DEF Init, MergeInit, Answers, DisconnectHarmsNobody
<1>2. QED BY <1>1, Merged, NextAnswers, NextHarmless, PTL DEF Spec

-----------------------------------------------------------------------------
(* Stored answers are reused *)

\* The stages before the merger of a request that will find an answer.
Searching == {"embed", "vector", "dedup", "over"}

\* There are points only where they are written and searched for, and a request that
\* has one before it has got no further than its search.
Reuse ==
  /\ writing \cup stored # {} => "writer" \in deps
  /\ \A r \in (knew \cap Requests) \ degraded :
       at[r] = "out" /\ stage[r] \in Searching /\ Near(r) # {}

\* Where there is a writer a question is embedded and searched for.
LEMMA WriterSearches ==
  ASSUME TypeOK, "writer" \in deps
  PROVE  /\ After("rules") = "embed" /\ After("embed") = "vector"
         /\ "dedup" \in deps => After("vector") = "dedup"
<1>1. Legal(deps)
  BY QAAssumption DEF TypeOK
<1>2. QED BY <1>1 DEF Legal, NeedEmbed, After

\* Points are only written back where there is a writer, and stay.
LEMMA NextPoints ==
  ASSUME TypeOK, Reuse, [Next]_qaVars
  PROVE  /\ writing' \cup stored' # {} => "writer" \in deps
         /\ deps' = deps /\ stored \subseteq stored'
BY DEF Next, Step, Over, Begin, Embed, Vector, Dedup, Search, NoDownstream, Rag, Run, RunAlone,
       MergeStep, Deliver, WorthKeeping, WriteBack, Disconnect, qaVars, Reuse

LEMMA NextReuse == ASSUME TypeOK, Places, Reuse, [Next]_qaVars PROVE Reuse'
<1> SUFFICES ASSUME NEW q \in (knew' \cap Requests) \ degraded'
             PROVE  at'[q] = "out" /\ stage'[q] \in Searching /\ Near(q)' # {}
  BY NextPoints DEF Reuse
<1>1. Near(q) # {} => Near(q)' # {} /\ "writer" \in deps
  BY NextPoints DEF Near, Reuse
<1>2. CASE q \notin knew
  <2>1. Begin(q) /\ Near(q) # {}
    BY <1>2 DEF Next, Step, Over, Begin, Embed, Vector, Dedup, Search, NoDownstream, Rag, Run,
         RunAlone, MergeStep, Deliver, WriteBack, Disconnect, qaVars, history
  <2>2. at[q] = "out" /\ at' = at
    BY <2>1 DEF Begin, Places, Place, Before, mergeVars
  <2>3. stage'[q] \in Searching
    BY <1>1, <2>1, WriterSearches DEF Begin, End, Proceed, Goto, TypeOK, Searching
  <2>4. QED BY <1>1, <2>1, <2>2, <2>3
<1>3. CASE q \in knew
  <2>1. q \notin degraded
    BY DEF Next, Step, Over, Begin, Embed, Vector, Dedup, Search, NoDownstream, Rag, Run,
         RunAlone, MergeStep, Deliver, WriteBack, Disconnect, qaVars, history
  <2>2. at[q] = "out" /\ stage[q] \in Searching /\ Near(q) # {}
    BY <1>3, <2>1 DEF Reuse
  <2>3. ASSUME NEW r \in Requests, Embed(r) \/ Vector(r) \/ Dedup(r)
        PROVE  stage'[q] \in Searching /\ at'[q] = "out"
    <3>1. CASE q # r
      BY <2>2, <2>3, <3>1 DEF Embed, Vector, Dedup, Search, End, Proceed, Goto, TypeOK, mergeVars
    <3>2. CASE q = r /\ Embed(r)
      BY <1>1, <2>2, <3>2, WriterSearches
         DEF Embed, End, Proceed, Goto, TypeOK, mergeVars, Searching
    <3>3. CASE q = r /\ Dedup(r)
      BY <1>1, <2>2, <3>3, WriterSearches
         DEF Dedup, Search, End, Proceed, Goto, TypeOK, mergeVars, Searching
    <3>4. CASE q = r /\ Vector(r)
      <4>1. PICK hit \in {MainHit(q), TRUE} : Search(q, "vector", hit)
        BY <3>4 DEF Vector
      <4>2. at' = at /\ q \notin degraded'
        BY <4>1 DEF Search, mergeVars
      <4>3. CASE stage' = [stage EXCEPT ![q] = "over"]
        BY <2>2, <4>2, <4>3 DEF TypeOK, Searching
      <4>4. CASE ~hit /\ stage' = [stage EXCEPT ![q] = After("vector")]
        <5>1. "dedup" \in deps
          BY <2>2, <4>1, <4>4 DEF MainHit
        <5>2. After("vector") = "dedup"
          BY <1>1, <2>2, <5>1, WriterSearches
        <5>3. QED BY <2>2, <4>2, <4>4, <5>2 DEF TypeOK, Searching
      <4>5. QED BY <4>1, <4>2, <4>3, <4>4 DEF Search, End, Proceed, Goto
    <3>5. QED BY <2>3, <3>1, <3>2, <3>3, <3>4
  <2>4. ASSUME NEW r \in Requests,
               \/ Begin(r) \/ NoDownstream(r) \/ Rag(r) \/ Run(r) \/ RunAlone(r)
               \/ MergeStep(r) \/ Deliver(r) \/ Disconnect(r)
        PROVE  stage'[q] \in Searching /\ at'[q] = "out"
    <3>1. stage[r] \in {"idle", "rag", "merge"} \/ stage' = stage
      BY <2>4 DEF Begin, NoDownstream, Rag, Run, RunAlone, MergeStep, Deliver, Disconnect
    <3>2. stage'[q] = stage[q]
      BY <2>2, <2>4, <3>1 DEF Begin, NoDownstream, Rag, Run, RunAlone, MergeStep, Deliver,
         Disconnect, End, Proceed, Goto, TypeOK, Searching
    <3>3. at'[q] = at[q]
      BY <2>2, <2>4 DEF Begin, NoDownstream, Rag, Choose, ChooseText, Run, RunAlone, FnReturns,
         MergeStep, Enter, Finish, Deliver, Disconnect, TypeOK, MergeTypeOK, mergeVars, Searching
    <3>4. QED BY <2>2, <3>2, <3>3
  <2>5. ASSUME NEW w \in writing, WriteBack(w)
        PROVE  stage'[q] \in Searching /\ at'[q] = "out"
    BY <2>2, <2>5 DEF WriteBack, mergeVars
  <2>6. CASE UNCHANGED qaVars
    BY <1>1, <2>2, <2>6 DEF qaVars, mergeVars
  <2>7. QED BY <1>1, <2>2, <2>3, <2>4, <2>5, <2>6 DEF Next, Step, Over
<1>4. QED BY <1>2, <1>3

\* A question asked after a similar point was stored goes downstream only if its
\* search failed.
THEOREM StoredReused == Spec => []StoredAnswersAreReused
<1> DEFINE KnewOK == knew \subseteq Requests
<1>1. Init => KnewOK /\ Reuse
  BY DEF Init, Reuse
<1>2. ASSUME KnewOK, [Next]_qaVars PROVE KnewOK'
  BY <1>2 DEF Next, Step, Over, Begin, Embed, Vector, Dedup, Search, NoDownstream, Rag, Run,
     RunAlone, MergeStep, Deliver, WriteBack, Disconnect, qaVars, history
<1>3. KnewOK /\ Reuse => StoredAnswersAreReused
  BY DEF Reuse, StoredAnswersAreReused
<1> HIDE DEF KnewOK
<1>4. QED BY <1>1, <1>2, <1>3, Typed, NextReuse, PTL DEF Spec
=============================================================================
