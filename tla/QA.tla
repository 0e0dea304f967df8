--------------------------------- MODULE QA ---------------------------------
(***************************************************************************)
(* handleQA (internal/northbound/http/qa.go): the way of a question        *)
(* through rules, embedding, the vector collections and the coalesced      *)
(* downstream call, and the goroutine that writes a downstream answer back *)
(* to Qdrant.  Many requests of one gateway, over LocalMerge.              *)
(*                                                                         *)
(* The remote services answer or fail as they like; their breakers (module *)
(* Breaker) are among the failures.  A point in Qdrant is a record of the  *)
(* request whose vector it has and the request its text was made for;      *)
(* points an administrator has put there are not told apart.  One relation *)
(* stands for all similarity thresholds.                                   *)
(***************************************************************************)
EXTENDS LocalMerge

CONSTANTS Deployments,  \* the configurations: sets of the parts that are wired
          MaxFaults     \* bound of the failures of remote services and of the
                        \* clients that disconnect

\* What main accepts (cmd/gateway/main.go).
Legal(parts) ==
  /\ "semantic" \in parts => {"coalesce", "embedder"} \subseteq parts
  /\ "writer" \in parts => {"embedder", "vector"} \subseteq parts
  /\ "dedup" \in parts => "writer" \in parts

ASSUME QAAssumption ==
  /\ \A parts \in Deployments : Legal(parts)
  /\ MaxFaults \in Nat

VARIABLES deps,      \* Deps: the parts of this gateway
          stage,     \* per request: where handleQA is
          source,    \* per request: how its stream ended; an answer from a rule or from
                     \* Qdrant is "known"
          writing,   \* the points being written back
          stored,    \* the points written back
          gone,      \* the requests whose client has disconnected
          faults     \* the number of failures and disconnections so far

\* For the properties; no action reads them: the requests that began when a
\* similar point was stored, those with a failed search,
\* and whether the downstream service has failed.
VARIABLES knew, degraded, broken

history == <<knew, degraded, broken>>
qaVars == <<mergeVars, deps, stage, source, writing, stored, gone, faults, history>>

Init ==
  /\ MergeInit
  /\ deps \in Deployments
  /\ stage = [r \in Requests |-> "idle"]
  /\ source = [r \in Requests |-> "none"]
  /\ writing = {}
  /\ stored = {}
  /\ gone = {}
  /\ faults = 0
  /\ knew = {}
  /\ degraded = {}
  /\ broken = FALSE

-----------------------------------------------------------------------------

NeedEmbed ==
  /\ "embedder" \in deps
  /\ deps \cap {"vector", "writer", "dedup"} # {} \/ {"downstream", "semantic"} \subseteq deps

\* The stage that follows s when the question is not answered there.
After(s) ==
  IF s = "rules" /\ NeedEmbed THEN "embed"
  ELSE IF s = "embed" /\ "vector" \in deps THEN "vector"
  ELSE IF s \in {"embed", "vector"} /\ "dedup" \in deps THEN "dedup"
  ELSE "rag"

Goto(r, s) == stage' = [stage EXCEPT ![r] = s]

\* The handler ends its stream, with done and the source or with an error.
End(r, src) == Goto(r, "over") /\ source' = [source EXCEPT ![r] = src]

Proceed(r, s) == Goto(r, s) /\ UNCHANGED source

\* A remote service fails.
Fault == faults < MaxFaults /\ faults' = faults + 1

\* It fails, or the request's context is cancelled.
FaultOrGone(r) == Fault \/ (r \in gone /\ UNCHANGED faults)

\* The points similar to r.  A search asks for no scope.
Near(r) == {w \in stored : w.vec \in Similar[r]}

\* MatchExact and MatchRegex read the gateway's memory.  (If the client has gone,
\* the handler ends a little earlier here and in the searches: after the delta.)
Begin(r) ==
  /\ stage[r] = "idle"
  /\ End(r, "known") \/ Proceed(r, After("rules"))
  /\ knew' = IF Near(r) # {} THEN knew \cup {r} ELSE knew
  /\ UNCHANGED <<mergeVars, deps, writing, stored, gone, faults, degraded, broken>>

\* An error ends the stream; Client.Embed returns no empty vector.
Embed(r) ==
  /\ stage[r] = "embed"
  /\ \/ Proceed(r, After("embed")) /\ UNCHANGED faults
     \/ FaultOrGone(r) /\ End(r, "error")
  /\ UNCHANGED <<mergeVars, deps, writing, stored, gone, history>>

\* One search: a hit ends the stream, and so does an open breaker; any other error
\* is like no hit.
Search(r, s, hit) ==
  /\ stage[r] = s
  /\ \/ hit /\ End(r, "known") /\ UNCHANGED <<faults, degraded>>
     \/ ~hit /\ Proceed(r, After(s)) /\ UNCHANGED <<faults, degraded>>
     \/ Fault /\ End(r, "error") /\ UNCHANGED degraded
     \/ FaultOrGone(r) /\ Proceed(r, After(s)) /\ degraded' = degraded \cup {r}
  /\ UNCHANGED <<mergeVars, deps, writing, stored, gone, knew, broken>>

\* (variant) Answers written back are not found.
NoHit(r) == FALSE

\* The main collection is also that of the answers written back, unless they have
\* one of their own.
MainHit(r) == "dedup" \notin deps /\ Near(r) # {}

\* The main collection may have an answer of the administrators' as well.
Vector(r) == \E hit \in {MainHit(r), TRUE} : Search(r, "vector", hit)

Dedup(r) == Search(r, "dedup", Near(r) # {})

\* Without a downstream service the stream ends with NO_MATCH.
NoDownstream(r) ==
  /\ stage[r] = "rag"
  /\ "downstream" \notin deps
  /\ End(r, "error")
  /\ UNCHANGED <<mergeVars, deps, writing, stored, gone, faults, history>>

\* The request is coalesced by its vector, by its text, or not at all.
Rag(r) ==
  /\ stage[r] = "rag"
  /\ "downstream" \in deps
  /\ Goto(r, "merge")
  /\ CASE "coalesce" \notin deps -> /\ at' = [at EXCEPT ![r] = "alone"]
                                    /\ UNCHANGED <<listed, runner, group, result, late>>
       [] "semantic" \in deps -> Choose(r)
       [] OTHER -> ChooseText(r)
  /\ UNCHANGED <<deps, source, writing, stored, gone, faults, history>>

\* What the downstream service returns: an answer, one without text, or an error.
Complete(r, v) ==
  \/ v = r /\ UNCHANGED <<faults, broken>>
  \/ v \in {Blank, Failed} /\ Fault /\ broken' = (broken \/ v = Failed)

\* The same with a context that is cancelled when the client goes.
CompleteOrGone(r, v) ==
  Complete(r, v) \/ (v = Failed /\ r \in gone /\ UNCHANGED <<faults, broken>>)

\* (variant) fn uses the context of the request that runs it.
RunWithContext(r) ==
  /\ \E v \in {r, Blank, Failed} : FnReturns(r, v) /\ CompleteOrGone(r, v)
  /\ UNCHANGED <<deps, stage, source, writing, stored, gone, knew, degraded>>

\* The coalesced call has a context of its own, whatever the client does.
Run(r) ==
  /\ \E v \in {r, Blank, Failed} : FnReturns(r, v) /\ Complete(r, v)
  /\ UNCHANGED <<deps, stage, source, writing, stored, gone, knew, degraded>>

\* Without coalescing the call has the request's context.
RunAlone(r) ==
  /\ at[r] = "alone"
  /\ \E v \in {r, Blank, Failed} :
       /\ at' = [at EXCEPT ![r] = "merged"] /\ result' = [result EXCEPT ![r] = v]
       /\ CompleteOrGone(r, v)
  /\ UNCHANGED <<listed, runner, group, late, deps, stage, source, writing, stored, gone,
                 knew, degraded>>

MergeStep(r) ==
  /\ Enter(r) \/ Finish(r)
  /\ UNCHANGED <<deps, stage, source, writing, stored, gone, faults, history>>

\* (variant) An answer without text is written back.
WorthKeepingAny(r) == "writer" \in deps

WorthKeeping(r) == "writer" \in deps /\ result[r] # Blank

\* The answer is sent and then written back by a goroutine, but not if the client
\* has gone, when the handler returns at the first write that fails.
Deliver(r) ==
  /\ stage[r] = "merge"
  /\ at[r] = "merged"
  /\ \/ result[r] = Failed /\ End(r, "error")
     \/ result[r] # Failed /\ End(r, "rag")
     \/ result[r] # Failed /\ r \in gone /\ End(r, "none")
  /\ writing' = IF source'[r] = "rag" /\ WorthKeeping(r) THEN writing \cup {[vec |-> r, text |-> result[r]]}
                 ELSE writing
  /\ UNCHANGED <<mergeVars, deps, stored, gone, faults, history>>

\* The goroutine; an error is only logged.
WriteBack(w) ==
  /\ w \in writing
  /\ writing' = writing \ {w}
  /\ \/ stored' = stored \cup {w} /\ UNCHANGED faults
     \/ Fault /\ UNCHANGED stored
  /\ UNCHANGED <<mergeVars, deps, stage, source, gone, history>>

\* The client goes away and the request's context is cancelled.
Disconnect(r) ==
  /\ stage[r] \notin {"idle", "over"}
  /\ r \notin gone
  /\ Fault
  /\ gone' = gone \cup {r}
  /\ UNCHANGED <<mergeVars, deps, stage, source, writing, stored, history>>

\* What the request's own goroutine does next.
Step(r) ==
  \/ Embed(r) \/ Vector(r) \/ Dedup(r)
  \/ NoDownstream(r) \/ Rag(r) \/ Run(r) \/ RunAlone(r) \/ MergeStep(r) \/ Deliver(r)

\* All streams have ended and nothing is being written.
Over ==
  /\ \A r \in Requests : stage[r] = "over"
  /\ writing = {}
  /\ UNCHANGED qaVars

Next ==
  \/ \E r \in Requests : Begin(r) \/ Step(r) \/ Disconnect(r)
  \/ \E w \in writing : WriteBack(w)
  \/ Over

Spec == Init /\ [][Next]_qaVars

-----------------------------------------------------------------------------
(* Properties *)

Points == [vec : Requests, text : Requests]

\* Every variable has its type.
TypeOK ==
  /\ MergeTypeOK
  /\ deps \in Deployments
  /\ stage \in [Requests -> {"idle", "embed", "vector", "dedup", "rag", "merge", "over"}]
  /\ source \in [Requests -> {"none", "known", "rag", "error"}]
  /\ writing \subseteq Points
  /\ stored \subseteq Points
  /\ gone \subseteq Requests
  /\ faults \in 0 .. MaxFaults

\* An answer made for p is one for r: they are of one scope and have one text, or
\* both are similar to the representative of r's group.
Fits(r, p) ==
  /\ Scope[r] = Scope[p]
  /\ Text[r] = Text[p] \/ {r, p} \subseteq Similar[group[r]]

\* However requests are merged and overtake each other, a coalesced answer fits the
\* request that gets it, and so does the text of every point written back: answers
\* do not drift away along chains of similar questions, nor into another scope
\* (qa.go:235-244, 260-274).
AnswersFit ==
  /\ \A r \in Requests : source[r] = "rag" => result[r] = Blank \/ Fits(r, result[r])
  /\ \A w \in writing \cup stored : Fits(w.vec, w.text)

\* A question asked after a similar point was stored goes downstream only if its
\* search failed (specs/architecture/SEMANTIC_DEDUP_PERSISTENT.md:11).
StoredAnswersAreReused == \A r \in knew \ degraded : at[r] = "out"

\* A client that disconnects makes no coalesced call fail, neither its own nor that
\* of those who wait for it (specs/architecture/COALESCE_DESIGN.md:33).
DisconnectHarmsNobody ==
  \A r \in Requests : "coalesce" \in deps /\ result[r] = Failed => broken
=============================================================================
