--------------------------- MODULE SemanticProofs ---------------------------
(***************************************************************************)
(* Proofs about coalesce.SemanticRedis for any number of requests, dead    *)
(* ids, similarities and faults.  Around coalesce.Redis it takes only its  *)
(* steps, so that what CoalesceProofs proves holds here too.  The list of  *)
(* groups leaks only through faults: Lost says which ids nobody is bound   *)
(* to remove, and each step that adds one counts a fault.                  *)
(***************************************************************************)
EXTENDS SemanticRedis, CoalesceProofs, FiniteSetTheorems

LEMMA SemNames ==
  /\ Groups \subseteq Keys /\ TextKey \in Keys /\ TextKey \notin Groups
  /\ Nobody \notin Groups /\ Nobody # TextKey
  /\ Requests \subseteq Groups /\ Requests \cap Dead = {}
BY SemanticAssumption, CoalesceAssumption DEF Groups

-----------------------------------------------------------------------------
(* The inner protocol *)

LEMMA InnerInit == SemInit => Init
BY DEF SemInit

LEMMA InnerStep == ASSUME SemTypeOK, [SemNext]_semVars PROVE [Next]_vars
<1>1. CASE Elapse
  BY <1>1 DEF Elapse, Next
<1>2. ASSUME NEW g \in Groups, Expire(g) PROVE [Next]_vars
  BY <1>2 DEF Expire
<1>3. ASSUME NEW r \in Requests, List(r) PROVE [Next]_vars
  BY <1>3 DEF List, Next
<1>4. ASSUME NEW r \in Requests, Look(r) PROVE [Next]_vars
  <2>1. todo[r] \subseteq Keys
    BY SemNames DEF SemTypeOK
  <2>2. QED BY <1>4, <2>1 DEF Look, Next
<1>5. ASSUME NEW r \in Requests,
             LookFails(r) \/ Sweep(r) \/ Found(r) \/ DelVec(r) \/ SRem(r) \/ DiesLeading(r)
      PROVE [Next]_vars
  BY <1>5 DEF LookFails, Sweep, Found, DelVec, SRem, DiesLeading
<1>6. ASSUME NEW r \in Requests, SetVec(r) PROVE [Next]_vars
  BY <1>6, SemNames DEF SetVec, Next
<1>7. ASSUME NEW r \in Requests, MergeStep(r) \/ LeaderDone(r) \/ EndsEarly(r)
      PROVE [Next]_vars
  BY <1>7 DEF MergeStep, LeaderDone, EndsEarly, Next
<1>8. CASE UNCHANGED semVars
  BY <1>8 DEF semVars
<1>9. QED BY <1>1, <1>2, <1>3, <1>4, <1>5, <1>6, <1>7, <1>8 DEF SemNext

-----------------------------------------------------------------------------
(* Types *)

\* How far a request is in Merge, and what it has then.
Place(r) ==
  /\ at[r] \in {"list", "scan", "vec"} => pc[r] = "new"
  /\ at[r] = "text" => key[r] = TextKey
  /\ at[r] = "merge" => key[r] \in Groups
  /\ at[r] \in {"delvec", "srem"} => sweep[r] \in Groups
  /\ at[r] \in {"delvec", "srem", "done"} => pc[r] = "done"

Places == \A r \in Requests : Place(r)

LEMMA SemInitType == SemInit => SemTypeOK /\ Places
<1> SUFFICES ASSUME SemInit PROVE SemTypeOK /\ Places
  OBVIOUS
<1>1. TypeOK
  BY InitType, InnerInit
<1>2. /\ at \in [Requests -> {"text", "list", "scan", "vec", "merge", "delvec", "srem", "done"}]
      /\ active \subseteq Groups /\ vec \subseteq Groups
      /\ todo \in [Requests -> SUBSET Groups]
      /\ sweep \in [Requests -> Groups \cup {Nobody}]
      /\ losses \in 0 .. MaxFaults
      /\ steady \in [Requests -> SUBSET Groups]
  BY Numbers DEF SemInit, Groups
<1>3. Places
  BY SemNames DEF SemInit, Init, Places, Place
<1>4. QED BY <1>1, <1>2, <1>3 DEF SemTypeOK

\* The commands of one request, not the passing of time.
Step(r) ==
  \/ List(r) \/ Look(r) \/ LookFails(r) \/ Sweep(r) \/ Found(r) \/ SetVec(r)
  \/ MergeStep(r) \/ LeaderDone(r) \/ EndsEarly(r)
  \/ DelVec(r) \/ SRem(r) \/ DiesLeading(r)

\* The state that only the semantic merge has.
MergeTypeOK ==
  /\ at \in [Requests -> {"text", "list", "scan", "vec", "merge", "delvec", "srem", "done"}]
  /\ active \subseteq Groups
  /\ todo \in [Requests -> SUBSET Groups]
  /\ sweep \in [Requests -> Groups \cup {Nobody}]
  /\ vec \subseteq Groups
  /\ losses \in 0 .. MaxFaults

\* A step of r leaves the other requests where they are.
Others(r) ==
  \A q \in Requests \ {r} :
    /\ at'[q] = at[q] /\ todo'[q] = todo[q] /\ sweep'[q] = sweep[q]
    /\ pc'[q] = pc[q] /\ key'[q] = key[q]

LEMMA StepOthers ==
  ASSUME SemTypeOK, NEW r \in Requests, Step(r) PROVE Others(r)
<1> USE DEF SemTypeOK, TypeOK, Others, Move, StopSearch, Goto, End
<1>1. CASE List(r)
  BY <1>1 DEF List, Alone, vars
<1>2. CASE Look(r)
  BY <1>2 DEF Look, Arrive, vars
<1>3. CASE LookFails(r) \/ Sweep(r) \/ Found(r)
  BY <1>3 DEF LookFails, Sweep, Found, vars
<1>4. CASE SetVec(r)
  BY <1>4 DEF SetVec, Arrive
<1>5. CASE MergeStep(r)
  BY <1>5 DEF MergeStep, GetResult, SetNX, SetResult, Poll
<1>6. CASE LeaderDone(r)
  BY <1>6 DEF LeaderDone, RemoveGroup, DelLock
<1>7. CASE EndsEarly(r)
  BY <1>7 DEF EndsEarly, RemoveGroup, Cut, LoseReply
<1>8. CASE DelVec(r) \/ SRem(r) \/ DiesLeading(r)
  BY <1>8 DEF DelVec, SRem, DiesLeading, vars
<1>9. QED BY <1>1, <1>2, <1>3, <1>4, <1>5, <1>6, <1>7, <1>8 DEF Step

LEMMA StepMergeType ==
  ASSUME SemTypeOK, Places, NEW r \in Requests, Step(r) PROVE MergeTypeOK'
<1> USE Numbers, SemNames DEF SemTypeOK, MergeTypeOK, Move, StopSearch
<1>0. Loss => losses' \in 0 .. MaxFaults
  BY DEF Loss, TypeOK
<1>1. CASE List(r)
  BY <1>1 DEF List
<1>2. CASE Look(r)
  BY <1>2 DEF Look
<1>3. CASE LookFails(r) \/ Sweep(r) \/ Found(r)
  BY <1>0, <1>3 DEF LookFails, Sweep, Found
<1>4. CASE SetVec(r)
  BY <1>4 DEF SetVec
<1>5. CASE MergeStep(r)
  <2>1. at' \in [Requests -> {"text", "list", "scan", "vec", "merge", "delvec", "srem", "done"}]
    <3>1. CASE pc'[r] = "done"
      BY <1>5, <3>1 DEF MergeStep
    <3>2. CASE pc'[r] # "done"
      BY <1>5, <3>2 DEF MergeStep
    <3>3. QED BY <3>1, <3>2
  <2>2. QED BY <1>5, <2>1 DEF MergeStep
<1>6. CASE LeaderDone(r)
  BY <1>6 DEF LeaderDone, RemoveGroup, Places, Place
<1>7. CASE EndsEarly(r)
  BY <1>7 DEF EndsEarly, RemoveGroup, Places, Place
<1>8. CASE DelVec(r) \/ SRem(r) \/ DiesLeading(r)
  BY <1>0, <1>8 DEF DelVec, SRem, DiesLeading
<1>9. QED BY <1>1, <1>2, <1>3, <1>4, <1>5, <1>6, <1>7, <1>8 DEF Step

LEMMA StepPlaces ==
  ASSUME SemTypeOK, Places, NEW r \in Requests, Step(r) PROVE Places'
<1>1. Place(r)'
  <2> USE SemNames DEF SemTypeOK, TypeOK, Places, Place, Move, StopSearch, Goto, End
  <2>1. CASE List(r)
    BY <2>1 DEF List, Alone, vars
  <2>2. CASE Look(r)
    BY <2>2 DEF Look, Arrive, Searching, vars
  <2>3. CASE LookFails(r) \/ Sweep(r) \/ Found(r)
    BY <2>3 DEF LookFails, Sweep, Found, Searching, vars
  <2>4. CASE SetVec(r)
    BY <2>4 DEF SetVec, Arrive
  <2>5. CASE MergeStep(r)
    BY <2>5 DEF MergeStep, GetResult, SetNX, SetResult, Poll
  <2>6. CASE LeaderDone(r)
    BY <2>6 DEF LeaderDone, RemoveGroup, DelLock
  <2>7. CASE EndsEarly(r)
    BY <2>7 DEF EndsEarly, RemoveGroup, Cut, LoseReply
  <2>8. CASE DelVec(r) \/ SRem(r) \/ DiesLeading(r)
    BY <2>8 DEF DelVec, SRem, DiesLeading, vars
  <2>9. QED BY <2>1, <2>2, <2>3, <2>4, <2>5, <2>6, <2>7, <2>8 DEF Step
<1>2. QED BY <1>1, StepOthers DEF Others, Places, Place

LEMMA NextSemType ==
  ASSUME SemTypeOK, Places, [SemNext]_semVars PROVE SemTypeOK' /\ Places'
<1>1. TypeOK'
  BY InnerStep, NextType DEF SemTypeOK
<1>2. MergeTypeOK' /\ Places'
  <2>1. ASSUME NEW r \in Requests, Step(r) PROVE MergeTypeOK' /\ Places'
    BY <2>1, StepMergeType, StepPlaces
  <2>2. CASE Elapse
    BY <2>2 DEF Elapse, Tick, SemTypeOK, MergeTypeOK, Places, Place, mergeVars
  <2>3. ASSUME NEW g \in Groups, Expire(g) PROVE MergeTypeOK' /\ Places'
    BY <2>3 DEF Expire, SemTypeOK, MergeTypeOK, Places, Place, vars
  <2>4. CASE UNCHANGED semVars
    BY <2>4 DEF semVars, mergeVars, vars, SemTypeOK, MergeTypeOK, Places, Place
  <2>5. QED BY <2>1, <2>2, <2>3, <2>4 DEF SemNext, Step
<1>3. (steady \in [Requests -> SUBSET Groups])'
  <2>1. CASE Watch
    BY <2>1, <1>2 DEF Watch, Standing, SemTypeOK, MergeTypeOK
  <2>2. CASE UNCHANGED steady
    BY <2>2 DEF SemTypeOK
  <2>3. QED BY <2>1, <2>2 DEF SemNext, semVars
<1>4. QED BY <1>1, <1>2, <1>3 DEF SemTypeOK, MergeTypeOK

LEMMA SemTyped == SemSpec => [](SemTypeOK /\ Places)
BY SemInitType, NextSemType, PTL DEF SemSpec

\* The state of the semantic merge keeps its types, and that of the protocol
\* below it its types and bounds.
THEOREM SemTypeCorrect == SemSpec => []SemTypeOK
BY SemTyped, PTL

\* The semantic merge takes only steps of the protocol below it.
THEOREM Layered == SemSpec => Spec
<1>1. SemTypeOK /\ [SemNext]_semVars => [Next]_vars
  BY InnerStep
<1>2. QED BY InnerInit, SemTyped, <1>1, PTL DEF SemSpec, Spec

\* Groups are shared as keys are: runs of one group never overlap, a leader deletes
\* its own lock only, without faults no waiter gives up, and what the requests see
\* of all the commands is a merger.
THEOREM GroupsShareRuns ==
  ASSUME Timing, Lasting
  PROVE  SemSpec => []Exclusive /\ UnlocksOwn /\ TimeoutNeedsFault /\ SharesRuns
BY Layered, Exclusion, OwnUnlock, WaitersAnswered, RedisSharesRuns, Timing, Lasting, PTL

-----------------------------------------------------------------------------
(* A group that is there is found *)

\* A similar group that has been there all the time is still to be looked at.
ToBeFound ==
  losses = 0 =>
    \A r \in Requests : at[r] = "scan" =>
      \A g \in steady[r] : Similar(r, g) => g \in todo[r]

LEMMA NextToBeFound ==
  ASSUME SemTypeOK, Places, ToBeFound, [SemNext]_semVars PROVE ToBeFound'
<1>1. CASE UNCHANGED semVars
  BY <1>1 DEF semVars, mergeVars, ToBeFound
<1>2. CASE SemNext
  <2> SUFFICES ASSUME losses' = 0, NEW q \in Requests, at'[q] = "scan",
                      NEW g \in steady'[q], Similar(q, g)
               PROVE  g \in todo'[q]
    BY DEF ToBeFound, Similar
  <2>1. g \in Standing'
    BY <1>2 DEF SemNext, Watch
  <2>2. at[q] # "list" => g \in steady[q]
    BY <1>2 DEF SemNext, Watch
  <2>3. at[q] = "scan" /\ losses = 0 => g \in todo[q]
    BY <2>2 DEF ToBeFound
  <2>4. CASE Elapse \/ \E h \in Groups : Expire(h)
    BY <2>3, <2>4 DEF Elapse, Expire, mergeVars
  <2>5. ASSUME NEW r \in Requests, Step(r) PROVE g \in todo'[q]
    <3>1. losses = 0
      BY <2>5 DEF Step, List, Look, LookFails, Sweep, Found, SetVec, MergeStep, LeaderDone,
                  EndsEarly, DelVec, SRem, DiesLeading, Loss, SemTypeOK
    <3>2. CASE q # r
      BY <2>3, <2>5, <3>1, <3>2, StepOthers DEF Others
    <3>3. CASE q = r
      <4> USE <3>3 DEF Move, StopSearch, SemTypeOK
      <4>1. CASE List(r)
        BY <2>1, <4>1 DEF List, Standing
      <4>2. CASE Look(r)
        BY <2>1, <2>3, <3>1, <4>2 DEF Look, Searching, Standing
      <4>3. CASE LookFails(r)
        BY <4>3 DEF LookFails, Loss
      <4>4. CASE Sweep(r)
        BY <2>3, <3>1, <4>4 DEF Sweep
      <4>5. CASE Found(r) \/ SetVec(r) \/ EndsEarly(r) \/ LeaderDone(r)
        BY <4>5 DEF Found, SetVec, EndsEarly, LeaderDone, RemoveGroup
      <4>6. CASE MergeStep(r)
        BY <4>6 DEF MergeStep, Places, Place, GetResult, SetNX, SetResult, Poll
      <4>7. CASE DelVec(r) \/ SRem(r) \/ DiesLeading(r)
        BY <4>7 DEF DelVec, SRem, DiesLeading
      <4>8. QED BY <2>5, <4>1, <4>2, <4>3, <4>4, <4>5, <4>6, <4>7 DEF Step
    <3>4. QED BY <3>2, <3>3
  <2>6. QED BY <1>2, <2>4, <2>5 DEF SemNext, Step
<1>3. QED BY <1>1, <1>2

\* Whatever the others do to the list meanwhile, a request makes a group of its own
\* only if no similar one was there all along, or a GET failed.
THEOREM FoundsIfNone == SemSpec => FoundsOnlyIfNone
<1>1. SemInit => ToBeFound
  BY DEF SemInit, ToBeFound
<1>2. SemTypeOK /\ ToBeFound
        => [\A r \in Requests :
              Found(r) => losses > 0 \/ \A g \in steady[r] : ~Similar(r, g)]_semVars
  BY Numbers DEF SemTypeOK, ToBeFound, Found, Searching
<1>3. QED BY <1>1, <1>2, SemTyped, NextToBeFound, PTL DEF SemSpec, FoundsOnlyIfNone

-----------------------------------------------------------------------------
(* The list of groups leaks only through faults *)

\* Before a request has made a group its id names nothing.
Unused(g) ==
  /\ g \notin vec /\ ~Locked(g) /\ ~HasResult(g)
  /\ \A q \in Requests : key[q] # g

UnusedBefore ==
  \A r \in Requests : at[r] \in {"text", "list", "scan", "vec"} => Unused(r)

\* A request that will remove the group if nothing fails.
HeldBy(q, g) ==
  \/ at[q] = "vec" /\ q = g
  \/ at[q] = "merge" /\ key[q] = g /\ Leading(q)
  \/ at[q] \in {"delvec", "srem"} /\ sweep[q] = g

\* Its founder is about to lead it, unless another request will.
Fresh(g) ==
  /\ g \in Requests /\ at[g] = "merge" /\ key[g] = g
  /\ pc[g] \in {"get", "setnx"}
  /\ ~Locked(g) /\ ~HasResult(g)

Bound(g) == (\E q \in Requests : HeldBy(q, g)) \/ Fresh(g)

\* The ids that stay listed, unless a request that waits leads the group again.
Lost == {g \in active \ Dead : ~Bound(g)}

LostCounted == Cardinality(Lost) <= faults + losses

LEMMA NextUnused ==
  ASSUME SemTypeOK, Places, UnusedBefore, [SemNext]_semVars PROVE UnusedBefore'
<1>1. CASE UNCHANGED semVars
  BY <1>1 DEF semVars, mergeVars, vars, UnusedBefore, Unused, Locked, HasResult
<1>2. CASE Elapse
  BY <1>2, SemNames DEF Elapse, Tick, Older, Absent, mergeVars, UnusedBefore, Unused, Locked,
                        HasResult, SemTypeOK, TypeOK
<1>3. ASSUME NEW h \in Groups, Expire(h) PROVE UnusedBefore'
  BY <1>3 DEF Expire, vars, UnusedBefore, Unused, Locked, HasResult
<1>4. ASSUME NEW r \in Requests, Step(r) PROVE UnusedBefore'
  <2> SUFFICES ASSUME NEW g \in Requests, at'[g] \in {"text", "list", "scan", "vec"}
               PROVE  Unused(g)'
    BY DEF UnusedBefore
  <2> USE SemNames DEF Unused, Locked, HasResult
  <2>1. Unused(g) /\ g \in Keys /\ g # Nobody
    <3>1. CASE g # r
      BY <1>4, <3>1, StepOthers DEF Others, UnusedBefore
    <3>2. CASE g = r
      <4>1. at[r] \in {"text", "list", "scan", "vec"}
        <5> USE <3>2 DEF SemTypeOK, Move
        <5>1. CASE List(r) \/ Look(r) \/ LookFails(r) \/ Sweep(r) \/ Found(r) \/ SetVec(r)
          BY <5>1 DEF List, Look, LookFails, Sweep, Found, SetVec, Searching
        <5>2. CASE MergeStep(r) \/ LeaderDone(r) \/ EndsEarly(r)
          BY <5>2 DEF MergeStep, LeaderDone, RemoveGroup, EndsEarly
        <5>3. CASE DelVec(r) \/ SRem(r) \/ DiesLeading(r)
          BY <5>3 DEF DelVec, SRem, DiesLeading
        <5>4. QED BY <1>4, <5>1, <5>2, <5>3 DEF Step
      <4>2. QED BY <3>2, <4>1, SemNames DEF UnusedBefore
    <3>3. QED BY <3>1, <3>2, SemNames
  <2> USE DEF SemTypeOK, TypeOK, Goto, End, Move
  <2>2. CASE List(r)
    BY <2>1, <2>2 DEF List, Alone, vars
  <2>3. CASE Look(r)
    BY <2>1, <2>3 DEF Look, Arrive, vars
  <2>4. CASE LookFails(r) \/ Sweep(r) \/ Found(r)
    BY <2>1, <2>4 DEF LookFails, Sweep, Found, vars
  <2>5. CASE SetVec(r)
    BY <2>1, <2>5 DEF SetVec, Arrive
  <2>6. CASE MergeStep(r)
    BY <2>1, <2>6 DEF MergeStep, GetResult, SetNX, TakeLock, SetResult, Poll
  <2>7. CASE LeaderDone(r)
    BY <2>1, <2>7 DEF LeaderDone, DelLock
  <2>8. CASE EndsEarly(r)
    BY <2>1, <2>8 DEF EndsEarly, Cut, LoseReply, TakeLock
  <2>9. CASE DelVec(r) \/ SRem(r) \/ DiesLeading(r)
    BY <2>1, <2>9 DEF DelVec, SRem, DiesLeading, vars
  <2>10. QED BY <1>4, <2>2, <2>3, <2>4, <2>5, <2>6, <2>7, <2>8, <2>9 DEF Step
<1>5. QED BY <1>1, <1>2, <1>3, <1>4 DEF SemNext, Step

\* A group stays bound if what bound it to r, and its being unused, do.
LEMMA Kept ==
  ASSUME SemTypeOK, NEW r \in Requests, Others(r), NEW g, Bound(g),
         HeldBy(r, g) => Bound(g)',
         g = r /\ Fresh(g) => Bound(g)',
         Fresh(g) => Bound(g)' \/ (~(lock'[g].left > 0) /\ ~(res'[g] > 0))
  PROVE  Bound(g)'
<1>1. CASE \E q \in Requests \ {r} : HeldBy(q, g)
  BY <1>1 DEF Others, Bound, HeldBy, Leading
<1>2. CASE g # r /\ Fresh(g)
  BY <1>2 DEF Others, Bound, Fresh, Locked, HasResult
<1>3. QED BY <1>1, <1>2 DEF Bound

\* The group that a fault of r may leave to nobody.
Victim(r) ==
  IF at[r] = "vec" THEN r ELSE IF at[r] = "merge" THEN key[r] ELSE sweep[r]

LEMMA StepBound ==
  ASSUME SemTypeOK, Places, UnusedBefore, NEW r \in Requests, Step(r),
         NEW g \in Groups, Bound(g), g \in active',
         g = Victim(r) => faults' + losses' = faults + losses
  PROVE  Bound(g)'
<1>0. Others(r)
  BY StepOthers
<1> USE SemNames DEF SemTypeOK, TypeOK, Goto, End, Move, StopSearch
<1>1. CASE List(r) \/ Look(r) \/ LookFails(r) \/ Sweep(r) \/ Found(r)
  <2>1. ~HeldBy(r, g) /\ ~(g = r /\ Fresh(g))
    BY <1>1 DEF List, Look, LookFails, Sweep, Found, Searching, HeldBy, Fresh
  <2>2. lock' = lock /\ res' = res
    BY <1>1 DEF List, Alone, Look, Arrive, LookFails, Sweep, Found, vars
  <2>3. QED BY <1>0, <2>1, <2>2, Kept DEF Fresh, Locked, HasResult
<1>2. CASE SetVec(r)
  <2>1. lock' = lock /\ res' = res
    BY <1>2 DEF SetVec, Arrive
  <2>2. g = r => Fresh(g)'
    BY <1>2, <2>1 DEF SetVec, Arrive, Fresh, UnusedBefore, Unused, Locked, HasResult
  <2>3. g # r => ~HeldBy(r, g)
    BY <1>2 DEF SetVec, HeldBy
  <2>4. QED BY <1>0, <2>1, <2>2, <2>3, Kept DEF Bound, Fresh, Locked, HasResult
<1>3. CASE MergeStep(r) /\ GetResult(r)
  <2>1. lock' = lock /\ res' = res /\ ~HeldBy(r, g)
    BY <1>3, SemNames DEF MergeStep, GetResult, HeldBy, Leading, Places, Place
  <2>2. g = r /\ Fresh(g) => Fresh(g)'
    BY <1>3 DEF MergeStep, GetResult, Fresh, Locked, HasResult
  <2>3. QED BY <1>0, <2>1, <2>2, Kept DEF Bound, Fresh, Locked, HasResult
<1>4. CASE MergeStep(r) /\ SetNX(r)
  <2>1. res' = res /\ key' = key /\ at' = at /\ ~HeldBy(r, g)
    BY <1>4 DEF MergeStep, SetNX, HeldBy, Leading, Places, Place
  <2>2. CASE key[r] = g /\ ~Locked(g)
    <3>1. at[r] = "merge"
      BY <1>4, <2>2 DEF SetNX, Places, Place
    <3>2. HeldBy(r, g)'
      BY <1>4, <2>1, <2>2, <3>1 DEF SetNX, HeldBy, Leading
    <3>3. QED BY <3>2 DEF Bound
  <2>3. CASE ~(key[r] = g /\ ~Locked(g))
    <3>1. lock'[g] = lock[g]
      BY <1>4, <2>3 DEF SetNX, TakeLock
    <3>2. ~(g = r /\ Fresh(g))
      BY <2>3 DEF Fresh
    <3>3. QED BY <1>0, <2>1, <3>1, <3>2, Kept DEF Fresh, Locked, HasResult
  <2>4. QED BY <2>2, <2>3
<1>5. CASE MergeStep(r) /\ SetResult(r)
  <2>1. lock' = lock /\ key' = key /\ at' = at
    BY <1>5 DEF MergeStep, SetResult
  <2>2. HeldBy(r, g) => HeldBy(r, g)'
    BY <1>5, <2>1 DEF SetResult, HeldBy, Leading, Places, Place
  <2>3. g = r => ~Fresh(g)
    BY <1>5 DEF SetResult, Fresh
  <2>4. CASE key[r] = g
    <3>1. HeldBy(r, g)
      BY <1>5, <2>4 DEF SetResult, HeldBy, Leading, Places, Place
    <3>2. QED BY <2>2, <3>1 DEF Bound
  <2>5. CASE key[r] # g
    <3>1. res'[g] = res[g]
      BY <1>5, <2>5 DEF SetResult
    <3>2. QED BY <1>0, <2>1, <2>2, <2>3, <3>1, Kept DEF Bound, Fresh, Locked, HasResult
  <2>6. QED BY <2>4, <2>5
<1>6. CASE MergeStep(r) /\ Poll(r)
  BY <1>0, <1>6, Kept DEF MergeStep, Poll, HeldBy, Leading, Fresh, Locked, HasResult, Places,
                          Place
<1>7. CASE LeaderDone(r)
  <2>1. res' = res /\ \A k \in Keys : lock'[k].left > 0 => lock[k].left > 0
    BY <1>7 DEF LeaderDone, DelLock, Absent
  <2>2. HeldBy(r, g) => HeldBy(r, g)'
    BY <1>7 DEF LeaderDone, RemoveGroup, DelLock, HeldBy, Places, Place
  <2>3. g = r => ~Fresh(g)
    BY <1>7 DEF LeaderDone, DelLock, Fresh
  <2>4. QED BY <1>0, <2>1, <2>2, <2>3, Kept DEF Bound, Fresh, Locked, HasResult
<1>8. CASE EndsEarly(r)
  <2>1. faults' + losses' # faults + losses
    BY <1>8 DEF EndsEarly, Cut, LoseReply
  <2>2. ~HeldBy(r, g) /\ ~(g = r /\ Fresh(g))
    BY <2>1 DEF HeldBy, Fresh, Victim
  <2>3. res' = res /\ (Fresh(g) => lock'[g] = lock[g])
    BY <1>8, <2>1 DEF EndsEarly, Cut, LoseReply, TakeLock, Victim, Places, Place
  <2>4. QED BY <1>0, <2>2, <2>3, Kept DEF Fresh, Locked, HasResult
<1>9. CASE DelVec(r) \/ SRem(r) \/ DiesLeading(r)
  <2>1. lock' = lock /\ res' = res /\ ~(g = r /\ Fresh(g))
    BY <1>9 DEF DelVec, SRem, DiesLeading, vars, Fresh
  <2>2. ASSUME HeldBy(r, g) PROVE Bound(g)'
    <3>1. at[r] \in {"delvec", "srem"} /\ sweep[r] = g /\ Victim(r) = g
      BY <1>9, <2>2 DEF DelVec, SRem, DiesLeading, HeldBy, Victim
    <3>2. CASE DelVec(r)
      BY <3>1, <3>2 DEF DelVec, HeldBy, Bound
    <3>3. CASE SRem(r) \/ DiesLeading(r)
      \* it is off the list, or a fault is counted
      BY <3>1, <3>3 DEF SRem, DiesLeading, Loss, vars
    <3>4. QED BY <1>9, <3>2, <3>3
  <2>3. QED BY <1>0, <2>1, <2>2, Kept DEF Fresh, Locked, HasResult
<1>10. QED
  BY <1>1, <1>2, <1>3, <1>4, <1>5, <1>6, <1>7, <1>8, <1>9 DEF Step, MergeStep

LEMMA SubsetCount ==
  ASSUME NEW S, IsFiniteSet(S), NEW T, T \subseteq S
  PROVE  Cardinality(T) \in Nat /\ Cardinality(S) \in Nat /\ Cardinality(T) <= Cardinality(S)
<1>1. IsFiniteSet(T) /\ Cardinality(T) <= Cardinality(S)
  BY FS_Subset
<1>2. QED BY <1>1, FS_CardinalityType

LEMMA OneMoreCount ==
  ASSUME NEW S, IsFiniteSet(S), NEW x, NEW T, T \subseteq S \cup {x}
  PROVE  Cardinality(T) \in Nat /\ Cardinality(T) <= Cardinality(S) + 1
<1>1. IsFiniteSet(S \cup {x}) /\ Cardinality(S) \in Nat
  BY FS_AddElement, FS_CardinalityType
<1>2. Cardinality(S \cup {x}) <= Cardinality(S) + 1
  BY <1>1, FS_AddElement
<1>3. Cardinality(T) \in Nat /\ Cardinality(S \cup {x}) \in Nat
      /\ Cardinality(T) <= Cardinality(S \cup {x})
  BY <1>1, SubsetCount
<1>4. QED BY <1>1, <1>2, <1>3

LEMMA FiniteLost == ASSUME SemTypeOK PROVE IsFiniteSet(Lost) /\ Cardinality(Lost) \in Nat
<1>1. Lost \subseteq Requests
  BY DEF Lost, SemTypeOK, Groups
<1>2. QED BY <1>1, SemanticAssumption, FS_Subset, FS_CardinalityType

LEMMA NextLost ==
  ASSUME SemTypeOK, Places, UnusedBefore, LostCounted, [SemNext]_semVars
  PROVE  LostCounted'
<1> USE DEF LostCounted
<1>0. IsFiniteSet(Lost) /\ Cardinality(Lost) \in Nat
  BY FiniteLost
<1>1. faults \in Nat /\ losses \in Nat
  BY Numbers DEF SemTypeOK, TypeOK
<1>2. CASE UNCHANGED semVars
  <2>1. Lost' = Lost
    BY <1>2 DEF semVars, mergeVars, vars, Lost, Bound, HeldBy, Leading, Fresh, Locked, HasResult
  <2>2. QED BY <1>2, <2>1 DEF semVars, mergeVars, vars
<1>3. CASE Elapse \/ \E h \in Groups : Expire(h)
  <2>1. /\ UNCHANGED <<at, sweep, key, pc, active, faults, losses>>
        /\ \A g \in Groups : lock'[g].left > 0 => lock[g].left > 0
        /\ \A g \in Groups : res'[g] > 0 => res[g] > 0
    BY <1>3, SemNames DEF Elapse, Tick, Older, Absent, HasResult, Expire, vars, mergeVars,
                          SemTypeOK, TypeOK
  <2>2. \A g \in Groups : Bound(g) => Bound(g)'
    BY <2>1 DEF Bound, HeldBy, Leading, Fresh, Locked, HasResult
  <2>3. Lost' \subseteq Lost
    BY <2>1, <2>2 DEF Lost, SemTypeOK
  <2>4. Cardinality(Lost') \in Nat /\ Cardinality(Lost') <= Cardinality(Lost)
    BY <1>0, <2>3, SubsetCount
  <2>5. QED BY <1>0, <1>1, <2>1, <2>4
<1>4. ASSUME NEW r \in Requests, Step(r) PROVE LostCounted'
  <2>1. \A g \in Groups : g \in active' /\ g \notin active => Bound(g)'
    BY <1>4 DEF Step, List, Look, LookFails, Sweep, Found, SetVec, MergeStep, LeaderDone,
                EndsEarly, DelVec, SRem, DiesLeading, Move, Bound, HeldBy, SemTypeOK
  <2>2. active' \subseteq Groups
    BY <1>4, StepMergeType DEF MergeTypeOK
  <2>3. Lost' \subseteq Lost \cup {Victim(r)}
    BY <1>4, <2>1, <2>2, StepBound DEF Lost
  <2>4. \/ faults' + losses' = faults + losses
        \/ faults' + losses' = faults + losses + 1
    <3> USE <1>1 DEF Loss, vars
    <3>1. CASE List(r) \/ Look(r) \/ LookFails(r) \/ Sweep(r) \/ Found(r) \/ SetVec(r)
      BY <3>1 DEF List, Alone, Look, Arrive, LookFails, Sweep, Found, SetVec
    <3>2. CASE MergeStep(r) \/ LeaderDone(r) \/ EndsEarly(r)
      BY <3>2 DEF MergeStep, GetResult, SetNX, SetResult, Poll, LeaderDone, DelLock, EndsEarly,
                  Cut, LoseReply
    <3>3. CASE DelVec(r) \/ SRem(r) \/ DiesLeading(r)
      BY <3>3 DEF DelVec, SRem, DiesLeading
    <3>4. QED BY <1>4, <3>1, <3>2, <3>3 DEF Step
  <2>5. CASE faults' + losses' = faults + losses
    <3>1. Lost' \subseteq Lost
      BY <1>4, <2>1, <2>2, <2>5, StepBound DEF Lost
    <3>2. Cardinality(Lost') \in Nat /\ Cardinality(Lost') <= Cardinality(Lost)
      BY <1>0, <3>1, SubsetCount
    <3>3. QED BY <1>0, <1>1, <2>5, <3>2
  <2>6. CASE faults' + losses' = faults + losses + 1
    <3>1. Cardinality(Lost') \in Nat /\ Cardinality(Lost') <= Cardinality(Lost) + 1
      BY <1>0, <2>3, OneMoreCount
    <3>2. QED BY <1>0, <1>1, <2>6, <3>1
  <2>7. QED BY <2>4, <2>5, <2>6
<1>5. QED BY <1>2, <1>3, <1>4 DEF SemNext, Step

LEMMA Leaks == ASSUME SemTypeOK, LostCounted PROVE LeaksNeedFaults
<1> DEFINE Unattended == {g \in active \ Dead : ~Attended(g)}
<1>1. Unattended \subseteq Lost
  BY DEF Lost, Bound, HeldBy, Fresh, Attended
<1>2. IsFiniteSet(Unattended) /\ Cardinality(Unattended) <= Cardinality(Lost)
  BY <1>1, FiniteLost, FS_Subset
<1>3. Cardinality(Unattended) \in Nat /\ Cardinality(Lost) \in Nat
  BY <1>2, FiniteLost, FS_CardinalityType
<1>4. faults \in Nat /\ losses \in Nat
  BY Numbers DEF SemTypeOK, TypeOK
<1>5. QED BY <1>2, <1>3, <1>4 DEF LeaksNeedFaults, LostCounted

\* However many requests come and go, no more ids are left in the list than there
\* were failures.
THEOREM LeaksBounded == SemSpec => []LeaksNeedFaults
<1>1. SemInit => UnusedBefore /\ LostCounted
  <2> SUFFICES ASSUME SemInit PROVE UnusedBefore /\ LostCounted
    OBVIOUS
  <2>1. UnusedBefore
    BY SemNames DEF SemInit, Init, UnusedBefore, Unused, Locked, HasResult, Absent
  <2>2. Lost = {}
    BY DEF SemInit, Lost
  <2>3. QED BY <2>1, <2>2, FS_EmptySet DEF SemInit, Init, LostCounted
<1>2. SemTypeOK /\ Places /\ UnusedBefore /\ LostCounted /\ [SemNext]_semVars
        => UnusedBefore' /\ LostCounted'
  BY NextUnused, NextLost
<1>3. SemTypeOK /\ LostCounted => LeaksNeedFaults
  BY Leaks
<1>4. QED BY <1>1, <1>2, <1>3, SemTyped, PTL DEF SemSpec
=============================================================================
