--------------------------- MODULE CoalesceProofs ---------------------------
(***************************************************************************)
(* Proofs about coalesce.Redis for any number of requests, keys and        *)
(* faults.  Exclusive alone is not inductive: it needs HoldsLock, which    *)
(* says that a leader's lock is still in Redis, because it was set when    *)
(* the run began and the run with its publication is over before LockTTL   *)
(* is.  At the end, the commands implement the merger of SharedRuns.       *)
(***************************************************************************)
EXTENDS CoalesceRedis, TLAPS

\* Nothing is timed but a run, its publication and a wait.
Rested == \A r \in Requests : ~Timed(r) => age[r] = 0

\* A leader is on time, and the lock of its key in Redis is its own.
HoldsLock ==
  \A r \in Requests : Leading(r) =>
    /\ lock[key[r]].by = r
    /\ lock[key[r]].left = LockTTL - age[r]
    /\ age[r] <= MergeTimeout + Stall

\* A request about to send SETNX that was not overtaken is right that there is
\* no result.
NotOvertaken ==
  \A r \in Requests : pc[r] = "setnx" /\ r \notin stale => ~HasResult(key[r])

\* What the configuration must satisfy (redis.go:18, COALESCE_DESIGN.md:40).
Timing == MergeTimeout + Stall < LockTTL

\* A result is not gone before its leader has finished.
Lasting == MergeTimeout + Stall < ResultTTL

LEMMA Numbers ==
  /\ MergeTimeout \in Nat \ {0} /\ LockTTL \in Nat \ {0} /\ ResultTTL \in Nat \ {0}
  /\ Stall \in Nat /\ Grace \in Nat /\ MaxFaults \in Nat
  /\ Nobody \notin Requests /\ Nobody \notin Keys
BY CoalesceAssumption

-----------------------------------------------------------------------------
(* Types *)

LEMMA InitType == Init => TypeOK
BY Numbers DEF Init, TypeOK, Absent

LEMMA NextType == ASSUME TypeOK, [Next]_vars PROVE TypeOK'
<1> USE Numbers DEF TypeOK, Goto, End
<1>1. CASE Tick
  <2>1. lock' \in [Keys -> [by : Requests \cup {Nobody}, left : 0 .. LockTTL]]
    BY <1>1 DEF Tick, Older, Absent
  <2>2. res' \in [Keys -> 0 .. ResultTTL]
    BY <1>1 DEF Tick, HasResult
  <2>3. age' \in [Requests -> 0 .. MergeTimeout + Stall + LockTTL + Grace + 1]
    BY <1>1 DEF Tick, Punctual, Timed, Late
  <2>4. QED BY <1>1, <2>1, <2>2, <2>3 DEF Tick
<1>2. ASSUME NEW r \in Requests, NEW k \in Keys, Arrive(r, k) PROVE TypeOK'
  BY <1>2 DEF Arrive
<1>3. ASSUME NEW r \in Requests, Alone(r) PROVE TypeOK'
  BY <1>3 DEF Alone
<1>4. ASSUME NEW r \in Requests, GetResult(r) PROVE TypeOK'
  BY <1>4 DEF GetResult
<1>5. ASSUME NEW r \in Requests, SetNX(r) PROVE TypeOK'
  BY <1>5 DEF SetNX, TakeLock
<1>6. ASSUME NEW r \in Requests, SetResult(r) PROVE TypeOK'
  BY <1>6 DEF SetResult, Overtaken
<1>7. ASSUME NEW r \in Requests, DelLock(r) PROVE TypeOK'
  BY <1>7 DEF DelLock, Absent
<1>8. ASSUME NEW r \in Requests, Poll(r) PROVE TypeOK'
  BY <1>8 DEF Poll
<1>9. ASSUME NEW r \in Requests, Cut(r) PROVE TypeOK'
  BY <1>9 DEF Cut
<1>10. ASSUME NEW r \in Requests, LoseReply(r) PROVE TypeOK'
  BY <1>10 DEF LoseReply, TakeLock
<1>11. CASE UNCHANGED vars
  BY <1>11 DEF vars
<1>12. QED
  BY <1>1, <1>2, <1>3, <1>4, <1>5, <1>6, <1>7, <1>8, <1>9, <1>10, <1>11 DEF Next

\* The keys and the requests keep their types, the TTLs and the ages their bounds.
THEOREM TypeCorrect == Spec => []TypeOK
BY InitType, NextType, PTL DEF Spec

LEMMA NextRested == ASSUME TypeOK, Rested, [Next]_vars PROVE Rested'
<1> USE Numbers DEF TypeOK, Rested, Timed, Goto, End
<1>1. CASE Tick
  BY <1>1 DEF Tick
<1>2. ASSUME NEW r \in Requests, NEW k \in Keys, Arrive(r, k) PROVE Rested'
  BY <1>2 DEF Arrive
<1>3. ASSUME NEW r \in Requests, Alone(r) \/ GetResult(r) \/ DelLock(r) \/ Poll(r)
      PROVE Rested'
  BY <1>3 DEF Alone, GetResult, DelLock, Poll
<1>4. ASSUME NEW r \in Requests, SetNX(r) \/ SetResult(r) PROVE Rested'
  BY <1>4 DEF SetNX, SetResult
<1>5. ASSUME NEW r \in Requests, Cut(r) \/ LoseReply(r) PROVE Rested'
  BY <1>5 DEF Cut, LoseReply
<1>6. CASE UNCHANGED vars
  BY <1>6 DEF vars
<1>7. QED BY <1>1, <1>2, <1>3, <1>4, <1>5, <1>6 DEF Next

-----------------------------------------------------------------------------
(* Runs exclude each other *)

\* While a request leads, the lock of its key is there.
LEMMA LeaderLocks ==
  ASSUME TypeOK, HoldsLock, Timing, NEW r \in Requests, Leading(r)
  PROVE  Locked(key[r])
BY Numbers DEF TypeOK, HoldsLock, Timing, Locked

\* A step that takes no lock, leaves every leader as it is and makes none keeps
\* the locks held.
LEMMA LeadersStay ==
  ASSUME TypeOK, HoldsLock, UNCHANGED lock,
         \A q \in Requests :
           Leading(q)' => Leading(q) /\ key'[q] = key[q] /\ age'[q] = age[q]
  PROVE  HoldsLock'
BY DEF HoldsLock

LEMMA NextHoldsLock ==
  ASSUME TypeOK, Rested, HoldsLock, Timing, [Next]_vars PROVE HoldsLock'
<1> USE Numbers DEF TypeOK, Goto, End, Leading
<1>1. CASE Tick
  <2> SUFFICES ASSUME NEW r \in Requests, Leading(r)'
               PROVE  /\ lock'[key'[r]].by = r
                      /\ lock'[key'[r]].left = LockTTL - age'[r]
                      /\ age'[r] <= MergeTimeout + Stall
    BY DEF HoldsLock
  <2>1. /\ Leading(r) /\ key'[r] = key[r] /\ key[r] \in Keys
        /\ age'[r] = age[r] + 1 /\ age[r] < MergeTimeout + Stall
    BY <1>1 DEF Tick, Timed, Punctual
  <2>2. lock[key[r]].left > 1
    BY <2>1 DEF HoldsLock, Timing
  <2>3. lock'[key[r]] = [by |-> lock[key[r]].by, left |-> lock[key[r]].left - 1]
    BY <1>1, <2>1, <2>2 DEF Tick, Older
  <2>4. QED BY <2>1, <2>3 DEF HoldsLock
<1>2. ASSUME NEW r \in Requests, NEW k \in Keys, Arrive(r, k) PROVE HoldsLock'
  BY <1>2, LeadersStay DEF Arrive
<1>3. ASSUME NEW r \in Requests, Alone(r) \/ GetResult(r) \/ Poll(r) \/ Cut(r)
      PROVE HoldsLock'
  BY <1>3, LeadersStay DEF Alone, GetResult, Poll, Cut
<1>4. ASSUME NEW r \in Requests, SetNX(r) PROVE HoldsLock'
  <2>1. CASE ~Locked(key[r])
    \* the lock is free, so nobody leads with this key, and r takes it
    <3>1. \A q \in Requests : Leading(q) => key[q] # key[r]
      BY <2>1, LeaderLocks
    <3>2. /\ lock' = [lock EXCEPT ![key[r]] = [by |-> r, left |-> LockTTL]]
          /\ key' = key /\ age' = age /\ pc' = [pc EXCEPT ![r] = "run"]
          /\ age[r] = 0 /\ key[r] \in Keys
      BY <1>4, <2>1 DEF SetNX, TakeLock, Rested, Timed
    <3>3. QED BY <3>1, <3>2 DEF HoldsLock
  <2>2. CASE Locked(key[r])
    BY <1>4, <2>2, LeadersStay DEF SetNX
  <2>3. QED BY <2>1, <2>2
<1>5. ASSUME NEW r \in Requests, SetResult(r) PROVE HoldsLock'
  BY <1>5, LeadersStay DEF SetResult
<1>6. ASSUME NEW r \in Requests, DelLock(r) PROVE HoldsLock'
  \* the lock is r's own, so no other request leads with its key
  <2>1. \A q \in Requests : Leading(q)' => q # r /\ Leading(q)
    BY <1>6 DEF DelLock
  <2>2. \A q \in Requests : q # r /\ Leading(q) => key[q] # key[r]
    BY <1>6 DEF DelLock, HoldsLock
  <2>3. QED BY <1>6, <2>1, <2>2 DEF DelLock, HoldsLock
<1>7. ASSUME NEW r \in Requests, LoseReply(r) PROVE HoldsLock'
  <2>1. \A q \in Requests : Leading(q)' => q # r /\ Leading(q)
    BY <1>7 DEF LoseReply
  <2>2. \A q \in Requests : Leading(q) => key[q] # key[r]
    BY <1>7, LeaderLocks DEF LoseReply
  <2>3. QED BY <1>7, <2>1, <2>2 DEF LoseReply, TakeLock, HoldsLock
<1>8. CASE UNCHANGED vars
  BY <1>8 DEF vars, HoldsLock
<1>9. QED BY <1>1, <1>2, <1>3, <1>4, <1>5, <1>6, <1>7, <1>8 DEF Next

LEMMA LocksHeld == ASSUME Timing PROVE Spec => [](TypeOK /\ Rested /\ HoldsLock)
<1>1. Init => Rested /\ HoldsLock
  BY DEF Init, Rested, HoldsLock, Leading
<1>2. TypeOK /\ Rested /\ HoldsLock /\ [Next]_vars => Rested' /\ HoldsLock'
  BY NextRested, NextHoldsLock, Timing
<1>3. QED BY <1>1, TypeCorrect, <1>2, PTL DEF Spec

\* Runs of one key never overlap, however many gateways, requests, keys and
\* faults, when the lock's TTL exceeds a run with its publication.
THEOREM Exclusion == ASSUME Timing PROVE Spec => []Exclusive
<1>1. HoldsLock => Exclusive
  BY DEF HoldsLock, Exclusive
<1>2. QED BY LocksHeld, Timing, <1>1, PTL

\* A leader deletes no lock but its own.
THEOREM OwnUnlock == ASSUME Timing PROVE Spec => UnlocksOwn
<1>1. HoldsLock => [\A r \in Requests : DelLock(r) => lock[key[r]].by = r]_vars
  BY DEF HoldsLock, Leading, DelLock
<1>2. QED BY LocksHeld, Timing, <1>1, PTL DEF UnlocksOwn

-----------------------------------------------------------------------------
(* A second run is made only by a request that was overtaken *)

LEMMA NextNotOvertaken ==
  ASSUME TypeOK, NotOvertaken, [Next]_vars PROVE NotOvertaken'
<1> USE Numbers DEF TypeOK, NotOvertaken, HasResult, Goto, End
<1>1. CASE Tick
  BY <1>1 DEF Tick
<1>2. ASSUME NEW r \in Requests, NEW k \in Keys, Arrive(r, k) PROVE NotOvertaken'
  BY <1>2 DEF Arrive
<1>3. ASSUME NEW r \in Requests, Alone(r) \/ DelLock(r) \/ Poll(r) PROVE NotOvertaken'
  BY <1>3 DEF Alone, DelLock, Poll
<1>4. ASSUME NEW r \in Requests, GetResult(r) PROVE NotOvertaken'
  BY <1>4 DEF GetResult
<1>5. ASSUME NEW r \in Requests, SetNX(r) PROVE NotOvertaken'
  BY <1>5 DEF SetNX
<1>6. ASSUME NEW r \in Requests, SetResult(r) PROVE NotOvertaken'
  BY <1>6 DEF SetResult, Overtaken
<1>7. ASSUME NEW r \in Requests, Cut(r) \/ LoseReply(r) PROVE NotOvertaken'
  BY <1>7 DEF Cut, LoseReply
<1>8. CASE UNCHANGED vars
  BY <1>8 DEF vars
<1>9. QED BY <1>1, <1>2, <1>3, <1>4, <1>5, <1>6, <1>7, <1>8 DEF Next

\* Under any timing, a request about to send SETNX that was not overtaken is right
\* that there is no result.
THEOREM Sharing == Spec => []NotOvertaken
<1>1. Init => NotOvertaken
  BY DEF Init, NotOvertaken
<1>2. QED BY <1>1, TypeCorrect, NextNotOvertaken, PTL DEF Spec

-----------------------------------------------------------------------------
(* Without faults nobody waits in vain *)

\* A lock that is there is the lock of a request that leads.
LocksLed ==
  faults = 0 =>
    \A k \in Keys : Locked(k) =>
      \E r \in Requests : Leading(r) /\ key[r] = k

\* What a leader has stored outlives its pipeline.
Published ==
  \A r \in Requests : pc[r] = "unlock" =>
    res[key[r]] >= ResultTTL - age[r] /\ age[r] <= MergeTimeout + Stall

\* A waiter waits for a run that began before it, or finds a result there.
WaitsForRun ==
  faults = 0 =>
    \A q \in Requests : pc[q] = "wait" =>
      /\ age[q] <= MergeTimeout + Stall
      /\ \/ HasResult(key[q])
         \/ \E r \in Requests :
              pc[r] = "run" /\ key[r] = key[q] /\ age[q] <= age[r]

LEMMA NextLocksLed ==
  ASSUME TypeOK, HoldsLock, Timing, LocksLed, [Next]_vars PROVE LocksLed'
<1> USE Numbers DEF TypeOK, Goto, End, Leading, Locked
<1>1. CASE Tick
  <2>1. \A k \in Keys : Locked(k)' => Locked(k)
    BY <1>1 DEF Tick, Older, Absent
  <2>2. QED BY <1>1, <2>1 DEF Tick, LocksLed
<1>2. ASSUME NEW r \in Requests, NEW k \in Keys, Arrive(r, k) PROVE LocksLed'
  BY <1>2 DEF Arrive, LocksLed
<1>3. ASSUME NEW r \in Requests, Alone(r) \/ GetResult(r) \/ Poll(r) PROVE LocksLed'
  BY <1>3 DEF Alone, GetResult, Poll, LocksLed
<1>4. ASSUME NEW r \in Requests, SetNX(r) PROVE LocksLed'
  <2>1. CASE ~Locked(key[r])
    <3>1. /\ lock' = [lock EXCEPT ![key[r]] = [by |-> r, left |-> LockTTL]]
          /\ key' = key /\ pc' = [pc EXCEPT ![r] = "run"] /\ faults' = faults
      BY <1>4, <2>1 DEF SetNX, TakeLock
    <3>2. Leading(r)' /\ key'[r] = key[r]
      BY <3>1
    <3>3. \A k \in Keys : k # key[r] => lock'[k] = lock[k]
      BY <3>1
    <3>4. \A q \in Requests : Leading(q) => Leading(q)' /\ key'[q] = key[q]
      BY <3>1
    <3>5. QED BY <3>1, <3>2, <3>3, <3>4 DEF LocksLed
  <2>2. CASE Locked(key[r])
    BY <1>4, <2>2 DEF SetNX, LocksLed
  <2>3. QED BY <2>1, <2>2
<1>5. ASSUME NEW r \in Requests, SetResult(r) PROVE LocksLed'
  BY <1>5 DEF SetResult, LocksLed
<1>6. ASSUME NEW r \in Requests, DelLock(r) PROVE LocksLed'
  <2>1. /\ key[r] \in Keys /\ lock' = [lock EXCEPT ![key[r]] = Absent]
        /\ faults' = faults
        /\ \A q \in Requests \ {r} : pc'[q] = pc[q] /\ key'[q] = key[q]
    BY <1>6 DEF DelLock
  <2>2. /\ lock'[key[r]].left = 0
        /\ \A k \in Keys : k # key[r] => lock'[k] = lock[k]
    BY <2>1 DEF Absent
  <2>3. \A q \in Requests \ {r} : Leading(q) => Leading(q)'
    BY <2>1
  <2>4. QED BY <2>1, <2>2, <2>3 DEF LocksLed
<1>7. ASSUME NEW r \in Requests, Cut(r) \/ LoseReply(r) PROVE LocksLed'
  BY <1>7 DEF Cut, LoseReply, LocksLed
<1>8. CASE UNCHANGED vars
  BY <1>8 DEF vars, LocksLed
<1>9. QED BY <1>1, <1>2, <1>3, <1>4, <1>5, <1>6, <1>7, <1>8 DEF Next

LEMMA NextPublished ==
  ASSUME TypeOK, HoldsLock, Published, [Next]_vars PROVE Published'
<1> USE Numbers DEF TypeOK, Goto, End, Published
<1>1. CASE Tick
  BY <1>1 DEF Tick, HasResult, Punctual, Timed
<1>2. ASSUME NEW r \in Requests, NEW k \in Keys, Arrive(r, k) PROVE Published'
  BY <1>2 DEF Arrive
<1>3. ASSUME NEW r \in Requests, Alone(r) \/ GetResult(r) \/ Poll(r) PROVE Published'
  BY <1>3 DEF Alone, GetResult, Poll
<1>4. ASSUME NEW r \in Requests, SetNX(r) PROVE Published'
  BY <1>4 DEF SetNX
<1>5. ASSUME NEW r \in Requests, SetResult(r) PROVE Published'
  BY <1>5 DEF SetResult, HoldsLock, Leading
<1>6. ASSUME NEW r \in Requests, DelLock(r) PROVE Published'
  BY <1>6 DEF DelLock
<1>7. ASSUME NEW r \in Requests, Cut(r) \/ LoseReply(r) PROVE Published'
  BY <1>7 DEF Cut, LoseReply
<1>8. CASE UNCHANGED vars
  BY <1>8 DEF vars
<1>9. QED BY <1>1, <1>2, <1>3, <1>4, <1>5, <1>6, <1>7, <1>8 DEF Next

LEMMA NextWaitsForRun ==
  ASSUME TypeOK, Rested, HoldsLock, LocksLed, Published, WaitsForRun, Lasting, [Next]_vars
  PROVE  WaitsForRun'
<1> USE Numbers DEF TypeOK, Goto, End, HasResult
<1>1. CASE Tick
  <2> SUFFICES ASSUME faults = 0, NEW q \in Requests, pc[q] = "wait"
               PROVE  /\ age'[q] <= MergeTimeout + Stall
                      /\ \E r \in Requests :
                           pc'[r] = "run" /\ key'[r] = key'[q] /\ age'[q] <= age'[r]
    BY <1>1 DEF Tick, WaitsForRun
  <2>1. PICK r \in Requests : pc[r] = "run" /\ key[r] = key[q] /\ age[q] <= age[r]
    BY <1>1 DEF Tick, Punctual, WaitsForRun
  <2>2. age'[q] = age[q] + 1 /\ age'[r] = age[r] + 1 /\ age[r] < MergeTimeout + Stall
    BY <1>1, <2>1 DEF Tick, Punctual, Timed
  <2>3. QED BY <1>1, <2>1, <2>2 DEF Tick
<1>2. ASSUME NEW r \in Requests, NEW k \in Keys, Arrive(r, k) PROVE WaitsForRun'
  BY <1>2 DEF Arrive, WaitsForRun
<1>3. ASSUME NEW r \in Requests, Alone(r) \/ GetResult(r) \/ Poll(r) \/ DelLock(r)
      PROVE WaitsForRun'
  BY <1>3 DEF Alone, GetResult, Poll, DelLock, WaitsForRun
<1>4. ASSUME NEW r \in Requests, SetNX(r) PROVE WaitsForRun'
  <2>1. CASE ~Locked(key[r])
    BY <1>4, <2>1 DEF SetNX, WaitsForRun
  <2>2. CASE Locked(key[r])
    <3> SUFFICES ASSUME faults = 0 PROVE WaitsForRun'
      BY <1>4 DEF SetNX, WaitsForRun
    <3>1. age[r] = 0 /\ pc' = [pc EXCEPT ![r] = "wait"]
      BY <1>4, <2>2 DEF SetNX, Rested, Timed
    <3>2. PICK l \in Requests : Leading(l) /\ key[l] = key[r]
      BY <1>4, <2>2 DEF SetNX, LocksLed
    <3>3. CASE pc[l] = "run"
      BY <1>4, <3>1, <3>2, <3>3 DEF SetNX, WaitsForRun
    <3>4. CASE pc[l] = "unlock"
      <4>1. res[key[r]] > 0
        BY <3>2, <3>4 DEF Published, Lasting
      <4>2. QED BY <1>4, <3>1, <4>1 DEF SetNX, WaitsForRun
    <3>5. QED BY <3>2, <3>3, <3>4 DEF Leading
  <2>3. QED BY <2>1, <2>2
<1>5. ASSUME NEW r \in Requests, SetResult(r) PROVE WaitsForRun'
  BY <1>5 DEF SetResult, WaitsForRun
<1>6. ASSUME NEW r \in Requests, Cut(r) \/ LoseReply(r) PROVE WaitsForRun'
  BY <1>6 DEF Cut, LoseReply, WaitsForRun
<1>7. CASE UNCHANGED vars
  BY <1>7 DEF vars, WaitsForRun
<1>8. QED BY <1>1, <1>2, <1>3, <1>4, <1>5, <1>6, <1>7 DEF Next

\* What is true of waiting when the lock and the result outlive a run with its
\* publication.
LEMMA WaitsHeld ==
  ASSUME Timing, Lasting PROVE Spec => [](LocksLed /\ Published /\ WaitsForRun)
<1> DEFINE IInv == TypeOK /\ Rested /\ HoldsLock /\ LocksLed /\ Published /\ WaitsForRun
<1>1. Init => LocksLed /\ Published /\ WaitsForRun
  BY Numbers DEF Init, LocksLed, Published, WaitsForRun, Locked, Absent
<1>2. IInv /\ [Next]_vars => LocksLed' /\ Published' /\ WaitsForRun'
  BY NextLocksLed, NextPublished, NextWaitsForRun, Timing, Lasting
<1>3. QED BY LocksHeld, Timing, <1>1, <1>2, PTL DEF Spec

\* Who gives up has waited longer than a run can take.
LEMMA LateNeedsFault ==
  ASSUME Timing, TypeOK, WaitsForRun, NEW r \in Requests, Poll(r), Late(r)
  PROVE  faults > 0
BY Numbers, Timing DEF Timing, TypeOK, WaitsForRun, Late, Poll

\* Without faults no waiter gives up, under the same condition.
THEOREM WaitersAnswered == ASSUME Timing, Lasting PROVE Spec => TimeoutNeedsFault
<1>1. TypeOK /\ WaitsForRun
        => [\A r \in Requests : Poll(r) /\ Late(r) => faults > 0]_vars
  BY LateNeedsFault, Timing
<1>2. QED BY WaitsHeld, TypeCorrect, Timing, Lasting, <1>1, PTL DEF TimeoutNeedsFault

-----------------------------------------------------------------------------
(* Redis keeps the promise of a merger *)

LEMMA StageOf ==
  ASSUME NEW r \in Requests
  PROVE  /\ Stage[r] = Promised(pc[r])
         /\ Want[r] = IF pc[r] = "unlock" THEN Nobody ELSE key[r]
BY DEF Stage, Want

LEMMA Promises ==
  /\ Promised("new") = "out" /\ Promised("get") = "asked" /\ Promised("setnx") = "asked"
  /\ Promised("wait") = "joined" /\ Promised("run") = "running"
  /\ Promised("unlock") = "over" /\ Promised("done") = "over"
BY DEF Promised

\* A request that goes from one command to another.
LEMMA Moves ==
  ASSUME TypeOK, NEW r \in Requests, NEW label, pc' = [pc EXCEPT ![r] = label]
  PROVE  Stage' = [Stage EXCEPT ![r] = Promised(label)]
BY DEF TypeOK, Stage

LEMMA WantStays ==
  ASSUME TypeOK, NEW r \in Requests, NEW label, pc' = [pc EXCEPT ![r] = label],
         key' = key, pc[r] # "unlock", label # "unlock"
  PROVE  Want' = Want
BY DEF TypeOK, Want

\* A request that ends, or has only the rest of its pipeline before it.
LEMMA Leaves ==
  ASSUME TypeOK, NEW r \in Requests,
         \/ pc' = [pc EXCEPT ![r] = "done"] /\ key' = [key EXCEPT ![r] = Nobody]
         \/ pc' = [pc EXCEPT ![r] = "unlock"] /\ key' = key
  PROVE  Shared!Leave({r})
<1>1. Stage' = [q \in Requests |-> IF q \in {r} THEN "over" ELSE Stage[q]]
  BY Promises DEF TypeOK, Stage
<1>2. Want' = [q \in Requests |-> IF q \in {r} THEN Nobody ELSE Want[q]]
  BY DEF TypeOK, Want
<1>3. QED BY <1>1, <1>2 DEF Shared!Leave

\* Every step is one of the promised ones, or none.
LEMMA StepShared ==
  ASSUME Timing, Lasting, TypeOK, HoldsLock, NotOvertaken, LocksLed, Published, WaitsForRun,
         [Next]_vars
  PROVE  [Shared!Next]_(Shared!vars)
<1> DEFINE Same(r, label) == {q \in Requests : Stage[q] = label /\ Want[q] = Want[r]}
<1>0. faults \in Nat /\ \A q \in Requests : key[q] = Nobody <=> pc[q] \in {"new", "done"}
  BY Numbers DEF TypeOK
<1>1. CASE Tick
  <2>1. UNCHANGED <<Stage, Want, stale, faults>>
    BY <1>1 DEF Tick, Stage, Want
  <2>2. Stored' \subseteq Stored
    BY <1>1, Numbers DEF Tick, Stored, HasResult, TypeOK
  <2>3. \A q \in Requests : Stage[q] = "joined" => Want[q] \notin Stored
    BY <1>1 DEF Tick, Punctual, Stage, Want, Stored, Promised
  <2>4. Shared!Forget
    BY <2>1, <2>2, <2>3 DEF Shared!Forget
  <2>5. QED BY <2>4 DEF Shared!Next
<1>2. ASSUME NEW r \in Requests, NEW k \in Keys, Arrive(r, k) PROVE Shared!Ask(r, k)
  <2>1. pc[r] = "new" /\ pc' = [pc EXCEPT ![r] = "get"] /\ key' = [key EXCEPT ![r] = k]
    BY <1>2 DEF Arrive, Goto
  <2>2. Stage[r] = "out" /\ Stage' = [Stage EXCEPT ![r] = "asked"]
    BY <2>1, Moves, StageOf, Promises
  <2>3. Want' = [Want EXCEPT ![r] = k]
    BY <2>1 DEF Want, TypeOK
  <2>4. Stored' = Stored
    BY <1>2 DEF Arrive, Stored, HasResult
  <2>5. QED BY <1>2, <2>2, <2>3, <2>4 DEF Arrive, Shared!Ask, Shared!Enter
<1>3. ASSUME NEW r \in Requests, Alone(r) PROVE Shared!GoAlone(r)
  <2>1. Stage[r] = "out"
    BY <1>3, StageOf, Promises DEF Alone
  <2>2. Shared!Leave({r})
    BY <1>3, Leaves DEF Alone, End, Goto
  <2>3. Stored' = Stored
    BY <1>3 DEF Alone, Stored, HasResult
  <2>4. QED BY <1>3, <2>1, <2>2, <2>3 DEF Alone, Shared!GoAlone
<1>4. ASSUME NEW r \in Requests, GetResult(r)
      PROVE  Shared!Get(r) \/ UNCHANGED Shared!vars
  <2>0. Stored' = Stored /\ Stage[r] = "asked" /\ Want[r] = key[r] /\ key[r] \in Keys
    BY <1>0, <1>4, StageOf, Promises DEF GetResult, Stored, HasResult, TypeOK
  <2>1. CASE HasResult(key[r])
    <3>1. Shared!Leave({r})
      BY <1>4, <2>1, Leaves DEF GetResult, End, Goto
    <3>2. Want[r] \in Stored
      BY <2>0, <2>1 DEF Stored
    <3>3. QED BY <1>4, <2>0, <3>1, <3>2 DEF GetResult, Shared!Get
  <2>2. CASE ~HasResult(key[r])
    <3>1. pc[r] = "get" /\ pc' = [pc EXCEPT ![r] = "setnx"] /\ key' = key
      BY <1>4, <2>2 DEF GetResult, Goto
    <3>2. Stage' = Stage
      BY <2>0, <3>1, Moves, Promises DEF Stage
    <3>3. Want' = Want
      BY <3>1, WantStays
    <3>4. QED BY <1>4, <2>0, <3>2, <3>3 DEF GetResult, Shared!vars
  <2>3. QED BY <2>1, <2>2
<1>5. ASSUME NEW r \in Requests, SetNX(r) PROVE Shared!Begin(r) \/ Shared!Join(r)
  <2>0. /\ pc[r] = "setnx" /\ key' = key /\ Stored' = Stored
        /\ Stage[r] = "asked" /\ Want[r] = key[r] /\ key[r] \in Keys
        /\ stale' = stale \ {r} /\ faults' = faults
    BY <1>0, <1>5, StageOf, Promises DEF SetNX, Stored, HasResult, TypeOK
  <2>1. CASE ~Locked(key[r])
    <3>1. pc' = [pc EXCEPT ![r] = "run"]
      BY <1>5, <2>1 DEF SetNX, Goto
    <3>2. Stage' = [Stage EXCEPT ![r] = "running"]
      BY <3>1, Moves, Promises
    <3>3. Want' = Want
      BY <2>0, <3>1, WantStays
    <3>4. ASSUME NEW q \in Requests, Stage[q] = "running" PROVE Want[q] # Want[r]
      <4>1. Leading(q) /\ Want[q] = key[q]
        BY <3>4, StageOf DEF Promised, Leading
      <4>2. QED BY <2>0, <2>1, <4>1, LeaderLocks
    <3>5. Want[r] \in Stored => r \in stale
      BY <2>0 DEF NotOvertaken, Stored
    <3>6. QED BY <2>0, <3>2, <3>3, <3>4, <3>5 DEF Shared!Begin, Shared!Enter, Shared!Same
  <2>2. CASE Locked(key[r])
    <3>1. pc' = [pc EXCEPT ![r] = "wait"]
      BY <1>5, <2>2 DEF SetNX, Goto
    <3>2. Stage' = [Stage EXCEPT ![r] = "joined"]
      BY <3>1, Moves, Promises
    <3>3. Want' = Want
      BY <2>0, <3>1, WantStays
    <3>4. ASSUME faults = 0 PROVE Same(r, "running") # {} \/ Want[r] \in Stored
      <4>1. PICK q \in Requests : Leading(q) /\ key[q] = key[r]
        BY <2>0, <2>2, <3>4 DEF LocksLed
      <4>2. CASE pc[q] = "run"
        BY <2>0, <4>1, <4>2, StageOf, Promises
      <4>3. CASE pc[q] = "unlock"
        <5>1. res[key[r]] > 0
          BY <2>0, <4>1, <4>3, Numbers DEF Published, Lasting, TypeOK
        <5>2. QED BY <2>0, <5>1 DEF Stored, HasResult
      <4>4. QED BY <4>1, <4>2, <4>3 DEF Leading
    <3>5. QED BY <1>0, <2>0, <3>2, <3>3, <3>4 DEF Shared!Join, Shared!Enter, Shared!Same
  <2>3. QED BY <2>1, <2>2
<1>6. ASSUME NEW r \in Requests, SetResult(r) PROVE Shared!Keep(r)
  <2>1. /\ Stage[r] = "running" /\ Want[r] = key[r] /\ key[r] \in Keys
    BY <1>0, <1>6, StageOf, Promises DEF SetResult, TypeOK
  <2>2. Shared!Leave({r})
    BY <1>6, Leaves DEF SetResult, Goto
  <2>3. Stored' = Stored \cup {Want[r]}
    BY <1>6, <2>1, Numbers DEF SetResult, Stored, HasResult, TypeOK
  <2>4. Overtaken(r) \subseteq Same(r, "asked")
    BY <2>1, StageOf, Promises DEF Overtaken
  <2>5. QED BY <1>6, <2>1, <2>2, <2>3, <2>4 DEF SetResult, Shared!Keep, Shared!Same
<1>7. ASSUME NEW r \in Requests, DelLock(r) PROVE UNCHANGED Shared!vars
  <2>1. /\ pc[r] = "unlock" /\ pc' = [pc EXCEPT ![r] = "done"]
        /\ key' = [key EXCEPT ![r] = Nobody]
    BY <1>7 DEF DelLock, End, Goto
  <2>2. Stage' = Stage /\ Want' = Want
    BY <2>1, Promises DEF Stage, Want, TypeOK
  <2>3. QED BY <1>7, <2>2 DEF DelLock, Shared!vars, Stored, HasResult
<1>8. ASSUME NEW r \in Requests, Poll(r) PROVE Shared!Get(r) \/ Shared!GiveUp(r)
  <2>1. /\ Stage[r] = "joined" /\ Want[r] = key[r] /\ key[r] \in Keys /\ Stored' = Stored
    BY <1>0, <1>8, StageOf, Promises DEF Poll, Stored, HasResult, TypeOK
  <2>2. Shared!Leave({r})
    BY <1>8, Leaves DEF Poll, End, Goto
  <2>3. faults > 0 \/ Want[r] \in Stored
    BY <1>8, <2>1, LateNeedsFault, Timing DEF Poll, Stored
  <2>4. QED BY <1>8, <2>1, <2>2, <2>3 DEF Poll, Shared!Get, Shared!GiveUp
<1>9. ASSUME NEW r \in Requests, Cut(r) \/ LoseReply(r) PROVE Shared!Fail(r)
  <2>1. Shared!Leave({r}) /\ Stored' = Stored
    BY <1>9, Leaves DEF Cut, LoseReply, End, Goto, Stored, HasResult
  <2>2. QED BY <1>9, <2>1 DEF Cut, LoseReply, Shared!Fail
<1>10. CASE UNCHANGED vars
  BY <1>10 DEF vars, Shared!vars, Stage, Want, Stored, HasResult
<1>11. QED
  BY <1>1, <1>2, <1>3, <1>4, <1>5, <1>6, <1>7, <1>8, <1>9, <1>10 DEF Next, Shared!Next

\* The commands that gateways send to Redis implement the merger that the requests
\* see, when the lock and the result outlive a run with its publication.
THEOREM RedisSharesRuns == ASSUME Timing, Lasting PROVE Spec => SharesRuns
<1>1. Init => Shared!Init
  <2> SUFFICES ASSUME Init PROVE Shared!Init
    OBVIOUS
  <2>1. Want = key /\ Want \in [Requests -> Keys \cup {Nobody}]
    BY DEF Init, Want
  <2>2. Stage = [r \in Requests |-> IF Want[r] = Nobody THEN "out" ELSE "asked"]
    BY <2>1, Promises DEF Init, Stage
  <2>3. Stored = {}
    BY DEF Init, Stored, HasResult
  <2>4. QED BY <2>1, <2>2, <2>3 DEF Init, Shared!Init
<1>2. TypeOK /\ HoldsLock /\ NotOvertaken /\ LocksLed /\ Published /\ WaitsForRun
        /\ [Next]_vars => [Shared!Next]_(Shared!vars)
  BY StepShared, Timing, Lasting
<1>3. QED
  BY <1>1, <1>2, TypeCorrect, LocksHeld, Sharing, WaitsHeld, Timing, Lasting, PTL
     DEF Spec, SharesRuns, Shared!Spec
=============================================================================
