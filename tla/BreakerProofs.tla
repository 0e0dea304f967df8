---------------------------- MODULE BreakerProofs ----------------------------
(***************************************************************************)
(* Proofs about the circuit breaker, for every number of calls, every      *)
(* configuration and every clock bound.  Inv is the inductive invariant:   *)
(* Timely ties the clock and the window to the calls that are running, and *)
(* Paid the windows to the failures counted and the calls still running:   *)
(* the properties do not mention these, and rest on them.                  *)
(***************************************************************************)
EXTENDS Breaker, FiniteSetTheorems, TLAPS

\* A running call was admitted no later than the last one, and the deadline
\* of a timed one is not over.
Timely ==
  \A c \in Calls : status[c] = "running" =>
    /\ began[c] <= lastAdmit
    /\ timed => now <= began[c] + OpTimeout

Running == {c \in Calls : status[c] = "running"}

\* The windows opened since the last admission have been paid for by calls
\* that no longer run, but for the failures counted before it.
Paid ==
  trips * MaxFailures + failures + Cardinality(Running)
    <= Cardinality(Calls) + MaxFailures - 1

\* While a window is set, every running call was admitted before it opened.
Stragglers ==
  openUntil # Zero =>
    \A c \in Calls : status[c] = "running" => began[c] + OpenFor <= openUntil

\* Only a success replaces the window of the last trip before it is over.
Unhealed == now < tripEnd /\ ~healed => openUntil = tripEnd

Inv ==
  /\ TypeOK
  /\ failures <= streak
  /\ lastAdmit <= now
  /\ Timely
  /\ OutageBounded
  /\ Stragglers
  /\ Unhealed
  /\ Paid

LEMMA ConfigType ==
  /\ MaxFailures \in Nat \ {0}
  /\ OpenFor \in Nat \ {0}
  /\ OpTimeout \in Nat \ {0}
BY ConfigAssumption DEF MaxFailures, OpenFor

\* The running calls are finitely many of the calls.
LEMMA RunningType ==
  /\ IsFiniteSet(Running)
  /\ Cardinality(Running) \in Nat
  /\ Cardinality(Calls) \in Nat
  /\ Cardinality(Running) <= Cardinality(Calls)
<1>1. Running \subseteq Calls /\ IsFiniteSet(Calls)
  BY ConfigAssumption DEF Running
<1>2. QED BY <1>1, FS_Subset, FS_CardinalityType

\* A call that reports is one fewer running.
LEMMA Reported ==
  ASSUME TypeOK, NEW c \in Calls, status[c] = "running",
         status' = [status EXCEPT ![c] = "idle"]
  PROVE  Cardinality(Running)' = Cardinality(Running) - 1
<1>1. Running' = Running \ {c} /\ c \in Running
  BY DEF TypeOK, Running
<1>2. QED BY <1>1, RunningType, FS_RemoveElement

\* One more window costs MaxFailures more.
LEMMA OneMore ==
  ASSUME NEW t \in Nat, NEW m \in Nat
  PROVE  /\ (t + 1) * m = t * m + m
         /\ t * m \in Nat
OBVIOUS

LEMMA InitInv == Init => Inv
<1> SUFFICES ASSUME Init PROVE Inv
  OBVIOUS
<1> USE DEF Init, Zero
<1>1. failures \in 0 .. MaxFailures - 1
  BY ConfigType
<1>2. TypeOK
  <2>1. status \in [Calls -> {"idle", "running"}] /\ began \in [Calls -> Nat]
    OBVIOUS
  <2>2. now \in Nat \ {0} /\ openUntil \in Nat /\ streak \in Nat
    OBVIOUS
  <2>3. lastAdmit \in Nat /\ tripEnd \in Nat /\ trips \in Nat /\ timed \in BOOLEAN
    OBVIOUS
  <2>4. healed \in BOOLEAN /\ probes \subseteq Calls
    OBVIOUS
  <2>5. QED BY <1>1, <2>1, <2>2, <2>3, <2>4, Zenon DEF TypeOK
<1>3. failures <= streak /\ lastAdmit <= now /\ OutageBounded
  BY ConfigType DEF OutageBounded
<1>4. Timely /\ Stragglers /\ Unhealed
  BY DEF Timely, Stragglers, Unhealed
<1>5. Paid
  <2>1. Running = {}
    BY DEF Running
  <2>2. Cardinality(Running) = 0 /\ trips * MaxFailures = 0
    BY <2>1, FS_EmptySet, ConfigType
  <2>3. QED BY <2>2, ConfigType, RunningType DEF Paid
<1>6. QED BY <1>2, <1>3, <1>4, <1>5 DEF Inv

LEMMA AdmitInv == ASSUME Inv, NEW c \in Calls, Admit(c) PROVE Inv'
<1> USE ConfigType DEF Inv, Zero
<1>1. TypeOK'
  BY DEF Admit, TypeOK
<1>2. (failures <= streak)' /\ (lastAdmit <= now)'
  BY DEF Admit, TypeOK
<1>3. Timely'
  BY DEF Admit, TypeOK, Timely
<1>4. OutageBounded' /\ Stragglers'
  BY DEF Admit, TypeOK, OutageBounded, Stragglers
<1>5. Unhealed'
  BY DEF Admit, Expired, TypeOK, Unhealed
<1>6. Paid'
  \* nothing has been opened since this admission
  <2>1. trips' * MaxFailures = 0
    BY DEF Admit
  <2>2. failures' <= MaxFailures - 1 /\ failures' \in Nat
    BY <1>1 DEF TypeOK
  <2>3. Cardinality(Running') <= Cardinality(Calls) /\ Cardinality(Running') \in Nat
    <3>1. Running' \subseteq Calls /\ IsFiniteSet(Calls)
      BY ConfigAssumption DEF Running
    <3>2. QED BY <3>1, FS_Subset, FS_CardinalityType
  <2>4. QED BY <2>1, <2>2, <2>3, RunningType DEF Paid
<1>7. QED BY <1>1, <1>2, <1>3, <1>4, <1>5, <1>6

LEMMA SuccessInv == ASSUME Inv, NEW c \in Calls, Success(c) PROVE Inv'
<1>1. (TypeOK /\ failures <= streak /\ lastAdmit <= now)'
  BY ConfigType DEF Inv, Zero, Success, Close, TypeOK
<1>2. (Timely /\ OutageBounded /\ Stragglers /\ Unhealed)'
  BY ConfigType
     DEF Inv, Zero, Success, Close, TypeOK, Timely, OutageBounded, Stragglers, Unhealed
<1>3. Paid'
  <2>1. Cardinality(Running)' = Cardinality(Running) - 1
    BY Reported DEF Inv, Success
  <2>2. failures' = 0 /\ trips' = trips
    BY DEF Success, Close
  <2>3. trips * MaxFailures \in Nat /\ failures \in Nat
    BY OneMore, ConfigType DEF Inv, TypeOK
  <2>4. QED BY <2>1, <2>2, <2>3, RunningType, ConfigType DEF Inv, Paid
<1>4. QED BY <1>1, <1>2, <1>3 DEF Inv

LEMMA FailInv == ASSUME Inv, NEW c \in Calls, Fail(c) PROVE Inv'
<1> USE ConfigType DEF Inv, Zero
<1>1. TypeOK'
  <2>1. failures' \in 0 .. MaxFailures - 1
    BY DEF Fail, Trip, ThresholdReached, TypeOK
  <2>2. openUntil' \in Nat /\ tripEnd' \in Nat /\ streak' \in Nat
    BY DEF Fail, Trip, TypeOK
  <2>3. trips' \in Nat /\ probes' \subseteq Calls
    BY DEF Fail, TypeOK
  <2>4. healed' \in BOOLEAN
    BY Zenon DEF Fail, TypeOK
  <2>5. status' \in [Calls -> {"idle", "running"}]
    BY DEF Fail, TypeOK
  <2>6. UNCHANGED <<timed, now, began, lastAdmit>>
    BY DEF Fail
  <2>7. QED BY <2>1, <2>2, <2>3, <2>4, <2>5, <2>6 DEF TypeOK
<1>2. (failures <= streak)' /\ (lastAdmit <= now)'
  BY DEF Fail, Trip, TypeOK
<1>3. Timely'
  BY DEF Fail, TypeOK, Timely
<1>4. OutageBounded'
  \* the failing call was running, so now is within OpTimeout of its admission
  <2>1. timed => now <= lastAdmit + OpTimeout
    BY DEF Fail, TypeOK, Timely
  <2>2. QED BY <2>1 DEF Fail, Trip, TypeOK, OutageBounded
<1>5. Stragglers'
  <2>1. ASSUME NEW d \in Calls, status[d] = "running"
        PROVE  began[d] <= now
    BY <2>1 DEF TypeOK, Timely
  <2>2. QED BY <2>1 DEF Fail, Trip, TypeOK, Stragglers
<1>6. Unhealed'
  BY DEF Fail, Trip, TypeOK, Unhealed
<1>7. Paid'
  <2>1. Cardinality(Running)' = Cardinality(Running) - 1
    BY Reported DEF Fail
  <2>2. trips \in Nat /\ failures \in Nat
    BY DEF TypeOK
  <2>3. CASE ThresholdReached /\ Trip /\ trips' = trips + 1
    \* MaxFailures - 1 failures were counted and this call was running
    <3>1. trips' * MaxFailures = trips * MaxFailures + MaxFailures
      BY <2>3, <2>2, OneMore
    <3>2. trips * MaxFailures \in Nat
      BY <2>2, OneMore
    <3>3. QED BY <2>1, <2>2, <2>3, <3>1, <3>2, RunningType
              DEF Paid, ThresholdReached, Trip
  <2>4. CASE ~ThresholdReached /\ failures' = failures + 1 /\ trips' = trips
    <3>1. trips * MaxFailures \in Nat
      BY <2>2, OneMore
    <3>2. QED BY <2>1, <2>2, <2>4, <3>1, RunningType DEF Paid
  <2>5. QED BY <2>3, <2>4 DEF Fail
<1>8. QED BY <1>1, <1>2, <1>3, <1>4, <1>5, <1>6, <1>7

LEMMA TickInv == ASSUME Inv, Tick PROVE Inv'
BY ConfigType
   DEF Inv, Zero, Tick, WithinDeadline, code, callers, history, TypeOK, Timely,
       OutageBounded, Stragglers, Unhealed, Paid, Running

LEMMA StutterInv == ASSUME Inv, UNCHANGED vars PROVE Inv'
BY DEF Inv, vars, code, callers, history, TypeOK, Timely, OutageBounded, Stragglers,
       Unhealed, Paid, Running

LEMMA NextInv == ASSUME Inv, [Next]_vars PROVE Inv'
<1>1. CASE Tick
  BY <1>1, TickInv
<1>2. ASSUME NEW c \in Calls, Admit(c) PROVE Inv'
  BY <1>2, AdmitInv
<1>3. ASSUME NEW c \in Calls, Reject(c) PROVE Inv'
  BY <1>3, StutterInv DEF Reject
<1>4. ASSUME NEW c \in Calls, Success(c) PROVE Inv'
  BY <1>4, SuccessInv
<1>5. ASSUME NEW c \in Calls, Fail(c) PROVE Inv'
  BY <1>5, FailInv
<1>6. CASE UNCHANGED vars
  BY <1>6, StutterInv
<1>7. QED BY <1>1, <1>2, <1>3, <1>4, <1>5, <1>6 DEF Next

\* The invariant holds throughout every behaviour of the breaker.
THEOREM Invariance == Spec => []Inv
<1>1. Init => Inv
  BY InitInv
<1>2. Inv /\ [Next]_vars => Inv'
  BY NextInv
<1>3. QED BY <1>1, <1>2, PTL DEF Spec

\* The fields of the breaker keep their types; the counter stays below the
\* threshold (breaker.go:60-68).
THEOREM TypeCorrect == Spec => []TypeOK
<1>1. Inv => TypeOK
  BY DEF Inv
<1>2. QED BY Invariance, <1>1, PTL

\* With timed calls a window never outlasts the last admitted call by more
\* than OpTimeout + OpenFor: refused calls do not prolong it.
THEOREM BoundedOutage == Spec => []OutageBounded
<1>1. Inv => OutageBounded
  BY DEF Inv
<1>2. QED BY Invariance, <1>1, PTL

\* With timed calls, and a timeout below the window's length, no call from
\* before the window is running when the window is over.
THEOREM NoStragglers == Spec => []ExpiredWindowHasNoStragglers
<1>1. Inv => ExpiredWindowHasNoStragglers
  <2> SUFFICES ASSUME Inv, timed, OpTimeout < OpenFor, Expired, NEW c \in Calls
               PROVE  status[c] = "idle"
    BY DEF ExpiredWindowHasNoStragglers
  <2>1. ASSUME status[c] = "running" PROVE FALSE
    <3>1. began[c] + OpenFor <= openUntil /\ now <= began[c] + OpTimeout
      BY <2>1 DEF Inv, Stragglers, Timely, Expired
    <3>2. QED BY <3>1, ConfigType DEF Inv, TypeOK, Expired
  <2>2. QED BY <2>1 DEF Inv, TypeOK
<1>2. QED BY Invariance, <1>1, PTL

\* Every window is paid for by MaxFailures consecutive failures.
THEOREM TripsAreDue == Spec => TripNeedsConsecutiveFailures
<1>1. Inv /\ [Next]_vars
        => [openUntil' \notin {openUntil, Zero} => streak + 1 >= MaxFailures]_vars
  <2> SUFFICES ASSUME Inv, [Next]_vars, openUntil' \notin {openUntil, Zero}
               PROVE  streak + 1 >= MaxFailures
    OBVIOUS
  <2>1. PICK c \in Calls : Fail(c) /\ ThresholdReached
    BY DEF Next, Tick, Admit, Reject, Success, Fail, Close, vars, code
  <2>2. QED BY <2>1, ConfigType DEF Inv, TypeOK, ThresholdReached
<1>2. QED BY Invariance, <1>1, PTL DEF Spec, TripNeedsConsecutiveFailures

\* Between two admissions the stragglers open at most one window for every
\* MaxFailures of them, whatever the kind of call and however late they are.
THEOREM Paying == Spec => []TripsArePaid
<1>1. Inv => TripsArePaid
  <2> SUFFICES ASSUME Inv PROVE TripsArePaid
    OBVIOUS
  <2>1. trips * MaxFailures \in Nat /\ failures \in Nat
    BY OneMore, ConfigType DEF Inv, TypeOK
  <2>2. QED BY <2>1, RunningType, ConfigType DEF Inv, Paid, TripsArePaid
<1>2. QED BY Invariance, <1>1, PTL

\* No admission inside a window unless a straggler has reported a success.
THEOREM BrokenOnlyBySuccess == Spec => WindowBrokenOnlyBySuccess
<1>1. Inv => [\A c \in Calls : Admit(c) /\ now < tripEnd => healed]_vars
  BY DEF Inv, Unhealed, Admit, Expired, TypeOK, Zero
<1>2. QED BY Invariance, <1>1, PTL DEF WindowBrokenOnlyBySuccess
=============================================================================
