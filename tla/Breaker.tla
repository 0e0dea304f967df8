------------------------------- MODULE Breaker -------------------------------
(***************************************************************************)
(* The circuit breaker of internal/circuitbreaker and the three wrappers   *)
(* that share its call protocol (embedding.CircuitService,                 *)
(* vector.CircuitStore, downstream.breakerAnswerer): Allow, then the       *)
(* wrapped call without the breaker's mutex, then Success or Fail.         *)
(*                                                                         *)
(* Every method of the breaker runs under its mutex and is one step.  The  *)
(* wrapped call lies between two steps, so that calls admitted before a    *)
(* window opens report their outcome while it is open: the stragglers.     *)
(*                                                                         *)
(* The wrappers differ in how long the wrapped call may take.  Those of     *)
(* CircuitStore and breakerAnswerer end with their context's deadline.     *)
(* That of embedding.CircuitService does not: Client.roundTrip waits for   *)
(* the client's mutex and dials without looking at its context, so such a  *)
(* straggler may report at any time.  timed says which kind it is.         *)
(*                                                                         *)
(* Time is a natural number of ticks, starting at 1, so that Zero stands   *)
(* for Go's zero time.Time.                                                *)
(***************************************************************************)
EXTENDS Integers, FiniteSets

CONSTANTS Calls,             \* slots for concurrent calls through one breaker
          FailureThreshold,  \* circuit_breaker.failure_threshold
          OpenSeconds,       \* circuit_breaker.open_seconds
          OpTimeout,         \* limit of one timed call (OpTimeout, Client.Timeout), in ticks
          Horizon            \* bound of the clock, for TLC

ASSUME ConfigAssumption ==
  /\ IsFiniteSet(Calls)
  /\ FailureThreshold \in Int
  /\ OpenSeconds \in Int
  /\ OpTimeout \in Nat \ {0}
  /\ Horizon \in Nat

Zero == 0

\* New's defaults.
MaxFailures == IF FailureThreshold <= 0 THEN 5 ELSE FailureThreshold

OpenFor == IF OpenSeconds <= 0 THEN 30 ELSE OpenSeconds

VARIABLES timed,      \* the wrapped calls end with their deadline; never changes
          failures,   \* Breaker.failures
          openUntil,  \* Breaker.openUntil
          now,        \* the clock
          status,     \* per call: "idle" or "running" inside the wrapped call
          began       \* per call: when it was admitted

\* What happened, for the properties; no action reads it.
VARIABLES streak,     \* failures reported since the last success or trip
          lastAdmit,  \* when the last call was admitted
          tripEnd,    \* end of the last window that opened
          trips,      \* windows opened since the last call was admitted
          healed,     \* a success was reported since the last trip
          probes      \* running calls whose admission ended a window

code == <<failures, openUntil>>
callers == <<status, began>>
history == <<streak, lastAdmit, tripEnd, trips, healed, probes>>
vars == <<timed, code, now, callers, history>>

-----------------------------------------------------------------------------

Init ==
  /\ timed \in BOOLEAN
  /\ failures = 0
  /\ openUntil = Zero
  /\ now = 1
  /\ status = [c \in Calls |-> "idle"]
  /\ began = [c \in Calls |-> 0]
  /\ streak = 0
  /\ lastAdmit = 0
  /\ tripEnd = Zero
  /\ trips = 0
  /\ healed = FALSE
  /\ probes = {}

\* (variant) Allow ends the window a tick early.
ExpiredEarly == openUntil # Zero /\ now + 1 >= openUntil

\* Allow's test of the window.
Expired == openUntil # Zero /\ now >= openUntil

\* (variant) Fail compares with > instead of >=.
OverThreshold == failures + 1 > MaxFailures

\* Fail's test of the counter it has just incremented.
ThresholdReached == failures + 1 >= MaxFailures

\* (variant) Success closes the breaker and keeps the failures.
CloseOnly == openUntil' = Zero /\ UNCHANGED failures

\* What Success does to the breaker.
Close == openUntil' = Zero /\ failures' = 0

\* (variants) Fail adds the new window to the one that is set; Fail does not
\* start to count again.
TripOn ==
  /\ openUntil' = (IF openUntil = Zero THEN now ELSE openUntil) + OpenFor
  /\ failures' = 0

TripOnly == openUntil' = now + OpenFor /\ UNCHANGED failures

\* What Fail does to the breaker at the threshold.
Trip == openUntil' = now + OpenFor /\ failures' = 0

\* A timed call runs under a context with timeout OpTimeout and has returned
\* when that is over: an HTTP request of CircuitStore or of the downstream
\* client.  A call of the embedding client may outlast its deadline.
WithinDeadline ==
  timed => \A c \in Calls : status[c] = "running" => now < began[c] + OpTimeout

\* Allow answers true: at once when closed, and when the window is over, which
\* also closes the breaker and forgets the failures.  The call then starts.
Admit(c) ==
  /\ status[c] = "idle"
  /\ openUntil = Zero \/ Expired
  /\ openUntil' = Zero
  /\ failures' = IF Expired THEN 0 ELSE failures
  /\ status' = [status EXCEPT ![c] = "running"]
  /\ began' = [began EXCEPT ![c] = now]
  /\ lastAdmit' = now
  /\ trips' = 0
  /\ probes' = IF Expired THEN probes \cup {c} ELSE probes
  /\ UNCHANGED <<timed, now, streak, tripEnd, healed>>

\* Allow answers false inside the window: the caller gets ErrOpen, the wrapped
\* call is not made and no outcome is reported.
Reject(c) ==
  /\ status[c] = "idle"
  /\ openUntil # Zero
  /\ ~Expired
  /\ UNCHANGED vars

\* The wrapped call returned without error (a miss counts as a success).
Success(c) ==
  /\ status[c] = "running"
  /\ Close
  /\ status' = [status EXCEPT ![c] = "idle"]
  /\ streak' = 0
  /\ healed' = TRUE
  /\ probes' = probes \ {c}
  /\ UNCHANGED <<timed, now, began, lastAdmit, tripEnd, trips>>

\* The wrapped call returned an error, its timeout and the caller's
\* cancellation among them.
Fail(c) ==
  /\ status[c] = "running"
  /\ status' = [status EXCEPT ![c] = "idle"]
  /\ probes' = probes \ {c}
  /\ \/ /\ ThresholdReached
        /\ Trip
        /\ streak' = 0
        /\ tripEnd' = now + OpenFor
        /\ trips' = trips + 1
        /\ healed' = FALSE
     \/ /\ ~ThresholdReached
        /\ failures' = failures + 1
        /\ streak' = streak + 1
        /\ UNCHANGED <<openUntil, tripEnd, trips, healed>>
  /\ UNCHANGED <<timed, now, began, lastAdmit>>

\* Time passes.
Tick ==
  /\ now < Horizon
  /\ WithinDeadline
  /\ now' = now + 1
  /\ UNCHANGED <<timed, code, callers, history>>

Next ==
  \/ Tick
  \/ \E c \in Calls : Admit(c) \/ Reject(c) \/ Success(c) \/ Fail(c)

Spec == Init /\ [][Next]_vars

-----------------------------------------------------------------------------
(* Properties *)

\* The values the breaker's fields take; in particular the counter never
\* reaches the threshold, so a window always opens when it is due.
TypeOK ==
  /\ timed \in BOOLEAN
  /\ failures \in 0 .. MaxFailures - 1
  /\ openUntil \in Nat
  /\ now \in Nat \ {0}
  /\ status \in [Calls -> {"idle", "running"}]
  /\ began \in [Calls -> Nat]
  /\ streak \in Nat
  /\ lastAdmit \in Nat
  /\ tripEnd \in Nat
  /\ trips \in Nat
  /\ healed \in BOOLEAN
  /\ probes \subseteq Calls

\* A window opens (or is prolonged) only when MaxFailures failures in a row
\* were reported since the last success and since the last window opened:
\* Fail's counter never mixes in failures from before either (breaker.go:52-68).
TripNeedsConsecutiveFailures ==
  [][openUntil' \notin {openUntil, Zero} => streak + 1 >= MaxFailures]_vars

\* With timed calls the breaker cannot keep itself open: the window ends at
\* most OpTimeout + OpenFor after the last call that was let through, however
\* many stragglers fail late and however many calls are refused
\* (breaker.go:36-49, 60-68; circuit_store.go:35-39).
OutageBounded == timed => openUntil <= lastAdmit + OpTimeout + OpenFor

\* Stragglers prolong an outage only as often as they can pay for: between two
\* admissions every window costs MaxFailures of the calls that were running,
\* or one less with the failures counted before.  It holds however late they
\* report, as those of the embedding client may (breaker.go:60-68).
TripsArePaid == trips * MaxFailures <= Cardinality(Calls) + MaxFailures - 1

\* Inside a window a call is let through only after some straggler reported a
\* success: no other order of the three methods closes it early.
WindowBrokenOnlyBySuccess ==
  [][\A c \in Calls : Admit(c) /\ now < tripEnd => healed]_vars

\* When calls are timed and OpTimeout is shorter than the window, every call
\* from before the window has reported when it ends: the outcomes counted
\* after recovery are those of calls made after it (breaker.go:40-46).
ExpiredWindowHasNoStragglers ==
  timed /\ OpTimeout < OpenFor /\ Expired => \A c \in Calls : status[c] = "idle"

\* specs/architecture/SYS_ENG_01_BREAKER.md:13: the first call after the
\* window is a probe; if it fails the breaker opens again.
FailedProbeReopens ==
  [][\A c \in Calls : c \in probes /\ Fail(c) => openUntil' > now]_vars

=============================================================================
