---------------------------- MODULE CoalesceRedis ----------------------------
(***************************************************************************)
(* coalesce.Redis (internal/coalesce/redis.go): requests with one merge    *)
(* key, arriving at any gateways, share one downstream call through a lock *)
(* key and a result key in Redis, two for each merge key.  A request of    *)
(* the text merge comes with its key; one of the semantic merge            *)
(* (SemanticRedis) looks for a group, which is its key, before it gets     *)
(* here.                                                                   *)
(*                                                                         *)
(* Every Redis command is a step.  Between the GET of the result and the   *)
(* SETNX of the lock, and between a downstream answer and the commands     *)
(* that publish it, other requests take steps and time passes.             *)
(*                                                                         *)
(* Time is in ticks and has no beginning: the Redis keys carry the time    *)
(* they have left, a run and a wait the time they have taken.  A waiter    *)
(* polls many times in a tick (every 15 ms).                               *)
(***************************************************************************)
EXTENDS Integers

CONSTANTS Requests,      \* each made at most once
          Keys,          \* merge keys, or groups
          Nobody,        \* no request
          MergeTimeout,  \* limit of the downstream call
          Stall,         \* limit of the time from its return to the end of the pipeline
          LockTTL, ResultTTL,
          Grace,         \* what waitFollower adds to LockTTL
          MaxFaults      \* bound of the faults

ASSUME CoalesceAssumption ==
  /\ {MergeTimeout, LockTTL, ResultTTL} \subseteq Nat \ {0}
  /\ {Stall, Grace, MaxFaults} \subseteq Nat
  /\ Nobody \notin Requests \cup Keys

VARIABLES lock,   \* per key the lock: who set it (its value names nobody), its time left
          res,    \* per key the time the result has left
          key,    \* per request: its key, while it has one to use
          pc,     \* per request: what it does next
          age,    \* per request: for how long it has run or waited
          faults

\* For the properties; no action reads it.
VARIABLE stale  \* requests that read no result and have been overtaken by one

vars == <<lock, res, key, pc, age, faults, stale>>

\* A key in Redis exists until its TTL is over.
Locked(k) == lock[k].left > 0
HasResult(k) == res[k] > 0

Absent == [by |-> Nobody, left |-> 0]

Init ==
  /\ lock = [k \in Keys |-> Absent]
  /\ res = [k \in Keys |-> 0]
  /\ key \in [Requests -> Keys \cup {Nobody}]
  /\ pc = [r \in Requests |-> IF key[r] = Nobody THEN "new" ELSE "get"]
  /\ age = [r \in Requests |-> 0]
  /\ faults = 0
  /\ stale = {}

Goto(r, label) == pc' = [pc EXCEPT ![r] = label]

End(r) ==
  /\ Goto(r, "done")
  /\ key' = [key EXCEPT ![r] = Nobody]
  /\ age' = [age EXCEPT ![r] = 0]

-----------------------------------------------------------------------------

\* The semantic merge has found or made the group of the request.
Arrive(r, k) ==
  /\ pc[r] = "new"
  /\ key' = [key EXCEPT ![r] = k]
  /\ Goto(r, "get")
  /\ UNCHANGED <<lock, res, age, faults, stale>>

\* It has not, and runs fn by itself.
Alone(r) ==
  /\ pc[r] = "new"
  /\ End(r)
  /\ UNCHANGED <<lock, res, faults, stale>>

\* (variant) A result that is there already is not used.
GetNothing(r) ==
  /\ pc[r] = "get"
  /\ Goto(r, "setnx")
  /\ UNCHANGED <<lock, res, key, age, faults, stale>>

\* doKeysWithRole, GET of the result: a live result is the answer.
GetResult(r) ==
  /\ pc[r] = "get"
  /\ \/ /\ HasResult(key[r])
        /\ End(r)
     \/ /\ ~HasResult(key[r])
        /\ Goto(r, "setnx")
        /\ UNCHANGED <<key, age>>
  /\ UNCHANGED <<lock, res, faults, stale>>

TakeLock(r) == lock' = [lock EXCEPT ![key[r]] = [by |-> r, left |-> LockTTL]]

\* (variant) The lock is not tested.
SetNXAlways(r) ==
  /\ pc[r] = "setnx"
  /\ TakeLock(r)
  /\ Goto(r, "run")
  /\ stale' = stale \ {r}
  /\ UNCHANGED <<res, key, age, faults>>

\* doKeysWithRole, SETNX of the lock: the leader runs fn, the others wait.
SetNX(r) ==
  /\ pc[r] = "setnx"
  /\ \/ /\ ~Locked(key[r])
        /\ TakeLock(r)
        /\ Goto(r, "run")
     \/ /\ Locked(key[r])
        /\ Goto(r, "wait")
        /\ UNCHANGED lock
  /\ stale' = stale \ {r}
  /\ UNCHANGED <<res, key, age, faults>>

\* The requests that SetResult of r overtakes.
Overtaken(r) == {q \in Requests : pc[q] = "setnx" /\ key[q] = key[r]}

\* runLeader: fn has returned, with a text or an error, which are stored alike by
\* the first command of the pipeline.
SetResult(r) ==
  /\ pc[r] = "run"
  /\ res' = [res EXCEPT ![key[r]] = ResultTTL]
  /\ Goto(r, "unlock")
  /\ stale' = stale \cup Overtaken(r)
  /\ UNCHANGED <<lock, key, age, faults>>

\* The second one: DEL of the lock, whoever holds it by now.
DelLock(r) ==
  /\ pc[r] = "unlock"
  /\ lock' = [lock EXCEPT ![key[r]] = Absent]
  /\ End(r)
  /\ UNCHANGED <<res, faults, stale>>

\* (variant) A wait has no end but the result.
NeverLate(r) == age[r] < 0

\* (variant) A waiter gives up when the downstream call could be over.
ImpatientlyLate(r) == age[r] >= MergeTimeout

Late(r) == age[r] > LockTTL + Grace

\* waitFollower: one turn of the loop that ends it.  It looks at the clock
\* before it looks at the result, and never at the lock.
Poll(r) ==
  /\ pc[r] = "wait"
  /\ \/ Late(r) /\ End(r)
     \/ ~Late(r) /\ HasResult(key[r]) /\ End(r)
  /\ UNCHANGED <<lock, res, faults, stale>>

\* The request ends early: Redis fails its command or the rest of its pipeline,
\* the client of a waiter goes away, or its gateway dies.
Cut(r) ==
  /\ pc[r] # "done"
  /\ faults < MaxFaults
  /\ faults' = faults + 1
  /\ End(r)
  /\ stale' = stale \ {r}
  /\ UNCHANGED <<lock, res>>

\* The lock is taken and the reply to SETNX is lost.
LoseReply(r) ==
  /\ pc[r] = "setnx"
  /\ ~Locked(key[r])
  /\ faults < MaxFaults
  /\ faults' = faults + 1
  /\ TakeLock(r)
  /\ End(r)
  /\ stale' = stale \ {r}
  /\ UNCHANGED res

Timed(r) == pc[r] \in {"run", "unlock", "wait"}

\* fn runs under MergeTimeout, the pipeline that follows takes at most Stall, and
\* a waiter sees within the tick that a result is there.
Punctual(r) ==
  /\ pc[r] \in {"run", "unlock"} => age[r] < MergeTimeout + Stall
  /\ pc[r] = "wait" => ~Late(r) /\ ~HasResult(key[r])

\* One tick less to live; at the end Redis removes the key.
Older(entry) ==
  IF entry.left <= 1 THEN Absent ELSE [by |-> entry.by, left |-> entry.left - 1]

Tick ==
  /\ \A r \in Requests : Punctual(r)
  /\ lock' = [k \in Keys |-> Older(lock[k])]
  /\ res' = [k \in Keys |-> IF HasResult(k) THEN res[k] - 1 ELSE 0]
  /\ age' = [r \in Requests |-> IF Timed(r) THEN age[r] + 1 ELSE 0]
  /\ UNCHANGED <<key, pc, faults, stale>>

Next ==
  \/ Tick
  \/ \E r \in Requests :
       \/ \E k \in Keys : Arrive(r, k)
       \/ Alone(r)
       \/ GetResult(r) \/ SetNX(r) \/ SetResult(r) \/ DelLock(r)
       \/ Poll(r) \/ Cut(r) \/ LoseReply(r)

Spec == Init /\ [][Next]_vars

-----------------------------------------------------------------------------
(* Properties *)

\* The Redis keys have no more than their TTLs left, a run and a wait take no more
\* than their limits, and the rest has its shape.
TypeOK ==
  /\ lock \in [Keys -> [by : Requests \cup {Nobody}, left : 0 .. LockTTL]]
  /\ res \in [Keys -> 0 .. ResultTTL]
  /\ key \in [Requests -> Keys \cup {Nobody}]
  /\ pc \in [Requests -> {"new", "get", "setnx", "run", "unlock", "wait", "done"}]
  /\ \A r \in Requests : key[r] = Nobody <=> pc[r] \in {"new", "done"}
  /\ age \in [Requests -> 0 .. MergeTimeout + Stall + LockTTL + Grace + 1]
  /\ faults \in 0 .. MaxFaults
  /\ stale \subseteq Requests

Leading(r) == pc[r] \in {"run", "unlock"}

\* When LockTTL exceeds a run and its publication, runs of one key never
\* overlap, from SETNX to DEL, in whichever gateways they are (redis.go:78-104).
Exclusive ==
  \A q, r \in Requests : Leading(q) /\ Leading(r) /\ key[q] = key[r] => q = r

\* DEL takes away the leader's own lock, although nothing in the lock says whose
\* it is (redis.go:78, 103).
UnlocksOwn == [][\A r \in Requests : DelLock(r) => lock[key[r]].by = r]_vars

\* What a run has stored is its outcome; its pipeline goes on after that.
Promised(label) ==
  CASE label = "new" -> "out"
    [] label \in {"get", "setnx"} -> "asked"
    [] label = "wait" -> "joined"
    [] label = "run" -> "running"
    [] OTHER -> "over"

Stage == [r \in Requests |-> Promised(pc[r])]
Want == [r \in Requests |-> IF pc[r] = "unlock" THEN Nobody ELSE key[r]]
Stored == {k \in Keys : HasResult(k)}

Shared ==
  INSTANCE SharedRuns WITH stage <- Stage, want <- Want, kept <- Stored, early <- stale

\* The Redis commands of all gateways together keep the promise of a merger:
\* requests of one key share a run, one that arrives while a result is there gets
\* it, and a waiter has a run or a result to wait for (redis.go:49-134).
SharesRuns == Shared!Spec

\* A waiter gives up only if something failed: without faults the leader's
\* answer reaches every waiter before its deadline (redis.go:113-134).
TimeoutNeedsFault == [][\A r \in Requests : Poll(r) /\ Late(r) => faults > 0]_vars
=============================================================================
