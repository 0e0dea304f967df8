---------------------------- MODULE SemanticRedis ----------------------------
(***************************************************************************)
(* coalesce.SemanticRedis (internal/coalesce/semantic_redis.go): requests  *)
(* of one scope with similar embeddings share a group, whose id is the     *)
(* merge key for CoalesceRedis.  The ids of the groups are listed in a     *)
(* Redis set; each group has its vector under a key of its own.            *)
(*                                                                         *)
(* The search for a group, the two commands that make one and the two that *)
(* remove it are separate steps, and those of other requests fall between  *)
(* them.  A group is named by the request that made it.                    *)
(*                                                                         *)
(* The deployment merges by text or by meaning.                            *)
(***************************************************************************)
EXTENDS CoalesceRedis, FiniteSets

CONSTANTS TextKey,     \* the key of all requests, merged by text
          Dead,        \* ids left in the list by gateways that died long ago
          Near,        \* the pairs of requests whose embeddings are similar
          MaxActive    \* semantic.redis_max_active

ASSUME SemanticAssumption ==
  /\ Keys = Requests \cup Dead \cup {TextKey}
  /\ Requests \cap Dead = {} /\ TextKey \notin Requests \cup Dead
  /\ IsFiniteSet(Requests)
  /\ MaxActive \in Nat

VARIABLES at,      \* per request: where in Merge it is, "text" if merged by text
          todo,    \* per request: listed ids it has still to look at
          sweep,   \* per request: the group it is about to remove
          active,  \* the list of ids
          vec,     \* the groups that have a vector
          losses   \* failures that end no request; with faults bounded by MaxFaults

\* For the properties; no action reads it.
VARIABLE steady  \* per request that searches: groups there since its search began

mergeVars == <<at, todo, sweep, active, vec, losses>>
semVars == <<vars, mergeVars, steady>>

Groups == Requests \cup Dead

Similar(q, r) == q = r \/ {q, r} \in Near

SemInit ==
  /\ Init
  /\ \/ /\ key = [r \in Requests |-> TextKey]
        /\ at = [r \in Requests |-> "text"]
        /\ active = {}
     \/ /\ key = [r \in Requests |-> Nobody]
        /\ at = [r \in Requests |-> "list"]
        /\ active = Dead
  /\ todo = [r \in Requests |-> {}]
  /\ sweep = [r \in Requests |-> Nobody]
  /\ vec = {}
  /\ losses = 0
  /\ steady = [r \in Requests |-> {}]

Move(r, label) == at' = [at EXCEPT ![r] = label]

\* The search ends.
StopSearch(r) ==
  /\ todo' = [todo EXCEPT ![r] = {}]
  /\ sweep' = [sweep EXCEPT ![r] = Nobody]

\* A command failed, and the code does not look.
Loss ==
  /\ faults + losses < MaxFaults
  /\ losses' = losses + 1

-----------------------------------------------------------------------------
(* Merge: find a group or make one *)

\* SMEMBERS.  With too many groups the request is not merged, and none of the
\* dead ids is removed.
List(r) ==
  /\ at[r] = "list" /\ pc[r] = "new"
  /\ \/ /\ Cardinality(active) >= MaxActive
        /\ Alone(r)
        /\ Move(r, "done")
        /\ UNCHANGED todo
     \/ /\ Cardinality(active) < MaxActive
        /\ todo' = [todo EXCEPT ![r] = active]
        /\ Move(r, "scan")
        /\ UNCHANGED vars
  /\ UNCHANGED <<sweep, active, vec, losses>>

Searching(r) == at[r] = "scan" /\ pc[r] = "new" /\ sweep[r] = Nobody

\* (variant) The search ends at the first group that has lost its vector.
LookNoFurther(r) ==
  /\ Searching(r)
  /\ UNCHANGED <<active, vec, losses>>
  /\ \E g \in todo[r] :
       \/ /\ g \in vec /\ Similar(r, g)
          /\ Arrive(r, g)
          /\ Move(r, "merge")
          /\ StopSearch(r)
       \/ /\ g \in vec /\ ~Similar(r, g)
          /\ todo' = [todo EXCEPT ![r] = @ \ {g}]
          /\ UNCHANGED <<vars, at, sweep>>
       \/ /\ g \notin vec
          /\ todo' = [todo EXCEPT ![r] = {}]
          /\ sweep' = [sweep EXCEPT ![r] = g]
          /\ UNCHANGED <<vars, at>>

\* GET of the next vector: a similar group is taken, a dissimilar one is passed
\* over, the id of a group without a vector will be removed.
Look(r) ==
  /\ Searching(r)
  /\ UNCHANGED <<active, vec, losses>>
  /\ \E g \in todo[r] :
       \/ /\ g \in vec /\ Similar(r, g)
          /\ Arrive(r, g)
          /\ Move(r, "merge")
          /\ StopSearch(r)
       \/ /\ g \in vec /\ ~Similar(r, g)
          /\ todo' = [todo EXCEPT ![r] = @ \ {g}]
          /\ UNCHANGED <<vars, at, sweep>>
       \/ /\ g \notin vec
          /\ todo' = [todo EXCEPT ![r] = @ \ {g}]
          /\ sweep' = [sweep EXCEPT ![r] = g]
          /\ UNCHANGED <<vars, at>>

\* The GET fails: the group is passed over.
LookFails(r) ==
  /\ Searching(r)
  /\ Loss
  /\ \E g \in todo[r] : todo' = [todo EXCEPT ![r] = @ \ {g}]
  /\ UNCHANGED <<vars, at, sweep, active, vec>>

\* SREM of an id without a vector.  Its group may have got one meanwhile.  If it
\* fails the search goes on all the same.
Sweep(r) ==
  /\ at[r] = "scan" /\ pc[r] = "new" /\ sweep[r] # Nobody
  /\ \/ active' = active \ {sweep[r]} /\ UNCHANGED losses
     \/ Loss /\ UNCHANGED active
  /\ sweep' = [sweep EXCEPT ![r] = Nobody]
  /\ UNCHANGED <<vars, at, todo, vec>>

\* No group was found: SADD of a new one, the first command of the pipeline.
Found(r) ==
  /\ Searching(r) /\ todo[r] = {}
  /\ active' = active \cup {r}
  /\ Move(r, "vec")
  /\ UNCHANGED <<vars, todo, sweep, vec, losses>>

\* SET of its vector, the second.
SetVec(r) ==
  /\ at[r] = "vec"
  /\ Arrive(r, r)
  /\ vec' = vec \cup {r}
  /\ Move(r, "merge")
  /\ UNCHANGED <<todo, sweep, active, losses>>

-----------------------------------------------------------------------------
(* Merge: share a run, and remove the group after it *)

\* doKeysWithRole up to the end of the pipeline, or of a wait.
MergeStep(r) ==
  /\ GetResult(r) \/ SetNX(r) \/ SetResult(r) \/ Poll(r)
  /\ Move(r, IF pc'[r] = "done" THEN "done" ELSE at[r])
  /\ UNCHANGED <<todo, sweep, active, vec, losses>>

\* A leader goes on to remove its group.
RemoveGroup(r) ==
  /\ at[r] = "merge" /\ Leading(r)
  /\ Move(r, "delvec")
  /\ sweep' = [sweep EXCEPT ![r] = key[r]]
  /\ UNCHANGED todo

\* The pipeline ends.
LeaderDone(r) ==
  /\ DelLock(r)
  /\ \/ RemoveGroup(r)
     \/ at[r] = "text" /\ Move(r, "done") /\ UNCHANGED <<todo, sweep>>
  /\ UNCHANGED <<active, vec, losses>>

\* The request ends early.  A leader whose pipeline fails removes the group, one
\* whose gateway dies does not.
EndsEarly(r) ==
  /\ faults + losses < MaxFaults
  /\ Cut(r) \/ LoseReply(r)
  /\ \/ RemoveGroup(r)
     \/ Move(r, "done") /\ StopSearch(r)
  /\ UNCHANGED <<active, vec, losses>>

\* DEL of the vector.
DelVec(r) ==
  /\ at[r] = "delvec"
  /\ \/ vec' = vec \ {sweep[r]} /\ UNCHANGED losses
     \/ Loss /\ UNCHANGED vec
  /\ Move(r, "srem")
  /\ UNCHANGED <<vars, todo, sweep, active>>

\* (variant) The id stays listed.
NoSRem(r) ==
  /\ at[r] = "srem"
  /\ Move(r, "done")
  /\ StopSearch(r)
  /\ UNCHANGED <<vars, active, vec, losses>>

\* SREM of the id.
SRem(r) ==
  /\ at[r] = "srem"
  /\ \/ active' = active \ {sweep[r]} /\ UNCHANGED losses
     \/ Loss /\ UNCHANGED active
  /\ Move(r, "done")
  /\ StopSearch(r)
  /\ UNCHANGED <<vars, vec>>

\* The gateway dies before the group is removed.
DiesLeading(r) ==
  /\ at[r] \in {"delvec", "srem"}
  /\ Loss
  /\ Move(r, "done")
  /\ StopSearch(r)
  /\ UNCHANGED <<vars, active, vec>>

-----------------------------------------------------------------------------

Standing == active \cap vec

\* What has been there throughout the search of each request.
Watch ==
  steady' = [r \in Requests |->
    IF at'[r] # "scan" THEN {}
    ELSE IF at[r] = "list" THEN Standing' ELSE steady[r] \cap Standing']

Elapse ==
  /\ Tick
  /\ UNCHANGED mergeVars

\* The TTL of a vector ends: it is longer than those of a lock and a result
\* together, but a request may stay at any step for longer still.
Expire(g) ==
  /\ g \in vec
  /\ vec' = vec \ {g}
  /\ UNCHANGED <<vars, at, todo, sweep, active, losses>>

SemNext ==
  /\ \/ Elapse
     \/ \E g \in Groups : Expire(g)
     \/ \E r \in Requests :
          \/ List(r) \/ Look(r) \/ LookFails(r) \/ Sweep(r) \/ Found(r) \/ SetVec(r)
          \/ MergeStep(r) \/ LeaderDone(r) \/ EndsEarly(r)
          \/ DelVec(r) \/ SRem(r) \/ DiesLeading(r)
  /\ Watch

SemSpec == SemInit /\ [][SemNext]_semVars

-----------------------------------------------------------------------------
(* Properties *)

\* Types; the inner protocol keeps its own.
SemTypeOK ==
  /\ TypeOK
  /\ at \in [Requests -> {"text", "list", "scan", "vec", "merge", "delvec", "srem", "done"}]
  /\ active \subseteq Groups
  /\ todo \in [Requests -> SUBSET Groups]
  /\ sweep \in [Requests -> Groups \cup {Nobody}]
  /\ vec \subseteq Groups
  /\ losses \in 0 .. MaxFaults
  /\ steady \in [Requests -> SUBSET Groups]

\* Somebody is still to remove the group, or to make it or lead it.
Attended(g) ==
  \E r \in Requests :
    \/ at[r] = "vec" /\ r = g
    \/ at[r] = "merge" /\ key[r] = g
    \/ at[r] \in {"delvec", "srem"} /\ sweep[r] = g

\* An id stays listed after its group is over only when something failed, one for
\* each failure: ids that nobody will remove fill the list up to MaxActive, where
\* merging stops for good (semantic_redis.go:72-75, 109-114).
LeaksNeedFaults == Cardinality({g \in active \ Dead : ~Attended(g)}) <= faults + losses

\* A request makes a group only if no similar group was listed with its vector all
\* the time it searched (semantic_redis.go:68-98).
FoundsOnlyIfNone ==
  [][\A r \in Requests :
       Found(r) => losses > 0 \/ \A g \in steady[r] : ~Similar(r, g)]_semVars
=============================================================================
