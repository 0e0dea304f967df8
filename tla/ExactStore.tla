----------------------------- MODULE ExactStore -----------------------------
(***************************************************************************)
(* RedisExactStore (internal/rules/redis_store.go): the exact rules in     *)
(* Redis, changed by concurrent Create, Update and Delete calls of any     *)
(* gateway.  Redis runs one command at a time; a call is a series of       *)
(* commands, and a pipeline is no transaction: every command is a step and *)
(* the commands of other calls fall between them.                          *)
(*                                                                         *)
(* A key stands for a pair (scopeNorm, key), and idx[k] for its index      *)
(* entry.  idxHash keeps different pairs apart unless a scope contains a   *)
(* newline, which nothing excludes and this module leaves out.  A created  *)
(* rule gets a fresh uuid, which is the name of the call that creates it.  *)
(* A rule's answer text (DAT) is the name of the call that wrote it.       *)
(***************************************************************************)
EXTENDS Naturals, FiniteSets

CONSTANTS Ops,        \* the calls, each made at most once
          Keys,       \* pairs of scope and key
          Kinds,      \* the kinds of call that are made
          AdminMode,  \* how the administrators are coordinated, see MayEdit
          MaxErrors,  \* bound of the Create pipelines that report an error
          MaxAborts,  \* bound of the calls cut off by a crash or a lost connection
          Nobody, NoKey

ASSUME StoreAssumption ==
  /\ Kinds \subseteq {"create", "dat", "rekey", "delete"}
  /\ AdminMode \in {"any", "perRule", "serial"}
  /\ MaxErrors \in Nat
  /\ MaxAborts \in Nat
  /\ Nobody \notin Ops
  /\ NoKey \notin Keys

Rule == [key : Keys, dat : Ops]
NoRule == [key |-> NoKey, dat |-> Nobody]

VARIABLES rule,   \* rag:exact:rule:<id>: the rule stored under each id
          ids,    \* rag:exact:ids
          idx,    \* rag:exact:idx:<hash>: the id that holds each key
          pc,     \* per call: the command it sends next
          kind,   \* per call: what it does
          id,     \* per call: the rule it is about
          key,    \* per call: the key it asks for
          seen,   \* per call: the rule as GetByID returned it
          errors, aborts

\* The calls that were cut off or had a pipeline error.  For the properties; no
\* action reads it.
VARIABLE cut

store == <<rule, ids, idx>>
calls == <<pc, kind, id, key, seen>>
bounds == <<errors, aborts, cut>>
storeVars == <<store, calls, bounds>>

StoreInit ==
  /\ rule = [i \in Ops |-> NoRule]
  /\ ids = {}
  /\ idx = [k \in Keys |-> Nobody]
  /\ pc = [o \in Ops |-> "idle"]
  /\ kind = [o \in Ops |-> "none"]
  /\ id = [o \in Ops |-> o]
  /\ key = [o \in Ops |-> NoKey]
  /\ seen = [o \in Ops |-> NoRule]
  /\ errors = 0
  /\ aborts = 0
  /\ cut = {}

-----------------------------------------------------------------------------

Stored(i) == rule[i] # NoRule

InFlight(o) == pc[o] \notin {"idle", "done", "failed"}

\* The ids an administrator has seen: in a listing or in the answer to Create.
Known(i) == i \in ids \/ (kind[i] = "create" /\ pc[i] = "done")

AtRest == \A o \in Ops : ~InFlight(o)

\* The code has no lock between administrators.  "any" lets them do what they
\* like; the others are ways of working an operator can impose.  "serial": one
\* change at a time.  "perRule": one change at a time to each rule, and a key is
\* changed while nothing else is done.
MayCreate ==
  \/ AdminMode = "any"
  \/ AdminMode = "perRule" /\ \A p \in Ops : InFlight(p) => kind[p] # "rekey"
  \/ AtRest

MayEdit(what, i) ==
  \/ AdminMode = "any"
  \/ /\ AdminMode = "perRule"
     /\ what # "rekey"
     /\ \A p \in Ops : InFlight(p) => kind[p] # "rekey" /\ (kind[p] = "create" \/ id[p] # i)
  \/ AtRest

Goto(o, label) == pc' = [pc EXCEPT ![o] = label]

(* Create *)

BeginCreate(o, k) ==
  /\ "create" \in Kinds
  /\ pc[o] = "idle"
  /\ MayCreate
  /\ kind' = [kind EXCEPT ![o] = "create"]
  /\ key' = [key EXCEPT ![o] = k]
  /\ Goto(o, "setnx")
  /\ UNCHANGED <<store, id, seen, bounds>>

\* (variant) SET instead of SETNX.
ClaimAlways(o) ==
  /\ pc[o] = "setnx"
  /\ idx' = [idx EXCEPT ![key[o]] = o]
  /\ Goto(o, "set")
  /\ UNCHANGED <<rule, ids, kind, id, key, seen, bounds>>

\* SETNX of the index entry; ErrConflict when the key is taken.
Claim(o) ==
  /\ pc[o] = "setnx"
  /\ \/ /\ idx[key[o]] = Nobody
        /\ idx' = [idx EXCEPT ![key[o]] = o]
        /\ Goto(o, "set")
     \/ /\ idx[key[o]] # Nobody
        /\ UNCHANGED idx
        /\ Goto(o, "failed")
  /\ UNCHANGED <<rule, ids, kind, id, key, seen, bounds>>

SAdd(o) ==
  /\ pc[o] = "sadd"
  /\ ids' = ids \cup {id[o]}
  /\ Goto(o, "publish")
  /\ UNCHANGED <<rule, idx, kind, id, key, seen, bounds>>

\* The pipeline reports an error although a prefix of it was run (the prefix
\* ends before the command pc names): Create takes the index entry back.
CreateError(o) ==
  /\ kind[o] = "create"
  /\ pc[o] \in {"set", "sadd", "publish"}
  /\ errors < MaxErrors
  /\ errors' = errors + 1
  /\ cut' = cut \cup {o}
  /\ Goto(o, "undo")
  /\ UNCHANGED <<store, kind, id, key, seen, aborts>>

Undo(o) ==
  /\ pc[o] = "undo"
  /\ idx' = [idx EXCEPT ![key[o]] = Nobody]
  /\ Goto(o, "failed")
  /\ UNCHANGED <<rule, ids, kind, id, key, seen, bounds>>

(* Update and Delete *)

\* A patch of the text ("dat") or of the key ("rekey"), or a deletion.
BeginEdit(o, what, i, k) ==
  /\ what \in Kinds \ {"create"}
  /\ pc[o] = "idle"
  /\ Known(i)
  /\ MayEdit(what, i)
  /\ kind' = [kind EXCEPT ![o] = what]
  /\ id' = [id EXCEPT ![o] = i]
  /\ key' = [key EXCEPT ![o] = IF what = "rekey" THEN k ELSE NoKey]
  /\ Goto(o, "get")
  /\ UNCHANGED <<store, seen, bounds>>

\* Update moves the rule to another key.
Moves(o, old) == kind[o] = "rekey" /\ key[o] # old.key

\* (variant) A missing rule is not noticed.
ReadAnything(o) ==
  /\ pc[o] = "get"
  /\ seen' = [seen EXCEPT ![o] = rule[id[o]]]
  /\ Goto(o, IF kind[o] = "delete" THEN "del" ELSE IF Moves(o, rule[id[o]]) THEN "check" ELSE "set")
  /\ UNCHANGED <<store, kind, id, key, bounds>>

\* GetByID.
Read(o) ==
  /\ pc[o] = "get"
  /\ \/ /\ ~Stored(id[o])
        /\ Goto(o, "failed")
        /\ UNCHANGED seen
     \/ /\ Stored(id[o])
        /\ seen' = [seen EXCEPT ![o] = rule[id[o]]]
        /\ Goto(o, IF kind[o] = "delete" THEN "del"
                   ELSE IF Moves(o, rule[id[o]]) THEN "check" ELSE "set")
  /\ UNCHANGED <<store, kind, id, key, bounds>>

\* (variant) Update does not look at the new index entry.
CheckNothing(o) ==
  /\ pc[o] = "check"
  /\ Goto(o, "delold")
  /\ UNCHANGED <<store, kind, id, key, seen, bounds>>

\* GET of the new index entry; ErrConflict when another rule holds it.
Check(o) ==
  /\ pc[o] = "check"
  /\ Goto(o, IF idx[key[o]] \in {Nobody, id[o]} THEN "delold" ELSE "failed")
  /\ UNCHANGED <<store, kind, id, key, seen, bounds>>

DelOldIdx(o) ==
  /\ pc[o] = "delold"
  /\ idx' = [idx EXCEPT ![seen[o].key] = Nobody]
  /\ Goto(o, "setnew")
  /\ UNCHANGED <<rule, ids, kind, id, key, seen, bounds>>

SetNewIdx(o) ==
  /\ pc[o] = "setnew"
  /\ idx' = [idx EXCEPT ![key[o]] = id[o]]
  /\ Goto(o, "set")
  /\ UNCHANGED <<rule, ids, kind, id, key, seen, bounds>>

\* The rule a Create writes, or the one that was read merged with the patch.
Merged(o) ==
  CASE kind[o] = "create" -> [key |-> key[o], dat |-> o]
    [] kind[o] = "dat"    -> [seen[o] EXCEPT !.dat = o]
    [] kind[o] = "rekey"  -> [seen[o] EXCEPT !.key = key[o]]

SetRule(o) ==
  /\ pc[o] = "set"
  /\ rule' = [rule EXCEPT ![id[o]] = Merged(o)]
  /\ Goto(o, IF kind[o] = "create" THEN "sadd" ELSE "publish")
  /\ UNCHANGED <<ids, idx, kind, id, key, seen, bounds>>

DelRule(o) ==
  /\ pc[o] = "del"
  /\ rule' = [rule EXCEPT ![id[o]] = NoRule]
  /\ Goto(o, "srem")
  /\ UNCHANGED <<ids, idx, kind, id, key, seen, bounds>>

SRem(o) ==
  /\ pc[o] = "srem"
  /\ ids' = ids \ {id[o]}
  /\ Goto(o, "delidx")
  /\ UNCHANGED <<rule, idx, kind, id, key, seen, bounds>>

\* (variant) Delete leaves the index entry.
KeepIdx(o) ==
  /\ pc[o] = "delidx"
  /\ Goto(o, "publish")
  /\ UNCHANGED <<store, kind, id, key, seen, bounds>>

DelIdx(o) ==
  /\ pc[o] = "delidx"
  /\ idx' = [idx EXCEPT ![seen[o].key] = Nobody]
  /\ Goto(o, "publish")
  /\ UNCHANGED <<rule, ids, kind, id, key, seen, bounds>>

\* The last command of every pipeline.
Publish(o) ==
  /\ pc[o] = "publish"
  /\ Goto(o, "done")
  /\ UNCHANGED <<store, kind, id, key, seen, bounds>>

\* The call ends after any of its commands: the gateway crashed, or lost Redis
\* for good.  Nothing repairs what it leaves behind.
Abort(o) ==
  /\ InFlight(o)
  /\ aborts < MaxAborts
  /\ aborts' = aborts + 1
  /\ cut' = cut \cup {o}
  /\ Goto(o, "failed")
  /\ UNCHANGED <<store, kind, id, key, seen, errors>>

Begin(o) ==
  \/ \E k \in Keys : BeginCreate(o, k)
  \/ \E what \in {"dat", "rekey", "delete"}, i \in Ops, k \in Keys : BeginEdit(o, what, i, k)

\* Every command but the last of a pipeline.
Command(o) ==
  \/ Claim(o) \/ SAdd(o) \/ Undo(o)
  \/ Read(o) \/ Check(o) \/ DelOldIdx(o) \/ SetNewIdx(o) \/ SetRule(o)
  \/ DelRule(o) \/ SRem(o) \/ DelIdx(o)

Finished == AtRest /\ UNCHANGED storeVars

StoreNext ==
  \/ \E o \in Ops : Begin(o) \/ Command(o) \/ CreateError(o) \/ Publish(o) \/ Abort(o)
  \/ Finished

StoreSpec == StoreInit /\ [][StoreNext]_storeVars

-----------------------------------------------------------------------------
(* Properties *)

\* Every Redis key and every call's local state has its shape; a rule is listed
\* only when a Create wrote it.
StoreTypeOK ==
  /\ rule \in [Ops -> Rule \cup {NoRule}]
  /\ ids \subseteq {o \in Ops : kind[o] = "create"}
  /\ idx \in [Keys -> Ops \cup {Nobody}]
  /\ pc \in [Ops -> {"idle", "setnx", "set", "sadd", "undo", "get", "check", "delold",
                     "setnew", "del", "srem", "delidx", "publish", "done", "failed"}]
  /\ kind \in [Ops -> {"none", "create", "dat", "rekey", "delete"}]
  /\ id \in [Ops -> Ops]
  /\ key \in [Ops -> Keys \cup {NoKey}]
  /\ seen \in [Ops -> Rule \cup {NoRule}]
  /\ errors \in 0 .. MaxErrors
  /\ aborts \in 0 .. MaxAborts
  /\ cut \subseteq Ops

\* No two rules have the same scope and key (redis_store.go:65-71, 149-157).
UniqueKeys ==
  \A i, j \in Ops : Stored(i) /\ Stored(j) /\ rule[i].key = rule[j].key => i = j

\* The call o is about to change the key of rule i and has let go of the old one.
Moving(o, i) == kind[o] = "rekey" /\ id[o] = i /\ pc[o] \in {"setnew", "set"}

\* A stored rule holds the index entry of its key at every moment, unless its key
\* is being changed, so that a Create of that key cannot succeed
\* (redis_store.go:65, 164-168, 206-211).
RuleHoldsItsKey ==
  \A i \in Ops : Stored(i) => idx[rule[i].key] = i \/ \E o \in Ops : Moving(o, i)

\* The index entry of k is that of the rule with key k, if there is one.
Agrees(k) == \A i \in Ops : idx[k] = i <=> Stored(i) /\ rule[i].key = k

\* When no call is in flight the three structures agree: every stored rule is
\* listed, and a key is taken exactly when a stored rule has it.
ConsistentAtRest == AtRest => ids = {i \in Ops : Stored(i)} /\ \A k \in Keys : Agrees(k)

\* The keys that the calls that failed half-way have asked for or given up.
Harmed == UNION {{key[o], seen[o].key} : o \in cut}

\* A call that fails half-way harms its own keys only, whatever is done with them
\* afterwards: at rest every other key is taken exactly when the one rule that
\* has it is stored (redis_store.go:65-81, 159-174, 206-212).
DamageIsLocal == AtRest => \A k \in Keys \ Harmed : Agrees(k)

\* specs/requirements.md:46, FR-A01: no two rules of a scope have the same KEY.
\* Stated of the listed rules, once all calls are over.
UniqueListedKeys ==
  AtRest => \A i, j \in ids : Stored(i) /\ Stored(j) /\ rule[i].key = rule[j].key => i = j

\* The store implements the rule book: a rule is created, changed or deleted at
\* the moment its document is written or removed.
Book == INSTANCE RuleBook WITH book <- rule

BookSpec == Book!Spec
=============================================================================
