----------------------------- MODULE RegexStore -----------------------------
(***************************************************************************)
(* RedisRegexStore and the calls of RegexCoordinator on it                 *)
(* (internal/rules): the regex rules in Redis, at the granularity of Redis *)
(* commands, as in ExactStore.  There is no key to keep unique; PatchRegex *)
(* reads a whole rule and writes it back, and DeleteRegex reads it before  *)
(* it deletes it.  Nothing coordinates administrators: their calls on one  *)
(* rule overlap in every order.                                            *)
(*                                                                         *)
(* A pattern is the set of the queries it matches, or Bad if it does not   *)
(* compile.  The id of a created rule is the name, a number, of the call   *)
(* that creates it; names are given out in any order.  time.Now() is any   *)
(* stamp: gateways have their own clocks.                                  *)
(***************************************************************************)
EXTENDS Integers

CONSTANTS Ops,        \* the calls, each made at most once
          Scopes, Queries, Stamps,
          Drafts,     \* what administrators create: scope, pat, pri, dat
          Patches,    \* what they patch: any of these fields
          Bad, NoRule,
          MaxAborts   \* bound of the calls cut off by a crash or a lost connection

Fields == {"scope", "pat", "pri", "dat"}

\* What administrators put into a field.
Given(field) == {d[field] : d \in {e \in Drafts \cup Patches : field \in DOMAIN e}}

\* The rules that may be stored: none with a pattern that does not compile.
Rules == [scope : Given("scope"), pat : Given("pat") \ {Bad}, pri : Given("pri"),
          dat : Given("dat"), upd : Stamps]

ASSUME RegexAssumption ==
  /\ Ops \subseteq Nat
  /\ Stamps \subseteq Nat
  /\ \A d \in Drafts : DOMAIN d = Fields
  /\ \A p \in Patches : DOMAIN p \subseteq Fields
  /\ Given("scope") \subseteq Scopes
  /\ Given("pri") \subseteq Int
  /\ NoRule \notin Rules
  /\ MaxAborts \in Nat

VARIABLES rule,  \* rag:regex:rule:<id>
          ids,   \* rag:regex:ids
          pc,    \* per call: the command it sends next
          kind, id,
          new,   \* per call: the draft or the patch of the administrator
          doc,   \* per call: the rule it is about to write
          aborts

\* What happened, for the properties; no action reads it.
VARIABLES wrote,  \* the calls that have written or deleted their rule
          knew,   \* per call: those of its rule that had when it read the rule
          past    \* per call: those of its rule that had when it wrote itself

store == <<rule, ids>>
calls == <<pc, kind, id, new, doc>>
history == <<wrote, knew, past>>
storeVars == <<store, calls, aborts, history>>

StoreInit ==
  /\ rule = [i \in Ops |-> NoRule]
  /\ ids = {}
  /\ pc = [o \in Ops |-> "idle"]
  /\ kind = [o \in Ops |-> "none"]
  /\ id = [o \in Ops |-> o]
  /\ new = [o \in Ops |-> <<>>]
  /\ doc = [o \in Ops |-> NoRule]
  /\ aborts = 0
  /\ wrote = {}
  /\ knew = [o \in Ops |-> {}]
  /\ past = [o \in Ops |-> {}]

-----------------------------------------------------------------------------

Stored(i) == rule[i] # NoRule

InFlight(o) == pc[o] \notin {"idle", "done", "failed"}

AtRest == \A o \in Ops : ~InFlight(o)

\* The ids an administrator has seen: in a listing or in the answer to Create.
Known(i) == i \in ids \/ (kind[i] = "create" /\ pc[i] = "done")

Goto(o, label) == pc' = [pc EXCEPT ![o] = label]

Writers(i) == {p \in wrote : id[p] = i}

Writes(o) ==
  /\ wrote' = wrote \cup {o}
  /\ past' = [past EXCEPT ![o] = Writers(id[o])]
  /\ UNCHANGED knew

\* (variant) Any pattern is taken.
CompilesAny(pat) == TRUE

\* compilePattern.
Compiles(pat) == pat # Bad

\* (variant) The priority is not taken from what was read.
PatchedLow(old, p, now) ==
  [f \in Fields \cup {"upd"} |->
    IF f = "upd" THEN now ELSE IF f \in DOMAIN p THEN p[f]
    ELSE IF f = "pri" THEN 0 ELSE old[f]]

\* The rule that was read, with the fields of the patch and a new stamp.
Patched(old, p, now) ==
  [f \in Fields \cup {"upd"} |->
    IF f = "upd" THEN now ELSE IF f \in DOMAIN p THEN p[f] ELSE old[f]]

\* Create: a pattern that does not compile is refused, the rule is stamped.
BeginCreate(o, d, now) ==
  /\ pc[o] = "idle"
  /\ kind' = [kind EXCEPT ![o] = "create"]
  /\ new' = [new EXCEPT ![o] = d]
  /\ doc' = [doc EXCEPT ![o] = Patched(d, d, now)]
  /\ Goto(o, IF Compiles(d.pat) THEN "set" ELSE "failed")
  /\ UNCHANGED <<store, id, aborts, history>>

BeginPatch(o, i, p) ==
  /\ pc[o] = "idle"
  /\ Known(i)
  /\ kind' = [kind EXCEPT ![o] = "patch"]
  /\ id' = [id EXCEPT ![o] = i]
  /\ new' = [new EXCEPT ![o] = p]
  /\ Goto(o, "get")
  /\ UNCHANGED <<store, doc, aborts, history>>

BeginDelete(o, i) ==
  /\ pc[o] = "idle"
  /\ Known(i)
  /\ kind' = [kind EXCEPT ![o] = "delete"]
  /\ id' = [id EXCEPT ![o] = i]
  /\ Goto(o, "get")
  /\ UNCHANGED <<store, new, doc, aborts, history>>

\* GetByID of PatchRegex and DeleteRegex, and what follows up to the pipeline:
\* a rule that is not there, and a patch that does not compile, end the call.
Read(o, now) ==
  /\ pc[o] = "get"
  /\ \/ /\ ~Stored(id[o])
        /\ Goto(o, "failed")
        /\ UNCHANGED doc
     \/ /\ Stored(id[o]) /\ kind[o] = "delete"
        /\ Goto(o, "del")
        /\ UNCHANGED doc
     \/ /\ Stored(id[o]) /\ kind[o] = "patch"
        /\ doc' = [doc EXCEPT ![o] = Patched(rule[id[o]], new[o], now)]
        /\ Goto(o, IF Compiles(doc'[o].pat) THEN "set" ELSE "failed")
  /\ knew' = [knew EXCEPT ![o] = Writers(id[o])]
  /\ UNCHANGED <<store, kind, id, new, aborts, wrote, past>>

SetRule(o) ==
  /\ pc[o] = "set"
  /\ rule' = [rule EXCEPT ![id[o]] = doc[o]]
  /\ Writes(o)
  /\ Goto(o, IF kind[o] = "create" THEN "sadd" ELSE "publish")
  /\ UNCHANGED <<ids, kind, id, new, doc, aborts>>

SAdd(o) ==
  /\ pc[o] = "sadd"
  /\ ids' = ids \cup {id[o]}
  /\ Goto(o, "publish")
  /\ UNCHANGED <<rule, kind, id, new, doc, aborts, history>>

\* (variant) The rule's own key is not deleted.
KeepRule(o) ==
  /\ pc[o] = "del"
  /\ Goto(o, "srem")
  /\ UNCHANGED <<store, kind, id, new, doc, aborts, history>>

DelRule(o) ==
  /\ pc[o] = "del"
  /\ rule' = [rule EXCEPT ![id[o]] = NoRule]
  /\ Writes(o)
  /\ Goto(o, "srem")
  /\ UNCHANGED <<ids, kind, id, new, doc, aborts>>

\* (variant) The id stays in the listing.
KeepListed(o) ==
  /\ pc[o] = "srem"
  /\ Goto(o, "publish")
  /\ UNCHANGED <<store, kind, id, new, doc, aborts, history>>

SRem(o) ==
  /\ pc[o] = "srem"
  /\ ids' = ids \ {id[o]}
  /\ Goto(o, "publish")
  /\ UNCHANGED <<rule, kind, id, new, doc, aborts, history>>

\* The last command of every pipeline.
Publish(o) ==
  /\ pc[o] = "publish"
  /\ Goto(o, "done")
  /\ UNCHANGED <<store, kind, id, new, doc, aborts, history>>

\* The call ends after any of its commands.
Abort(o) ==
  /\ InFlight(o)
  /\ aborts < MaxAborts
  /\ aborts' = aborts + 1
  /\ Goto(o, "failed")
  /\ UNCHANGED <<store, kind, id, new, doc, history>>

Begin(o) ==
  \/ \E d \in Drafts, now \in Stamps : BeginCreate(o, d, now)
  \/ \E i \in Ops, p \in Patches : BeginPatch(o, i, p)
  \/ \E i \in Ops : BeginDelete(o, i)

\* Every command but the last of a pipeline.
Command(o) ==
  \/ \E now \in Stamps : Read(o, now)
  \/ SetRule(o) \/ SAdd(o) \/ DelRule(o) \/ SRem(o)

StoreNext ==
  \/ \E o \in Ops : Begin(o) \/ Command(o) \/ Publish(o) \/ Abort(o)
  \/ AtRest /\ UNCHANGED storeVars

StoreSpec == StoreInit /\ [][StoreNext]_storeVars

-----------------------------------------------------------------------------
(* Properties *)

\* The variables have their shapes; in particular no pattern that does not
\* compile is ever stored, so that ReplaceAll has nothing to skip.
StoreTypeOK ==
  /\ rule \in [Ops -> Rules \cup {NoRule}]
  /\ ids \subseteq {i \in Ops : kind[i] = "create"}
  /\ pc \in [Ops -> {"idle", "get", "set", "sadd", "del", "srem", "publish", "done", "failed"}]
  /\ kind \in [Ops -> {"none", "create", "patch", "delete"}]
  /\ id \in [Ops -> Ops]
  /\ \A o \in Ops : pc[o] = "set" => doc[o] \in Rules
  /\ aborts \in 0 .. MaxAborts
  /\ wrote \subseteq Ops
  /\ knew \in [Ops -> SUBSET Ops]
  /\ past \in [Ops -> SUBSET Ops]

\* Call p patched a rule as it had been before call o wrote it: p read the rule
\* before o wrote or deleted it, and wrote it afterwards.
Overlapped(o, p) == kind[p] = "patch" /\ o \in past[p] \ knew[p]

Superseded(o, f) ==
  \E p \in Ops : Overlapped(o, p) \/ (o \in past[p] /\ f \in DOMAIN new[p])

\* What an administrator gave a field, in a create or a patch, is what the stored
\* rule has, until a later patch names the field or one that had read the rule
\* before writes it back: whatever else goes on, patches change only what they
\* name (regex_coordinator.go:103-127).
ChangesStick ==
  \A o \in wrote : kind[o] # "delete" /\ Stored(id[o]) =>
    \A f \in DOMAIN new[o] : rule[id[o]][f] = new[o][f] \/ Superseded(o, f)

\* A rule whose DELETE was answered is not stored, unless a patch that had read it
\* before it was deleted wrote it back (regex_coordinator.go:104-139,
\* interface/PM_PRODUCT_REVIEW.md:46): that one race, and no longer sequence of
\* calls, revives a rule.
RevivedOnlyByOverlap ==
  \A o \in Ops : kind[o] = "delete" /\ pc[o] = "done" /\ Stored(id[o]) =>
    \E p \in Ops : Overlapped(o, p)

Revived(i) == \E o, p \in Ops : kind[o] = "delete" /\ id[o] = i /\ Overlapped(o, p)

\* When no call is in flight and none was cut off, a rule is listed exactly when it
\* is stored and was never revived: a revived rule stays out of the listing for
\* good, and no other rule is lost from it (redis_regex_store.go:72-75, 141-144).
OnlyRevivedUnlisted ==
  AtRest /\ aborts = 0 => ids = {i \in Ops : Stored(i) /\ ~Revived(i)}
=============================================================================
