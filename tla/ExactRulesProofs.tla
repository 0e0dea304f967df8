-------------------------- MODULE ExactRulesProofs --------------------------
(***************************************************************************)
(* Proofs about the exact rules in the memory of the gateways, for any     *)
(* number of calls, keys, gateways, crashes, restarts and lost             *)
(* subscriptions.  A gateway without administrators ends with what Redis   *)
(* lists whatever administrators do elsewhere; every gateway does if they  *)
(* make one change at a time.                                              *)
(***************************************************************************)
EXTENDS ExactRules, ExactStoreProofs, FiniteSetTheorems

Loads == [phase : {"no", "list", "get"}, todo : SUBSET Ops, next : Index]

\* TypeOK without the bound of inbox.
RulesTypeOK ==
  /\ gw \in [Ops -> AdminGateways]
  /\ mem \in [Gateways -> Index]
  /\ st \in [Gateways -> {"boot", "unsubscribed", "up"}]
  /\ inbox \in [Gateways -> Nat]
  /\ load \in [Reloaders -> Loads]
  /\ missed \in [Gateways -> BOOLEAN]

Types == StoreTypeOK /\ Shape /\ RulesTypeOK

LEMMA NewLoads == NoLoad \in Loads /\ Asked \in Loads /\ EmptyIndex \in Index
BY DEF NoLoad, Asked, Loads, EmptyIndex, Index

\* The gateway of a reload: its own, or the one that serves the call.
LEMMA Places ==
  ASSUME RulesTypeOK
  PROVE  /\ \A t \in Reloaders : Gateway(t) \in Gateways
         /\ \A t \in Gateways : Gateway(t) = t /\ t \in Reloaders /\ t \notin Ops
         /\ \A t \in Ops : Gateway(t) = gw[t] /\ gw[t] \in AdminGateways /\ t \in Reloaders /\ t \notin Gateways
BY GatewayAssumption DEF RulesTypeOK, Gateway, Reloaders

-----------------------------------------------------------------------------
(* Types *)

LEMMA InitTypes == Init => Types
<1>1. Init => StoreTypeOK /\ Shape
  BY InitShape DEF Init
<1>2. Init => RulesTypeOK
  BY NewLoads DEF Init, RulesTypeOK
<1>3. QED BY <1>1, <1>2 DEF Types

\* A restart cuts off the calls of its gateway and leaves the store alone.
LEMMA RestartShape ==
  ASSUME StoreTypeOK, Shape, NEW g \in Gateways, Restart(g) PROVE StoreTypeOK' /\ Shape'
<1>1. /\ pc' \in [Ops -> {"idle", "setnx", "set", "sadd", "undo", "get", "check", "delold",
                          "setnew", "del", "srem", "delidx", "publish", "done", "failed"}]
      /\ \A o \in Ops : pc'[o] = pc[o] \/ (pc[o] # "idle" /\ pc'[o] = "failed")
      /\ cut' \subseteq Ops
  BY DEF Restart, StoreTypeOK, InFlight
<1>2. UNCHANGED <<rule, ids, idx, kind, id, key, seen, errors, aborts>>
  BY DEF Restart, store
<1>3. StoreTypeOK'
  BY <1>1, <1>2 DEF StoreTypeOK
<1>4. Shape'
  BY <1>1, <1>2 DEF Shape
<1>5. QED BY <1>3, <1>4

LEMMA StoreSide ==
  ASSUME StoreTypeOK, Shape, [Next]_vars PROVE StoreTypeOK' /\ Shape'
<1>1. [StoreNext]_storeVars \/ \E g \in Gateways : Restart(g)
  BY DEF Next, BeginAt, CommandAt, CreateErrorAt, PublishAt, AbortAt, List, Get, Install,
         ReloadError, Consume, Subscribe, Disconnect, StoreNext, vars
<1>2. QED BY <1>1, NextShape, RestartShape

LEMMA ReloadTypes ==
  ASSUME Types, NEW t \in Reloaders, List(t) \/ Get(t) \/ Install(t) \/ ReloadError(t)
  PROVE  RulesTypeOK'
<1> USE DEF RulesTypeOK, Types
<1>1. CASE List(t)
  <2>1. [phase |-> "get", todo |-> ids, next |-> EmptyIndex] \in Loads
    BY NewLoads DEF StoreTypeOK, Loads
  <2>2. QED BY <1>1, <2>1 DEF List
<1>2. CASE Get(t)
  <2>1. PICK i \in load[t].todo :
          load' = [load EXCEPT ![t].todo = @ \ {i},
                               ![t].next = IF Stored(i) THEN [load[t].next EXCEPT ![rule[i].key] =
                                             [id |-> i, dat |-> rule[i].dat]] ELSE load[t].next]
    BY <1>2 DEF Get
  <2>2. Stored(i) => rule[i].key \in Keys /\ [id |-> i, dat |-> rule[i].dat] \in Entry
    BY DEF Stored, StoreTypeOK, Rule, Entry, Loads
  <2>3. (IF Stored(i) THEN [load[t].next EXCEPT ![rule[i].key] = [id |-> i, dat |-> rule[i].dat]]
                      ELSE load[t].next) \in Index
    BY <2>2 DEF Loads, Index
  <2>4. load' \in [Reloaders -> Loads]
    BY <2>1, <2>3 DEF Loads
  <2>5. QED BY <1>2, <2>4 DEF Get
<1>3. CASE Install(t)
  <2>1. load[t].next \in Index
    BY DEF Loads
  <2>2. QED BY <1>3, <2>1, NewLoads, Places DEF Install
<1>4. CASE ReloadError(t)
  BY <1>4, NewLoads DEF ReloadError
<1>5. QED BY <1>1, <1>2, <1>3, <1>4

LEMMA NextTypes == ASSUME Types, [Next]_vars PROVE Types'
<1> USE DEF RulesTypeOK
<1>1. ASSUME NEW o \in Ops, BeginAt(o) \/ CommandAt(o) PROVE RulesTypeOK'
  BY <1>1 DEF BeginAt, CommandAt, mine, Types
<1>2. ASSUME NEW o \in Ops, CreateErrorAt(o) \/ PublishAt(o) \/ AbortAt(o) PROVE RulesTypeOK'
  <2>1. Notify => inbox' \in [Gateways -> Nat] /\ missed' \in [Gateways -> BOOLEAN]
    BY DEF Notify, Types
  <2>2. CASE CreateErrorAt(o) \/ AbortAt(o)
    BY <2>1, <2>2 DEF CreateErrorAt, AbortAt, Types
  <2>3. CASE PublishAt(o)
    BY <2>1, <2>3, NewLoads DEF PublishAt, Reloaders, Types
  <2>4. QED BY <1>2, <2>2, <2>3
<1>3. ASSUME NEW g \in Gateways, Consume(g) \/ Subscribe(g) \/ Disconnect(g) PROVE RulesTypeOK'
  BY <1>3, NewLoads DEF Consume, Subscribe, Disconnect, Reloaders, Types
<1>4. ASSUME NEW g \in Gateways, Restart(g) PROVE RulesTypeOK'
  BY <1>4, NewLoads DEF Restart, Reloaders, Types
<1>5. ASSUME UNCHANGED vars PROVE RulesTypeOK'
  BY <1>5 DEF vars, mine, Types
<1> HIDE DEF RulesTypeOK
<1>6. RulesTypeOK'
  BY <1>1, <1>2, <1>3, <1>4, <1>5, ReloadTypes DEF Next, Types
<1>7. QED BY <1>6, StoreSide DEF Types

LEMMA Typed == Spec => []Types
BY InitTypes, NextTypes, PTL DEF Spec

\* The bound of inbox: every call publishes at most once.
Told == {o \in Ops : pc[o] \in {"done", "undo", "failed"}}

Counted == \A g \in Gateways : inbox[g] <= Cardinality(Told)

LEMMA NextCounted ==
  ASSUME IsFiniteSet(Ops), Types, Counted, [Next]_vars PROVE Counted'
<1> USE DEF Types, RulesTypeOK
<1>1. IsFiniteSet(Told) /\ IsFiniteSet(Told')
  BY FS_Subset DEF Told
<1>2. Cardinality(Told) \in Nat /\ Cardinality(Told') \in Nat
  BY <1>1, FS_CardinalityType
<1>3. Told \subseteq Told'
  <2>1. ASSUME NEW o \in Ops, Begin(o) PROVE Told \subseteq Told'
    <3>1. pc[o] = "idle" /\ \A p \in Ops \ {o} : pc'[p] = pc[p]
      BY <2>1 DEF Begin, BeginCreate, BeginEdit, Goto, StoreTypeOK
    <3>2. QED BY <3>1 DEF Told
  <2>2. ASSUME NEW o \in Ops, Command(o) PROVE Told \subseteq Told'
    <3>1. /\ pc[o] \notin {"done", "failed"} /\ \A p \in Ops \ {o} : pc'[p] = pc[p]
          /\ pc[o] = "undo" => pc'[o] = "failed"
      BY <2>2 DEF Command, Claim, SAdd, Undo, Read, Check, DelOldIdx, SetNewIdx, SetRule,
                  DelRule, SRem, DelIdx, Goto, StoreTypeOK
    <3>2. QED BY <3>1 DEF Told
  <2>3. ASSUME NEW o \in Ops, CreateErrorAt(o) \/ PublishAt(o) \/ AbortAt(o) PROVE Told \subseteq Told'
    BY <2>3 DEF CreateErrorAt, PublishAt, AbortAt, CreateError, Publish, Abort, Goto, Told, StoreTypeOK
  <2>4. ASSUME NEW g \in Gateways, Restart(g) PROVE Told \subseteq Told'
    BY <2>4 DEF Restart, Told
  <2>5. UNCHANGED pc => Told \subseteq Told'
    BY DEF Told
  <2>6. QED
    BY <2>1, <2>2, <2>3, <2>4, <2>5 DEF Next, BeginAt, CommandAt, List, Get, Install, ReloadError,
       Consume, Subscribe, Disconnect, vars, storeVars, calls
<1>4. Cardinality(Told) <= Cardinality(Told')
  BY <1>1, <1>3, FS_Subset
<1>5. CASE \E o \in Ops : CreateErrorAt(o) \/ PublishAt(o)
  <2>1. PICK o \in Ops : CreateErrorAt(o) \/ PublishAt(o)
    BY <1>5
  <2>2. Told' = Told \cup {o} /\ o \notin Told
    BY <2>1 DEF CreateErrorAt, PublishAt, CreateError, Publish, Goto, Told, StoreTypeOK
  <2>3. Cardinality(Told') = Cardinality(Told) + 1
    BY <1>1, <2>2, FS_AddElement
  <2>4. \A g \in Gateways : inbox'[g] <= inbox[g] + 1
    BY <2>1 DEF CreateErrorAt, PublishAt, Notify
  <2>5. inbox' \in [Gateways -> Nat]
    BY NextTypes
  <2>6. QED BY <1>2, <2>3, <2>4, <2>5 DEF Counted
<1>6. CASE \A g \in Gateways : inbox'[g] <= inbox[g]
  <2>1. inbox' \in [Gateways -> Nat]
    BY NextTypes
  <2>2. QED BY <1>2, <1>4, <1>6, <2>1 DEF Counted
<1>7. \/ \E o \in Ops : CreateErrorAt(o) \/ PublishAt(o)
      \/ \A g \in Gateways : inbox'[g] <= inbox[g]
  <2>1. UNCHANGED inbox => \A g \in Gateways : inbox'[g] <= inbox[g]
    OBVIOUS
  <2>2. ASSUME NEW g \in Gateways, Consume(g) \/ Restart(g)
        PROVE  \A h \in Gateways : inbox'[h] <= inbox[h]
    BY <2>2 DEF Consume, Restart
  <2>3. QED
    BY <2>1, <2>2 DEF Next, BeginAt, CommandAt, AbortAt, List, Get, Install, ReloadError,
       Subscribe, Disconnect, vars, mine
<1>8. QED BY <1>5, <1>6, <1>7

\* The types of the gateways hold for finitely many calls: no channel ever has
\* more messages than there were calls.
THEOREM RulesTypeCorrect == ASSUME IsFiniteSet(Ops) PROVE Spec => []TypeOK
<1>1. Init => Counted
  <2>1. IsFiniteSet(Told)
    BY FS_Subset DEF Told
  <2>2. QED BY <2>1, FS_CardinalityType DEF Init, Counted
<1>2. Spec => []Counted
  BY <1>1, Typed, NextCounted, PTL DEF Spec
<1>3. ASSUME Types, Counted PROVE TypeOK
  <2>1. Cardinality(Told) <= Cardinality(Ops) /\ Cardinality(Told) \in Nat /\ Cardinality(Ops) \in Nat
    BY FS_Subset, FS_CardinalityType DEF Told
  <2>2. \A g \in Gateways : inbox[g] \in 0 .. Cardinality(Ops)
    BY <1>3, <2>1 DEF Types, RulesTypeOK, Counted
  <2>3. inbox \in [Gateways -> 0 .. Cardinality(Ops)]
    BY <1>3, <2>2 DEF Types, RulesTypeOK
  <2>4. QED BY <1>3, <2>3 DEF Types, RulesTypeOK, TypeOK, Loads
<1>4. QED BY <1>2, <1>3, Typed, PTL

-----------------------------------------------------------------------------
(* What a gateway's subscriber still has to hear of *)

\* f answers as the rules with ids in S do (of two with one key, either).
Right(f, S) ==
  \A k \in Keys :
    LET live == {i \in S : Stored(i) /\ rule[i].key = k}
    IN f[k] \in IF live = {} THEN {NoEntry} ELSE {[id |-> i, dat |-> rule[i].dat] : i \in live}

\* The reload of t has made of the ids it has got what there is in Redis, and has
\* the others to do.
Coming(t) ==
  /\ load[t].phase = "get"
  /\ load[t].todo \subseteq ids
  /\ Right(load[t].next, ids \ load[t].todo)

\* The call o has changed what a reload reads, and has yet to publish that.
Writing(o) == pc[o] \in {"sadd", "srem", "delidx", "publish"}

Busy == \E o \in Ops : Writing(o)

\* The gateway was not told of a change, will read of it, is about to list the ids,
\* or has or will have what Redis lists.
Current(g) ==
  \/ missed[g] \/ inbox[g] > 0 \/ Busy
  \/ load[g].phase = "list" \/ Coming(g)
  \/ load[g].phase = "no" /\ Fresh(g)

LEMMA FreshIsRight == ASSUME NEW g PROVE Fresh(g) <=> Right(mem[g], ids)
BY DEF Fresh, Right

\* A step of a call changes what reloads read only if it is to be published.
LEMMA CallStep ==
  ASSUME StoreTypeOK, Shape, NEW o \in Ops, Begin(o) \/ Command(o)
  PROVE  /\ Busy => Busy'
         /\ Busy' \/ UNCHANGED <<rule, ids>>
<1>1. \A p \in Ops \ {o} : Writing(p) => Writing(p)'
  <2>1. \A p \in Ops \ {o} : pc'[p] = pc[p]
    BY DEF Begin, BeginCreate, BeginEdit, Command, Claim, SAdd, Undo, Read, Check, DelOldIdx,
           SetNewIdx, SetRule, DelRule, SRem, DelIdx, Goto, StoreTypeOK
  <2>2. QED BY <2>1 DEF Writing
<1>2. CASE Begin(o)
  <2>1. pc[o] = "idle" /\ UNCHANGED <<rule, ids>>
    BY <1>2 DEF Begin, BeginCreate, BeginEdit, store
  <2>2. QED BY <1>1, <2>1 DEF Busy, Writing
<1>3. CASE Claim(o) \/ Undo(o) \/ Read(o) \/ Check(o) \/ DelOldIdx(o) \/ SetNewIdx(o)
  <2>1. ~Writing(o) /\ UNCHANGED <<rule, ids>>
    BY <1>3 DEF Claim, Undo, Read, Check, DelOldIdx, SetNewIdx, store, Writing
  <2>2. QED BY <1>1, <2>1 DEF Busy
<1>4. CASE SAdd(o) \/ SetRule(o) \/ DelRule(o) \/ SRem(o) \/ DelIdx(o)
  <2>1. Writing(o)'
    BY <1>4 DEF SAdd, SetRule, DelRule, SRem, DelIdx, Goto, StoreTypeOK, Writing
  <2>2. QED BY <2>1 DEF Busy
<1>5. QED BY <1>2, <1>3, <1>4 DEF Command

\* A step of a reload: it stays right while nothing it reads changes.
LEMMA ListComing ==
  ASSUME Types, NEW t \in Reloaders, List(t) PROVE Coming(t)'
<1>1. load'[t] = [phase |-> "get", todo |-> ids, next |-> EmptyIndex] /\ ids' = ids
  BY DEF List, Types, RulesTypeOK, storeVars, store
<1>2. QED BY <1>1 DEF Coming, Right, EmptyIndex

LEMMA GetComing ==
  ASSUME Types, NEW t \in Reloaders, Get(t), Coming(t) PROVE Coming(t)'
<1>1. PICK i \in load[t].todo :
        load' = [load EXCEPT ![t].todo = @ \ {i},
                             ![t].next = IF Stored(i) THEN [load[t].next EXCEPT ![rule[i].key] =
                                           [id |-> i, dat |-> rule[i].dat]] ELSE load[t].next]
  BY DEF Get
<1>2. UNCHANGED <<rule, ids>> /\ load[t] \in Loads
  BY DEF Get, Types, RulesTypeOK, storeVars, store
<1> DEFINE done == ids \ load[t].todo
<1>3. /\ load'[t].phase = "get" /\ load'[t].todo = load[t].todo \ {i}
      /\ load'[t].next = IF Stored(i) THEN [load[t].next EXCEPT ![rule[i].key] =
                           [id |-> i, dat |-> rule[i].dat]] ELSE load[t].next
  BY <1>1, <1>2 DEF Types, RulesTypeOK, Coming, Loads
<1>4. load'[t].todo \subseteq ids' /\ ids' \ load'[t].todo = done \cup {i} /\ i \in ids
  BY <1>2, <1>3 DEF Coming
<1>5. ASSUME NEW k \in Keys
      PROVE  LET live == {j \in done \cup {i} : Stored(j) /\ rule[j].key = k}
             IN load'[t].next[k] \in
                  IF live = {} THEN {NoEntry} ELSE {[id |-> j, dat |-> rule[j].dat] : j \in live}
  <2> DEFINE live == {j \in done : Stored(j) /\ rule[j].key = k}
             more == {j \in done \cup {i} : Stored(j) /\ rule[j].key = k}
  <2>1. load[t].next[k] \in IF live = {} THEN {NoEntry} ELSE {[id |-> j, dat |-> rule[j].dat] : j \in live}
    BY DEF Coming, Right
  <2>2. CASE Stored(i) /\ rule[i].key = k
    <3>1. load'[t].next[k] = [id |-> i, dat |-> rule[i].dat]
      BY <1>2, <1>3, <2>2 DEF Loads, Index
    <3>2. i \in more
      BY <2>2
    <3>3. QED BY <3>1, <3>2
  <2>3. CASE ~(Stored(i) /\ rule[i].key = k)
    <3>1. load'[t].next[k] = load[t].next[k]
      BY <1>2, <1>3, <2>3 DEF Loads, Index
    <3>2. more = live
      BY <2>3
    <3>3. QED BY <2>1, <3>1, <3>2
  <2>4. QED BY <2>2, <2>3
<1>6. Right(load[t].next, done)'
  BY <1>2, <1>3, <1>4, <1>5 DEF Right, Stored
<1>7. QED BY <1>3, <1>4, <1>6 DEF Coming

\* What a step leaves alone stays as good as it was.
LEMMA SameComing ==
  ASSUME UNCHANGED <<rule, ids>>, NEW t, load'[t] = load[t] PROVE Coming(t)' <=> Coming(t)
BY DEF Coming, Right, Stored

LEMMA SameFresh ==
  ASSUME UNCHANGED <<rule, ids>>, NEW g, mem'[g] = mem[g] PROVE Fresh(g)' <=> Fresh(g)
BY DEF Fresh, Stored

LEMMA SameCurrent ==
  ASSUME UNCHANGED <<rule, ids, pc>>, NEW g, Current(g), load'[g] = load[g], mem'[g] = mem[g],
         inbox'[g] = inbox[g], missed'[g] = missed[g]
  PROVE  Current(g)'
<1>1. Busy' <=> Busy
  BY DEF Busy, Writing
<1>2. QED BY <1>1, SameComing, SameFresh DEF Current

\* A gateway stays up to date if no reload of its handlers brings back old rules.
LEMMA NextCurrent ==
  ASSUME Types, [Next]_vars, NEW g \in Gateways, Current(g),
         \A t \in Ops : gw[t] = g /\ Install(t) => Coming(t)
  PROVE  Current(g)'
<1> USE Places DEF Types
<1>1. ASSUME NEW o \in Ops, BeginAt(o) \/ CommandAt(o) PROVE Current(g)'
  <2>1. (Begin(o) \/ Command(o)) /\ UNCHANGED <<mem, inbox, load, missed>>
    BY <1>1 DEF BeginAt, CommandAt, mine
  <2>2. (Busy => Busy') /\ (Busy' \/ UNCHANGED <<rule, ids>>)
    BY <2>1, CallStep
  <2>3. UNCHANGED <<rule, ids>> => (Coming(g) => Coming(g)') /\ (Fresh(g) => Fresh(g)')
    BY <2>1, SameComing, SameFresh
  <2>4. QED BY <2>1, <2>2, <2>3 DEF Current
<1>2. ASSUME NEW o \in Ops, CreateErrorAt(o) \/ PublishAt(o) \/ AbortAt(o) PROVE Current(g)'
  <2>1. Notify => inbox'[g] > 0 \/ missed'[g]
    <3>1. Notify /\ st[g] = "up" => inbox'[g] > 0
      BY DEF Notify, RulesTypeOK
    <3>2. Notify /\ st[g] # "up" => missed'[g]
      BY Zenon DEF Notify
    <3>3. QED BY <3>1, <3>2
  <2>2. inbox'[g] > 0 \/ missed'[g]
    BY <1>2, <2>1 DEF CreateErrorAt, PublishAt, AbortAt
  <2>3. QED BY <2>2 DEF Current
<1>3. ASSUME NEW t \in Reloaders, List(t) PROVE Current(g)'
  <2>1. CASE t = g
    BY <1>3, <2>1, ListComing DEF Current
  <2>2. CASE t # g
    <3>1. load'[g] = load[g] /\ missed'[g] = missed[g]
          /\ UNCHANGED <<rule, ids, pc, mem, inbox>>
      BY <1>3, <2>2 DEF List, RulesTypeOK, storeVars, store, calls
    <3>2. QED BY <3>1, SameCurrent
  <2>3. QED BY <2>1, <2>2
<1>4. ASSUME NEW t \in Reloaders, Get(t) PROVE Current(g)'
  <2>1. UNCHANGED <<rule, ids, pc, mem, inbox, missed>>
    BY <1>4 DEF Get, storeVars, store, calls
  <2>2. CASE t = g
    <3>1. load[g].phase = "get"
      BY <1>4, <2>2 DEF Get
    <3>2. Coming(g) => Coming(g)'
      BY <1>4, <2>2, GetComing
    <3>3. QED BY <2>1, <3>1, <3>2 DEF Current, Busy, Writing
  <2>3. CASE t # g
    <3>1. load'[g] = load[g]
      BY <1>4, <2>3 DEF Get, RulesTypeOK
    <3>2. QED BY <2>1, <3>1, SameCurrent
  <2>4. QED BY <2>2, <2>3
<1>5. ASSUME NEW t \in Reloaders, Install(t) PROVE Current(g)'
  <2>1. /\ UNCHANGED <<rule, ids, pc, inbox, missed>>
        /\ load[t].phase = "get" /\ load[t].todo = {}
        /\ mem' = [mem EXCEPT ![Gateway(t)] = load[t].next]
        /\ load' = [load EXCEPT ![t] = NoLoad]
    BY <1>5 DEF Install, storeVars, store, calls
  <2>2. Gateway(t) = g /\ Coming(t) => Fresh(g)'
    <3>1. Gateway(t) = g => mem'[g] = load[t].next
      BY <2>1 DEF RulesTypeOK
    <3>2. Coming(t) => Right(load[t].next, ids)
      BY <2>1 DEF Coming
    <3>3. QED BY <2>1, <3>1, <3>2 DEF Right, Fresh, Stored
  <2>3. CASE t = g
    <3>1. load'[g].phase = "no"
      BY <2>1, <2>3 DEF NoLoad, RulesTypeOK
    <3>2. QED BY <2>1, <2>2, <2>3, <3>1 DEF Current, Busy, Writing
  <2>4. CASE t # g /\ Gateway(t) = g
    <3>1. t \in Ops /\ Coming(t)
      BY <1>5, <2>4 DEF Reloaders
    <3>2. load'[g] = load[g]
      BY <2>1, <2>4 DEF RulesTypeOK
    <3>3. QED BY <2>1, <2>2, <2>4, <3>1, <3>2, SameComing DEF Current, Busy, Writing
  <2>5. CASE Gateway(t) # g
    <3>1. load'[g] = load[g] /\ mem'[g] = mem[g]
      BY <2>1, <2>5 DEF RulesTypeOK
    <3>2. QED BY <2>1, <3>1, SameCurrent
  <2>6. QED BY <2>3, <2>4, <2>5
<1>6. ASSUME NEW t \in Reloaders, ReloadError(t) PROVE Current(g)'
  <2>1. CASE t = g
    BY <1>6, <2>1 DEF ReloadError, RulesTypeOK, Current
  <2>2. CASE t # g
    <3>1. load'[g] = load[g] /\ missed'[g] = missed[g]
          /\ UNCHANGED <<rule, ids, pc, mem, inbox>>
      BY <1>6, <2>2 DEF ReloadError, RulesTypeOK, storeVars, store, calls
    <3>2. QED BY <3>1, SameCurrent
  <2>3. QED BY <2>1, <2>2
<1>7. ASSUME NEW h \in Gateways, Consume(h) PROVE Current(g)'
  <2>1. CASE h = g
    BY <1>7, <2>1 DEF Consume, RulesTypeOK, Current, Asked
  <2>2. CASE h # g
    <3>1. load'[g] = load[g] /\ inbox'[g] = inbox[g] /\ UNCHANGED <<rule, ids, pc, mem, missed>>
      BY <1>7, <2>2 DEF Consume, RulesTypeOK, storeVars, store, calls
    <3>2. QED BY <3>1, SameCurrent
  <2>3. QED BY <2>1, <2>2
<1>8. ASSUME UNCHANGED <<rule, ids, pc, mem, inbox, load, missed>> PROVE Current(g)'
  BY <1>8, SameCurrent
<1>9. ASSUME NEW h \in Gateways, Restart(h) PROVE Current(g)'
  <2>1. CASE h = g
    BY <1>9, <2>1 DEF Restart, RulesTypeOK, Current, Asked
  <2>2. CASE h # g
    <3>1. load'[g] = load[g] /\ inbox'[g] = inbox[g] /\ mem'[g] = mem[g] /\ UNCHANGED <<rule, ids>>
      BY <1>9, <2>2 DEF Restart, RulesTypeOK, store
    <3>2. missed[g] \/ Busy => missed'[g] \/ Busy'
      BY <1>9 DEF Restart, Busy, Writing, StoreTypeOK
    <3>3. QED BY <3>1, <3>2, SameComing, SameFresh DEF Current
  <2>3. QED BY <2>1, <2>2
<1>10. ASSUME NEW h \in Gateways, Subscribe(h) \/ Disconnect(h) PROVE Current(g)'
  BY <1>8, <1>10 DEF Subscribe, Disconnect, storeVars, store, calls
<1>11. CASE UNCHANGED vars
  BY <1>8, <1>11 DEF vars, mine, storeVars, store, calls
<1>12. QED
  BY <1>1, <1>2, <1>3, <1>4, <1>5, <1>6, <1>7, <1>9, <1>10, <1>11 DEF Next

\* What is current is fresh when everything has come to rest.
LEMMA CurrentIsFresh ==
  ASSUME Types, Settled, NEW g \in Gateways, Current(g) PROVE missed[g] \/ Fresh(g)
<1>1. ~Busy
  BY DEF Settled, AtRest, InFlight, Busy, Writing
<1>2. inbox[g] = 0 /\ load[g].phase = "no"
  BY Places DEF Types, Settled, Reloading
<1>3. QED BY <1>1, <1>2 DEF Current, Coming

LEMMA InitCurrent == ASSUME Init, NEW g \in Gateways PROVE Current(g)
<1>1. load[g].phase = "no"
  BY DEF Init, NoLoad, Reloaders
<1>2. Fresh(g)
  BY DEF Init, StoreInit, Fresh, EmptyIndex
<1>3. QED BY <1>1, <1>2 DEF Current

-----------------------------------------------------------------------------
(* Gateways without administrators *)

FollowersCurrent == \A g \in Gateways \ AdminGateways : Current(g)

\* However administrators work, and whatever crashes or is lost, a gateway that
\* only follows Pub/Sub ends with what Redis lists, if it was told of every change
\* (coordinator.go:21-28, main.go:341-361).
THEOREM FollowersEndFresh == Spec => []FollowersFreshAtRest
<1>1. Types /\ FollowersCurrent /\ [Next]_vars => FollowersCurrent'
  <2>1. SUFFICES ASSUME Types, FollowersCurrent, [Next]_vars, NEW g \in Gateways \ AdminGateways
                 PROVE  Current(g)'
    BY DEF FollowersCurrent
  <2>2. \A t \in Ops : gw[t] # g
    BY <2>1 DEF Types, RulesTypeOK
  <2>3. QED BY <2>1, <2>2, NextCurrent DEF FollowersCurrent
<1>2. Init => FollowersCurrent
  BY InitCurrent DEF FollowersCurrent
<1>3. Types /\ FollowersCurrent => FollowersFreshAtRest
  BY CurrentIsFresh DEF FollowersCurrent, FollowersFreshAtRest
<1>4. QED BY <1>1, <1>2, <1>3, Typed, PTL DEF Spec

-----------------------------------------------------------------------------
(* Gateways whose administrators make one change at a time *)

\* Calls do not overlap, and while a handler reloads no call is made, so that its
\* reload is right.
Alone ==
  /\ \A o, p \in Ops : InFlight(o) /\ InFlight(p) => o = p
  /\ \A t \in Ops : Reloading(t) => AtRest /\ (load[t].phase = "list" \/ Coming(t))

LEMMA NextAlone ==
  ASSUME AdminMode = "serial", Types, Alone, [Next]_vars PROVE Alone'
<1> USE Places DEF Types, Alone, Reloading
<1>1. ASSUME NEW o \in Ops, BeginAt(o) PROVE Alone'
  <2>1. AtRest /\ UNCHANGED load /\ \A t \in Ops : ~Reloading(t)
    BY <1>1 DEF BeginAt, Begin, BeginCreate, BeginEdit, MayCreate, MayEdit, mine, Reloaders
  <2>2. \A p \in Ops \ {o} : pc'[p] = pc[p]
    BY <1>1 DEF BeginAt, Begin, BeginCreate, BeginEdit, Goto, StoreTypeOK
  <2>3. QED BY <2>1, <2>2 DEF AtRest, InFlight
<1>2. ASSUME NEW o \in Ops, CommandAt(o) \/ CreateErrorAt(o) \/ PublishAt(o) \/ AbortAt(o) PROVE Alone'
  <2>1. InFlight(o) /\ \A p \in Ops \ {o} : pc'[p] = pc[p]
    BY <1>2 DEF CommandAt, Command, Claim, SAdd, Undo, Read, Check, DelOldIdx, SetNewIdx, SetRule,
                DelRule, SRem, DelIdx, CreateErrorAt, CreateError, PublishAt, Publish, AbortAt,
                Abort, InFlight, Goto, StoreTypeOK
  <2>2. \A t \in Ops : load[t].phase = "no"
    BY <2>1 DEF AtRest
  <2>3. \A p, q \in Ops : InFlight(p)' /\ InFlight(q)' => p = q
    BY <2>1 DEF InFlight
  <2>4. CASE PublishAt(o)
    <3>1. AtRest'
      BY <2>1, <2>4 DEF PublishAt, Publish, Goto, StoreTypeOK, AtRest, InFlight
    <3>2. \A t \in Ops : load'[t] \in {load[t], Asked}
      BY <2>4 DEF PublishAt, RulesTypeOK
    <3>3. Asked.phase = "list"
      BY DEF Asked, NoLoad
    <3>4. QED BY <2>2, <2>3, <3>1, <3>2, <3>3
  <2>5. CASE ~PublishAt(o)
    <3>1. UNCHANGED load
      BY <1>2, <2>5 DEF CommandAt, CreateErrorAt, AbortAt, mine
    <3>2. QED BY <2>2, <2>3, <3>1
  <2>6. QED BY <2>4, <2>5
<1>3. ASSUME UNCHANGED <<rule, ids, pc>>,
             \A t \in Ops : load'[t] = load[t] \/ load'[t].phase = "no" \/ (Reloading(t) /\ Coming(t)')
      PROVE  Alone'
  BY <1>3, SameComing DEF AtRest, InFlight
<1>4. ASSUME NEW t \in Reloaders, List(t) \/ Get(t) \/ Install(t) \/ ReloadError(t) PROVE Alone'
  <2>1. UNCHANGED <<rule, ids, pc>> /\ \A u \in Reloaders \ {t} : load'[u] = load[u]
    BY <1>4 DEF List, Get, Install, ReloadError, RulesTypeOK, storeVars, store, calls
  <2>2. Install(t) \/ ReloadError(t) => load'[t].phase = "no"
    BY DEF Install, ReloadError, RulesTypeOK, NoLoad
  <2>3. t \in Ops /\ (List(t) \/ Get(t)) => Reloading(t) /\ Coming(t)'
    BY ListComing, GetComing DEF List, Get
  <2>4. QED BY <1>3, <1>4, <2>1, <2>2, <2>3
<1>5. ASSUME NEW g \in Gateways, Consume(g) \/ Subscribe(g) \/ Disconnect(g) PROVE Alone'
  <2>1. UNCHANGED <<rule, ids, pc>> /\ \A t \in Ops : load'[t] = load[t]
    BY <1>5 DEF Consume, Subscribe, Disconnect, RulesTypeOK, storeVars, store, calls
  <2>2. QED BY <1>3, <2>1
<1>6. ASSUME NEW g \in Gateways, Restart(g) PROVE Alone'
  <2>1. /\ UNCHANGED <<rule, ids>>
        /\ \A p \in Ops : pc'[p] \in {pc[p], "failed"}
        /\ \A t \in Ops : load'[t] \in {load[t], NoLoad}
    BY <1>6 DEF Restart, RulesTypeOK, store, Reloaders
  <2>2. (AtRest => AtRest') /\ \A p \in Ops : InFlight(p)' => InFlight(p)
    BY <2>1 DEF AtRest, InFlight
  <2>3. QED BY <2>1, <2>2, SameComing DEF NoLoad
<1>7. CASE UNCHANGED vars
  BY <1>3, <1>7 DEF vars, mine, storeVars, store, calls
<1>8. QED BY <1>1, <1>2, <1>4, <1>5, <1>6, <1>7 DEF Next

AllCurrent == \A g \in Gateways : Current(g)

\* Administrators who make one change at a time, at any gateways: whatever crashes,
\* restarts or is lost, every gateway ends with what Redis lists, if its subscriber
\* was told of every change (coordinator.go:21-28, main.go:341-361).
THEOREM GatewaysEndFresh == ASSUME AdminMode = "serial" PROVE Spec => []FreshAtRest
<1>1. Types /\ Alone /\ AllCurrent /\ [Next]_vars => AllCurrent'
  <2>1. SUFFICES ASSUME Types, Alone, AllCurrent, [Next]_vars, NEW g \in Gateways PROVE Current(g)'
    BY DEF AllCurrent
  <2>2. \A t \in Ops : Install(t) => Coming(t)
    BY <2>1 DEF Install, Alone, Reloading
  <2>3. QED BY <2>1, <2>2, NextCurrent DEF AllCurrent
<1>2. Init => Alone /\ AllCurrent
  <2>1. Init => Alone
    BY DEF Init, StoreInit, Alone, InFlight, Reloading, NoLoad, Reloaders
  <2>2. Init => AllCurrent
    BY InitCurrent DEF AllCurrent
  <2>3. QED BY <2>1, <2>2
<1>3. Types /\ AllCurrent => FreshAtRest
  BY CurrentIsFresh DEF AllCurrent, FreshAtRest
<1>4. QED BY <1>1, <1>2, <1>3, Typed, NextAlone, PTL DEF Spec

=============================================================================
