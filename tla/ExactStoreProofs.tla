-------------------------- MODULE ExactStoreProofs --------------------------
(***************************************************************************)
(* Proofs about RedisExactStore, for any number of calls and keys.  The    *)
(* types hold whatever the administrators do.  That keys are unique, and   *)
(* that the store implements the rule book, is proved for the ways of      *)
(* working in Disciplined: at most one change at a time to each rule, a    *)
(* key changed while nothing else is done, no Create pipeline that fails   *)
(* half-way, and no crash where keys are changed (elsewhere calls may be   *)
(* cut off).  That a call cut off half-way harms no key but its own is     *)
(* proved for those ways of working with any crashes and errors.           *)
(***************************************************************************)
EXTENDS ExactStore, TLAPS

\* Where a call of each kind can be, and what it knows there.
Shape ==
  \A o \in Ops :
    /\ pc[o] = "idle" => id[o] = o
    /\ pc[o] \in {"setnx", "sadd", "undo"} => kind[o] = "create"
    /\ pc[o] \in {"check", "delold", "setnew"} => kind[o] = "rekey"
    /\ pc[o] \in {"del", "srem", "delidx"} => kind[o] = "delete"
    /\ pc[o] = "get" => kind[o] \in {"dat", "rekey", "delete"}
    /\ pc[o] = "set" => kind[o] \in {"create", "dat", "rekey"}
    /\ kind[o] = "create" => pc[o] # "idle" /\ id[o] = o /\ key[o] \in Keys
    /\ kind[o] = "rekey" => key[o] \in Keys
    /\ pc[o] \in {"check", "delold", "setnew", "del", "srem", "delidx"} => seen[o] \in Rule
    /\ pc[o] = "set" /\ kind[o] # "create" => seen[o] \in Rule

LEMMA InitShape == StoreInit => StoreTypeOK /\ Shape
<1> SUFFICES ASSUME StoreInit PROVE StoreTypeOK /\ Shape
  OBVIOUS
<1> USE StoreAssumption DEF StoreInit
<1>1. errors \in 0 .. MaxErrors /\ aborts \in 0 .. MaxAborts
  OBVIOUS
<1>2. /\ rule \in [Ops -> Rule \cup {NoRule}]
      /\ seen \in [Ops -> Rule \cup {NoRule}]
      /\ idx \in [Keys -> Ops \cup {Nobody}]
      /\ ids \subseteq {o \in Ops : kind[o] = "create"}
  OBVIOUS
<1>3. StoreTypeOK
  BY <1>1, <1>2 DEF StoreTypeOK
<1>4. Shape
  BY DEF Shape
<1>5. QED BY <1>3, <1>4

LEMMA NoRuleIsNone == NoRule \notin Rule
BY StoreAssumption DEF NoRule, Rule

LEMMA MergedType ==
  ASSUME StoreTypeOK, Shape, NEW o \in Ops, pc[o] = "set" PROVE Merged(o) \in Rule
<1>1. CASE kind[o] = "create"
  BY <1>1 DEF Shape, Merged, Rule
<1>2. CASE kind[o] = "dat"
  BY <1>2 DEF Shape, Merged, Rule
<1>3. CASE kind[o] = "rekey"
  BY <1>3 DEF Shape, Merged, Rule
<1>4. QED BY <1>1, <1>2, <1>3 DEF Shape

LEMMA NextShape ==
  ASSUME StoreTypeOK, Shape, [StoreNext]_storeVars PROVE StoreTypeOK' /\ Shape'
<1> USE StoreAssumption
    DEF StoreTypeOK, Shape, Goto, store, calls, bounds
<1>1. ASSUME NEW o \in Ops, NEW k \in Keys, BeginCreate(o, k) PROVE StoreTypeOK' /\ Shape'
  BY <1>1 DEF BeginCreate
<1>2. ASSUME NEW o \in Ops, NEW what \in {"dat", "rekey", "delete"}, NEW i \in Ops,
             NEW k \in Keys, BeginEdit(o, what, i, k)
      PROVE StoreTypeOK' /\ Shape'
  <2>1. kind[o] # "create"
    BY <1>2 DEF BeginEdit
  <2>2. QED BY <1>2, <2>1 DEF BeginEdit
<1>3. ASSUME NEW o \in Ops, Claim(o) PROVE StoreTypeOK' /\ Shape'
  BY <1>3 DEF Claim
<1>4. ASSUME NEW o \in Ops, SAdd(o) PROVE StoreTypeOK' /\ Shape'
  BY <1>4 DEF SAdd
<1>5. ASSUME NEW o \in Ops, Undo(o) PROVE StoreTypeOK' /\ Shape'
  BY <1>5 DEF Undo
<1>6. ASSUME NEW o \in Ops, CreateError(o) PROVE StoreTypeOK' /\ Shape'
  BY <1>6 DEF CreateError
<1>7. ASSUME NEW o \in Ops, Read(o) PROVE StoreTypeOK' /\ Shape'
  <2>1. CASE ~Stored(id[o])
    BY <1>7, <2>1 DEF Read
  <2>2. CASE Stored(id[o])
    <3>1. rule[id[o]] \in Rule
      BY <2>2 DEF Stored
    <3>2. /\ seen' = [seen EXCEPT ![o] = rule[id[o]]]
          /\ UNCHANGED <<store, kind, id, key, bounds>>
      BY <1>7, <2>2 DEF Read
    <3>3. CASE kind[o] = "delete"
      BY <1>7, <2>2, <3>1, <3>2, <3>3 DEF Read
    <3>4. CASE kind[o] # "delete" /\ Moves(o, rule[id[o]])
      BY <1>7, <2>2, <3>1, <3>2, <3>4 DEF Read, Moves
    <3>5. CASE kind[o] # "delete" /\ ~Moves(o, rule[id[o]])
      BY <1>7, <2>2, <3>1, <3>2, <3>5 DEF Read
    <3>6. QED BY <3>3, <3>4, <3>5
  <2>3. QED BY <2>1, <2>2
<1>8. ASSUME NEW o \in Ops, Check(o) PROVE StoreTypeOK' /\ Shape'
  <2>1. kind[o] = "rekey" /\ pc'[o] \in {"delold", "failed"}
    BY <1>8 DEF Check
  <2>2. QED BY <1>8, <2>1 DEF Check
<1>9. ASSUME NEW o \in Ops, DelOldIdx(o) PROVE StoreTypeOK' /\ Shape'
  <2>1. idx' \in [Keys -> Ops \cup {Nobody}]
    BY <1>9 DEF DelOldIdx
  <2>2. QED BY <1>9, <2>1 DEF DelOldIdx
<1>10. ASSUME NEW o \in Ops, SetNewIdx(o) PROVE StoreTypeOK' /\ Shape'
  BY <1>10 DEF SetNewIdx
<1>11. ASSUME NEW o \in Ops, SetRule(o) PROVE StoreTypeOK' /\ Shape'
  <2>1. pc[o] = "set" /\ rule' = [rule EXCEPT ![id[o]] = Merged(o)]
    BY <1>11 DEF SetRule
  <2>2. rule' \in [Ops -> Rule \cup {NoRule}]
    BY <2>1, MergedType
  <2>3. QED BY <1>11, <2>2 DEF SetRule
<1>12. ASSUME NEW o \in Ops, DelRule(o) PROVE StoreTypeOK' /\ Shape'
  BY <1>12 DEF DelRule
<1>13. ASSUME NEW o \in Ops, SRem(o) PROVE StoreTypeOK' /\ Shape'
  BY <1>13 DEF SRem
<1>14. ASSUME NEW o \in Ops, DelIdx(o) PROVE StoreTypeOK' /\ Shape'
  <2>1. idx' \in [Keys -> Ops \cup {Nobody}]
    BY <1>14 DEF DelIdx
  <2>2. QED BY <1>14, <2>1 DEF DelIdx
<1>15. ASSUME NEW o \in Ops, Publish(o) PROVE StoreTypeOK' /\ Shape'
  BY <1>15 DEF Publish
<1>16. ASSUME NEW o \in Ops, Abort(o) PROVE StoreTypeOK' /\ Shape'
  BY <1>16 DEF Abort
<1>17. CASE UNCHANGED storeVars
  BY <1>17 DEF storeVars
<1> HIDE DEF StoreTypeOK, Shape, Goto, store, calls, bounds
<1>18. ASSUME NEW o \in Ops, Begin(o) PROVE StoreTypeOK' /\ Shape'
  BY <1>1, <1>2, <1>18 DEF Begin
<1>19. ASSUME NEW o \in Ops, Command(o) PROVE StoreTypeOK' /\ Shape'
  BY <1>3, <1>4, <1>5, <1>7, <1>8, <1>9, <1>10, <1>11, <1>12, <1>13, <1>14,
     <1>19, Zenon DEF Command
<1>20. QED
  BY <1>6, <1>15, <1>16, <1>17, <1>18, <1>19 DEF StoreNext, Finished

\* The Redis keys and the calls keep their types, however the calls interleave
\* and whatever fails.
THEOREM StoreTypeCorrect == StoreSpec => []StoreTypeOK
<1>1. StoreSpec => [](StoreTypeOK /\ Shape)
  BY InitShape, NextShape, PTL DEF StoreSpec
<1>2. QED BY <1>1, PTL

-----------------------------------------------------------------------------
(* Unique keys *)

\* The ways of working for which the store keeps its promises.
Disciplined ==
  /\ AdminMode \in {"perRule", "serial"}
  /\ MaxErrors = 0
  /\ "rekey" \in Kinds => MaxAborts = 0

Editing(p) == InFlight(p) /\ kind[p] # "create"
Rekeying(p) == InFlight(p) /\ kind[p] = "rekey"

\* The Create of i has listed its rule.
Published(i) == kind[i] = "create" /\ pc[i] \in {"publish", "done", "failed"}

NoUndo == \A p \in Ops : pc[p] # "undo"

\* A rule is stored only after its Create has written it.
StoredLate == \A i \in Ops : Stored(i) => kind[i] = "create" /\ pc[i] \notin {"setnx", "set"}

\* Only a rule whose Create has listed it is in the listing, and edited.
ListedLate == \A i \in ids : Published(i)
EditedLate == \A p \in Ops : Editing(p) => Published(id[p])

OneEditor == \A p, q \in Ops : Editing(p) /\ Editing(q) /\ id[p] = id[q] => p = q

\* While a key is changed, nothing else is done.
RekeyAlone ==
  \A p \in Ops : Rekeying(p) => "rekey" \in Kinds /\ \A q \in Ops : InFlight(q) => q = p

Control == NoUndo /\ StoredLate /\ ListedLate /\ EditedLate /\ OneEditor /\ RekeyAlone

\* A Create about to write its rule has claimed its key.
ClaimHeld == \A o \in Ops : kind[o] = "create" /\ pc[o] = "set" => idx[key[o]] = o

\* What an Update or Delete has read is still so when it writes.
ReadHolds ==
  \A p \in Ops :
    pc[p] \in {"check", "delold", "setnew", "del"} \/ (pc[p] = "set" /\ kind[p] # "create") =>
      rule[id[p]] = seen[p]

\* An Update that changes the key finds the new one free or its own, and nobody
\* takes the old one until the rule is written.
MoveHolds ==
  \A p \in Ops : kind[p] = "rekey" =>
    /\ pc[p] \in {"delold", "setnew"} => idx[key[p]] \in {Nobody, id[p]}
    /\ pc[p] = "set" => idx[key[p]] = id[p]
    /\ pc[p] \in {"setnew", "set"} => idx[seen[p].key] \in {Nobody, id[p]}

\* A Delete between its commands still holds the key it is to free.
DeleteHolds ==
  \A p \in Ops : pc[p] \in {"srem", "delidx"} =>
    ~Stored(id[p]) /\ idx[seen[p].key] = id[p]

Held == RuleHoldsItsKey /\ ClaimHeld /\ ReadHolds /\ MoveHolds /\ DeleteHolds

Safe == Control /\ Held

LEMMA InitSafe == StoreInit => Safe
BY DEF StoreInit, Safe, Control, Held, NoUndo, StoredLate, ListedLate, EditedLate,
       RuleHoldsItsKey, ClaimHeld, OneEditor, RekeyAlone, ReadHolds, MoveHolds,
       DeleteHolds, Stored, Editing, Rekeying, InFlight

LEMMA NextControl ==
  ASSUME StoreTypeOK, Shape, Disciplined, Safe, [StoreNext]_storeVars PROVE Control'
<1> USE StoreAssumption, NoRuleIsNone
    DEF StoreTypeOK, Shape, Goto, store, calls, bounds, Safe, Control, NoUndo, StoredLate,
        ListedLate, EditedLate, OneEditor, RekeyAlone, Stored, Editing, Rekeying,
        InFlight, Published
<1>1. ASSUME NEW o \in Ops, NEW k \in Keys, BeginCreate(o, k) PROVE Control'
  <2>1. \A p \in Ops : ~Rekeying(p)
    BY <1>1 DEF BeginCreate, MayCreate, AtRest, Disciplined
  <2>2. QED BY <1>1, <2>1 DEF BeginCreate
<1>2. ASSUME NEW o \in Ops, NEW what \in {"dat", "rekey", "delete"}, NEW i \in Ops,
             NEW k \in Keys, BeginEdit(o, what, i, k)
      PROVE Control'
  <2>1. kind[o] # "create" /\ what \in Kinds /\ Published(i)
    BY <1>2 DEF BeginEdit, Known
  <2>2. \A p \in Ops : ~Rekeying(p) /\ (Editing(p) => id[p] # i)
    BY <1>2 DEF BeginEdit, MayEdit, AtRest, Disciplined
  <2>3. what = "rekey" => \A p \in Ops : ~InFlight(p)
    BY <1>2 DEF BeginEdit, MayEdit, AtRest, Disciplined
  <2>4. NoUndo' /\ StoredLate' /\ ListedLate'
    BY <1>2, <2>1 DEF BeginEdit
  <2>5. EditedLate' /\ OneEditor'
    BY <1>2, <2>1, <2>2 DEF BeginEdit
  <2>6. RekeyAlone'
    BY <1>2, <2>1, <2>2, <2>3 DEF BeginEdit
  <2>7. QED BY <2>4, <2>5, <2>6
<1>3. ASSUME NEW o \in Ops, Claim(o) \/ SAdd(o) \/ Undo(o) PROVE Control'
  <2>1. CASE Claim(o)
    <3>1. /\ pc[o] = "setnx" /\ pc'[o] \in {"set", "failed"} /\ kind[o] = "create"
          /\ \A p \in Ops \ {o} : pc'[p] = pc[p]
          /\ UNCHANGED <<rule, ids, kind, id>>
      BY <2>1 DEF Claim
    <3>2. ~Stored(o) /\ o \notin ids
      BY <3>1
    <3>3. QED BY <3>1, <3>2
  <2>2. CASE SAdd(o)
    BY <2>2 DEF SAdd
  <2>3. CASE Undo(o)
    BY <2>3 DEF Undo
  <2>4. QED BY <1>3, <2>1, <2>2, <2>3
<1>4. ASSUME NEW o \in Ops, CreateError(o) PROVE Control'
  BY <1>4 DEF CreateError, Disciplined
<1>5. ASSUME NEW o \in Ops, Read(o) PROVE Control'
  <2>1. /\ pc[o] = "get" /\ pc'[o] \in {"failed", "del", "check", "set"}
        /\ \A p \in Ops \ {o} : pc'[p] = pc[p]
        /\ UNCHANGED <<store, kind, id, key, bounds>>
    BY <1>5 DEF Read
  <2>2. QED BY <2>1
<1>6. ASSUME NEW o \in Ops, Check(o) \/ DelOldIdx(o) \/ SetNewIdx(o) PROVE Control'
  <2>1. /\ pc[o] \in {"check", "delold", "setnew"} /\ pc'[o] \in {"delold", "setnew", "set", "failed"}
        /\ \A p \in Ops \ {o} : pc'[p] = pc[p]
        /\ UNCHANGED <<rule, ids, kind, id, key, bounds>>
    BY <1>6 DEF Check, DelOldIdx, SetNewIdx
  <2>2. kind[o] = "rekey"
    BY <2>1
  <2>3. QED BY <2>1, <2>2
<1>7. ASSUME NEW o \in Ops, SetRule(o) PROVE Control'
  <2>1. kind[o] # "create" => Published(id[o])
    BY <1>7 DEF SetRule
  <2>2. QED BY <1>7, <2>1 DEF SetRule
<1>8. ASSUME NEW o \in Ops, DelRule(o) \/ SRem(o) PROVE Control'
  BY <1>8 DEF DelRule, SRem
<1>9. ASSUME NEW o \in Ops, DelIdx(o) PROVE Control'
  BY <1>9 DEF DelIdx
<1>10. ASSUME NEW o \in Ops, Publish(o) \/ Abort(o) PROVE Control'
  BY <1>10 DEF Publish, Abort
<1>11. CASE UNCHANGED storeVars
  BY <1>11 DEF storeVars
<1> HIDE DEF StoreTypeOK, Shape, Goto, store, calls, bounds, Safe, Control, InFlight
<1>12. ASSUME NEW o \in Ops, Begin(o) PROVE Control'
  BY <1>1, <1>2, <1>12 DEF Begin
<1>13. ASSUME NEW o \in Ops, Command(o) PROVE Control'
  BY <1>3, <1>5, <1>6, <1>7, <1>8, <1>9, <1>13, Zenon DEF Command
<1>14. QED
  BY <1>4, <1>10, <1>11, <1>12, <1>13 DEF StoreNext, Finished

LEMMA NextHeld ==
  ASSUME StoreTypeOK, Shape, Disciplined, Safe, [StoreNext]_storeVars PROVE Held'
<1> USE StoreAssumption, NoRuleIsNone
    DEF StoreTypeOK, Shape, Goto, store, calls, bounds, Safe, Control, Held, NoUndo,
        StoredLate, EditedLate, OneEditor, RekeyAlone, RuleHoldsItsKey, Moving,
        ClaimHeld, ReadHolds, MoveHolds, DeleteHolds, Stored, Editing, Rekeying,
        InFlight, Published
\* Where the keys of rules and calls lie.
<1> DEFINE HeldBy(i) == rule[i].key \in Keys /\ idx[rule[i].key] = i
<1>1. ASSUME NEW i \in Ops, Stored(i) PROVE rule[i] \in Rule /\ rule[i].key \in Keys
  BY <1>1 DEF Rule
<1>2. ASSUME NEW p \in Ops, seen[p] \in Rule PROVE seen[p].key \in Keys
  BY <1>2 DEF Rule
<1>3. ASSUME NEW o \in Ops, NEW k \in Keys, BeginCreate(o, k) PROVE Held'
  <2>1. \A p \in Ops : ~Rekeying(p)
    BY <1>3 DEF BeginCreate, MayCreate, AtRest, Disciplined
  <2>2. QED BY <1>3, <2>1 DEF BeginCreate
<1>4. ASSUME NEW o \in Ops, NEW what \in {"dat", "rekey", "delete"}, NEW i \in Ops,
             NEW k \in Keys, BeginEdit(o, what, i, k)
      PROVE Held'
  <2>1. \A p, q \in Ops : ~Moving(p, q)
    BY <1>4 DEF BeginEdit, MayEdit, AtRest, Disciplined
  <2>2. QED BY <1>4, <2>1 DEF BeginEdit
<1>5. ASSUME NEW o \in Ops, Claim(o) PROVE Held'
  <2>1. CASE idx[key[o]] = Nobody
    <3>1. /\ pc[o] = "setnx" /\ kind[o] = "create" /\ key[o] \in Keys /\ id[o] = o
          /\ idx' = [idx EXCEPT ![key[o]] = o] /\ pc' = [pc EXCEPT ![o] = "set"]
          /\ UNCHANGED <<rule, ids, kind, id, key, seen, bounds>>
      BY <1>5, <2>1 DEF Claim
    <3>2. \A k \in Keys : idx[k] \in Ops => idx'[k] = idx[k]
      BY <2>1, <3>1
    <3>3. \A p \in Ops : ~Rekeying(p)
      BY <3>1
    <3>4. RuleHoldsItsKey'
      BY <3>1, <3>2, <3>3, <1>1
    <3>5. ClaimHeld' /\ ReadHolds' /\ MoveHolds'
      BY <3>1, <3>2, <3>3
    <3>6. DeleteHolds'
      BY <3>1, <3>2, <1>2
    <3>7. QED BY <3>4, <3>5, <3>6
  <2>2. CASE idx[key[o]] # Nobody
    BY <1>5, <2>2 DEF Claim
  <2>3. QED BY <2>1, <2>2
<1>6. ASSUME NEW o \in Ops, SAdd(o) \/ Undo(o) \/ SRem(o) PROVE Held'
  BY <1>6 DEF SAdd, Undo, SRem
<1>7. ASSUME NEW o \in Ops, CreateError(o) PROVE Held'
  BY <1>7 DEF CreateError, Disciplined
<1>8. ASSUME NEW o \in Ops, Read(o) PROVE Held'
  <2>1. CASE ~Stored(id[o])
    BY <1>8, <2>1 DEF Read
  <2>2. CASE Stored(id[o])
    <3>1. /\ pc[o] = "get" /\ kind[o] \in {"dat", "rekey", "delete"}
          /\ seen' = [seen EXCEPT ![o] = rule[id[o]]]
          /\ pc' = [pc EXCEPT ![o] = IF kind[o] = "delete" THEN "del"
                                     ELSE IF Moves(o, rule[id[o]]) THEN "check" ELSE "set"]
          /\ UNCHANGED <<store, kind, id, key, bounds>>
      BY <1>8, <2>2 DEF Read
    <3>2. pc'[o] \in {"del", "check", "set"} /\ \A p \in Ops \ {o} : pc'[p] = pc[p]
      BY <3>1
    <3>3. kind[o] = "rekey" => idx[rule[id[o]].key] = id[o]
      BY <2>2, <3>1
    <3>4. kind[o] = "rekey" /\ pc'[o] = "set" => key[o] = rule[id[o]].key
      BY <3>1 DEF Moves
    <3>5. RuleHoldsItsKey'
      BY <3>1, <3>2
    <3>6. ClaimHeld' /\ ReadHolds'
      BY <3>1, <3>2
    <3>7. MoveHolds'
      BY <3>1, <3>2, <3>3, <3>4
    <3>8. DeleteHolds'
      BY <3>1, <3>2
    <3>9. QED BY <3>5, <3>6, <3>7, <3>8
  <2>3. QED BY <2>1, <2>2
<1>9. ASSUME NEW o \in Ops, Check(o) PROVE Held'
  <2>1. /\ kind[o] = "rekey" /\ pc[o] = "check" /\ pc'[o] \in {"delold", "failed"}
        /\ pc'[o] = "delold" => idx[key[o]] \in {Nobody, id[o]}
        /\ \A p \in Ops \ {o} : pc'[p] = pc[p]
        /\ UNCHANGED <<rule, ids, idx, kind, id, key, seen>>
    BY <1>9 DEF Check
  <2>2. RuleHoldsItsKey' /\ ClaimHeld'
    BY <2>1
  <2>3. ReadHolds' /\ DeleteHolds'
    BY <2>1
  <2>4. MoveHolds'
    BY <2>1
  <2>5. QED BY <2>2, <2>3, <2>4
<1>10. ASSUME NEW o \in Ops, DelOldIdx(o) PROVE Held'
  <2>1. /\ kind[o] = "rekey" /\ pc[o] = "delold" /\ key[o] \in Keys /\ seen[o].key \in Keys
        /\ idx' = [idx EXCEPT ![seen[o].key] = Nobody]
        /\ pc' = [pc EXCEPT ![o] = "setnew"]
        /\ UNCHANGED <<rule, ids, kind, id, key, seen, bounds>>
    BY <1>10, <1>2 DEF DelOldIdx
  <2>2. \A p \in Ops : InFlight(p) => p = o
    BY <2>1
  <2>3. Stored(id[o]) /\ rule[id[o]] = seen[o] /\ idx[seen[o].key] = id[o]
    BY <2>1, <2>2
  <2>4. RuleHoldsItsKey'
    BY <2>1, <2>2, <2>3, <1>1
  <2>5. ClaimHeld' /\ ReadHolds' /\ DeleteHolds'
    BY <2>1, <2>2
  <2>6. MoveHolds'
    BY <2>1, <2>2
  <2>7. QED BY <2>4, <2>5, <2>6
<1>11. ASSUME NEW o \in Ops, SetNewIdx(o) PROVE Held'
  <2>1. /\ kind[o] = "rekey" /\ pc[o] = "setnew" /\ key[o] \in Keys /\ seen[o].key \in Keys
        /\ idx' = [idx EXCEPT ![key[o]] = id[o]]
        /\ pc' = [pc EXCEPT ![o] = "set"]
        /\ UNCHANGED <<rule, ids, kind, id, key, seen, bounds>>
    BY <1>11, <1>2 DEF SetNewIdx
  <2>2. \A p \in Ops : InFlight(p) => p = o
    BY <2>1
  <2>3. RuleHoldsItsKey'
    BY <2>1, <2>2, <1>1
  <2>4. ClaimHeld' /\ ReadHolds' /\ DeleteHolds'
    BY <2>1, <2>2
  <2>5. MoveHolds'
    BY <2>1, <2>2
  <2>6. QED BY <2>3, <2>4, <2>5
<1>12. ASSUME NEW o \in Ops, SetRule(o) PROVE Held'
  <2>1. /\ pc[o] = "set" /\ id[o] \in Ops /\ Merged(o) \in Rule
        /\ rule' = [rule EXCEPT ![id[o]] = Merged(o)]
        /\ pc'[o] \in {"sadd", "publish"} /\ \A p \in Ops \ {o} : pc'[p] = pc[p]
        /\ UNCHANGED <<ids, idx, kind, id, key, seen, bounds>>
    BY <1>12, MergedType DEF SetRule
  <2>2. idx[Merged(o).key] = id[o]
    <3>1. CASE kind[o] = "create"
      BY <2>1, <3>1 DEF Merged
    <3>2. CASE kind[o] = "dat"
      <4>1. Stored(id[o]) /\ rule[id[o]] = seen[o] /\ \A p \in Ops : ~Moving(p, id[o])
        BY <2>1, <3>2
      <4>2. QED BY <3>2, <4>1 DEF Merged, Rule
    <3>3. CASE kind[o] = "rekey"
      <4>1. Merged(o).key = key[o]
        BY <2>1, <3>3 DEF Merged, Rule
      <4>2. QED BY <2>1, <3>3, <4>1
    <3>4. QED BY <2>1, <3>1, <3>2, <3>3
  <2>3. RuleHoldsItsKey'
    BY <2>1, <2>2
  <2>4. ReadHolds'
    <3>1. SUFFICES ASSUME NEW p \in Ops, p # o,
                          \/ pc[p] \in {"check", "delold", "setnew", "del"}
                          \/ pc[p] = "set" /\ kind[p] # "create"
                   PROVE rule'[id[p]] = seen[p]
      BY <2>1
    <3>2. id[p] # id[o]
      BY <2>1, <3>1
    <3>3. QED BY <2>1, <3>1, <3>2
  <2>5. DeleteHolds'
    <3>1. SUFFICES ASSUME NEW p \in Ops, pc[p] \in {"srem", "delidx"} PROVE id[p] # id[o]
      BY <2>1
    <3>2. QED BY <2>1, <3>1
  <2>6. ClaimHeld' /\ MoveHolds'
    BY <2>1
  <2>7. QED BY <2>3, <2>4, <2>5, <2>6
<1>13. ASSUME NEW o \in Ops, DelRule(o) PROVE Held'
  <2>1. /\ pc[o] = "del" /\ kind[o] = "delete" /\ id[o] \in Ops
        /\ rule' = [rule EXCEPT ![id[o]] = NoRule]
        /\ pc' = [pc EXCEPT ![o] = "srem"]
        /\ UNCHANGED <<ids, idx, kind, id, key, seen, bounds>>
    BY <1>13 DEF DelRule
  <2>2. \A p \in Ops : ~Rekeying(p)
    BY <2>1
  <2>3. \A p \in Ops : Editing(p) /\ id[p] = id[o] => p = o
    BY <2>1
  <2>4. RuleHoldsItsKey' /\ ClaimHeld' /\ MoveHolds'
    BY <2>1, <2>2
  <2>5. ReadHolds'
    BY <2>1, <2>3
  <2>6. DeleteHolds'
    BY <2>1, <2>2, <2>3
  <2>7. QED BY <2>4, <2>5, <2>6
<1>14. ASSUME NEW o \in Ops, DelIdx(o) PROVE Held'
  <2>1. /\ pc[o] = "delidx" /\ kind[o] = "delete" /\ seen[o].key \in Keys
        /\ idx[seen[o].key] = id[o] /\ ~Stored(id[o])
        /\ idx' = [idx EXCEPT ![seen[o].key] = Nobody]
        /\ pc' = [pc EXCEPT ![o] = "publish"]
        /\ UNCHANGED <<rule, ids, kind, id, key, seen, bounds>>
    BY <1>14, <1>2 DEF DelIdx
  <2>2. \A k \in Keys : idx[k] # id[o] => idx'[k] = idx[k]
    BY <2>1
  <2>3. \A p \in Ops : ~Rekeying(p)
    BY <2>1
  <2>4. RuleHoldsItsKey' /\ MoveHolds' /\ ReadHolds'
    BY <2>1, <2>2, <2>3, <1>1
  <2>5. ClaimHeld'
    BY <2>1, <2>2
  <2>6. DeleteHolds'
    BY <2>1, <2>2, <1>2
  <2>7. QED BY <2>4, <2>5, <2>6
<1>15. ASSUME NEW o \in Ops, Publish(o) PROVE Held'
  BY <1>15 DEF Publish
<1>16. ASSUME NEW o \in Ops, Abort(o) PROVE Held'
  <2>1. ~Rekeying(o)
    BY <1>16 DEF Abort, Disciplined
  <2>2. QED BY <1>16, <2>1 DEF Abort
<1>17. CASE UNCHANGED storeVars
  BY <1>17 DEF storeVars
<1> HIDE DEF StoreTypeOK, Shape, Goto, store, calls, bounds, Safe, Control, Held, InFlight
<1>18. ASSUME NEW o \in Ops, Begin(o) PROVE Held'
  BY <1>3, <1>4, <1>18 DEF Begin
<1>19. ASSUME NEW o \in Ops, Command(o) PROVE Held'
  BY <1>5, <1>6, <1>8, <1>9, <1>10, <1>11, <1>12, <1>13, <1>14, <1>19, Zenon DEF Command
<1>20. QED
  BY <1>7, <1>15, <1>16, <1>17, <1>18, <1>19 DEF StoreNext, Finished

\* One change at a time to each rule keeps every promise of Safe.
THEOREM SafeAlways == ASSUME Disciplined PROVE StoreSpec => [](StoreTypeOK /\ Shape /\ Safe)
<1>1. StoreInit => StoreTypeOK /\ Shape /\ Safe
  BY InitShape, InitSafe
<1>2. StoreTypeOK /\ Shape /\ Safe /\ [StoreNext]_storeVars => (StoreTypeOK /\ Shape /\ Safe)'
  BY NextShape, NextControl, NextHeld DEF Safe
<1>3. QED BY <1>1, <1>2, PTL DEF StoreSpec

\* A stored rule holds the index entry of its key at every moment, also while
\* other calls run and after crashes, except while its own key is changed
\* (redis_store.go:65, 164-168, 206-211).
THEOREM HoldsItsKey == ASSUME Disciplined PROVE StoreSpec => []RuleHoldsItsKey
<1>1. Safe => RuleHoldsItsKey
  BY DEF Safe, Held
<1>2. QED BY <1>1, SafeAlways, PTL

\* FR-A01: no two rules of a scope have the same key.
THEOREM KeysAreUnique == ASSUME Disciplined PROVE StoreSpec => []UniqueKeys
<1>1. ASSUME StoreTypeOK, Shape, Safe PROVE UniqueKeys
  <2>1. SUFFICES ASSUME NEW i \in Ops, NEW j \in Ops, Stored(i), Stored(j),
                        rule[i].key = rule[j].key, i # j
                 PROVE FALSE
    BY DEF UniqueKeys
  <2>2. ASSUME NEW p \in Ops, NEW q \in Ops, Moving(p, q)
        PROVE  idx[rule[q].key] \in {Nobody, q} /\ \A r \in Ops \ {q} : ~\E s \in Ops : Moving(s, r)
    <3>1. pc[p] \in {"setnew", "set"} /\ kind[p] = "rekey" /\ id[p] = q
      BY <2>2 DEF Moving
    <3>2. rule[q] = seen[p] /\ idx[seen[p].key] \in {Nobody, q}
      BY <1>1, <3>1 DEF Safe, Held, ReadHolds, MoveHolds
    <3>3. \A s, r \in Ops : Moving(s, r) => s = p
      BY <1>1, <3>1 DEF Safe, Control, RekeyAlone, Rekeying, InFlight, Moving
    <3>4. QED BY <3>1, <3>2, <3>3 DEF Moving
  <2>3. CASE \E p \in Ops : Moving(p, i)
    BY <1>1, <2>1, <2>2, <2>3, StoreAssumption DEF Safe, Held, RuleHoldsItsKey
  <2>4. CASE \E p \in Ops : Moving(p, j)
    BY <1>1, <2>1, <2>2, <2>4, StoreAssumption DEF Safe, Held, RuleHoldsItsKey
  <2>5. QED BY <1>1, <2>1, <2>3, <2>4 DEF Safe, Held, RuleHoldsItsKey
<1>2. QED BY <1>1, SafeAlways, PTL

-----------------------------------------------------------------------------
(* What calls that fail half-way leave behind *)

\* The ways of working alone, with any crashes and pipeline errors.
Coordinated == AdminMode \in {"perRule", "serial"}

\* The Create of i is past the command that lists it, or was cut off.
Listable(i) == kind[i] = "create" /\ pc[i] \notin {"setnx", "set", "sadd"}

CutOver ==
  /\ \A o \in cut : pc[o] \in {"undo", "failed"}
  /\ \A o \in Ops : pc[o] = "undo" => o \in cut

\* As Control, but a rule may be edited while its Create takes its index entry back,
\* and the calls that were cut off do nothing else.
Order ==
  /\ StoredLate /\ OneEditor /\ RekeyAlone /\ CutOver
  /\ \A i \in ids : Listable(i)
  /\ \A p \in Ops : Editing(p) => Listable(id[p])

\* A Delete past its first command has deleted the rule.
DeleteGone == \A p \in Ops : pc[p] \in {"srem", "delidx"} => ~Stored(id[p])

Facts == Order /\ ReadHolds /\ DeleteGone

LEMMA InitFacts == StoreInit => Facts
BY DEF StoreInit, Facts, Order, CutOver, StoredLate, OneEditor, RekeyAlone, ReadHolds,
       DeleteGone, Stored, Editing, Rekeying, InFlight

\* What BeginEdit may assume.
LEMMA EditAlone ==
  ASSUME StoreTypeOK, Shape, Order, Coordinated, NEW o \in Ops, NEW what \in {"dat", "rekey", "delete"},
         NEW i \in Ops, NEW k \in Keys, BeginEdit(o, what, i, k)
  PROVE  /\ kind[o] # "create" /\ what \in Kinds /\ Listable(i)
         /\ \A p \in Ops : ~Rekeying(p) /\ (Editing(p) => id[p] # i)
         /\ what = "rekey" => \A p \in Ops : ~InFlight(p)
<1>1. kind[o] # "create"
  BY DEF BeginEdit, Shape
<1>2. Listable(i)
  BY DEF BeginEdit, Known, Order, Listable
<1>3. (what = "rekey" \/ AdminMode = "serial") => \A p \in Ops : ~InFlight(p)
  BY StoreAssumption DEF BeginEdit, MayEdit, AtRest, Coordinated
<1>4. \A p \in Ops : ~Rekeying(p) /\ (Editing(p) => id[p] # i)
  BY <1>3 DEF BeginEdit, MayEdit, AtRest, Coordinated, Rekeying, Editing
<1>5. QED BY <1>1, <1>2, <1>3, <1>4 DEF BeginEdit

LEMMA NextFacts ==
  ASSUME StoreTypeOK, Shape, Coordinated, Facts, [StoreNext]_storeVars PROVE Facts'
<1> USE StoreAssumption, NoRuleIsNone
    DEF StoreTypeOK, Shape, Goto, store, calls, bounds, Facts, Order, CutOver, StoredLate,
        OneEditor, RekeyAlone, ReadHolds, DeleteGone, Stored, Editing, Rekeying, InFlight, Listable
<1>1. ASSUME NEW o \in Ops, NEW k \in Keys, BeginCreate(o, k) PROVE Facts'
  <2>1. \A p \in Ops : ~Rekeying(p)
    BY <1>1 DEF BeginCreate, MayCreate, AtRest, Coordinated
  <2>2. QED BY <1>1, <2>1 DEF BeginCreate
<1>2. ASSUME NEW o \in Ops, NEW what \in {"dat", "rekey", "delete"}, NEW i \in Ops,
             NEW k \in Keys, BeginEdit(o, what, i, k)
      PROVE Facts'
  <2>1. /\ kind[o] # "create" /\ what \in Kinds /\ Listable(i)
        /\ \A p \in Ops : ~Rekeying(p) /\ (Editing(p) => id[p] # i)
        /\ what = "rekey" => \A p \in Ops : ~InFlight(p)
    BY <1>2, EditAlone
  <2>2. /\ pc[o] = "idle" /\ pc' = [pc EXCEPT ![o] = "get"]
        /\ kind' = [kind EXCEPT ![o] = what] /\ id' = [id EXCEPT ![o] = i]
        /\ UNCHANGED <<rule, ids, seen, cut>>
    BY <1>2 DEF BeginEdit
  <2>3. StoredLate' /\ CutOver' /\ (\A j \in ids : Listable(j))'
    BY <2>1, <2>2
  <2>4. OneEditor' /\ (\A p \in Ops : Editing(p) => Listable(id[p]))'
    BY <2>1, <2>2
  <2>5. RekeyAlone'
    BY <2>1, <2>2
  <2>6. ReadHolds' /\ DeleteGone'
    BY <2>2
  <2>7. QED BY <2>3, <2>4, <2>5, <2>6
<1>3. ASSUME NEW o \in Ops, Claim(o) \/ Undo(o) PROVE Facts'
  <2>1. /\ pc[o] \in {"setnx", "undo"} /\ kind[o] = "create"
        /\ pc'[o] \in {"set", "failed"}
        /\ pc[o] = "undo" => pc'[o] = "failed"
        /\ \A p \in Ops \ {o} : pc'[p] = pc[p]
        /\ UNCHANGED <<rule, ids, kind, id, seen, cut>>
    BY <1>3 DEF Claim, Undo
  <2>2. pc[o] = "setnx" => ~Stored(o) /\ o \notin ids
    OBVIOUS
  <2>3. QED BY <2>1, <2>2
<1>4. ASSUME NEW o \in Ops, SAdd(o) PROVE Facts'
  BY <1>4 DEF SAdd
<1>5. ASSUME NEW o \in Ops, Read(o) PROVE Facts'
  <2>1. /\ pc[o] = "get" /\ pc'[o] \in {"failed", "del", "check", "set"} /\ kind[o] # "create"
        /\ \A p \in Ops \ {o} : pc'[p] = pc[p] /\ seen'[p] = seen[p]
        /\ UNCHANGED <<store, kind, id, key, bounds>>
    BY <1>5 DEF Read
  <2>2. pc'[o] # "failed" => seen'[o] = rule[id[o]]
    BY <1>5 DEF Read
  <2>3. Order'
    BY <2>1
  <2>4. ReadHolds' /\ DeleteGone'
    BY <2>1, <2>2
  <2>5. QED BY <2>3, <2>4
<1>6. ASSUME NEW o \in Ops, Check(o) \/ DelOldIdx(o) \/ SetNewIdx(o) PROVE Facts'
  <2>1. /\ pc[o] \in {"check", "delold", "setnew"} /\ kind[o] = "rekey"
        /\ pc'[o] \in {"delold", "setnew", "set", "failed"}
        /\ \A p \in Ops \ {o} : pc'[p] = pc[p]
        /\ UNCHANGED <<rule, ids, kind, id, key, seen, bounds>>
    BY <1>6 DEF Check, DelOldIdx, SetNewIdx
  <2>2. QED BY <2>1
<1>7. ASSUME NEW o \in Ops, SetRule(o) PROVE Facts'
  <2>1. /\ pc[o] = "set" /\ pc'[o] \in {"sadd", "publish"}
        /\ pc'[o] = "sadd" <=> kind[o] = "create"
        /\ \A p \in Ops \ {o} : pc'[p] = pc[p]
        /\ rule' = [rule EXCEPT ![id[o]] = Merged(o)] /\ Merged(o) \in Rule
        /\ UNCHANGED <<ids, kind, id, key, seen, bounds>>
    BY <1>7, MergedType DEF SetRule
  <2>2. \A p \in Ops : Editing(p) /\ id[p] = id[o] => p = o
    BY <2>1
  <2>3. Order'
    BY <2>1, <2>2
  <2>4. ReadHolds' /\ DeleteGone'
    BY <2>1, <2>2
  <2>5. QED BY <2>3, <2>4
<1>8. ASSUME NEW o \in Ops, DelRule(o) PROVE Facts'
  <2>1. \A p \in Ops : Editing(p) /\ id[p] = id[o] => p = o
    BY <1>8 DEF DelRule
  <2>2. QED BY <1>8, <2>1 DEF DelRule
<1>9. ASSUME NEW o \in Ops, SRem(o) \/ DelIdx(o) \/ Publish(o) PROVE Facts'
  BY <1>9 DEF SRem, DelIdx, Publish
<1>10. ASSUME NEW o \in Ops, CreateError(o) \/ Abort(o) PROVE Facts'
  <2>1. /\ InFlight(o) /\ pc'[o] \in {"undo", "failed"}
        /\ pc'[o] = "undo" => kind[o] = "create"
        /\ \A p \in Ops \ {o} : pc'[p] = pc[p]
        /\ cut' = cut \cup {o}
        /\ UNCHANGED <<rule, ids, kind, id, key, seen>>
    BY <1>10 DEF CreateError, Abort
  <2>2. \A i \in Ops : Listable(i) => Listable(i)'
    BY <2>1
  <2>3. StoredLate' /\ OneEditor' /\ RekeyAlone' /\ CutOver'
    BY <2>1
  <2>4. QED BY <2>1, <2>2, <2>3
<1>11. CASE UNCHANGED storeVars
  BY <1>11 DEF storeVars
<1> HIDE DEF StoreTypeOK, Shape, Goto, store, calls, bounds, Facts, Order, InFlight
<1>12. ASSUME NEW o \in Ops, Begin(o) PROVE Facts'
  BY <1>1, <1>2, <1>12 DEF Begin
<1>13. ASSUME NEW o \in Ops, Command(o) PROVE Facts'
  BY <1>3, <1>4, <1>5, <1>6, <1>7, <1>8, <1>9, <1>13, Zenon DEF Command
<1>14. QED
  BY <1>9, <1>10, <1>11, <1>12, <1>13 DEF StoreNext, Finished

\* The index entry of k is i's because of a call that is about to store i with this
\* key, or has deleted i and is about to free it.
Covers(o, k, i) ==
  /\ id[o] = i
  /\ \/ kind[o] \in {"create", "rekey"} /\ pc[o] = "set" /\ key[o] = k
     \/ pc[o] \in {"srem", "delidx"} /\ seen[o].key = k

\* Held, of one key: who has it as a rule or is about to has its index entry, and
\* what calls have seen of it is still so.
RuleHas(k) ==
  \A i \in Ops : Stored(i) /\ rule[i].key = k => idx[k] = i \/ \E o \in Ops : Moving(o, i)

EntryMeant(k) ==
  \A i \in Ops : idx[k] = i => (Stored(i) /\ rule[i].key = k) \/ \E o \in Ops : Covers(o, k, i)

ClaimHas(k) == \A o \in Ops : kind[o] = "create" /\ pc[o] = "set" /\ key[o] = k => idx[k] = o

MoveHas(k) ==
  \A p \in Ops : kind[p] = "rekey" =>
    /\ key[p] = k /\ pc[p] \in {"delold", "setnew"} => idx[k] \in {Nobody, id[p]}
    /\ key[p] = k /\ pc[p] = "set" => idx[k] = id[p]
    /\ seen[p].key = k /\ pc[p] \in {"setnew", "set"} => idx[k] = Nobody \/ key[p] = k

DeleteHas(k) == \A p \in Ops : pc[p] \in {"srem", "delidx"} /\ seen[p].key = k => idx[k] = id[p]

Sound(k) == RuleHas(k) /\ EntryMeant(k) /\ ClaimHas(k) /\ MoveHas(k) /\ DeleteHas(k)

\* The keys of a call that was cut off stay the same.
LEMMA HarmStays ==
  ASSUME StoreTypeOK, Shape, Facts, [StoreNext]_storeVars PROVE Harmed \subseteq Harmed'
<1>1. cut \subseteq cut' /\ \A o \in cut : key'[o] = key[o] /\ seen'[o] = seen[o]
  <2>1. ASSUME NEW o \in Ops, Begin(o) PROVE cut' = cut /\ \A p \in cut : key'[p] = key[p] /\ seen'[p] = seen[p]
    <3>1. pc[o] = "idle" /\ cut' = cut /\ \A p \in Ops \ {o} : key'[p] = key[p] /\ seen'[p] = seen[p]
      BY <2>1 DEF Begin, BeginCreate, BeginEdit, bounds, StoreTypeOK
    <3>2. QED BY <3>1 DEF Facts, Order, CutOver, StoreTypeOK
  <2>2. ASSUME NEW o \in Ops, Command(o) PROVE cut' = cut /\ \A p \in cut : key'[p] = key[p] /\ seen'[p] = seen[p]
    <3>1. CASE Read(o)
      <4>1. pc[o] = "get" /\ cut' = cut /\ key' = key /\ \A p \in Ops \ {o} : seen'[p] = seen[p]
        BY <3>1 DEF Read, bounds, StoreTypeOK
      <4>2. QED BY <4>1 DEF Facts, Order, CutOver, StoreTypeOK
    <3>2. CASE ~Read(o)
      BY <2>2, <3>2 DEF Command, Claim, SAdd, Undo, Check, DelOldIdx, SetNewIdx, SetRule, DelRule,
                        SRem, DelIdx, bounds
    <3>3. QED BY <3>1, <3>2
  <2>3. ASSUME NEW o \in Ops, CreateError(o) \/ Publish(o) \/ Abort(o)
        PROVE  cut \subseteq cut' /\ key' = key /\ seen' = seen
    BY <2>3 DEF CreateError, Publish, Abort, bounds
  <2>4. UNCHANGED storeVars => cut' = cut /\ key' = key /\ seen' = seen
    BY DEF storeVars, calls, bounds
  <2>5. QED BY <2>1, <2>2, <2>3, <2>4 DEF StoreNext, Finished
<1>2. QED BY <1>1 DEF Harmed

LEMMA NextSound ==
  ASSUME StoreTypeOK, Shape, Coordinated, Facts, [StoreNext]_storeVars,
         NEW k \in Keys, k \notin Harmed', Sound(k)
  PROVE  Sound(k)'
<1> USE StoreAssumption, NoRuleIsNone
    DEF StoreTypeOK, Shape, Goto, store, calls, bounds, Stored, Sound, RuleHas, EntryMeant,
        ClaimHas, MoveHas, DeleteHas, Covers, Moving
\* What the invariants say of the calls a step could disturb.
<1>1. /\ \A p, q \in Ops : Editing(p) /\ Editing(q) /\ id[p] = id[q] => p = q
      /\ \A p, q \in Ops : Rekeying(p) /\ InFlight(q) => q = p
      /\ \A p \in Ops : Editing(p) => Listable(id[p])
      /\ \A i \in Ops : Stored(i) => kind[i] = "create" /\ pc[i] \notin {"setnx", "set"}
  BY DEF Facts, Order, OneEditor, RekeyAlone, StoredLate
<1>2. ASSUME NEW o \in Ops, Begin(o) PROVE Sound(k)'
  <2>1. /\ pc[o] = "idle" /\ pc'[o] \in {"setnx", "get"} /\ UNCHANGED <<rule, idx, seen>>
        /\ \A p \in Ops \ {o} : /\ pc'[p] = pc[p] /\ kind'[p] = kind[p]
                                /\ id'[p] = id[p] /\ key'[p] = key[p]
    BY <1>2 DEF Begin, BeginCreate, BeginEdit
  <2>2. QED BY <2>1
<1>3. ASSUME NEW o \in Ops, Claim(o) PROVE Sound(k)'
  <2>1. \A p \in Ops : ~Rekeying(p)
    BY <1>1, <1>3 DEF Claim, InFlight, Rekeying
  <2>2. \A p \in Ops : kind[p] = "rekey" => pc[p] \notin {"delold", "setnew", "set"}
    BY <2>1 DEF Rekeying, InFlight
  <2>3. CASE idx'[k] = idx[k]
    BY <1>3, <2>2, <2>3 DEF Claim
  <2>4. CASE idx'[k] # idx[k]
    <3>1. idx[k] = Nobody /\ idx'[k] = o /\ key[o] = k /\ pc'[o] = "set" /\ kind[o] = "create"
          /\ id[o] = o /\ \A p \in Ops \ {o} : pc'[p] = pc[p]
      BY <1>3, <2>4 DEF Claim
    <3>2. UNCHANGED <<rule, kind, id, key, seen>>
      BY <1>3 DEF Claim
    <3>3. QED BY <2>2, <3>1, <3>2
  <2>5. QED BY <2>3, <2>4
<1>4. ASSUME NEW o \in Ops, SAdd(o) \/ Publish(o) \/ Check(o) \/ SRem(o) PROVE Sound(k)'
  <2>1. /\ UNCHANGED <<rule, idx, kind, id, key, seen>>
        /\ \A p \in Ops \ {o} : pc'[p] = pc[p]
    BY <1>4 DEF SAdd, Publish, Check, SRem
  <2>2. CASE SAdd(o) \/ Publish(o)
    BY <2>1, <2>2 DEF SAdd, Publish
  <2>3. CASE Check(o)
    <3>1. /\ pc[o] = "check" /\ kind[o] = "rekey" /\ pc'[o] \in {"delold", "failed"}
          /\ pc'[o] = "delold" => idx[key[o]] \in {Nobody, id[o]}
      BY <2>3 DEF Check
    <3>2. QED BY <2>1, <3>1
  <2>4. CASE SRem(o)
    <3>1. pc[o] = "srem" /\ pc'[o] = "delidx"
      BY <2>4 DEF SRem
    <3>2. QED BY <2>1, <3>1
  <2>5. QED BY <1>4, <2>2, <2>3, <2>4
<1>5. ASSUME NEW o \in Ops, Read(o) PROVE Sound(k)'
  <2>1. /\ pc[o] = "get" /\ UNCHANGED <<rule, idx, kind, id, key>>
        /\ \A p \in Ops \ {o} : pc'[p] = pc[p] /\ seen'[p] = seen[p]
        /\ pc'[o] \in {"failed", "del", "check", "set"} /\ kind[o] # "create"
    BY <1>5 DEF Read
  <2>2. kind[o] = "rekey" /\ pc'[o] = "set" =>
          Stored(id[o]) /\ seen'[o] = rule[id[o]] /\ key[o] = rule[id[o]].key
    BY <1>5 DEF Read, Moves
  <2>3. kind[o] = "rekey" => \A p, i \in Ops : ~Moving(p, i)
    BY <1>1, <2>1 DEF Rekeying, InFlight
  <2>4. kind[o] = "rekey" /\ pc'[o] = "set" /\ key[o] = k => idx[k] = id[o]
    BY <2>2, <2>3
  <2>5. RuleHas(k)' /\ EntryMeant(k)' /\ ClaimHas(k)' /\ DeleteHas(k)'
    BY <2>1
  <2>6. MoveHas(k)'
    BY <2>1, <2>2, <2>4
  <2>7. QED BY <2>5, <2>6
<1>6. ASSUME NEW o \in Ops, DelOldIdx(o) \/ SetNewIdx(o) PROVE Sound(k)'
  <2>1. /\ pc[o] \in {"delold", "setnew"} /\ kind[o] = "rekey" /\ seen[o].key \in Keys /\ key[o] \in Keys
        /\ UNCHANGED <<rule, kind, id, key, seen>>
        /\ \A p \in Ops \ {o} : pc'[p] = pc[p]
    BY <1>6 DEF DelOldIdx, SetNewIdx, Rule
  <2>2. \A p \in Ops \ {o} : pc[p] \in {"idle", "done", "failed"}
    BY <1>1, <2>1 DEF Rekeying, InFlight
  <2>3. rule[id[o]] = seen[o]
    BY <2>1 DEF Facts, ReadHolds
  <2>4. CASE DelOldIdx(o)
    <3>1. pc'[o] = "setnew" /\ idx' = [idx EXCEPT ![seen[o].key] = Nobody] /\ pc[o] = "delold"
      BY <2>4 DEF DelOldIdx
    <3>2. Moving(o, id[o])'
      BY <2>1, <3>1
    <3>3. RuleHas(k)'
      BY <2>1, <2>2, <2>3, <3>1, <3>2
    <3>4. EntryMeant(k)' /\ ClaimHas(k)' /\ DeleteHas(k)'
      BY <2>1, <2>2, <3>1
    <3>5. MoveHas(k)'
      BY <2>1, <2>2, <3>1
    <3>6. QED BY <3>3, <3>4, <3>5
  <2>5. CASE SetNewIdx(o)
    <3>1. pc'[o] = "set" /\ idx' = [idx EXCEPT ![key[o]] = id[o]] /\ pc[o] = "setnew"
      BY <2>5 DEF SetNewIdx
    <3>2. Moving(o, id[o])' /\ Covers(o, key[o], id[o])'
      BY <2>1, <3>1
    <3>3. RuleHas(k)'
      BY <2>1, <2>2, <3>1, <3>2
    <3>4. EntryMeant(k)'
      BY <2>1, <2>2, <3>1, <3>2
    <3>5. ClaimHas(k)' /\ DeleteHas(k)'
      BY <2>1, <2>2, <3>1
    <3>6. MoveHas(k)'
      BY <2>1, <2>2, <3>1
    <3>7. QED BY <3>3, <3>4, <3>5, <3>6
  <2>6. QED BY <1>6, <2>4, <2>5
<1>7. ASSUME NEW o \in Ops, SetRule(o) PROVE Sound(k)'
  <2>1. /\ pc[o] = "set" /\ pc'[o] \in {"sadd", "publish"} /\ Merged(o) \in Rule
        /\ rule' = [rule EXCEPT ![id[o]] = Merged(o)]
        /\ UNCHANGED <<idx, kind, id, key, seen>>
        /\ \A p \in Ops \ {o} : pc'[p] = pc[p]
    BY <1>7, MergedType DEF SetRule
  <2>2. CASE kind[o] = "create"
    <3>1. id[o] = o /\ ~Stored(o) /\ Merged(o).key = key[o]
      BY <1>1, <2>1, <2>2 DEF Merged
    <3>2. \A p, i \in Ops : ~Moving(p, i)
      BY <1>1, <2>1, <2>2 DEF Rekeying, InFlight
    <3>3. \A p \in Ops \ {o} : pc[p] \in {"set", "srem", "delidx"} => id[p] # o
      BY <1>1, <2>1, <2>2 DEF Editing, InFlight, Listable
    <3>4. RuleHas(k)'
      BY <2>1, <2>2, <3>1, <3>2
    <3>5. EntryMeant(k)'
      BY <2>1, <2>2, <3>1, <3>3
    <3>6. ClaimHas(k)' /\ MoveHas(k)' /\ DeleteHas(k)'
      BY <2>1, <2>2
    <3>7. QED BY <3>4, <3>5, <3>6
  <2>3. CASE kind[o] = "dat"
    <3>1. rule[id[o]] = seen[o] /\ seen[o] \in Rule /\ Merged(o).key = seen[o].key
      BY <2>1, <2>3 DEF Facts, ReadHolds, Merged, Rule
    <3>2. Stored(id[o])
      BY <3>1
    <3>3. \A i \in Ops : (Stored(i)' <=> Stored(i)) /\ (Stored(i) => rule'[i].key = rule[i].key)
      BY <2>1, <3>1, <3>2
    <3>4. QED BY <2>1, <2>3, <3>3
  <2>4. CASE kind[o] = "rekey"
    <3>1. rule[id[o]] = seen[o] /\ seen[o] \in Rule /\ Merged(o).key = key[o]
      BY <2>1, <2>4 DEF Facts, ReadHolds, Merged, Rule
    <3>2. \A p \in Ops \ {o} : pc[p] \in {"idle", "done", "failed"}
      BY <1>1, <2>1, <2>4 DEF Rekeying, InFlight
    <3>3. Stored(id[o])
      BY <3>1
    <3>4. key[o] = k => idx[k] = id[o]
      BY <2>1, <2>4
    <3>5. key[o] # k => idx[k] # id[o]
      BY <2>1, <2>4, <3>1, <3>2
    <3>6. \A i \in Ops \ {id[o]} : rule'[i] = rule[i]
      BY <2>1
    <3>7. rule'[id[o]].key = key[o] /\ Stored(id[o])'
      BY <2>1, <3>1
    <3>8. RuleHas(k)'
      BY <2>1, <3>2, <3>4, <3>6, <3>7
    <3>9. EntryMeant(k)'
      BY <2>1, <3>2, <3>4, <3>5, <3>6, <3>7
    <3>10. ClaimHas(k)' /\ MoveHas(k)' /\ DeleteHas(k)'
      BY <2>1, <2>4, <3>2
    <3>11. QED BY <3>8, <3>9, <3>10
  <2>5. QED BY <2>1, <2>2, <2>3, <2>4
<1>8. ASSUME NEW o \in Ops, DelRule(o) PROVE Sound(k)'
  <2>1. /\ pc[o] = "del" /\ pc'[o] = "srem" /\ kind[o] = "delete" /\ rule[id[o]] = seen[o]
        /\ rule' = [rule EXCEPT ![id[o]] = NoRule]
        /\ UNCHANGED <<idx, kind, id, key, seen>>
        /\ \A p \in Ops \ {o} : pc'[p] = pc[p]
    BY <1>8 DEF DelRule, Facts, ReadHolds
  <2>2. Stored(id[o])
    BY <2>1
  <2>3. \A p, i \in Ops : ~Moving(p, i)
    BY <1>1, <2>1 DEF Rekeying, InFlight
  <2>4. seen[o].key = k => idx[k] = id[o]
    BY <2>1, <2>2, <2>3
  <2>5. \A i \in Ops, p \in Ops : Covers(p, k, i) => Covers(p, k, i)'
    BY <2>1
  <2>6. seen[o].key = k => Covers(o, k, id[o])'
    BY <2>1
  <2>7. RuleHas(k)'
    BY <2>1, <2>3
  <2>8. EntryMeant(k)'
    BY <2>1, <2>5, <2>6
  <2>9. ClaimHas(k)' /\ MoveHas(k)' /\ DeleteHas(k)'
    BY <2>1, <2>4
  <2>10. QED BY <2>7, <2>8, <2>9
<1>9. ASSUME NEW o \in Ops, DelIdx(o) PROVE Sound(k)'
  <2>1. /\ pc[o] = "delidx" /\ pc'[o] = "publish" /\ kind[o] = "delete" /\ ~Stored(id[o])
        /\ idx' = [idx EXCEPT ![seen[o].key] = Nobody]
        /\ UNCHANGED <<rule, kind, id, key, seen>>
        /\ \A p \in Ops \ {o} : pc'[p] = pc[p]
    BY <1>9 DEF DelIdx, Facts, DeleteGone
  <2>2. \A p \in Ops : kind[p] = "rekey" => pc[p] \notin {"delold", "setnew", "set"}
    BY <1>1, <2>1 DEF Rekeying, InFlight
  <2>3. CASE seen[o].key # k
    BY <2>1, <2>2, <2>3
  <2>4. CASE seen[o].key = k
    <3>1. idx'[k] = Nobody /\ idx[k] = id[o]
      BY <2>1, <2>4
    <3>2. \A p \in Ops \ {o} : pc[p] \in {"srem", "delidx"} => id[p] # id[o]
      BY <1>1, <2>1 DEF Editing, InFlight
    <3>3. kind[id[o]] = "create" /\ pc[id[o]] # "set"
      BY <1>1, <2>1 DEF Editing, InFlight, Listable
    <3>4. RuleHas(k)' /\ EntryMeant(k)' /\ MoveHas(k)'
      BY <2>1, <2>2, <3>1
    <3>5. ClaimHas(k)' /\ DeleteHas(k)'
      BY <2>1, <3>1, <3>2, <3>3
    <3>6. QED BY <3>4, <3>5
  <2>5. QED BY <2>3, <2>4
<1>10. ASSUME NEW o \in Ops, Undo(o) PROVE Sound(k)'
  <2>1. pc[o] = "undo" /\ o \in cut' /\ key'[o] = key[o]
    BY <1>10 DEF Undo, Facts, Order, CutOver
  <2>2. key[o] # k
    BY <2>1 DEF Harmed
  <2>3. QED BY <1>10, <2>1, <2>2 DEF Undo
<1>11. ASSUME NEW o \in Ops, CreateError(o) \/ Abort(o) PROVE Sound(k)'
  <2>1. /\ pc'[o] \in {"undo", "failed"} /\ o \in cut'
        /\ UNCHANGED <<rule, idx, kind, id, key, seen>>
        /\ \A p \in Ops \ {o} : pc'[p] = pc[p]
    BY <1>11 DEF CreateError, Abort
  <2>2. key[o] # k /\ seen[o].key # k
    BY <2>1 DEF Harmed
  <2>3. \A i \in Ops : Moving(o, i) => rule[i] = seen[o]
    BY DEF Facts, ReadHolds
  <2>4. QED BY <2>1, <2>2, <2>3
<1>12. CASE UNCHANGED storeVars
  BY <1>12 DEF storeVars
<1> HIDE DEF StoreTypeOK, Shape, Goto, store, calls, bounds, Stored, Sound
<1>13. ASSUME NEW o \in Ops, Command(o) PROVE Sound(k)'
  BY <1>3, <1>4, <1>5, <1>6, <1>7, <1>8, <1>9, <1>10, <1>13, Zenon DEF Command
<1>14. QED
  BY <1>2, <1>4, <1>11, <1>12, <1>13 DEF StoreNext, Finished

\* A call that fails half-way harms no key but its own, for administrators who
\* change each rule one at a time and keys alone, whatever else they do with the
\* damaged keys (redis_store.go:65-81, 159-174, 206-212).
THEOREM DamageStaysLocal == ASSUME Coordinated PROVE StoreSpec => []DamageIsLocal
<1> DEFINE Healthy == \A k \in Keys \ Harmed : Sound(k)
<1>1. StoreInit => Healthy
  BY StoreAssumption DEF StoreInit, Sound, RuleHas, EntryMeant, ClaimHas, MoveHas, DeleteHas, Stored
<1>2. StoreTypeOK /\ Shape /\ Facts /\ Healthy /\ [StoreNext]_storeVars => Healthy'
  BY HarmStays, NextSound
<1>3. ASSUME StoreTypeOK, Healthy, AtRest, NEW k \in Keys \ Harmed PROVE Agrees(k)
  <2>1. \A o \in Ops : pc[o] \in {"idle", "done", "failed"}
    BY <1>3 DEF AtRest, InFlight
  <2>2. QED BY <1>3, <2>1 DEF Sound, RuleHas, EntryMeant, Covers, Moving, Agrees
<1>4. StoreTypeOK /\ Healthy => DamageIsLocal
  BY <1>3 DEF DamageIsLocal
<1>5. StoreSpec => [](StoreTypeOK /\ Shape /\ Facts)
  BY InitShape, NextShape, InitFacts, NextFacts, PTL DEF StoreSpec
<1> HIDE DEF Healthy
<1>6. QED BY <1>1, <1>2, <1>4, <1>5, PTL DEF StoreSpec

-----------------------------------------------------------------------------
(* The structures agree at rest, if nothing fails *)

Undisturbed == Disciplined /\ MaxAborts = 0

\* Only a call that is about to repair it makes the listing differ from the rules.
Listing ==
  \A i \in Ops :
    /\ pc[i] = "sadd" => Stored(i)
    /\ i \in ids /\ ~Stored(i) => \E o \in Ops : pc[o] = "srem" /\ id[o] = i
    /\ Stored(i) /\ i \notin ids => kind[i] = "create" /\ pc[i] = "sadd"

Exact == cut = {} /\ Listing

LEMMA InitExact == StoreInit => Exact
BY DEF StoreInit, Exact, Listing, Stored

LEMMA NextUncut ==
  ASSUME StoreTypeOK, Undisturbed, cut = {}, [StoreNext]_storeVars PROVE cut' = {}
<1> USE DEF StoreTypeOK, Undisturbed, Disciplined, bounds
<1>1. ASSUME NEW o \in Ops, Begin(o) \/ Command(o) \/ Publish(o) PROVE cut' = cut
  BY <1>1 DEF Begin, BeginCreate, BeginEdit, Command, Claim, SAdd, Undo, Read, Check, DelOldIdx,
              SetNewIdx, SetRule, DelRule, SRem, DelIdx, Publish
<1>2. ASSUME NEW o \in Ops, CreateError(o) \/ Abort(o) PROVE FALSE
  BY <1>2 DEF CreateError, Abort
<1>3. QED BY <1>1, <1>2 DEF StoreNext, Finished, storeVars

LEMMA NextListing ==
  ASSUME StoreTypeOK, Shape, Undisturbed, Safe, Exact, [StoreNext]_storeVars
  PROVE  Listing'
<1> USE StoreAssumption, NoRuleIsNone
    DEF StoreTypeOK, Shape, Goto, store, calls, bounds, Exact, Listing, Safe, Control, Stored
<1>1. ASSUME NEW o \in Ops, Begin(o) PROVE Listing'
  BY <1>1 DEF Begin, BeginCreate, BeginEdit
<1>2. ASSUME NEW o \in Ops,
             Claim(o) \/ Read(o) \/ Check(o) \/ DelOldIdx(o) \/ SetNewIdx(o) \/ DelIdx(o) \/ Publish(o)
      PROVE  Listing'
  <2>1. /\ UNCHANGED <<rule, ids, id, kind>>
        /\ pc[o] \notin {"sadd", "srem"} /\ pc'[o] # "sadd"
        /\ \A p \in Ops \ {o} : pc'[p] = pc[p]
    BY <1>2 DEF Claim, Read, Check, DelOldIdx, SetNewIdx, DelIdx, Publish
  <2>2. QED BY <2>1
<1>3. ASSUME NEW o \in Ops, SAdd(o) PROVE Listing'
  BY <1>3 DEF SAdd
<1>4. ASSUME NEW o \in Ops, SetRule(o) PROVE Listing'
  <2>1. pc[o] = "set" /\ rule' = [rule EXCEPT ![id[o]] = Merged(o)] /\ Merged(o) # NoRule
    BY <1>4, MergedType DEF SetRule
  <2>2. kind[o] # "create" => Stored(id[o])
    BY <2>1 DEF Held, ReadHolds
  <2>3. QED BY <1>4, <2>1, <2>2 DEF SetRule
<1>5. ASSUME NEW o \in Ops, DelRule(o) PROVE Listing'
  <2>1. pc[o] = "del" /\ pc[id[o]] # "sadd"
    BY <1>5 DEF DelRule, EditedLate, Editing, InFlight, Published
  <2>2. QED BY <1>5, <2>1 DEF DelRule
<1>6. ASSUME NEW o \in Ops, SRem(o) PROVE Listing'
  BY <1>6 DEF SRem, Held, DeleteHolds
<1>7. ASSUME NEW o \in Ops, Undo(o) \/ CreateError(o) \/ Abort(o) PROVE Listing'
  BY <1>7 DEF Undo, CreateError, Abort, NoUndo, Undisturbed, Disciplined
<1>8. CASE UNCHANGED storeVars
  BY <1>8 DEF storeVars
<1>9. QED BY <1>1, <1>2, <1>3, <1>4, <1>5, <1>6, <1>7, <1>8 DEF StoreNext, Command, Finished

\* When no call is in flight, and none was cut off, the documents, the listing and
\* the index agree (redis_store.go:65-81, 164-174, 206-212).
THEOREM StructuresAgree == ASSUME Undisturbed PROVE StoreSpec => []ConsistentAtRest
<1>1. ASSUME StoreTypeOK, Safe, Exact, AtRest PROVE ids = {i \in Ops : Stored(i)}
  BY <1>1 DEF StoreTypeOK, Exact, Listing, AtRest, InFlight
<1>2. StoreTypeOK /\ Safe /\ Exact /\ DamageIsLocal => ConsistentAtRest
  BY <1>1 DEF Exact, DamageIsLocal, Harmed, ConsistentAtRest
<1>3. StoreTypeOK /\ Shape /\ Safe /\ Exact /\ [StoreNext]_storeVars => Exact'
  BY NextUncut, NextListing DEF Exact
<1>4. StoreSpec => [](StoreTypeOK /\ Shape /\ Safe)
  BY SafeAlways DEF Undisturbed
<1>5. StoreSpec => []DamageIsLocal
  BY DamageStaysLocal DEF Undisturbed, Disciplined, Coordinated
<1>6. StoreSpec => []Exact
  BY <1>3, <1>4, InitExact, PTL DEF StoreSpec
<1>7. QED BY <1>2, <1>4, <1>5, <1>6, PTL

-----------------------------------------------------------------------------
(* The rule book *)

LEMMA InitBook == StoreInit => Book!Init
BY DEF StoreInit, Book!Init

LEMMA CreateIsBooked ==
  ASSUME StoreTypeOK, Shape, Safe, NEW o \in Ops, SetRule(o), kind[o] = "create"
  PROVE  Book!Create(o, key[o])
<1>1. /\ pc[o] = "set" /\ id[o] = o /\ key[o] \in Keys
      /\ rule' = [rule EXCEPT ![o] = [key |-> key[o], dat |-> o]]
  BY DEF SetRule, Merged, Shape
<1>2. ~Stored(o) /\ idx[key[o]] = o
  BY <1>1 DEF Safe, Control, Held, StoredLate, ClaimHeld
<1>3. \A p, i \in Ops : ~Moving(p, i)
  BY <1>1 DEF Safe, Control, RekeyAlone, Rekeying, Moving, InFlight
<1>4. Book!Free(key[o])
  BY <1>2, <1>3 DEF Book!Free, Safe, Held, RuleHoldsItsKey, Stored
<1>5. QED BY <1>1, <1>2, <1>4 DEF Book!Create, Stored

LEMMA TextIsBooked ==
  ASSUME StoreTypeOK, Shape, Safe, NEW o \in Ops, SetRule(o), kind[o] = "dat"
  PROVE  Book!SetText(id[o], o)
<1>1. /\ pc[o] = "set" /\ seen[o] \in Rule
      /\ rule' = [rule EXCEPT ![id[o]] = [seen[o] EXCEPT !.dat = o]]
  BY DEF SetRule, Merged, Shape
<1>2. rule[id[o]] = seen[o] /\ rule[id[o]] # NoRule
  BY <1>1, NoRuleIsNone DEF Safe, Held, ReadHolds
<1>3. [seen[o] EXCEPT !.dat = o] = [key |-> seen[o].key, dat |-> o]
  BY <1>1 DEF Rule
<1>4. QED BY <1>1, <1>2, <1>3 DEF Book!SetText

\* Writing a patched key is a step of the book, or, if it is the old key, none.
LEMMA KeyIsBooked ==
  ASSUME StoreTypeOK, Shape, Safe, NEW o \in Ops, SetRule(o), kind[o] = "rekey"
  PROVE  Book!SetKey(id[o], key[o]) \/ UNCHANGED rule
<1>1. /\ pc[o] = "set" /\ seen[o] \in Rule /\ id[o] \in Ops /\ key[o] \in Keys
      /\ rule' = [rule EXCEPT ![id[o]] = [seen[o] EXCEPT !.key = key[o]]]
  BY DEF SetRule, Merged, Shape, StoreTypeOK
<1>2. rule[id[o]] = seen[o] /\ rule[id[o]] # NoRule /\ idx[key[o]] = id[o]
  BY <1>1, NoRuleIsNone DEF Safe, Held, ReadHolds, MoveHolds
<1>3. [seen[o] EXCEPT !.key = key[o]] = [key |-> key[o], dat |-> seen[o].dat]
  BY <1>1 DEF Rule
<1>4. CASE seen[o].key = key[o]
  BY <1>1, <1>2, <1>3, <1>4 DEF Rule, StoreTypeOK
<1>5. CASE seen[o].key # key[o]
  <2>1. \A p, i \in Ops : Moving(p, i) => i = id[o]
    BY <1>1 DEF Safe, Control, RekeyAlone, Rekeying, Moving, InFlight
  <2>2. Book!Free(key[o])
    BY <1>2, <1>5, <2>1 DEF Book!Free, Safe, Held, RuleHoldsItsKey, Stored
  <2>3. QED BY <1>1, <1>2, <1>3, <2>2 DEF Book!SetKey
<1>6. QED BY <1>4, <1>5

LEMMA NextBook ==
  ASSUME StoreTypeOK, Shape, Safe, [StoreNext]_storeVars PROVE [Book!Next]_rule
<1>1. ASSUME NEW o \in Ops, SetRule(o) PROVE [Book!Next]_rule
  <2>1. id[o] \in Ops /\ kind[o] \in {"create", "dat", "rekey"}
    BY <1>1 DEF SetRule, Shape, StoreTypeOK
  <2>2. CASE kind[o] = "create"
    <3>1. key[o] \in Keys
      BY <2>2 DEF Shape
    <3>2. QED BY <1>1, <2>2, <3>1, CreateIsBooked DEF Book!Next
  <2>3. CASE kind[o] = "dat"
    BY <1>1, <2>1, <2>3, TextIsBooked DEF Book!Next
  <2>4. CASE kind[o] = "rekey"
    <3>1. key[o] \in Keys
      BY <2>4 DEF Shape
    <3>2. QED BY <1>1, <2>1, <2>4, <3>1, KeyIsBooked DEF Book!Next
  <2>5. QED BY <2>1, <2>2, <2>3, <2>4
<1>2. ASSUME NEW o \in Ops, DelRule(o) PROVE Book!Next
  <2>1. id[o] \in Ops /\ Stored(id[o])
    BY <1>2, NoRuleIsNone DEF DelRule, Stored, StoreTypeOK, Shape, Safe, Held, ReadHolds
  <2>2. Book!Delete(id[o])
    BY <1>2, <2>1 DEF DelRule, Book!Delete, Stored
  <2>3. QED BY <2>1, <2>2 DEF Book!Next
<1>3. ASSUME NEW o \in Ops, Begin(o) \/ CreateError(o) \/ Publish(o) \/ Abort(o) PROVE UNCHANGED rule
  BY <1>3 DEF Begin, BeginCreate, BeginEdit, CreateError, Publish, Abort, store
<1>4. ASSUME NEW o \in Ops, Command(o), ~SetRule(o), ~DelRule(o) PROVE UNCHANGED rule
  <2>1. CASE Claim(o) \/ SAdd(o) \/ Undo(o)
    BY <2>1 DEF Claim, SAdd, Undo, store
  <2>2. CASE Read(o) \/ Check(o) \/ DelOldIdx(o) \/ SetNewIdx(o)
    BY <2>2 DEF Read, Check, DelOldIdx, SetNewIdx, store
  <2>3. CASE SRem(o) \/ DelIdx(o)
    BY <2>3 DEF SRem, DelIdx
  <2>4. QED BY <1>4, <2>1, <2>2, <2>3 DEF Command
<1>5. CASE UNCHANGED storeVars
  BY <1>5 DEF storeVars, store
<1>6. QED
  BY <1>1, <1>2, <1>3, <1>4, <1>5 DEF StoreNext, Finished

\* The store implements the rule book: whatever the interleaving of the calls'
\* commands, a rule is created with a free key, changed in the field the patch
\* names only, or deleted.
THEOREM ImplementsBook == ASSUME Disciplined PROVE StoreSpec => BookSpec
<1>1. StoreSpec => [][Book!Next]_rule
  BY SafeAlways, NextBook, PTL DEF StoreSpec
<1>2. StoreSpec => Book!Init
  BY InitBook DEF StoreSpec
<1>3. QED BY <1>1, <1>2, PTL DEF BookSpec, Book!Spec
=============================================================================
