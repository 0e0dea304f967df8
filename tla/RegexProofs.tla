----------------------------- MODULE RegexProofs -----------------------------
(***************************************************************************)
(* Proofs about the regex rules, for administrators whose calls overlap in *)
(* every order. In Redis: the types, and that what a patch or a delete did *)
(* is undone only by a later patch that names the field or by one that had *)
(* read the rule before, and the listing lacks only the rules such a patch *)
(* revives. In the gateways: what sorting gives, that a reload drops no    *)
(* rule that stays, and that followers at rest answer by the policy.       *)
(***************************************************************************)
EXTENDS RegexRules, FiniteSetTheorems, WellFoundedInduction, TLAPS

Kinds == {"none", "create", "patch", "delete"}
Pending == {"get", "set", "sadd", "del", "srem", "publish"}

LEMMA Ground ==
  /\ Ops \subseteq Nat /\ NoRule \notin Rules
  /\ \A d \in Drafts : DOMAIN d = Fields
  /\ \A p \in Patches : DOMAIN p \subseteq Fields
  /\ MaxAborts \in Nat
BY RegexAssumption

-----------------------------------------------------------------------------
(* Types *)

\* A rule is given by its five fields.
LEMMA RuleForm ==
  ASSUME NEW d, d = [f \in Fields \cup {"upd"} |-> d[f]],
         \A f \in Fields : d[f] \in Given(f),
         d["pat"] # Bad, d["upd"] \in Stamps
  PROVE  d \in Rules
BY DEF Rules, Fields

\* What a draft becomes.
LEMMA DraftedRule ==
  ASSUME NEW d \in Drafts, NEW now \in Stamps, Compiles(d.pat)
  PROVE  Patched(d, d, now) \in Rules
<1> DEFINE e == Patched(d, d, now)
<1>1. DOMAIN d = Fields
  BY Ground
<1>2. e = [f \in Fields \cup {"upd"} |-> IF f = "upd" THEN now ELSE d[f]]
  BY <1>1 DEF Patched, Fields
<1>3. \A f \in Fields : e[f] \in Given(f)
  BY <1>1, <1>2 DEF Given, Fields
<1>4. e["pat"] = d["pat"] /\ e["upd"] = now
  BY <1>2 DEF Fields
<1> HIDE DEF e
<1>5. e \in Rules
  BY <1>2, <1>3, <1>4, RuleForm DEF Compiles
<1>6. QED BY <1>5 DEF e

\* What a patch makes of a rule.
LEMMA PatchedRule ==
  ASSUME NEW old \in Rules, NEW p \in Patches, NEW now \in Stamps
  PROVE  Compiles(Patched(old, p, now).pat) => Patched(old, p, now) \in Rules
<1> DEFINE e == Patched(old, p, now)
<1>1. DOMAIN p \subseteq Fields
  BY Ground
<1>2. DOMAIN old = Fields \cup {"upd"} /\ \A f \in Fields : old[f] \in Given(f)
  BY DEF Rules, Fields
<1>3. e = [f \in Fields \cup {"upd"} |->
             IF f = "upd" THEN now ELSE IF f \in DOMAIN p THEN p[f] ELSE old[f]]
  BY <1>1, <1>2 DEF Patched, Fields
<1>4. \A f \in DOMAIN p : p[f] \in Given(f)
  BY DEF Given
<1>5. \A f \in Fields : e[f] \in Given(f)
  BY <1>2, <1>3, <1>4 DEF Fields
<1>6. e["upd"] = now
  BY <1>3 DEF Fields
<1> HIDE DEF e
<1>7. e["pat"] # Bad => e \in Rules
  BY <1>3, <1>5, <1>6, RuleForm
<1>8. QED BY <1>7 DEF e, Compiles

\* The fields it names, and those it does not.
LEMMA PatchedFields ==
  ASSUME NEW old, NEW p, NEW now, DOMAIN p \subseteq Fields
  PROVE  /\ \A f \in DOMAIN p : Patched(old, p, now)[f] = p[f]
         /\ \A f \in Fields \ DOMAIN p : Patched(old, p, now)[f] = old[f]
BY DEF Patched, Fields

\* A patch is one an administrator can ask for, and a create is about its own id.
Requested ==
  /\ DOMAIN doc = Ops /\ DOMAIN new = Ops
  /\ \A o \in Ops : kind[o] = "patch" => new[o] \in Patches
  /\ \A o \in Ops : kind[o] = "create" => new[o] \in Drafts
  /\ \A o \in Ops : kind[o] \in {"none", "create"} => id[o] = o
  /\ \A o \in Ops : kind[o] \in {"patch", "delete"} => kind[id[o]] = "create"

\* The commands of a call of each kind.
Course ==
  \A o \in Ops :
    /\ pc[o] = "idle" <=> kind[o] = "none"
    /\ pc[o] \in {"get", "del", "srem"} => kind[o] # "create"
    /\ pc[o] = "sadd" => kind[o] = "create"
    /\ pc[o] = "set" => kind[o] \in {"create", "patch"}
    /\ pc[o] \in {"del", "srem"} => kind[o] = "delete"

Typing == StoreTypeOK /\ Requested /\ Course

LEMMA InitType == StoreInit => Typing
<1>1. StoreInit => StoreTypeOK
  BY Ground DEF StoreInit, StoreTypeOK
<1>2. StoreInit => Requested /\ Course
  BY DEF StoreInit, Requested, Course
<1>3. QED BY <1>1, <1>2 DEF Typing

LEMMA BeginType ==
  ASSUME Typing, NEW o \in Ops, Begin(o) PROVE Typing'
<1> USE DEF Typing, Goto, store, history
<1>1. ASSUME NEW d \in Drafts, NEW now \in Stamps, BeginCreate(o, d, now) PROVE Typing'
  <2>1. StoreTypeOK'
    BY <1>1, DraftedRule DEF BeginCreate, StoreTypeOK, Requested
  <2>2. Requested'
    BY <1>1 DEF BeginCreate, StoreTypeOK, Requested, Course
  <2>3. Course'
    BY <1>1 DEF BeginCreate, StoreTypeOK, Course
  <2>4. QED BY <2>1, <2>2, <2>3
<1>2. ASSUME NEW i \in Ops, NEW p \in Patches, BeginPatch(o, i, p) PROVE Typing'
  <2>1. StoreTypeOK'
    BY <1>2 DEF BeginPatch, StoreTypeOK, Requested, Course
  <2>2. Requested'
    BY <1>2 DEF BeginPatch, Known, StoreTypeOK, Requested, Course
  <2>3. Course'
    BY <1>2 DEF BeginPatch, StoreTypeOK, Course
  <2>4. QED BY <2>1, <2>2, <2>3
<1>3. ASSUME NEW i \in Ops, BeginDelete(o, i) PROVE Typing'
  <2>1. StoreTypeOK'
    BY <1>3 DEF BeginDelete, StoreTypeOK, Requested, Course
  <2>2. Requested'
    BY <1>3 DEF BeginDelete, Known, StoreTypeOK, Requested, Course
  <2>3. Course'
    BY <1>3 DEF BeginDelete, StoreTypeOK, Course
  <2>4. QED BY <2>1, <2>2, <2>3
<1>4. QED BY <1>1, <1>2, <1>3 DEF Begin

LEMMA CommandType ==
  ASSUME Typing, NEW o \in Ops, Command(o) \/ Publish(o) \/ Abort(o) PROVE Typing'
<1> USE DEF Typing, Goto, store, history
<1>1. ASSUME NEW now \in Stamps, Read(o, now) PROVE Typing'
  <2>1. kind[o] = "patch" /\ Stored(id[o]) =>
          rule[id[o]] \in Rules /\ new[o] \in Patches
    BY DEF StoreTypeOK, Requested, Stored
  <2>2. ASSUME pc'[o] = "set" PROVE doc'[o] \in Rules
    <3>1. /\ kind[o] = "patch" /\ Stored(id[o])
          /\ doc' = [doc EXCEPT ![o] = Patched(rule[id[o]], new[o], now)]
          /\ Compiles(doc'[o].pat)
      BY <1>1, <2>2 DEF Read, StoreTypeOK
    <3>2. doc'[o] = Patched(rule[id[o]], new[o], now)
      BY <3>1 DEF Requested
    <3>3. QED BY <2>1, <3>1, <3>2, PatchedRule
  <2>3. StoreTypeOK'
    BY <1>1, <2>2 DEF Read, Writers, StoreTypeOK, Requested
  <2>4. Requested'
    BY <1>1 DEF Read, StoreTypeOK, Requested
  <2>5. Course'
    BY <1>1 DEF Read, StoreTypeOK, Course
  <2>6. QED BY <2>3, <2>4, <2>5
<1>2. ASSUME SetRule(o) \/ SAdd(o) \/ DelRule(o) \/ SRem(o) PROVE Typing'
  <2>1. StoreTypeOK'
    <3>1. SetRule(o) \/ SAdd(o) => StoreTypeOK'
      BY DEF SetRule, Writes, Writers, SAdd, history, StoreTypeOK, Requested, Course
    <3>2. DelRule(o) \/ SRem(o) => StoreTypeOK'
      BY DEF DelRule, Writes, Writers, SRem, history, StoreTypeOK, Course
    <3>3. QED BY <1>2, <3>1, <3>2
  <2>2. Requested'
    BY <1>2 DEF SetRule, SAdd, DelRule, SRem, StoreTypeOK, Requested
  <2>3. Course'
    BY <1>2 DEF SetRule, SAdd, DelRule, SRem, StoreTypeOK, Course
  <2>4. QED BY <2>1, <2>2, <2>3
<1>3. ASSUME Publish(o) \/ Abort(o) PROVE Typing'
  <2>1. StoreTypeOK'
    <3>1. Publish(o) => StoreTypeOK'
      BY DEF Publish, StoreTypeOK
    <3>2. Abort(o) => StoreTypeOK'
      BY Ground DEF Abort, StoreTypeOK
    <3>3. QED BY <1>3, <3>1, <3>2
  <2>2. Requested' /\ Course'
    BY <1>3 DEF Publish, Abort, InFlight, StoreTypeOK, Requested, Course
  <2>3. QED BY <2>1, <2>2
<1>4. QED BY <1>1, <1>2, <1>3 DEF Command

LEMMA NextType == ASSUME Typing, [StoreNext]_storeVars PROVE Typing'
<1>1. CASE UNCHANGED storeVars
  BY <1>1 DEF storeVars, store, calls, history, Typing, StoreTypeOK, Requested, Course
<1>2. QED BY <1>1, BeginType, CommandType DEF StoreNext

LEMMA Typed == StoreSpec => []Typing
BY InitType, NextType, PTL DEF StoreSpec

\* The steps of the gateways' memories leave the store as it is.
LEMMA StoreLayer == Spec => StoreSpec
<1>1. [Next]_vars => [StoreNext]_storeVars
  BY DEF Next, vars, BeginAt, CommandAt, PublishAt, StoreNext, List, Get, Install, Consume
<1>2. QED BY <1>1, PTL DEF Spec, StoreSpec, Init

\* However calls overlap and break off, no pattern that does not compile is stored.
THEOREM StoreTypeCorrect == Spec => []StoreTypeOK
BY Typed, StoreLayer, PTL DEF Typing

-----------------------------------------------------------------------------
(* What the calls have done *)

Edits(o) == kind[o] \in {"patch", "delete"}

\* A call writes once, after it has read, and nobody edits a rule that is being
\* created.
Order ==
  /\ \A o \in Ops : pc[o] \in {"idle", "get", "set", "del"} => o \notin wrote /\ past[o] = {}
  /\ \A o \in Ops : pc[o] \in {"sadd", "srem", "publish", "done"} => o \in wrote
  /\ \A o \in Ops : knew[o] \subseteq wrote /\ past[o] \subseteq wrote
  /\ \A i \in Ops : kind[i] = "create" /\ pc[i] \in {"set", "sadd"} =>
       i \notin ids /\ \A o \in Ops : Edits(o) => id[o] # i

LEMMA NextOrder ==
  ASSUME Typing, Order, [StoreNext]_storeVars PROVE Order'
<1> USE DEF Typing, StoreTypeOK, Course, Requested, Order, Edits, Goto, store, history
<1>1. ASSUME NEW o \in Ops, NEW d \in Drafts, NEW now \in Stamps, BeginCreate(o, d, now)
      PROVE  Order'
  BY <1>1 DEF BeginCreate
<1>2. ASSUME NEW o \in Ops, NEW i \in Ops,
             (\E p \in Patches : BeginPatch(o, i, p)) \/ BeginDelete(o, i)
      PROVE  Order'
  <2>1. kind[i] = "create" => pc[i] \notin {"set", "sadd"}
    BY <1>2 DEF BeginPatch, BeginDelete, Known
  <2>2. /\ pc[o] = "idle" /\ pc' = [pc EXCEPT ![o] = "get"] /\ ids' = ids
        /\ id' = [id EXCEPT ![o] = i] /\ UNCHANGED history
        /\ \E k \in {"patch", "delete"} : kind' = [kind EXCEPT ![o] = k]
    BY <1>2 DEF BeginPatch, BeginDelete
  <2>3. QED BY <2>1, <2>2
<1>3. ASSUME NEW o \in Ops, NEW now \in Stamps, Read(o, now) PROVE Order'
  BY <1>3 DEF Read, Writers
<1>4. ASSUME NEW o \in Ops, SetRule(o) PROVE Order'
  BY <1>4 DEF SetRule, Writes, Writers
<1>5. ASSUME NEW o \in Ops, DelRule(o) PROVE Order'
  BY <1>5 DEF DelRule, Writes, Writers
<1>6. ASSUME NEW o \in Ops, SAdd(o) \/ SRem(o) PROVE Order'
  BY <1>6 DEF SAdd, SRem
<1>7. ASSUME NEW o \in Ops, Publish(o) \/ Abort(o) PROVE Order'
  BY <1>7 DEF Publish, Abort, InFlight
<1>8. CASE UNCHANGED storeVars
  BY <1>8 DEF storeVars, calls
<1>9. QED BY <1>1, <1>2, <1>3, <1>4, <1>5, <1>6, <1>7, <1>8 DEF StoreNext, Begin, Command

\* What a call has done, and which calls it overlapped, does not change.
LEMMA Lasting ==
  ASSUME Typing, Order, [StoreNext]_storeVars
  PROVE  /\ \A o \in wrote : o \in wrote' /\ kind'[o] = kind[o] /\ id'[o] = id[o] /\ new'[o] = new[o]
         /\ \A o, p \in Ops : Overlapped(o, p) => Overlapped(o, p)'
         /\ \A o \in Ops, f \in Fields : Superseded(o, f) => Superseded(o, f)'
<1> USE DEF Typing, StoreTypeOK, Course, Requested, Goto, store, history
<1>1. \A p \in Ops : pc[p] # "idle" => kind'[p] = kind[p] /\ id'[p] = id[p] /\ new'[p] = new[p]
  BY DEF StoreNext, storeVars, calls, Begin, BeginCreate, BeginPatch, BeginDelete, Command, Read,
         SetRule, SAdd, DelRule, SRem, Publish, Abort
<1>2. wrote \subseteq wrote'
      /\ \A p \in Ops : past[p] # {} => past'[p] = past[p] /\ knew'[p] = knew[p]
  BY DEF StoreNext, storeVars, Begin, BeginCreate, BeginPatch, BeginDelete, Command, Read,
         SetRule, SAdd, DelRule, SRem, Publish, Abort, Writes, Order
<1>3. \A p \in Ops : p \in wrote \/ past[p] # {} => pc[p] # "idle"
  BY DEF Order
<1>4. \A o, p \in Ops : Overlapped(o, p) => Overlapped(o, p)'
  BY <1>1, <1>2, <1>3 DEF Overlapped
<1>5. \A o, p \in Ops : o \in past[p] => o \in past'[p] /\ new'[p] = new[p]
  BY <1>1, <1>2, <1>3
<1>6. \A o \in Ops, f \in Fields : Superseded(o, f) => Superseded(o, f)'
  BY <1>4, <1>5 DEF Superseded
<1>7. QED BY <1>1, <1>2, <1>3, <1>4, <1>6

\* A stored rule has what call o gave it, where nothing later undid it.
Kept(o) ==
  kind[o] # "delete" /\ Stored(id[o]) =>
    \A f \in DOMAIN new[o] : rule[id[o]][f] = new[o][f] \/ Superseded(o, f)

\* A rule that o deleted is stored only if a call that overlapped it wrote it back.
Gone(o) == kind[o] = "delete" /\ Stored(id[o]) => \E p \in Ops : Overlapped(o, p)

\* What call p is about to write has the fields p names and, in the others, what the
\* calls p knew have made of the rule.
Carried(p) ==
  pc[p] = "set" =>
    /\ \A f \in DOMAIN new[p] : doc[p][f] = new[p][f]
    /\ kind[p] = "patch" => \A o \in knew[p] :
         /\ kind[o] # "delete" =>
              \A f \in DOMAIN new[o] \ DOMAIN new[p] : doc[p][f] = new[o][f] \/ Superseded(o, f)
         /\ kind[o] = "delete" => \E q \in Ops : Overlapped(o, q)

Facts == (\A o \in wrote : Kept(o) /\ Gone(o)) /\ (\A p \in Ops : Carried(p))

\* What a create or a patch names are fields of a rule.
LEMMA Named ==
  ASSUME Typing, NEW o \in Ops, kind[o] \in {"create", "patch"} PROVE DOMAIN new[o] \subseteq Fields
BY Ground DEF Typing, Requested

LEMMA NamedByWriter ==
  ASSUME Typing, Order, NEW o \in wrote, kind[o] # "delete" PROVE DOMAIN new[o] \subseteq Fields
<1>1. o \in Ops /\ pc[o] # "idle"
  BY DEF Typing, StoreTypeOK, Order
<1>2. kind[o] \in {"create", "patch"}
  BY <1>1 DEF Typing, StoreTypeOK, Course
<1>3. QED BY <1>1, <1>2, Named

\* A step that leaves the rule of a call alone leaves what it did alone.
LEMMA KeptStays ==
  ASSUME Typing, Order, [StoreNext]_storeVars, NEW o \in wrote, Kept(o), Gone(o),
         rule'[id[o]] = rule[id[o]]
  PROVE  Kept(o)' /\ Gone(o)'
<1>1. o \in Ops /\ kind'[o] = kind[o] /\ id'[o] = id[o] /\ new'[o] = new[o]
  BY Lasting DEF Typing, StoreTypeOK
<1>2. Gone(o)'
  BY <1>1, Lasting DEF Gone, Stored
<1>3. Kept(o)'
  <2>1. kind[o] # "delete" => DOMAIN new[o] \subseteq Fields
    BY NamedByWriter
  <2>2. QED BY <1>1, <2>1, Lasting DEF Kept, Stored
<1>4. QED BY <1>2, <1>3

LEMMA CarriedStays ==
  ASSUME Typing, Order, [StoreNext]_storeVars, NEW p \in Ops, Carried(p), pc'[p] = pc[p],
         kind'[p] = kind[p], new'[p] = new[p], doc'[p] = doc[p], knew'[p] = knew[p]
  PROVE  Carried(p)'
<1> SUFFICES ASSUME pc[p] = "set" PROVE Carried(p)'
  BY DEF Carried
<1>1. knew[p] \subseteq wrote /\ wrote \subseteq Ops
  BY DEF Order, Typing, StoreTypeOK
<1>2. ASSUME kind[p] = "patch", NEW o \in knew[p], kind[o] # "delete",
             NEW f \in DOMAIN new[o] \ DOMAIN new[p]
      PROVE  doc[p][f] = new[o][f] \/ Superseded(o, f)'
  <2>1. f \in Fields
    BY <1>1, <1>2, NamedByWriter
  <2>2. QED BY <1>1, <1>2, <2>1, Lasting DEF Carried
<1>3. ASSUME kind[p] = "patch", NEW o \in knew[p], kind[o] = "delete"
      PROVE  \E q \in Ops : Overlapped(o, q)'
  BY <1>1, <1>3, Lasting DEF Carried
<1>4. \A o \in knew[p] : kind'[o] = kind[o] /\ new'[o] = new[o]
  BY <1>1, Lasting
<1>5. QED BY <1>2, <1>3, <1>4 DEF Carried

LEMMA BeginFacts ==
  ASSUME Typing, Order, Facts, [StoreNext]_storeVars, NEW o \in Ops, Begin(o) PROVE Facts'
<1> USE DEF Typing, StoreTypeOK, Course, Requested, Goto, store, history
<1>1. /\ UNCHANGED <<rule, wrote, knew>>
      /\ \A p \in Ops \ {o} : /\ pc'[p] = pc[p] /\ kind'[p] = kind[p]
                              /\ new'[p] = new[p] /\ doc'[p] = doc[p]
  BY DEF Begin, BeginCreate, BeginPatch, BeginDelete
<1>2. \A w \in wrote : Kept(w)' /\ Gone(w)'
  BY <1>1, KeptStays DEF Facts
<1>3. \A p \in Ops \ {o} : Carried(p)'
  BY <1>1, CarriedStays DEF Facts
<1>4. Carried(o)'
  <2>1. ASSUME NEW d \in Drafts, NEW now \in Stamps, BeginCreate(o, d, now) PROVE Carried(o)'
    <3>1. new'[o] = d /\ doc'[o] = Patched(d, d, now) /\ kind'[o] = "create"
      BY <2>1 DEF BeginCreate
    <3>2. \A f \in DOMAIN d : Patched(d, d, now)[f] = d[f]
      BY PatchedFields, Ground
    <3>3. QED BY <3>1, <3>2 DEF Carried
  <2>2. ASSUME NEW i \in Ops, (\E p \in Patches : BeginPatch(o, i, p)) \/ BeginDelete(o, i)
        PROVE  Carried(o)'
    BY <2>2 DEF BeginPatch, BeginDelete, Carried
  <2>3. QED BY <2>1, <2>2 DEF Begin
<1>5. QED BY <1>1, <1>2, <1>3, <1>4 DEF Facts

LEMMA ReadFacts ==
  ASSUME Typing, Order, Facts, [StoreNext]_storeVars, NEW o \in Ops, NEW now \in Stamps, Read(o, now)
  PROVE  Facts'
<1> USE DEF Typing, StoreTypeOK, Course, Requested, Goto, store, history
<1>1. /\ UNCHANGED <<rule, wrote, kind, id, new>>
      /\ \A p \in Ops \ {o} : pc'[p] = pc[p] /\ doc'[p] = doc[p] /\ knew'[p] = knew[p]
      /\ knew'[o] = Writers(id[o])
  BY DEF Read
<1>2. \A w \in wrote : Kept(w)' /\ Gone(w)'
  BY <1>1, KeptStays DEF Facts
<1>3. \A p \in Ops \ {o} : Carried(p)'
  BY <1>1, CarriedStays DEF Facts
<1>4. ASSUME pc'[o] = "set" PROVE Carried(o)'
  <2>1. /\ kind[o] = "patch" /\ Stored(id[o])
        /\ doc'[o] = Patched(rule[id[o]], new[o], now)
    BY <1>4 DEF Read
  <2>2. DOMAIN new[o] \subseteq Fields
    BY <2>1, Named
  <2>3. \A f \in DOMAIN new[o] : doc'[o][f] = new[o][f]
    BY <2>1, <2>2, PatchedFields
  <2>4. ASSUME NEW q \in Writers(id[o]), kind[q] # "delete",
               NEW f \in DOMAIN new[q] \ DOMAIN new[o]
        PROVE  doc'[o][f] = new[q][f] \/ Superseded(q, f)'
    <3>1. q \in wrote /\ q \in Ops /\ id[q] = id[o]
      BY DEF Writers
    <3>2. f \in Fields
      BY <2>4, <3>1, NamedByWriter
    <3>3. doc'[o][f] = rule[id[q]][f]
      BY <2>1, <2>2, <3>1, <3>2, <2>4, PatchedFields
    <3>4. rule[id[q]][f] = new[q][f] \/ Superseded(q, f)
      BY <2>1, <2>4, <3>1 DEF Facts, Kept
    <3>5. QED BY <3>1, <3>2, <3>3, <3>4, Lasting
  <2>5. ASSUME NEW q \in Writers(id[o]), kind[q] = "delete"
        PROVE  \E p \in Ops : Overlapped(q, p)'
    <3>1. q \in wrote /\ q \in Ops /\ id[q] = id[o]
      BY DEF Writers
    <3>2. \E p \in Ops : Overlapped(q, p)
      BY <2>1, <2>5, <3>1 DEF Facts, Gone
    <3>3. QED BY <3>1, <3>2, Lasting
  <2>6. QED BY <1>1, <2>3, <2>4, <2>5 DEF Carried
<1>5. Carried(o)'
  BY <1>4 DEF Carried
<1>6. QED BY <1>1, <1>2, <1>3, <1>5 DEF Facts

\* The step that matters: p writes what it read and patched.
LEMMA SetFacts ==
  ASSUME Typing, Order, Facts, [StoreNext]_storeVars, NEW p \in Ops, SetRule(p) PROVE Facts'
<1> USE DEF Typing, StoreTypeOK, Course, Requested, Goto, store, history
<1>1. /\ pc[p] = "set" /\ rule' = [rule EXCEPT ![id[p]] = doc[p]] /\ UNCHANGED <<kind, id, new, doc, knew>>
      /\ wrote' = wrote \cup {p} /\ past'[p] = Writers(id[p])
      /\ \A o \in Ops \ {p} : pc'[o] = pc[o]
  BY DEF SetRule, Writes
<1>2. pc'[p] # "set"
  BY DEF SetRule
<1>3. \A o \in Ops : Carried(o)'
  BY <1>1, <1>2, CarriedStays DEF Facts, Carried
<1>4. kind[p] \in {"create", "patch"}
  BY <1>1
<1>5. Kept(p)' /\ Gone(p)'
  BY <1>1, <1>4 DEF Facts, Carried, Kept, Gone
<1>6. ASSUME NEW o \in wrote, o # p PROVE Kept(o)' /\ Gone(o)'
  <2>1. o \in Ops /\ Kept(o) /\ Gone(o)
    BY DEF Facts
  <2>2. CASE id[o] # id[p]
    BY <1>1, <2>1, <2>2, KeptStays
  <2>3. CASE id[o] = id[p]
    <3>1. o \in past'[p] /\ rule'[id[o]] = doc[p]
      BY <1>1, <2>3 DEF Writers
    <3>2. CASE kind[p] = "create"
      \* a create names every field, and nobody has edited the rule
      <4>1. DOMAIN new[p] = Fields
        BY <3>2, Ground
      <4>2. kind[o] # "delete" => \A f \in DOMAIN new[o] : Superseded(o, f)'
        BY <1>1, <2>1, <3>1, <4>1, NamedByWriter DEF Superseded
      <4>3. kind[o] # "delete"
        BY <1>1, <2>1, <2>3, <3>2 DEF Order, Edits
      <4>4. QED BY <1>1, <4>2, <4>3 DEF Kept, Gone
    <3>3. CASE kind[p] = "patch" /\ o \notin knew[p]
      <4>1. Overlapped(o, p)'
        BY <1>1, <3>1, <3>3 DEF Overlapped
      <4>2. QED BY <2>1, <4>1 DEF Kept, Gone, Superseded
    <3>4. CASE kind[p] = "patch" /\ o \in knew[p]
      <4>1. kind[o] = "delete" => \E q \in Ops : Overlapped(o, q)'
        BY <1>1, <2>1, <3>4, Lasting DEF Facts, Carried
      <4>2. ASSUME kind[o] # "delete", NEW f \in DOMAIN new[o]
            PROVE  doc[p][f] = new[o][f] \/ Superseded(o, f)'
        <5>1. CASE f \in DOMAIN new[p]
          BY <1>1, <2>1, <3>1, <5>1 DEF Superseded
        <5>2. CASE f \notin DOMAIN new[p]
          <6>1. f \in Fields
            BY <4>2, NamedByWriter
          <6>2. doc[p][f] = new[o][f] \/ Superseded(o, f)
            BY <1>1, <3>4, <4>2, <5>2 DEF Facts, Carried
          <6>3. QED BY <2>1, <6>1, <6>2, Lasting
        <5>3. QED BY <5>1, <5>2
      <4>3. QED BY <1>1, <3>1, <4>1, <4>2 DEF Kept, Gone
    <3>5. QED BY <1>4, <3>2, <3>3, <3>4
  <2>4. QED BY <2>2, <2>3
<1>7. QED BY <1>1, <1>3, <1>5, <1>6 DEF Facts

LEMMA DelFacts ==
  ASSUME Typing, Order, Facts, [StoreNext]_storeVars, NEW p \in Ops, DelRule(p) PROVE Facts'
<1> USE DEF Typing, StoreTypeOK, Course, Requested, Goto, store, history
<1>1. /\ rule' = [rule EXCEPT ![id[p]] = NoRule] /\ UNCHANGED <<kind, id, new, doc, knew>>
      /\ wrote' = wrote \cup {p} /\ pc'[p] = "srem"
      /\ \A o \in Ops \ {p} : pc'[o] = pc[o]
  BY DEF DelRule, Writes
<1>2. \A o \in Ops : Carried(o)'
  BY <1>1, CarriedStays DEF Facts, Carried
<1>3. ASSUME NEW o \in wrote' PROVE Kept(o)' /\ Gone(o)'
  <2>1. CASE id[o] = id[p]
    BY <1>1, <2>1 DEF Kept, Gone, Stored
  <2>2. CASE id[o] # id[p]
    BY <1>1, <2>2, KeptStays DEF Facts
  <2>3. QED BY <2>1, <2>2
<1>4. QED BY <1>2, <1>3 DEF Facts

LEMMA OtherFacts ==
  ASSUME Typing, Order, Facts, [StoreNext]_storeVars, NEW o \in Ops,
         SAdd(o) \/ SRem(o) \/ Publish(o) \/ Abort(o)
  PROVE  Facts'
<1> USE DEF Typing, StoreTypeOK, Goto, store, history
<1>1. /\ UNCHANGED <<rule, wrote, kind, id, new, doc, knew>> /\ pc'[o] # "set"
      /\ \A p \in Ops \ {o} : pc'[p] = pc[p]
  BY DEF SAdd, SRem, Publish, Abort
<1>2. \A w \in wrote : Kept(w)' /\ Gone(w)'
  BY <1>1, KeptStays DEF Facts
<1>3. \A p \in Ops : Carried(p)'
  BY <1>1, CarriedStays DEF Facts, Carried
<1>4. QED BY <1>1, <1>2, <1>3 DEF Facts

LEMMA NextFacts ==
  ASSUME Typing, Order, Facts, [StoreNext]_storeVars PROVE Facts'
<1>1. CASE UNCHANGED storeVars
  <2>1. UNCHANGED <<rule, wrote, kind, new, doc, knew, pc>>
    BY <1>1 DEF storeVars, store, calls, history
  <2>2. (\A w \in wrote : Kept(w)' /\ Gone(w)') /\ \A p \in Ops : Carried(p)'
    BY <2>1, KeptStays, CarriedStays DEF Facts
  <2>3. QED BY <2>1, <2>2 DEF Facts
<1>2. QED BY <1>1, BeginFacts, ReadFacts, SetFacts, DelFacts, OtherFacts DEF StoreNext, Command

LEMMA Recorded == Spec => [](Typing /\ Order /\ Facts)
<1>1. StoreInit => Order /\ Facts
  BY DEF StoreInit, Order, Edits, Facts, Kept, Gone, Carried
<1>2. QED BY <1>1, StoreLayer, Typed, NextOrder, NextFacts, PTL DEF StoreSpec

\* What a patch gave a field lasts until a later one names it or overlaps.
THEOREM PatchesStick == Spec => []ChangesStick
<1>1. Facts => ChangesStick
  BY DEF Facts, Kept, ChangesStick
<1>2. QED BY <1>1, Recorded, PTL

\* Only a patch that had read the rule before brings a deleted rule back.
THEOREM DeletionsLast == Spec => []RevivedOnlyByOverlap
<1>1. Typing /\ Order /\ Facts => RevivedOnlyByOverlap
  BY DEF Order, Facts, Gone, RevivedOnlyByOverlap
<1>2. QED BY <1>1, Recorded, PTL

-----------------------------------------------------------------------------
(* The listing *)

Removed(i) == \E o \in wrote : kind[o] = "delete" /\ id[o] = i

\* While no call was cut off: what is listed or stored has been created, a rule is
\* there and listed until a call deletes it, and then listed only till its SREM.
Listing ==
  aborts = 0 => \A i \in Ops :
    /\ i \in ids => kind[i] = "create" /\ pc[i] \in {"publish", "done"}
    /\ Stored(i) => kind[i] = "create" /\ pc[i] \in {"sadd", "publish", "done"}
    /\ \A o \in Ops : Edits(o) /\ id[o] = i => pc[i] \in {"publish", "done"}
    /\ kind[i] = "create" /\ pc[i] \in {"sadd", "publish", "done"} => Stored(i) \/ Removed(i)
    /\ kind[i] = "create" /\ pc[i] \in {"publish", "done"} => i \in ids \/ Removed(i)
    /\ i \in ids => \A o \in wrote : kind[o] = "delete" /\ id[o] = i => pc[o] = "srem"

LEMMA NextListing ==
  ASSUME Typing, Order, Listing, [StoreNext]_storeVars PROVE Listing'
<1> USE DEF Typing, StoreTypeOK, Course, Requested, Goto, store, history, Listing, Stored, Edits, Removed
<1>1. ASSUME NEW o \in Ops, NEW d \in Drafts, NEW now \in Stamps, BeginCreate(o, d, now)
      PROVE  Listing'
  BY <1>1 DEF BeginCreate, Order
<1>2. ASSUME NEW o \in Ops, NEW i \in Ops,
             (\E p \in Patches : BeginPatch(o, i, p)) \/ BeginDelete(o, i)
      PROVE  Listing'
  <2>1. aborts = 0 => kind[i] = "create" /\ pc[i] \in {"publish", "done"}
    BY <1>2 DEF BeginPatch, BeginDelete, Known
  <2>2. /\ pc[o] = "idle" /\ pc' = [pc EXCEPT ![o] = "get"] /\ UNCHANGED <<rule, ids, wrote, aborts>>
        /\ id' = [id EXCEPT ![o] = i]
        /\ \E k \in {"patch", "delete"} : kind' = [kind EXCEPT ![o] = k]
    BY <1>2 DEF BeginPatch, BeginDelete
  <2>3. QED BY <2>1, <2>2 DEF Order
<1>3. ASSUME NEW o \in Ops, NEW now \in Stamps, Read(o, now) PROVE Listing'
  BY <1>3 DEF Read, Order
<1>4. ASSUME NEW o \in Ops, SetRule(o) PROVE Listing'
  BY <1>4, Ground DEF SetRule, Writes, Order
<1>5. ASSUME NEW o \in Ops, SAdd(o) PROVE Listing'
  BY <1>5 DEF SAdd, Order
<1>6. ASSUME NEW o \in Ops, DelRule(o) PROVE Listing'
  BY <1>6 DEF DelRule, Writes, Order
<1>7. ASSUME NEW o \in Ops, SRem(o) PROVE Listing'
  BY <1>7 DEF SRem, Order
<1>8. ASSUME NEW o \in Ops, Publish(o) PROVE Listing'
  BY <1>8 DEF Publish
<1>9. ASSUME NEW o \in Ops, Abort(o) PROVE Listing'
  BY <1>9, Ground DEF Abort
<1>10. CASE UNCHANGED storeVars
  BY <1>10 DEF storeVars, calls
<1>11. QED BY <1>1, <1>2, <1>3, <1>4, <1>5, <1>6, <1>7, <1>8, <1>9, <1>10 DEF StoreNext, Begin, Command

\* At rest and without a failure the listing lacks the revived rules and no other.
THEOREM ListingLacksRevived == Spec => []OnlyRevivedUnlisted
<1>1. StoreInit => Listing
  BY DEF StoreInit, Listing, Stored, Edits
<1>2. ASSUME Typing, Order, Facts, Listing, AtRest, aborts = 0, NEW i \in Ops
      PROVE  i \in ids <=> Stored(i) /\ ~Revived(i)
  <2>1. Revived(i) => Removed(i)
    BY <1>2 DEF Revived, Removed, Overlapped, Order
  <2>2. i \in ids => ~Removed(i)
    BY <1>2 DEF Removed, Listing, AtRest, InFlight, Typing, StoreTypeOK
  <2>3. i \in ids => Stored(i) /\ ~Revived(i)
    BY <1>2, <2>1, <2>2 DEF Listing
  <2>4. Stored(i) /\ Removed(i) => Revived(i)
    BY <1>2 DEF Removed, Revived, Facts, Gone, Typing, StoreTypeOK
  <2>5. Stored(i) /\ ~Removed(i) => i \in ids
    BY <1>2 DEF Listing, AtRest, InFlight
  <2>6. QED BY <2>3, <2>4, <2>5
<1>3. Typing /\ Order /\ Facts /\ Listing => OnlyRevivedUnlisted
  <2>1. Typing => ids \subseteq Ops
    BY DEF Typing, StoreTypeOK
  <2>2. QED BY <1>2, <2>1 DEF OnlyRevivedUnlisted
<1>4. QED BY <1>1, <1>3, Recorded, StoreLayer, NextListing, PTL DEF StoreSpec

-----------------------------------------------------------------------------
(* The order of the entries *)

LEMMA LeastOf ==
  ASSUME NEW I \in SUBSET Nat, I # {} PROVE Min(I) \in I /\ \A n \in I : Min(I) <= n
<1> DEFINE Up == {0 .. m : m \in I}
<1>1. Up \subseteq FiniteSubsetsOf(Nat) /\ Up # {}
  <2>1. \A m \in I : 0 .. m \in SUBSET Nat /\ IsFiniteSet(0 .. m)
    BY FS_Interval
  <2>2. QED BY <2>1 DEF FiniteSubsetsOf
<1>2. PICK X \in Up : \A Y \in Up : ~(<<Y, X>> \in StrictSubsetOrdering(Nat))
  BY <1>1, FS_StrictSubsetOrderingWellFounded, WFMin
<1>3. PICK m \in I : X = 0 .. m
  OBVIOUS
<1>4. ASSUME NEW n \in I, n < m PROVE FALSE
  <2>1. 0 .. n \in SUBSET Nat /\ 0 .. m \in SUBSET Nat /\ 0 .. n \in Up
    OBVIOUS
  <2>2. 0 .. n \subseteq 0 .. m /\ m \in 0 .. m /\ m \notin 0 .. n
    BY <1>4
  <2>3. 0 .. n # 0 .. m
    BY <2>2
  <2>4. <<0 .. n, 0 .. m>> \in StrictSubsetOrdering(Nat)
    BY <2>1, <2>2, <2>3 DEF StrictSubsetOrdering
  <2>5. QED BY <1>2, <1>3, <2>1, <2>4
<1>5. \A n \in I : m <= n
  BY <1>4
<1>6. QED BY <1>5 DEF Min

Entries == [id : Ops, scope : Scopes, re : Given("pat") \ {Bad}, dat : Given("dat"),
            pri : Given("pri"), upd : Stamps]

LEMMA EntryInts == \A e \in Entries : e.pri \in Int /\ e.upd \in Int /\ e.id \in Int
<1>1. Ops \subseteq Nat /\ Stamps \subseteq Nat /\ Given("pri") \subseteq Int
  BY RegexAssumption
<1>2. \A e \in Entries : e.pri \in Given("pri") /\ e.upd \in Stamps /\ e.id \in Ops
  BY DEF Entries
<1>3. (\A p \in Given("pri") : p \in Int) /\ (\A u \in Stamps : u \in Int) /\ (\A i \in Ops : i \in Int)
  BY <1>1
<1>4. QED BY <1>2, <1>3, Zenon

\* The rules of a scope have a strict order, total on different ids.
LEMMA BeforeOrders ==
  /\ \A e \in Entries : ~Before(e, e)
  /\ \A e, f \in Entries : e.id # f.id => Before(e, f) \/ Before(f, e)
  /\ \A e, f, g \in Entries : Before(e, f) /\ Before(f, g) => Before(e, g)
BY EntryInts DEF Before

\* A finite set of entries with different ids has one sorted enumeration at least.
LEMMA SortedExists ==
  ASSUME NEW E \in SUBSET Entries, IsFiniteSet(E), \A e, f \in E : e.id = f.id => e = f
  PROVE  \E seq \in SetToSeqs(E) :
           \A m, n \in 1 .. Cardinality(E) : m < n => Before(seq[m], seq[n])
<1> DEFINE N == Cardinality(E)
           Ahead(x) == {y \in E : Before(y, x)}
           rank == [x \in E |-> Cardinality(Ahead(x)) + 1]
<1>1. N \in Nat
  BY FS_CardinalityType
<1>2. \A x, y \in E : x # y => Before(x, y) \/ Before(y, x)
  BY BeforeOrders
<1>3. ASSUME NEW x \in E
      PROVE  /\ IsFiniteSet(Ahead(x)) /\ Cardinality(Ahead(x)) \in Nat
             /\ Cardinality(Ahead(x)) + 1 <= N
  <2>1. Ahead(x) \in SUBSET E /\ Ahead(x) \cup {x} \in SUBSET E /\ x \notin Ahead(x)
    BY BeforeOrders
  <2>2. IsFiniteSet(Ahead(x))
    BY <2>1, FS_Subset
  <2>3. Cardinality(Ahead(x) \cup {x}) = Cardinality(Ahead(x)) + 1
    BY <2>1, <2>2, FS_AddElement
  <2>4. Cardinality(Ahead(x) \cup {x}) <= N
    BY <2>1, FS_Subset
  <2>5. QED BY <2>2, <2>3, <2>4, FS_CardinalityType
<1>4. ASSUME NEW x \in E, NEW y \in E, Before(x, y) PROVE rank[x] < rank[y]
  <2>1. Ahead(x) \cup {x} \in SUBSET Ahead(y) /\ x \notin Ahead(x)
    BY <1>4, BeforeOrders
  <2>2. Cardinality(Ahead(x) \cup {x}) = Cardinality(Ahead(x)) + 1
    BY <1>3, <2>1, FS_AddElement
  <2>3. Cardinality(Ahead(x) \cup {x}) <= Cardinality(Ahead(y))
    <3>1. IsFiniteSet(Ahead(y))
      BY <1>3
    <3>2. QED BY <2>1, <3>1, FS_Subset
  <2>4. Cardinality(Ahead(x)) \in Nat /\ Cardinality(Ahead(y)) \in Nat
    BY <1>3
  <2>5. QED BY <2>2, <2>3, <2>4
<1>5. rank \in [E -> 1 .. N]
  <2>1. ASSUME NEW x \in E PROVE Cardinality(Ahead(x)) + 1 \in 1 .. N
    <3>1. Cardinality(Ahead(x)) \in Nat /\ Cardinality(Ahead(x)) + 1 <= N
      BY <1>3
    <3>2. QED BY <1>1, <3>1
  <2>2. QED BY <2>1
<1>6. \A x, y \in E : rank[x] = rank[y] => x = y
  <2>1. \A x, y \in E : Before(x, y) => rank[x] # rank[y]
    <3>1. \A x \in E : rank[x] \in Int
      BY <1>1, <1>5
    <3>2. QED BY <1>4, <3>1
  <2>2. QED BY <1>2, <2>1
<1> HIDE DEF rank
<1>7. rank \in Surjection(E, 1 .. N)
  <2>1. IsFiniteSet(1 .. N) /\ Cardinality(1 .. N) = N
    BY <1>1, FS_Interval
  <2>2. rank \in Injection(E, 1 .. N)
    BY <1>5, <1>6 DEF Injection, IsInjective
  <2>3. QED BY <2>1, <2>2, FS_Injection
<1>8. \A n \in 1 .. N : \E x \in E : rank[x] = n
  BY <1>7 DEF Surjection
<1> DEFINE seq == [n \in 1 .. N |-> CHOOSE x \in E : rank[x] = n]
<1>9. seq \in [1 .. N -> E] /\ \A n \in 1 .. N : rank[seq[n]] = n
  BY <1>8
<1>10. \A m, n \in 1 .. N : m # n => seq[m] # seq[n]
  BY <1>9
<1>11. ASSUME NEW m \in 1 .. N, NEW n \in 1 .. N, m < n PROVE Before(seq[m], seq[n])
  <2>1. seq[m] \in E /\ seq[n] \in E /\ rank[seq[m]] = m /\ rank[seq[n]] = n
    BY <1>9
  <2>2. ~Before(seq[n], seq[m])
    BY <1>1, <1>4, <1>11, <2>1
  <2>3. QED BY <1>2, <1>10, <1>11, <2>1, <2>2
<1> HIDE DEF seq
<1>12. seq \in SetToSeqs(E)
  BY <1>9, <1>10 DEF SetToSeqs
<1>13. QED BY <1>11, <1>12

\* What is in a sorted sequence, and how.
LEMMA OrderedSeq ==
  ASSUME NEW E \in SUBSET Entries, IsFiniteSet(E), \A e, f \in E : e.id = f.id => e = f
  PROVE  /\ Ordered(E) \in [1 .. Cardinality(E) -> E]
         /\ Len(Ordered(E)) \in Nat /\ DOMAIN Ordered(E) = 1 .. Len(Ordered(E))
         /\ {Ordered(E)[n] : n \in DOMAIN Ordered(E)} = E
         /\ \A m, n \in DOMAIN Ordered(E) : m < n => Before(Ordered(E)[m], Ordered(E)[n])
<1> DEFINE N == Cardinality(E)
           seq == Ordered(E)
<1>1. seq \in SetToSeqs(E) /\ \A m, n \in 1 .. N : m < n => Before(seq[m], seq[n])
  BY SortedExists DEF Ordered
<1> HIDE DEF seq
<1>2. seq \in [1 .. N -> E] /\ \A m, n \in 1 .. N : m # n => seq[m] # seq[n]
  BY <1>1 DEF SetToSeqs
<1>3. N \in Nat /\ IsFiniteSet(1 .. N) /\ Cardinality(1 .. N) = N
  BY FS_CardinalityType, FS_Interval
<1>4. seq \in Injection(1 .. N, E)
  BY <1>2 DEF Injection, IsInjective
<1>5. seq \in Surjection(1 .. N, E)
  BY <1>3, <1>4, FS_Injection
<1>6. \A e \in E : \E n \in 1 .. N : seq[n] = e
  BY <1>5 DEF Surjection
<1>7. Len(seq) = N
  BY <1>2, <1>3
<1>8. QED BY <1>1, <1>2, <1>3, <1>6, <1>7 DEF seq
-----------------------------------------------------------------------------
(* What reloads have read *)

Loads == [phase : {"no", "list", "get"}, todo : SUBSET Ops, read : SUBSET Entries]

\* An administrator has asked for the deletion of the rule.
Deleting(i) == \E o \in Ops : id[o] = i /\ kind[o] = "delete"

\* Nothing but a deletion takes a listed rule away.
ListedStay ==
  \A i \in Ops : i \in ids \/ (kind[i] = "create" /\ pc[i] = "sadd") => Stored(i) \/ Deleting(i)

\* A reload reads each listed rule once.
ReadOnce(t) ==
  /\ IsFiniteSet(load[t].todo) /\ IsFiniteSet(load[t].read)
  /\ \A e, f \in load[t].read : e.id = f.id => e = f
  /\ \A e \in load[t].read : e.id \notin load[t].todo
  /\ \A i \in Ops : i \in load[t].todo \/ (\E e \in load[t].read : e.id = i) =>
       i \in ids \/ Deleting(i)

Reading ==
  /\ gw \in [Ops -> AdminGateways]
  /\ DOMAIN mem = Gateways
  /\ inbox \in [Gateways -> Nat]
  /\ load \in [Reloaders -> Loads]
  /\ IsFiniteSet(ids)
  /\ ListedStay
  /\ \A t \in Reloaders : ReadOnce(t)

\* A follower serves listed rules, and its reload has read them or will.
Keeping ==
  \A g \in Followers, i \in Ops : Served(mem[g], i) /\ ~Deleting(i) =>
    /\ i \in ids
    /\ load[g].phase = "get" => i \in load[g].todo \/ \E e \in load[g].read : e.id = i

Live(S) == {Entry(i) : i \in {j \in S : Stored(j)}}

\* The call o has changed what a reload reads, and has yet to publish that.
Writing(o) == pc[o] \in {"sadd", "srem", "publish"}

Busy == \E o \in Ops : Writing(o)

\* The reload has read of the ids it has got what there is in Redis, and has the
\* others to do.
Coming(t) ==
  /\ load[t].phase = "get"
  /\ load[t].todo \subseteq ids
  /\ load[t].read = Live(ids \ load[t].todo)

\* Unless a call was cut off, a follower will hear of a change or read it, or has
\* or will have what Redis lists.
Current(g) ==
  \/ aborts > 0 \/ inbox[g] > 0 \/ Busy
  \/ load[g].phase = "list" \/ Coming(g)
  \/ load[g].phase = "no" /\ mem[g] = Index(Live(ids))

\* A follower reloads for itself only.
LEMMA Places ==
  ASSUME Reading
  PROVE  /\ \A t \in Gateways : t \in Reloaders /\ Gateway(t) = t
         /\ \A t \in Ops : t \in Reloaders /\ Gateway(t) \notin Followers
         /\ \A t \in Reloaders : Gateway(t) \in Followers => t \in Gateways /\ Gateway(t) = t
BY GatewayAssumption DEF Reading, Gateway, Reloaders, Followers

LEMMA EntryType == ASSUME StoreTypeOK, NEW i \in Ops, Stored(i) PROVE Entry(i) \in Entries
<1>1. rule[i] \in Rules
  BY DEF StoreTypeOK, Stored
<1>2. Given("scope") \subseteq Scopes
  BY RegexAssumption
<1>3. QED BY <1>1, <1>2 DEF Entry, Entries, Rules

LEMMA NewLoads ==
  /\ NoLoad \in Loads /\ Asked \in Loads /\ Asked.phase = "list" /\ NoLoad.phase = "no"
  /\ NoLoad.todo = {} /\ Asked.todo = {} /\ NoLoad.read = {} /\ Asked.read = {}
BY DEF NoLoad, Asked, Loads

\* What a step of a call does to the listing and the rules.
LEMMA StoreStep ==
  ASSUME Typing, ListedStay, [StoreNext]_storeVars
  PROVE  /\ \A i \in Ops : Deleting(i) => Deleting(i)'
         /\ \A i \in Ops : i \in ids => i \in ids' \/ Deleting(i)
         /\ \E x : ids' \subseteq ids \cup {x}
         /\ ListedStay'
<1> USE DEF Typing, StoreTypeOK, Course, Requested, ListedStay, Deleting, Stored, Goto, store
<1>1. ASSUME NEW o \in Ops, Begin(o) \/ Publish(o) \/ Abort(o) \/ \E now \in Stamps : Read(o, now)
      PROVE  /\ UNCHANGED <<rule, ids>>
             /\ pc'[o] # "sadd" /\ \A p \in Ops \ {o} : pc'[p] = pc[p] /\ kind'[p] = kind[p] /\ id'[p] = id[p]
             /\ pc[o] = "idle" \/ (kind'[o] = kind[o] /\ id'[o] = id[o])
  BY <1>1 DEF Begin, BeginCreate, BeginPatch, BeginDelete, Publish, Abort, Read
<1>2. ASSUME NEW o \in Ops, SetRule(o) \/ SAdd(o) \/ DelRule(o) \/ SRem(o)
      PROVE  UNCHANGED <<kind, id>> /\ ids' \subseteq ids \cup {id[o]}
  BY <1>2 DEF SetRule, SAdd, DelRule, SRem
<1>3. CASE \E o \in Ops : Begin(o) \/ Publish(o) \/ Abort(o) \/ \E now \in Stamps : Read(o, now)
  <2>1. PICK o \in Ops : Begin(o) \/ Publish(o) \/ Abort(o) \/ \E now \in Stamps : Read(o, now)
    BY <1>3
  <2>2. \A i \in Ops : Deleting(i) => Deleting(i)'
    BY <1>1, <2>1
  <2>3. QED BY <1>1, <2>1, <2>2
<1>4. CASE \E o \in Ops : SetRule(o) \/ SAdd(o) \/ DelRule(o) \/ SRem(o)
  <2>1. PICK o \in Ops : SetRule(o) \/ SAdd(o) \/ DelRule(o) \/ SRem(o)
    BY <1>4
  <2>2. /\ \A i \in Ops : Deleting(i) <=> Deleting(i)'
        /\ \E x : ids' \subseteq ids \cup {x}
    BY <1>2, <2>1
  <2>3. \A i \in Ops : i \in ids => i \in ids' \/ Deleting(i)
    BY <2>1 DEF SetRule, SAdd, DelRule, SRem
  <2>4. CASE SetRule(o)
    BY <2>2, <2>3, <2>4, Ground DEF SetRule
  <2>5. CASE SAdd(o)
    BY <2>2, <2>3, <2>5 DEF SAdd
  <2>6. CASE DelRule(o)
    BY <2>2, <2>3, <2>6 DEF DelRule
  <2>7. CASE SRem(o)
    BY <2>2, <2>3, <2>7 DEF SRem
  <2>8. QED BY <2>1, <2>4, <2>5, <2>6, <2>7
<1>5. CASE UNCHANGED storeVars
  BY <1>5 DEF storeVars, calls
<1>6. QED BY <1>3, <1>4, <1>5 DEF StoreNext, Command

LEMMA StoreSide ==
  ASSUME [Next]_vars PROVE [StoreNext]_storeVars
BY DEF Next, vars, BeginAt, CommandAt, PublishAt, StoreNext, List, Get, Install, Consume

LEMMA SameRead ==
  ASSUME Typing, ListedStay, [Next]_vars, NEW t, ReadOnce(t), load'[t] = load[t]
  PROVE  ReadOnce(t)'
<1>1. /\ \A i \in Ops : Deleting(i) => Deleting(i)'
      /\ \A i \in Ops : i \in ids => i \in ids' \/ Deleting(i)
  BY StoreSide, StoreStep
<1>2. QED BY <1>1 DEF ReadOnce

\* One reload of the others.
LEMMA NextRead ==
  ASSUME Typing, Reading, [Next]_vars, NEW t \in Reloaders, load'[t] # load[t]
  PROVE  load'[t] \in Loads /\ ReadOnce(t)'
<1> USE DEF Reading
<1>1. \/ load' = [load EXCEPT ![t] = Asked] \/ List(t) \/ Get(t) \/ load' = [load EXCEPT ![t] = NoLoad]
  BY Places DEF Next, BeginAt, CommandAt, PublishAt, List, Get, Install, Consume, mine, vars
<1>2. CASE load'[t] \in {Asked, NoLoad}
  BY <1>2, NewLoads, FS_EmptySet DEF ReadOnce
<1>3. CASE List(t)
  <2>1. load'[t] = [phase |-> "get", todo |-> ids, read |-> {}] /\ ids' = ids
    BY <1>3 DEF List, storeVars, store
  <2>2. ids \subseteq Ops
    BY DEF Typing, StoreTypeOK
  <2>3. load'[t] \in Loads
    BY <2>1, <2>2 DEF Loads
  <2>4. QED BY <2>1, <2>3, FS_EmptySet DEF ReadOnce
<1>4. CASE Get(t)
  <2>1. PICK i \in load[t].todo :
          load' = [load EXCEPT ![t].todo = @ \ {i},
                               ![t].read = IF Stored(i) THEN @ \cup {Entry(i)} ELSE @]
    BY <1>4 DEF Get
  <2>2. load[t] \in Loads /\ load[t].phase = "get" /\ i \in Ops
    BY <1>4, <2>1 DEF Loads, Get
  <2>3. /\ load'[t].phase = "get" /\ load'[t].todo = load[t].todo \ {i}
        /\ load'[t].read = IF Stored(i) THEN load[t].read \cup {Entry(i)} ELSE load[t].read
    BY <2>1, <2>2 DEF Loads
  <2>4. load'[t] \in Loads
    <3>1. load[t].todo \ {i} \in SUBSET Ops
      BY <2>2 DEF Loads
    <3>2. (IF Stored(i) THEN load[t].read \cup {Entry(i)} ELSE load[t].read) \in SUBSET Entries
      BY <2>2, EntryType DEF Loads, Typing
    <3>3. load'[t] = [load[t] EXCEPT !.todo = @ \ {i},
                                     !.read = IF Stored(i) THEN @ \cup {Entry(i)} ELSE @]
      BY <2>1
    <3>4. QED BY <2>2, <3>1, <3>2, <3>3 DEF Loads
  <2>5. IsFiniteSet(load'[t].todo) /\ IsFiniteSet(load'[t].read)
    <3>1. IsFiniteSet(load[t].todo) /\ IsFiniteSet(load[t].read)
      BY DEF ReadOnce
    <3>2. IsFiniteSet(load[t].todo \ {i}) /\ IsFiniteSet(load[t].read \cup {Entry(i)})
      BY <3>1, FS_RemoveElement, FS_AddElement
    <3>3. QED BY <2>3, <3>1, <3>2
  <2>6. Entry(i).id = i /\ UNCHANGED <<ids, kind, id>>
    BY <1>4 DEF Entry, Get, storeVars, store, calls
  <2>7. QED BY <2>2, <2>3, <2>4, <2>5, <2>6 DEF ReadOnce, Deleting
<1>5. load'[t] \in {load[t], Asked, NoLoad} \/ List(t) \/ Get(t)
  BY <1>1
<1>6. QED BY <1>2, <1>3, <1>4, <1>5

LEMMA NextReading == ASSUME Typing, Reading, [Next]_vars PROVE Reading'
<1> USE DEF Reading
<1>1. ListedStay' /\ \E x : ids' \subseteq ids \cup {x}
  BY StoreSide, StoreStep
<1>2. IsFiniteSet(ids')
  BY <1>1, FS_AddElement, FS_Subset
<1>3. /\ gw' = gw /\ DOMAIN mem' = Gateways /\ inbox' \in [Gateways -> Nat]
      /\ load' = [t \in Reloaders |-> load'[t]]
  <2>1. ASSUME NEW o \in Ops, BeginAt(o) \/ CommandAt(o) \/ PublishAt(o)
        PROVE  /\ gw' = gw /\ mem' = mem /\ inbox' \in [Gateways -> Nat]
               /\ load' = [t \in Reloaders |-> load'[t]]
    BY <2>1 DEF BeginAt, CommandAt, PublishAt, mine
  <2>2. ASSUME NEW u \in Reloaders, List(u) \/ Get(u) \/ Install(u)
        PROVE  /\ gw' = gw /\ DOMAIN mem' = Gateways /\ inbox' = inbox
               /\ load' = [t \in Reloaders |-> load'[t]]
    BY <2>2 DEF List, Get, Install
  <2>3. ASSUME NEW g \in Gateways, Consume(g)
        PROVE  /\ gw' = gw /\ mem' = mem /\ inbox' \in [Gateways -> Nat]
               /\ load' = [t \in Reloaders |-> load'[t]]
    <3>1. inbox[g] \in Nat /\ inbox[g] > 0 /\ inbox' = [inbox EXCEPT ![g] = @ - 1]
      BY <2>3 DEF Consume
    <3>2. inbox' \in [Gateways -> Nat]
      BY <3>1
    <3>3. QED BY <2>3, <3>2 DEF Consume
  <2>4. UNCHANGED vars => gw' = gw /\ mem' = mem /\ inbox' = inbox /\ load' = load
    BY DEF vars, mine
  <2>5. QED BY <2>1, <2>2, <2>3, <2>4 DEF Next
<1>4. \A t \in Reloaders : load'[t] \in Loads /\ ReadOnce(t)'
  <2>1. ASSUME NEW t \in Reloaders PROVE load'[t] \in Loads /\ ReadOnce(t)'
    <3>1. CASE load'[t] = load[t]
      BY <3>1, SameRead
    <3>2. CASE load'[t] # load[t]
      BY <3>2, NextRead
    <3>3. QED BY <3>1, <3>2
  <2>2. QED BY <2>1
<1>5. load' \in [Reloaders -> Loads]
  BY <1>3, <1>4
<1>6. QED BY <1>1, <1>2, <1>3, <1>4, <1>5

LEMMA InitReading == Init => Reading
<1>1. Init => ListedStay
  BY DEF Init, StoreInit, ListedStay
<1>2. Init => \A t \in Reloaders : ReadOnce(t)
  BY NewLoads, FS_EmptySet DEF Init, ReadOnce
<1>3. Init => load \in [Reloaders -> Loads] /\ IsFiniteSet(ids)
  BY NewLoads, FS_EmptySet DEF Init, StoreInit
<1>4. QED BY <1>1, <1>2, <1>3 DEF Init, Reading

LEMMA ReadingAlways == Spec => [](Typing /\ Reading)
BY InitReading, NextReading, Typed, StoreLayer, PTL DEF Spec

-----------------------------------------------------------------------------
(* What a follower serves *)

\* The index of a reload serves what was read, in order.
LEMMA IndexOf ==
  ASSUME NEW R \in SUBSET Entries, IsFiniteSet(R), \A e, f \in R : e.id = f.id => e = f,
         NEW s \in Scopes
  PROVE  LET seq == Index(R)[s]
         IN  /\ Len(seq) \in Nat /\ DOMAIN seq = 1 .. Len(seq)
             /\ {seq[n] : n \in DOMAIN seq} = {e \in R : e.scope = s}
             /\ \A m, n \in DOMAIN seq : m < n => Before(seq[m], seq[n])
<1> DEFINE E == {e \in R : e.scope = s /\ Compiles(e.re)}
<1>1. E = {e \in R : e.scope = s}
  BY DEF Entries, Compiles
<1>2. E \in SUBSET Entries /\ IsFiniteSet(E)
  BY FS_Subset
<1>3. Index(R)[s] = Ordered(E)
  BY DEF Index
<1> HIDE DEF E
<1>4. \A e, f \in E : e.id = f.id => e = f
  BY <1>1
<1>5. /\ Len(Ordered(E)) \in Nat /\ DOMAIN Ordered(E) = 1 .. Len(Ordered(E))
      /\ {Ordered(E)[n] : n \in DOMAIN Ordered(E)} = E
      /\ \A m, n \in DOMAIN Ordered(E) : m < n => Before(Ordered(E)[m], Ordered(E)[n])
  BY <1>2, <1>4, OrderedSeq
<1>6. QED BY <1>1, <1>3, <1>5

LEMMA ServedOf ==
  ASSUME NEW R \in SUBSET Entries, IsFiniteSet(R), \A e, f \in R : e.id = f.id => e = f, NEW i
  PROVE  Served(Index(R), i) <=> \E e \in R : e.id = i
<1>1. DOMAIN Index(R) = Scopes
  BY DEF Index
<1>2. \A s \in Scopes : {Index(R)[s][n] : n \in DOMAIN Index(R)[s]} = {e \in R : e.scope = s}
  BY IndexOf
<1>3. \A s \in Scopes : (\E n \in DOMAIN Index(R)[s] : Index(R)[s][n].id = i)
                          <=> \E e \in R : e.scope = s /\ e.id = i
  BY <1>2
<1>4. \A e \in R : e.scope \in Scopes
  BY DEF Entries
<1>5. QED BY <1>1, <1>3, <1>4 DEF Served

LEMMA NextKeeping ==
  ASSUME Typing, Reading, Keeping, [Next]_vars PROVE Keeping'
<1> SUFFICES ASSUME NEW g \in Followers, NEW i \in Ops, Served(mem'[g], i), ~Deleting(i)'
             PROVE  /\ i \in ids'
                    /\ load'[g].phase = "get" => i \in load'[g].todo \/ \E e \in load'[g].read : e.id = i
  BY DEF Keeping
<1>1. ~Deleting(i) /\ (i \in ids => i \in ids')
  BY StoreSide, StoreStep DEF Reading
<1>2. g \in Gateways /\ g \in Reloaders /\ g \notin Ops
  BY GatewayAssumption DEF Followers, Reloaders
<1> USE DEF Reading
<1>3. CASE \E t \in Reloaders : Install(t) /\ Gateway(t) = g
  <2>1. Install(g)
    BY <1>3, Places
  <2>2. mem'[g] = Index(load[g].read) /\ load'[g] = NoLoad /\ load[g] \in Loads
    BY <1>2, <2>1, Places DEF Install
  <2>3. \E e \in load[g].read : e.id = i
    BY <1>2, <2>2, ServedOf DEF Loads, ReadOnce
  <2>4. i \in ids
    BY <1>1, <1>2, <2>3 DEF ReadOnce
  <2>5. QED BY <1>1, <2>2, <2>4, NewLoads
<1>4. CASE ~\E t \in Reloaders : Install(t) /\ Gateway(t) = g
  <2>1. mem'[g] = mem[g]
    BY <1>2, <1>4, Places DEF Next, BeginAt, CommandAt, PublishAt, List, Get, Install, Consume, mine, vars
  <2>2. i \in ids /\ (load[g].phase = "get" => i \in load[g].todo \/ \E e \in load[g].read : e.id = i)
    BY <1>1, <2>1 DEF Keeping
  <2>3. CASE load'[g] = load[g]
    BY <1>1, <2>2, <2>3
  <2>4. CASE load'[g] # load[g]
    <3>1. load'[g] \in {Asked, NoLoad} \/ List(g) \/ Get(g)
      BY <1>2, <2>4, Places DEF Next, BeginAt, CommandAt, PublishAt, List, Get, Install, Consume, mine, vars
    <3>2. CASE load'[g] \in {Asked, NoLoad}
      BY <1>1, <2>2, <3>2, NewLoads
    <3>3. CASE List(g)
      <4>1. load'[g].todo = ids
        BY <1>2, <3>3 DEF List
      <4>2. QED BY <1>1, <2>2, <4>1
    <3>4. CASE Get(g)
      <4>1. PICK j \in load[g].todo :
              load' = [load EXCEPT ![g].todo = @ \ {j},
                                   ![g].read = IF Stored(j) THEN @ \cup {Entry(j)} ELSE @]
        BY <3>4 DEF Get
      <4>2. load[g] \in Loads /\ load[g].phase = "get" /\ Entry(j).id = j
        BY <1>2, <3>4 DEF Get, Entry
      <4>3. /\ load'[g].todo = load[g].todo \ {j}
            /\ load'[g].read = IF Stored(j) THEN load[g].read \cup {Entry(j)} ELSE load[g].read
        BY <1>2, <4>1, <4>2 DEF Loads
      <4>4. Stored(i)
        BY <1>1, <2>2 DEF ListedStay
      <4>5. QED BY <1>1, <2>2, <4>2, <4>3, <4>4
    <3>5. QED BY <3>1, <3>2, <3>3, <3>4
  <2>5. QED BY <2>3, <2>4
<1>5. QED BY <1>3, <1>4

\* A rule that nobody deletes is served by a follower from its first reload on.
THEOREM ServingGoesOn == Spec => KeepsServing
<1>1. Init => Keeping
  BY DEF Init, Keeping, Served, Followers
<1>2. ASSUME Typing, Reading, Keeping, [Next]_vars, NEW g \in Followers, NEW i \in Ops,
             Served(mem[g], i), ~Deleting(i)
      PROVE  Served(mem'[g], i)
  <2>1. g \in Gateways /\ g \in Reloaders
    BY DEF Followers, Reloaders
  <2>2. CASE Install(g)
    <3>1. mem'[g] = Index(load[g].read) /\ load[g] \in Loads /\ load[g].todo = {} /\ load[g].phase = "get"
      BY <2>1, <2>2, Places, <1>2 DEF Install, Reading
    <3>2. \E e \in load[g].read : e.id = i
      BY <1>2, <3>1 DEF Keeping
    <3>3. QED BY <1>2, <2>1, <3>1, <3>2, ServedOf DEF Loads, ReadOnce, Reading
  <2>3. CASE ~Install(g)
    <3>1. mem'[g] = mem[g]
      BY <1>2, <2>1, <2>3, Places DEF Next, BeginAt, CommandAt, PublishAt, List, Get, Install, Consume,
         mine, vars, Reading
    <3>2. QED BY <1>2, <3>1
  <2>4. QED BY <2>2, <2>3
<1>3. Typing /\ Reading /\ Keeping /\ [Next]_vars =>
        [\A g \in Followers, i \in Ops :
           Served(mem[g], i) /\ (\A o \in Ops : id[o] = i => kind[o] # "delete")
             => Served(mem'[g], i)]_vars
  BY <1>2 DEF Deleting
<1>4. Spec => []Keeping
  BY <1>1, NextKeeping, ReadingAlways, PTL DEF Spec
<1>5. QED BY <1>3, <1>4, ReadingAlways, PTL DEF KeepsServing, Spec

-----------------------------------------------------------------------------
(* A follower ends with what Redis lists *)

\* A step of a call changes what reloads read only if it is to be published.
LEMMA CallStep ==
  ASSUME Typing, NEW o \in Ops, Begin(o) \/ Command(o)
  PROVE  /\ Busy => Busy'
         /\ Busy' \/ UNCHANGED <<rule, ids>>
<1> USE DEF Typing, StoreTypeOK, Goto
<1>1. \A p \in Ops \ {o} : pc'[p] = pc[p]
  BY DEF Begin, BeginCreate, BeginPatch, BeginDelete, Command, Read, SetRule, SAdd, DelRule, SRem
<1>2. CASE Begin(o) \/ \E now \in Stamps : Read(o, now)
  <2>1. pc[o] \in {"idle", "get"} /\ UNCHANGED <<rule, ids>>
    BY <1>2 DEF Begin, BeginCreate, BeginPatch, BeginDelete, Read, store
  <2>2. QED BY <1>1, <2>1 DEF Busy, Writing
<1>3. CASE SetRule(o) \/ SAdd(o) \/ DelRule(o) \/ SRem(o)
  <2>1. Writing(o)'
    BY <1>3 DEF SetRule, SAdd, DelRule, SRem, Writing
  <2>2. QED BY <2>1 DEF Busy
<1>4. QED BY <1>2, <1>3 DEF Command

\* What a step leaves alone stays as good as it was.
LEMMA SameLive == ASSUME UNCHANGED <<rule, ids>>, NEW S PROVE Live(S)' = Live(S)
BY DEF Live, Entry, Stored

LEMMA SameCurrent ==
  ASSUME UNCHANGED <<rule, ids>>, Busy => Busy', aborts' = aborts, NEW g, Current(g),
         load'[g] = load[g], mem'[g] = mem[g], inbox'[g] = inbox[g]
  PROVE  Current(g)'
<1>1. Index(Live(ids))' = Index(Live(ids)) /\ (Coming(g) => Coming(g)')
  BY SameLive DEF Index, Coming
<1>2. QED BY <1>1 DEF Current

LEMMA GetComing ==
  ASSUME Reading, NEW t \in Reloaders, Get(t), Coming(t) PROVE Coming(t)'
<1>1. PICK i \in load[t].todo :
        load' = [load EXCEPT ![t].todo = @ \ {i},
                             ![t].read = IF Stored(i) THEN @ \cup {Entry(i)} ELSE @]
  BY DEF Get
<1>2. load[t] \in Loads /\ UNCHANGED <<rule, ids>>
  BY DEF Reading, Get, storeVars, store
<1>3. /\ load'[t].phase = "get" /\ load'[t].todo = load[t].todo \ {i}
      /\ load'[t].read = IF Stored(i) THEN load[t].read \cup {Entry(i)} ELSE load[t].read
  BY <1>1, <1>2 DEF Loads, Reading, Coming
<1>4. ids \ load'[t].todo = (ids \ load[t].todo) \cup {i}
  BY <1>3 DEF Coming
<1>5. load'[t].read = Live((ids \ load[t].todo) \cup {i})
  BY <1>3 DEF Coming, Live
<1>6. QED BY <1>2, <1>3, <1>4, <1>5, SameLive DEF Coming

LEMMA NextCurrent ==
  ASSUME Typing, Reading, [Next]_vars, NEW g \in Followers, Current(g) PROVE Current(g)'
<1>1. g \in Gateways /\ g \in Reloaders /\ g \notin Ops
  BY GatewayAssumption DEF Followers, Reloaders
<1> USE DEF Reading
<1>2. ASSUME NEW o \in Ops, BeginAt(o) \/ CommandAt(o) PROVE Current(g)'
  <2>1. UNCHANGED <<mem, inbox, load>>
    BY <1>2 DEF BeginAt, CommandAt, mine
  <2>2. CASE Begin(o) \/ Command(o)
    <3>1. (Busy => Busy') /\ (Busy' \/ UNCHANGED <<rule, ids>>)
      BY <2>2, CallStep
    <3>2. aborts' = aborts
      BY <2>2 DEF Begin, BeginCreate, BeginPatch, BeginDelete, Command, Read, SetRule, SAdd, DelRule, SRem
    <3>3. CASE Busy'
      BY <3>3 DEF Current
    <3>4. CASE UNCHANGED <<rule, ids>>
      BY <2>1, <3>1, <3>2, <3>4, SameCurrent
    <3>5. QED BY <3>1, <3>3, <3>4
  <2>3. CASE Abort(o)
    <3>1. aborts' > 0
      BY <2>3 DEF Abort, Typing, StoreTypeOK
    <3>2. QED BY <3>1 DEF Current
  <2>4. QED BY <1>2, <2>2, <2>3 DEF BeginAt, CommandAt
<1>3. ASSUME NEW o \in Ops, PublishAt(o) PROVE Current(g)'
  <2>1. inbox'[g] > 0
    BY <1>1, <1>3 DEF PublishAt
  <2>2. QED BY <2>1 DEF Current
<1>4. ASSUME NEW t \in Reloaders, List(t) \/ Get(t) \/ Install(t) PROVE Current(g)'
  <2>1. UNCHANGED <<rule, ids, pc, aborts, inbox>>
    BY <1>4 DEF List, Get, Install, storeVars, store, calls
  <2>2. Busy' <=> Busy
    BY <2>1 DEF Busy, Writing
  <2>3. CASE t # g
    <3>1. load'[g] = load[g]
      BY <1>1, <1>4, <2>3 DEF List, Get, Install
    <3>2. mem'[g] = mem[g]
      BY <1>1, <1>4, <2>3, Places DEF List, Get, Install
    <3>3. QED BY <2>1, <2>2, <3>1, <3>2, SameCurrent
  <2>4. CASE t = g /\ List(t)
    <3>1. load'[g] = [phase |-> "get", todo |-> ids, read |-> {}]
      BY <1>1, <2>4 DEF List
    <3>2. QED BY <2>1, <3>1 DEF Current, Coming, Live
  <2>5. CASE t = g /\ Get(t)
    <3>1. load[g].phase = "get"
      BY <2>5 DEF Get
    <3>2. Coming(g) => Coming(g)'
      BY <1>1, <2>5, GetComing
    <3>3. QED BY <2>1, <2>2, <3>1, <3>2 DEF Current
  <2>6. CASE t = g /\ Install(t)
    <3>1. /\ mem'[g] = Index(load[g].read) /\ load'[g] = NoLoad
          /\ load[g].phase = "get" /\ load[g].todo = {}
      BY <1>1, <2>6, Places DEF Install
    <3>2. Coming(g) => mem'[g] = Index(Live(ids))'
      BY <2>1, <3>1, SameLive DEF Coming, Index
    <3>3. QED BY <2>1, <2>2, <3>1, <3>2, NewLoads DEF Current
  <2>7. QED BY <1>4, <2>3, <2>4, <2>5, <2>6
<1>5. ASSUME NEW h \in Gateways, Consume(h) PROVE Current(g)'
  <2>1. CASE h = g
    <3>1. load'[g] = Asked
      BY <1>1, <1>5, <2>1 DEF Consume
    <3>2. QED BY <3>1, NewLoads DEF Current
  <2>2. CASE h # g
    <3>1. UNCHANGED <<rule, ids, pc, aborts, mem>> /\ load'[g] = load[g] /\ inbox'[g] = inbox[g]
      BY <1>1, <1>5, <2>2 DEF Consume, storeVars, store, calls
    <3>2. QED BY <3>1, SameCurrent DEF Busy, Writing
  <2>3. QED BY <2>1, <2>2
<1>6. ASSUME UNCHANGED vars PROVE Current(g)'
  <2>1. UNCHANGED <<rule, ids, pc, aborts, mem, load, inbox>>
    BY <1>6 DEF vars, mine, storeVars, store, calls
  <2>2. QED BY <2>1, SameCurrent DEF Busy, Writing
<1>7. QED BY <1>2, <1>3, <1>4, <1>5, <1>6 DEF Next

\* The first match in the sorted entries of Redis is one the policy allows.
LEMMA FirstMatch ==
  ASSUME Typing, IsFiniteSet(ids), NEW g, mem[g] = Index(Live(ids)), NEW s \in Scopes, NEW q
  PROVE  Match(g, s, q) \in Policy(s, q)
<1> DEFINE R == Live(ids)
           seq == mem[g][s]
           I == {n \in 1 .. Len(seq) : q \in seq[n].re}
           hits == {i \in ids : Stored(i) /\ rule[i].scope = s /\ q \in rule[i].pat}
<1>1. ids \subseteq Ops
  BY DEF Typing, StoreTypeOK
<1>2. R \in SUBSET Entries /\ \A e, f \in R : e.id = f.id => e = f
  BY <1>1, EntryType DEF Live, Entry, Typing
<1>3. IsFiniteSet(R)
  <2> DEFINE there == {j \in ids : Stored(j)}
             entry == [j \in there |-> Entry(j)]
  <2>1. IsFiniteSet(there)
    BY FS_Subset
  <2>2. entry \in Surjection(there, R)
    BY DEF Surjection, Live
  <2>3. QED BY <2>1, <2>2, FS_Surjection
<1>4. /\ Len(seq) \in Nat /\ DOMAIN seq = 1 .. Len(seq)
      /\ {seq[n] : n \in DOMAIN seq} = {e \in R : e.scope = s}
      /\ \A m, n \in DOMAIN seq : m < n => Before(seq[m], seq[n])
  BY <1>2, <1>3, IndexOf
<1>5. \A i \in hits : \E n \in I : seq[n] = Entry(i)
  <2>1. \A i \in hits : Entry(i) \in R /\ Entry(i).scope = s /\ q \in Entry(i).re
    BY DEF Live, Entry
  <2>2. QED BY <1>4, <2>1
<1>6. \A n \in I : \E i \in hits : seq[n] = Entry(i)
  <2> SUFFICES ASSUME NEW n \in I PROVE \E i \in hits : seq[n] = Entry(i)
    OBVIOUS
  <2>1. n \in DOMAIN seq /\ q \in seq[n].re
    BY <1>4
  <2>2. seq[n] \in R /\ seq[n].scope = s
    BY <1>4, <2>1
  <2>3. PICK i \in ids : Stored(i) /\ seq[n] = Entry(i)
    BY <2>2 DEF Live
  <2>4. QED BY <2>1, <2>2, <2>3 DEF Entry
<1>7. Match(g, s, q) = IF I = {} \/ Min(I) = 0 THEN NoAnswer
                       ELSE [id |-> seq[Min(I)].id, dat |-> seq[Min(I)].dat]
  BY DEF Match, SelectInSeq
<1>8. CASE I = {}
  BY <1>5, <1>7, <1>8 DEF Policy
<1>9. CASE I # {}
  <2>1. Min(I) \in I /\ \A n \in I : Min(I) <= n
    <3>1. I \in SUBSET Nat
      BY <1>4
    <3>2. QED BY <1>9, <3>1, LeastOf
  <2>2. PICK i \in hits : seq[Min(I)] = Entry(i)
    BY <1>6, <2>1
  <2>3. Match(g, s, q) = [id |-> i, dat |-> rule[i].dat]
    BY <1>7, <1>9, <2>1, <2>2 DEF Entry
  <2>4. ASSUME NEW j \in hits
        PROVE  /\ rule[j].pri <= rule[i].pri
               /\ rule[j].pri = rule[i].pri => rule[j].upd <= rule[i].upd
    <3>1. PICK n \in I : seq[n] = Entry(j)
      BY <1>5
    <3>2. Entry(i) = Entry(j) \/ Before(Entry(i), Entry(j))
      <4>1. Min(I) \in 1 .. Len(seq) /\ n \in 1 .. Len(seq) /\ Min(I) <= n
        BY <2>1
      <4>2. \A m \in 1 .. Len(seq), l \in 1 .. Len(seq) : m <= l => m = l \/ m < l
        BY <1>4
      <4>3. Min(I) = n \/ Min(I) < n
        BY <4>1, <4>2
      <4>4. QED BY <1>4, <2>2, <3>1, <4>1, <4>3
    <3>3. /\ Entry(i).pri = rule[i].pri /\ Entry(i).upd = rule[i].upd
          /\ Entry(j).pri = rule[j].pri /\ Entry(j).upd = rule[j].upd
      BY DEF Entry
    <3>4. \A e \in Entries : e.pri \in Int /\ e.upd \in Int
      BY EntryInts
    <3>5. Entry(i) \in Entries /\ Entry(j) \in Entries
      BY <1>1, EntryType DEF Typing
    <3>6. QED BY <3>2, <3>3, <3>4, <3>5 DEF Before
  <2>5. \A j \in hits : rule[j].pri \in Int /\ rule[j].upd \in Int
    <3>1. \A j \in hits : Entry(j) \in Entries /\ Entry(j).pri = rule[j].pri /\ Entry(j).upd = rule[j].upd
      BY <1>1, EntryType DEF Typing, Entry
    <3>2. QED BY <3>1, EntryInts
  <2>6. QED BY <2>2, <2>3, <2>4, <2>5 DEF Policy
<1>10. QED BY <1>8, <1>9

\* FR-A02: at rest, and unless a call was cut off, a gateway without administrators
\* answers by the policy what is in Redis, however administrators overlap.
THEOREM FollowersObeyPolicy == Spec => []PolicyAtRest
<1>1. Init => \A g \in Followers : Current(g)
  <2>1. ASSUME Init, NEW g \in Followers PROVE mem[g] = Index(Live(ids)) /\ load[g].phase = "no"
    <3>1. Live(ids) = {} /\ g \in Gateways /\ g \in Reloaders
      BY <2>1 DEF Init, StoreInit, Live, Followers, Reloaders
    <3>2. Index({}) = [s \in Scopes |-> <<>>]
      <4>1. \A s \in Scopes : Ordered({}) = <<>>
        BY FS_EmptySet, OrderedSeq
      <4>2. QED BY <4>1 DEF Index
    <3>3. QED BY <2>1, <3>1, <3>2, NewLoads DEF Init
  <2>2. QED BY <2>1 DEF Current
<1>2. Typing /\ Reading /\ [Next]_vars /\ (\A g \in Followers : Current(g)) => (\A g \in Followers : Current(g))'
  BY NextCurrent
<1>3. ASSUME Typing, Reading, \A g \in Followers : Current(g), Settled, aborts = 0, NEW g \in Followers
      PROVE  mem[g] = Index(Live(ids))
  <2>1. g \in Gateways /\ g \in Reloaders /\ ~Busy
    BY <1>3 DEF Followers, Reloaders, Settled, AtRest, InFlight, Busy, Writing
  <2>2. load[g].phase = "no" /\ inbox[g] = 0
    BY <1>3, <2>1 DEF Settled, Reloading
  <2>3. Current(g) /\ ~(aborts > 0) /\ ~(inbox[g] > 0)
    BY <1>3, <2>2
  <2>4. QED BY <2>1, <2>2, <2>3 DEF Current, Coming
<1>4. Typing /\ Reading /\ (\A g \in Followers : Current(g)) => PolicyAtRest
  BY <1>3, FirstMatch DEF PolicyAtRest, Reading
<1>5. QED BY <1>1, <1>2, <1>4, ReadingAlways, PTL DEF Spec
=============================================================================
