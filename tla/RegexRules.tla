----------------------------- MODULE RegexRules -----------------------------
(***************************************************************************)
(* The regex rules in the memory of the gateways, on top of RegexStore:    *)
(* RegexCoordinator, RegexMemoryIndex and subscribeRegexReload.  What      *)
(* matters is which of several matching rules answers.                     *)
(*                                                                         *)
(* Startup, lost subscriptions and failed reloads are those of the exact   *)
(* rules, see ExactRules; here every gateway stays subscribed.             *)
(***************************************************************************)
EXTENDS RegexStore, SequencesExt

CONSTANTS Gateways,      \* the gateways whose memory is modelled
          AdminGateways  \* the gateways that serve administrators

ASSUME GatewayAssumption == Gateways \cap Ops = {}

VARIABLES gw,     \* per call: the gateway that serves it
          mem,    \* per gateway: RegexMemoryIndex.byScope
          inbox,  \* per gateway: messages its subscriber has not read
          load    \* per reloader: its Reload, if one is running

mine == <<gw, mem, inbox, load>>
vars == <<storeVars, mine>>

Reloaders == Ops \cup Gateways

NoLoad == [phase |-> "no", todo |-> {}, read |-> {}]
Asked == [NoLoad EXCEPT !.phase = "list"]

Init ==
  /\ StoreInit
  /\ gw \in [Ops -> AdminGateways]
  /\ mem = [g \in Gateways |-> [s \in Scopes |-> <<>>]]
  /\ inbox = [g \in Gateways |-> 0]
  /\ load = [t \in Reloaders |-> NoLoad]

-----------------------------------------------------------------------------

Reloading(t) == load[t].phase # "no"
Gateway(t) == IF t \in Gateways THEN t ELSE gw[t]

BeginAt(o) == Begin(o) /\ UNCHANGED mine

CommandAt(o) == (Command(o) \/ Abort(o)) /\ UNCHANGED mine

\* PUBLISH reaches every gateway; the handler goes on to Reload.
PublishAt(o) ==
  /\ Publish(o)
  /\ inbox' = [g \in Gateways |-> inbox[g] + 1]
  /\ load' = IF gw[o] \in Gateways THEN [load EXCEPT ![o] = Asked] ELSE load
  /\ UNCHANGED <<gw, mem>>

\* SMEMBERS.
List(t) ==
  /\ load[t].phase = "list"
  /\ load' = [load EXCEPT ![t] = [phase |-> "get", todo |-> ids, read |-> {}]]
  /\ UNCHANGED <<storeVars, gw, mem, inbox>>

Entry(i) == [id |-> i, scope |-> rule[i].scope, re |-> rule[i].pat, dat |-> rule[i].dat,
             pri |-> rule[i].pri, upd |-> rule[i].upd]

\* GET of one id; an id without a rule is skipped.
Get(t) ==
  /\ load[t].phase = "get"
  /\ \E i \in load[t].todo :
       load' = [load EXCEPT ![t].todo = @ \ {i},
                            ![t].read = IF Stored(i) THEN @ \cup {Entry(i)} ELSE @]
  /\ UNCHANGED <<storeVars, gw, mem, inbox>>

\* (variant) Of two rules with one priority the older one comes first.
OlderFirst(a, b) ==
  IF a.pri # b.pri THEN a.pri > b.pri ELSE IF a.upd # b.upd THEN a.upd < b.upd ELSE a.id < b.id

\* The order of the entries of a scope.
Before(a, b) ==
  IF a.pri # b.pri THEN a.pri > b.pri ELSE IF a.upd # b.upd THEN a.upd > b.upd ELSE a.id < b.id

Ordered(entries) ==
  CHOOSE seq \in SetToSeqs(entries) :
    \A m, n \in 1 .. Cardinality(entries) : m < n => Before(seq[m], seq[n])

\* ReplaceAll: the rules by scope, sorted, without those that do not compile.
Index(read) == [s \in Scopes |-> Ordered({e \in read : e.scope = s /\ Compiles(e.re)})]

\* (variant) The index is filled before everything has been read.
InstallEarly(t) ==
  /\ load[t].phase = "get"
  /\ mem' = [mem EXCEPT ![Gateway(t)] = Index(load[t].read)]
  /\ load' = [load EXCEPT ![t] = IF @.todo = {} THEN NoLoad ELSE @]
  /\ UNCHANGED <<storeVars, gw, inbox>>

Install(t) ==
  /\ load[t].phase = "get"
  /\ load[t].todo = {}
  /\ mem' = [mem EXCEPT ![Gateway(t)] = Index(load[t].read)]
  /\ load' = [load EXCEPT ![t] = NoLoad]
  /\ UNCHANGED <<storeVars, gw, inbox>>

\* subscribeRegexReload takes a message; it is not reloading then.
Consume(g) ==
  /\ inbox[g] > 0
  /\ ~Reloading(g)
  /\ inbox' = [inbox EXCEPT ![g] = @ - 1]
  /\ load' = [load EXCEPT ![g] = Asked]
  /\ UNCHANGED <<storeVars, gw, mem>>

NoAnswer == [id |-> NoRule, dat |-> NoRule]

\* Match: the first entry of the scope whose pattern matches.
Match(g, s, q) ==
  LET first == SelectInSeq(mem[g][s], LAMBDA e : q \in e.re)
  IN IF first = 0 THEN NoAnswer ELSE [id |-> mem[g][s][first].id, dat |-> mem[g][s][first].dat]

Settled ==
  /\ AtRest
  /\ \A t \in Reloaders : ~Reloading(t)
  /\ \A g \in Gateways : inbox[g] = 0

Next ==
  \/ \E o \in Ops : BeginAt(o) \/ CommandAt(o) \/ PublishAt(o)
  \/ \E t \in Reloaders : List(t) \/ Get(t) \/ Install(t)
  \/ \E g \in Gateways : Consume(g)
  \/ Settled /\ UNCHANGED vars

Spec == Init /\ [][Next]_vars

-----------------------------------------------------------------------------
(* Properties *)

\* The answers that specs/requirements.md:47 allows for a query: those of a listed
\* rule of the scope that matches it, such that no other one has a higher
\* priority, or the same priority and a later update.
Policy(s, q) ==
  LET hits == {i \in ids : Stored(i) /\ rule[i].scope = s /\ q \in rule[i].pat}
      Better(j, i) == \/ rule[j].pri > rule[i].pri
                      \/ rule[j].pri = rule[i].pri /\ rule[j].upd > rule[i].upd
  IN IF hits = {} THEN {NoAnswer}
     ELSE {[id |-> i, dat |-> rule[i].dat] : i \in {h \in hits : \A j \in hits : ~Better(j, h)}}

Followers == Gateways \ AdminGateways

\* When everything has come to rest, a gateway without administrators answers
\* every query by the policy, from what is in Redis
\* (regex_memory_index.go:31-80, main.go:363-383).
PolicyAtRest ==
  Settled /\ aborts = 0 =>
    \A g \in Followers, s \in Scopes, q \in Queries : Match(g, s, q) \in Policy(s, q)

Served(m, i) == \E s \in DOMAIN m : \E n \in DOMAIN m[s] : m[s][n].id = i

\* A follower never stops serving a rule, not even for one reload, unless the rule
\* is being deleted: SMEMBERS and the GETs after it are no snapshot, but they
\* do not miss a rule that stays (redis_regex_store.go:100-121).
KeepsServing ==
  [][\A g \in Followers, i \in Ops :
       Served(mem[g], i) /\ (\A o \in Ops : id[o] = i => kind[o] # "delete")
         => Served(mem'[g], i)]_vars
=============================================================================
