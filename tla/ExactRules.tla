----------------------------- MODULE ExactRules -----------------------------
(***************************************************************************)
(* The exact rules in the memory of the gateways, on top of ExactStore:    *)
(* ExactCoordinator, ExactMemoryIndex, the startup in cmd/gateway/main.go  *)
(* and the Pub/Sub goroutine subscribeExactReload.                         *)
(*                                                                         *)
(* A gateway rebuilds its whole index by Reload: SMEMBERS of the ids, one  *)
(* GET per id, then ReplaceAll.  Reload is called at startup, by the       *)
(* subscriber for each message, one after the other, and by every admin    *)
(* handler after its change, so several run at once in one gateway.        *)
(***************************************************************************)
EXTENDS ExactStore

CONSTANTS Gateways,
          AdminGateways,  \* the gateways that serve administrators
          MaxLost,        \* bound of the lost subscriptions and failed reloads
          MaxRestarts     \* bound of the restarts of gateways

ASSUME GatewayAssumption ==
  /\ AdminGateways \subseteq Gateways
  /\ Gateways \cap Ops = {}
  /\ MaxLost \in Nat
  /\ MaxRestarts \in Nat

Entry == [id : Ops, dat : Ops]
NoEntry == [id |-> Nobody, dat |-> Nobody]
Index == [Keys -> Entry \cup {NoEntry}]
EmptyIndex == [k \in Keys |-> NoEntry]

\* A reload runs in an admin handler or in a gateway's own goroutine.
Reloaders == Ops \cup Gateways

VARIABLES gw,        \* per call: the gateway that serves it
          mem,       \* per gateway: ExactMemoryIndex.m
          st,        \* per gateway: "boot", "unsubscribed" or "up"
          inbox,     \* per gateway: messages its subscriber has not read
          load,      \* per reloader: its Reload, if one is running
          lost, restarts

\* Per gateway: a change was made, or may have been, that its subscriber was
\* not told of and has not read since.  For the properties; no action reads it.
VARIABLE missed

mine == <<gw, mem, st, inbox, load, lost, restarts, missed>>
vars == <<storeVars, mine>>

NoLoad == [phase |-> "no", todo |-> {}, next |-> EmptyIndex]
Asked == [NoLoad EXCEPT !.phase = "list"]

Reloading(t) == load[t].phase # "no"

Gateway(t) == IF t \in Gateways THEN t ELSE gw[t]

Init ==
  /\ StoreInit
  /\ gw \in [Ops -> AdminGateways]
  /\ mem = [g \in Gateways |-> EmptyIndex]
  /\ st = [g \in Gateways |-> "up"]
  /\ inbox = [g \in Gateways |-> 0]
  /\ load = [t \in Reloaders |-> NoLoad]
  /\ lost = 0
  /\ restarts = 0
  /\ missed = [g \in Gateways |-> FALSE]

-----------------------------------------------------------------------------
(* Admin requests *)

\* An administrator who works serially waits for the answer, which comes after
\* the handler's own reload.
BeginAt(o) ==
  /\ st[gw[o]] # "boot"
  /\ AdminMode = "serial" => \A p \in Ops : ~Reloading(p)
  /\ Begin(o)
  /\ UNCHANGED mine

CommandAt(o) == Command(o) /\ UNCHANGED mine

\* PUBLISH reaches the gateways subscribed at that moment.
Notify ==
  /\ inbox' = [g \in Gateways |-> IF st[g] = "up" THEN inbox[g] + 1 ELSE inbox[g]]
  /\ missed' = [g \in Gateways |-> missed[g] \/ st[g] # "up"]

\* (variant) The handler reloads and the pipeline publishes nothing.
PublishNothing(o) ==
  /\ Publish(o)
  /\ load' = [load EXCEPT ![o] = Asked]
  /\ UNCHANGED <<gw, mem, st, inbox, lost, restarts, missed>>

\* The store call returns and the handler goes on to Reload.
PublishAt(o) ==
  /\ Publish(o)
  /\ Notify
  /\ load' = [load EXCEPT ![o] = Asked]
  /\ UNCHANGED <<gw, mem, st, lost, restarts>>

\* After an error of its pipeline Create does not go on to Reload; the PUBLISH at
\* the end of the pipeline may have been run or not.
CreateErrorAt(o) ==
  /\ CreateError(o)
  /\ \/ pc[o] = "publish" /\ Notify
     \/ missed' = [g \in Gateways |-> TRUE] /\ UNCHANGED inbox
  /\ UNCHANGED <<gw, mem, st, load, lost, restarts>>

\* The call is cut off: its pipeline may have changed the store and published
\* nothing.
AbortAt(o) ==
  /\ Abort(o)
  /\ missed' = [g \in Gateways |-> TRUE]
  /\ UNCHANGED <<gw, mem, st, inbox, load, lost, restarts>>

(* Reload *)

\* SMEMBERS.
List(t) ==
  /\ load[t].phase = "list"
  /\ load' = [load EXCEPT ![t] = [phase |-> "get", todo |-> ids, next |-> EmptyIndex]]
  /\ missed' = IF t \in Gateways THEN [missed EXCEPT ![t] = FALSE] ELSE missed
  /\ UNCHANGED <<storeVars, gw, mem, st, inbox, lost, restarts>>

\* GET of one id, in any order.  An id without a rule is skipped; of two rules
\* with one key the later one overwrites the earlier one.
Get(t) ==
  /\ load[t].phase = "get"
  /\ \E i \in load[t].todo :
       LET r == rule[i]
           next == load[t].next
       IN load' = [load EXCEPT
            ![t].todo = @ \ {i},
            ![t].next = IF Stored(i) THEN [next EXCEPT ![r.key] = [id |-> i, dat |-> r.dat]]
                        ELSE next]
  /\ UNCHANGED <<storeVars, gw, mem, st, inbox, lost, restarts, missed>>

\* ReplaceAll.  At startup, main goes on to subscribe.
Install(t) ==
  /\ load[t].phase = "get"
  /\ load[t].todo = {}
  /\ mem' = [mem EXCEPT ![Gateway(t)] = load[t].next]
  /\ load' = [load EXCEPT ![t] = NoLoad]
  /\ st' = IF t \in Gateways /\ st[t] = "boot" THEN [st EXCEPT ![t] = "unsubscribed"] ELSE st
  /\ UNCHANGED <<storeVars, gw, inbox, lost, restarts, missed>>

\* Redis fails a command of Reload, or the client of the handler has gone and
\* its context is cancelled: the handler ignores that, the subscriber logs it.
\* (At startup it ends the process: see Restart.)
ReloadError(t) ==
  /\ Reloading(t)
  /\ st[Gateway(t)] # "boot"
  /\ lost < MaxLost
  /\ lost' = lost + 1
  /\ load' = [load EXCEPT ![t] = NoLoad]
  /\ missed' = IF t \in Gateways THEN [missed EXCEPT ![t] = TRUE] ELSE missed
  /\ UNCHANGED <<storeVars, gw, mem, st, inbox, restarts>>

(* The subscriber *)

\* (variant) A message that comes during a reload is dropped with it.
ConsumeAll(g) ==
  /\ st[g] # "boot"
  /\ inbox[g] > 0
  /\ IF Reloading(g) THEN UNCHANGED load ELSE load' = [load EXCEPT ![g] = Asked]
  /\ inbox' = [inbox EXCEPT ![g] = @ - 1]
  /\ UNCHANGED <<storeVars, gw, mem, st, lost, restarts, missed>>

\* The goroutine takes a message from the channel; it is not reloading then.
Consume(g) ==
  /\ st[g] # "boot"
  /\ inbox[g] > 0
  /\ ~Reloading(g)
  /\ inbox' = [inbox EXCEPT ![g] = @ - 1]
  /\ load' = [load EXCEPT ![g] = Asked]
  /\ UNCHANGED <<storeVars, gw, mem, st, lost, restarts, missed>>

\* SUBSCRIBE takes effect, the first time or after a reconnection.
Subscribe(g) ==
  /\ st[g] = "unsubscribed"
  /\ st' = [st EXCEPT ![g] = "up"]
  /\ UNCHANGED <<storeVars, gw, mem, inbox, load, lost, restarts, missed>>

\* The subscriber's connection breaks; what it has received stays in the channel.
Disconnect(g) ==
  /\ st[g] = "up"
  /\ lost < MaxLost
  /\ lost' = lost + 1
  /\ st' = [st EXCEPT ![g] = "unsubscribed"]
  /\ UNCHANGED <<storeVars, gw, mem, inbox, load, restarts, missed>>

\* The process ends and starts again: its memory, messages and calls are gone,
\* and main reloads before it subscribes.
Restart(g) ==
  /\ restarts < MaxRestarts
  /\ restarts' = restarts + 1
  /\ LET dying == {o \in Ops : gw[o] = g /\ InFlight(o)}
     IN /\ pc' = [o \in Ops |-> IF o \in dying THEN "failed" ELSE pc[o]]
        /\ cut' = cut \cup dying
        /\ missed' = [h \in Gateways |-> missed[h] \/ dying # {}]
  /\ load' = [t \in Reloaders |-> IF t = g THEN Asked
                                  ELSE IF Gateway(t) = g THEN NoLoad ELSE load[t]]
  /\ mem' = [mem EXCEPT ![g] = EmptyIndex]
  /\ inbox' = [inbox EXCEPT ![g] = 0]
  /\ st' = [st EXCEPT ![g] = "boot"]
  /\ UNCHANGED <<store, kind, id, key, seen, errors, aborts, gw, lost>>

Settled ==
  /\ AtRest
  /\ \A t \in Reloaders : ~Reloading(t)
  /\ \A g \in Gateways : inbox[g] = 0 /\ st[g] = "up"

Next ==
  \/ \E o \in Ops : BeginAt(o) \/ CommandAt(o) \/ CreateErrorAt(o) \/ PublishAt(o) \/ AbortAt(o)
  \/ \E t \in Reloaders : List(t) \/ Get(t) \/ Install(t) \/ ReloadError(t)
  \/ \E g \in Gateways : Consume(g) \/ Subscribe(g) \/ Disconnect(g) \/ Restart(g)
  \/ Settled /\ UNCHANGED vars

Spec == Init /\ [][Next]_vars

\* A call in progress, a reload and the subscriber go on; nobody has to make a
\* change, and nothing has to fail.
Progress ==
  /\ \A o \in Ops : WF_vars(CommandAt(o)) /\ WF_vars(PublishAt(o))
  /\ \A t \in Reloaders : WF_vars(List(t)) /\ WF_vars(Get(t)) /\ WF_vars(Install(t))
  /\ \A g \in Gateways : WF_vars(Consume(g)) /\ WF_vars(Subscribe(g))

FairSpec == Spec /\ Progress

-----------------------------------------------------------------------------
(* Properties *)

\* The variables of the gateways have their shapes.
TypeOK ==
  /\ StoreTypeOK
  /\ gw \in [Ops -> AdminGateways]
  /\ mem \in [Gateways -> Index]
  /\ st \in [Gateways -> {"boot", "unsubscribed", "up"}]
  /\ inbox \in [Gateways -> 0 .. Cardinality(Ops)]
  /\ load \in [Reloaders -> [phase : {"no", "list", "get"}, todo : SUBSET Ops, next : Index]]
  /\ missed \in [Gateways -> BOOLEAN]

\* What questions match in memory is what Redis lists: the text of a listed
\* rule of each key, and nothing for a key that no rule has.
Fresh(g) ==
  \A k \in Keys :
    LET live == {i \in ids : Stored(i) /\ rule[i].key = k}
    IN mem[g][k] \in IF live = {} THEN {NoEntry}
                     ELSE {[id |-> i, dat |-> rule[i].dat] : i \in live}

\* When everything has come to rest, every gateway whose subscriber has been
\* told of every change serves what Redis lists (coordinator.go:21-28,
\* main.go:341-361).
FreshAtRest == Settled => \A g \in Gateways : missed[g] \/ Fresh(g)

\* The same for the gateways that serve no administrators: their reloads run
\* one after the other, whatever the administrators do elsewhere.
FollowersFreshAtRest ==
  Settled => \A g \in Gateways \ AdminGateways : missed[g] \/ Fresh(g)

\* Every gateway serves what Redis lists, in the end and from then on, unless
\* its subscriber was not told.
EventuallyFresh == \A g \in Gateways : <>[](missed[g] \/ Fresh(g))

\* specs/requirements.md:48, FR-A03: a change takes effect (there: within a
\* second).  Stated at rest, when no time can help any more, and of changes that
\* all succeeded.
ChangesTakeEffect ==
  Settled /\ (\A o \in Ops : pc[o] # "failed") => \A g \in Gateways : Fresh(g)
=============================================================================
