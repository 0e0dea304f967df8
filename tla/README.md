# A TLA+ model of the question-answering gateway

The repository is a gateway that answers questions. A question goes through
exact rules, regex rules, a semantic cache (embedding sidecar and Qdrant) and
finally a retrieval-augmented generator behind an HTTP service. Rules live in
Redis and are held in the memory of every gateway. Equal or similar questions
that arrive together share one downstream call. Circuit breakers guard the
three remote services. This directory holds TLA+ modules for the parts whose
correctness depends on interleaving, crashes and time, the TLC configurations
that check them, and TLAPS proofs.

## 1. Inventory

| Component | Source | State it keeps | Operations | Where |
|---|---|---|---|---|
| Circuit breaker | `circuitbreaker/breaker.go`, `embedding/circuit.go`, `vector/circuit_store.go`, `downstream/circuit.go` | `failures`, `openUntil` under a mutex | `Allow`, `Success`, `Fail`, around a call made without the mutex | `Breaker` |
| Exact rule store | `rules/redis_store.go` | Redis: rule documents, the set of ids, one index entry per (scope, key) | `Create`, `Update`, `Delete`, `GetByID`, `ListAll` | `ExactStore` |
| Exact rules in memory | `rules/coordinator.go`, `memory_index.go`, `http/admin_exact.go`, `cmd/gateway/main.go` | per gateway a map from (scope, key) to answer, replaced as a whole | `Reload`, `MatchExact`, admin handlers, Pub/Sub goroutine, startup | `ExactRules` |
| Regex rule store | `rules/redis_regex_store.go` | Redis: rule documents, the set of ids | `Create`, `PatchRegex`, `Delete` | `RegexStore` |
| Regex rules in memory | `rules/regex_coordinator.go`, `regex_memory_index.go`, `http/admin_regex.go` | per gateway and scope a sorted list of compiled rules | `Reload`, `MatchRegex` | `RegexRules` |
| Text coalescing, Redis | `coalesce/redis.go` | for every merge key a lock key and a result key, each with a TTL | `Do` of leaders and waiters | `CoalesceRedis` |
| Text coalescing, local | `coalesce/rag.go` | one `singleflight.Group` | `Do` | `LocalMerge` |
| Semantic coalescing, local | `coalesce/semantic_local.go` | per scope a list of active groups, each with a representative vector and a singleflight | `Merge` | `LocalMerge` |
| Semantic coalescing, Redis | `coalesce/semantic_redis.go` | in Redis the set of active group ids and one vector per group, and the keys of `redis.go` per group | `Merge` | `SemanticRedis` |
| Embedding client, sidecar | `embedding/client.go`, `frame.go`, `ai_service/app` | one connection under a mutex; the sidecar one request per connection | `Embed`, `Ping`, `Close`; read, compute, reply | `EmbeddingClient` |
| Question answering | `http/qa.go` | one event stream per request, a write-back goroutine | `handleQA` | `QA` |
| Shutdown | `bootstrap/server.go` | the HTTP server | `Run` | not modelled |
| Vector stores, downstream client | `vector/qdrant.go`, `downstream/*.go` | none | HTTP calls with a time limit | abstract in `QA` and `Breaker` |
| Configuration, metrics, routing, LangChain mock | `config`, `observability`, `router.go`, `langchain_mock` | none that is read back | | not modelled |

How they interact:

- **Admin handlers → store → Pub/Sub → every gateway.** A handler changes Redis
  by a series of commands, the last of which is a PUBLISH, and then reloads its
  own gateway. Every gateway has a goroutine that reloads once per message.
  `ExactRules` composes the store (`EXTENDS ExactStore`) with the gateways'
  memories, channels and reloads; `RegexRules` does the same for the regex rules.
- **Questions → memory.** Matching reads the gateway's index under a read lock
  and never Redis, so that a question sees exactly what the last `ReplaceAll`
  installed.
- **Questions → breakers → remote services**, with up to as many calls inside one
  breaker as there are requests.
- **Questions → coalescing → downstream.** The downstream breaker is inside the
  coalesced call, which has a context of its own; every other call has the
  request's. `QA` composes the pipeline with the merger (`EXTENDS LocalMerge`).
- **Semantic coalescing → text coalescing.** `SemanticRedis` finds or makes a group
  and then hands the group's id as merge key to the `doKeysWithRole` of `redis.go`;
  the leader removes the group afterwards. The module extends `CoalesceRedis`.
- **Questions → embedding client → sidecar.** All calls of a gateway share one
  connection and wait for each other at its mutex.
- **Questions → write-back → later questions.** After an answer was sent, a
  goroutine stores it with the question's vector where later searches find it.

What is hard: every Redis operation is several commands, none of them is a
transaction and nothing locks administrators out; reloads of one gateway overlap;
Pub/Sub messages can be lost; gateways crash between two commands; the breaker's
calls report late; the coalescing lock names no owner and expires; a request chooses
its group under a mutex and enters it without, or, over Redis, by a series of
commands without any mutex; a call to the sidecar that gives up leaves an answer
on its way, and its deadline has run while it waited for others.

What makes each part correct:

- breaker: windows open only when due, end if the calls inside keep their deadline,
  and late calls can only close them by a success or prolong them as often as they
  can pay for;
- exact store: one rule per scope and key, at all times; the structures agree;
  every change is one of those an administrator can ask for;
- rules in memory: every gateway ends with what Redis lists, and answers by the
  priority policy; reloads lose nothing that stays;
- coalescing over Redis: at most one run of a key at a time, waiters get its answer,
  a stored result is used; a group is made only if there was no similar one, and
  its id does not stay behind;
- embedding client: nobody gets the reply to another call, a broken connection costs
  one call, waiting for others has a bound;
- local coalescing: similar requests overlap only behind stragglers, groups do not
  pile up, nobody waits for a run that is not there;
- question answering: an answer fits the question it is sent to or stored with,
  stored answers are used, a client that leaves does no harm to others.

## 2. Modules

`A ← B` below means that B extends A.

| Module | Models | MC module | Proofs |
|---|---|---|---|
| `Breaker` | the breaker and its callers | `MCBreaker` | `BreakerProofs` |
| `RuleBook` | abstract: what rule administration promises | | |
| `ExactStore` | Redis commands of the exact rules | `MCExactStore` | `ExactStoreProofs` |
| `ExactRules` (`ExactStore ← ExactRules`) | the gateways' memories of them | `MCExactRules` | `ExactRulesProofs` |
| `RegexStore` | Redis commands of the regex rules | `MCRegexRules` | `RegexProofs` |
| `RegexRules` (`RegexStore ← RegexRules`) | the gateways' memories of them | `MCRegexRules` | `RegexProofs` |
| `SharedRuns` | abstract: what a merger promises | | |
| `CoalesceRedis` | the locks and results of the merge keys | `MCCoalesce` | `CoalesceProofs` |
| `SemanticRedis` (`CoalesceRedis ← SemanticRedis`) | the groups of one scope | `MCCoalesce` | `SemanticProofs` |
| `EmbeddingClient` | the calls of one gateway, the connection, the sidecar | `MCEmbeddingClient` | `EmbeddingProofs` |
| `LocalMerge` | coalescing inside one gateway, by text and by vector | `MCQA` | `QAProofs` |
| `QA` (`LocalMerge ← QA`) | `handleQA` and the write-back | `MCQA` | `QAProofs` |

**Breaker.** `failures` and `openUntil` are the fields of the struct. Each method
is one step, because it holds the mutex; `status[c] = "running"` is a caller
between `Allow` and its report. `Admit`/`Reject` are the two answers of `Allow`,
`Success` and `Fail` the reports. The wrapped calls are of two kinds. Those of
`CircuitStore` and of the downstream client are HTTP requests that end with their
context. That of `embedding.CircuitService` is not: `Client.roundTrip` computes a
deadline, then waits for a mutex and dials without looking at it
(`client.go:171-187`), so the call may report much later. `timed`, chosen in `Init`,
says which kind it is, and only for timed calls does the clock stop at the deadline
(`WithinDeadline`). `streak`, `lastAdmit`, `tripEnd`, `trips`, `healed` and `probes`
record the past for the properties; no action reads them.

**ExactStore.** `rule`, `ids` and `idx` are the three kinds of Redis keys. `pc[o]`
is the Redis command that call `o` sends next, so that one action is one command.
`AdminMode` states what the environment does: `"any"` is the code as it is (no
coordination of administrators), `"perRule"` at most one change at a time to
each rule, and a key changed while nothing else is done, `"serial"` one change at
a time. The last two are not in the code; they
are the disciplines under which it can keep its promises, and every property says
in which of them it is checked. `Abort` ends a call between two commands (crash,
lost connection); `CreateError` is a pipeline that reports an error after part of
it was run, followed by the compensation `Undo`. `cut` records, for one property,
the calls that failed so. Definitions marked
`(variant)` are changed forms of a definition and belong to no specification.

**ExactRules.** `mem[g]` is the index, `st[g]` whether the subscription is in
effect, `inbox[g]` the messages in its channel, `load[t]` the `Reload` run by
handler or subscriber `t`: `List` is SMEMBERS, `Get` one GET, `Install` is
`ReplaceAll`. `missed[g]` records that a change may have been made of which the
subscriber was not told; it is cleared when the subscriber's own reload lists the
ids again. It is not read by any action.

**RegexStore, RegexRules.** As above. A pattern is the set of queries it matches,
or `Bad`; a patch is a record with the fields it names, and `Patched` takes the
others from the rule that was read. `Rules` are the rules that may be stored: no
pattern in them is `Bad`. `Index` is the grouping, compiling and sorting of `ReplaceAll`,
`Match` the first hit. Stamps are arbitrary, since every gateway stamps with its
own clock. Administrators are not coordinated: patches and deletions of one rule
overlap in every order, as they may in the code. `wrote` (the calls that have
written or deleted their rule), `knew[o]` (those that had when o read the rule) and
`past[o]` (those that had when o wrote) record the past for the properties; with
them `Overlapped(o, p)` says that the patch p put a rule back as it was before o.

**SharedRuns.** The interface `Merger` has one promise, over Redis and in the process
(`COALESCE_DESIGN.md:4`): requests for one thing share a run. A request is out, has
asked, has joined a run, is running or is over. A run begins only when no other one
for the key is going on, and if an outcome is kept only for a request that asked
before (`early`); who has joined has a run or an outcome to wait for, and gets it at
the end of the run (`HandOver`, the singleflight) or later (`Keep` and `Get`, the
result in Redis). `GiveUp` is possible only after a failure. `CoalesceRedis` (and with it
`SemanticRedis`) and `LocalMerge` (in `QA`) implement it, each with its own
`Stage` and `Want`; in the process nothing is kept and nothing fails, because an
error is an outcome like any other and a client that leaves stops no run.

**CoalesceRedis.** `lock[k]` and `res[k]` are the two Redis keys of a merge key k
with the time they have left, `pc[r]` the command a request sends next, `age[r]` how
long it has run or waited. A request goes get → setnx → (run → set → unlock) or
wait. Time has no beginning and no end: `Tick` ages everything and is held up by
`Punctual` (the run has MergeTimeout, the pipeline after it `Stall`, and a waiter
polls at least once a tick). `Cut` is a crash, a failed command or a cancelled
request, `LoseReply` a SETNX that took effect and reported an error. `stale`
records, for one property, the requests that had read "no result" when one was
stored.

**SemanticRedis.** In front of that: `List` is SMEMBERS, `Look` the GET of the next
vector, `Sweep` the SREM of an id without one, `Found` and `SetVec` the two commands
that make a group, after which the request `Arrive`s in the protocol above with the
group as its key; `DelVec` and `SRem` are `removeGroup` of the leader. Groups are
named after the request that makes them; `Dead` ids were left by gateways that died
before. `Expire` ends a vector's TTL at any time: it is longer than a lock and a
result together, but a request may stay between two of its commands for longer
still. Failed commands the code does not look at are `losses`, bounded together
with `faults`. `SemInit` chooses between a deployment that merges by text (one key
for all) and one that merges by meaning, so that one run checks both. `steady`
records, for one property, the groups that were there throughout a search.

**EmbeddingClient.** `pc[c]` is where a call is between `Begin` (the deadline is
computed) and its return; `mutex` who holds `Client.mu`; `requests`, `work` and
`replies` what is on the present connection and what the sidecar computes for it. A
frame is whole or nothing: a half one makes its reader wait like none. A write that
blocks behaves like a read without a reply, so `Write` is one step. Time passes only
while every call can only wait (`Blocked`); the sidecar takes any time. The ping at
startup is the same exchange and its outcome the initial `conn`; `Close` has no
caller while requests are served. A `Read` of somebody else's reply resets the
connection; that this never happens is what `NoStrayReply` says, and it is why the
empty request id, which the code does not compare (`client.go:211`), does no harm.

**LocalMerge.** `listed` is `byScope`; the code searches a slice from its front, and
the model takes any similar group, so that nothing rests on the order. `runner[g]` the call inside the singleflight of
group g. A semantic group is named after the request that founds it and whose
vector it keeps; a text group is its merge key. `Choose` is the part of `Merge` under
the mutex, `Enter` the call of `singleflight.Do`, `FnReturns` the end of fn with
`removeLeader`, `Finish` the end of the run, at which the waiters wake up. Anything may
happen between them: a group may be left, taken off the list and run again by a
request that had chosen it before. `late` records those requests for the properties.
Errors are shared like answers.

**QA.** `stage[r]` is the part of the handler request r is in, `source[r]` how its
stream ended: `"known"` is an answer from a rule or from Qdrant, `"rag"` one from
downstream. `deps` is the set of parts that are wired, one of `Deployments`, which
must be `Legal`, that is, pass the checks of `main`; coalescing is that of
`coalesce.mode: local`. The searches answer for the stored points (`Near`), and the
main collection may in addition hit an administrator's. `Fault` is a remote call
that fails, in `FaultOrGone` also because the client has gone. Three variables
record the past: `knew` (requests that began when a similar point was stored),
`degraded` (requests with a failed search) and `broken` (a downstream error).
`Embed` never continues without a vector, because `Client.Embed` returns an error
instead of an empty one.

## 3. Runs

| Run | Instance | Question |
|---|---|---|
| `breaker` | 3 calls, timed or not, threshold 2, window 3, limit 2, clock to 9 | windows open only when due, are broken only by a success and prolonged only as often as stragglers pay for; if calls are timed, they end in time and leave no call behind |
| `exact_per_rule` | 5 calls of every kind, 2 keys, per-rule discipline | keys are unique, a stored rule holds its key at every moment, the structures agree at rest, `RuleBook` is implemented |
| `exact_faults` | the same with 1 crash and 1 failed pipeline | only the keys the failed calls were about are ever wrong |
| `rules_followers` | 3 uncoordinated calls, 1 key, 1 pipeline error; one gateway with administrators, one without | the follower ends with what Redis lists |
| `rules_live` | 2 calls one after the other, administrators at 2 gateways, 1 crashed call, 1 restart, 1 lost subscription or failed reload | at rest, and under fairness in the end, every gateway that was told serves what Redis lists |
| `coalesce` | 3 requests (2 like 1 and 3, 1 unlike 3), merged by text or by meaning; 1 dead id, `MaxActive` 3, LockTTL 3, ResultTTL 3, 1 fault | runs of a key exclude each other, the lock is the leader's own, `SharedRuns` is implemented, only faults cause timeouts or ids that stay, a group is made only if there was none |
| `embedding` | 4 calls, time limit 2, dial limit 3, 2 faults, clock to 14 | no stray reply, a fault costs one call, calls end in time |
| `regex_rules` | 3 uncoordinated calls, 3 drafts (one invalid), 5 patches (one invalid, one empty), 2 stamps, 1 crash, a follower | only an overlapping patch loses a change or revives a deleted rule, only revived rules are missing from the listing, the follower answers by the policy and drops nothing |
| `qa` | 4 requests whose vectors lie in a row, the last in another scope, the first two with one text; 4 deployments; 1 failure or disconnection | groups end and do not overlap, `SharedRuns` is implemented, answers fit, stored answers are reused, disconnections are harmless |
| `breaker_probe` | as `breaker` | violation: no half-open probe |
| `exact_race` | 3 uncoordinated calls | violation: two rules with one key |
| `rules_stale` | 3 calls, one gateway | violation: the older of two overlapping reloads is installed last |

The bounds. In `breaker` three calls are two stragglers and one call after them,
and the clock covers an outage, its prolongation and a second one. For the
store, two changes and the create they are about (three calls) is the smallest
instance in which a change is interleaved with another, and the fourth lets a
key be used again after a deletion. In `rules_followers` and `rules_live` one key
is enough, because an index entry depends on the rules of its key only; what
matters is the number of messages and reloads that overlap. In `coalesce` three
requests are a leader, a waiter and a late arrival, or two groups and a request
between them; LockTTL is larger than MergeTimeout + Stall, as the configuration
demands (`lock_ttl_seconds` 120 s against a downstream limit of seconds), so that a
lock and a result can both expire within a request's life. Because time has no
bound, every overlap of these requests is reached. The run was also made once
with ResultTTL 4 and Grace 1, and once with two faults, with the same result
(3.1 and 3.7 million states). In `embedding` four calls are one that is served and
three that queue, the clock lasts for all of their holds of the mutex (4 times 3
ticks), and two faults are a broken connection and a failed dial. In `qa` three similar requests of a scope are a
group, one that enters it after its end, and one that founds the next group in
between; a row (1 like 2, 2 like 3, 1 unlike 3) is the shape in which answers could
drift, and the fourth request is like the third but must not be merged with it.
Calls are made at most once, which bounds the runs; in `breaker` and `embedding` the
clock does too.

All behaviours of `qa` are finite: every action except the final stutter takes a
request or a write-back further. So its freedom from deadlock means that every
stream ends, without any fairness beyond goroutines that run and calls that end
within their time limits.

Fairness (only `FairSpec` of `ExactRules`): a call in progress sends its next
command, a reload goes on, a subscriber takes messages and its subscription comes
into effect. These are goroutines that nothing blocks, and go-redis resubscribes
by itself. Beginning a call, failing and restarting are not fair. Without the
bounds on failures `EventuallyFresh` would be about an environment that stops
failing; the bounds say the same.

Deadlock is checked in all runs: each specification stutters only in the states
where the system may rest (`Finished`, `Settled`, `Over`), so a call that could not
go on would be reported.

### What the violations show

- `exact_race`: `Update` reads the new index entry and sets it in a later pipeline.
  A `Create` in between makes two rules with one key. The same property also fails
  in three other ways that can be reproduced by changing the configuration:
  two deletions of one rule, the second with a stale read, and creates between
  them (`Kinds` create and delete, 5 calls); an error of a `Create` pipeline whose
  commands were run (`MaxErrors = 1`, `AdminMode = "serial"`); an `Update` cut off
  after its first DEL (`MaxAborts = 1`, `AdminMode = "serial"`).
- `rules_stale`: `Reload` has no lock and no version. The handler's and the
  subscriber's reload overlap, and the one that has read first may be installed
  last. Nothing corrects that until the next change. The same property fails with a
  restart (`MaxRestarts = 1`, two gateways): `main` reloads before it subscribes, and a
  change in between is seen by neither.
- `breaker_probe`: after the window `Allow` resets the counter and lets everybody in.
  The document says the first call is a probe whose failure opens the breaker again;
  that is so only with a threshold of 1. Related: a straggler's success closes a
  window early, so the "fail fast for `open_seconds`" of the same document does not
  hold either; what does hold is `WindowBrokenOnlyBySuccess`.

`SharedRuns` has an exception in it: a request in `early` (here `stale`). `doKeysWithRole` reads
the result before it takes the lock and not again afterwards (`redis.go:78`). If a
leader publishes and unlocks in between, the request leads a second run of the key
while a result is stored, although `COALESCE_DESIGN.md:4` promises one downstream
call. `SharesRuns` says that this is the only way. In the same way
`FoundsOnlyIfNone` allows two similar requests that search at the same time to make
a group each (`semantic_redis.go:96`).

The comment at `client.go:112` says that a call returns soon after its context
ends. The code looks at the context only before it queues for the mutex; after
that a call may wait for others, and dial for two seconds past its deadline. What
holds is `EndsInTime`: one hold of the mutex for every call made so far. A call that
gets the mutex after its deadline closes a healthy connection and makes the next
one dial.

`PatchRegex` is a read-modify-write without a condition, like `Update` of the exact
rules. A patch that overlaps another undoes it, and one that overlaps a deletion
writes the deleted rule again, which then stays out of the listing, and so out of
every index, for good: it can still be read by its id. The run `regex_rules` has
these races, a create and any two calls on its rule being enough for each, and its
properties say that they are the only ones: `ChangesStick` allows a change to be
lost, and `RevivedOnlyByOverlap` a deleted rule to be stored, only to a patch that
read the rule before and wrote it after (`Overlapped`), and `OnlyRevivedUnlisted`
says what the listing lacks. TLC refutes each of the three when its exception is
taken out.

`qa` keeps apart what is promised from what one may expect. Two runs of similar
questions do overlap if a request was overtaken between `Choose` and `Enter`
(`OverlapNeedsStraggler` says only then); `semantic_local_test.go`, which starts 16
goroutines and counts one call, does not meet that case because fn sleeps.
Coalescing keeps scopes apart, but the searches do not ask for a scope
(`qdrant.go:70`), so that an answer stored for one scope is found from another:
`Near` has it so, and `AnswersFit` speaks of merged and stored answers only. A
search cancelled by its client counts as a failure of the vector breaker
(`circuit_store.go:41`), which `Breaker` covers with its arbitrary failures.

A crash between SETNX and the pipeline of `Create` leaves an index entry without a
rule: the key can never be created again, and other crashes leave rules that do not
hold their keys. The code has no repair, so that `ConsistentAtRest` and
`UniqueKeys` hold only without faults. What holds with them is `DamageIsLocal`: a
key no failed call asked for or gave up is never affected, however the damaged
keys and rules are used afterwards.

## 4. Proofs

For every value of the constants, under the assumptions named in the modules:

- `BreakerProofs`: the inductive invariant `Inv` adds to the types that a running
  call began no later than the last admission and, if it is timed, its limit is not
  over (`Timely`), and that while a window is set every running call was admitted
  before it opened (`Stragglers`). `TripsArePaid` needs a count: the windows opened
  since the last admission, times the threshold, plus the failures counted so far,
  plus the running calls never exceed the number of calls and what was counted
  before (`Paid`), because a report turns a running call into a failure or resets
  the counter. That the counter never exceeds the recorded streak gives
  `TripNeedsConsecutiveFailures`. From `Inv` follow all six properties of the run
  `breaker`; those that speak of deadlines say `timed` themselves.
- `ExactStoreProofs`: `StoreTypeCorrect` holds for every way of working, with `Shape`
  (which commands a call of each kind can be at). Under `Disciplined` (perRule or
  serial, no failed Create pipelines, crashes only if no keys are patched) the
  invariant `Safe` is inductive. `Control` says who can be where (one editor per
  rule, a key patch alone), `Held` what a call knows between two commands, which is
  its heart: a Create about to write holds the index entry (`ClaimHeld`), what an
  Update or Delete has read still holds (`ReadHolds`), a Delete holds the entry it is
  about to free (`DeleteHolds`), and nobody takes the key a patch has let go of
  (`MoveHolds`). `RuleHoldsItsKey` gives `UniqueKeys`, and the refinement
  `ImplementsBook` maps each SET or DEL of a document to a step of `RuleBook` and
  every other command to a stutter.
  With crashes and failed pipelines nothing of that holds of every key, so the
  invariant behind `DamageStaysLocal` is stated key by key: every key that no cut-off
  call has asked for or given up is `Sound` (whoever has it holds its index entry or
  is moving to it, the entry is that of its rule or of a call that accounts for it,
  and what calls have seen of it still holds). The set of harmed keys only grows
  (`HarmStays`), and a rule may be edited while its failed Create is still taking the
  index entry back (`Order`). Without crashes no key is harmed, and every difference
  between the listing and the rules has a call that accounts for it (`Listing`); hence
  `ConsistentAtRest`.
- `ExactRulesProofs`: a call that has changed what a reload reads has its PUBLISH
  still before it (`Writing`). So a gateway whose subscriber was told of everything
  (`missed` is false) is `Current`: a message is in its channel, a call is writing,
  its reload is about to list the ids, or is right about the ids it has got
  (`Coming`), or its memory is fresh. Every step keeps that, restarts and lost
  connections included, except the end of a handler's reload that has read old
  rules. A follower has no handlers (`FollowersEndFresh`, for any administrators);
  with serial administrators no call is made while a handler reloads (`Alone`),
  so that its reload is right as well (`GatewaysEndFresh`). `rules_stale` shows that
  one of the two is needed.
- `CoalesceProofs`: under `Timing` (LockTTL exceeds MergeTimeout + Stall) a leader's lock
  entry is its own and has at least as much time left as the leader (`HoldsLock`),
  hence `Exclusive` and `UnlocksOwn`, for every number of keys. `Sharing`
  needs no assumption: a request at SETNX that is not in `stale` is right that there is
  no result. `TimeoutNeedsFault` also needs `Lasting` (ResultTTL exceeds
  MergeTimeout + Stall). Without faults every live lock has its leader (`LocksLed`),
  what a leader has stored outlives its pipeline (`Published`), and a waiter waits
  for a run that began before its wait or has a result to find (`WaitsForRun`).
  From the same facts follows that every step is one of `SharedRuns` or a stutter
  (`StepShared`, `RedisSharesRuns`): SETNX that takes the lock is `Begin`
  (`HoldsLock`, `NotOvertaken`), one that does not is `Join` (`LocksLed`,
  `Published`), the SET of the result is `Keep`, the DEL after it nothing, the end of a
  wait `Get` or `GiveUp` (`WaitsForRun`).
- `SemanticProofs`: every step of `SemanticRedis` is a step of `CoalesceRedis` or leaves
  its variables alone (`Layered`), so that the results above hold for groups without
  another proof (`GroupsShareRuns`). `LeaksBounded` counts: an id of the list is bound while some request will
  remove it if nothing fails (`HeldBy`) or its founder is about to lead it (`Fresh`,
  which rests on `UnusedBefore`: before a group is made its id names nothing). A step
  leaves an id unbound only if it counts a fault, and then one id only
  (`StepBound`). `FoundsIfNone` carries "a steady similar group is still to be looked
  at" along the search (`ToBeFound`).
- `EmbeddingProofs`: `OwnReplies` from the facts that only the holder of the mutex is
  past it (`Holding`) and that there is one frame at most, the exchange of the call
  that reads (`Exchange`): every way out of the exchange but its reply resets the
  connection. `FaultsCostOneCall` keeps one fault in reserve for the connection
  that is dead and not yet reset (`Paid`). `CallsEnd` rests on `Queue`: a hold of the
  mutex ends in time, and until it began a waiting call had waited for no more
  holds than calls have ended.

- `QAProofs`: all eight properties of the run `qa`, from no more than the modules'
  assumptions, so for any number of requests, similarities and deployments.
  `Places` says at which point of the merger a request in each part of the handler
  is; every step is one of the merger or leaves its variables alone (`Layers`), so
  that the merger's facts are proved for its own moves. Those are `Grouped` (what a
  group's name says about who is in it), `Running` (the runner of a group is a request
  at work in it) and `Waits`; `Merger` is their conjunction with the listed groups
  being apart and attended. `Answers` follows a result from the run that made it to
  whoever gets it: it fits the group, and `Fits` carries over because the
  representative never changes. `MergerSharesRuns` maps `Enter` to `Begin` or `Join`, by `Running`, and
  `Finish` to `HandOver`. `Reuse` is the pair of "a point that matches was
  stored before" and "the search that finds it is still ahead or has failed".
- `RegexProofs`: all six properties of the run `regex_rules`, for any administrators.
  `Order` says what the recorded past may contain at each point of a call, and that a
  call which overlapped another stays so (`Lasting`). `Facts` follows each write: what
  it gave a field is stored or `Superseded` (`Kept`), what it deleted is gone or written
  back (`Gone`), and a patch between its read and its write carries every field of
  the writes it had seen (`Carried`), which is why a lost change must come from one it
  had not seen. `Listing` says which ids and rules can differ while a call is
  between the commands on the one and on the other, and that else only a rule a
  patch put back is missing.
  Then the gateways. Sorting first:
  `Before` is a strict total order on the entries of rules (`BeforeOrders`), so the
  sequence that puts each entry at the number of those before it exists
  (`SortedExists`, without induction) and is what `Ordered` is (`OrderedSeq`). Then
  reading: a reload has each id it still has to read or has read at most once
  (`ReadOnce`), and what it passed by was not stored or is being deleted (`Keeping`),
  so that `Install` serves every rule that stays: `ServingGoesOn`. A follower that was told
  of everything is `Current`, as in `ExactRulesProofs`: a message or a writer is ahead of it, its
  reload is right about what it has read (`Coming`), or its memory is the index of what
  is stored. At rest only the last is left, and the first entry that matches
  (`FirstMatch`) is one the policy allows: `FollowersObeyPolicy`.

Every safety property and every action property of the passing runs is so the
statement of a theorem. Only model-checked is `EventuallyFresh`: liveness under
fairness is out of reach of the prover, as are ENABLED and induction over data. No module
declares a recursive operator.

## 5. Left out, and what could follow

Abstractions: scopes and keys are model values, so normalisation (`TrimSpace`,
`ToLower`) and the collision of `idxHash` for scopes with a newline are not
modelled; HTTP statuses, pagination, logging and metrics are not; a
regex is the set of queries it matches; whether two embeddings are similar is a
relation, and so is whether an upsert is found by a search. Redis is assumed to
keep its data and to run one command at a time. go-redis sends a command or
pipeline again, up to three times, when the connection breaks (`main.go:41` leaves
`MaxRetries` at its default), and the models send it once. A rule pipeline
that took effect and is sent again may undo what others changed in between, and the
SETNX of `Create` sent again reports a conflict with itself and leaves the key taken,
as a crash after it does. In `redis.go` a SETNX that took effect and is sent again answers false, so that the request polls
until its deadline with nobody running, and a pipeline that took effect and is sent
again removes the lock of a request that had read "no result" before and took the lock in
between, so that a third one may run beside it. All properties are about
commands that are sent once. The cached error of a coalesced run is not told apart from an answer. Of the lifetime of a vector in Redis only that it
ends is modelled.

Not modelled, and why:

- Shutdown (`bootstrap/server.go`): the HTTP server of the standard library waits for
  handlers, and the handlers' own end is what `qa` shows. A write-back that
  the exit cuts off (`qa.go:261`) differs in nothing from one that fails, which `QA`
  has.
- The work of the sidecar for connections the client has given up
  (`ai_service/app/main.py:202`): it goes on and takes processor time, and reaches
  nobody. Parsing and validation of frames only choose between a vector and an error.
- `Client.Ping` and `Client.Close`: see `EmbeddingClient` above.
- Read-only admin handlers, the pagination of `List`, routing, health, the
  configuration loader and the construction of clients in `main`: sequential, no state
  that others change.
- Metrics, the LangChain mock, and the packages that are only named
  (`integration`, `rulesync`, `grpc`).

Two consequences of the semantic merge are in `SemanticRedis` without a property of
their own. A sweep that read "no vector" before a founder's SET removes the founder's
id after it (`semantic_redis.go:81`), and others make a second group. And a scope
whose list holds `MaxActive` dead ids never merges again, because `Merge` returns
before it could remove them (`semantic_redis.go:72`); `LeaksNeedFaults` says that it
takes as many failures.

What could follow, by importance:

1. `QA` with `Breaker` for its remote calls, so that a client that leaves can be
   followed to an open breaker (`circuit_store.go:41`), and with errors that keep their
   identity (`redis.go:96`);
2. pure functions against reference definitions: pagination of `List`, merge keys,
   index hashing.
