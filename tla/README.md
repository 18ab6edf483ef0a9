# Symba: a TLA+ model of the durable job engine

Symba runs jobs that live in Postgres. Clients submit jobs (with dependencies,
chains, fan-out gates, failure hooks, group ceilings, dedup keys); engines claim
queued rows and push them to workers over a gRPC stream; workers complete, fail,
park or heartbeat them under a lease; a sweeper takes back what lost workers
hold. Every state change is a SQL transaction, so the system is a set of
transactions that interleave on a few tables. That is what is modelled here.

## The system and its parts

| part | source (under `src/src/symba`) | model |
|---|---|---|
| job state machine | `core/states.py` | `JobStates`, `JobLifecycle` |
| submit, dependencies, dedup | `services/submit_service.py`, `submit.sql`, `decrement_deps.sql`, `cascade_cancel.sql` | `JobEngine` |
| settlement: complete, fail, heartbeat | `services/job_service.py`, `core/retry.py`, `core/chain.py` | `JobEngine` |
| fan-out gates | `services/fanout_service.py`, `core/gates.py`, `bump_gate.sql` | `JobEngine` |
| cancel, resubmit | `services/cancel_service.py`, `services/resubmit_service.py` | `JobEngine` |
| claim and group ceilings | `claim.sql`, `decrement_group.sql`, `reconcile_groups.sql` | `JobEngine` (one claimer), `ClaimRace` (several) |
| sweeper | `services/loops.py`, `sweep_leases.sql`, `list_exhausted_leases.sql`, `sweep_waits.sql` | `JobEngine` |
| signals and waits | `services/signal_service.py`, `signal.sql`, `wait_consume.sql`, `wait_park.sql` | `SignalRendezvous` (statements), `JobEngine` (as steps) |
| dispatcher, matcher, worker registry, Claim stream | `services/loops.py`, `services/matcher.py`, `services/registry.py`, `transport/worker_service.py` | `DispatchOrder`, `WorkerFleet` |
| rate limiter, checkpoints | `services/rate_limiter.py`, `services/checkpoint_service.py`, `rate_*_pg.sql` | `RedisClient`, `RateLimiter`, `Checkpoints`, composed in `RedisServices` |
| engine process | `main.py`, `transport/grpc_server.py`, `transport/http_server.py` | `EngineProcess` |
| cron loop and its admin calls | `services/loops.py`, `services/query_service.py`, `cron_*.sql` | `Cron` |
| event stream | `services/event_stream.py`, `events_since.sql` | `EventStream` |
| submit batches and tenant cap, paged reads, AwaitJob, Cancel | `transport/client_service.py`, `services/submit_service.py`, `services/query_service.py` | `ControlPlane` |
| results sent by a worker | `worker.py` (under `src/examples/raw_grpc_worker`), `transport/worker_service.py` | `WorkerRpc` |

`EngineServices` composes the last five: they share the engine processes, whose
exits cut them short, and the outages. Jobs tie the groups together: what
`WorkerFleet`, `ControlPlane` and `WorkerRpc` need of a job is the part of the
lifecycle their code reads, and `JobEngine` has the rest.

`PROJECT.json` has the full list with the reason for each part left out, the
hazards each part is exposed to, and the source lines of every definition.

## Modules

**JobStates, JobLifecycle.** `JobStates` is `core/states.py`: the states and
`TRANSITIONS`. `JobLifecycle` is the abstract specification: every job follows
that table and nothing else is said.

**JobEngine.** The tables as variables: `jobs` (both `jobs` and `jobs_archive`;
a row is in `jobs` iff its state is live), `edges` (`job_dependencies`), `gates`,
`group_running`, `ledger` (the terminal events of `job_events`). A table-valued
operator is one SQL statement, and an action is one transaction: the composition
of its statements in the order of the service. `Complete`, for instance, archives
the row, inserts the continuation, decrements dependents and the group counter,
bumps the gate and inserts its branch, and writes the event, in one step, as
`JobService.complete` does in one transaction. Operations that the code splits
over several transactions or snapshots are several steps: the two statements of
`cancel` (`cancelling` holds the open ones), the sweeper pass (`sweep` is its
program counter, `candidates` the exhausted leases it listed and has not failed
yet), and reading and writing in `reconcile_groups.sql` (`drift`).

Data is reduced to what the code compares. Times become `due` (`run_at <= now()`)
and `lapsed` (the lease or wait deadline has passed). A lease token is the number
of the attempt it was made for. A spec is its chain of tasks, hook, group, cap,
attempts, dedup key and gate; payloads, results, tags and priorities are left out,
and where priorities decide which rows a claim takes, any admissible batch may be
taken. `alive` says whether the worker that holds the lease still exists. Calls
may come late: a worker may complete or fail under any token it ever had.

The constant `Env` names the optional behaviours of clients, workers and the
environment that a run includes: `lost` workers, `slow` ones whose lease lapses,
`retry`, `heartbeat`, `wait`, `cancel`, `cancel_tree`, `resubmit`, `stop` (a
worker drops the chain), `skip`, `defer` (a future `run_at`), `late` (depending
on a settled job), `repeat` (a repeated upstream), `sweep` and `sweeper_lost`.
The theorems hold for every value of `Env`.

**SignalRendezvous.** `signal()` and `wait()` on one key. Each is one transaction
of two statements, and each statement has its own READ COMMITTED snapshot, so each
is two steps with the row lock held in between; a transaction may roll back
between them. Timeouts, cancels, retries and stale callers interleave with both.

**ClaimRace.** `claim.sql` run by several engines: the snapshot, the lock of the
group counter (`SKIP LOCKED`, then the latest version is read), and the row locks
with update and commit. After a concurrent commit Postgres evaluates again only
the conditions of the locking query itself. `ungrouped_unlimited` repeats
`state = 'queued'`; `grouped` and `ungrouped_limited` join ranks by id and do not.

**DispatchOrder, WorkerFleet.** One engine and its workers. `DispatchOrder` has
the two pure algorithms of the matcher: the fair order of a batch and the ring of
workers. `WorkerFleet` has the registry (`conns`, `workers`, `known`), the streams,
the dispatch pass with its local variables (`pass`) and the `workers` table
(`listed`). One event loop runs it, so a step is what runs between two awaits. A
pass reads the registry, counts running leases, claims, assigns and stamps
`claimed_by`, each after an await, while streams open, break and come back. Slot
frames are snapshots that may be stale when they are read. Faults are broken
streams, failed statements, late heartbeats and a crash of the engine.

**RedisClient, RateLimiter, Checkpoints, RedisServices.** `RedisClient` is a call
to Redis with its three outcomes: `ok`, `down`, and `late` (the script ran, the
caller timed out and goes on to Postgres). `RateLimiter` has both buckets in
integer units of a token, each engine's cached configuration, its clock, and the
pass that reserves, claims and returns class by class. A take or a drain on Postgres is
two steps, since `now()` is the time its statement began and other statements may have
the row before it; one whose engine dies meanwhile (`statements`) still runs. `drawn`,
`started` and `minted` are history variables. `Checkpoints` writes Postgres, then Redis, and
reads Redis first. Both draw on the same faults in `RedisServices`.

**EngineProcess, Cron, EventStream, ControlPlane, WorkerRpc, EngineServices.**
`EngineProcess` follows `main.py:_run` through pools, warm-up, task group, drain
and exit, with the startup phases of each server. `Cron` gives every sweeper
engine a pass of three transactions (read due rows, submit, advance by
compare-and-swap) with a skewed clock; an expression is a period, and `Never` is a
valid one without occurrences. `EventStream` separates the moment a ledger row
gets its id from the moment it commits. `ControlPlane` has the calls that take
several transactions, and every path that inserts a job of the tenant: Submit, which
counts against the cap, and fan-outs, replays and the follow-ups of a terminal call
(continuations, hooks, gate branches), which do not. An insert is two steps, the
beginning of its transaction and its commit. `WorkerRpc` has the example worker, which answers any error
of Complete with Fail, on a network that loses and delays.

**MC modules** give TLC the constants of a run. `Setup` (or `Setups`) is a set of
situations: each bounds what may happen in it, so that one part with its faults is
explored fully while the others rest. **The eight proof modules** (named `...Proofs`,
and `JobEngineEffects`) hold the theorems.

## Runs

| run | question | instance |
|---|---|---|
| lifecycle | Does each settlement leave exactly one follow-up, has every archived job its one terminal event (I5 of `tests/property/test_lifecycle_invariants.py:18`, except where the lease sweeper archives a cancelled job), does the engine implement `core/states.py`, and is a call of a reclaimed lease ever honoured? | 3 rows, 2 client requests; a keyed two-link chain with a hook |
| groups | Does the ceiling hold, is the counter exact at each commit, and is every lost lease taken back? | 3 jobs, cap 2, batches of 2 |
| dag | Can a dependent run early, be stranded by a death or cascade, or miscount? | all graphs of 4 jobs, at most 2 upstreams each |
| gates | Do gates count their children, take the right branch once, and always resolve? | 3 children; `all_success`, `all_terminal`, quorum 2 and 4 |
| progress | Does every job settle, and does every counter drift heal? | 3 jobs, cap 2, 1 upstream each, waits |
| signals | Is a payload delivered once, and does every wait end? | 2 jobs, 2 signals, 2 attempts |
| claims | Does the ceiling hold across engines, and does the counter ever fall short of the rows that run? | 2 engines, 3 capped jobs with cap 2, 1 plain job |
| fleet | Is a worker given more than it can run, is an assignment placed twice or lost, does a reconnecting worker get listed? Are batches dealt fairly? | 1 engine, 2 workers of 1 slot, 2 streams, 2 jobs, 2 attempts; the pure algorithms on every batch of 5 jobs and every capacity of 3 workers |
| redis | How many tokens can be out, do unused ones come back, do caches converge, is a checkpoint answer stale? | 2 engines, 2 classes, half tokens, 8 situations |
| services | Do shutdown, cron, event delivery, paging, the tenant cap and the calls of a worker keep what they promise? | 2 engines, 2 schedules, 1 subscriber, up to 4 jobs, 2 workers, 15 situations |
| late_dependency, claim_twice | Statements of the repository the code does not keep; see below. | 2 to 4 rows |

`PROJECT.json` names the properties of each run; each property is preceded in its
module by a comment that states it and the code it is about. The modules state more
than the runs keep: type invariants (`TypeOK` of WorkerFleet, RateLimiter and
EngineServices), `DedupAmongLive`, `AttemptBudget`, `WakesOnlyAWaiter`,
`ServedIsRegistered`, `EveryClaimPlaced`, `CacheCurrent`, `QuotaKept`,
`ReadyMeansBound`, `BlipsContained`, `SoleFirer`, `SnapshotComplete`,
`CancelReportsLive`, `AwaitEnds` and `LeaseSettlesOnce`. They hold on the same
instances (add them to the cfg to see it), are simpler than the ones kept, and some
are proved, as the next section says.

**Bounds.** Two attempts are the least with a retry, a reclaim and a stale token.
Three capped jobs under a cap of 2 are the least where a batch of two can overrun;
the same three, with one parked, are the least where a recount races a claim (with
cap 1 a drifted counter admits no claim to race). Four jobs give every shape of a
diamond and a cone of depth three. Three children let a gate fire before, at and
after its last child; quorum 4 of 3 is the case that can only be met by all
children succeeding. Two engines and two open transactions are what each race needs.
The bounds are `MaxJobs`, `MaxGates`, `MaxSubmits`, `MaxDeps`, `BatchLimit` and `MaxAttempt`.

In the fleet run two streams of one worker are what a reconnect needs, and one slot
makes every extra assignment an excess. In the redis run half tokens tell a floor
from a rounding, two configurations with crossed capacity and refill let two caches
disagree in both directions, and one tick of skew moves a stamp back. In the
services run clocks differ by one tick and windows are one or two ticks apart, so a
schedule can be one or several windows behind; a batch of two rows out of three
needs two polls and can fill the queue; a page of two out of four jobs needs two
pages; two submits of a full cap are the least that overrun it, and a cap of one with
three jobs lets every other path insert beside a submit. Each situation
bounds `faults`, `outages`, `stops`, `edits` and `time`.

**Deadlock** is not checked where a bounded instance comes to rest: without a
sweeper (dag and the small instances), or when the bounds on requests, attempts,
faults and time are used up (lifecycle, signals, fleet, redis, services).

**Fairness.** `EngineSpec` is fair to the dispatcher, each statement of the sweeper
and the passage of time: both are `PeriodicLoop`s that contain a failed pass and
sleep a bounded time. `FairSpec` adds that a worker which is not lost answers each
job it holds (completes or fails it). A sweeper that dies in every pass recovers
nothing, so the liveness runs leave `sweeper_lost` out; the lifecycle run has it for
safety. In SignalRendezvous an open transaction ends and the sweeper loops. No
client is fair: nobody need ever signal, cancel or submit.

`WorkerFleet` assumes that the dispatcher begins its passes and that each ends (a
round trip returns or raises), that a worker without a stream opens one, sends its
frames and completes what it holds, and that the sweeper reclaims. Frames come every
few seconds and are persisted when the last write is old enough; that this happens
again and again is strong fairness, since frames that come too soon, and writes under
way, disable it in between. `RedisServices` assumes only the refill tick and that an
upsert that wrote its row goes on to cache it. `EngineServices` assumes that an
orchestrator restarts an engine, that asyncio gives each engine's cron loop, poller
and startup their turn, that a client takes the rows it is sent, that AwaitJob's
poll goes on, and that time passes. Faults are bounded in number and never fair.

**What the passing runs assume.** Each leaves out a behaviour under which its
property fails; those are listed under disagreements and limits. The dag run has no
`late` or `repeat` lists and no plain cancel, gates no cancel and no dedup keys,
groups one cap per key and no waits. In the later modules the exception is in the
property: `NoOverAssignment` counts stamped leases, `NothingWasted` and
`FreshCheckpoint` speak of histories without a fault, `RowReaches` and `RateBound`
name the causes they exclude in a history variable (`missed`, `minted`), `LedgerAgrees` excepts the rows of `SweptAway`, `CapOvershoot`
speaks of the jobs that Submit let in, `WalkCovers` leaves out ties of `created_at` and pages beyond the cap.

## Proofs

Checked by TLAPS for all values of the constants, from the assumptions named in
the modules (finite sets of jobs, well-formed specs, distinct markers).

**JobEngineProofs.** `TypeCorrect`: the tables stay within the schema's types.
`DependenciesFirst`: no job runs before all its upstreams succeeded.
`Refinement`: the engine implements `JobLifecycle`. `DependencySafety` is not
inductive: that the flip in `decrement_deps.sql` is safe rests on
`remaining_deps` never being smaller than the number of unsuccessful upstreams
(it may be larger, when an upstream is repeated or had succeeded before), and
that an insert is safe rests on no edge naming an id without a row. So
`IInv == TypeOK /\ EdgesKnown /\ DepsCounted /\ DependencySafety`. Most
transactions are *quiet*: no job succeeds in them and none leaves `submitted`
except by being cancelled. `QuietPreserves` shows once that a quiet step keeps
`IInv` and moves rows legally; each transaction has a lemma that it is quiet. Only
`Submit` (which adds edges) and `Complete` (which decrements) need an argument of
their own. `RemainingDepsCount`: `remaining_deps` is exact, when no submit names a
settled or a repeated upstream (`late` and `repeat` are the two disagreements below);
its lemmas say how one settlement changes a set of unsatisfied upstreams.

**JobEngineEffects.** What a transaction does to the rows, said once: most proofs about
`JobEngine` need the same few facts about each of its some twenty transactions (which
rows change, from which state to which, what is inserted, which events and counters are
written), so each transaction has a lemma that gives them and the theorems after it only
combine those. `RInv` adds to `IInv` that an id without a row is blank, that the token
of a running row is the one of its last claim and no other live row has one, and
`LedgerAgrees`. `LedgerTellsOneStory`: an archived job has one terminal event, which names
the state of the row, and a live one has none. The exception, a job archived as cancelled
with the lease it held, is known by its token: only the sweeper archives such a row. `FollowUpsExactlyOnce`: a settled job has exactly the continuation or hook it
owes. The invariant `FInv` counts the follow-ups of every id, also of one without a row
(it has none, so the row that takes the id starts without any), and says that only a
succeeded job's chain was stopped; that nothing refuses the insert rests on
continuations and hooks having no dedup key.

**JobEngineGateProofs.** `GatesCountTheirChildren`: the counters of a gate are the
numbers of its children that ended each way. `GInv` adds that a gate has no more children
than it expects, and that a gate not created yet has neither children nor a follow-up.
`GatesTakeTheirBranch`, for gate specs with a positive quorum (`core/gates.py` rejects
others) and a branch without a dedup key (with one, the insert can be refused): a gate
fires exactly when it is decided, once, and with the branch its children call for. `BInv`
adds that what decided a gate stays so while further children settle.

**JobEngineSafetyProofs.** `LostLeaseWaitsForExpiry`: a call under an old token moves
nothing. `NoDependentStranded`: no live job has a dead or cancelled upstream, when there
are no late upstreams and no plain cancels, and trees are not cancelled where a sweeper
runs (it archives a cancelled row without a cascade, `sweep_leases.sql:51`).
`CountersStayExact`, with no waits (`wait_park.sql` takes a job out of running and
leaves its slot to the recount) and with a cap for every grouped client spec
(`repository.py:534` releases a slot for an uncapped job): `group_running` is the number
of running capped jobs after every transaction. `PInv` follows the group and cap of a
row back to the client that named it, through chains, hooks, gates and replays.
`GroupsKeepTheirCeiling` follows where clients of a key agree on the cap: a claim admits
what the exact counter leaves. The dag, gates and groups runs satisfy these hypotheses.

**RateLimiterProofs, RedisServicesProofs.** `RateBounded`: for any number of engines,
classes, configurations, clocks within `MaxSkew` and faults, the tokens out of a class
stay within two full buckets and their refills, plus `minted`, which only a class not
configured yet, a return repeated after a late reply, a bucket Redis lost, a stamp set
back by a slower clock or by a Postgres statement that waited for its row, or a balance
below zero that such a statement rounds up to a token can raise. `RateBound` is not inductive, since it does not say what the buckets
still hold. `Conserved` does: what a bucket holds and is owed since its stamp (its
potential), plus the tokens out, is within the budget. A tick raises the potential of
each bucket by at most the refill the budget grows by; a grant moves tokens from a
potential to `drawn`; a return moves them back, also to the other bucket. `IInv ==
TypeOK /\ CachedIsConfigured /\ Conserved`; the second conjunct says that a class an
engine has cached has a row. `TokensBuyJobs` (`NothingWasted`): `HInv` follows each
token from the grant to a start or back. `Held` has one element per token that a pass
under way holds, so that the sum over the engines is the size of a set, and a pass holds
none while it sleeps. `CheckpointsAreFresh`: while nothing has failed, there is one
attempt, an engine cannot reach Redis only if there is none, and the write under way
carries the row's value (`Undisturbed`). `SInv` puts the three together for
`ServicesSpec`, where each service leaves the other's state alone but for the faults
they share. It assumes attempts numbered from 1 and an engine for each (`CkAssumption`).

**EngineServicesProofs.** `WindowsFire` and `WindowsMoveOn`: no window is left without a
job having been submitted for it, and none moves back. The invariant `CronInv` says what
an engine may believe between two awaits: the row it holds was due, and when it is about
to advance, the window it leaves has its job. That, with the compare-and-swap, is what
survives other engines and edits. `BoundBeforeReady` and `PoolsLast` follow from the
`Shape` of a process (which stages its servers can be in at each stage of `_run`).
`ResultStands` and `SettledOnce` rest on `RpcInv`: every accepted token is at most the
row's, and the row is not running under a token that was accepted. It also holds the
proofs of the two races, which are in models of their own. `Ceiling` and
`CounterNeverLags` are about ClaimRace, for any number of engines and jobs and any cap. The invariant: the
counter lies between the number of running rows and the cap, one engine at most holds
the counter's lock, and whoever has headroom holds it, so the headroom is current. A row
claimed twice makes the counter too large, never too small (`CounterNeverShort`), which is
why the ceiling survives the double claim below. `DeliveredOnce` and `OnlyWaitersWoken` are about
SignalRendezvous. Their invariant `Locks` says what row locks give: what an open
transaction found is still so, and no two open transactions found the same row.

**EngineReadsProofs.** `CapBounded` (`CapOvershoot`): the live jobs that Submit let in pass
the cap of their tenant by no more than the jobs other submits had under way when one
counted. It says nothing of the jobs of the other paths, which nothing bounds. `CapInv`
adds the submits under way to the count, each job of them an element of a set (`Tokens`), so
that a commit moves its jobs from one count to the other. `WalksCover` (`WalkCovers`): a
walk through the pages of Query shows every job that matched when it began, while
submits, settlements and other engines go on. `WalkInv` says why: ids are given out in
turn, what matches goes on matching, and a job the walk still owes has at least `offset`
newer ones before it, since new rows only push it to later pages. `RowsStayInOrder`
(`RowsInOrder`): a connection sees the rows of the ledger in order and none twice.
`TailInv` puts what it was handed and what is queued behind the cursor of the poller
that feeds it. A fan-out is the newest `QUEUE_MAX` rows of queue and page together; that
this is what one `put_nowait` after the other leaves is `FanOutIsPuts`, which TLC
evaluates on bounded queues and pages. They assume a batch, a queue and a page of at
least one row (`StreamAssumption`, `ReadAssumption`). For each invariant, the components
that do not own its state are shown once to leave it alone.

Only model-checked: all liveness (fairness and `ENABLED` are outside the prover);
what the recursive order and ring of `DispatchOrder` compute, on bounded inputs, and
WorkerFleet, whose passes deal batches with them (what they compute needs induction over
data); `SnapshotComplete` and `CancelReportsLive` of EventStream and ControlPlane; of
JobEngine, `DedupAmongLive` and `AttemptBudget`.

## Disagreements and limits

Kept as runs, each a short counterexample to a sentence of the repository quoted in
`PROJECT.json`:

- **late_dependency**: `remaining_deps` counts an upstream that has already
  settled; its decrement never comes.
- **claim_twice**: a grouped or rate-limited row in two snapshots is claimed by
  both engines. It follows from how READ COMMITTED re-evaluates a locked row and
  has been checked on the model, not against a running Postgres.

Found the same way on variants of the instances, and not kept as runs. In the job
tables:

- `submit_service.py:165` stores a job with a future `run_at` and no dependency left
  to succeed as `submitted`, and nothing promotes it when the time comes
  (`core/states.py:3` has it promoted).
- `cancel_service.py:54` does not bump the gate of a cancelled child
  (`core/gates.py:6` counts every terminal child).
- `signal_service.py:81`: a wait that saw no signal and a signal that saw no waiter
  both commit; the payload is stored, and the job waits for its timeout
  (`V006__signals.sql:2`).
- `sweep_leases.sql:51` archives a cancelled, lapsed job without a terminal event,
  against I5 of `tests/property/test_lifecycle_invariants.py:18` ("every archived job
  has a terminal event"). `LedgerAgrees` is I5 with this one exception, and the
  lifecycle run violates it without.
- `fail.sql:17` requeues a job whose cancel was requested, and it is claimed again.
- `fanout_service.py:93` expects a child that deduplicated onto a job outside the
  gate; a continuation that deduplicates (`job_service.py:231`) disappears.
- `repository.py:534` releases a slot for an uncapped job of a capped key.
- `reconcile_groups.sql:8` may overwrite the increment of a claim that commits
  between its count and its write; the ceiling can then be exceeded until the next
  pass (`CounterHeals` shows the drift is repaired).
- `loops.py:159` fails a listed lease that a heartbeat renewed under its token.
- `cancel_service.py:64` reports a no-op for a job requeued between its statements.
- `submit_service.py:89` accepts a dependency on a dead job, and `:157` counts a
  repeated upstream twice.
- `claim.sql:212` aborts on a cap without a group key.
- `claim.sql:200` counts the claim that resumes a parked job as an attempt, so a
  job parked on its last attempt exceeds `max_attempts`.

In the fleet and its limits:

- `worker_service.py` registers the connection outside the `try` whose `finally`
  unregisters it: a stream cancelled while its hook is awaited leaves a registered
  connection nobody reads ("On disconnect the worker is unregistered", its
  docstring). Jobs given to it wait for their lease to lapse.
- `matcher.py:162` stamps `claimed_by` after the assignment. When the stamp fails,
  the bound of `matcher.py:73` does not count those leases, and a stale slot frame
  then leads to more assignments than slots.
- `claim.sql:15` reads an empty quota map as "no limits": a class whose first job
  arrives between the peek and the claim of a pass that reserved nothing is claimed
  without a token (`QuotaKept` states exactly this exception).
- `rate_limiter.py:50` writes the caller's clock into the bucket, so a slower engine
  moves the stamp back and time is refilled twice; `rate_limiter.py:154` says
  `release` never raises, and its Postgres fallback can.
- `rate_take_pg.sql:33` does not clamp the elapsed time, which is negative when the
  statement waited for the row and finds it stamped after its own `now()`. The balance
  can fall below zero; the take is then negative, not "0..$2" (`:23`), and leaves part of a
  token in the row, and the stamp moves back, so time is refilled twice where the
  rates differ. The script in Redis clamps (`:4`, "reproduces the Redis Lua semantics
  exactly"). The drain in `rate_limiter.py:184` moves the stamp back in the same way.
- `checkpoint_service.py:12` describes Redis as a copy of the durable row; after a
  failed Redis write, or a write of a reclaimed attempt, it holds an older value
  until the next write or its expiry.

In the services:

- Cron can fire a window twice: after a crash or failed advance, or when two engines
  read the row, if the first job has already settled, since the dedup key only holds
  among live jobs (`loops.py:319`, `cron_advance.sql:6`). On recovery the clamp fires
  the missed window and the present one (`loops.py:269`). Due rows are chosen by the
  clock of Postgres (`cron_due.sql:10`, "one clock rule"), the next window by the
  engine's. An edit to an expression that never occurs, between two statements of a
  pass, leaves a row that fires again on each pass (`query_service.py:125`).
- The event cursor passes a row that commits after one with a higher id
  (`events_since.sql:10`), and a read of the head under way when a client subscribes
  skips what is committed meanwhile (`event_stream.py:72`). The poller reads the
  tenant `default` only (`event_stream.py:86`). Its first read of the head is not
  contained, unlike its docstring: a failure there ends the engine's task group.
- A page size beyond the cap ends a walk early, since the short page reads as the
  last; rows with one `created_at` have no order between pages.
- `submit_service.py:70` says the count of the tenant's jobs and the inserts share
  one snapshot; under READ COMMITTED each statement has its own. The bound of
  `count_tenant_live.sql:8` ("by more than the in-flight batch") holds for what Submit
  lets in, and is `CapOvershoot`. The live jobs of a tenant have no bound: fan-outs
  (`fanout_service.py:102`), replays (`resubmit.sql:22`), hooks and gate branches
  (`job_service.py:207`, `:231`, `:322`) and continuations
  (`complete_continuation.sql:40`) are counted by the next Submit and insert without
  counting.
- `cancel_service.py:72` answers no-op for a live job that is requeued between
  `cancel.sql` and `cancel_running.sql`.
- `serve_grpc` cancelled between `start()` and its `try` does not stop the server: a
  call accepted by then is an `orphan` when the pools close, which is why
  `PoolsOutliveCalls` speaks of calls of an announced server.
- `docs/api.md:27` and the runbook promise that `/readyz` implies current migrations;
  the code checks a flag of the process and a round trip to Postgres.
- The example worker ends when the Fail it sends after a lost Complete reply is
  refused for a stale lease.

## Not modelled

- Authentication, request translation (DTOs, protobuf), configuration, migrations,
  metrics and logging: no state a property could be about.
- `core/readiness.py`, versioning, idempotency keys, failure redaction and errors:
  pure validation without a sequence of steps.
- Backoff delays and their jitter: whether a retry happens is modelled, not when.
- HTTP requests during shutdown: uvicorn's own code and signal handlers decide.
- Row locks inside JobEngine's transactions (Postgres aborts one of two deadlocked
  transactions, which is then a lost call), batch limits of the sweeper, size caps,
  payloads, and priorities in `claim.sql` (any admissible batch may be taken).
- A Postgres clock that goes back (statements that wait, and so work with an older
  `now()`, are modelled), and `snapshot_tokens`, a gauge.
- Changes of a worker's tags and registered tasks in a slot frame
  (`registry.py:121-135`): a worker keeps those it connected with.
- Streams that break in `WorkerRpc`: they are WorkerFleet's.
