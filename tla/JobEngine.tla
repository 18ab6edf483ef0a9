------------------------------ MODULE JobEngine ------------------------------
(***************************************************************************)
(* The job table of the Symba engine and every transaction that writes it: *)
(* submit, fan-out, resubmit, claim, the worker's Complete / Fail /        *)
(* Heartbeat / Wait, signal delivery, cancel, and the sweeper pass.        *)
(*                                                                         *)
(* A table-valued operator (archive, decrement_deps, bump_gate, ...)       *)
(* is one SQL statement: it maps the table it reads to the table it        *)
(* leaves.  An action is one transaction, the composition of its           *)
(* statements in the order of the service.  The tables jobs and            *)
(* jobs_archive are one function here; a row is in jobs iff its state is   *)
(* live.  Times are abstracted to the comparisons the code makes with      *)
(* now(): due (run_at <= now) and lapsed (the lease, or the wait deadline, *)
(* has passed).  One dispatcher claims, so claim.sql runs atomically;      *)
(* concurrent claimers are the subject of ClaimRace.                       *)
(***************************************************************************)
EXTENDS Integers, Sequences, FiniteSets, Functions, JobStates

CONSTANTS
    JobId,        \* ids of job rows (uuids)
    GateId,       \* ids of gate rows (uuids), a set of positive naturals
    Tasks,        \* task names
    Groups,       \* group keys
    DedupKeys,    \* dedup keys
    Null,         \* SQL NULL
    Specs,        \* the job specs a client may submit
    GateSpecs,    \* the fan-outs a client may request
    DefaultMax,   \* the max_attempts a chain continuation or a hook gets
    WorkerMax,    \* values of Fail's worker_max_attempts (0: not reported)
    Env,          \* which optional client and worker behaviours occur
    BatchLimit,   \* bound: rows of one claim
    MaxDeps,      \* bound: length of a depends_on list
    MaxAttempt,   \* bound: a job parks only in an attempt below it
    MaxSubmits    \* bound: client requests (submit, fan-out, resubmit)

(***************************************************************************)
(* The immutable columns of a row.  path is task_name followed by          *)
(* on_success and chain_tail; hook is the on_failure spec's task followed  *)
(* by its own chain (<<>> when there is none); cap is                      *)
(* max_concurrent_per_group (0 when NULL); gate is parent_gate_id (0 when  *)
(* NULL).                                                                  *)
(***************************************************************************)
Spec_t == [path: Seq(Tasks), hook: Seq(Tasks),
           group: Groups \cup {Null}, cap: Nat, max: Nat,
           dedup: DedupKeys \cup {Null}, gate: GateId \cup {0}]

GateSpec_t == [policy: {"all_success", "all_terminal", "quorum"}, quorum_n: Nat,
               children: Seq(Spec_t) \ {<<>>}, on_complete: Spec_t]

ASSUME EngineAssumption ==
    /\ IsFiniteSet(JobId)
    /\ GateId \subseteq Nat \ {0}
    /\ Null \notin Groups \cup DedupKeys
    /\ Specs \subseteq Spec_t
    /\ GateSpecs \subseteq GateSpec_t
    /\ \A s \in Specs : s.path # <<>> /\ s.gate = 0
    /\ \A g \in GateSpecs :
          /\ g.on_complete.path # <<>> /\ g.on_complete.gate = 0
          /\ \A k \in DOMAIN g.children : g.children[k].path # <<>>
    /\ DefaultMax \in Nat \ {0}
    /\ WorkerMax \subseteq Nat
    /\ MaxDeps \in Nat /\ MaxAttempt \in Nat /\ MaxSubmits \in Nat /\ BatchLimit \in Nat

VARIABLES
    jobs,           \* jobs and jobs_archive: JobId -> row
    edges,          \* job_dependencies: pairs <<job_id, depends_on_job_id>>
    gates,          \* GateId -> gate row
    group_running,  \* <<group_key, task_name>> -> counter
    ledger,         \* job_events: JobId -> the terminal events written for it
    stopped,        \* history: jobs completed with drop_chain_tail
    cancelling,     \* cancels of a running job between their two statements
    submits,        \* number of client requests so far
    sweep,          \* the statement the elected sweeper is at
    candidates,     \* sweeper: exhausted leases listed and not yet failed
    drift           \* sweeper: <<key, count>> of the counters to reconcile

sweeper == <<sweep, candidates, drift>>
vars == <<jobs, edges, gates, group_running, ledger, stopped, cancelling,
          submits, sweep, candidates, drift>>

GroupKey == Groups \X Tasks
TerminalEvent == {"succeeded", "skipped", "dead", "cancelled", "dependency_cancelled"}
OriginKind == {"none", "client", "chain", "hook", "gate", "replay"}
Origin == [kind: OriginKind, of: JobId \cup GateId \cup {0}]

Row == [state: JobState \cup {"absent"}, spec: Spec_t,
        attempt: Nat, token: Nat, due: BOOLEAN, lapsed: BOOLEAN, cancel: BOOLEAN,
        alive: BOOLEAN, remaining: Int, origin: Origin]

Live(T, i) == T[i].state \in LIVE_STATES
Terminal(T, i) == T[i].state \in TERMINAL_STATES
Absent(T) == {i \in JobId : T[i].state = "absent"}

NoSpec == [path |-> <<>>, hook |-> <<>>, group |-> Null, cap |-> 0, max |-> 0,
           dedup |-> Null, gate |-> 0]

NewRow(st, spec, origin) ==
    [state |-> st, spec |-> spec, attempt |-> 0, token |-> 0, due |-> TRUE,
     lapsed |-> FALSE, cancel |-> FALSE, alive |-> FALSE, remaining |-> 0,
     origin |-> origin]

NoRow == NewRow("absent", NoSpec, [kind |-> "none", of |-> 0])

Gate == [policy: {"none", "all_success", "all_terminal", "quorum"}, quorum_n: Nat,
         expected: Nat, completed: Nat, succeeded: Nat, failed: Nat,
         fired: BOOLEAN, on_complete: Spec_t]

NoGate == [policy |-> "none", quorum_n |-> 0, expected |-> 0, completed |-> 0,
           succeeded |-> 0, failed |-> 0, fired |-> FALSE, on_complete |-> NoSpec]

-----------------------------------------------------------------------------
(***************************************************************************)
(* core/: the pure rules.                                                  *)
(***************************************************************************)
\* retry.should_retry: attempt counts the executions made so far.
should_retry(attempt, max_attempts, retryable) ==
    retryable /\ attempt < max_attempts

\* chain.advance: the spec of the next link, as insert_continuation copies it.
\* It inherits the group, the cap and on_failure, but neither gate, dedup key
\* nor max_attempts (the column default).
HasNext_tail_only(spec) == Len(spec.path) > 2
HasNext(spec) == Len(spec.path) > 1
advance(spec) == [spec EXCEPT !.path = Tail(@), !.dedup = Null, !.gate = 0,
                              !.max = DefaultMax]

\* The spec of an on_failure hook: task, payload and chain only.  A gate's hook
\* also gets the gate id as group key, without a cap: no counter row has it.
HookSpec(spec) == [NoSpec EXCEPT !.path = spec.hook, !.max = DefaultMax]

\* gates.is_satisfied as bump_gate.sql evaluates it on the counts after the bump.
is_satisfied(g) ==
    CASE g.policy = "all_success"  -> g.completed >= g.expected /\ g.failed = 0
      [] g.policy = "all_terminal" -> g.completed >= g.expected
      [] OTHER -> g.succeeded >= g.quorum_n \/ g.succeeded >= g.expected

-----------------------------------------------------------------------------
(***************************************************************************)
(* db/queries/: one operator per statement, from the table it reads to the *)
(* table it leaves.                                                        *)
(***************************************************************************)
\* submit.sql, once per row of rows.  A row whose dedup key is held by a live
\* row, or by an earlier row of the same transaction, is not inserted.
Dup(T, rows, k) ==
    LET key == rows[k].spec.dedup
    IN  /\ key # Null
        /\ \/ \E i \in JobId : Live(T, i) /\ T[i].spec.dedup = key
           \/ \E m \in DOMAIN rows : m < k /\ rows[m].spec.dedup = key
Inserted(T, rows) == {k \in DOMAIN rows : ~Dup(T, rows, k)}
Fits(T, rows) == ExistsInjection(Inserted(T, rows), Absent(T))
NewIds(T, rows) == CHOOSE ids \in Injection(Inserted(T, rows), Absent(T)) : TRUE
submit(T, rows) ==
    LET ids == NewIds(T, rows)
    IN  [i \in JobId |-> IF \E k \in DOMAIN ids : ids[k] = i
                         THEN rows[CHOOSE k \in DOMAIN ids : ids[k] = i]
                         ELSE T[i]]

\* The lease guard of complete, fail, heartbeat and wait: the row is running
\* and carries the caller's token.  A token is modelled by the attempt that
\* drew it, which is as fresh as gen_random_uuid().
owns_by_id(T, j, t) == T[j].state = "running"
owns_by_token(T, j, t) == T[j].token = t
owns(T, j, t) == T[j].state = "running" /\ T[j].token = t

\* complete.sql, fail_die.sql, cancel.sql: the move to jobs_archive.
Settled(r, st) == [r EXCEPT !.state = st, !.lapsed = FALSE, !.alive = FALSE]
archive(T, j, st) == [T EXCEPT ![j] = Settled(@, st)]

\* fail.sql: back to the queue with a backoff; cancel_requested is kept.
Unleased(r, st, due) == [r EXCEPT !.state = st, !.token = 0, !.due = due,
                                  !.lapsed = FALSE, !.alive = FALSE]
fail_retry(T, j) == [T EXCEPT ![j] = Unleased(@, "queued", FALSE)]

\* decrement_deps.sql: every live dependent of u loses one remaining dep; a
\* submitted one that reaches zero and is due becomes queued.
OneDepLess_early(r) ==
    [r EXCEPT !.remaining = @ - 1,
              !.state = IF r.remaining - 1 <= 1 /\ @ = "submitted" /\ r.due THEN "queued" ELSE @]
OneDepLess(r) ==
    [r EXCEPT !.remaining = @ - 1,
              !.state = IF r.remaining - 1 = 0 /\ @ = "submitted" /\ r.due THEN "queued" ELSE @]
Dependents(T, u) == {i \in JobId : Live(T, i) /\ <<i, u>> \in edges}
decrement_deps_one_row(T, u) ==
    [i \in JobId |->
        IF Dependents(T, u) # {} /\ i = CHOOSE d \in Dependents(T, u) : TRUE
        THEN OneDepLess(T[i]) ELSE T[i]]
decrement_deps(T, u) ==
    [i \in JobId |-> IF i \in Dependents(T, u) THEN OneDepLess(T[i]) ELSE T[i]]

\* cascade_cancel.sql: the live rows reached from root along job_dependencies,
\* each step of the walk through a live row (the recursive CTE's least
\* fixpoint), move to the archive.
Cone(T, root) ==
    LET Closed(S) == \A i \in JobId :
            Live(T, i) /\ (\E u \in S \cup {root} : <<i, u>> \in edges) => i \in S
    IN  {i \in JobId : \A S \in SUBSET JobId : Closed(S) => i \in S}
cascade_direct_only(T, root) ==
    [i \in JobId |-> IF Live(T, i) /\ <<i, root>> \in edges
                     THEN Settled(T[i], "cancelled")
                     ELSE T[i]]
cascade_cancel(T, root) ==
    [i \in JobId |-> IF i \in Cone(T, root)
                     THEN Settled(T[i], "cancelled")
                     ELSE T[i]]

\* bump_gate.sql: count the child; the gate resolves, once, when its policy is
\* satisfied or every child is terminal.
bump_gate_refiring(g, child_succeeded, child_failed) ==
    LET post == [g EXCEPT !.completed = @ + 1,
                          !.succeeded = IF child_succeeded THEN @ + 1 ELSE @,
                          !.failed = IF child_failed THEN @ + 1 ELSE @]
        resolved == is_satisfied(post) \/ post.completed >= post.expected
    IN  [row |-> [post EXCEPT !.fired = @ \/ resolved], resolved |-> resolved]
bump_gate_skip_succeeds(g, child_succeeded, child_failed) ==
    LET post == [g EXCEPT !.completed = @ + 1,
                          !.succeeded = IF ~child_failed THEN @ + 1 ELSE @,
                          !.failed = IF child_failed THEN @ + 1 ELSE @]
        resolved == ~g.fired /\ (is_satisfied(post) \/ post.completed >= post.expected)
    IN  [row |-> [post EXCEPT !.fired = @ \/ resolved], resolved |-> resolved]
bump_gate_only_satisfied(g, child_succeeded, child_failed) ==
    LET post == [g EXCEPT !.completed = @ + 1,
                          !.succeeded = IF child_succeeded THEN @ + 1 ELSE @,
                          !.failed = IF child_failed THEN @ + 1 ELSE @]
        resolved == ~g.fired /\ is_satisfied(post)
    IN  [row |-> [post EXCEPT !.fired = @ \/ resolved], resolved |-> resolved]
bump_gate(g, child_succeeded, child_failed) ==
    LET post == [g EXCEPT !.completed = @ + 1,
                          !.succeeded = IF child_succeeded THEN @ + 1 ELSE @,
                          !.failed = IF child_failed THEN @ + 1 ELSE @]
        resolved == ~g.fired /\ (is_satisfied(post) \/ post.completed >= post.expected)
    IN  [row |-> [post EXCEPT !.fired = @ \/ resolved], resolved |-> resolved]

\* decrement_group.sql: any row with a group key releases a slot of its key.
CounterKey(spec) == <<spec.group, Head(spec.path)>>
Floor0_unchecked(n) == n
Floor0(n) == IF n < 0 THEN 0 ELSE n
decrement_group(G, spec) ==
    IF spec.group = Null THEN G ELSE [G EXCEPT ![CounterKey(spec)] = Floor0(@ - 1)]

\* repo.record_event: one terminal event for each settled job, and one for each
\* job of the cone it takes with it.
record_events_cone_only(settled, event, cone) ==
    [i \in JobId |-> ledger[i] \cup (IF i \in cone THEN {"dependency_cancelled"} ELSE {})]
record_events(settled, event, cone) ==
    [i \in JobId |-> ledger[i] \cup (IF i \in settled THEN {event} ELSE {})
                              \cup (IF i \in cone THEN {"dependency_cancelled"} ELSE {})]

\* The rows of S that count against a key's ceiling.
Capped(T, S, key) == {j \in S : T[j].spec.cap > 0 /\ T[j].spec.group # Null
                                 /\ CounterKey(T[j].spec) = key}

\* claim.sql: S may be claimed together.  rn_in_ceiling_group ranks the capped
\* rows of one key; a row is admitted while its rank fits the headroom its own
\* cap leaves.  The rank order (priority, run_at) is the client's choice, so S
\* is admissible when some order admits all of it.  A row with a cap but no
\* group key makes counter_bump violate NOT NULL, so no claim contains one.
admissible_by_counter(T, G, S) ==
    \A j \in S :
        /\ T[j].state = "queued" /\ T[j].due
        /\ T[j].spec.cap > 0 =>
             /\ T[j].spec.group # Null
             /\ G[CounterKey(T[j].spec)] < T[j].spec.cap
admissible(T, G, S) ==
    \A j \in S :
        /\ T[j].state = "queued" /\ T[j].due
        /\ T[j].spec.cap > 0 =>
             /\ T[j].spec.group # Null
             /\ LET key == CounterKey(T[j].spec)
                    ahead == {k \in Capped(T, S, key) : T[k].spec.cap <= T[j].spec.cap}
                IN  Cardinality(ahead) <= T[j].spec.cap - G[key]

\* claimed and counter_bump of claim.sql.
Leased(r) == [r EXCEPT !.state = "running", !.attempt = @ + 1, !.token = r.attempt + 1,
                       !.alive = TRUE]
claim_rows(T, S) ==
    [i \in JobId |-> IF i \in S THEN Leased(T[i]) ELSE T[i]]
counter_bump(T, G, S) == [k \in GroupKey |-> G[k] + Cardinality(Capped(T, S, k))]

-----------------------------------------------------------------------------
(***************************************************************************)
(* services/: one action per operation.                                    *)
(***************************************************************************)
Init ==
    /\ jobs = [j \in JobId |-> NoRow]
    /\ edges = {}
    /\ gates = [g \in GateId |-> NoGate]
    /\ group_running = [k \in GroupKey |-> 0]
    /\ ledger = [j \in JobId |-> {}]
    /\ stopped = {}
    /\ cancelling = {}
    /\ submits = 0
    /\ sweep = "idle" /\ candidates = {} /\ drift = {}

\* An optional flag of a request: may be TRUE only if Env says so.
Flag(name) == IF name \in Env THEN BOOLEAN ELSE {FALSE}

FromClient == [kind |-> "client", of |-> 0]

\* SubmitService.submit of one spec.  depends_on is a list: a repeated upstream
\* counts twice in remaining_deps and once in job_dependencies.  A dedup hit
\* returns the existing id and writes nothing.
DepLists ==
    LET upstreams == {u \in JobId : Live(jobs, u) \/ ("late" \in Env /\ Terminal(jobs, u))}
    IN  {d \in UNION {[1..n -> upstreams] : n \in 0..MaxDeps} :
            "repeat" \in Env \/ IsInjective(d)}
Submit(spec, depends_on, deferred) ==
    LET st == IF depends_on # <<>> \/ deferred THEN "submitted" ELSE "queued"
        row == [NewRow(st, spec, FromClient) EXCEPT !.remaining = Len(depends_on),
                                                    !.due = ~deferred]
    IN  /\ submits < MaxSubmits
        /\ ~Dup(jobs, <<row>>, 1) /\ Fits(jobs, <<row>>)
        /\ submits' = submits + 1
        /\ jobs' = submit(jobs, <<row>>)
        /\ edges' = edges \cup {<<NewIds(jobs, <<row>>)[1], u>> : u \in Range(depends_on)}
        /\ UNCHANGED <<gates, group_running, ledger, stopped, cancelling>>
        /\ UNCHANGED sweeper

\* FanOutService.fan_out: a gate expecting every listed child, and the children
\* that no live row deduplicates.
FanOut(gs) ==
    \E g \in GateId :
        LET rows == [k \in DOMAIN gs.children |->
                        NewRow("queued", [gs.children[k] EXCEPT !.gate = g], FromClient)]
        IN  /\ submits < MaxSubmits
            /\ gates[g].expected = 0
            /\ Fits(jobs, rows)
            /\ submits' = submits + 1
            /\ gates' = [gates EXCEPT ![g] =
                  [NoGate EXCEPT !.policy = gs.policy, !.quorum_n = gs.quorum_n,
                                 !.expected = Len(gs.children),
                                 !.on_complete = gs.on_complete]]
            /\ jobs' = submit(jobs, rows)
            /\ UNCHANGED <<edges, group_running, ledger, stopped, cancelling>>
            /\ UNCHANGED sweeper

\* ResubmitService.resubmit: a fresh queued copy of an archived job, outside
\* its gate, its dependencies and its dedup window.
Resubmit(j) ==
    LET spec == [jobs[j].spec EXCEPT !.dedup = Null, !.gate = 0]
        row == NewRow("queued", spec, [kind |-> "replay", of |-> j])
    IN  /\ "resubmit" \in Env /\ submits < MaxSubmits
        /\ Terminal(jobs, j)
        /\ Fits(jobs, <<row>>)
        /\ submits' = submits + 1
        /\ jobs' = submit(jobs, <<row>>)
        /\ UNCHANGED <<edges, gates, group_running, ledger, stopped, cancelling>>
        /\ UNCHANGED sweeper

\* repo.claim: one batch of the dispatcher.  Which rows it takes depends on
\* priorities, tags and rate quotas; any admissible batch may result.
Claim(S) ==
    /\ S # {} /\ Cardinality(S) <= BatchLimit
    /\ admissible(jobs, group_running, S)
    /\ jobs' = claim_rows(jobs, S)
    /\ group_running' = counter_bump(jobs, group_running, S)
    /\ UNCHANGED <<edges, gates, ledger, stopped, submits, cancelling>>
    /\ UNCHANGED sweeper

\* A worker calls with any token it was ever given, unless it died holding it.
Calls(j, t) == t \in 1..jobs[j].attempt /\ (t = jobs[j].attempt /\ jobs[j].state = "running" => jobs[j].alive)

\* JobService._settle_gate: the gates after the bump, and the rows it inserts.
SettledGates(spec, ok, bad) ==
    IF spec.gate = 0 THEN gates
    ELSE [gates EXCEPT ![spec.gate] = bump_gate(@, ok, bad).row]
GateRows(spec, ok, bad) ==
    IF spec.gate = 0 THEN <<>>
    ELSE LET bump == bump_gate(gates[spec.gate], ok, bad)
             from == [kind |-> "gate", of |-> spec.gate]
             next == bump.row.on_complete
         IN  IF ~bump.resolved THEN <<>>
             ELSE IF is_satisfied(bump.row) THEN <<NewRow("queued", next, from)>>
             ELSE IF next.hook = <<>> THEN <<>>
             ELSE <<NewRow("queued", HookSpec(next), from)>>

\* JobService.complete.  A result over the size cap is refused before the
\* transaction: nothing changes and the lease runs on.
Complete(j, t, skipped, drop_chain_tail) ==
    LET spec == jobs[j].spec
        moved == archive(jobs, j, "succeeded")
        link == IF HasNext(spec) /\ ~drop_chain_tail
                THEN <<NewRow("queued", advance(spec), [kind |-> "chain", of |-> j])>>
                ELSE <<>>
        rows == link \o GateRows(spec, ~skipped, FALSE)
    IN  /\ Calls(j, t) /\ owns(jobs, j, t)
        /\ Fits(moved, rows)
        /\ jobs' = decrement_deps(submit(moved, rows), j)
        /\ group_running' = decrement_group(group_running, spec)
        /\ gates' = SettledGates(spec, ~skipped, FALSE)
        /\ ledger' = record_events({j}, IF skipped THEN "skipped" ELSE "succeeded", {})
        /\ stopped' = IF drop_chain_tail THEN stopped \cup {j} ELSE stopped
        /\ UNCHANGED <<edges, submits, cancelling>> /\ UNCHANGED sweeper

\* The terminal branch of JobService.fail: gate, on_failure hook, dependents.
Die(j) ==
    LET spec == jobs[j].spec
        dead == archive(jobs, j, "dead")
        hook == IF spec.hook = <<>> THEN <<>>
                ELSE <<NewRow("queued", HookSpec(spec), [kind |-> "hook", of |-> j])>>
        rows == GateRows(spec, FALSE, TRUE) \o hook
        inserted == submit(dead, rows)
    IN  /\ Fits(dead, rows)
        /\ jobs' = cascade_cancel(inserted, j)
        /\ group_running' = decrement_group(group_running, spec)
        /\ gates' = SettledGates(spec, FALSE, TRUE)
        /\ ledger' = record_events({j}, "dead", Cone(inserted, j))
        /\ UNCHANGED <<edges, stopped, submits>>

\* JobService.fail, called by a worker.  A reported worker_max_attempts wins
\* over the stored max_attempts.
Fail(j, t, retryable, worker_max) ==
    LET max_attempts == IF worker_max = 0 THEN jobs[j].spec.max ELSE worker_max
    IN  /\ Calls(j, t) /\ owns(jobs, j, t)
        /\ IF should_retry(jobs[j].attempt, max_attempts, retryable)
           THEN /\ jobs' = fail_retry(jobs, j)
                /\ group_running' = decrement_group(group_running, jobs[j].spec)
                /\ UNCHANGED <<edges, gates, ledger, stopped, submits>>
           ELSE Die(j)
        /\ UNCHANGED cancelling /\ UNCHANGED sweeper

\* JobService.heartbeat: extends the lease, even an expired one.
Heartbeat(j, t) ==
    /\ "heartbeat" \in Env
    /\ Calls(j, t) /\ owns(jobs, j, t)
    /\ jobs[j].lapsed
    /\ jobs' = [jobs EXCEPT ![j] = [@ EXCEPT !.lapsed = FALSE]]
    /\ UNCHANGED <<edges, gates, group_running, ledger, stopped, submits, cancelling>>
    /\ UNCHANGED sweeper

\* SignalService.wait that finds no pending signal: wait_park.sql.  (A wait that
\* consumes a signal leaves the job running.  SignalRendezvous models both.)
Wait(j, t) ==
    /\ "wait" \in Env /\ jobs[j].attempt < MaxAttempt
    /\ Calls(j, t) /\ owns(jobs, j, t)
    /\ jobs' = [jobs EXCEPT ![j] = Unleased(@, "waiting", @.due)]
    /\ UNCHANGED <<edges, gates, group_running, ledger, stopped, submits, cancelling>>
    /\ UNCHANGED sweeper

\* signal.sql on the waiting row it targets, and sweep_waits.sql on a set.
Released(T, S) ==
    [i \in JobId |-> IF i \in S THEN Unleased(T[i], "queued", TRUE) ELSE T[i]]
Signal(j) ==
    /\ jobs[j].state = "waiting"
    /\ jobs' = Released(jobs, {j})
    /\ UNCHANGED <<edges, gates, group_running, ledger, stopped, submits, cancelling>>
    /\ UNCHANGED sweeper

\* CancelService.cancel runs two statements, and READ COMMITTED gives each its
\* own snapshot.  CancelImmediate is cancel.sql: a job that is not running is
\* archived, with its cone if cascade; a running one leaves the request in
\* flight.  CancelRunning is cancel_running.sql: flag the job if it is still
\* running, and otherwise report a no-op.
CancelImmediate(j, cascade) ==
    /\ (IF cascade THEN "cancel_tree" ELSE "cancel") \in Env
    /\ Live(jobs, j)
    /\ IF jobs[j].state = "running"
       THEN /\ cancelling' = cancelling \cup {<<j, cascade>>}
            /\ UNCHANGED <<jobs, ledger>>
       ELSE LET moved == archive(jobs, j, "cancelled")
            IN  /\ jobs' = IF cascade THEN cascade_cancel(moved, j) ELSE moved
                /\ ledger' = record_events({j}, "cancelled", IF cascade THEN Cone(moved, j) ELSE {})
                /\ UNCHANGED cancelling
    /\ UNCHANGED <<edges, gates, group_running, stopped, submits>> /\ UNCHANGED sweeper
CancelRunning(j, cascade) ==
    /\ <<j, cascade>> \in cancelling
    /\ cancelling' = cancelling \ {<<j, cascade>>}
    /\ IF jobs[j].state = "running"
       THEN LET flagged == [jobs EXCEPT ![j] = [@ EXCEPT !.cancel = TRUE]]
                cone == IF cascade THEN Cone(flagged, j) ELSE {}
            IN  /\ jobs' = IF cascade THEN cascade_cancel(flagged, j) ELSE flagged
                /\ ledger' = record_events({}, "cancelled", cone)
       ELSE UNCHANGED <<jobs, ledger>>
    /\ UNCHANGED <<edges, gates, group_running, stopped, submits>> /\ UNCHANGED sweeper

\* Time and the fate of workers: run_at arrives; a lease expires or its dead
\* worker's grace ends; a wait deadline passes; a worker (or the engine, before
\* it pushed the assignment) is lost with the lease.
RunAtArrives(j) ==
    /\ Live(jobs, j) /\ ~jobs[j].due
    /\ jobs' = [jobs EXCEPT ![j] = [@ EXCEPT !.due = TRUE]]
    /\ UNCHANGED <<edges, gates, group_running, ledger, stopped, submits, cancelling>>
    /\ UNCHANGED sweeper
DeadlinePasses(j) ==
    /\ jobs[j].state \in {"running", "waiting"} /\ ~jobs[j].lapsed
    /\ jobs[j].alive => "slow" \in Env
    /\ jobs' = [jobs EXCEPT ![j] = [@ EXCEPT !.lapsed = TRUE]]
    /\ UNCHANGED <<edges, gates, group_running, ledger, stopped, submits, cancelling>>
    /\ UNCHANGED sweeper
WorkerLost(j) ==
    /\ "lost" \in Env
    /\ jobs[j].state = "running" /\ jobs[j].alive
    /\ jobs' = [jobs EXCEPT ![j] = [@ EXCEPT !.alive = FALSE]]
    /\ UNCHANGED <<edges, gates, group_running, ledger, stopped, submits, cancelling>>
    /\ UNCHANGED sweeper

-----------------------------------------------------------------------------
(***************************************************************************)
(* Sweeper.pass_, statement by statement.                                  *)
(***************************************************************************)
\* list_exhausted_leases.sql, a plain read.
exhausted_beyond(T, j) ==
    T[j].state = "running" /\ T[j].lapsed /\ ~T[j].cancel /\ T[j].attempt > T[j].spec.max
exhausted(T, j) ==
    T[j].state = "running" /\ T[j].lapsed /\ ~T[j].cancel /\ T[j].attempt >= T[j].spec.max
ListExhausted ==
    /\ "sweep" \in Env
    /\ sweep = "idle"
    /\ sweep' = "fail"
    /\ candidates' = {<<j, jobs[j].token>> : j \in {i \in JobId : exhausted(jobs, i)}}
    /\ UNCHANGED <<jobs, edges, gates, group_running, ledger, stopped, submits, cancelling, drift>>

\* JobService.fail(retryable=false) of one candidate; a StaleLease is skipped.
FailExhausted(j, t) ==
    /\ sweep = "fail" /\ <<j, t>> \in candidates
    /\ candidates' = candidates \ {<<j, t>>}
    /\ IF owns(jobs, j, t) THEN Die(j)
       ELSE UNCHANGED <<jobs, edges, gates, group_running, ledger, stopped, submits>>
    /\ UNCHANGED <<cancelling, sweep, drift>>

\* sweep_leases.sql: a lapsed row is requeued, or archived if its cancellation
\* was requested; exhausted rows are left to the next pass's FailExhausted.
reclaimable(T, j) ==
    T[j].state = "running" /\ T[j].lapsed /\ (T[j].cancel \/ T[j].attempt < T[j].spec.max)
reclaimed(T, S) ==
    [i \in JobId |->
        IF i \notin S THEN T[i]
        ELSE IF T[i].cancel THEN Settled(T[i], "cancelled")
        ELSE Unleased(T[i], "queued", T[i].due)]
counter_dec_missing(T, G, S) == G
counter_dec(T, G, S) == [k \in GroupKey |-> Floor0(G[k] - Cardinality(Capped(T, S, k)))]
SweepLeases ==
    LET expired == {j \in JobId : reclaimable(jobs, j)}
    IN  /\ sweep = "fail" /\ candidates = {}
        /\ sweep' = "waits"
        /\ jobs' = reclaimed(jobs, expired)
        /\ group_running' = counter_dec(jobs, group_running, expired)
        /\ UNCHANGED <<edges, gates, ledger, stopped, submits, cancelling, candidates, drift>>

\* sweep_waits.sql.
SweepWaits ==
    /\ sweep = "waits"
    /\ sweep' = "reconcile"
    /\ jobs' = Released(jobs, {j \in JobId : jobs[j].state = "waiting" /\ jobs[j].lapsed})
    /\ UNCHANGED <<edges, gates, group_running, ledger, stopped, submits, cancelling,
                   candidates, drift>>

\* reconcile_groups.sql.  It counts in its snapshot and picks the counters that
\* differ; an update that then waits for a claim's row lock re-reads the counter
\* but keeps the count, so reading and writing are two steps.
RunningCapped(k) == Capped(jobs, {j \in JobId : jobs[j].state = "running"}, k)
ReconcileRead ==
    /\ sweep = "reconcile"
    /\ sweep' = "reconcile_write"
    /\ drift' = {<<k, Cardinality(RunningCapped(k))>> :
                    k \in {c \in GroupKey : group_running[c] # Cardinality(RunningCapped(c))}}
    /\ UNCHANGED <<jobs, edges, gates, group_running, ledger, stopped, submits, cancelling,
                   candidates>>
ReconcileWrite_lost ==
    /\ sweep = "reconcile_write"
    /\ sweep' = "idle"
    /\ drift' = {}
    /\ UNCHANGED <<jobs, edges, gates, group_running, ledger, stopped, submits, cancelling,
                   candidates>>
ReconcileWrite ==
    /\ sweep = "reconcile_write"
    /\ sweep' = "idle"
    /\ group_running' = [k \in GroupKey |->
          IF \E d \in drift : d[1] = k THEN (CHOOSE d \in drift : d[1] = k)[2]
          ELSE group_running[k]]
    /\ drift' = {}
    /\ UNCHANGED <<jobs, edges, gates, ledger, stopped, submits, cancelling, candidates>>

\* The sweeping engine dies mid-pass; its advisory lock is released and the
\* next pass, here or on another engine, starts over.
SweeperLost ==
    /\ "sweeper_lost" \in Env
    /\ sweep # "idle"
    /\ sweep' = "idle" /\ candidates' = {} /\ drift' = {}
    /\ UNCHANGED <<jobs, edges, gates, group_running, ledger, stopped, submits, cancelling>>

-----------------------------------------------------------------------------
ClientStep ==
    \/ \E spec \in Specs, d \in DepLists, deferred \in Flag("defer") : Submit(spec, d, deferred)
    \/ \E gs \in GateSpecs : FanOut(gs)
    \/ \E j \in JobId : Resubmit(j)
    \/ \E j \in JobId : Signal(j)
    \/ \E j \in JobId, cascade \in BOOLEAN : CancelImmediate(j, cascade)
    \/ \E j \in JobId, cascade \in BOOLEAN : CancelRunning(j, cascade)

WorkerStep ==
    \E j \in JobId : \E t \in 1..jobs[j].attempt :
        \/ \E skipped \in Flag("skip"), drop \in Flag("stop") : Complete(j, t, skipped, drop)
        \/ \E retryable \in Flag("retry"), m \in WorkerMax : Fail(j, t, retryable, m)
        \/ Heartbeat(j, t)
        \/ Wait(j, t)

TimeStep == \E j \in JobId : RunAtArrives(j) \/ DeadlinePasses(j) \/ WorkerLost(j)

SweepStep ==
    \/ ListExhausted
    \/ \E c \in candidates : FailExhausted(c[1], c[2])
    \/ SweepLeases \/ SweepWaits \/ ReconcileRead \/ ReconcileWrite
    \/ SweeperLost

Next ==
    \/ ClientStep
    \/ \E S \in SUBSET JobId : Claim(S)
    \/ WorkerStep
    \/ TimeStep
    \/ SweepStep

Spec == Init /\ [][Next]_vars

-----------------------------------------------------------------------------
\* Type invariant: the tables hold rows of the schema's types.
TypeOK ==
    /\ jobs \in [JobId -> Row]
    /\ edges \subseteq JobId \X JobId
    /\ gates \in [GateId -> Gate]
    /\ group_running \in [GroupKey -> Nat]
    /\ ledger \in [JobId -> SUBSET TerminalEvent]
    /\ stopped \subseteq JobId
    /\ cancelling \subseteq JobId \X BOOLEAN
    /\ submits \in Nat
    /\ sweep \in {"idle", "fail", "waits", "reconcile", "reconcile_write"}
    /\ candidates \subseteq JobId \X Nat
    /\ drift \subseteq GroupKey \X Nat

-----------------------------------------------------------------------------
(***************************************************************************)
(* Safety.                                                                 *)
(***************************************************************************)
\* Every job follows the state machine of core/states.py through every
\* transaction of the engine: a row is created once, an archived row never
\* changes again, and no statement makes a move TRANSITIONS does not list.
Lifecycle == INSTANCE JobLifecycle WITH state <- [j \in JobId |-> jobs[j].state]
ImplementsLifecycle == Lifecycle!Spec

\* A job past submitted (queued, running, parked, or settled by a worker) has
\* every job it depends on succeeded: the counter that decrement_deps.sql
\* lowers and the cone that cascade_cancel.sql walks never let a dependent run
\* early, and cascade_cancel never archives a job that is running.
DependencySafety ==
    \A e \in edges :
        jobs[e[1]].state \in {"queued", "running", "waiting", "succeeded", "dead"} =>
            jobs[e[2]].state = "succeeded"

\* After any death the whole transitive cone is gone: a live job never depends
\* on a job that died or was cancelled by a death further up, and so can still
\* become ready (cascade_cancel.sql inside fail-die).
NoStrandedDependent ==
    \A e \in edges : Live(jobs, e[1]) => jobs[e[2]].state \notin {"dead", "cancelled"}

\* remaining_deps of a submitted job counts its upstreams that have not
\* succeeded, so the flip in decrement_deps.sql can still happen.
RemainingDepsExact ==
    \A i \in JobId : jobs[i].state = "submitted" =>
        jobs[i].remaining = Cardinality({u \in JobId : <<i, u>> \in edges
                                                      /\ jobs[u].state # "succeeded"})

FollowUps(kind, id) == {k \in JobId : jobs[k].origin = [kind |-> kind, of |-> id]}

\* The transaction that settles a job leaves exactly the follow-up it owes: a
\* succeeded link of a chain has one continuation unless the worker stopped the
\* chain, a dead job with on_failure has one hook job, and nothing else has
\* either, whatever late or repeated calls and sweeper passes happened.
FollowUpExactlyOnce ==
    \A j \in JobId : jobs[j].state # "absent" =>
        /\ Cardinality(FollowUps("chain", j)) =
              (IF jobs[j].state = "succeeded" /\ Len(jobs[j].spec.path) > 1 /\ j \notin stopped
               THEN 1 ELSE 0)
        /\ Cardinality(FollowUps("hook", j)) =
              (IF jobs[j].state = "dead" /\ jobs[j].spec.hook # <<>> THEN 1 ELSE 0)

Children(g) == {j \in JobId : jobs[j].spec.gate = g}
With(S, event) == {j \in S : event \in ledger[j]}

\* The gate row counts exactly the children a worker settled: completed those
\* that succeeded, skipped or died, succeeded and failed the two it names, and
\* never more than expected_children (the counts of GateProgress).
GateCountsChildren ==
    \A g \in GateId : gates[g].expected > 0 =>
        LET kids == Children(g)
            ok == Cardinality(With(kids, "succeeded"))
            bad == Cardinality(With(kids, "dead"))
            skip == Cardinality(With(kids, "skipped"))
        IN  /\ gates[g].succeeded = ok /\ gates[g].failed = bad
            /\ gates[g].completed = ok + bad + skip
            /\ gates[g].completed <= gates[g].expected

\* A gate fires exactly once, and the branch it took is the one its children's
\* outcomes call for: on_complete only when the policy holds of the settled
\* children, on_complete's on_failure only when all settled and it does not.
GateBranch ==
    \A g \in GateId :
        LET made == FollowUps("gate", g)
            kids == Children(g)
            ok == Cardinality(With(kids, "succeeded"))
            settled == Cardinality({j \in kids : jobs[j].state \in {"succeeded", "dead"}})
            holds == CASE gates[g].policy = "all_success" ->
                              settled = gates[g].expected /\ With(kids, "dead") = {}
                       [] gates[g].policy = "all_terminal" -> settled = gates[g].expected
                       [] gates[g].policy = "quorum" ->
                              ok >= gates[g].quorum_n \/ ok = gates[g].expected
                       [] OTHER -> FALSE
        IN  /\ gates[g].fired <=> holds \/ (gates[g].expected > 0 /\ settled = gates[g].expected)
            /\ Cardinality(made) =
                  (IF gates[g].fired /\ (holds \/ gates[g].on_complete.hook # <<>>)
                   THEN 1 ELSE 0)
            /\ \A k \in made : jobs[k].spec.path = IF holds THEN gates[g].on_complete.path
                                                   ELSE gates[g].on_complete.hook

\* No key runs more capped jobs than the cap each of them was submitted with,
\* whatever batches claim.sql takes while jobs finish, fail, expire or are
\* cancelled.
GroupCeiling ==
    \A k \in GroupKey : \A j \in RunningCapped(k) :
        Cardinality(RunningCapped(k)) <= jobs[j].spec.cap

\* The transactional counter is exact at every commit: each path out of running
\* (complete, retry, death, reclaim, cancel) gives back what claim took.
CounterExact ==
    \A k \in GroupKey : group_running[k] = Cardinality(RunningCapped(k))

\* A job is never executed more often than its max_attempts: neither Fail's
\* should_retry nor the sweeper's split between list_exhausted_leases.sql and
\* sweep_leases.sql lets an exhausted row back into the queue.
AttemptBudget ==
    \A j \in JobId : /\ jobs[j].attempt <= jobs[j].spec.max
                     /\ jobs[j].state = "queued" => jobs[j].attempt < jobs[j].spec.max

\* sweep_leases.sql:51, the one path that archives a job and records no event: it
\* moves a running row whose cancellation was requested and copies lease_token.
\* cancel.sql and the cascade move only rows that hold no lease.
SweptAway(j) == jobs[j].state = "cancelled" /\ jobs[j].token # 0

\* The job_events ledger tells one story per job: a live job has no terminal
\* event, and an archived one has exactly the one that names its state, except a
\* job the lease sweeper archives as cancelled, which has none.  Without that
\* exception it is the invariant I5 of tests/property/test_lifecycle_invariants.py.
LedgerAgrees ==
    \A j \in JobId :
        /\ Cardinality(ledger[j]) <= 1
        /\ ledger[j] \cap {"succeeded", "skipped"} # {} <=> jobs[j].state = "succeeded"
        /\ "dead" \in ledger[j] <=> jobs[j].state = "dead"
        /\ ledger[j] \cap {"cancelled", "dependency_cancelled"} # {} <=>
              jobs[j].state = "cancelled" /\ ~SweptAway(j)

\* Two live jobs of a tenant never share a dedup key, however submits, fan-outs,
\* continuations and replays interleave (ux_jobs_dedup).
DedupAmongLive ==
    \A i, j \in JobId :
        Live(jobs, i) /\ Live(jobs, j) /\ jobs[i].spec.dedup # Null
            /\ jobs[i].spec.dedup = jobs[j].spec.dedup => i = j

\* While the worker holding a job's lease is lost, only the expiry of that lease
\* (as of now, or as the sweeper listed it) moves the job: no call of an earlier
\* holder, whose lease was reclaimed, is honoured (the lease_token guard of complete, fail and wait).
OnlyExpiryMovesALostLease ==
    [][\A j \in JobId :
          jobs[j].state = "running" /\ ~jobs[j].alive /\ jobs'[j].state # "running"
              => jobs[j].lapsed \/ <<j, jobs[j].token>> \in candidates]_vars

-----------------------------------------------------------------------------
(***************************************************************************)
(* Liveness.  The dispatcher and the sweeper are loops that never stop     *)
(* (PeriodicLoop.run contains a failed pass and sleeps a bounded time) and *)
(* time passes.  A worker that is not lost answers: it completes or fails  *)
(* the job.                                                                *)
(***************************************************************************)
Answers(j) ==
    \E t \in 1..jobs[j].attempt :
        \/ \E skipped \in Flag("skip"), drop \in Flag("stop") : Complete(j, t, skipped, drop)
        \/ \E retryable \in Flag("retry"), m \in WorkerMax : Fail(j, t, retryable, m)

EngineFairness ==
    /\ WF_vars(\E S \in SUBSET JobId : Claim(S))
    /\ WF_vars(ListExhausted) /\ WF_vars(SweepLeases) /\ WF_vars(SweepWaits)
    /\ WF_vars(ReconcileRead) /\ WF_vars(ReconcileWrite)
    /\ WF_vars(\E c \in candidates : FailExhausted(c[1], c[2]))
    /\ \A j \in JobId : WF_vars(RunAtArrives(j)) /\ WF_vars(DeadlinePasses(j))

EngineSpec == Spec /\ EngineFairness
FairSpec == EngineSpec /\ \A j \in JobId : WF_vars(Answers(j))

\* A lease whose worker is lost is always taken back, whatever workers do: it
\* expires, and the next pass requeues the job, archives it if it was
\* cancelled, or fails it if its attempts are exhausted.
LostLeaseRecovered ==
    \A j \in JobId : (jobs[j].state = "running" /\ ~jobs[j].alive) ~> jobs[j].state # "running"

\* Every accepted job reaches a terminal state: through retries, lost workers,
\* group ceilings, waits that nobody signals, dependencies and gates.
EveryJobSettles ==
    \A j \in JobId : jobs[j].state # "absent" ~> Terminal(jobs, j)

\* Whatever drift a parked job, a mixed group or a raced reconcile leaves in a
\* counter, a sweeper pass repairs it: the counter always agrees again.
CounterHeals ==
    \A k \in GroupKey :
        group_running[k] # Cardinality(RunningCapped(k))
            ~> group_running[k] = Cardinality(RunningCapped(k))

\* A gate whose children all settle fires, and so every gate does.
EveryGateFires ==
    \A g \in GateId : gates[g].expected > 0 ~> gates[g].fired
=============================================================================
