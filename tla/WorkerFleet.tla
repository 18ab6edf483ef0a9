----------------------------- MODULE WorkerFleet -----------------------------
(***************************************************************************)
(* One engine and the workers that stream from it: the Claim stream        *)
(* (transport/worker_service.py), the registry of connections              *)
(* (services/registry.py), the dispatch pass (services/matcher.py, driven  *)
(* by the Dispatcher of services/loops.py) and the workers read model      *)
(* that mirrors the registry.                                              *)
(*                                                                         *)
(* One event loop runs all of it: a step of the model is what runs between *)
(* two awaits.  The registry's lock is never held over an await, and a put *)
(* on an assignment queue that is not full does not yield, so register,    *)
(* unregister, update_slots and the whole assignment of a batch are single *)
(* steps.  The wake event only shortens a sleep that ends by itself.       *)
(*                                                                         *)
(* Workers behave as tools/ci_load_worker.py: slot frames are snapshots,   *)
(* sent after every completion and every few seconds.                      *)
(***************************************************************************)
EXTENDS DispatchOrder

CONSTANTS
    Worker,       \* worker ids: naturals above 0, since ids are sorted
    Slots,        \* Worker -> its capacity
    Tags,         \* Worker -> the tags it serves
    Job,
    RunsOn,       \* Job -> the tags it needs
    Labelled,     \* workers whose SDK sends the symba.slots_total label
    GroupCap,     \* dispatcher.max_per_group_per_batch, 0 for the default
    MaxAttempt,   \* max_attempts of every job
    MaxConn,      \* bound: streams opened
    Setup         \* the fleets checked: who connects, which jobs wait, whether the
                  \* registry has its hooks, and how many faults may happen

ASSUME FleetAssumption ==
    /\ Worker \subseteq Nat \ {0} /\ Slots \in [Worker -> Nat \ {0}]
    /\ MaxAttempt \in Nat \ {0} /\ MaxConn \in Nat
    /\ Setup \subseteq [workers: SUBSET Worker, jobs: SUBSET Job, hooks: BOOLEAN, faults: Nat]

VARIABLES
    jobs,       \* Job -> state, lease token (the attempt) and claimed_by
    conns,      \* the WorkerConns ever made, oldest first
    workers,    \* Worker -> the registered connection, 0 for none
    known,      \* Worker -> _known_slots_total
    listed,     \* Worker -> its row in the workers table
    stream,     \* Worker -> the connection its process listens on, 0 for none
    held,       \* Worker -> <<job, token>> its process is executing
    pass,       \* the dispatch pass: where it is and its local variables
    last,       \* tags -> _last_worker_by_tags
    faults,     \* faults that may still happen: broken streams, failed
                \* statements, crashes, late heartbeats
    setup       \* the fleet checked, which never changes

vars == <<jobs, conns, workers, known, listed, stream, held, pass, last, faults, setup>>

NoWorker == 0
Engine == -1     \* claimed_by = "engine:{tags}"
Conn == 1..Len(conns)
Idle == [at |-> "sleep", todo |-> {}, snapshot |-> {}, capacity |-> <<>>,
         batch |-> <<>>, placed |-> <<>>]

Init ==
    /\ setup \in Setup /\ faults = setup.faults
    /\ jobs = [j \in Job |-> [state |-> IF j \in setup.jobs THEN "queued" ELSE "done",
                              token |-> 0, claimed_by |-> NoWorker]]
    /\ conns = <<>>
    /\ workers = [w \in Worker |-> 0]
    /\ known = [w \in Worker |-> 0]
    /\ listed = [w \in Worker |-> "absent"]
    /\ stream = [w \in Worker |-> 0]
    /\ held = [w \in Worker |-> {}]
    /\ pass = Idle
    /\ last = [t \in {Tags[w] : w \in Worker} |-> NoWorker]

Fault == faults > 0 /\ faults' = faults - 1
Gone(c) == [worker |-> conns[c].worker, free |-> 0, total |-> 0, queue |-> <<>>,
            phase |-> "gone", write |-> "none", frames |-> <<>>]
FreeLocally(w) == Max({0, Slots[w] - Cardinality(held[w])})

-----------------------------------------------------------------------------
(***************************************************************************)
(* The Claim stream and the registry.                                      *)
(***************************************************************************)
\* _slots_total: the first frame or the label, whichever is larger.
slots_total(w) == Max({FreeLocally(w), IF w \in Labelled THEN Slots[w] ELSE 0})

\* _persist_upsert: the write is pending until its hook returns.
persist_upsert == IF setup.hooks THEN "upsert" ELSE "none"

\* register: the capacity is the high-water mark over the streams of a worker,
\* and a new connection takes the place of an older one.
register(w) ==
    LET total == Max({slots_total(w), known[w]}) IN
    /\ conns' = Append(conns, [worker |-> w, free |-> FreeLocally(w), total |-> total,
                               queue |-> <<>>, frames |-> <<>>, write |-> persist_upsert,
                               phase |-> IF setup.hooks THEN "joining" ELSE "open"])
    /\ known' = [known EXCEPT ![w] = total]
    /\ workers' = [workers EXCEPT ![w] = Len(conns) + 1]

\* A worker opens a stream: Claim, up to the await in register.  (A worker with
\* an unsupported version is turned away before that, and changes nothing.)
claim_opens(w) ==
    /\ w \in setup.workers /\ stream[w] = 0 /\ Len(conns) < MaxConn
    /\ register(w)
    /\ stream' = [stream EXCEPT ![w] = Len(conns) + 1]
    /\ UNCHANGED <<jobs, listed, held, pass, last, faults, setup>>

\* The upsert or delete hook returns: it was written, or it failed and the
\* failure was logged.  A connection that was joining now serves its stream;
\* one that was leaving is gone.
hook_returns(c, ok) ==
    LET w == conns[c].worker IN
    /\ conns[c].write # "none"
    /\ IF ok THEN faults' = faults ELSE Fault
    /\ listed' = IF ~ok THEN listed
                 ELSE [listed EXCEPT ![w] = IF conns[c].write = "upsert" THEN "live" ELSE "absent"]
    /\ conns' = [conns EXCEPT ![c] = IF @.phase = "leaving" THEN Gone(c)
                                     ELSE [@ EXCEPT !.write = "none", !.phase = "open"]]
    /\ UNCHANGED <<jobs, workers, known, stream, held, pass, last, setup>>

\* update_slots: a frame of a stream that was superseded is dropped.  The read
\* model is refreshed when the worker falls idle or shows more capacity, and
\* otherwise when a second has passed since (aged).  A frame may also carry the
\* tags and registered_tasks of its worker (registry.py:121, 131): a worker keeps
\* those it connected with (Tags), and no property is about a change of them.
persists_changes(conn, free, aged) ==
    free > conn.total \/ (free = conn.total /\ conn.free # conn.total)
persists(conn, free, aged) ==
    free > conn.total \/ (free = conn.total /\ conn.free # conn.total) \/ aged
update_slots(c, free, aged) ==
    IF workers[conns[c].worker] # c THEN conns[c]
    ELSE [conns[c] EXCEPT !.free = free,
                          !.total = Max({@, free}),
                          !.write = IF persists(conns[c], free, aged) THEN persist_upsert ELSE @]

\* _read_slots takes the next frame, once the write of the last one has returned.
read_slots(c, aged) ==
    LET w == conns[c].worker
        free == Head(conns[c].frames)
    IN
    /\ conns[c].phase = "open" /\ conns[c].write = "none" /\ conns[c].frames # <<>>
    /\ conns' = [conns EXCEPT ![c] = [update_slots(c, free, aged) EXCEPT !.frames = Tail(@)]]
    /\ known' = IF workers[w] = c THEN [known EXCEPT ![w] = Max({@, free})] ELSE known
    /\ UNCHANGED <<jobs, workers, listed, stream, held, pass, last, faults, setup>>

\* Claim yields the next assignment of the queue to the worker.
yield_assignment(c) ==
    LET w == conns[c].worker IN
    /\ conns[c].phase = "open" /\ conns[c].queue # <<>> /\ stream[w] = c
    /\ held' = [held EXCEPT ![w] = @ \cup {Head(conns[c].queue)}]
    /\ conns' = [conns EXCEPT ![c].queue = Tail(@)]
    /\ UNCHANGED <<jobs, workers, known, listed, stream, pass, last, faults, setup>>

\* unregister(expected=conn) removes the worker unless a newer connection took
\* its place; then the delete hook is pending.
unregisters(c) == workers[conns[c].worker] = c

\* The engine learns that the stream of c is over.  Claim's finally block runs:
\* the reader is cancelled (a write it was in may still land), whatever is
\* queued is dropped, and the worker is unregistered.  A handler cancelled
\* inside register never entered the try block: nothing is undone.
stream_ends(c, landed) ==
    LET w == conns[c].worker
        joined == conns[c].phase = "open"
    IN
    /\ conns[c].phase \in {"joining", "open"} /\ stream[w] # c
    /\ landed => conns[c].write = "upsert"
    /\ listed' = IF landed THEN [listed EXCEPT ![w] = "live"] ELSE listed
    /\ workers' = IF joined /\ unregisters(c) THEN [workers EXCEPT ![w] = 0] ELSE workers
    /\ conns' = [conns EXCEPT ![c] =
                    CASE ~joined /\ workers[w] = c ->
                            [@ EXCEPT !.phase = "abandoned", !.write = "none", !.frames = <<>>]
                      [] joined /\ unregisters(c) /\ setup.hooks ->
                            [Gone(c) EXCEPT !.phase = "leaving", !.write = "delete"]
                      [] OTHER -> Gone(c)]
    /\ UNCHANGED <<jobs, known, stream, held, pass, last, faults, setup>>

-----------------------------------------------------------------------------
(***************************************************************************)
(* The worker process.                                                     *)
(***************************************************************************)
\* A capacity frame: capacity minus what is active, as a snapshot.
send_frame(w) ==
    /\ stream[w] # 0 /\ conns[stream[w]].frames = <<>>
    /\ conns' = [conns EXCEPT ![stream[w]].frames = <<FreeLocally(w)>>]
    /\ UNCHANGED <<jobs, workers, known, listed, stream, held, pass, last, faults, setup>>

\* The handler returns: Complete settles the job if the lease is still its own.
complete(w, a) ==
    /\ a \in held[w]
    /\ held' = [held EXCEPT ![w] = @ \ {a}]
    /\ jobs' = IF jobs[a[1]].state = "running" /\ jobs[a[1]].token = a[2]
               THEN [jobs EXCEPT ![a[1]].state = "done"] ELSE jobs
    /\ UNCHANGED <<conns, workers, known, listed, stream, pass, last, faults, setup>>

\* The stream breaks; with it the process may die and lose what it executes.
break_stream(w, dies) ==
    /\ stream[w] # 0 /\ Fault
    /\ stream' = [stream EXCEPT ![w] = 0]
    /\ held' = IF dies THEN [held EXCEPT ![w] = {}] ELSE held
    /\ UNCHANGED <<jobs, conns, workers, known, listed, pass, last, setup>>

-----------------------------------------------------------------------------
(***************************************************************************)
(* The dispatch pass.                                                      *)
(***************************************************************************)
\* snapshot_available, and _group_by_tags of it.
available == {c \in Conn : workers[conns[c].worker] = c /\ conns[c].free > 0}
tag_groups(S) == {Tags[conns[c].worker] : c \in S}

\* pass_: with no worker available the pass is over at once.
start_pass ==
    /\ pass.at = "sleep" /\ available # {}
    /\ pass' = [Idle EXCEPT !.at = "count", !.snapshot = available, !.todo = tag_groups(available)]
    /\ UNCHANGED <<jobs, conns, workers, known, listed, stream, held, last, faults, setup>>

\* The pass moves on to its next tag group, or returns to the loop.
next_group(t) ==
    IF pass.todo = {t} THEN Idle
    ELSE [Idle EXCEPT !.at = "count", !.todo = pass.todo \ {t}, !.snapshot = pass.snapshot]

\* running_counts_by_worker.sql
running_count(w) == Cardinality({j \in Job : jobs[j].state = "running" /\ jobs[j].claimed_by = w})

\* The capacity of each worker of the group: what its last frame leaves free,
\* bounded by the jobs attributed to it.
capacity_frame(c) == conns[c].free
capacity_by_worker(c) ==
    Min({conns[c].free, Max({0, conns[c].total - running_count(conns[c].worker)})})

count_running(t) ==
    LET members == {c \in pass.snapshot : Tags[conns[c].worker] = t}
        capacity == [w \in {conns[c].worker : c \in members} |->
                        capacity_by_worker(CHOOSE c \in members : conns[c].worker = w)]
    IN
    /\ pass.at = "count" /\ t \in pass.todo
    /\ pass' = IF \A w \in DOMAIN capacity : capacity[w] = 0 THEN next_group(t)
               ELSE [pass EXCEPT !.at = "claim", !.capacity = capacity]
    /\ UNCHANGED <<jobs, conns, workers, known, listed, stream, held, last, faults, setup>>

\* claim.sql for the tags t: jobs by priority, at most the limit, and at most
\* the group cap of any group; the batch is stamped with the engine's name.  A
\* job that requires no tag goes to any worker.
claimable(t) == {j \in Job : jobs[j].state = "queued" /\ RunsOn[j] \subseteq t}
batch_of(t, limit, cap, S) ==
    LET fits(T) == /\ Cardinality(T) <= limit
                   /\ \A j \in T : Cardinality({i \in T : GroupKey[i] = GroupKey[j]}) <= cap
    IN  /\ fits(S)
        /\ \A i \in claimable(t) \ S :
              /\ ~fits(S \cup {i})
              /\ \A j \in S : Priority[i] > Priority[j] => ~fits((S \ {j}) \cup {i})

\* The limit of the claim: the capacities added up.
claim_limit ==
    FoldSet(LAMBDA w, n : n + pass.capacity[w], 0, DOMAIN pass.capacity)

\* A claim is a new lease.
new_token_kept(j) == jobs[j].token
new_token(j) == jobs[j].token + 1

claim(t, order) ==
    LET S == ToSet(order) IN
    /\ pass.at = "claim" /\ t \in pass.todo
    /\ DOMAIN pass.capacity \subseteq {w \in Worker : Tags[w] = t}
    /\ batch_of(t, claim_limit, PerGroupCap(GroupCap, claim_limit), S)
    /\ jobs' = [j \in Job |->
                   IF j \in S THEN [state |-> "running", token |-> new_token(j),
                                    claimed_by |-> Engine]
                   ELSE jobs[j]]
    /\ pass' = IF S = {} THEN next_group(t) ELSE [pass EXCEPT !.at = "assign", !.batch = order]
    /\ UNCHANGED <<conns, workers, known, listed, stream, held, last, faults, setup>>

\* fetch_inline_upstream returns: the batch is shaped, put on the queues of the
\* connections of the snapshot and taken off their free slots.  The queue of a
\* connection that closed since is read by nobody: what goes there is lost.
\* _to_assignment: what travels is the job under its lease token.
to_assignment(j) == <<j, jobs[j].token>>

take_slots(free, n) == Max({0, free - n})
assign(t) ==
    /\ pass.at = "assign" /\ t \in pass.todo
    /\ DOMAIN pass.capacity \subseteq {w \in Worker : Tags[w] = t}
    /\ \E placed \in {AssignRoundRobin(FairnessShape(pass.batch), pass.capacity, last[t])} :
          LET open(c) == c \in pass.snapshot /\ conns[c].phase \notin {"leaving", "gone"}
              given(c) == SelectSeq(placed, LAMBDA p : open(c) /\ p[2] = conns[c].worker)
          IN
          /\ conns' = [c \in Conn |->
                          [conns[c] EXCEPT
                              !.queue = @ \o [i \in 1..Len(given(c)) |-> to_assignment(given(c)[i][1])],
                              !.free = take_slots(@, Len(given(c)))]]
          /\ last' = IF placed = <<>> THEN last ELSE [last EXCEPT ![t] = placed[Len(placed)][2]]
          /\ pass' = [pass EXCEPT !.at = "stamp",
                                  !.placed = [i \in 1..Len(placed) |-> to_assignment(placed[i][1])
                                                                     \o <<placed[i][2]>>]]
    /\ UNCHANGED <<jobs, workers, known, listed, stream, held, faults, setup>>

\* _persist_attribution and set_claimed_by.sql, guarded by the lease tokens of
\* the pass; a failure is logged and the pass goes on.
stamp(j, ok) ==
    ok /\ \E i \in 1..Len(pass.placed) : /\ pass.placed[i][1] = j
                                        /\ jobs[j].state = "running"
                                        /\ jobs[j].token = pass.placed[i][2]
persist_attribution(t, ok) ==
    LET target(j) == CHOOSE w \in Worker : \E i \in 1..Len(pass.placed) :
                         pass.placed[i][1] = j /\ pass.placed[i][3] = w
    IN
    /\ pass.at = "stamp" /\ t \in pass.todo
    /\ DOMAIN pass.capacity \subseteq {w \in Worker : Tags[w] = t}
    /\ IF ok THEN faults' = faults ELSE Fault
    /\ jobs' = [j \in Job |->
                   IF stamp(j, ok) THEN [jobs[j] EXCEPT !.claimed_by = target(j)] ELSE jobs[j]]
    /\ pass' = next_group(t)
    /\ UNCHANGED <<conns, workers, known, listed, stream, held, last, setup>>

\* A statement of the pass fails: the loop contains it.  Jobs already claimed
\* keep their lease and sit on no queue.
pass_fails ==
    /\ pass.at \in {"count", "claim", "assign"} /\ Fault
    /\ pass' = Idle
    /\ UNCHANGED <<jobs, conns, workers, known, listed, stream, held, last, setup>>

-----------------------------------------------------------------------------
(***************************************************************************)
(* The sweeper, and the death of the engine.                               *)
(***************************************************************************)
\* The lease of j ends: nobody heartbeats it, or (a fault) its worker is late.
\* sweep_leases.sql requeues it; with no attempts left fail() archives it.
silent(j) == \A w \in Worker : <<j, jobs[j].token>> \notin held[w]
reclaimable_stamped(j) == jobs[j].state = "running" /\ jobs[j].claimed_by # Engine
reclaimable(j) == jobs[j].state = "running"
reclaim(j) ==
    /\ reclaimable(j)
    /\ IF silent(j) THEN faults' = faults ELSE Fault
    /\ jobs' = [jobs EXCEPT ![j].claimed_by = NoWorker,
                            ![j].state = IF jobs[j].token < MaxAttempt THEN "queued" ELSE "done"]
    /\ UNCHANGED <<conns, workers, known, listed, stream, held, pass, last, setup>>

\* mark_workers_stale.sql: no frame refreshed the row for long.
mark_stale(w) ==
    /\ listed[w] = "live" /\ (stream[w] = 0 \/ workers[w] # stream[w])
    /\ listed' = [listed EXCEPT ![w] = "stale"]
    /\ UNCHANGED <<jobs, conns, workers, known, stream, held, pass, last, faults, setup>>

\* The engine dies and starts again: connections, queues and cursors are gone,
\* the rows of the workers table stay.
engine_crash ==
    /\ Fault
    /\ conns' = [c \in Conn |-> Gone(c)]
    /\ workers' = [w \in Worker |-> 0]
    /\ known' = [w \in Worker |-> 0]
    /\ stream' = [w \in Worker |-> 0]
    /\ pass' = Idle
    /\ last' = [t \in DOMAIN last |-> NoWorker]
    /\ UNCHANGED <<jobs, listed, held, setup>>

-----------------------------------------------------------------------------
Stream(c) ==
    \/ \E ok \in BOOLEAN : hook_returns(c, ok)
    \/ \E aged \in BOOLEAN : read_slots(c, aged)
    \/ yield_assignment(c)
    \/ \E landed \in BOOLEAN : stream_ends(c, landed)

WorkerProcess(w) ==
    \/ claim_opens(w) \/ send_frame(w)
    \/ \E a \in held[w] : complete(w, a)
    \/ \E dies \in BOOLEAN : break_stream(w, dies)

Dispatch ==
    \/ start_pass
    \/ \E t \in pass.todo :
          \/ count_running(t) \/ assign(t) \/ persist_attribution(t, TRUE)
          \/ \E S \in SUBSET claimable(t) : \E order \in SetToSeqs(S) : claim(t, order)

Next ==
    \/ \E c \in Conn : Stream(c)
    \/ \E w \in Worker : WorkerProcess(w) \/ mark_stale(w)
    \/ Dispatch
    \/ \E t \in pass.todo : persist_attribution(t, FALSE)
    \/ pass_fails \/ engine_crash
    \/ \E j \in Job : reclaim(j)

Spec == Init /\ [][Next]_vars

\* The event loop runs every task that is ready: a pass starts after every sleep
\* and comes to its end, and so do the hooks and the streams.  Workers send their periodic
\* frame, return from their handlers and reconnect; the sweeper passes.  A
\* frame comes late enough to be persisted again and again.
Fairness ==
    /\ WF_vars(start_pass) /\ []<>(pass.at = "sleep")
    /\ \A w \in Worker :
          /\ WF_vars(claim_opens(w)) /\ WF_vars(send_frame(w))
          /\ WF_vars(\E a \in held[w] : complete(w, a))
    /\ \A c \in 1..MaxConn :
          /\ WF_vars(c \in Conn /\ hook_returns(c, TRUE))
          /\ SF_vars(c \in Conn /\ read_slots(c, TRUE))
          /\ WF_vars(c \in Conn /\ yield_assignment(c))
          /\ WF_vars(c \in Conn /\ stream_ends(c, FALSE))
    /\ WF_vars(\E j \in Job : faults' = faults /\ reclaim(j))

FairSpec == Spec /\ Fairness

-----------------------------------------------------------------------------
\* Type invariant.
TypeOK ==
    /\ jobs \in [Job -> [state: {"queued", "running", "done"}, token: 0..MaxAttempt,
                         claimed_by: Worker \cup {NoWorker, Engine}]]
    /\ \A c \in Conn : /\ conns[c].worker \in Worker
                       /\ conns[c].free \in 0..Slots[conns[c].worker]
                       /\ conns[c].total \in 0..Slots[conns[c].worker]
                       /\ conns[c].phase \in {"joining", "open", "abandoned", "leaving", "gone"}
    /\ workers \in [Worker -> 0..Len(conns)] /\ stream \in [Worker -> 0..Len(conns)]
    /\ listed \in [Worker -> {"absent", "live", "stale"}]
    /\ pass.at \in {"sleep", "count", "claim", "assign", "stamp"}
    /\ faults \in Nat

\* The leases in force of the jobs placed with w: executing there, or queued on
\* one of its streams.
Placed(w) ==
    {j \in Job : /\ jobs[j].state = "running"
                 /\ \/ <<j, jobs[j].token>> \in held[w]
                    \/ \E c \in Conn : /\ conns[c].worker = w
                                       /\ <<j, jobs[j].token>> \in ToSet(conns[c].queue)}

\* A worker is never given more than its slots: even when its frames cross
\* assignments on the stream, the leases in force that are placed with it and
\* stamped with its id fit its capacity (the bound of matcher._match_tag_group
\* by running_counts_by_worker).  A lease whose stamp failed to be written is
\* not seen by that bound.
NoOverAssignment ==
    \A w \in Worker : Cardinality({j \in Placed(w) : jobs[j].claimed_by = w}) <= Slots[w]

\* A lease in force is placed with one worker, once: no interleaving of passes,
\* reclaims and reconnects hands the same attempt to two processes.
PlacedOnce ==
    \A j \in Job : jobs[j].state = "running" =>
        LET a == <<j, jobs[j].token>>
        IN  Cardinality({w \in Worker : a \in held[w]})
              + FoldSet(LAMBDA c, n : n + Len(SelectSeq(conns[c].queue, LAMBDA q : q = a)), 0, Conn)
            <= 1

\* A worker that listens on a stream the engine serves can be matched: the end
\* of an older stream of the same worker never unregisters it
\* (unregister(expected=conn)).
ServedIsRegistered ==
    \A w \in Worker : stream[w] # 0 => workers[w] = stream[w]

\* A claimed batch always finds its slots: the branch of _assign_round_robin
\* that leaves a claimed job unassigned is never taken.
EveryClaimPlaced ==
    [][pass.at = "assign" /\ pass'.at = "stamp" => Len(pass'.placed) = Len(pass.batch)]_vars

\* No assignment is lost for good: a queued job is settled in the end, whatever
\* breaks on the way (streams, passes, the engine), by a worker or because its
\* attempts ran out.
NoLostAssignment == \A j \in Job : <>(jobs[j].state = "done")

\* The fleet view heals: while a worker stays connected its row is live again
\* and again, even when the delete of its old stream lands after the upsert of
\* its new one.
ConnectedIsListed == \A w \in Worker : []<>(~setup.hooks \/ listed[w] = "live" \/ stream[w] = 0)
=============================================================================
