--------------------------- MODULE JobEngineProofs ---------------------------
(***************************************************************************)
(* Proofs about JobEngine, for any set of jobs, specs, gates and           *)
(* behaviours of the environment.                                          *)
(***************************************************************************)
EXTENDS JobEngine, FiniteSetTheorems, TLAPS

\* What the provers may take for a step that does not say otherwise.
USE SMTT(60), ZenonT(60)

(***************************************************************************)
(* Rows.                                                                   *)
(***************************************************************************)
\* Rows stay rows under the row updates of the statements (archive, requeue,
\* claim, one dependency less).
LEMMA RowUpdates ==
    ASSUME NEW r \in Row
    PROVE  /\ \A st \in JobState : Settled(r, st) \in Row
           /\ \A st \in JobState, due \in BOOLEAN : Unleased(r, st, due) \in Row
           /\ Leased(r) \in Row
           /\ OneDepLess(r) \in Row
<1>1. \A st \in JobState : Settled(r, st) \in Row
  BY ZenonT(60) DEF Settled, Row, JobState, LIVE_STATES, TERMINAL_STATES
<1>2. \A st \in JobState, due \in BOOLEAN : Unleased(r, st, due) \in Row
  BY ZenonT(60) DEF Unleased, Row, JobState, LIVE_STATES, TERMINAL_STATES
<1>3. Leased(r) \in Row
  <2>1. r.attempt + 1 \in Nat
    BY DEF Row
  <2> DEFINE n == r.attempt + 1
  <2> HIDE DEF n
  <2>2. [r EXCEPT !.state = "running", !.attempt = n, !.token = n, !.alive = TRUE] \in Row
    BY <2>1, ZenonT(60) DEF n, Row, JobState, LIVE_STATES, TERMINAL_STATES
  <2> QED BY <2>2 DEF Leased, n
<1>4. OneDepLess(r) \in Row
  <2> DEFINE n == r.remaining - 1
             st == IF r.remaining - 1 = 0 /\ r.state = "submitted" /\ r.due
                   THEN "queued" ELSE r.state
  <2>1. n \in Int /\ st \in JobState \cup {"absent"}
    BY DEF Row, JobState, LIVE_STATES, TERMINAL_STATES
  <2> HIDE DEF n, st
  <2>2. [r EXCEPT !.remaining = n, !.state = st] \in Row
    BY <2>1, ZenonT(60) DEF Row
  <2> QED BY <2>2 DEF OneDepLess, n, st
<1> QED BY <1>1, <1>2, <1>3, <1>4

\* A spec with every column NULL is a spec, and so are the specs of a chain
\* continuation, of a hook and of a replay.
LEMMA DerivedSpecs ==
    /\ NoSpec \in Spec_t
    /\ \A s \in Spec_t : HasNext(s) => advance(s) \in Spec_t
    /\ \A s \in Spec_t : HookSpec(s) \in Spec_t
    /\ \A s \in Spec_t, g \in GateId : [s EXCEPT !.gate = g] \in Spec_t
    /\ \A s \in Spec_t : [s EXCEPT !.dedup = Null, !.gate = 0] \in Spec_t
<1>1. NoSpec \in Spec_t
  BY DEF NoSpec, Spec_t
<1>2. ASSUME NEW s \in Spec_t, HasNext(s) PROVE advance(s) \in Spec_t
  <2> DEFINE p == Tail(s.path)
  <2>1. p \in Seq(Tasks)
    BY <1>2 DEF HasNext, Spec_t
  <2> HIDE DEF p
  <2>2. [s EXCEPT !.path = p, !.dedup = Null, !.gate = 0, !.max = DefaultMax] \in Spec_t
    BY <2>1, EngineAssumption, ZenonT(60) DEF Spec_t
  <2> QED BY <2>2 DEF advance, p
<1>3. ASSUME NEW s \in Spec_t PROVE HookSpec(s) \in Spec_t
  BY <1>1, EngineAssumption, ZenonT(60) DEF HookSpec, Spec_t, NoSpec
<1>4. \A s \in Spec_t, g \in GateId : [s EXCEPT !.gate = g] \in Spec_t
  BY DEF Spec_t
<1>5. \A s \in Spec_t : [s EXCEPT !.dedup = Null, !.gate = 0] \in Spec_t
  BY ZenonT(60) DEF Spec_t
<1> QED BY <1>1, <1>2, <1>3, <1>4, <1>5, ZenonT(60)

\* A new row of a spec is a row.
LEMMA NewRowType ==
    ASSUME NEW st \in JobState \cup {"absent"}, NEW spec \in Spec_t, NEW o \in Origin
    PROVE  /\ NewRow(st, spec, o) \in Row
           /\ NewRow(st, spec, o).state = st /\ NewRow(st, spec, o).remaining = 0
  BY DEF NewRow, Row, JobState, LIVE_STATES, TERMINAL_STATES

\* Lists of rows: the empty list, a list of one, and two lists in a row.
LEMMA RowLists ==
    ASSUME NEW R
    PROVE  /\ <<>> \in Seq(R)
           /\ \A r \in R : <<r>> \in Seq(R)
           /\ \A s, t \in Seq(R) : s \o t \in Seq(R)
  OBVIOUS

(***************************************************************************)
(* Statements.                                                             *)
(***************************************************************************)
\* submit.sql leaves every row alone except ids that had no row, and those it
\* gives one of the rows it was asked to insert.
LEMMA SubmitRows ==
    ASSUME NEW T \in [JobId -> Row], NEW R \in SUBSET Row, NEW rows \in Seq(R), Fits(T, rows)
    PROVE  /\ submit(T, rows) \in [JobId -> Row]
           /\ \A i \in JobId :
                 \/ submit(T, rows)[i] = T[i]
                 \/ T[i].state = "absent" /\ submit(T, rows)[i] \in R
<1> DEFINE ids == NewIds(T, rows)
<1>1. ids \in [Inserted(T, rows) -> Absent(T)]
  BY DEF NewIds, Fits, ExistsInjection, Injection
<1>2. Inserted(T, rows) \subseteq DOMAIN rows
  BY DEF Inserted
<1>3. \A k \in DOMAIN rows : rows[k] \in R
  OBVIOUS
<1>4. submit(T, rows) = [i \in JobId |-> IF \E k \in DOMAIN ids : ids[k] = i
                         THEN rows[CHOOSE k \in DOMAIN ids : ids[k] = i]
                         ELSE T[i]]
  BY DEF submit
<1> HIDE DEF ids
<1>5. ASSUME NEW i \in JobId
      PROVE  /\ submit(T, rows)[i] \in Row
             /\ \/ submit(T, rows)[i] = T[i]
                \/ T[i].state = "absent" /\ submit(T, rows)[i] \in R
  <2>1. CASE \E k \in DOMAIN ids : ids[k] = i
    <3> DEFINE m == CHOOSE k \in DOMAIN ids : ids[k] = i
    <3>1. m \in DOMAIN ids /\ ids[m] = i
      BY <2>1
    <3>2. submit(T, rows)[i] = rows[m]
      BY <2>1, <1>4
    <3> HIDE DEF m
    <3> QED BY <3>1, <3>2, <1>1, <1>2, <1>3 DEF Absent
  <2>2. CASE ~\E k \in DOMAIN ids : ids[k] = i
    BY <2>2, <1>4
  <2> QED BY <2>1, <2>2
<1> QED BY <1>4, <1>5

\* cascade_cancel.sql archives only live rows that depend on some job.
LEMMA CascadeRows ==
    ASSUME NEW T \in [JobId -> Row], NEW root \in JobId, edges \subseteq JobId \X JobId
    PROVE  /\ Cone(T, root) \subseteq JobId
           /\ cascade_cancel(T, root) \in [JobId -> Row]
           /\ \A i \in JobId :
                 \/ cascade_cancel(T, root)[i] = T[i]
                 \/ /\ Live(T, i) /\ \E u \in JobId : <<i, u>> \in edges
                    /\ cascade_cancel(T, root)[i] = Settled(T[i], "cancelled")
<1> DEFINE D == {i \in JobId : Live(T, i) /\ \E u \in JobId : <<i, u>> \in edges}
<1>1. Cone(T, root) \subseteq D
  <2>1. D \in SUBSET JobId
    OBVIOUS
  <2>2. \A i \in JobId :
            Live(T, i) /\ (\E u \in D \cup {root} : <<i, u>> \in edges) => i \in D
    OBVIOUS
  <2> HIDE DEF D
  <2> QED BY <2>1, <2>2, ZenonT(60) DEF Cone
<1>2. \A i \in JobId : Settled(T[i], "cancelled") \in Row
  BY RowUpdates, ZenonT(60) DEF JobState, TERMINAL_STATES
<1> QED BY <1>1, <1>2, ZenonT(60) DEF cascade_cancel, Cone

\* decrement_deps.sql touches only live dependents of the settled job.
LEMMA DecrementRows ==
    ASSUME NEW T \in [JobId -> Row], NEW u \in JobId
    PROVE  /\ decrement_deps(T, u) \in [JobId -> Row]
           /\ \A i \in JobId :
                 decrement_deps(T, u)[i] =
                    IF Live(T, i) /\ <<i, u>> \in edges THEN OneDepLess(T[i]) ELSE T[i]
<1>1. \A i \in JobId : OneDepLess(T[i]) \in Row
  BY RowUpdates
<1> QED BY <1>1 DEF decrement_deps, Dependents

\* decrement_group.sql keeps every counter a natural number.
LEMMA DecrementGroupType ==
    ASSUME NEW G \in [GroupKey -> Nat], NEW spec
    PROVE  decrement_group(G, spec) \in [GroupKey -> Nat]
<1>1. \A n \in Nat : Floor0(n - 1) \in Nat
  BY DEF Floor0
<1> QED BY <1>1, ZenonT(60) DEF decrement_group

\* bump_gate.sql keeps a gate row a gate row, and never changes on_complete.
LEMMA BumpGateType ==
    ASSUME NEW g \in Gate, NEW ok \in BOOLEAN, NEW bad \in BOOLEAN
    PROVE  /\ bump_gate(g, ok, bad).row \in Gate
           /\ bump_gate(g, ok, bad).row.on_complete = g.on_complete
           /\ bump_gate(g, ok, bad).resolved \in BOOLEAN
<1> DEFINE c == g.completed + 1
           s == IF ok THEN g.succeeded + 1 ELSE g.succeeded
           f == IF bad THEN g.failed + 1 ELSE g.failed
           post == [g EXCEPT !.completed = c, !.succeeded = s, !.failed = f]
           res == ~g.fired /\ (is_satisfied(post) \/ post.completed >= post.expected)
           row == [post EXCEPT !.fired = @ \/ res]
<1>1. c \in Nat /\ s \in Nat /\ f \in Nat
  BY DEF Gate
<1>2. bump_gate(g, ok, bad) = [row |-> row, resolved |-> res]
  BY DEF bump_gate
<1> HIDE DEF c, s, f
<1>3. post \in Gate /\ post.on_complete = g.on_complete
  BY <1>1, ZenonT(60) DEF Gate
<1> HIDE DEF post
<1>4. row \in Gate /\ row.on_complete = g.on_complete
  BY <1>3, ZenonT(60) DEF Gate
<1>5. res \in BOOLEAN
  OBVIOUS
<1> HIDE DEF row, res
<1> QED BY <1>2, <1>4, <1>5

\* The events record_event writes keep the ledger well-typed.
LEMMA RecordEventsType ==
    ASSUME NEW S, NEW C, NEW ev \in TerminalEvent,
           ledger \in [JobId -> SUBSET TerminalEvent]
    PROVE  record_events(S, ev, C) \in [JobId -> SUBSET TerminalEvent]
<1>1. "dependency_cancelled" \in TerminalEvent
  BY DEF TerminalEvent
<1>2. \A i \in JobId : ledger[i] \cup (IF i \in S THEN {ev} ELSE {})
          \cup (IF i \in C THEN {"dependency_cancelled"} ELSE {}) \in SUBSET TerminalEvent
  BY <1>1
<1> QED BY <1>2 DEF record_events

(***************************************************************************)
(* The inductive invariant.  DependencySafety alone is not inductive: that *)
(* the flip of decrement_deps.sql is safe rests on remaining_deps never    *)
(* being smaller than the number of unsuccessful upstreams (it is larger   *)
(* when an upstream is listed twice, or had succeeded before the submit),  *)
(* and that an INSERT is safe rests on no edge naming an id without a row. *)
(***************************************************************************)
Unsatisfied(T, i) == {u \in JobId : <<i, u>> \in edges /\ T[u].state # "succeeded"}

\* Every edge of job_dependencies joins two existing jobs.
EdgesKnown ==
    \A e \in edges : jobs[e[1]].state # "absent" /\ jobs[e[2]].state # "absent"

\* remaining_deps of a submitted job never undercounts.
DepsCounted ==
    \A i \in JobId : jobs[i].state = "submitted" =>
        jobs[i].remaining >= Cardinality(Unsatisfied(jobs, i))

IInv == TypeOK /\ EdgesKnown /\ DepsCounted /\ DependencySafety

\* Every row makes a move of core/states.py, or none.
LegalStep ==
    \A i \in JobId : \/ jobs'[i].state = jobs[i].state
                     \/ can_transition(jobs[i].state, jobs'[i].state)

QueuedRow == {r \in Row : r.state = "queued"}

\* A row's change in every transaction but Submit and Complete: no job
\* succeeds, and no job leaves submitted unless it is cancelled.
Quiet(r, s) ==
    \/ s.state = r.state /\ s.remaining = r.remaining
    \/ r.state = "absent" /\ s.state = "queued"
    \/ /\ r.state \in {"queued", "running", "waiting"}
       /\ s.state \in {"queued", "running", "waiting", "dead"}
       /\ can_transition(r.state, s.state)
    \/ r.state \in LIVE_STATES /\ s.state = "cancelled"

QuietStep == edges' = edges /\ \A i \in JobId : Quiet(jobs[i], jobs'[i])

\* A quiet transaction keeps the invariant and moves rows legally.
LEMMA QuietPreserves ==
    ASSUME IInv, TypeOK', QuietStep
    PROVE  IInv' /\ LegalStep
<1>1. \A i \in JobId : (jobs'[i].state = "succeeded") <=> (jobs[i].state = "succeeded")
  BY DEF QuietStep, Quiet, LIVE_STATES
<1>2. EdgesKnown'
  <2> SUFFICES ASSUME NEW e \in edges
               PROVE  jobs'[e[1]].state # "absent" /\ jobs'[e[2]].state # "absent"
    BY DEF EdgesKnown, QuietStep
  <2>1. e[1] \in JobId /\ e[2] \in JobId
    BY DEF IInv, TypeOK
  <2> QED BY <2>1 DEF IInv, EdgesKnown, QuietStep, Quiet
<1>3. DepsCounted'
  <2> SUFFICES ASSUME NEW i \in JobId, jobs'[i].state = "submitted"
               PROVE  jobs'[i].remaining >= Cardinality(Unsatisfied(jobs, i)')
    BY DEF DepsCounted
  <2>1. jobs[i].state = "submitted" /\ jobs'[i].remaining = jobs[i].remaining
    BY DEF QuietStep, Quiet
  <2>2. Unsatisfied(jobs, i)' = Unsatisfied(jobs, i)
    BY <1>1 DEF Unsatisfied, QuietStep
  <2> QED BY <2>1, <2>2 DEF IInv, DepsCounted
<1>4. DependencySafety'
  <2> SUFFICES ASSUME NEW e \in edges,
                      jobs'[e[1]].state \in {"queued", "running", "waiting", "succeeded", "dead"}
               PROVE  jobs'[e[2]].state = "succeeded"
    BY DEF DependencySafety, QuietStep
  <2>1. e[1] \in JobId /\ e[2] \in JobId
    BY DEF IInv, TypeOK
  <2>2. jobs[e[1]].state \in {"queued", "running", "waiting", "succeeded", "dead"}
    BY <2>1 DEF IInv, EdgesKnown, QuietStep, Quiet
  <2> QED BY <1>1, <2>1, <2>2 DEF IInv, DependencySafety
<1>5. LegalStep
  BY DEF LegalStep, QuietStep, Quiet, can_transition, TRANSITIONS, LIVE_STATES
<1> QED BY <1>2, <1>3, <1>4, <1>5 DEF IInv

(***************************************************************************)
(* Steps that update one row, or a set of rows, in place.                  *)
(***************************************************************************)
\* A transaction that writes only jobs, row by row and quietly, is quiet and
\* keeps the types.
LEMMA RowsOnly ==
    ASSUME IInv, jobs' \in [JobId -> Row], \A i \in JobId : Quiet(jobs[i], jobs'[i]),
           UNCHANGED <<edges, gates, group_running, ledger, stopped, submits>>,
           (cancelling \subseteq JobId \X BOOLEAN)',
           (sweep \in {"idle", "fail", "waits", "reconcile", "reconcile_write"})',
           (candidates \subseteq JobId \X Nat)', (drift \subseteq GroupKey \X Nat)'
    PROVE  TypeOK' /\ QuietStep
  BY DEF IInv, TypeOK, QuietStep

\* Claiming queued rows is quiet.
LEMMA ClaimStep ==
    ASSUME IInv, NEW S \in SUBSET JobId, Claim(S)
    PROVE  TypeOK' /\ QuietStep
<1>1. jobs' \in [JobId -> Row]
  BY RowUpdates DEF IInv, TypeOK, Claim, claim_rows
<1>2. \A i \in JobId : Quiet(jobs[i], jobs'[i])
  <2>1. \A i \in S : jobs[i].state = "queued"
    BY ZenonT(60) DEF Claim, admissible
  <2>2. \A i \in S : Leased(jobs[i]).state = "running"
    BY DEF IInv, TypeOK, Leased, Row
  <2> QED BY <2>1, <2>2 DEF Claim, claim_rows, Quiet, can_transition, TRANSITIONS
<1>3. group_running' \in [GroupKey -> Nat]
  <2>1. \A k : IsFiniteSet(Capped(jobs, S, k))
    BY EngineAssumption, FS_Subset DEF Capped
  <2>2. \A k : Cardinality(Capped(jobs, S, k)) \in Nat
    BY <2>1, FS_CardinalityType
  <2>3. \A k \in GroupKey : group_running[k] + Cardinality(Capped(jobs, S, k)) \in Nat
    BY <2>2 DEF IInv, TypeOK
  <2> QED BY <2>3 DEF Claim, counter_bump
<1> QED BY <1>1, <1>2, <1>3 DEF IInv, TypeOK, QuietStep, Claim, sweeper

\* A worker's heartbeat is quiet.
LEMMA HeartbeatStep ==
    ASSUME IInv, NEW j \in JobId, NEW t, Heartbeat(j, t)
    PROVE  TypeOK' /\ QuietStep
<1>1. jobs' \in [JobId -> Row]
  <2>1. jobs \in [JobId -> Row]
    BY DEF IInv, TypeOK
  <2>2. \A r \in Row : [r EXCEPT !.lapsed = FALSE] \in Row
    BY ZenonT(60) DEF Row
  <2> QED BY <2>1, <2>2 DEF Heartbeat
<1>2. \A i \in JobId : Quiet(jobs[i], jobs'[i])
  BY DEF IInv, TypeOK, Heartbeat, Quiet, Row
<1> QED BY <1>1, <1>2, RowsOnly, ZenonT(60) DEF IInv, TypeOK, Heartbeat, sweeper

\* A worker's wait, which parks the job it owns, is quiet.
LEMMA WaitStep ==
    ASSUME IInv, NEW j \in JobId, NEW t, Wait(j, t)
    PROVE  TypeOK' /\ QuietStep
<1> DEFINE parked == Unleased(jobs[j], "waiting", jobs[j].due)
<1>1. parked \in Row /\ parked.state = "waiting"
  <2>1. jobs[j] \in Row /\ jobs[j].due \in BOOLEAN
    BY DEF IInv, TypeOK, Row
  <2>2. "waiting" \in JobState
    BY DEF JobState, LIVE_STATES
  <2>3. parked \in Row
    BY <2>1, <2>2, RowUpdates, ZenonT(60)
  <2>4. parked.state = "waiting"
    BY <2>1 DEF Unleased, Row
  <2> QED BY <2>3, <2>4
<1>2. jobs' = [jobs EXCEPT ![j] = parked]
  BY DEF Wait
<1> HIDE DEF parked
<1>3. jobs' \in [JobId -> Row]
  BY <1>1, <1>2 DEF IInv, TypeOK
<1>4. \A i \in JobId : Quiet(jobs[i], jobs'[i])
  BY <1>1, <1>2 DEF IInv, TypeOK, Wait, owns, Quiet, can_transition, TRANSITIONS
<1> QED BY <1>3, <1>4, RowsOnly DEF IInv, TypeOK, Wait, sweeper

\* Releasing waiting rows (a signal, or the sweep of expired waits) keeps the
\* rows rows and is quiet.
LEMMA ReleasedRows ==
    ASSUME IInv, NEW S \in SUBSET JobId, \A i \in S : jobs[i].state = "waiting"
    PROVE  /\ Released(jobs, S) \in [JobId -> Row]
           /\ \A i \in JobId : Quiet(jobs[i], Released(jobs, S)[i])
<1>1. jobs \in [JobId -> Row]
  BY DEF IInv, TypeOK
<1>2. "queued" \in JobState /\ TRUE \in BOOLEAN
  BY DEF JobState, LIVE_STATES
<1>3. \A i \in JobId : Unleased(jobs[i], "queued", TRUE) \in Row
  BY <1>1, <1>2, RowUpdates, ZenonT(60)
<1>4. \A i \in JobId : Unleased(jobs[i], "queued", TRUE).state = "queued"
  BY <1>1 DEF Unleased, Row
<1> QED BY <1>1, <1>3, <1>4, ZenonT(60) DEF Released, Quiet, can_transition, TRANSITIONS

\* A signal that wakes a parked job is quiet.
LEMMA SignalStep ==
    ASSUME IInv, NEW j \in JobId, Signal(j)
    PROVE  TypeOK' /\ QuietStep
<1>1. \A i \in {j} : jobs[i].state = "waiting"
  BY DEF Signal
<1>2. jobs' = Released(jobs, {j})
  BY DEF Signal
<1> QED BY <1>1, <1>2, ReleasedRows, RowsOnly DEF IInv, TypeOK, Signal, sweeper

\* The timeout of parked jobs is quiet.
LEMMA SweepWaitsStep ==
    ASSUME IInv, SweepWaits
    PROVE  TypeOK' /\ QuietStep
<1> DEFINE S == {j \in JobId : jobs[j].state = "waiting" /\ jobs[j].lapsed}
<1>1. S \in SUBSET JobId /\ \A i \in S : jobs[i].state = "waiting"
  OBVIOUS
<1>2. jobs' = Released(jobs, S)
  BY DEF SweepWaits
<1> HIDE DEF S
<1> QED BY <1>1, <1>2, ReleasedRows, RowsOnly DEF IInv, TypeOK, SweepWaits

\* The passage of time and the loss of a worker are quiet.
LEMMA TimeStepQuiet ==
    ASSUME IInv, TimeStep
    PROVE  TypeOK' /\ QuietStep
<1>1. PICK j \in JobId : RunAtArrives(j) \/ DeadlinePasses(j) \/ WorkerLost(j)
  BY DEF TimeStep
<1>2. jobs' \in [JobId -> Row]
  <2>1. jobs \in [JobId -> Row]
    BY DEF IInv, TypeOK
  <2>2. \A r \in Row : /\ [r EXCEPT !.due = TRUE] \in Row
                       /\ [r EXCEPT !.lapsed = TRUE] \in Row
                       /\ [r EXCEPT !.alive = FALSE] \in Row
    BY ZenonT(60) DEF Row
  <2>3. \/ jobs' = [jobs EXCEPT ![j] = [@ EXCEPT !.due = TRUE]]
        \/ jobs' = [jobs EXCEPT ![j] = [@ EXCEPT !.lapsed = TRUE]]
        \/ jobs' = [jobs EXCEPT ![j] = [@ EXCEPT !.alive = FALSE]]
    BY <1>1 DEF RunAtArrives, DeadlinePasses, WorkerLost
  <2> QED BY <2>1, <2>2, <2>3, ZenonT(60)
<1>3. \A i \in JobId : Quiet(jobs[i], jobs'[i])
  <2>1. jobs \in [JobId -> Row]
    BY DEF IInv, TypeOK
  <2>2. \A i \in JobId : jobs'[i].state = jobs[i].state /\ jobs'[i].remaining = jobs[i].remaining
    BY <1>1, <2>1 DEF RunAtArrives, DeadlinePasses, WorkerLost, Row
  <2> QED BY <2>2 DEF Quiet
<1> QED BY <1>1, <1>2, <1>3, RowsOnly
        DEF IInv, TypeOK, RunAtArrives, DeadlinePasses, WorkerLost, sweeper

(***************************************************************************)
(* The sweeper's steps.                                                    *)
(***************************************************************************)
\* Reclaiming lapsed leases, requeued or archived, is quiet.
LEMMA SweepLeasesStep ==
    ASSUME IInv, SweepLeases
    PROVE  TypeOK' /\ QuietStep
<1> DEFINE S == {j \in JobId : reclaimable(jobs, j)}
<1>1. S \in SUBSET JobId /\ \A i \in S : jobs[i].state = "running"
  BY DEF reclaimable
<1>2. /\ jobs' = reclaimed(jobs, S)
      /\ group_running' = counter_dec(jobs, group_running, S)
      /\ sweep' = "waits"
      /\ UNCHANGED <<edges, gates, ledger, stopped, submits, cancelling, candidates, drift>>
  BY DEF SweepLeases
<1> HIDE DEF S
<1>3. \A i \in JobId : /\ Settled(jobs[i], "cancelled") \in Row
                       /\ Settled(jobs[i], "cancelled").state = "cancelled"
                       /\ Unleased(jobs[i], "queued", jobs[i].due) \in Row
                       /\ Unleased(jobs[i], "queued", jobs[i].due).state = "queued"
  <2> SUFFICES ASSUME NEW i \in JobId
               PROVE  /\ Settled(jobs[i], "cancelled") \in Row
                      /\ Settled(jobs[i], "cancelled").state = "cancelled"
                      /\ Unleased(jobs[i], "queued", jobs[i].due) \in Row
                      /\ Unleased(jobs[i], "queued", jobs[i].due).state = "queued"
    OBVIOUS
  <2>1. jobs[i] \in Row /\ jobs[i].due \in BOOLEAN
    BY DEF IInv, TypeOK, Row
  <2>2. "cancelled" \in JobState /\ "queued" \in JobState
    BY DEF JobState, LIVE_STATES, TERMINAL_STATES
  <2>3. Settled(jobs[i], "cancelled") \in Row /\ Unleased(jobs[i], "queued", jobs[i].due) \in Row
    BY <2>1, <2>2, RowUpdates
  <2>4. Settled(jobs[i], "cancelled").state = "cancelled"
    BY <2>1 DEF Settled, Row
  <2>5. Unleased(jobs[i], "queued", jobs[i].due).state = "queued"
    BY <2>1 DEF Unleased, Row
  <2> QED BY <2>3, <2>4, <2>5
<1>4. jobs \in [JobId -> Row]
  BY DEF IInv, TypeOK
<1>5. jobs' \in [JobId -> Row]
  BY <1>2, <1>3, <1>4 DEF reclaimed
<1>6. \A i \in JobId : Quiet(jobs[i], jobs'[i])
  BY <1>1, <1>2, <1>3, <1>4 DEF reclaimed, Quiet, can_transition, TRANSITIONS, LIVE_STATES
<1>7. group_running' \in [GroupKey -> Nat]
  <2>1. \A k : IsFiniteSet(Capped(jobs, S, k))
    BY <1>1, EngineAssumption, FS_Subset DEF Capped
  <2>2. \A k : Cardinality(Capped(jobs, S, k)) \in Nat
    BY <2>1, FS_CardinalityType
  <2>3. \A m, n \in Nat : Floor0(m - n) \in Nat
    BY DEF Floor0
  <2>4. \A k \in GroupKey : group_running[k] \in Nat
    BY DEF IInv, TypeOK
  <2> QED BY <1>2, <2>2, <2>3, <2>4, ZenonT(60) DEF counter_dec
<1> QED BY <1>2, <1>5, <1>6, <1>7 DEF IInv, TypeOK, QuietStep

\* Listing, reconciling and losing the sweeper leave the rows alone.
LEMMA SweepReadsStep ==
    ASSUME IInv, ListExhausted \/ ReconcileRead \/ ReconcileWrite \/ SweeperLost
    PROVE  TypeOK' /\ QuietStep
<1>1. QuietStep
  BY DEF QuietStep, Quiet, ListExhausted, ReconcileRead, ReconcileWrite, SweeperLost
<1>2. CASE ListExhausted
  <2>1. \A j \in JobId : jobs[j].token \in Nat
    BY DEF IInv, TypeOK, Row
  <2>2. candidates' \subseteq JobId \X Nat
    BY <1>2, <2>1 DEF ListExhausted
  <2> QED BY <1>1, <1>2, <2>2 DEF IInv, TypeOK, ListExhausted
<1>3. CASE ReconcileRead
  <2>1. \A k : IsFiniteSet(RunningCapped(k))
    BY EngineAssumption, FS_Subset DEF RunningCapped, Capped
  <2>2. \A k : Cardinality(RunningCapped(k)) \in Nat
    BY <2>1, FS_CardinalityType
  <2>3. drift' \subseteq GroupKey \X Nat
    BY <1>3, <2>2 DEF ReconcileRead
  <2> QED BY <1>1, <1>3, <2>3 DEF IInv, TypeOK, ReconcileRead
<1>4. CASE ReconcileWrite
  <2>1. \A k \in GroupKey : (\E d \in drift : d[1] = k) => (CHOOSE d \in drift : d[1] = k)[2] \in Nat
    <3> SUFFICES ASSUME NEW k \in GroupKey, \E d \in drift : d[1] = k
                 PROVE  (CHOOSE d \in drift : d[1] = k)[2] \in Nat
      OBVIOUS
    <3>1. (CHOOSE d \in drift : d[1] = k) \in drift
      OBVIOUS
    <3> QED BY <3>1 DEF IInv, TypeOK
  <2>2. group_running' \in [GroupKey -> Nat]
    BY <1>4, <2>1 DEF IInv, TypeOK, ReconcileWrite
  <2> QED BY <1>1, <1>4, <2>2 DEF IInv, TypeOK, ReconcileWrite
<1>5. CASE SweeperLost
  BY <1>1, <1>5 DEF IInv, TypeOK, SweeperLost
<1> QED BY <1>2, <1>3, <1>4, <1>5

(***************************************************************************)
(* Steps that settle a job.                                                *)
(***************************************************************************)
\* A fresh queued row of a spec.
LEMMA QueuedRowType ==
    ASSUME NEW spec \in Spec_t, NEW o \in Origin
    PROVE  NewRow("queued", spec, o) \in QueuedRow
<1>1. "queued" \in JobState \cup {"absent"}
  BY DEF JobState, LIVE_STATES
<1> QED BY <1>1, NewRowType DEF QueuedRow

\* _settle_gate: the gate table keeps its type, and what it inserts are queued
\* rows.
LEMMA SettleGate ==
    ASSUME IInv, NEW spec \in Spec_t, NEW ok \in BOOLEAN, NEW bad \in BOOLEAN
    PROVE  /\ SettledGates(spec, ok, bad) \in [GateId -> Gate]
           /\ GateRows(spec, ok, bad) \in Seq(QueuedRow)
<1>1. CASE spec.gate = 0
  BY <1>1 DEF IInv, TypeOK, SettledGates, GateRows
<1>2. CASE spec.gate # 0
  <2> DEFINE g == gates[spec.gate]
             next == bump_gate(g, ok, bad).row.on_complete
             from == [kind |-> "gate", of |-> spec.gate]
  <2>1. spec.gate \in GateId
    BY <1>2 DEF Spec_t
  <2>2. g \in Gate
    BY <2>1 DEF IInv, TypeOK
  <2>3. bump_gate(g, ok, bad).row \in Gate /\ next = g.on_complete
    BY <2>2, BumpGateType, ZenonT(60)
  <2>4. next \in Spec_t
    BY <2>2, <2>3 DEF Gate
  <2>5. from \in Origin
    BY <2>1 DEF Origin, OriginKind
  <2>6. SettledGates(spec, ok, bad) = [gates EXCEPT ![spec.gate] = bump_gate(g, ok, bad).row]
    BY <1>2 DEF SettledGates
  <2>7. \/ GateRows(spec, ok, bad) = <<>>
        \/ GateRows(spec, ok, bad) = <<NewRow("queued", next, from)>>
        \/ GateRows(spec, ok, bad) = <<NewRow("queued", HookSpec(next), from)>>
    BY <1>2 DEF GateRows
  <2> HIDE DEF g, next, from
  <2>8. NewRow("queued", next, from) \in QueuedRow
    BY <2>4, <2>5, QueuedRowType
  <2>9. NewRow("queued", HookSpec(next), from) \in QueuedRow
    BY <2>4, <2>5, QueuedRowType, DerivedSpecs, ZenonT(60)
  <2>10. GateRows(spec, ok, bad) \in Seq(QueuedRow)
    BY <2>7, <2>8, <2>9, RowLists, ZenonT(60)
  <2> QED BY <2>3, <2>6, <2>10, ZenonT(60) DEF IInv, TypeOK
<1> QED BY <1>1, <1>2

\* Archiving one row.
LEMMA ArchiveRows ==
    ASSUME IInv, NEW j \in JobId, NEW st \in JobState
    PROVE  /\ archive(jobs, j, st) \in [JobId -> Row]
           /\ archive(jobs, j, st)[j].state = st
           /\ \A i \in JobId \ {j} : archive(jobs, j, st)[i] = jobs[i]
<1>1. jobs \in [JobId -> Row]
  BY DEF IInv, TypeOK
<1>2. Settled(jobs[j], st) \in Row
  BY <1>1, RowUpdates
<1>3. Settled(jobs[j], st).state = st
  BY <1>1 DEF Settled, Row
<1> QED BY <1>1, <1>2, <1>3 DEF archive

\* A cascade from a table that differs quietly from jobs, and in which only ids
\* without a row were filled, is quiet: no new row has a dependency.
LEMMA CascadeQuiet ==
    ASSUME IInv, NEW T \in [JobId -> Row], NEW root \in JobId,
           \A i \in JobId : Quiet(jobs[i], T[i])
    PROVE  /\ Cone(T, root) \subseteq JobId
           /\ cascade_cancel(T, root) \in [JobId -> Row]
           /\ \A i \in JobId : Quiet(jobs[i], cascade_cancel(T, root)[i])
<1>1. edges \subseteq JobId \X JobId
  BY DEF IInv, TypeOK
<1>2. ASSUME NEW i \in JobId PROVE Quiet(jobs[i], cascade_cancel(T, root)[i])
  <2>1. CASE cascade_cancel(T, root)[i] = T[i]
    BY <2>1
  <2>2. CASE /\ Live(T, i) /\ \E u \in JobId : <<i, u>> \in edges
             /\ cascade_cancel(T, root)[i] = Settled(T[i], "cancelled")
    <3>1. PICK u \in JobId : <<i, u>> \in edges
      BY <2>2
    <3>2. jobs[i].state # "absent"
      BY <3>1 DEF IInv, EdgesKnown
    <3>3. jobs[i].state \in LIVE_STATES
      BY <2>2, <3>2 DEF Live, Quiet, LIVE_STATES
    <3>4. cascade_cancel(T, root)[i].state = "cancelled"
      BY <2>2 DEF Settled, Row
    <3> QED BY <3>3, <3>4 DEF Quiet
  <2> QED BY <1>1, <2>1, <2>2, CascadeRows, ZenonT(60)
<1> QED BY <1>1, <1>2, CascadeRows

\* The terminal branch of fail, of a running job, is quiet.
LEMMA DieStep ==
    ASSUME IInv, NEW j \in JobId, jobs[j].state = "running", Die(j)
    PROVE  /\ jobs' \in [JobId -> Row]
           /\ gates' \in [GateId -> Gate]
           /\ group_running' \in [GroupKey -> Nat]
           /\ ledger' \in [JobId -> SUBSET TerminalEvent]
           /\ UNCHANGED <<edges, stopped, submits>>
           /\ QuietStep
<1> DEFINE spec == jobs[j].spec
           dead == archive(jobs, j, "dead")
           hook == IF spec.hook = <<>> THEN <<>>
                   ELSE <<NewRow("queued", HookSpec(spec), [kind |-> "hook", of |-> j])>>
           rows == GateRows(spec, FALSE, TRUE) \o hook
           inserted == submit(dead, rows)
<1>1. /\ Fits(dead, rows)
      /\ jobs' = cascade_cancel(inserted, j)
      /\ group_running' = decrement_group(group_running, spec)
      /\ gates' = SettledGates(spec, FALSE, TRUE)
      /\ ledger' = record_events({j}, "dead", Cone(inserted, j))
      /\ UNCHANGED <<edges, stopped, submits>>
  BY ZenonT(60) DEF Die
<1>2. spec \in Spec_t
  BY DEF IInv, TypeOK, Row
<1>3. dead \in [JobId -> Row] /\ dead[j].state = "dead" /\ \A i \in JobId \ {j} : dead[i] = jobs[i]
  BY ArchiveRows DEF JobState, TERMINAL_STATES
<1>4. hook \in Seq(QueuedRow)
  <2>1. [kind |-> "hook", of |-> j] \in Origin
    BY DEF Origin, OriginKind
  <2>2. HookSpec(spec) \in Spec_t
    BY <1>2, DerivedSpecs, ZenonT(60)
  <2>3. NewRow("queued", HookSpec(spec), [kind |-> "hook", of |-> j]) \in QueuedRow
    BY <2>1, <2>2, QueuedRowType
  <2> QED BY <2>3
<1>5. GateRows(spec, FALSE, TRUE) \in Seq(QueuedRow) /\ gates' \in [GateId -> Gate]
  BY <1>1, <1>2, SettleGate, ZenonT(60)
<1> HIDE DEF hook, dead, spec
<1>6. rows \in Seq(QueuedRow)
  BY <1>4, <1>5, RowLists, ZenonT(60)
<1> HIDE DEF rows
<1>7. /\ inserted \in [JobId -> Row]
      /\ \A i \in JobId : \/ inserted[i] = dead[i]
                          \/ dead[i].state = "absent" /\ inserted[i] \in QueuedRow
  <2>1. QueuedRow \in SUBSET Row
    BY DEF QueuedRow
  <2> QED BY <1>1, <1>3, <1>6, <2>1, SubmitRows
<1> HIDE DEF inserted
<1>8. \A i \in JobId : Quiet(jobs[i], inserted[i])
  <2> SUFFICES ASSUME NEW i \in JobId PROVE Quiet(jobs[i], inserted[i])
    OBVIOUS
  <2>1. CASE i = j
    <3>1. inserted[i].state = "dead"
      BY <2>1, <1>3, <1>7
    <3> QED BY <2>1, <3>1 DEF Quiet, can_transition, TRANSITIONS
  <2>2. CASE i # j
    BY <2>2, <1>3, <1>7 DEF Quiet, QueuedRow
  <2> QED BY <2>1, <2>2
<1>9. /\ jobs' \in [JobId -> Row]
      /\ \A i \in JobId : Quiet(jobs[i], jobs'[i])
  BY <1>1, <1>7, <1>8, CascadeQuiet
<1>10. group_running' \in [GroupKey -> Nat]
  BY <1>1, DecrementGroupType DEF IInv, TypeOK
<1>11. ledger' \in [JobId -> SUBSET TerminalEvent]
  <2>1. "dead" \in TerminalEvent
    BY DEF TerminalEvent
  <2>2. ledger \in [JobId -> SUBSET TerminalEvent]
    BY DEF IInv, TypeOK
  <2> QED BY <1>1, <2>1, <2>2, RecordEventsType
<1> QED BY <1>1, <1>5, <1>9, <1>10, <1>11, ZenonT(60) DEF QuietStep

\* A worker's fail, retried or terminal, is quiet.
LEMMA FailStep ==
    ASSUME IInv, NEW j \in JobId, NEW t, NEW retryable, NEW m, Fail(j, t, retryable, m)
    PROVE  TypeOK' /\ QuietStep
<1> DEFINE max_attempts == IF m = 0 THEN jobs[j].spec.max ELSE m
           retry == should_retry(jobs[j].attempt, max_attempts, retryable)
<1>1. jobs[j].state = "running" /\ UNCHANGED <<cancelling, sweep, candidates, drift>>
  BY DEF Fail, owns, sweeper
<1>2. CASE retry
  <2>1. /\ jobs' = [jobs EXCEPT ![j] = Unleased(jobs[j], "queued", FALSE)]
        /\ group_running' = decrement_group(group_running, jobs[j].spec)
        /\ UNCHANGED <<edges, gates, ledger, stopped, submits>>
    BY <1>2, ZenonT(60) DEF Fail, fail_retry
  <2>2. /\ Unleased(jobs[j], "queued", FALSE) \in Row
        /\ Unleased(jobs[j], "queued", FALSE).state = "queued"
    <3>1. jobs[j] \in Row /\ FALSE \in BOOLEAN
      BY DEF IInv, TypeOK
    <3>2. "queued" \in JobState
      BY DEF JobState, LIVE_STATES
    <3>3. Unleased(jobs[j], "queued", FALSE).state = "queued"
      BY <3>1 DEF Unleased, Row
    <3> QED BY <3>1, <3>2, <3>3, RowUpdates, ZenonT(60)
  <2>3. jobs' \in [JobId -> Row]
    BY <2>1, <2>2, ZenonT(60) DEF IInv, TypeOK
  <2>4. \A i \in JobId : Quiet(jobs[i], jobs'[i])
    BY <1>1, <2>1, <2>2, ZenonT(60) DEF IInv, TypeOK, Quiet, can_transition, TRANSITIONS
  <2>5. group_running' \in [GroupKey -> Nat]
    BY <2>1, DecrementGroupType DEF IInv, TypeOK
  <2> QED BY <1>1, <2>1, <2>3, <2>4, <2>5, ZenonT(60) DEF IInv, TypeOK, QuietStep
<1>3. CASE ~retry
  <2>1. Die(j)
    BY <1>3, ZenonT(60) DEF Fail
  <2> QED BY <1>1, <2>1, DieStep DEF IInv, TypeOK
<1> QED BY <1>2, <1>3

\* The sweeper's failing of a listed lease is quiet.
LEMMA FailExhaustedStep ==
    ASSUME IInv, NEW c \in candidates, FailExhausted(c[1], c[2])
    PROVE  TypeOK' /\ QuietStep
<1>1. c[1] \in JobId
  BY DEF IInv, TypeOK
<1>2. candidates' \subseteq JobId \X Nat /\ UNCHANGED <<cancelling, sweep, drift>>
  BY DEF IInv, TypeOK, FailExhausted
<1>3. CASE owns(jobs, c[1], c[2])
  <2>1. Die(c[1]) /\ jobs[c[1]].state = "running"
    BY <1>3 DEF FailExhausted, owns
  <2> QED BY <1>1, <1>2, <2>1, DieStep DEF IInv, TypeOK
<1>4. CASE ~owns(jobs, c[1], c[2])
  <2>1. UNCHANGED <<jobs, edges, gates, group_running, ledger, stopped, submits>>
    BY <1>4 DEF FailExhausted
  <2> QED BY <1>2, <2>1 DEF IInv, TypeOK, QuietStep, Quiet
<1> QED BY <1>3, <1>4

\* The first statement of cancel is quiet.
LEMMA CancelImmediateStep ==
    ASSUME IInv, NEW j \in JobId, NEW cascade \in BOOLEAN, CancelImmediate(j, cascade)
    PROVE  TypeOK' /\ QuietStep
<1>1. /\ Live(jobs, j)
      /\ UNCHANGED <<edges, gates, group_running, stopped, submits, sweep, candidates, drift>>
  BY DEF CancelImmediate, sweeper
<1>2. CASE jobs[j].state = "running"
  <2>1. cancelling' = cancelling \cup {<<j, cascade>>} /\ UNCHANGED <<jobs, ledger>>
    BY <1>2 DEF CancelImmediate
  <2>2. cancelling' \subseteq JobId \X BOOLEAN
    BY <2>1 DEF IInv, TypeOK
  <2>3. QuietStep
    BY <1>1, <2>1 DEF QuietStep, Quiet
  <2> QED BY <1>1, <2>1, <2>2, <2>3 DEF IInv, TypeOK
<1>3. CASE jobs[j].state # "running"
  <2> DEFINE moved == archive(jobs, j, "cancelled")
             cone == IF cascade THEN Cone(moved, j) ELSE {}
  <2>1. /\ jobs' = IF cascade THEN cascade_cancel(moved, j) ELSE moved
        /\ ledger' = record_events({j}, "cancelled", cone)
        /\ UNCHANGED cancelling
    BY <1>3 DEF CancelImmediate
  <2>2. /\ moved \in [JobId -> Row] /\ moved[j].state = "cancelled"
        /\ \A i \in JobId \ {j} : moved[i] = jobs[i]
    BY ArchiveRows DEF JobState, TERMINAL_STATES
  <2> HIDE DEF moved, cone
  <2>3. \A i \in JobId : Quiet(jobs[i], moved[i])
    BY <1>1, <2>2 DEF Quiet, Live
  <2>4. jobs' \in [JobId -> Row] /\ \A i \in JobId : Quiet(jobs[i], jobs'[i])
    BY <2>1, <2>2, <2>3, CascadeQuiet
  <2>5. ledger' \in [JobId -> SUBSET TerminalEvent]
    <3>1. "cancelled" \in TerminalEvent
      BY DEF TerminalEvent
    <3>2. ledger \in [JobId -> SUBSET TerminalEvent]
      BY DEF IInv, TypeOK
    <3> QED BY <2>1, <3>1, <3>2, RecordEventsType
  <2> QED BY <1>1, <2>1, <2>4, <2>5, ZenonT(60) DEF IInv, TypeOK, QuietStep
<1> QED BY <1>2, <1>3

\* The second statement of cancel is quiet.
LEMMA CancelRunningStep ==
    ASSUME IInv, NEW j \in JobId, NEW cascade \in BOOLEAN, CancelRunning(j, cascade)
    PROVE  TypeOK' /\ QuietStep
<1>1. /\ cancelling' \subseteq JobId \X BOOLEAN
      /\ UNCHANGED <<edges, gates, group_running, stopped, submits, sweep, candidates, drift>>
  BY DEF IInv, TypeOK, CancelRunning, sweeper
<1>2. CASE jobs[j].state = "running"
  <2> DEFINE flagged == [jobs EXCEPT ![j] = [jobs[j] EXCEPT !.cancel = TRUE]]
             cone == IF cascade THEN Cone(flagged, j) ELSE {}
  <2>1. /\ jobs' = IF cascade THEN cascade_cancel(flagged, j) ELSE flagged
        /\ ledger' = record_events({}, "cancelled", cone)
    BY <1>2 DEF CancelRunning
  <2>2. jobs \in [JobId -> Row]
    BY DEF IInv, TypeOK
  <2>3. flagged \in [JobId -> Row]
    <3>1. \A r \in Row : [r EXCEPT !.cancel = TRUE] \in Row
      BY ZenonT(60) DEF Row
    <3> QED BY <2>2, <3>1
  <2>4. \A i \in JobId : flagged[i].state = jobs[i].state /\ flagged[i].remaining = jobs[i].remaining
    BY <2>2 DEF Row
  <2> HIDE DEF flagged, cone
  <2>5. \A i \in JobId : Quiet(jobs[i], flagged[i])
    BY <2>4 DEF Quiet
  <2>6. jobs' \in [JobId -> Row] /\ \A i \in JobId : Quiet(jobs[i], jobs'[i])
    BY <2>1, <2>3, <2>5, CascadeQuiet
  <2>7. ledger' \in [JobId -> SUBSET TerminalEvent]
    <3>1. "cancelled" \in TerminalEvent
      BY DEF TerminalEvent
    <3>2. ledger \in [JobId -> SUBSET TerminalEvent]
      BY DEF IInv, TypeOK
    <3> QED BY <2>1, <3>1, <3>2, RecordEventsType
  <2> QED BY <1>1, <2>6, <2>7 DEF IInv, TypeOK, QuietStep
<1>3. CASE jobs[j].state # "running"
  <2>1. UNCHANGED <<jobs, ledger>>
    BY <1>3 DEF CancelRunning
  <2> QED BY <1>1, <2>1 DEF IInv, TypeOK, QuietStep, Quiet
<1> QED BY <1>2, <1>3

(***************************************************************************)
(* Steps of the client that insert rows.                                   *)
(***************************************************************************)
\* Inserting queued rows is quiet.
LEMMA InsertQuiet ==
    ASSUME IInv, NEW rows \in Seq(QueuedRow), Fits(jobs, rows)
    PROVE  /\ submit(jobs, rows) \in [JobId -> Row]
           /\ \A i \in JobId : Quiet(jobs[i], submit(jobs, rows)[i])
<1>1. jobs \in [JobId -> Row] /\ QueuedRow \in SUBSET Row
  BY DEF IInv, TypeOK, QueuedRow
<1>2. /\ submit(jobs, rows) \in [JobId -> Row]
      /\ \A i \in JobId : \/ submit(jobs, rows)[i] = jobs[i]
                          \/ jobs[i].state = "absent" /\ submit(jobs, rows)[i] \in QueuedRow
  BY <1>1, SubmitRows
<1> QED BY <1>2 DEF Quiet, QueuedRow

\* A fan-out, which inserts queued children and one gate, is quiet.
LEMMA FanOutStep ==
    ASSUME IInv, NEW gs \in GateSpecs, FanOut(gs)
    PROVE  TypeOK' /\ QuietStep
<1>1. PICK g \in GateId :
        LET rows == [k \in DOMAIN gs.children |->
                        NewRow("queued", [gs.children[k] EXCEPT !.gate = g], FromClient)]
        IN  /\ Fits(jobs, rows)
            /\ submits' = submits + 1
            /\ gates' = [gates EXCEPT ![g] =
                  [NoGate EXCEPT !.policy = gs.policy, !.quorum_n = gs.quorum_n,
                                 !.expected = Len(gs.children),
                                 !.on_complete = gs.on_complete]]
            /\ jobs' = submit(jobs, rows)
            /\ UNCHANGED <<edges, group_running, ledger, stopped, cancelling,
                           sweep, candidates, drift>>
  BY ZenonT(60) DEF FanOut, sweeper
<1> DEFINE rows == [k \in DOMAIN gs.children |->
                        NewRow("queued", [gs.children[k] EXCEPT !.gate = g], FromClient)]
           gate == [NoGate EXCEPT !.policy = gs.policy, !.quorum_n = gs.quorum_n,
                                  !.expected = Len(gs.children),
                                  !.on_complete = gs.on_complete]
<1>2. /\ Fits(jobs, rows) /\ submits' = submits + 1
      /\ gates' = [gates EXCEPT ![g] = gate]
      /\ jobs' = submit(jobs, rows)
      /\ UNCHANGED <<edges, group_running, ledger, stopped, cancelling, sweep, candidates, drift>>
  BY <1>1
<1>3. gs \in GateSpec_t
  BY EngineAssumption
<1>4. gate \in Gate
  <2>1. Len(gs.children) \in Nat /\ gs.on_complete \in Spec_t
    BY <1>3 DEF GateSpec_t
  <2> QED BY <1>3, <2>1, DerivedSpecs, ZenonT(60) DEF GateSpec_t, NoGate, Gate
<1>5. rows \in Seq(QueuedRow)
  <2>1. gs.children \in Seq(Spec_t)
    BY <1>3 DEF GateSpec_t
  <2>2. FromClient \in Origin
    BY DEF FromClient, Origin, OriginKind
  <2>3. \A k \in DOMAIN gs.children : [gs.children[k] EXCEPT !.gate = g] \in Spec_t
    <3>1. \A k \in DOMAIN gs.children : gs.children[k] \in Spec_t
      BY <2>1
    <3> QED BY <3>1, DerivedSpecs, ZenonT(60)
  <2>4. \A k \in DOMAIN gs.children :
            NewRow("queued", [gs.children[k] EXCEPT !.gate = g], FromClient) \in QueuedRow
    BY <2>2, <2>3, QueuedRowType
  <2>5. DOMAIN gs.children = 1..Len(gs.children) /\ Len(gs.children) \in Nat
    BY <2>1
  <2>6. rows \in [1..Len(gs.children) -> QueuedRow]
    BY <2>4, <2>5
  <2> QED BY <2>5, <2>6
<1> HIDE DEF rows, gate
<1>6. jobs' \in [JobId -> Row] /\ \A i \in JobId : Quiet(jobs[i], jobs'[i])
  BY <1>2, <1>5, InsertQuiet
<1>7. gates' \in [GateId -> Gate] /\ submits' \in Nat
  BY <1>2, <1>4 DEF IInv, TypeOK
<1> QED BY <1>2, <1>6, <1>7 DEF IInv, TypeOK, QuietStep

\* A replay, which inserts one queued row, is quiet.
LEMMA ResubmitStep ==
    ASSUME IInv, NEW j \in JobId, Resubmit(j)
    PROVE  TypeOK' /\ QuietStep
<1> DEFINE spec == [jobs[j].spec EXCEPT !.dedup = Null, !.gate = 0]
           row == NewRow("queued", spec, [kind |-> "replay", of |-> j])
<1>1. /\ Fits(jobs, <<row>>) /\ submits' = submits + 1
      /\ jobs' = submit(jobs, <<row>>)
      /\ UNCHANGED <<edges, gates, group_running, ledger, stopped, cancelling,
                     sweep, candidates, drift>>
  BY DEF Resubmit, sweeper
<1>2. spec \in Spec_t
  <2>1. jobs[j].spec \in Spec_t
    BY DEF IInv, TypeOK, Row
  <2> QED BY <2>1, DerivedSpecs, ZenonT(60)
<1>3. [kind |-> "replay", of |-> j] \in Origin
  BY DEF Origin, OriginKind
<1> HIDE DEF spec
<1>4. row \in QueuedRow
  BY <1>2, <1>3, QueuedRowType
<1> HIDE DEF row
<1>5. <<row>> \in Seq(QueuedRow)
  BY <1>4, RowLists
<1>6. jobs' \in [JobId -> Row] /\ \A i \in JobId : Quiet(jobs[i], jobs'[i])
  BY <1>1, <1>5, InsertQuiet, ZenonT(60)
<1> QED BY <1>1, <1>6 DEF IInv, TypeOK, QuietStep

\* A depends_on list names existing jobs, and no more of them than its length.
LEMMA DepListFacts ==
    ASSUME IInv, NEW d \in DepLists
    PROVE  /\ Len(d) \in Nat
           /\ Range(d) \subseteq {u \in JobId : jobs[u].state # "absent"}
           /\ IsFiniteSet(Range(d)) /\ Cardinality(Range(d)) <= Len(d)
           /\ Range(d) # {} => d # <<>>
<1> DEFINE upstreams == {u \in JobId : Live(jobs, u) \/ ("late" \in Env /\ Terminal(jobs, u))}
<1>1. PICK n \in 0..MaxDeps : d \in [1..n -> upstreams]
  BY DEF DepLists
<1>2. n \in Nat
  BY EngineAssumption
<1>3. upstreams \subseteq {u \in JobId : jobs[u].state # "absent"}
  BY DEF Live, Terminal, LIVE_STATES, TERMINAL_STATES
<1> HIDE DEF upstreams
<1>4. d \in Seq(upstreams) /\ Len(d) = n /\ DOMAIN d = 1..n
  BY <1>1, <1>2
<1>5. Range(d) \subseteq upstreams
  BY <1>1 DEF Range
<1>6. d \in Surjection(1..n, Range(d))
  BY <1>1 DEF Surjection, Range
<1>7. Cardinality(Range(d)) <= n
  BY <1>2, <1>6, FS_SurjCardinalityBound DEF ExistsSurjection
<1>8. IsFiniteSet(Range(d))
  <2>1. Range(d) \in SUBSET JobId
    BY <1>3, <1>5
  <2> QED BY <2>1, EngineAssumption, FS_Subset
<1>9. Range(d) # {} => d # <<>>
  BY DEF Range
<1> QED BY <1>2, <1>3, <1>4, <1>5, <1>7, <1>8, <1>9

\* Inserting one row that no dedup key refuses fills one id that had no row.
LEMMA SubmitOne ==
    ASSUME IInv, NEW row \in Row, ~Dup(jobs, <<row>>, 1), Fits(jobs, <<row>>)
    PROVE  LET new == NewIds(jobs, <<row>>)[1]
           IN  /\ new \in JobId /\ jobs[new].state = "absent"
               /\ submit(jobs, <<row>>) = [jobs EXCEPT ![new] = row]
<1> DEFINE rows == <<row>>
           ids == NewIds(jobs, rows)
           new == ids[1]
<1>1. DOMAIN rows = {1} /\ rows[1] = row
  OBVIOUS
<1>2. Inserted(jobs, rows) = {1}
  BY <1>1 DEF Inserted
<1>3. ids \in [Inserted(jobs, rows) -> Absent(jobs)]
  BY DEF NewIds, Fits, ExistsInjection, Injection
<1>4. submit(jobs, rows) = [i \in JobId |-> IF \E k \in DOMAIN ids : ids[k] = i
                         THEN rows[CHOOSE k \in DOMAIN ids : ids[k] = i]
                         ELSE jobs[i]]
  BY DEF submit
<1> HIDE DEF rows, ids
<1>5. DOMAIN ids = {1} /\ new \in Absent(jobs)
  BY <1>2, <1>3
<1>6. new \in JobId /\ jobs[new].state = "absent"
  BY <1>5 DEF Absent
<1>7. submit(jobs, rows) = [i \in JobId |-> IF i = new THEN row ELSE jobs[i]]
  <2>1. \A i \in JobId : (\E k \in DOMAIN ids : ids[k] = i) <=> i = new
    BY <1>5
  <2>2. rows[CHOOSE k \in DOMAIN ids : ids[k] = new] = row
    <3>1. (CHOOSE k \in DOMAIN ids : ids[k] = new) \in DOMAIN ids
      BY <1>5
    <3> QED BY <3>1, <1>1, <1>5
  <2> QED BY <1>4, <2>1, <2>2
<1>8. jobs \in [JobId -> Row]
  BY DEF IInv, TypeOK
<1>9. submit(jobs, rows) = [jobs EXCEPT ![new] = row]
  BY <1>6, <1>7, <1>8, ZenonT(60)
<1> QED BY <1>6, <1>9 DEF rows, ids

\* A submit keeps the invariant: the new job starts with remaining_deps no
\* smaller than its upstreams, and is queued only if it has none.
LEMMA SubmitStep ==
    ASSUME IInv, NEW spec \in Specs, NEW d \in DepLists, NEW deferred \in Flag("defer"),
           Submit(spec, d, deferred)
    PROVE  IInv' /\ LegalStep
<1> DEFINE st == IF d # <<>> \/ deferred THEN "submitted" ELSE "queued"
           row == [NewRow(st, spec, FromClient) EXCEPT !.remaining = Len(d), !.due = ~deferred]
           new == NewIds(jobs, <<row>>)[1]
<1>1. /\ ~Dup(jobs, <<row>>, 1) /\ Fits(jobs, <<row>>)
      /\ submits' = submits + 1
      /\ jobs' = submit(jobs, <<row>>)
      /\ edges' = edges \cup {<<new, u>> : u \in Range(d)}
      /\ UNCHANGED <<gates, group_running, ledger, stopped, cancelling, sweep, candidates, drift>>
  BY DEF Submit, sweeper
<1>2. /\ row \in Row /\ row.remaining = Len(d)
      /\ row.state \in {"submitted", "queued"}
      /\ d # <<>> => row.state = "submitted"
  <2>1. spec \in Spec_t /\ FromClient \in Origin
    BY EngineAssumption DEF FromClient, Origin, OriginKind
  <2>2. st \in {"submitted", "queued"} /\ st \in JobState \cup {"absent"}
    BY DEF JobState, LIVE_STATES
  <2>3. d # <<>> => st = "submitted"
    OBVIOUS
  <2> HIDE DEF st
  <2>4. NewRow(st, spec, FromClient) \in Row /\ NewRow(st, spec, FromClient).state = st
    BY <2>1, <2>2, NewRowType
  <2> DEFINE r == NewRow(st, spec, FromClient)
             n == Len(d)
             late == ~deferred
  <2>5. n \in Int /\ late \in BOOLEAN
    BY DepListFacts
  <2> HIDE DEF r, n, late
  <2>6. \A x \in Row, k \in Int, b \in BOOLEAN :
           /\ [x EXCEPT !.remaining = k, !.due = b] \in Row
           /\ [x EXCEPT !.remaining = k, !.due = b].state = x.state
           /\ [x EXCEPT !.remaining = k, !.due = b].remaining = k
    BY ZenonT(60) DEF Row
  <2>7. /\ [r EXCEPT !.remaining = n, !.due = late] \in Row
        /\ [r EXCEPT !.remaining = n, !.due = late].state = st
        /\ [r EXCEPT !.remaining = n, !.due = late].remaining = n
    BY <2>4, <2>5, <2>6, ZenonT(60) DEF r
  <2> QED BY <2>2, <2>3, <2>7 DEF r, n, late
<1> HIDE DEF row
<1>3. /\ new \in JobId /\ jobs[new].state = "absent"
      /\ jobs' = [jobs EXCEPT ![new] = row]
  BY <1>1, <1>2, SubmitOne
<1> HIDE DEF new
<1>4. jobs \in [JobId -> Row] /\ edges \subseteq JobId \X JobId
  BY DEF IInv, TypeOK
<1>5. jobs'[new] = row /\ \A i \in JobId \ {new} : jobs'[i] = jobs[i]
  BY <1>3, <1>4
<1>6. Range(d) \subseteq JobId \ {new}
  BY <1>3, DepListFacts
<1>7. \A e \in edges : e[1] \in JobId \ {new} /\ e[2] \in JobId \ {new} /\ e = <<e[1], e[2]>>
  BY <1>3, <1>4 DEF IInv, EdgesKnown
<1>8. TypeOK'
  <2>1. edges' \subseteq JobId \X JobId
    <3> SUFFICES ASSUME NEW e \in edges' PROVE e \in JobId \X JobId
      OBVIOUS
    <3>1. CASE e \in edges
      BY <3>1, <1>4
    <3>2. CASE e \notin edges
      <4>1. PICK u \in Range(d) : e = <<new, u>>
        BY <3>2, <1>1
      <4>2. u \in JobId
        BY <1>6
      <4> QED BY <4>1, <4>2, <1>3
    <3> QED BY <3>1, <3>2
  <2>2. jobs' \in [JobId -> Row]
    BY <1>2, <1>3, <1>4
  <2>3. submits' \in Nat
    BY <1>1 DEF IInv, TypeOK
  <2> QED BY <1>1, <2>1, <2>2, <2>3 DEF IInv, TypeOK
<1>9. EdgesKnown'
  <2> SUFFICES ASSUME NEW e \in edges'
               PROVE  jobs'[e[1]].state # "absent" /\ jobs'[e[2]].state # "absent"
    BY DEF EdgesKnown
  <2>1. CASE e \in edges
    BY <2>1, <1>5, <1>7 DEF IInv, EdgesKnown
  <2>2. CASE e \notin edges
    <3>1. PICK u \in Range(d) : e = <<new, u>>
      BY <2>2, <1>1
    <3> QED BY <3>1, <1>2, <1>5, <1>6, DepListFacts
  <2> QED BY <2>1, <2>2
<1>10. DepsCounted'
  <2> SUFFICES ASSUME NEW i \in JobId, jobs'[i].state = "submitted"
               PROVE  jobs'[i].remaining >= Cardinality(Unsatisfied(jobs, i)')
    BY DEF DepsCounted
  <2>1. CASE i = new
    <3>1. Unsatisfied(jobs, i)' \in SUBSET Range(d)
      BY <2>1, <1>1, <1>7 DEF Unsatisfied
    <3>2. Cardinality(Unsatisfied(jobs, i)') <= Cardinality(Range(d))
      BY <3>1, DepListFacts, FS_Subset
    <3>3. IsFiniteSet(Unsatisfied(jobs, i)')
      BY <3>1, DepListFacts, FS_Subset
    <3>4. Cardinality(Unsatisfied(jobs, i)') \in Nat /\ Cardinality(Range(d)) \in Nat
      BY <3>3, DepListFacts, FS_CardinalityType
    <3>5. jobs'[i].remaining = Len(d) /\ Len(d) \in Nat /\ Cardinality(Range(d)) <= Len(d)
      BY <2>1, <1>2, <1>5, DepListFacts
    <3> QED BY <3>2, <3>4, <3>5
  <2>2. CASE i # new
    <3>1. \A u : <<i, u>> \in edges' <=> <<i, u>> \in edges
      BY <2>2, <1>1
    <3>2. \A u : <<i, u>> \in edges => u \in JobId \ {new}
      BY <1>7
    <3>3. Unsatisfied(jobs, i)' = Unsatisfied(jobs, i)
      BY <3>1, <3>2, <1>5 DEF Unsatisfied
    <3> QED BY <2>2, <3>3, <1>5 DEF IInv, DepsCounted
  <2> QED BY <2>1, <2>2
<1>11. DependencySafety'
  <2> SUFFICES ASSUME NEW e \in edges',
                      jobs'[e[1]].state \in {"queued", "running", "waiting", "succeeded", "dead"}
               PROVE  jobs'[e[2]].state = "succeeded"
    BY DEF DependencySafety
  <2>1. CASE e \in edges
    BY <2>1, <1>5, <1>7 DEF IInv, DependencySafety
  <2>2. CASE e \notin edges
    <3>1. PICK u \in Range(d) : e = <<new, u>>
      BY <2>2, <1>1
    <3>2. jobs'[e[1]].state = "submitted"
      BY <3>1, <1>2, <1>5, DepListFacts
    <3> QED BY <3>2
  <2> QED BY <2>1, <2>2
<1>12. LegalStep
  BY <1>2, <1>3, <1>5 DEF LegalStep, can_transition, TRANSITIONS
<1> QED BY <1>8, <1>9, <1>10, <1>11, <1>12 DEF IInv

(***************************************************************************)
(* Complete, the one step that makes a job succeed.                        *)
(***************************************************************************)
\* The rows after a complete: the job succeeded, its live dependents have one
\* dependency less, ids without a row may hold a queued one, and nothing else
\* changed.
LEMMA CompleteRows ==
    ASSUME IInv, NEW j \in JobId, NEW t, NEW skipped \in BOOLEAN, NEW drop \in BOOLEAN,
           Complete(j, t, skipped, drop)
    PROVE  /\ jobs[j].state = "running"
           /\ TypeOK' /\ edges' = edges
           /\ jobs'[j].state = "succeeded"
           /\ \A i \in JobId \ {j} :
                 jobs[i].state = "absent" => jobs'[i].state \in {"absent", "queued"}
           /\ \A i \in JobId \ {j} :
                 jobs[i].state # "absent" =>
                    jobs'[i] = IF Live(jobs, i) /\ <<i, j>> \in edges
                               THEN OneDepLess(jobs[i]) ELSE jobs[i]
<1> DEFINE spec == jobs[j].spec
           moved == archive(jobs, j, "succeeded")
           link == IF HasNext(spec) /\ ~drop
                   THEN <<NewRow("queued", advance(spec), [kind |-> "chain", of |-> j])>>
                   ELSE <<>>
           rows == link \o GateRows(spec, ~skipped, FALSE)
           inserted == submit(moved, rows)
<1>1. /\ jobs[j].state = "running"
      /\ Fits(moved, rows)
      /\ jobs' = decrement_deps(inserted, j)
      /\ group_running' = decrement_group(group_running, spec)
      /\ gates' = SettledGates(spec, ~skipped, FALSE)
      /\ ledger' = record_events({j}, IF skipped THEN "skipped" ELSE "succeeded", {})
      /\ stopped' = IF drop THEN stopped \cup {j} ELSE stopped
      /\ UNCHANGED <<edges, submits, cancelling, sweep, candidates, drift>>
  BY ZenonT(60) DEF Complete, owns, sweeper
<1>2. spec \in Spec_t
  BY DEF IInv, TypeOK, Row
<1>3. /\ moved \in [JobId -> Row] /\ moved[j].state = "succeeded"
      /\ \A i \in JobId \ {j} : moved[i] = jobs[i]
  <2>1. "succeeded" \in JobState
    BY DEF JobState, TERMINAL_STATES
  <2> QED BY <2>1, ArchiveRows
<1>4. link \in Seq(QueuedRow)
  <2>1. [kind |-> "chain", of |-> j] \in Origin
    BY DEF Origin, OriginKind
  <2>2. CASE HasNext(spec) /\ ~drop
    <3>1. advance(spec) \in Spec_t
      BY <1>2, <2>2, DerivedSpecs, ZenonT(60)
    <3>2. NewRow("queued", advance(spec), [kind |-> "chain", of |-> j]) \in QueuedRow
      BY <2>1, <3>1, QueuedRowType
    <3> QED BY <2>2, <3>2, RowLists
  <2>3. CASE ~(HasNext(spec) /\ ~drop)
    BY <2>3, RowLists
  <2> QED BY <2>2, <2>3
<1>5. GateRows(spec, ~skipped, FALSE) \in Seq(QueuedRow) /\ gates' \in [GateId -> Gate]
  <2>1. (~skipped) \in BOOLEAN
    OBVIOUS
  <2> QED BY <1>1, <1>2, <2>1, SettleGate, ZenonT(60)
<1> HIDE DEF link, moved, spec
<1>6. rows \in Seq(QueuedRow)
  BY <1>4, <1>5, RowLists, ZenonT(60)
<1> HIDE DEF rows
<1>7. /\ inserted \in [JobId -> Row]
      /\ \A i \in JobId : \/ inserted[i] = moved[i]
                          \/ moved[i].state = "absent" /\ inserted[i] \in QueuedRow
  <2>1. QueuedRow \in SUBSET Row
    BY DEF QueuedRow
  <2> QED BY <1>1, <1>3, <1>6, <2>1, SubmitRows
<1> HIDE DEF inserted
<1>8. /\ jobs' \in [JobId -> Row]
      /\ \A i \in JobId : jobs'[i] = IF Live(inserted, i) /\ <<i, j>> \in edges
                                     THEN OneDepLess(inserted[i]) ELSE inserted[i]
  BY <1>1, <1>7, DecrementRows
<1>9. jobs'[j].state = "succeeded"
  <2>1. inserted[j] = moved[j]
    BY <1>3, <1>7
  <2> QED BY <1>3, <1>8, <2>1, ZenonT(60) DEF Live, LIVE_STATES
<1>10. ASSUME NEW i \in JobId \ {j}, jobs[i].state = "absent"
       PROVE  jobs'[i].state \in {"absent", "queued"}
  <2>1. <<i, j>> \notin edges
    BY <1>10 DEF IInv, EdgesKnown
  <2> QED BY <1>3, <1>7, <1>8, <1>10, <2>1 DEF QueuedRow
<1>11. ASSUME NEW i \in JobId \ {j}, jobs[i].state # "absent"
       PROVE  jobs'[i] = IF Live(jobs, i) /\ <<i, j>> \in edges
                         THEN OneDepLess(jobs[i]) ELSE jobs[i]
  <2>1. inserted[i] = jobs[i]
    BY <1>3, <1>7, <1>11
  <2> QED BY <1>8, <2>1 DEF Live
<1>12. TypeOK'
  <2>1. group_running' \in [GroupKey -> Nat]
    BY <1>1, DecrementGroupType DEF IInv, TypeOK
  <2>2. ledger' \in [JobId -> SUBSET TerminalEvent]
    <3>1. (IF skipped THEN "skipped" ELSE "succeeded") \in TerminalEvent
      BY DEF TerminalEvent
    <3>2. ledger \in [JobId -> SUBSET TerminalEvent]
      BY DEF IInv, TypeOK
    <3> QED BY <1>1, <3>1, <3>2, RecordEventsType, ZenonT(60)
  <2>3. stopped' \subseteq JobId
    BY <1>1 DEF IInv, TypeOK
  <2> QED BY <1>1, <1>5, <1>8, <2>1, <2>2, <2>3, ZenonT(60) DEF IInv, TypeOK
<1> QED BY <1>1, <1>9, <1>10, <1>11, <1>12

\* A complete keeps the invariant: a dependent's remaining_deps and the set of
\* its unsuccessful upstreams shrink by one together, so a dependent that flips
\* to queued has none left.
LEMMA CompleteStep ==
    ASSUME IInv, NEW j \in JobId, NEW t, NEW skipped \in BOOLEAN, NEW drop \in BOOLEAN,
           Complete(j, t, skipped, drop)
    PROVE  IInv' /\ LegalStep
<1>1. /\ jobs[j].state = "running"
      /\ TypeOK' /\ edges' = edges
      /\ jobs'[j].state = "succeeded"
  BY CompleteRows
<1>2. \A i \in JobId \ {j} : jobs[i].state = "absent" => jobs'[i].state \in {"absent", "queued"}
  BY CompleteRows
<1>3. \A i \in JobId \ {j} :
         jobs[i].state # "absent" =>
            jobs'[i] = IF Live(jobs, i) /\ <<i, j>> \in edges THEN OneDepLess(jobs[i]) ELSE jobs[i]
  BY CompleteRows
<1>4. jobs \in [JobId -> Row] /\ edges \subseteq JobId \X JobId
  BY DEF IInv, TypeOK
<1>5. \A i \in JobId :
         /\ OneDepLess(jobs[i]).remaining = jobs[i].remaining - 1
         /\ OneDepLess(jobs[i]).state = jobs[i].state
            \/ /\ jobs[i].state = "submitted" /\ OneDepLess(jobs[i]).state = "queued"
               /\ jobs[i].remaining - 1 = 0
  BY <1>4 DEF OneDepLess, Row
<1>6. \A i \in JobId \ {j} : jobs[i].state # "absent" =>
         \/ jobs'[i].state = jobs[i].state
         \/ /\ jobs[i].state = "submitted" /\ jobs'[i].state = "queued"
            /\ <<i, j>> \in edges /\ jobs[i].remaining - 1 = 0
  BY <1>3, <1>5
<1>7. \A e \in edges : /\ e[1] \in JobId /\ e[2] \in JobId /\ e = <<e[1], e[2]>>
                       /\ jobs[e[1]].state # "absent" /\ jobs[e[2]].state # "absent"
  BY <1>4 DEF IInv, EdgesKnown
<1>8. \A i \in JobId : jobs[i].state # "absent" =>
         (jobs'[i].state = "succeeded" <=> jobs[i].state = "succeeded" \/ i = j)
  BY <1>1, <1>6, ZenonT(60)
<1>9. \A i \in JobId : Unsatisfied(jobs, i)' = Unsatisfied(jobs, i) \ {j}
  <2> SUFFICES ASSUME NEW i \in JobId
               PROVE  Unsatisfied(jobs, i)' = Unsatisfied(jobs, i) \ {j}
    OBVIOUS
  <2>1. \A u \in JobId : <<i, u>> \in edges => jobs[u].state # "absent"
    BY <1>7
  <2> QED BY <1>1, <1>8, <2>1 DEF Unsatisfied
<1>10. \A i \in JobId : /\ IsFiniteSet(Unsatisfied(jobs, i))
                        /\ Cardinality(Unsatisfied(jobs, i)) \in Nat
  BY EngineAssumption, FS_Subset, FS_CardinalityType, ZenonT(60) DEF Unsatisfied
<1>11. \A i \in JobId :
          Cardinality(Unsatisfied(jobs, i)') =
             IF <<i, j>> \in edges THEN Cardinality(Unsatisfied(jobs, i)) - 1
             ELSE Cardinality(Unsatisfied(jobs, i))
  <2> SUFFICES ASSUME NEW i \in JobId
               PROVE  Cardinality(Unsatisfied(jobs, i) \ {j}) =
                         IF <<i, j>> \in edges THEN Cardinality(Unsatisfied(jobs, i)) - 1
                         ELSE Cardinality(Unsatisfied(jobs, i))
    BY <1>9
  <2>1. j \in Unsatisfied(jobs, i) <=> <<i, j>> \in edges
    BY <1>1 DEF Unsatisfied
  <2> QED BY <1>10, <2>1, FS_RemoveElement, ZenonT(60)
<1>12. EdgesKnown'
  BY <1>1, <1>6, <1>7, ZenonT(60) DEF EdgesKnown
<1>13. DepsCounted'
  <2> SUFFICES ASSUME NEW i \in JobId, jobs'[i].state = "submitted"
               PROVE  jobs'[i].remaining >= Cardinality(Unsatisfied(jobs, i)')
    BY DEF DepsCounted
  <2>1. i # j /\ jobs[i].state = "submitted"
    BY <1>1, <1>2, <1>6, ZenonT(60)
  <2>2. Live(jobs, i)
    BY <2>1 DEF Live, LIVE_STATES
  <2>3. jobs[i].remaining >= Cardinality(Unsatisfied(jobs, i)) /\ jobs[i].remaining \in Int
    BY <2>1 DEF IInv, DepsCounted, TypeOK, Row
  <2>4. jobs'[i].remaining = IF <<i, j>> \in edges THEN jobs[i].remaining - 1
                             ELSE jobs[i].remaining
    BY <2>1, <2>2, <1>3, <1>5
  <2>5. Cardinality(Unsatisfied(jobs, i)) \in Nat
    BY <1>10
  <2>6. CASE <<i, j>> \in edges
    <3>1. Cardinality(Unsatisfied(jobs, i)') = Cardinality(Unsatisfied(jobs, i)) - 1
      BY <2>6, <1>11
    <3>2. jobs'[i].remaining = jobs[i].remaining - 1
      BY <2>6, <2>4
    <3> QED BY <2>3, <2>5, <3>1, <3>2
  <2>7. CASE <<i, j>> \notin edges
    <3>1. Cardinality(Unsatisfied(jobs, i)') = Cardinality(Unsatisfied(jobs, i))
      BY <2>7, <1>11
    <3>2. jobs'[i].remaining = jobs[i].remaining
      BY <2>7, <2>4
    <3> QED BY <2>3, <3>1, <3>2
  <2> QED BY <2>6, <2>7
<1>14. DependencySafety'
  <2> SUFFICES ASSUME NEW e \in edges,
                      jobs'[e[1]].state \in {"queued", "running", "waiting", "succeeded", "dead"}
               PROVE  jobs'[e[2]].state = "succeeded"
    BY <1>1 DEF DependencySafety
  <2> DEFINE i == e[1]
             u == e[2]
  <2>1. i \in JobId /\ u \in JobId /\ <<i, u>> \in edges
        /\ jobs[i].state # "absent" /\ jobs[u].state # "absent"
    BY <1>7
  <2>2. jobs'[i].state \in {"queued", "running", "waiting", "succeeded", "dead"}
    OBVIOUS
  <2> HIDE DEF i, u
  <2>3. CASE jobs[i].state \in {"queued", "running", "waiting", "succeeded", "dead"}
    <3>1. jobs[u].state = "succeeded"
      BY <2>3 DEF IInv, DependencySafety, i, u
    <3> QED BY <2>1, <3>1, <1>8 DEF u
  <2>4. CASE jobs[i].state \notin {"queued", "running", "waiting", "succeeded", "dead"}
    <3>1. i # j
      BY <2>4, <1>1
    <3>2. /\ jobs[i].state = "submitted" /\ <<i, j>> \in edges /\ jobs[i].remaining - 1 = 0
      BY <2>1, <2>2, <2>4, <3>1, <1>6
    <3>3. jobs[i].remaining >= Cardinality(Unsatisfied(jobs, i)) /\ jobs[i].remaining \in Int
      BY <2>1, <3>2 DEF IInv, DepsCounted, TypeOK, Row
    <3>4. Cardinality(Unsatisfied(jobs, i)) \in Nat /\ IsFiniteSet(Unsatisfied(jobs, i))
      BY <2>1, <1>10
    <3>5. IsFiniteSet(Unsatisfied(jobs, i) \ {j})
      BY <3>4, FS_RemoveElement
    <3>6. Cardinality(Unsatisfied(jobs, i) \ {j}) <= 0
      <4>1. Unsatisfied(jobs, i)' = Unsatisfied(jobs, i) \ {j}
        BY <2>1, <1>9
      <4>2. Cardinality(Unsatisfied(jobs, i)') = Cardinality(Unsatisfied(jobs, i)) - 1
        BY <2>1, <3>2, <1>11
      <4> DEFINE c == Cardinality(Unsatisfied(jobs, i))
                 m == jobs[i].remaining
      <4>3. c - 1 <= 0
        <5>1. c \in Nat /\ m \in Int /\ m >= c /\ m - 1 = 0
          BY <3>2, <3>3, <3>4
        <5> HIDE DEF c, m
        <5> QED BY <5>1
      <4> QED BY <4>1, <4>2, <4>3
    <3>7. Unsatisfied(jobs, i) \ {j} = {}
      <4>1. Cardinality(Unsatisfied(jobs, i) \ {j}) \in Nat
        BY <3>5, FS_CardinalityType
      <4>2. Cardinality(Unsatisfied(jobs, i) \ {j}) = 0
        BY <3>6, <4>1
      <4> QED BY <3>5, <4>2, FS_EmptySet
    <3>8. u = j \/ jobs[u].state = "succeeded"
      BY <2>1, <3>7 DEF Unsatisfied
    <3> QED BY <2>1, <3>8, <1>8 DEF u
  <2> QED BY <2>3, <2>4
<1>15. LegalStep
  BY <1>1, <1>2, <1>6, ZenonT(60) DEF LegalStep, can_transition, TRANSITIONS
<1> QED BY <1>1, <1>12, <1>13, <1>14, <1>15 DEF IInv

(***************************************************************************)
(* The theorems.                                                           *)
(***************************************************************************)
\* The empty database satisfies the invariant.
LEMMA InitIInv == Init => IInv
<1> SUFFICES ASSUME Init PROVE IInv
  OBVIOUS
<1>1. NoRow \in Row /\ NoRow.state = "absent"
  <2>1. [kind |-> "none", of |-> 0] \in Origin
    BY DEF Origin, OriginKind
  <2> QED BY <2>1, NewRowType, DerivedSpecs, ZenonT(60) DEF NoRow
<1>2. NoGate \in Gate
  BY DerivedSpecs, ZenonT(60) DEF NoGate, Gate
<1>3. TypeOK
  BY <1>1, <1>2 DEF Init, TypeOK
<1>4. EdgesKnown /\ DependencySafety
  BY DEF Init, EdgesKnown, DependencySafety
<1>5. DepsCounted
  BY <1>1 DEF Init, DepsCounted
<1> QED BY <1>3, <1>4, <1>5 DEF IInv

\* Every transaction keeps the invariant and moves every row legally.
LEMMA NextIInv ==
    ASSUME IInv, Next
    PROVE  IInv' /\ LegalStep
<1>1. CASE ClientStep
  <2>1. CASE \E spec \in Specs, d \in DepLists, deferred \in Flag("defer") : Submit(spec, d, deferred)
    BY <2>1, SubmitStep
  <2>2. CASE \E gs \in GateSpecs : FanOut(gs)
    BY <2>2, FanOutStep, QuietPreserves
  <2>3. CASE \E j \in JobId : Resubmit(j)
    BY <2>3, ResubmitStep, QuietPreserves
  <2>4. CASE \E j \in JobId : Signal(j)
    BY <2>4, SignalStep, QuietPreserves
  <2>5. CASE \E j \in JobId, cascade \in BOOLEAN : CancelImmediate(j, cascade)
    BY <2>5, CancelImmediateStep, QuietPreserves
  <2>6. CASE \E j \in JobId, cascade \in BOOLEAN : CancelRunning(j, cascade)
    BY <2>6, CancelRunningStep, QuietPreserves
  <2> QED BY <1>1, <2>1, <2>2, <2>3, <2>4, <2>5, <2>6 DEF ClientStep
<1>2. CASE \E S \in SUBSET JobId : Claim(S)
  BY <1>2, ClaimStep, QuietPreserves
<1>3. CASE WorkerStep
  <2>1. PICK j \in JobId : \E t \in 1..jobs[j].attempt :
           \/ \E skipped \in Flag("skip"), drop \in Flag("stop") : Complete(j, t, skipped, drop)
           \/ \E retryable \in Flag("retry"), m \in WorkerMax : Fail(j, t, retryable, m)
           \/ Heartbeat(j, t)
           \/ Wait(j, t)
    BY <1>3 DEF WorkerStep
  <2>2. PICK t \in 1..jobs[j].attempt :
           \/ \E skipped \in Flag("skip"), drop \in Flag("stop") : Complete(j, t, skipped, drop)
           \/ \E retryable \in Flag("retry"), m \in WorkerMax : Fail(j, t, retryable, m)
           \/ Heartbeat(j, t)
           \/ Wait(j, t)
    BY <2>1
  <2>3. Flag("skip") \subseteq BOOLEAN /\ Flag("stop") \subseteq BOOLEAN
    BY ZenonT(60) DEF Flag
  <2>4. CASE \E skipped \in Flag("skip"), drop \in Flag("stop") : Complete(j, t, skipped, drop)
    BY <2>3, <2>4, CompleteStep
  <2>5. CASE \E retryable \in Flag("retry"), m \in WorkerMax : Fail(j, t, retryable, m)
    BY <2>5, FailStep, QuietPreserves
  <2>6. CASE Heartbeat(j, t)
    BY <2>6, HeartbeatStep, QuietPreserves
  <2>7. CASE Wait(j, t)
    BY <2>7, WaitStep, QuietPreserves
  <2> QED BY <2>2, <2>4, <2>5, <2>6, <2>7
<1>4. CASE TimeStep
  BY <1>4, TimeStepQuiet, QuietPreserves
<1>5. CASE SweepStep
  <2>1. CASE ListExhausted \/ ReconcileRead \/ ReconcileWrite \/ SweeperLost
    BY <2>1, SweepReadsStep, QuietPreserves
  <2>2. CASE \E c \in candidates : FailExhausted(c[1], c[2])
    BY <2>2, FailExhaustedStep, QuietPreserves
  <2>3. CASE SweepLeases
    BY <2>3, SweepLeasesStep, QuietPreserves
  <2>4. CASE SweepWaits
    BY <2>4, SweepWaitsStep, QuietPreserves
  <2> QED BY <1>5, <2>1, <2>2, <2>3, <2>4 DEF SweepStep
<1> QED BY <1>1, <1>2, <1>3, <1>4, <1>5 DEF Next

\* A step that changes nothing keeps the invariant.
LEMMA StutterIInv ==
    ASSUME IInv, UNCHANGED vars
    PROVE  IInv' /\ LegalStep
<1>1. TypeOK'
  BY DEF IInv, TypeOK, vars
<1>2. QuietStep
  BY DEF QuietStep, Quiet, vars
<1> QED BY <1>1, <1>2, QuietPreserves

\* The invariant holds in every state the engine reaches.
THEOREM Invariance == Spec => []IInv
<1>1. Init => IInv
  BY InitIInv
<1>2. IInv /\ [Next]_vars => IInv'
  BY NextIInv, StutterIInv
<1> QED BY <1>1, <1>2, PTL DEF Spec

\* Every transaction of the engine leaves the tables with rows of the schema's
\* types (no counter below zero, no unknown state, no dangling gate).
THEOREM TypeCorrect == Spec => []TypeOK
<1>1. IInv => TypeOK
  BY DEF IInv
<1> QED BY <1>1, Invariance, PTL

\* For any dependency graph, any batch of claims and any interleaving of
\* completes, deaths, cancels and sweeps: no job leaves submitted towards a
\* worker before every job it depends on has succeeded.
THEOREM DependenciesFirst == Spec => []DependencySafety
<1>1. IInv => DependencySafety
  BY DEF IInv
<1> QED BY <1>1, Invariance, PTL

\* The engine implements the state machine of core/states.py: every step of
\* every transaction is, for every row, a legal transition or none.
THEOREM Refinement == Spec => ImplementsLifecycle
<1>1. Init => Lifecycle!Init
  <2>1. NoRow.state = "absent"
    BY DEF NoRow, NewRow
  <2> QED BY <2>1 DEF Init, Lifecycle!Init
<1>2. IInv /\ [Next]_vars => [Lifecycle!Next]_([j \in JobId |-> jobs[j].state])
  <2> SUFFICES ASSUME IInv, [Next]_vars PROVE Lifecycle!Next
    OBVIOUS
  <2>1. LegalStep
    BY NextIInv, StutterIInv
  <2> QED BY <2>1 DEF LegalStep, Lifecycle!Next, Lifecycle!can_transition, can_transition,
                      Lifecycle!TRANSITIONS, TRANSITIONS
<1> QED BY <1>1, <1>2, Invariance, PTL DEF Spec, ImplementsLifecycle, Lifecycle!Spec

(***************************************************************************)
(* remaining_deps, along job_dependencies.                                 *)
(***************************************************************************)
\* The steps of a worker, one by one.
LEMMA WorkerCases ==
    ASSUME IInv, WorkerStep
    PROVE  \E j \in JobId, t \in Nat :
              \/ \E skipped \in BOOLEAN, drop \in BOOLEAN : Complete(j, t, skipped, drop)
              \/ \E retryable, m : Fail(j, t, retryable, m)
              \/ Heartbeat(j, t)
              \/ Wait(j, t)
<1>1. Flag("skip") \subseteq BOOLEAN /\ Flag("stop") \subseteq BOOLEAN
  BY ZenonT(60) DEF Flag
<1>2. \A j \in JobId : \A t \in 1..jobs[j].attempt : t \in Nat
  BY DEF IInv, TypeOK, Row
<1> QED BY <1>1, <1>2 DEF WorkerStep

\* Every step but Submit and Complete is quiet.
LEMMA NextQuiet ==
    ASSUME IInv, [Next]_vars
    PROVE  \/ QuietStep
           \/ \E spec \in Specs, d \in DepLists, deferred \in Flag("defer") : Submit(spec, d, deferred)
           \/ \E j \in JobId, t \in Nat, skipped \in BOOLEAN, drop \in BOOLEAN :
                 Complete(j, t, skipped, drop)
<1>1. CASE ClientStep
  BY <1>1, FanOutStep, ResubmitStep, SignalStep, CancelImmediateStep, CancelRunningStep DEF ClientStep
<1>2. CASE \E S \in SUBSET JobId : Claim(S)
  BY <1>2, ClaimStep
<1>3. CASE WorkerStep
  <2>1. PICK j \in JobId, t \in Nat :
              \/ \E skipped \in BOOLEAN, drop \in BOOLEAN : Complete(j, t, skipped, drop)
              \/ \E retryable, m : Fail(j, t, retryable, m)
              \/ Heartbeat(j, t)
              \/ Wait(j, t)
    BY <1>3, WorkerCases
  <2> QED BY <2>1, FailStep, HeartbeatStep, WaitStep
<1>4. CASE TimeStep
  BY <1>4, TimeStepQuiet
<1>5. CASE SweepStep
  BY <1>5, SweepReadsStep, FailExhaustedStep, SweepLeasesStep, SweepWaitsStep DEF SweepStep
<1>6. CASE UNCHANGED vars
  BY <1>6 DEF vars, QuietStep, Quiet
<1> QED BY <1>1, <1>2, <1>3, <1>4, <1>5, <1>6 DEF Next

\* A depends_on list without repeats is as long as the set of its upstreams, and
\* without late submits every one of them is live.
LEMMA PlainDepList ==
    ASSUME IInv, "late" \notin Env, NEW d \in DepLists
    PROVE  /\ Range(d) \subseteq {u \in JobId : Live(jobs, u)}
           /\ "repeat" \notin Env => Cardinality(Range(d)) = Len(d)
<1> DEFINE upstreams == {u \in JobId : Live(jobs, u) \/ ("late" \in Env /\ Terminal(jobs, u))}
<1>1. PICK n \in 0..MaxDeps : d \in [1..n -> upstreams]
  BY DEF DepLists
<1>2. n \in Nat /\ Len(d) = n
  BY <1>1, EngineAssumption
<1>3. upstreams \subseteq {u \in JobId : Live(jobs, u)}
  OBVIOUS
<1>4. "repeat" \notin Env => \A k, m \in DOMAIN d : d[k] = d[m] => k = m
  BY DEF DepLists, IsInjective
<1> HIDE DEF upstreams
<1>5. Range(d) \subseteq upstreams
  BY <1>1 DEF Range
<1>6. ASSUME "repeat" \notin Env PROVE Cardinality(Range(d)) = n
  <2>1. d \in [1..n -> Range(d)] /\ \A k, m \in 1..n : d[k] = d[m] => k = m
    BY <1>1, <1>4, <1>6 DEF Range
  <2>2. \A u \in Range(d) : \E k \in 1..n : d[k] = u
    BY <1>1 DEF Range
  <2>3. d \in Bijection(1..n, Range(d))
    BY <2>1, <2>2 DEF Bijection, Injection, Surjection, IsInjective
  <2>4. ExistsBijection(1..n, Range(d))
    BY <2>3 DEF ExistsBijection
  <2>5. IsFiniteSet(Range(d))
    BY DepListFacts
  <2> QED BY <1>2, <2>4, <2>5, FS_CountingElements
<1> QED BY <1>2, <1>3, <1>5, <1>6

\* What a submit inserts: one row, with an edge to each upstream.
LEMMA SubmitRow ==
    ASSUME IInv, NEW spec \in Specs, NEW d \in DepLists, NEW deferred \in Flag("defer"),
           Submit(spec, d, deferred)
    PROVE  \E new \in JobId :
              /\ jobs[new].state = "absent"
              /\ jobs'[new].remaining = Len(d)
              /\ \A i \in JobId \ {new} : jobs'[i] = jobs[i]
              /\ edges' = edges \cup {<<new, u>> : u \in Range(d)}
<1> DEFINE st == IF d # <<>> \/ deferred THEN "submitted" ELSE "queued"
           row == [NewRow(st, spec, FromClient) EXCEPT !.remaining = Len(d), !.due = ~deferred]
           new == NewIds(jobs, <<row>>)[1]
<1>1. /\ ~Dup(jobs, <<row>>, 1) /\ Fits(jobs, <<row>>)
      /\ jobs' = submit(jobs, <<row>>)
      /\ edges' = edges \cup {<<new, u>> : u \in Range(d)}
  BY DEF Submit
<1>2. row \in Row /\ row.remaining = Len(d)
  <2>1. spec \in Spec_t /\ FromClient \in Origin
    BY EngineAssumption DEF FromClient, Origin, OriginKind
  <2>2. st \in JobState \cup {"absent"}
    BY DEF JobState, LIVE_STATES
  <2> DEFINE r == NewRow(st, spec, FromClient)
             n == Len(d)
             late == ~deferred
  <2>3. r \in Row
    BY <2>1, <2>2, NewRowType
  <2>4. n \in Int /\ late \in BOOLEAN
    BY DepListFacts
  <2> HIDE DEF st, r, n, late
  <2>5. \A x \in Row, k \in Int, b \in BOOLEAN :
           /\ [x EXCEPT !.remaining = k, !.due = b] \in Row
           /\ [x EXCEPT !.remaining = k, !.due = b].remaining = k
    BY ZenonT(60) DEF Row
  <2>6. /\ [r EXCEPT !.remaining = n, !.due = late] \in Row
        /\ [r EXCEPT !.remaining = n, !.due = late].remaining = n
    BY <2>3, <2>4, <2>5, ZenonT(60)
  <2> QED BY <2>6 DEF r, n, late
<1> HIDE DEF row
<1>3. new \in JobId /\ jobs[new].state = "absent" /\ jobs' = [jobs EXCEPT ![new] = row]
  BY <1>1, <1>2, SubmitOne
<1> HIDE DEF new
<1>4. jobs \in [JobId -> Row]
  BY DEF IInv, TypeOK
<1> QED BY <1>1, <1>2, <1>3, <1>4, ZenonT(60)

\* A step keeps remaining_deps exact: a complete lowers it and the number of
\* unsuccessful upstreams together.
LEMMA ExactStep ==
    ASSUME IInv, RemainingDepsExact, [Next]_vars, "late" \notin Env, "repeat" \notin Env
    PROVE  RemainingDepsExact'
<1> SUFFICES ASSUME NEW i \in JobId, jobs'[i].state = "submitted"
             PROVE  jobs'[i].remaining = Cardinality(Unsatisfied(jobs, i)')
  BY DEF RemainingDepsExact, Unsatisfied
<1>1. jobs[i].state = "submitted" => jobs[i].remaining = Cardinality(Unsatisfied(jobs, i))
  BY DEF RemainingDepsExact, Unsatisfied
<1>2. CASE QuietStep
  <2>1. \A u \in JobId : (jobs'[u].state = "succeeded") <=> (jobs[u].state = "succeeded")
    BY <1>2 DEF QuietStep, Quiet, LIVE_STATES
  <2>2. Unsatisfied(jobs, i)' = Unsatisfied(jobs, i)
    BY <1>2, <2>1 DEF Unsatisfied, QuietStep
  <2> QED BY <1>1, <1>2, <2>2 DEF QuietStep, Quiet
<1>3. CASE \E spec \in Specs, d \in DepLists, deferred \in Flag("defer") : Submit(spec, d, deferred)
  <2>1. PICK spec \in Specs, d \in DepLists, deferred \in Flag("defer") : Submit(spec, d, deferred)
    BY <1>3
  <2>2. PICK new \in JobId :
              /\ jobs[new].state = "absent"
              /\ jobs'[new].remaining = Len(d)
              /\ \A k \in JobId \ {new} : jobs'[k] = jobs[k]
              /\ edges' = edges \cup {<<new, u>> : u \in Range(d)}
    BY <2>1, SubmitRow
  <2>3. \A e \in edges : e[1] \in JobId \ {new} /\ e[2] \in JobId \ {new} /\ e = <<e[1], e[2]>>
    BY <2>2 DEF IInv, TypeOK, EdgesKnown
  <2>4. CASE i = new
    <3>1. Range(d) \subseteq {u \in JobId : Live(jobs, u)} /\ Cardinality(Range(d)) = Len(d)
      BY PlainDepList
    <3>2. \A u \in Range(d) : jobs'[u].state # "succeeded"
      BY <2>2, <3>1 DEF Live, LIVE_STATES
    <3>3. \A u : <<i, u>> \in edges' <=> u \in Range(d)
      BY <2>2, <2>3, <2>4
    <3>4. Unsatisfied(jobs, i)' = Range(d)
      BY <3>1, <3>2, <3>3 DEF Unsatisfied
    <3> QED BY <2>2, <2>4, <3>1, <3>4
  <2>5. CASE i # new
    <3>1. \A u : <<i, u>> \in edges' <=> <<i, u>> \in edges
      BY <2>2, <2>5
    <3>2. \A u : <<i, u>> \in edges => u \in JobId \ {new}
      BY <2>3
    <3>3. Unsatisfied(jobs, i)' = Unsatisfied(jobs, i)
      BY <2>2, <3>1, <3>2 DEF Unsatisfied
    <3> QED BY <1>1, <2>2, <2>5, <3>3
  <2> QED BY <2>4, <2>5
<1>4. ASSUME NEW j \in JobId, NEW t \in Nat, NEW skipped \in BOOLEAN, NEW drop \in BOOLEAN,
             Complete(j, t, skipped, drop)
      PROVE  jobs'[i].remaining = Cardinality(Unsatisfied(jobs, i)')
  <2>1. /\ jobs[j].state = "running"
        /\ edges' = edges
        /\ jobs'[j].state = "succeeded"
        /\ \A k \in JobId \ {j} :
              jobs[k].state = "absent" => jobs'[k].state \in {"absent", "queued"}
        /\ \A k \in JobId \ {j} :
              jobs[k].state # "absent" =>
                 jobs'[k] = IF Live(jobs, k) /\ <<k, j>> \in edges
                            THEN OneDepLess(jobs[k]) ELSE jobs[k]
    BY <1>4, CompleteRows
  <2>2. \A k \in JobId :
           /\ OneDepLess(jobs[k]).remaining = jobs[k].remaining - 1
           /\ OneDepLess(jobs[k]).state = jobs[k].state
              \/ (jobs[k].state = "submitted" /\ OneDepLess(jobs[k]).state = "queued")
    BY DEF IInv, TypeOK, OneDepLess, Row
  <2>3. \A u \in JobId : jobs[u].state # "absent" =>
           (jobs'[u].state = "succeeded" <=> jobs[u].state = "succeeded" \/ u = j)
    BY <2>1, <2>2, ZenonT(60)
  <2>4. \A u \in JobId : <<i, u>> \in edges => jobs[u].state # "absent"
    BY DEF IInv, EdgesKnown
  <2>5. Unsatisfied(jobs, i)' = Unsatisfied(jobs, i) \ {j}
    BY <2>1, <2>3, <2>4 DEF Unsatisfied
  <2>6. i # j /\ jobs[i].state = "submitted" /\ Live(jobs, i)
    BY <2>1, <2>2, ZenonT(60) DEF Live, LIVE_STATES
  <2>7. IsFiniteSet(Unsatisfied(jobs, i)) /\ Cardinality(Unsatisfied(jobs, i)) \in Nat
    BY EngineAssumption, FS_Subset, FS_CardinalityType, ZenonT(60) DEF Unsatisfied
  <2>8. j \in Unsatisfied(jobs, i) <=> <<i, j>> \in edges
    BY <2>1 DEF Unsatisfied
  <2>9. Cardinality(Unsatisfied(jobs, i) \ {j}) =
           IF <<i, j>> \in edges THEN Cardinality(Unsatisfied(jobs, i)) - 1
           ELSE Cardinality(Unsatisfied(jobs, i))
    BY <2>7, <2>8, FS_RemoveElement, ZenonT(60)
  <2>10. jobs'[i].remaining = IF <<i, j>> \in edges THEN jobs[i].remaining - 1
                              ELSE jobs[i].remaining
    BY <2>1, <2>2, <2>6
  <2> QED BY <1>1, <2>5, <2>6, <2>9, <2>10
<1> QED BY <1>2, <1>3, <1>4, NextQuiet

\* Where a depends_on list names each upstream once and while it is still live,
\* remaining_deps of every submitted job is exactly the number of its upstreams
\* that have not succeeded, so the flip in decrement_deps.sql can always happen.
THEOREM RemainingDepsCount ==
    ASSUME "late" \notin Env, "repeat" \notin Env
    PROVE  Spec => []RemainingDepsExact
<1>1. Init => RemainingDepsExact
  <2>1. Init => \A i \in JobId : jobs[i].state = "absent"
    BY DEF Init, NoRow, NewRow
  <2> QED BY <2>1 DEF RemainingDepsExact
<1>2. IInv /\ RemainingDepsExact /\ [Next]_vars => RemainingDepsExact'
  BY ExactStep
<1> QED BY <1>1, <1>2, Invariance, PTL DEF Spec
=============================================================================
