----------------------- MODULE JobEngineSafetyProofs ------------------------
(***************************************************************************)
(* Theorems of JobEngine that relate several rows: only expiry moves a     *)
(* lost lease, a death leaves no dependent stranded, and the counter of a  *)
(* group is exact and keeps its ceiling.                                   *)
(***************************************************************************)
EXTENDS JobEngineGateProofs

\* What the provers may take for a step that does not say otherwise.
USE SMTT(60), ZenonT(60)

(***************************************************************************)
(* Leases and dependencies.                                                *)
(***************************************************************************)
\* A step that leaves every running row running moves no lost lease; the others
\* are the calls of the holder of the lease, the reclaiming of a lapsed lease and
\* the failing of a listed candidate.
LEMMA LostLeaseStep ==
    ASSUME RInv, [Next]_vars, NEW i \in JobId,
           jobs[i].state = "running", ~jobs[i].alive, jobs'[i].state # "running"
    PROVE  jobs[i].lapsed \/ <<i, jobs[i].token>> \in candidates
<1> USE DEF RInv
<1>0. jobs[i].token = jobs[i].attempt
  BY DEF LeaseTokens
<1>1. CASE ClientStep
  BY <1>1, ClientBirths, ReleaseEffects, CancelEffects DEF ClientStep
<1>2. CASE \E S \in SUBSET JobId : Claim(S)
  BY <1>2, ClaimEffects
<1>3. CASE WorkerStep
  <2>1. PICK j \in JobId, t \in Nat :
              \/ \E skipped \in BOOLEAN, drop \in BOOLEAN : Complete(j, t, skipped, drop)
              \/ \E retryable, m : Fail(j, t, retryable, m)
              \/ Heartbeat(j, t)
              \/ Wait(j, t)
    BY <1>3, WorkerCases
  <2>2. CASE i = j
    BY <1>0, <2>1, <2>2, StillEffects, ZenonT(60) DEF Complete, Fail, Wait, Calls, owns
  <2>3. CASE i # j
    <3>1. CASE \E retryable, m : Fail(j, t, retryable, m)
      BY <2>3, <3>1, FailCases, RetryEffects, DieEffects, ZenonT(60)
    <3>2. CASE \E skipped \in BOOLEAN, drop \in BOOLEAN : Complete(j, t, skipped, drop)
      BY <2>3, <3>2, CompleteEffects, ZenonT(60)
    <3> QED BY <2>1, <2>3, <3>1, <3>2, StillEffects, WaitEffects
  <2> QED BY <2>2, <2>3
<1>4. CASE TimeStep
  BY <1>4, StillEffects
<1>5. CASE SweepStep
  <2>1. CASE \E c \in candidates : FailExhausted(c[1], c[2])
    BY <2>1, FailExhaustedCases, DieEffects, ZenonT(60)
  <2>2. CASE SweepLeases
    BY <2>2, ReclaimEffects DEF reclaimable
  <2> QED BY <1>5, <2>1, <2>2, StillEffects, ReleaseEffects DEF SweepStep
<1>6. CASE UNCHANGED vars
  BY <1>6, StillEffects
<1> QED BY <1>1, <1>2, <1>3, <1>4, <1>5, <1>6 DEF Next

\* While the worker that holds a lease is lost, the job leaves running only when
\* the lease has lapsed or was listed as exhausted: for any jobs and any number of
\* earlier holders, a late complete, fail or wait bounces off the lease_token.
THEOREM LostLeaseWaitsForExpiry == Spec => OnlyExpiryMovesALostLease
<1>1. RInv /\ [Next]_vars =>
          [\A j \in JobId :
              jobs[j].state = "running" /\ ~jobs[j].alive /\ jobs'[j].state # "running"
                  => jobs[j].lapsed \/ <<j, jobs[j].token>> \in candidates]_vars
  BY LostLeaseStep
<1> QED BY <1>1, RowInvariance, PTL DEF Spec, OnlyExpiryMovesALostLease

(***************************************************************************)
(* Along job_dependencies: no stranded dependent.                          *)
(***************************************************************************)
\* No pass of the sweeper starts unless "sweep" is allowed, and only cancel adds
\* to the requests in flight.
LEMMA SweepAndCancel ==
    ASSUME [Next]_vars
    PROVE  /\ "sweep" \notin Env /\ sweep = "idle" => sweep' = "idle"
           /\ \/ cancelling' = cancelling
              \/ \E j \in JobId, cascade \in BOOLEAN :
                    CancelImmediate(j, cascade) \/ CancelRunning(j, cascade)
<1>1. CASE ClientStep
  BY <1>1, ZenonT(60) DEF ClientStep, Submit, FanOut, Resubmit, Signal, CancelImmediate, CancelRunning, sweeper
<1>2. CASE \E S \in SUBSET JobId : Claim(S)
  BY <1>2 DEF Claim, sweeper
<1>3. CASE WorkerStep
  <2>1. \A j, t, skipped, drop : Complete(j, t, skipped, drop) => UNCHANGED <<sweep, cancelling>>
    BY DEF Complete, sweeper
  <2>2. \A j, t, retryable, m : Fail(j, t, retryable, m) => UNCHANGED <<sweep, cancelling>>
    BY DEF Fail, sweeper
  <2>3. \A j, t : Heartbeat(j, t) \/ Wait(j, t) => UNCHANGED <<sweep, cancelling>>
    BY DEF Heartbeat, Wait, sweeper
  <2> QED BY <1>3, <2>1, <2>2, <2>3 DEF WorkerStep
<1>4. CASE TimeStep
  BY <1>4 DEF TimeStep, RunAtArrives, DeadlinePasses, WorkerLost, sweeper
<1>5. CASE SweepStep
  BY <1>5, ZenonT(60) DEF SweepStep, ListExhausted, FailExhausted, SweepLeases, SweepWaits, ReconcileRead,
              ReconcileWrite, SweeperLost
<1>6. CASE UNCHANGED vars
  BY <1>6 DEF vars
<1> QED BY <1>1, <1>2, <1>3, <1>4, <1>5, <1>6 DEF Next

\* Nothing is ever reclaimed as cancelled: without a sweeper no lease is
\* reclaimed, and without cancel no row has cancel_requested.
NoLateCancel ==
    /\ "sweep" \notin Env => sweep = "idle"
    /\ "cancel_tree" \notin Env =>
          cancelling = {} /\ \A i \in JobId : jobs[i].state # "absent" => jobs[i].cancel = FALSE

\* A step in which no job of an edge is newly lost while its dependent lives on.
Spares ==
    \A e \in edges : Live(jobs', e[1]) /\ jobs'[e[2]].state \in {"dead", "cancelled"} =>
                        jobs[e[2]].state \in {"dead", "cancelled"}

\* A step in which nothing dies and nothing is cancelled spares every dependent.
LEMMA NothingLost ==
    ASSUME IInv, \A i \in JobId : jobs[i].state # "absent" /\ jobs'[i].state \in {"dead", "cancelled"}
                                    => jobs[i].state \in {"dead", "cancelled"}
    PROVE  Spares
  BY DEF IInv, TypeOK, EdgesKnown, Spares

\* A loss whose cut is archived with it spares every dependent outside the cut.
LEMMA CutSpares ==
    ASSUME IInv, NEW j \in JobId, NEW C \in SUBSET JobId, Cut(C, j), CutRows(C, j),
           \/ ~Live(jobs', j)
           \/ jobs[j].state = "running" /\ jobs'[j].state = "running"
    PROVE  Spares
<1> SUFFICES ASSUME NEW e \in edges, Live(jobs', e[1]), jobs'[e[2]].state \in {"dead", "cancelled"}
             PROVE  jobs[e[2]].state \in {"dead", "cancelled"}
  BY DEF Spares
<1>1. /\ e[1] \in JobId /\ e[2] \in JobId /\ e = <<e[1], e[2]>>
      /\ jobs[e[1]].state # "absent" /\ jobs[e[2]].state # "absent"
  BY DEF IInv, TypeOK, EdgesKnown
<1>2. \A i \in C : i # j /\ jobs'[i] = Settled(jobs[i], "cancelled")
  BY DEF Cut, CutRows
<1>3. \A i \in C : jobs'[i].state = "cancelled"
  <2>1. \A i \in JobId : jobs[i] \in Row
    BY DEF IInv, TypeOK
  <2>2. "cancelled" \in JobState
    BY DEF JobState, TERMINAL_STATES
  <2> QED BY <1>2, <2>1, <2>2, SettledColumns
<1>4. e[1] \notin C
  BY <1>3 DEF Live, LIVE_STATES
<1>5. CASE e[1] = j
  <2>1. jobs[j].state = "running" /\ jobs'[j].state = "running"
    BY <1>5
  <2>2. jobs[e[2]].state = "succeeded"
    BY <1>5, <2>1 DEF IInv, DependencySafety
  <2>3. e[2] # j /\ e[2] \notin C
    BY <2>1, <2>2 DEF Cut
  <2>4. jobs'[e[2]] = jobs[e[2]]
    BY <1>1, <2>3 DEF CutRows
  <2> QED BY <2>4
<1>6. CASE e[1] # j
  <2>1. jobs'[e[1]] = jobs[e[1]]
    BY <1>1, <1>4, <1>6 DEF CutRows
  <2>2. Live(jobs, e[1])
    BY <2>1 DEF Live
  <2>3. e[2] \notin C \cup {j}
    BY <1>1, <1>4, <1>6, <2>2 DEF Cut
  <2> QED BY <1>1, <2>3 DEF CutRows
<1> QED BY <1>5, <1>6

\* Complete, retry, park, release, claim and the clock lose no job; a death or a
\* cancellation archives what depends on it in the same transaction.
LEMMA NextSpares ==
    ASSUME IInv, NoLateCancel, [Next]_vars, "cancel" \notin Env,
           "sweep" \notin Env \/ "cancel_tree" \notin Env
    PROVE  Spares /\ NoLateCancel'
<1>1. Effects
  BY NextEffects
<1>2. \A i \in JobId : jobs[i].state = "absent" =>
         jobs'[i].state = "absent" \/ jobs'[i].cancel = FALSE
  BY <1>1, ZenonT(60) DEF Effects, Effect, Fresh
<1> DEFINE Kept == "cancel_tree" \in Env
                   \/ \A i \in JobId : jobs[i].state # "absent" => jobs'[i].cancel = jobs[i].cancel
<1>3. \A j \in JobId, cascade \in BOOLEAN :
         CancelImmediate(j, cascade) \/ CancelRunning(j, cascade) => "cancel_tree" \in Env
  BY DEF CancelImmediate, CancelRunning, NoLateCancel
<1>4. ASSUME NEW j \in JobId, NEW cascade \in BOOLEAN,
             CancelImmediate(j, cascade) \/ CancelRunning(j, cascade)
      PROVE  Spares /\ Kept
  <2>1. Kept /\ (CancelImmediate(j, cascade) => cascade)
    BY <1>3, <1>4 DEF CancelImmediate
  <2>2. PICK C \in SUBSET JobId :
           /\ CutRows(C, j)
           /\ \/ jobs' = jobs
              \/ jobs[j].state = "running" /\ jobs'[j].state = "running"
              \/ jobs'[j].state = "cancelled"
           /\ \A i \in JobId : jobs'[i].state = "running" <=> jobs[i].state = "running"
           /\ \/ Cut(C, j)
              \/ C = {} /\ (jobs' = jobs \/ ~cascade)
    BY <1>4, CancelEffects
  <2>3. CASE jobs' = jobs
    BY <2>1, <2>3, NothingLost
  <2>4. CASE Cut(C, j) /\ jobs' # jobs
    BY <2>1, <2>2, <2>4, CutSpares DEF Live, LIVE_STATES
  <2>5. CASE C = {} /\ ~cascade /\ jobs' # jobs
    <3>1. CancelRunning(j, cascade) /\ jobs[j].state = "running" /\ jobs'[j].state = "running"
      BY <1>4, <2>1, <2>2, <2>5 DEF CancelRunning
    <3>2. \A i \in JobId : jobs[i].state # "absent" => jobs'[i].state = jobs[i].state
      BY <2>2, <2>5, <3>1 DEF CutRows
    <3> QED BY <2>1, <3>2, NothingLost
  <2> QED BY <2>1, <2>2, <2>3, <2>4, <2>5
<1>5. ASSUME NEW j \in JobId, Die(j), jobs[j].state = "running"
      PROVE  Spares /\ Kept
  <2>1. PICK C \in SUBSET JobId :
           /\ Cut(C, j) /\ CutRows(C, j) /\ jobs'[j] = Settled(jobs[j], "dead")
           /\ \A i \in JobId : jobs[i].state # "absent" => jobs'[i].cancel = jobs[i].cancel
    BY <1>5, DieEffects, ZenonT(60)
  <2>2. jobs'[j].state = "dead"
    <3>1. jobs[j] \in Row /\ "dead" \in JobState
      BY DEF IInv, TypeOK, JobState, TERMINAL_STATES
    <3> QED BY <2>1, <3>1, SettledColumns
  <2>3. Spares
    BY <2>1, <2>2, CutSpares DEF Live, LIVE_STATES
  <2> QED BY <2>1, <2>3
<1>6. ASSUME \A i \in JobId : jobs[i].state # "absent" =>
                /\ jobs'[i].state \in {"dead", "cancelled"} => jobs[i].state \in {"dead", "cancelled"}
                /\ jobs'[i].cancel = jobs[i].cancel
      PROVE  Spares /\ Kept
  BY <1>6, NothingLost
<1>7. Spares /\ Kept => Spares /\ NoLateCancel'
  <2> SUFFICES ASSUME Kept PROVE NoLateCancel'
    OBVIOUS
  <2>1. "sweep" \notin Env => sweep' = "idle"
    BY SweepAndCancel DEF NoLateCancel
  <2>2. "cancel_tree" \notin Env => cancelling' = {}
    BY <1>3, SweepAndCancel DEF NoLateCancel
  <2>3. ASSUME "cancel_tree" \notin Env, NEW i \in JobId, jobs'[i].state # "absent"
        PROVE  jobs'[i].cancel = FALSE
    BY <1>2, <2>3 DEF NoLateCancel
  <2> QED BY <2>1, <2>2, <2>3, ZenonT(60) DEF NoLateCancel
<1> SUFFICES Spares /\ Kept
  BY <1>7
<1> HIDE DEF Kept
<1>8. CASE ClientStep
  <2>1. CASE \E j \in JobId : Signal(j)
    BY <1>6, <2>1, ReleaseEffects
  <2> QED BY <1>4, <1>6, <1>8, <2>1, ClientBirths DEF ClientStep
<1>9. CASE \E S \in SUBSET JobId : Claim(S)
  BY <1>6, <1>9, ClaimEffects
<1>10. CASE WorkerStep
  <2>1. PICK j \in JobId, t \in Nat :
              \/ \E skipped \in BOOLEAN, drop \in BOOLEAN : Complete(j, t, skipped, drop)
              \/ \E retryable, m : Fail(j, t, retryable, m)
              \/ Heartbeat(j, t)
              \/ Wait(j, t)
    BY <1>10, WorkerCases
  <2>2. CASE \E skipped \in BOOLEAN, drop \in BOOLEAN : Complete(j, t, skipped, drop)
    <3>1. \A i \in JobId : jobs[i].state # "absent" => jobs'[i].cancel = jobs[i].cancel
      BY <2>2, CompleteEffects, ZenonT(60)
    <3>2. /\ jobs'[j].state = "succeeded"
          /\ \A i \in JobId \ {j} : jobs[i].state # "absent" =>
                jobs'[i] = jobs[i] \/ jobs'[i] = OneDepLess(jobs[i])
      BY <2>2, CompleteRows, ZenonT(60)
    <3>3. \A i \in JobId : OneDepLess(jobs[i]).state \in {jobs[i].state, "queued"}
      BY OneDepLessState DEF IInv, TypeOK
    <3> QED BY <1>6, <3>1, <3>2, <3>3
  <2>3. CASE \E retryable, m : Fail(j, t, retryable, m)
    BY <1>5, <1>6, <2>3, FailCases, RetryEffects
  <2> QED BY <1>6, <2>1, <2>2, <2>3, StillEffects, WaitEffects
<1>11. CASE TimeStep
  BY <1>6, <1>11, StillEffects
<1>12. CASE SweepStep
  <2>1. CASE \E c \in candidates : FailExhausted(c[1], c[2])
    <3>1. CASE jobs' = jobs
      BY <1>6, <3>1
    <3> QED BY <1>5, <2>1, <3>1, FailExhaustedCases, ZenonT(60)
  <2>2. CASE SweepLeases
    <3>1. "cancel_tree" \notin Env
      BY <2>2 DEF SweepLeases, NoLateCancel
    <3>2. \A i \in JobId : reclaimable(jobs, i) => jobs[i].cancel = FALSE
      BY <3>1 DEF NoLateCancel, reclaimable
    <3> QED BY <1>6, <2>2, <3>2, ReclaimEffects
  <2>3. CASE SweepWaits
    BY <1>6, <2>3, ReleaseEffects
  <2> QED BY <1>6, <1>12, <2>1, <2>2, <2>3, StillEffects DEF SweepStep
<1>13. CASE UNCHANGED vars
  BY <1>6, <1>13, StillEffects
<1> QED BY <1>8, <1>9, <1>10, <1>11, <1>12, <1>13 DEF Next


\* A step keeps every live dependent attached to upstreams that can still succeed.
LEMMA StrandedStep ==
    ASSUME IInv, NoStrandedDependent, NoLateCancel, [Next]_vars,
           "late" \notin Env, "cancel" \notin Env, "sweep" \notin Env \/ "cancel_tree" \notin Env
    PROVE  NoStrandedDependent' /\ NoLateCancel'
<1>1. Spares /\ NoLateCancel' /\ Effects
  BY NextSpares, NextEffects
<1>2. \A e \in edges : Live(jobs', e[1]) => jobs'[e[2]].state \notin {"dead", "cancelled"}
  <2> SUFFICES ASSUME NEW e \in edges, Live(jobs', e[1]), jobs'[e[2]].state \in {"dead", "cancelled"}
               PROVE  FALSE
    OBVIOUS
  <2>1. e[1] \in JobId /\ jobs[e[1]].state # "absent" /\ jobs[e[2]].state \in {"dead", "cancelled"}
    BY <1>1 DEF IInv, TypeOK, EdgesKnown, Spares
  <2>2. Effect(jobs[e[1]], jobs'[e[1]], ledger[e[1]], ledger'[e[1]])
    BY <1>1, <2>1 DEF Effects
  <2>3. Live(jobs, e[1])
    BY <2>1, <2>2 DEF Effect, LiveMoves, Live, LIVE_STATES
  <2> QED BY <2>1, <2>3 DEF NoStrandedDependent
<1>3. CASE edges' = edges
  BY <1>1, <1>2, <1>3 DEF NoStrandedDependent, Live
<1>4. CASE \E spec \in Specs, d \in DepLists, deferred \in Flag("defer") : Submit(spec, d, deferred)
  <2>1. PICK spec \in Specs, d \in DepLists, deferred \in Flag("defer") : Submit(spec, d, deferred)
    BY <1>4
  <2>2. PICK new \in JobId :
              /\ jobs[new].state = "absent"
              /\ \A k \in JobId \ {new} : jobs'[k] = jobs[k]
              /\ edges' = edges \cup {<<new, u>> : u \in Range(d)}
    BY <2>1, SubmitRow
  <2>3. \A u \in Range(d) : u \in JobId /\ Live(jobs, u)
    BY PlainDepList
  <2>4. \A u \in Range(d) : jobs'[u].state \notin {"dead", "cancelled"}
    BY <2>2, <2>3 DEF Live, LIVE_STATES
  <2>5. \A e \in edges' \ edges : jobs'[e[2]].state \notin {"dead", "cancelled"}
    BY <2>2, <2>4
  <2> QED BY <1>1, <1>2, <2>5 DEF NoStrandedDependent, Live
<1>5. edges' = edges \/ \E spec \in Specs, d \in DepLists, deferred \in Flag("defer") :
                           Submit(spec, d, deferred)
  BY NextQuiet, CompleteRows DEF QuietStep
<1> QED BY <1>3, <1>4, <1>5

\* However long the chains of job_dependencies are, after any death or
\* cancellation no live job depends on a dead or cancelled one: cascade_cancel
\* archives the whole cone in the transaction of its root.  A submit after the
\* upstream was settled ("late"), a cancel without cascade, and a cancellation
\* that only the sweeper carries out are the cases the code does not cover.
THEOREM NoDependentStranded ==
    ASSUME "late" \notin Env, "cancel" \notin Env, "sweep" \notin Env \/ "cancel_tree" \notin Env
    PROVE  Spec => []NoStrandedDependent
<1>1. Init => NoStrandedDependent /\ NoLateCancel
  <2>1. Init => edges = {} /\ cancelling = {} /\ sweep = "idle"
                  /\ \A i \in JobId : jobs[i].state = "absent" /\ jobs[i].cancel = FALSE
    BY DEF Init, NoRow, NewRow
  <2> QED BY <2>1 DEF NoStrandedDependent, NoLateCancel
<1>2. IInv /\ NoStrandedDependent /\ NoLateCancel /\ [Next]_vars => NoStrandedDependent' /\ NoLateCancel'
  BY StrandedStep
<1> QED BY <1>1, <1>2, Invariance, PTL DEF Spec

-----------------------------------------------------------------------------
(***************************************************************************)
(* Group counters.                                                         *)
(***************************************************************************)
\* The specs a client can hand in.
ClientSpecs ==
    Specs \cup {gs.on_complete : gs \in GateSpecs}
          \cup UNION {{gs.children[k] : k \in DOMAIN gs.children} : gs \in GateSpecs}

\* A group key and a cap that some client asked for together, or no group.
Priced(s) == s.group = Null \/ \E c \in ClientSpecs : c.group = s.group /\ c.cap = s.cap

\* Continuations, replays, children and on_complete jobs inherit both, and hooks
\* neither: the engine makes up no cap.
PInv == RInv /\ (\A j \in JobId : Priced(jobs[j].spec)) /\ (\A g \in GateId : Priced(gates[g].on_complete))

\* The specs the engine derives from a job's.
LEMMA DerivedPriced ==
    ASSUME NEW s \in Spec_t, Priced(s)
    PROVE  /\ Priced(advance(s)) /\ Priced(HookSpec(s)) /\ Priced(NoSpec)
           /\ \A g : Priced([s EXCEPT !.gate = g])
           /\ Priced([s EXCEPT !.dedup = Null, !.gate = 0])
<1>1. advance(s).group = s.group /\ advance(s).cap = s.cap
  BY DEF Spec_t, advance
<1>2. HookSpec(s).group = Null /\ NoSpec.group = Null
  BY DEF HookSpec, NoSpec
<1>3. \A g : [s EXCEPT !.gate = g].group = s.group /\ [s EXCEPT !.gate = g].cap = s.cap
  BY DEF Spec_t
<1>4. /\ [s EXCEPT !.dedup = Null, !.gate = 0].group = s.group
      /\ [s EXCEPT !.dedup = Null, !.gate = 0].cap = s.cap
  BY DEF Spec_t
<1> QED BY <1>1, <1>2, <1>3, <1>4 DEF Priced

\* Rows that are priced may be inserted.
LEMMA BornPriced ==
    ASSUME PInv, RInv', Effects, NEW T, NEW rows, Absent(T) = Absent(jobs), Fills(T, jobs', rows),
           \A k \in DOMAIN rows : Priced(rows[k].spec)
    PROVE  \A j \in JobId : Priced(jobs'[j].spec)
<1> SUFFICES ASSUME NEW j \in JobId PROVE Priced(jobs'[j].spec)
  OBVIOUS
<1>1. CASE jobs[j].state # "absent"
  <2>1. jobs'[j].spec = jobs[j].spec
    BY <1>1, SettledStays DEF PInv
  <2> QED BY <2>1 DEF PInv
<1>2. CASE jobs[j].state = "absent"
  <2>1. jobs'[j] = NoRow \/ \E k \in DOMAIN rows : jobs'[j] = rows[k]
    BY <1>2, Newborns
  <2>2. Priced(NoRow.spec)
    BY DEF NoRow, NewRow, NoSpec, Priced
  <2> QED BY <2>1, <2>2
<1> QED BY <1>1, <1>2

\* Clients insert priced rows, and gates with a priced on_complete.
LEMMA ClientPInv ==
    ASSUME PInv, RInv', Effects, NEW rows, Inserts(rows)
    PROVE  PInv'
<1>1. Fills(jobs, jobs', rows) /\ \A j \in JobId : jobs[j].spec \in Spec_t /\ Priced(jobs[j].spec)
  BY ZenonT(60) DEF PInv, RInv, IInv, TypeOK, Row, Inserts
<1>2. \A c \in ClientSpecs : Priced(c)
  BY DEF Priced
<1>3. CASE ~FansOut(rows)
  <2>1. PICK s : /\ rows = <<rows[1]>> /\ rows[1].spec = s
                 /\ \/ s \in Specs
                    \/ \E j \in JobId : s = [jobs[j].spec EXCEPT !.dedup = Null, !.gate = 0]
    BY <1>3, ZenonT(60) DEF Inserts
  <2>2. Priced(s)
    BY <1>1, <1>2, <2>1, DerivedPriced, ZenonT(60) DEF ClientSpecs
  <2>3. \A k \in DOMAIN rows : Priced(rows[k].spec)
    <3> DEFINE r == rows[1]
    <3>1. rows = <<r>> /\ Priced(r.spec)
      BY <2>1, <2>2, ZenonT(60)
    <3> HIDE DEF r
    <3> QED BY <3>1
  <2>4. gates' = gates
    BY <1>3, ZenonT(60) DEF Inserts
  <2> QED BY <1>1, <2>3, <2>4, BornPriced DEF PInv
<1>4. CASE FansOut(rows)
  <2>1. PICK g \in GateId, gs \in GateSpecs :
        /\ gates' = [gates EXCEPT ![g] =
                        [NoGate EXCEPT !.policy = gs.policy, !.quorum_n = gs.quorum_n,
                                       !.expected = Len(gs.children),
                                       !.on_complete = gs.on_complete]]
        /\ DOMAIN rows = 1..Len(gs.children)
        /\ \A k \in DOMAIN rows : rows[k].spec = [gs.children[k] EXCEPT !.gate = g]
    BY <1>4, ZenonT(60) DEF FansOut
  <2>2. gs.children \in Seq(Spec_t)
    BY EngineAssumption DEF GateSpec_t
  <2>3. \A k \in DOMAIN rows : gs.children[k] \in Spec_t /\ gs.children[k] \in ClientSpecs
    BY <2>1, <2>2 DEF ClientSpecs
  <2>4. ASSUME NEW k \in DOMAIN rows PROVE Priced(rows[k].spec)
    <3> DEFINE s == gs.children[k]
    <3>1. s \in Spec_t /\ Priced(s) /\ rows[k].spec = [s EXCEPT !.gate = g]
      BY <1>2, <2>1, <2>3
    <3> HIDE DEF s
    <3>2. Priced([s EXCEPT !.gate = g])
      BY <3>1, DerivedPriced, ZenonT(60)
    <3> QED BY <3>1, <3>2
  <2>5. gates \in [GateId -> Gate]
    BY DEF PInv, RInv, IInv, TypeOK
  <2>6. gs.on_complete \in ClientSpecs
    BY DEF ClientSpecs
  <2>7. \A h \in GateId : Priced(gates'[h].on_complete)
    <3> SUFFICES ASSUME NEW h \in GateId PROVE Priced(gates'[h].on_complete)
      OBVIOUS
    <3> DEFINE n == Len(gs.children)
               row == [NoGate EXCEPT !.policy = gs.policy, !.quorum_n = gs.quorum_n,
                                     !.expected = n, !.on_complete = gs.on_complete]
    <3>1. gates'[h] = IF h = g THEN row ELSE gates[h]
      BY <2>1, <2>5
    <3> HIDE DEF n
    <3>2. row.on_complete = gs.on_complete
      BY DEF NoGate
    <3> HIDE DEF row
    <3> QED BY <1>2, <2>6, <3>1, <3>2 DEF PInv
  <2> QED BY <1>1, <2>4, <2>7, BornPriced DEF PInv
<1> QED BY <1>3, <1>4

\* A settling job inserts priced rows.
LEMMA SettledPInv ==
    ASSUME PInv, RInv', NEW j \in JobId, NEW ev, GateSettled(j, ev)
    PROVE  PInv'
<1> DEFINE g == jobs[j].spec.gate
           from == [kind |-> "gate", of |-> g]
<1>1. PICK T, list, own, gate, p :
              /\ Absent(T) = Absent(jobs) /\ Fills(T, jobs', list)
              /\ SettleList(j, list, own, gate, p)
  BY DEF GateSettled
<1>2. /\ Effects /\ jobs[j].spec \in Spec_t /\ g \in GateId \cup {0} /\ Priced(jobs[j].spec)
      /\ \A h \in GateId : gates[h] \in Gate /\ Priced(gates[h].on_complete)
  BY ZenonT(60) DEF PInv, RInv, IInv, TypeOK, Row, Spec_t, GateSettled
<1>3. \A h \in GateId : gates'[h].on_complete = gates[h].on_complete
  BY ZenonT(60) DEF GateSettled, Bumps
<1>4. \A h \in GateId : Priced(gates'[h].on_complete)
  BY <1>2, <1>3
<1>5. Priced(p.spec)
  BY <1>1, <1>2, DerivedPriced, ZenonT(60) DEF SettleList
<1>6. gate = <<>> \/ \E r : gate = <<r>> /\ Priced(r.spec)
  <2>1. CASE g = 0
    BY <1>1, <2>1 DEF SettleList
  <2>2. CASE g \in GateId
    <3> DEFINE next == gates'[g].on_complete
    <3>1. Priced(next) /\ Priced(HookSpec(next))
      BY <1>4, <2>2 DEF HookSpec, NoSpec, Priced
    <3>2. gate = <<>> \/ gate = <<NewRow("queued", next, from)>> \/ gate = <<NewRow("queued", HookSpec(next), from)>>
      BY <1>1, <2>2, EngineAssumption, ZenonT(60) DEF GateBorn, SettleList
    <3>3. \A s : NewRow("queued", s, from).spec = s
      BY DEF NewRow
    <3> HIDE DEF next, from
    <3> QED BY <3>1, <3>2, <3>3
  <2> QED BY <1>2, <2>1, <2>2
<1>7. \A k \in DOMAIN list : Priced(list[k].spec)
  <2>1. PICK r : gate = <<>> \/ (gate = <<r>> /\ Priced(r.spec))
    BY <1>6, ZenonT(60)
  <2>2. own \in {<<>>, <<p>>} /\ list \in {own \o gate, gate \o own}
    BY <1>1, ZenonT(60) DEF SettleList
  <2>3. list \in {<<>>, <<p>>, <<r>>, <<p, r>>, <<r, p>>}
        /\ (Priced(r.spec) \/ list \in {<<>>, <<p>>})
    <3>1. CASE gate = <<>>
      <4>1. list \in {<<>>, <<p>>}
        BY <2>2, <3>1, ShortLists
      <4> QED BY <4>1
    <3>2. CASE gate = <<r>> /\ Priced(r.spec)
      <4>1. list \in {<<r>>, <<p, r>>, <<r, p>>}
        BY <2>2, <3>2, ShortLists, ZenonT(60)
      <4> QED BY <3>2, <4>1
    <3> QED BY <2>1, <3>1, <3>2
  <2>4. \A k \in DOMAIN list : list[k] = p \/ (list[k] = r /\ Priced(r.spec))
    BY <2>3
  <2> QED BY <1>5, <2>4
<1> QED BY <1>1, <1>2, <1>4, <1>7, BornPriced DEF PInv

\* Initially there is nothing to price.
LEMMA InitPInv == Init => PInv
<1> SUFFICES ASSUME Init PROVE PInv
  OBVIOUS
<1>1. RInv
  BY InitRInv
<1>2. NoRow.spec.group = Null /\ NoGate.on_complete.group = Null
  BY DEF NoRow, NewRow, NoGate, NoSpec
<1> QED BY <1>1, <1>2 DEF Init, PInv, Priced

\* No step makes up a cap.
LEMMA NextPInv ==
    ASSUME PInv, [Next]_vars
    PROVE  PInv' /\ Effects
<1>1. RInv' /\ Effects /\ RInv
  BY NextRInv DEF PInv
<1>2. Calm \/ (\E rows : Inserts(rows)) \/ Completes \/ Dies
  BY <1>1, NextKinds DEF RInv
<1>3. CASE Calm
  <2>1. \A i \in JobId : jobs'[i].spec = jobs[i].spec
    BY <1>1, <1>3, SettledStays DEF Calm
  <2>2. gates' = gates
    BY <1>3 DEF Calm
  <2> QED BY <1>1, <2>1, <2>2 DEF PInv
<1>4. CASE \E rows : Inserts(rows)
  BY <1>1, <1>4, ClientPInv
<1>5. CASE Completes
  BY <1>1, <1>5, CompleteSettles, SettledPInv DEF Completes
<1>6. CASE Dies
  BY <1>1, <1>6, DieSettles, SettledPInv DEF Dies
<1> QED BY <1>1, <1>2, <1>3, <1>4, <1>5, <1>6

\* Every client that names a group also caps it.
GroupsCapped == \A c \in ClientSpecs : c.group # Null => c.cap > 0

\* Clients that name the same group agree on its cap.
OneCapPerGroup == \A a, b \in ClientSpecs : a.group # Null /\ a.group = b.group => a.cap = b.cap

IsRunning(i) == jobs[i].state = "running"

\* No row enters or leaves running, and no counter moves.
Steady ==
    /\ \A i \in JobId : IsRunning(i)' <=> IsRunning(i)
    /\ \A k \in GroupKey : group_running'[k] = group_running[k]

\* The rows of S leave running, and give back what a claim took for them.
Frees(S) ==
    /\ \A i \in S : IsRunning(i)
    /\ \A i \in JobId : IsRunning(i)' <=> IsRunning(i) /\ i \notin S
    /\ \A k \in GroupKey :
          group_running'[k] = Floor0(group_running[k] - Cardinality(Capped(jobs, S, k)))

\* NInv needs drift empty: with an exact counter reconcile_groups.sql has nothing
\* to write, so no stale recount can undo a later claim.
NInv == PInv /\ drift = {} /\ CounterExact

\* decrement_group.sql gives back one slot of the key of a capped job, and none
\* of any other key.
LEMMA OneFreed ==
    ASSUME NEW G \in [GroupKey -> Nat], NEW j \in JobId,
           jobs[j].spec.group # Null => jobs[j].spec.cap > 0, NEW k \in GroupKey
    PROVE  decrement_group(G, jobs[j].spec)[k] = Floor0(G[k] - Cardinality(Capped(jobs, {j}, k)))
<1> DEFINE s == jobs[j].spec
           key == CounterKey(s)
<1>1. Cardinality({}) = 0 /\ Cardinality({j}) = 1
  BY FS_EmptySet, FS_Singleton, ZenonT(60)
<1>2. G[k] \in Nat /\ Floor0(G[k] - 0) = G[k]
  BY DEF Floor0
<1>3. CASE s.group # Null /\ key = k
  <2>1. Capped(jobs, {j}, k) = {j}
    BY <1>3 DEF Capped
  <2>2. decrement_group(G, s)[k] = Floor0(G[k] - 1)
    BY <1>3 DEF decrement_group
  <2> QED BY <1>1, <2>1, <2>2, ZenonT(60)
<1>4. CASE ~(s.group # Null /\ key = k)
  <2>1. Capped(jobs, {j}, k) = {}
    BY <1>4 DEF Capped
  <2>2. decrement_group(G, s)[k] = G[k]
    BY <1>4 DEF decrement_group
  <2> QED BY <1>1, <1>2, <2>1, <2>2
<1> QED BY <1>3, <1>4

\* A job that leaves running alone, by complete, retry or death.
LEMMA FreesOne ==
    ASSUME GroupsCapped, PInv, NEW j \in JobId, IsRunning(j), jobs'[j].state # "running",
           \A i \in JobId \ {j} : jobs'[i].state = "running" <=> jobs[i].state = "running",
           group_running' = decrement_group(group_running, jobs[j].spec)
    PROVE  Frees({j})
<1>1. group_running \in [GroupKey -> Nat]
  BY DEF PInv, RInv, IInv, TypeOK
<1>2. jobs[j].spec.group # Null => jobs[j].spec.cap > 0
  BY DEF PInv, Priced, GroupsCapped
<1>3. \A k \in GroupKey :
        group_running'[k] = Floor0(group_running[k] - Cardinality(Capped(jobs, {j}, k)))
  BY <1>1, <1>2, OneFreed, ZenonT(60)
<1>4. \A i \in JobId : IsRunning(i)' <=> IsRunning(i) /\ i \notin {j}
  BY DEF IsRunning
<1> QED BY <1>3, <1>4 DEF Frees

\* A client inserts rows, flags them or cancels them, and moves no running row.
LEMMA ClientSteady ==
    ASSUME PInv, ClientStep
    PROVE  Steady /\ drift' = drift
<1>1. IInv /\ RInv
  BY DEF PInv, RInv
<1>2. group_running' = group_running /\ drift' = drift
  BY ZenonT(60) DEF ClientStep, Submit, FanOut, Resubmit, Signal, CancelImmediate, CancelRunning, sweeper
<1>3. \A i \in JobId : jobs'[i].state = "running" <=> jobs[i].state = "running"
  <2>1. CASE \/ \E spec \in Specs, d \in DepLists, deferred \in Flag("defer") :
                   Submit(spec, d, deferred)
             \/ \E gs \in GateSpecs : FanOut(gs)
             \/ \E j \in JobId : Resubmit(j)
    <3>1. Effects /\ \A i \in JobId : jobs[i].state # "absent" => jobs'[i] = jobs[i]
      BY <1>1, <2>1, ClientBirths
    <3> QED BY <3>1, ZenonT(60) DEF Effects, Effect, Fresh
  <2>2. CASE \E j \in JobId : Signal(j)
    BY <1>1, <2>2, ReleaseEffects
  <2>3. CASE \E j \in JobId, cascade \in BOOLEAN : CancelImmediate(j, cascade) \/ CancelRunning(j, cascade)
    BY <1>1, <2>3, CancelEffects
  <2> QED BY <2>1, <2>2, <2>3 DEF ClientStep
<1> QED BY <1>2, <1>3 DEF Steady, IsRunning

\* A worker's call frees the slot of its job, or moves nothing.
LEMMA WorkerFrees ==
    ASSUME "wait" \notin Env, GroupsCapped, PInv, WorkerStep
    PROVE  drift' = drift /\ (Steady \/ \E S \in SUBSET JobId : Frees(S))
<1>1. IInv /\ RInv
  BY DEF PInv, RInv
<1>2. PICK j \in JobId, t \in Nat :
              \/ \E skipped \in BOOLEAN, drop \in BOOLEAN : Complete(j, t, skipped, drop)
              \/ \E retryable, m : Fail(j, t, retryable, m)
              \/ Heartbeat(j, t)
              \/ Wait(j, t)
  BY <1>1, WorkerCases
<1>3. jobs[j] \in Row
  BY <1>1 DEF IInv, TypeOK
<1>4. Settled(jobs[j], "succeeded").state = "succeeded" /\ Settled(jobs[j], "dead").state = "dead"
  BY <1>3 DEF Settled, Row
<1>5. CASE \E skipped \in BOOLEAN, drop \in BOOLEAN : Complete(j, t, skipped, drop)
  <2>1. PICK skipped \in BOOLEAN, drop \in BOOLEAN : Complete(j, t, skipped, drop)
    BY <1>5
  <2>2. /\ jobs[j].state = "running" /\ jobs'[j] = Settled(jobs[j], "succeeded")
        /\ \A i \in JobId \ {j} : jobs'[i].state = "running" <=> jobs[i].state = "running"
    BY <1>1, <2>1, CompleteEffects, ZenonT(60)
  <2>3. group_running' = decrement_group(group_running, jobs[j].spec) /\ drift' = drift
    BY <2>1 DEF Complete, sweeper
  <2>4. Frees({j})
    BY <1>4, <2>2, <2>3, FreesOne DEF IsRunning
  <2> QED BY <2>3, <2>4
<1>6. CASE \E retryable, m : Fail(j, t, retryable, m)
  <2>1. PICK retryable, m : Fail(j, t, retryable, m)
    BY <1>6
  <2>2. drift' = drift
    BY <2>1, ZenonT(60) DEF Fail, sweeper
  <2>3. CASE jobs' = fail_retry(jobs, j) /\ group_running' = decrement_group(group_running, jobs[j].spec)
             /\ UNCHANGED <<ledger, edges, gates, stopped>> /\ jobs[j].state = "running"
    <3>1. \A i \in JobId : jobs'[i].state = IF i = j THEN "queued" ELSE jobs[i].state
      BY <1>1, <2>3, RetryEffects
    <3>2. Frees({j})
      BY <2>3, <3>1, FreesOne DEF IsRunning
    <3> QED BY <2>2, <3>2
  <2>4. CASE Die(j) /\ jobs[j].state = "running"
    <3>1. /\ jobs'[j] = Settled(jobs[j], "dead")
          /\ \A i \in JobId \ {j} : jobs'[i].state = "running" <=> jobs[i].state = "running"
      BY <1>1, <2>4, DieEffects, ZenonT(60)
    <3>2. group_running' = decrement_group(group_running, jobs[j].spec)
      BY <2>4 DEF Die
    <3>3. Frees({j})
      BY <1>4, <2>4, <3>1, <3>2, FreesOne DEF IsRunning
    <3> QED BY <2>2, <3>3
  <2> QED BY <2>1, <2>3, <2>4, FailCases
<1>7. CASE Heartbeat(j, t)
  <2>1. \A i \in JobId : jobs'[i].state = jobs[i].state
    BY <1>1, <1>7, StillEffects
  <2> QED BY <1>7, <2>1 DEF Heartbeat, sweeper, Steady, IsRunning
<1>8. CASE Wait(j, t)
  BY <1>8 DEF Wait
<1> QED BY <1>2, <1>5, <1>6, <1>7, <1>8

\* The passage of time moves no running row.
LEMMA StillSteady ==
    ASSUME PInv, TimeStep \/ ListExhausted \/ UNCHANGED vars
    PROVE  Steady /\ drift' = drift
<1>1. \A i \in JobId : jobs'[i].state = jobs[i].state
  BY StillEffects DEF PInv, RInv
<1>2. group_running' = group_running /\ drift' = drift
  BY DEF TimeStep, RunAtArrives, DeadlinePasses, WorkerLost, ListExhausted, vars, sweeper
<1> QED BY <1>1, <1>2 DEF Steady, IsRunning

\* The sweeper frees the slots of the leases it reclaims and of the exhausted jobs
\* it fails; an exact counter gives reconcile_groups.sql nothing to write.
LEMMA SweepFrees ==
    ASSUME GroupsCapped, NInv, SweepStep
    PROVE  drift' = {} /\ (Steady \/ \E S \in SUBSET JobId : Frees(S))
<1>1. IInv /\ RInv /\ PInv /\ drift = {} /\ CounterExact
  BY DEF NInv, PInv, RInv
<1>2. CASE ListExhausted
  BY <1>1, <1>2, StillSteady
<1>3. CASE \E c \in candidates : FailExhausted(c[1], c[2])
  <2>1. PICK c \in candidates : FailExhausted(c[1], c[2])
    BY <1>3
  <2> DEFINE j == c[1]
  <2>2. drift' = drift
    BY <2>1 DEF FailExhausted
  <2>3. /\ j \in JobId
        /\ \/ jobs[j].state = "running" /\ Die(j)
           \/ UNCHANGED <<jobs, group_running>>
    BY <1>1, <2>1, FailExhaustedCases, ZenonT(60)
  <2> HIDE DEF j
  <2>4. CASE jobs[j].state = "running" /\ Die(j)
    <3>1. /\ jobs'[j] = Settled(jobs[j], "dead")
          /\ \A i \in JobId \ {j} : jobs'[i].state = "running" <=> jobs[i].state = "running"
      BY <1>1, <2>3, <2>4, DieEffects, ZenonT(60)
    <3>2. group_running' = decrement_group(group_running, jobs[j].spec)
      BY <2>4 DEF Die
    <3>3. Settled(jobs[j], "dead").state = "dead"
      BY <1>1, <2>3 DEF IInv, TypeOK, Settled, Row
    <3>4. Frees({j})
      BY <1>1, <2>3, <2>4, <3>1, <3>2, <3>3, FreesOne DEF IsRunning
    <3> QED BY <1>1, <2>2, <2>3, <3>4
  <2>5. CASE UNCHANGED <<jobs, group_running>>
    BY <1>1, <2>2, <2>5 DEF Steady, IsRunning
  <2> QED BY <2>3, <2>4, <2>5
<1>4. CASE SweepLeases
  <2> DEFINE S == {j \in JobId : reclaimable(jobs, j)}
  <2>1. \A i \in JobId : jobs'[i].state = IF ~reclaimable(jobs, i) THEN jobs[i].state
                                          ELSE IF jobs[i].cancel THEN "cancelled" ELSE "queued"
    BY <1>1, <1>4, ReclaimEffects
  <2>2. group_running' = counter_dec(jobs, group_running, S) /\ drift' = drift
    BY <1>4 DEF SweepLeases
  <2>3. \A i \in S : IsRunning(i)
    BY DEF reclaimable, IsRunning
  <2>4. \A i \in JobId : IsRunning(i)' <=> IsRunning(i) /\ i \notin S
    BY <2>1, <2>3 DEF IsRunning
  <2>5. S \in SUBSET JobId
    OBVIOUS
  <2> HIDE DEF S
  <2>6. Frees(S)
    BY <2>2, <2>3, <2>4 DEF Frees, counter_dec
  <2> QED BY <1>1, <2>2, <2>5, <2>6
<1>5. CASE SweepWaits
  <2>1. \A i \in JobId : jobs'[i].state = "running" <=> jobs[i].state = "running"
    BY <1>1, <1>5, ReleaseEffects
  <2> QED BY <1>1, <1>5, <2>1 DEF SweepWaits, Steady, IsRunning
<1>6. CASE ReconcileRead
  <2>1. drift' = {}
    BY <1>1, <1>6 DEF ReconcileRead, CounterExact
  <2> QED BY <1>6, <2>1 DEF ReconcileRead, Steady, IsRunning
<1>7. CASE ReconcileWrite
  <2>1. drift' = {} /\ jobs' = jobs /\ \A k \in GroupKey : group_running'[k] = group_running[k]
    BY <1>1, <1>7 DEF ReconcileWrite
  <2> QED BY <2>1 DEF Steady, IsRunning
<1>8. CASE SweeperLost
  BY <1>1, <1>8 DEF SweeperLost, Steady, IsRunning
<1> QED BY <1>2, <1>3, <1>4, <1>5, <1>6, <1>7, <1>8 DEF SweepStep

\* Every step but a claim frees the slots of the rows that leave running.
LEMMA CounterMoves ==
    ASSUME "wait" \notin Env, GroupsCapped, NInv, [Next]_vars
    PROVE  drift' = {} /\ (Steady \/ \E S \in SUBSET JobId : Frees(S) \/ Claim(S))
<1>1. PInv /\ drift = {}
  BY DEF NInv
<1>2. CASE ClientStep
  BY <1>1, <1>2, ClientSteady
<1>3. CASE \E S \in SUBSET JobId : Claim(S)
  BY <1>1, <1>3 DEF Claim, sweeper
<1>4. CASE WorkerStep
  BY <1>1, <1>4, WorkerFrees
<1>5. CASE TimeStep \/ UNCHANGED vars
  BY <1>1, <1>5, StillSteady
<1>6. CASE SweepStep
  BY <1>6, SweepFrees
<1> QED BY <1>2, <1>3, <1>4, <1>5, <1>6 DEF Next

\* The capped rows of a key that run before and after a step.
LEMMA CappedMoves ==
    ASSUME PInv, PInv', Effects, NEW k \in GroupKey
    PROVE  /\ IsFiniteSet(RunningCapped(k)) /\ IsFiniteSet(RunningCapped(k)')
           /\ \A j \in RunningCapped(k) : j \in JobId /\ IsRunning(j)
           /\ Steady => RunningCapped(k)' = RunningCapped(k)
           /\ \A S \in SUBSET JobId :
                 /\ IsFiniteSet(Capped(jobs, S, k))
                 /\ Frees(S) => /\ RunningCapped(k)' = RunningCapped(k) \ Capped(jobs, S, k)
                                /\ Capped(jobs, S, k) \subseteq RunningCapped(k)
                 /\ Claim(S) => /\ RunningCapped(k)' = RunningCapped(k) \cup Capped(jobs, S, k)
                                /\ Capped(jobs, S, k) \cap RunningCapped(k) = {}
<1> DEFINE Takes(i) == jobs[i].spec.cap > 0 /\ jobs[i].spec.group # Null /\ CounterKey(jobs[i].spec) = k
<1>1. RInv /\ RInv' /\ IInv
  BY DEF PInv, RInv
<1>2. \A i \in JobId : i \in RunningCapped(k) <=> IsRunning(i) /\ Takes(i)
  BY DEF RunningCapped, Capped, IsRunning
<1>3. \A i \in JobId : i \in RunningCapped(k)' <=> IsRunning(i)' /\ Takes(i)
  <2> SUFFICES ASSUME NEW i \in JobId
               PROVE i \in RunningCapped(k)' <=> IsRunning(i)' /\ Takes(i)
    OBVIOUS
  <2>1. i \in RunningCapped(k)' <=>
           /\ jobs'[i].state = "running"
           /\ jobs'[i].spec.cap > 0 /\ jobs'[i].spec.group # Null /\ CounterKey(jobs'[i].spec) = k
    BY DEF RunningCapped, Capped
  <2>2. jobs'[i].state = "running" => jobs'[i].spec = jobs[i].spec
    BY <1>1, ZenonT(60) DEF Effects, Effect, Fresh
  <2> QED BY <2>1, <2>2 DEF IsRunning
<1>4. \A S \in SUBSET JobId : \A i \in JobId : i \in Capped(jobs, S, k) <=> i \in S /\ Takes(i)
  BY DEF Capped
<1>5. RunningCapped(k) \subseteq JobId /\ RunningCapped(k)' \subseteq JobId
  BY DEF RunningCapped, Capped
<1>6. \A S \in SUBSET JobId : Capped(jobs, S, k) \subseteq JobId
  BY DEF Capped
<1> HIDE DEF Takes
<1>7. Steady => RunningCapped(k)' = RunningCapped(k)
  BY <1>2, <1>3, <1>5 DEF Steady
<1>8. ASSUME NEW S \in SUBSET JobId, Frees(S)
      PROVE  /\ RunningCapped(k)' = RunningCapped(k) \ Capped(jobs, S, k)
             /\ Capped(jobs, S, k) \subseteq RunningCapped(k)
  <2>1. /\ \A i \in S : IsRunning(i)
        /\ \A i \in JobId : IsRunning(i)' <=> IsRunning(i) /\ i \notin S
    BY <1>8 DEF Frees
  <2>2. \A i \in JobId : /\ i \in RunningCapped(k)' <=> i \in RunningCapped(k) /\ i \notin Capped(jobs, S, k)
                         /\ i \in Capped(jobs, S, k) => i \in RunningCapped(k)
    BY <1>2, <1>3, <1>4, <2>1
  <2> QED BY <1>5, <1>6, <2>2
<1>9. ASSUME NEW S \in SUBSET JobId, Claim(S)
      PROVE  /\ RunningCapped(k)' = RunningCapped(k) \cup Capped(jobs, S, k)
             /\ Capped(jobs, S, k) \cap RunningCapped(k) = {}
  <2>1. \A i \in JobId : IsRunning(i)' <=> IsRunning(i) \/ i \in S
    BY <1>1, <1>9, ClaimEffects DEF IsRunning
  <2>2. \A i \in S : ~IsRunning(i)
    BY <1>9, ZenonT(60) DEF Claim, admissible, IsRunning
  <2>3. \A i \in JobId : /\ i \in RunningCapped(k)' <=> i \in RunningCapped(k) \/ i \in Capped(jobs, S, k)
                         /\ ~(i \in Capped(jobs, S, k) /\ i \in RunningCapped(k))
    BY <1>2, <1>3, <1>4, <2>1, <2>2
  <2> QED BY <1>5, <1>6, <2>3
<1>10. \A S \in SUBSET JobId : IsFiniteSet(Capped(jobs, S, k))
  BY <1>6, EngineAssumption, FS_Subset
<1>11. IsFiniteSet(RunningCapped(k)) /\ IsFiniteSet(RunningCapped(k)')
  BY <1>5, EngineAssumption, FS_Subset
<1> QED BY <1>2, <1>5, <1>7, <1>8, <1>9, <1>10, <1>11

\* A claim adds the capped rows it takes; a row that leaves gives its slot back.
LEMMA NextNInv ==
    ASSUME "wait" \notin Env, GroupsCapped, NInv, [Next]_vars
    PROVE  NInv'
<1>1. PInv /\ PInv' /\ Effects /\ CounterExact
  BY NextPInv DEF NInv
<1>2. drift' = {} /\ (Steady \/ \E S \in SUBSET JobId : Frees(S) \/ Claim(S))
  BY CounterMoves
<1>3. CounterExact'
  <2> SUFFICES ASSUME NEW k \in GroupKey
               PROVE  group_running'[k] = Cardinality(RunningCapped(k)')
    BY DEF CounterExact
  <2> DEFINE R == RunningCapped(k)
             n == Cardinality(R)
  <2>1. group_running[k] = n
    BY <1>1 DEF CounterExact
  <2>2. IsFiniteSet(R) /\ n \in Nat
    BY <1>1, CappedMoves, FS_CardinalityType
  <2>3. CASE Steady
    <3>1. RunningCapped(k)' = R
      BY <1>1, <2>3, CappedMoves
    <3> QED BY <2>1, <2>3, <3>1 DEF Steady
  <2>4. ASSUME NEW S \in SUBSET JobId, Frees(S) \/ Claim(S)
        PROVE  group_running'[k] = Cardinality(RunningCapped(k)')
    <3> DEFINE C == Capped(jobs, S, k)
               m == Cardinality(C)
    <3>1. IsFiniteSet(C) /\ m \in Nat
      BY <1>1, CappedMoves, FS_CardinalityType
    <3>2. CASE Frees(S)
      <4>1. RunningCapped(k)' = R \ C /\ C \subseteq R
        BY <1>1, <3>2, CappedMoves
      <4>2. group_running'[k] = Floor0(n - m)
        BY <2>1, <3>2 DEF Frees
      <4> HIDE DEF R, C
      <4>3. R \cap C = C
        BY <4>1
      <4>4. Cardinality(R \ C) = n - m
        BY <2>2, <4>3, FS_Difference, ZenonT(60)
      <4>5. m <= n
        BY <2>2, <4>1, FS_Subset
      <4>6. Floor0(n - m) = n - m
        BY <2>2, <3>1, <4>5 DEF Floor0
      <4> QED BY <4>1, <4>2, <4>4, <4>6
    <3>3. CASE Claim(S)
      <4>1. RunningCapped(k)' = R \cup C /\ C \cap R = {}
        BY <1>1, <3>3, CappedMoves
      <4>2. group_running'[k] = n + m
        BY <2>1, <3>3 DEF Claim, counter_bump
      <4> HIDE DEF R, C
      <4>3. R \cap C = {} /\ Cardinality({}) = 0
        BY <4>1, FS_EmptySet
      <4>4. Cardinality(R \cup C) = n + m - 0
        BY <2>2, <3>1, <4>3, FS_Union, ZenonT(60)
      <4> QED BY <2>2, <3>1, <4>1, <4>2, <4>4
    <3> QED BY <2>4, <3>2, <3>3
  <2> QED BY <1>2, <2>3, <2>4
<1> QED BY <1>1, <1>2, <1>3 DEF NInv

\* Initially nothing runs and every counter is zero.
LEMMA InitNInv == Init => NInv
<1> SUFFICES ASSUME Init PROVE NInv
  OBVIOUS
<1>1. PInv /\ drift = {}
  BY InitPInv DEF Init
<1>2. NoRow.state = "absent"
  BY DEF NoRow, NewRow
<1>3. \A k \in GroupKey : RunningCapped(k) = {} /\ group_running[k] = 0
  BY <1>2 DEF Init, RunningCapped, Capped
<1> QED BY <1>1, <1>3, FS_EmptySet DEF NInv, CounterExact

\* If no job parks and every group a client names is capped, the counter of every
\* group is exact at every commit, whatever order claims, answers, retries,
\* deaths, cancels, replays, gates and sweeper passes come in: each path out of
\* running gives back exactly what claim.sql took.
THEOREM CountersStayExact ==
    ASSUME "wait" \notin Env, GroupsCapped
    PROVE  Spec => []CounterExact
<1>1. Init => NInv
  BY InitNInv
<1>2. NInv /\ [Next]_vars => NInv'
  BY NextNInv
<1>3. NInv => CounterExact
  BY DEF NInv
<1> QED BY <1>1, <1>2, <1>3, PTL DEF Spec

\* Jobs of one group have one cap.
LEMMA SameCap ==
    ASSUME OneCapPerGroup, PInv, NEW i \in JobId, NEW j \in JobId,
           jobs[i].spec.group # Null, jobs[i].spec.group = jobs[j].spec.group
    PROVE  jobs[i].spec.cap = jobs[j].spec.cap
  BY DEF PInv, Priced, OneCapPerGroup

\* A batch that claim.sql admits fits the headroom of every key it touches: the
\* rank of the last row of the key is at most what its cap leaves.
LEMMA ClaimFits ==
    ASSUME OneCapPerGroup, NInv, NEW S \in SUBSET JobId, Claim(S), NEW k \in GroupKey,
           NEW j \in Capped(jobs, S, k)
    PROVE  Cardinality(Capped(jobs, S, k)) <= jobs[j].spec.cap - group_running[k]
<1> DEFINE C == Capped(jobs, S, k)
           ahead == {i \in C : jobs[i].spec.cap <= jobs[j].spec.cap}
<1>1. /\ j \in S /\ jobs[j].spec.cap > 0 /\ jobs[j].spec.group # Null /\ CounterKey(jobs[j].spec) = k
      /\ \A i \in C : i \in JobId /\ jobs[i].spec.group # Null /\ CounterKey(jobs[i].spec) = k
  BY DEF Capped
<1>2. Cardinality({i \in Capped(jobs, S, CounterKey(jobs[j].spec)) : jobs[i].spec.cap <= jobs[j].spec.cap})
        <= jobs[j].spec.cap - group_running[CounterKey(jobs[j].spec)]
  BY <1>1, ZenonT(60) DEF Claim, admissible
<1>3. \A i \in C : jobs[i].spec.group = jobs[j].spec.group
  BY <1>1 DEF CounterKey
<1>4. \A i \in C : jobs[i].spec.cap = jobs[j].spec.cap
  BY <1>1, <1>3, SameCap DEF NInv
<1>5. jobs[j].spec.cap \in Nat
  BY <1>1 DEF NInv, PInv, RInv, IInv, TypeOK, Row, Spec_t
<1>6. ahead = C
  <2> HIDE DEF C
  <2> QED BY <1>4, <1>5
<1> QED BY <1>1, <1>2, <1>6, ZenonT(60)

\* If moreover clients that share a group agree on its cap, no group ever runs
\* more capped jobs than its cap, for any number of jobs and any batch limit.
THEOREM GroupsKeepTheirCeiling ==
    ASSUME "wait" \notin Env, GroupsCapped, OneCapPerGroup
    PROVE  Spec => []GroupCeiling
<1>1. Init => NInv /\ GroupCeiling
  <2>1. Init => NInv
    BY InitNInv
  <2>2. Init => GroupCeiling
    BY DEF Init, GroupCeiling, RunningCapped, Capped, NoRow, NewRow
  <2> QED BY <2>1, <2>2
<1>2. NInv /\ GroupCeiling /\ [Next]_vars => (NInv /\ GroupCeiling)'
  <2> SUFFICES ASSUME NInv, GroupCeiling, [Next]_vars PROVE NInv' /\ GroupCeiling'
    OBVIOUS
  <2>1. NInv' /\ PInv /\ PInv' /\ Effects
    BY NextNInv, NextPInv DEF NInv
  <2>2. Steady \/ \E S \in SUBSET JobId : Frees(S) \/ Claim(S)
    BY CounterMoves
  <2>3. ASSUME NEW k \in GroupKey, NEW j \in RunningCapped(k)'
        PROVE  Cardinality(RunningCapped(k)') <= jobs'[j].spec.cap
    <3> DEFINE R == RunningCapped(k)
    <3>1. /\ j \in JobId /\ jobs'[j].state = "running"
          /\ jobs'[j].spec = jobs[j].spec
      <4>1. j \in JobId /\ jobs'[j].state = "running"
        BY DEF RunningCapped, Capped
      <4> QED BY <2>1, <4>1, ZenonT(60) DEF Effects, Effect, Fresh
    <3>2. jobs[j].spec.cap \in Nat /\ jobs[j].spec.cap > 0 /\ jobs[j].spec.group # Null
          /\ CounterKey(jobs[j].spec) = k
      BY <2>1, <3>1, ZenonT(60) DEF RunningCapped, Capped, PInv, RInv, IInv, TypeOK, Row, Spec_t
    <3>3. IsFiniteSet(R) /\ Cardinality(R) \in Nat /\ group_running[k] = Cardinality(R)
      BY <2>1, CappedMoves, FS_CardinalityType, ZenonT(60) DEF NInv, CounterExact
    <3>4. CASE Steady
      <4>1. RunningCapped(k)' = R
        BY <2>1, <3>4, CappedMoves
      <4> QED BY <3>1, <4>1 DEF GroupCeiling
    <3>5. ASSUME NEW S \in SUBSET JobId, Frees(S)
          PROVE  Cardinality(RunningCapped(k)') <= jobs'[j].spec.cap
      <4>1. RunningCapped(k)' \subseteq R
        BY <2>1, <3>5, CappedMoves
      <4>2. Cardinality(R) <= jobs[j].spec.cap
        BY <4>1 DEF GroupCeiling
      <4>3. IsFiniteSet(RunningCapped(k)') /\ Cardinality(RunningCapped(k)') <= Cardinality(R)
        BY <3>3, <4>1, FS_Subset
      <4>4. Cardinality(RunningCapped(k)') \in Nat
        BY <4>3, FS_CardinalityType
      <4> HIDE DEF R
      <4> QED BY <3>1, <3>2, <3>3, <4>2, <4>3, <4>4
    <3>6. ASSUME NEW S \in SUBSET JobId, Claim(S)
          PROVE  Cardinality(RunningCapped(k)') <= jobs'[j].spec.cap
      <4> DEFINE C == Capped(jobs, S, k)
      <4>1. RunningCapped(k)' = R \cup C /\ C \cap R = {} /\ IsFiniteSet(C)
        BY <2>1, <3>6, CappedMoves
      <4>2. CASE C = {}
        <5>1. RunningCapped(k)' = R
          BY <4>1, <4>2
        <5> QED BY <3>1, <5>1 DEF GroupCeiling
      <4>3. ASSUME NEW i \in C PROVE Cardinality(RunningCapped(k)') <= jobs'[j].spec.cap
        <5>1. i \in JobId /\ jobs[i].spec.group # Null /\ CounterKey(jobs[i].spec) = k
          BY DEF Capped
        <5>2. jobs[i].spec.group = jobs[j].spec.group
          BY <3>2, <5>1 DEF CounterKey
        <5>3. jobs[i].spec.cap = jobs[j].spec.cap
          BY <2>1, <3>1, <5>1, <5>2, SameCap
        <5>4. Cardinality(C) <= jobs[i].spec.cap - group_running[k]
          BY <3>6, ClaimFits
        <5>5. Cardinality(C) \in Nat
          BY <4>1, FS_CardinalityType
        <5> HIDE DEF R, C
        <5>6. R \cap C = {} /\ Cardinality({}) = 0
          BY <4>1, FS_EmptySet
        <5>7. Cardinality(R \cup C) = Cardinality(R) + Cardinality(C) - 0
          BY <3>3, <4>1, <5>6, FS_Union
        <5> QED BY <3>1, <3>2, <3>3, <4>1, <5>3, <5>4, <5>5, <5>7
      <4> QED BY <4>2, <4>3
    <3> QED BY <2>2, <3>4, <3>5, <3>6
  <2>4. GroupCeiling'
    BY <2>3 DEF GroupCeiling
  <2> QED BY <2>1, <2>4
<1> QED BY <1>1, <1>2, PTL DEF Spec
=============================================================================
