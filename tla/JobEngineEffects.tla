-------------------------- MODULE JobEngineEffects --------------------------
(***************************************************************************)
(* What each transaction of JobEngine does to each row and to its ledger,  *)
(* and the theorems that follow: the ledger agrees with the archive, and a *)
(* settled job leaves exactly the follow-up it owes.                       *)
(***************************************************************************)
EXTENDS JobEngineProofs

\* What the provers may take for a step that does not say otherwise.
USE SMTT(60), ZenonT(60)

(***************************************************************************)
(* The cone of cascade_cancel.sql.                                         *)
(***************************************************************************)
\* The recursive CTE of cascade_cancel.sql is closed under "a live row that
\* depends on a member", and every row it reached was reached over an edge.
LEMMA ConeFixpoint ==
    ASSUME NEW T \in [JobId -> Row], NEW root \in JobId
    PROVE  /\ Cone(T, root) \subseteq JobId
           /\ \A i \in Cone(T, root) : Live(T, i)
           /\ \A i \in JobId, u \in Cone(T, root) \cup {root} :
                 Live(T, i) /\ <<i, u>> \in edges => i \in Cone(T, root)
           /\ \A i \in Cone(T, root) : \E u \in Cone(T, root) \cup {root} : <<i, u>> \in edges
<1> DEFINE C == Cone(T, root)
           Closed(S) == \A i \in JobId :
              Live(T, i) /\ (\E u \in S \cup {root} : <<i, u>> \in edges) => i \in S
<1>1. C = {i \in JobId : \A S \in SUBSET JobId : Closed(S) => i \in S}
  BY DEF Cone
<1>2. C \subseteq JobId
  BY <1>1
<1> DEFINE D == {i \in C : Live(T, i) /\ \E u \in C \cup {root} : <<i, u>> \in edges}
<1>3. \A S \in SUBSET JobId : Closed(S) => C \subseteq S
  BY <1>1, ZenonT(60)
<1> HIDE DEF C
<1>4. Closed(C)
  <2> SUFFICES ASSUME NEW i \in JobId, Live(T, i), NEW u \in C \cup {root}, <<i, u>> \in edges,
                      NEW S \in SUBSET JobId, Closed(S)
               PROVE  i \in S
    BY <1>1, ZenonT(60)
  <2>1. u \in S \cup {root}
    BY <1>3, ZenonT(60)
  <2> QED BY <2>1, ZenonT(60)
<1>5. Closed(D)
  BY <1>4
<1>6. D \in SUBSET JobId
  BY <1>2
<1>7. C \subseteq D
  <2> HIDE DEF D, Closed
  <2> QED BY <1>3, <1>5, <1>6
<1> QED BY <1>2, <1>4, <1>7 DEF C

\* What a cascade takes with it: jobs that never left submitted, and every live
\* job (the root aside) that depends on the root or on another of them.
Cut(C, root) ==
    /\ C \subseteq {i \in JobId \ {root} : jobs[i].state = "submitted"}
    /\ \A i \in JobId \ {root}, u \in C \cup {root} :
          Live(jobs, i) /\ <<i, u>> \in edges => i \in C

\* A cascade never reaches a row that is queued, running or parked: such a row
\* depends only on jobs that succeeded, and no member of the cone did.
LEMMA ConeCut ==
    ASSUME IInv, NEW T \in [JobId -> Row], NEW root \in JobId,
           T[root].state \in {"running", "dead", "cancelled"},
           T[root].state = "running" => jobs[root].state = "running",
           \A i \in JobId : Quiet(jobs[i], T[i]),
           \A i \in JobId \ {root} : jobs[i].state # "absent" => T[i] = jobs[i]
    PROVE  Cut(Cone(T, root), root)
<1> DEFINE C == Cone(T, root)
<1>1. /\ C \subseteq JobId
      /\ \A i \in C : Live(T, i)
      /\ \A i \in JobId, u \in C \cup {root} : Live(T, i) /\ <<i, u>> \in edges => i \in C
      /\ \A i \in C : \E u \in C \cup {root} : <<i, u>> \in edges
  BY ConeFixpoint
<1> HIDE DEF C
<1>2. \A e \in edges : e[1] \in JobId /\ e[2] \in JobId
                       /\ jobs[e[1]].state # "absent" /\ jobs[e[2]].state # "absent"
  BY DEF IInv, TypeOK, EdgesKnown
<1>3. \A i, u : <<i, u>> \in edges => /\ i \in JobId /\ u \in JobId
                                      /\ jobs[i].state # "absent" /\ jobs[u].state # "absent"
  BY <1>2
<1>4. \A u \in C \cup {root} : jobs[u].state # "succeeded"
  <2> SUFFICES ASSUME NEW u \in C \cup {root}, jobs[u].state = "succeeded" PROVE FALSE
    OBVIOUS
  <2>1. u \in JobId /\ T[u].state = "succeeded"
    BY <1>1 DEF Quiet, LIVE_STATES
  <2> QED BY <1>1, <2>1 DEF Live, LIVE_STATES
<1>5. ASSUME NEW i \in C PROVE i # root /\ jobs[i].state = "submitted"
  <2>1. PICK u \in C \cup {root} : <<i, u>> \in edges
    BY <1>1, ZenonT(60)
  <2>2. jobs[i].state \notin {"queued", "running", "waiting", "succeeded", "dead"}
    <3>1. jobs[u].state # "succeeded" /\ <<i, u>>[1] = i /\ <<i, u>>[2] = u
      BY <1>4
    <3> QED BY <2>1, <3>1 DEF IInv, DependencySafety
  <2>3. i # root
    BY <1>1, <2>2 DEF Live, LIVE_STATES
  <2>4. T[i] = jobs[i]
    BY <1>1, <1>3, <2>1, <2>3
  <2> QED BY <1>1, <2>2, <2>3, <2>4 DEF Live, LIVE_STATES
<1>6. ASSUME NEW i \in JobId \ {root}, NEW u \in C \cup {root}, Live(jobs, i), <<i, u>> \in edges
      PROVE  i \in C
  <2>1. T[i] = jobs[i]
    BY <1>3, <1>6
  <2> QED BY <1>1, <1>6, <2>1 DEF Live
<1> QED BY <1>1, <1>5, <1>6 DEF Cut, C

(***************************************************************************)
(* The rows an INSERT adds.                                                *)
(***************************************************************************)
\* U holds each row of rows that no dedup key refuses, each at an id of its own
\* that had no row in T, and leaves the other ids without a row as they were.
Fills(T, U, rows) ==
    \E ids \in Injection(Inserted(T, rows), Absent(T)) :
        /\ \A k \in Inserted(T, rows) : U[ids[k]] = rows[k]
        /\ \A i \in Absent(T) : (\A k \in Inserted(T, rows) : ids[k] # i) => U[i] = T[i]

\* submit.sql inserts each row it does not refuse once, and touches no other.
LEMMA SubmitFills ==
    ASSUME NEW T \in [JobId -> Row], NEW rows, Fits(T, rows)
    PROVE  /\ Fills(T, submit(T, rows), rows)
           /\ \A i \in JobId : T[i].state # "absent" => submit(T, rows)[i] = T[i]
<1> DEFINE ids == NewIds(T, rows)
           K == Inserted(T, rows)
           U == submit(T, rows)
<1>1. ids \in Injection(K, Absent(T))
  BY DEF NewIds, Fits, ExistsInjection
<1>2. /\ ids \in [K -> Absent(T)]
      /\ \A k, m \in K : ids[k] = ids[m] => k = m
  BY <1>1 DEF Injection, IsInjective
<1>3. U = [i \in JobId |-> IF \E k \in DOMAIN ids : ids[k] = i
                           THEN rows[CHOOSE k \in DOMAIN ids : ids[k] = i] ELSE T[i]]
  BY DEF submit
<1> HIDE DEF ids, K, U
<1>4. Absent(T) \subseteq JobId
  BY DEF Absent
<1>5. ASSUME NEW k \in K PROVE U[ids[k]] = rows[k]
  <2>1. ids[k] \in JobId /\ k \in DOMAIN ids
    BY <1>2, <1>4
  <2>2. (CHOOSE m \in DOMAIN ids : ids[m] = ids[k]) = k
    BY <1>2, <2>1
  <2> QED BY <1>3, <2>1, <2>2
<1>6. \A i \in JobId : (\A k \in K : ids[k] # i) => U[i] = T[i]
  BY <1>2, <1>3
<1>7. \A i \in JobId : T[i].state # "absent" => \A k \in K : ids[k] # i
  BY <1>2 DEF Absent
<1>8. Fills(T, U, rows)
  BY <1>1, <1>4, <1>5, <1>6 DEF Fills, K
<1> QED BY <1>6, <1>7, <1>8 DEF U

\* An id without a row stays without one or holds a row of the list; an empty
\* list fills none.
LEMMA FilledBy ==
    ASSUME NEW T \in [JobId -> Row], NEW U, NEW rows, Fills(T, U, rows)
    PROVE  /\ rows = <<>> => \A i \in Absent(T) : U[i] = T[i]
           /\ \A i \in Absent(T) : U[i] = T[i] \/ \E k \in DOMAIN rows : U[i] = rows[k]
<1>1. PICK ids \in Injection(Inserted(T, rows), Absent(T)) :
        /\ \A k \in Inserted(T, rows) : U[ids[k]] = rows[k]
        /\ \A i \in Absent(T) : (\A k \in Inserted(T, rows) : ids[k] # i) => U[i] = T[i]
  BY DEF Fills
<1>2. Inserted(T, rows) \subseteq DOMAIN rows
  BY DEF Inserted
<1>3. rows = <<>> => Inserted(T, rows) = {}
  BY <1>2
<1> QED BY <1>1, <1>2, <1>3

(***************************************************************************)
(* Row effects.                                                            *)
(***************************************************************************)
\* The moves of a row that stays in the jobs table.
LiveMoves == {<<"submitted", "queued">>, <<"queued", "running">>, <<"running", "queued">>,
              <<"running", "waiting">>, <<"waiting", "queued">>}

Fresh(s) == s.state \in {"submitted", "queued"} /\ s.cancel = FALSE /\ s.token = 0

\* A row holds a lease token from its claim until it leaves running.
TokenMoves(r, s) == IF s.state = "running" THEN s.token = s.attempt /\ s.token # 0
                    ELSE s.token = 0 \/ (r.state = "submitted" /\ s.token = r.token)

\* What one transaction may do to one row (from r to s) and to the terminal
\* events of its job (from l to m): nothing; insert it; keep it live, without an
\* event; or archive it with the event that names its state.  Only a running row
\* is archived as cancelled without one.  The spec and the origin never change,
\* and no row is born with cancel_requested.
Effect(r, s, l, m) ==
    \/ r.state = "absent" /\ m = l /\ (s = r \/ Fresh(s))
    \/ /\ r.state # "absent" /\ s.spec = r.spec /\ s.origin = r.origin
       /\ \/ s.state = r.state /\ s.token = r.token /\ s.attempt = r.attempt /\ m = l
          \/ /\ <<r.state, s.state>> \in LiveMoves /\ m = l
             /\ TokenMoves(r, s)
          \/ /\ r.state = "running" /\ s.state = "succeeded"
             /\ m = l \cup {"succeeded"} \/ m = l \cup {"skipped"}
          \/ r.state = "running" /\ s.state = "dead" /\ m = l \cup {"dead"}
          \/ /\ r.state = "running" /\ s.state = "cancelled"
             /\ s.token = r.token /\ m = l
          \/ /\ r.state \in LIVE_STATES \ {"running"} /\ s.state = "cancelled"
             /\ s.token = r.token
             /\ m = l \cup {"cancelled"} \/ m = l \cup {"dependency_cancelled"}

Effects == \A i \in JobId : Effect(jobs[i], jobs'[i], ledger[i], ledger'[i])

\* A step that inserts no row, lets no job succeed or die, and so touches no gate.
Calm == /\ UNCHANGED <<edges, gates, stopped>>
        /\ \A i \in JobId : /\ jobs[i].state = "absent" <=> jobs'[i].state = "absent"
                            /\ jobs'[i].state \in {"succeeded", "dead"} =>
                                  jobs'[i].state = jobs[i].state

\* The columns that archiving a row keeps.
LEMMA SettledColumns ==
    ASSUME NEW r \in Row, NEW st \in JobState
    PROVE  /\ Settled(r, st).state = st /\ Settled(r, st).cancel = r.cancel
           /\ Settled(r, st).spec = r.spec /\ Settled(r, st).origin = r.origin
           /\ Settled(r, st).token = r.token
  BY DEF Settled, Row

\* Losing a dependency leaves a row in its state or queues it.
LEMMA OneDepLessState ==
    ASSUME NEW r \in Row
    PROVE  OneDepLess(r).state \in {r.state, "queued"}
  BY DEF OneDepLess, Row

\* The columns that archiving, unleasing, leasing and losing a dependency keep.
LEMMA RowColumns ==
    ASSUME NEW r \in Row
    PROVE  /\ \A st \in JobState :
                 /\ Settled(r, st).state = st
                 /\ Settled(r, st).spec = r.spec /\ Settled(r, st).origin = r.origin
                 /\ Settled(r, st).cancel = r.cancel /\ Settled(r, st).token = r.token
           /\ \A st \in JobState, due \in BOOLEAN :
                 /\ Unleased(r, st, due).state = st
                 /\ Unleased(r, st, due).spec = r.spec /\ Unleased(r, st, due).origin = r.origin
                 /\ Unleased(r, st, due).cancel = r.cancel /\ Unleased(r, st, due).token = 0
           /\ Leased(r).state = "running" /\ Leased(r).token = Leased(r).attempt
           /\ Leased(r).token # 0
           /\ Leased(r).spec = r.spec /\ Leased(r).origin = r.origin /\ Leased(r).cancel = r.cancel
           /\ OneDepLess(r).spec = r.spec /\ OneDepLess(r).origin = r.origin
           /\ OneDepLess(r).token = r.token /\ OneDepLess(r).attempt = r.attempt
           /\ OneDepLess(r).cancel = r.cancel
           /\ \/ OneDepLess(r).state = r.state
              \/ r.state = "submitted" /\ OneDepLess(r).state = "queued"
  BY DEF Settled, Unleased, Leased, OneDepLess, Row

\* A claim leases queued rows.
LEMMA ClaimEffects ==
    ASSUME IInv, NEW S \in SUBSET JobId, Claim(S)
    PROVE  /\ Effects /\ Calm
           /\ \A i \in JobId : jobs'[i].state = IF i \in S THEN "running" ELSE jobs[i].state
           /\ \A i \in JobId : jobs'[i].cancel = jobs[i].cancel
<1>1. jobs \in [JobId -> Row] /\ \A i \in S : jobs[i].state = "queued"
  BY ZenonT(60) DEF IInv, TypeOK, Claim, admissible
<1>2. \A i \in JobId : jobs'[i] = IF i \in S THEN Leased(jobs[i]) ELSE jobs[i]
  BY DEF Claim, claim_rows
<1>3. UNCHANGED <<ledger, edges, gates, stopped>>
  BY DEF Claim
<1> QED BY <1>1, <1>2, <1>3, RowColumns DEF Effects, Effect, LiveMoves, TokenMoves, Calm

\* Heartbeats, the passage of time, the loss of a worker and the sweeper's reads
\* leave every row in its state and write no terminal event.
LEMMA StillEffects ==
    ASSUME IInv, \/ \E j \in JobId, t \in Nat : Heartbeat(j, t)
                 \/ TimeStep
                 \/ ListExhausted \/ ReconcileRead \/ ReconcileWrite \/ SweeperLost
                 \/ UNCHANGED vars
    PROVE  /\ Effects /\ Calm
           /\ \A i \in JobId : jobs'[i].state = jobs[i].state /\ jobs'[i].cancel = jobs[i].cancel
<1>1. jobs \in [JobId -> Row]
  BY DEF IInv, TypeOK
<1>2. UNCHANGED <<ledger, edges, gates, stopped>>
  BY DEF Heartbeat, TimeStep, RunAtArrives, DeadlinePasses, WorkerLost, ListExhausted,
         ReconcileRead, ReconcileWrite, SweeperLost, vars
<1>3. \/ \E j \in JobId :
            /\ jobs[j].state # "absent"
            /\ \/ jobs' = [jobs EXCEPT ![j] = [@ EXCEPT !.lapsed = FALSE]]
               \/ jobs' = [jobs EXCEPT ![j] = [@ EXCEPT !.due = TRUE]]
               \/ jobs' = [jobs EXCEPT ![j] = [@ EXCEPT !.lapsed = TRUE]]
               \/ jobs' = [jobs EXCEPT ![j] = [@ EXCEPT !.alive = FALSE]]
      \/ jobs' = jobs
  BY DEF Heartbeat, owns, TimeStep, RunAtArrives, DeadlinePasses, WorkerLost, Live, LIVE_STATES,
         ListExhausted, ReconcileRead, ReconcileWrite, SweeperLost, vars
<1>4. \A r \in Row : \A s \in {[r EXCEPT !.lapsed = FALSE], [r EXCEPT !.due = TRUE],
                               [r EXCEPT !.lapsed = TRUE], [r EXCEPT !.alive = FALSE]} :
         /\ s.state = r.state /\ s.spec = r.spec /\ s.origin = r.origin
         /\ s.token = r.token /\ s.attempt = r.attempt /\ s.cancel = r.cancel
  BY DEF Row
<1>5. \A i \in JobId : 
         \/ jobs'[i] = jobs[i]
         \/ /\ jobs[i].state # "absent"
            /\ jobs'[i] \in {[jobs[i] EXCEPT !.lapsed = FALSE], [jobs[i] EXCEPT !.due = TRUE],
                             [jobs[i] EXCEPT !.lapsed = TRUE], [jobs[i] EXCEPT !.alive = FALSE]}
  BY <1>1, <1>3
<1>6. \A i \in JobId : jobs[i] \in Row
  BY <1>1
<1>7. \A i \in JobId : 
         \/ jobs'[i] = jobs[i]
         \/ /\ jobs[i].state # "absent" /\ jobs'[i].state = jobs[i].state
            /\ jobs'[i].spec = jobs[i].spec /\ jobs'[i].origin = jobs[i].origin
            /\ jobs'[i].token = jobs[i].token /\ jobs'[i].attempt = jobs[i].attempt
            /\ jobs'[i].cancel = jobs[i].cancel
  BY <1>4, <1>5, <1>6, ZenonT(60)
<1> QED BY <1>2, <1>7 DEF Effects, Effect, Calm

\* Rows that give their lease back, or are released from a wait, go back to the
\* queue or park; no other row moves.
UnleaseAll(S, st) ==
    \A i \in JobId : IF i \in S THEN \E due \in BOOLEAN : jobs'[i] = Unleased(jobs[i], st, due)
                     ELSE jobs'[i] = jobs[i]

\* Giving a lease back or leaving a wait writes no terminal event.
LEMMA UnleaseEffects ==
    ASSUME IInv, NEW S \in SUBSET JobId, NEW st \in {"queued", "waiting"}, UnleaseAll(S, st),
           \A i \in S : jobs[i].state \in {"running", "waiting"} /\ jobs[i].state # st,
           UNCHANGED <<ledger, edges, gates, stopped>>
    PROVE  /\ Effects /\ Calm
           /\ \A i \in JobId : jobs'[i].state = IF i \in S THEN st ELSE jobs[i].state
           /\ \A i \in JobId : jobs'[i].cancel = jobs[i].cancel
<1>1. \A i \in JobId : jobs[i] \in Row
  BY DEF IInv, TypeOK
<1>2. st \in JobState
  BY DEF JobState, LIVE_STATES
<1>3. \A i \in S : /\ jobs'[i].state = st /\ jobs'[i].spec = jobs[i].spec
                   /\ jobs'[i].origin = jobs[i].origin /\ jobs'[i].cancel = jobs[i].cancel
                   /\ jobs'[i].token = 0
  BY <1>1, <1>2, RowColumns DEF UnleaseAll
<1> QED BY <1>3 DEF UnleaseAll, Effects, Effect, Calm, LiveMoves, TokenMoves

\* The retry of a failed job requeues it.
LEMMA RetryEffects ==
    ASSUME IInv, NEW j \in JobId, jobs[j].state = "running", jobs' = fail_retry(jobs, j),
           UNCHANGED <<ledger, edges, gates, stopped>>
    PROVE  /\ Effects /\ Calm
           /\ \A i \in JobId : jobs'[i].state = IF i = j THEN "queued" ELSE jobs[i].state
           /\ \A i \in JobId : jobs'[i].cancel = jobs[i].cancel
<1> DEFINE S == {j}
<1>1. UnleaseAll(S, "queued")
  BY ZenonT(60) DEF IInv, TypeOK, fail_retry, UnleaseAll
<1>2. S \in SUBSET JobId /\ \A i \in JobId : i \in S <=> i = j
  OBVIOUS
<1> HIDE DEF S
<1> QED BY <1>1, <1>2, UnleaseEffects

\* A wait that finds no signal parks the job.
LEMMA WaitEffects ==
    ASSUME IInv, NEW j \in JobId, NEW t, Wait(j, t)
    PROVE  /\ Effects /\ Calm
           /\ \A i \in JobId : jobs'[i].state = IF i = j THEN "waiting" ELSE jobs[i].state
           /\ \A i \in JobId : jobs'[i].cancel = jobs[i].cancel
<1> DEFINE S == {j}
<1>1. UnleaseAll(S, "waiting")
  BY DEF IInv, TypeOK, Row, Wait, UnleaseAll
<1>2. S \in SUBSET JobId /\ \A i \in JobId : i \in S <=> i = j
  OBVIOUS
<1>3. jobs[j].state = "running" /\ UNCHANGED <<ledger, edges, gates, stopped>>
  BY DEF Wait, owns
<1> HIDE DEF S
<1> QED BY <1>1, <1>2, <1>3, UnleaseEffects

\* A signal and the sweep of lapsed waits requeue parked jobs.
LEMMA ReleaseEffects ==
    ASSUME IInv, SweepWaits \/ \E j \in JobId : Signal(j)
    PROVE  /\ Effects /\ Calm
           /\ \A i \in JobId : jobs'[i].state = "running" <=> jobs[i].state = "running"
           /\ \A i \in JobId : jobs'[i].state \in {jobs[i].state, "queued"}
           /\ \A i \in JobId : jobs'[i].cancel = jobs[i].cancel
<1>1. PICK S \in SUBSET JobId : /\ \A i \in S : jobs[i].state = "waiting"
                                /\ jobs' = Released(jobs, S)
  BY ZenonT(60) DEF SweepWaits, Signal
<1>2. UnleaseAll(S, "queued")
  BY <1>1, ZenonT(60) DEF Released, UnleaseAll
<1>3. UNCHANGED <<ledger, edges, gates, stopped>>
  BY ZenonT(60) DEF SweepWaits, Signal
<1>4. /\ Effects /\ Calm
      /\ \A i \in JobId : /\ jobs'[i].state = IF i \in S THEN "queued" ELSE jobs[i].state
                          /\ jobs'[i].cancel = jobs[i].cancel
  BY <1>1, <1>2, <1>3, UnleaseEffects
<1> QED BY <1>1, <1>4

\* The reclaim of lapsed leases requeues them, or archives those whose
\* cancellation was requested.
LEMMA ReclaimEffects ==
    ASSUME IInv, SweepLeases
    PROVE  /\ Effects /\ Calm
           /\ \A i \in JobId :
                 jobs'[i].state = IF ~reclaimable(jobs, i) THEN jobs[i].state
                                  ELSE IF jobs[i].cancel THEN "cancelled" ELSE "queued"
           /\ \A i \in JobId : jobs'[i].cancel = jobs[i].cancel
<1>1. \A i \in JobId : jobs'[i] = IF ~reclaimable(jobs, i) THEN jobs[i]
                                  ELSE IF jobs[i].cancel THEN Settled(jobs[i], "cancelled")
                                  ELSE Unleased(jobs[i], "queued", jobs[i].due)
  BY DEF SweepLeases, reclaimed
<1>2. UNCHANGED <<ledger, edges, gates, stopped>>
  BY DEF SweepLeases
<1>3. \A i \in JobId : jobs[i] \in Row /\ jobs[i].due \in BOOLEAN
  BY DEF IInv, TypeOK, Row
<1>4. {"queued", "cancelled"} \subseteq JobState
  BY DEF JobState, LIVE_STATES, TERMINAL_STATES
<1>5. \A i \in JobId :
         /\ Settled(jobs[i], "cancelled").state = "cancelled"
         /\ Settled(jobs[i], "cancelled").spec = jobs[i].spec
         /\ Settled(jobs[i], "cancelled").origin = jobs[i].origin
         /\ Settled(jobs[i], "cancelled").cancel = jobs[i].cancel
         /\ Settled(jobs[i], "cancelled").token = jobs[i].token
         /\ Unleased(jobs[i], "queued", jobs[i].due).state = "queued"
         /\ Unleased(jobs[i], "queued", jobs[i].due).spec = jobs[i].spec
         /\ Unleased(jobs[i], "queued", jobs[i].due).origin = jobs[i].origin
         /\ Unleased(jobs[i], "queued", jobs[i].due).cancel = jobs[i].cancel
         /\ Unleased(jobs[i], "queued", jobs[i].due).token = 0
  BY <1>3, <1>4, RowColumns
<1>6. \A i \in JobId : reclaimable(jobs, i) => jobs[i].state = "running"
  BY DEF reclaimable
<1> QED BY <1>1, <1>2, <1>5, <1>6 DEF Effects, Effect, Calm, LiveMoves, TokenMoves

\* A transaction of the client that inserts rows leaves every other row alone.
LEMMA BirthEffects ==
    ASSUME IInv, NEW rows, \A k \in DOMAIN rows : Fresh(rows[k]),
           Fits(jobs, rows), jobs' = submit(jobs, rows), UNCHANGED ledger
    PROVE  /\ Effects /\ Fills(jobs, jobs', rows)
           /\ \A i \in JobId : jobs[i].state # "absent" => jobs'[i] = jobs[i]
<1>1. /\ Fills(jobs, jobs', rows)
      /\ \A i \in JobId : jobs[i].state # "absent" => jobs'[i] = jobs[i]
  BY SubmitFills DEF IInv, TypeOK
<1>2. \A i \in Absent(jobs) : jobs'[i] = jobs[i] \/ \E k \in DOMAIN rows : jobs'[i] = rows[k]
  BY <1>1, FilledBy DEF IInv, TypeOK
<1> QED BY <1>1, <1>2 DEF Effects, Effect, Absent

\* The rows of Submit, FanOut and Resubmit.
LEMMA ClientBirths ==
    ASSUME IInv, \/ \E spec \in Specs, d \in DepLists, deferred \in Flag("defer") :
                       Submit(spec, d, deferred)
                 \/ \E gs \in GateSpecs : FanOut(gs)
                 \/ \E j \in JobId : Resubmit(j)
    PROVE  Effects /\ \A i \in JobId : jobs[i].state # "absent" => jobs'[i] = jobs[i]
<1>1. ASSUME NEW spec \in Specs, NEW d, NEW deferred, Submit(spec, d, deferred)
      PROVE  Effects /\ \A i \in JobId : jobs[i].state # "absent" => jobs'[i] = jobs[i]
  <2> DEFINE st == IF d # <<>> \/ deferred THEN "submitted" ELSE "queued"
             row == [NewRow(st, spec, FromClient) EXCEPT !.remaining = Len(d), !.due = ~deferred]
             rows == <<row>>
  <2>1. Fits(jobs, rows) /\ jobs' = submit(jobs, rows) /\ UNCHANGED ledger
    BY <1>1, ZenonT(60) DEF Submit
  <2>2. \A k \in DOMAIN rows : Fresh(rows[k])
    <3> DEFINE n == Len(d)
               late == ~deferred
    <3> HIDE DEF n, late
    <3>1. \A x : LET r == [NewRow(x, spec, FromClient) EXCEPT !.remaining = n, !.due = late]
                 IN  r.state = x /\ r.cancel = FALSE /\ r.token = 0
      BY DEF NewRow
    <3>2. Fresh(row)
      BY <3>1 DEF n, late, Fresh
    <3> HIDE DEF row
    <3> QED BY <3>2
  <2> HIDE DEF rows
  <2> QED BY <2>1, <2>2, BirthEffects
<1>2. ASSUME NEW gs \in GateSpecs, FanOut(gs)
      PROVE  Effects /\ \A i \in JobId : jobs[i].state # "absent" => jobs'[i] = jobs[i]
  <2>1. PICK g \in GateId :
          LET rows == [k \in DOMAIN gs.children |->
                        NewRow("queued", [gs.children[k] EXCEPT !.gate = g], FromClient)]
          IN  Fits(jobs, rows) /\ jobs' = submit(jobs, rows) /\ UNCHANGED ledger
    BY <1>2, ZenonT(60) DEF FanOut
  <2> DEFINE rows == [k \in DOMAIN gs.children |->
                        NewRow("queued", [gs.children[k] EXCEPT !.gate = g], FromClient)]
  <2>2. Fits(jobs, rows) /\ jobs' = submit(jobs, rows) /\ UNCHANGED ledger
    BY <2>1
  <2>3. \A k \in DOMAIN rows : Fresh(rows[k])
    BY DEF NewRow, Fresh
  <2> HIDE DEF rows
  <2> QED BY <2>2, <2>3, BirthEffects
<1>3. ASSUME NEW j \in JobId, Resubmit(j)
      PROVE  Effects /\ \A i \in JobId : jobs[i].state # "absent" => jobs'[i] = jobs[i]
  <2> DEFINE spec == [jobs[j].spec EXCEPT !.dedup = Null, !.gate = 0]
             rows == <<NewRow("queued", spec, [kind |-> "replay", of |-> j])>>
  <2>1. Fits(jobs, rows) /\ jobs' = submit(jobs, rows) /\ UNCHANGED ledger
    BY <1>3, ZenonT(60) DEF Resubmit
  <2>2. \A k \in DOMAIN rows : Fresh(rows[k])
    BY DEF NewRow, Fresh
  <2> HIDE DEF rows
  <2> QED BY <2>1, <2>2, BirthEffects
<1> QED BY <1>1, <1>2, <1>3

\* The rows _settle_gate inserts are queued, and come from the gate.
LEMMA GateRowFacts ==
    ASSUME NEW spec, NEW ok, NEW bad
    PROVE  \/ GateRows(spec, ok, bad) = <<>>
           \/ \E s : GateRows(spec, ok, bad) =
                        <<NewRow("queued", s, [kind |-> "gate", of |-> spec.gate])>>
  BY DEF GateRows

\* Concatenating lists of at most one row.
LEMMA ShortLists ==
    ASSUME NEW p, NEW q
    PROVE  /\ <<>> \o <<>> = <<>> /\ <<p>> \o <<>> = <<p>> /\ <<>> \o <<q>> = <<q>>
           /\ <<p>> \o <<q>> = <<p, q>>
<1>1. <<>> \o <<>> = <<>> /\ <<p>> \o <<>> = <<p>> /\ <<>> \o <<q>> = <<q>>
  <2>1. <<p>> \in Seq({p, q}) /\ <<q>> \in Seq({p, q}) /\ <<>> \in Seq({p, q})
    OBVIOUS
  <2>2. \A s \in Seq({p, q}) : s \o <<>> = s /\ <<>> \o s = s
    OBVIOUS
  <2> QED BY <2>1, <2>2
<1>2. <<p>> \o <<q>> = <<p, q>>
  <2> DEFINE R == {p, q}
             s == <<p>> \o <<q>>
  <2>1. <<p>> \in Seq(R) /\ <<q>> \in Seq(R) /\ Len(<<p>>) = 1 /\ Len(<<q>>) = 1
    OBVIOUS
  <2>2. s \in Seq(R) /\ Len(s) = 2 /\ s[1] = p /\ s[2] = q
    BY <2>1
  <2> HIDE DEF s
  <2>3. DOMAIN s = 1..2 /\ s = [i \in 1..2 |-> s[i]]
    BY <2>2
  <2>4. <<p, q>> = [i \in 1..2 |-> IF i = 1 THEN p ELSE q]
    OBVIOUS
  <2>5. \A i \in 1..2 : s[i] = IF i = 1 THEN p ELSE q
    BY <2>2
  <2>6. s = <<p, q>>
    BY <2>3, <2>4, <2>5, ZenonT(60)
  <2> QED BY <2>6 DEF s
<1> QED BY <1>1, <1>2

\* The list of rows a settling transaction inserts: at most a follow-up of the
\* job and a row of its gate, in either order.
LEMMA TwoLists ==
    ASSUME NEW a, NEW b, NEW p, NEW q, a \in {<<>>, <<p>>}, b \in {<<>>, <<q>>}
    PROVE  /\ a \o b \in {<<>>, <<p>>, <<q>>, <<p, q>>}
           /\ \A k \in DOMAIN (a \o b) : (a \o b)[k] \in {p, q}
           /\ a = <<p>> => (a \o b)[1] = p /\ 1 \in DOMAIN (a \o b)
           /\ b = <<q>> => \E k \in DOMAIN (a \o b) : (a \o b)[k] = q
<1>1. /\ <<>> \o <<>> = <<>> /\ <<p>> \o <<>> = <<p>> /\ <<>> \o <<q>> = <<q>>
      /\ <<p>> \o <<q>> = <<p, q>>
  BY ShortLists
<1>2. \A s \in {<<>>, <<p>>, <<q>>, <<p, q>>} : \A k \in DOMAIN s : s[k] \in {p, q}
  OBVIOUS
<1>3. a \o b \in {<<>>, <<p>>, <<q>>, <<p, q>>}
  BY <1>1, ZenonT(60)
<1>4. a = <<p>> => a \o b \in {<<p>>, <<p, q>>}
  BY <1>1, ZenonT(60)
<1>5. b = <<q>> => a \o b \in {<<q>>, <<p, q>>}
  BY <1>1, ZenonT(60)
<1>6. \A s \in {<<p>>, <<p, q>>} : s[1] = p /\ 1 \in DOMAIN s
  OBVIOUS
<1>7. \A s \in {<<q>>, <<p, q>>} : \E k \in DOMAIN s : s[k] = q
  OBVIOUS
<1> QED BY <1>2, <1>3, <1>4, <1>5, <1>6, <1>7

(***************************************************************************)
(* The transactions that settle a job.                                     *)
(***************************************************************************)
\* What record_event leaves in the ledger of one job.
LEMMA RecordedEvents ==
    ASSUME NEW S, NEW C, NEW ev, ledger' = record_events(S, ev, C), NEW i \in JobId, i \notin S \cap C
    PROVE  ledger'[i] = IF i \in S THEN ledger[i] \cup {ev}
                        ELSE IF i \in C THEN ledger[i] \cup {"dependency_cancelled"} ELSE ledger[i]
  BY DEF record_events

ChainRows(j, drop) ==
    IF HasNext(jobs[j].spec) /\ ~drop
    THEN <<NewRow("queued", advance(jobs[j].spec), [kind |-> "chain", of |-> j])>> ELSE <<>>
HookRows(j) ==
    IF jobs[j].spec.hook = <<>> THEN <<>>
    ELSE <<NewRow("queued", HookSpec(jobs[j].spec), [kind |-> "hook", of |-> j])>>

\* A queued row that comes from a settling job or from its gate.
FollowUp(j, r) ==
    /\ r.state = "queued" /\ r.cancel = FALSE /\ r.token = 0
    /\ \/ r.origin = [kind |-> "chain", of |-> j]
       \/ r.origin = [kind |-> "hook", of |-> j]
       \/ r.origin = [kind |-> "gate", of |-> jobs[j].spec.gate]

\* The rows a settling job inserts are its follow-ups.
LEMMA SettleRows ==
    ASSUME NEW j, NEW drop, NEW ok, NEW bad
    PROVE  /\ \A k \in DOMAIN (ChainRows(j, drop) \o GateRows(jobs[j].spec, ok, bad)) :
                 FollowUp(j, (ChainRows(j, drop) \o GateRows(jobs[j].spec, ok, bad))[k])
           /\ \A k \in DOMAIN (GateRows(jobs[j].spec, ok, bad) \o HookRows(j)) :
                 FollowUp(j, (GateRows(jobs[j].spec, ok, bad) \o HookRows(j))[k])
<1>1. \A s : \A o \in {[kind |-> "chain", of |-> j], [kind |-> "hook", of |-> j],
                       [kind |-> "gate", of |-> jobs[j].spec.gate]} :
         FollowUp(j, NewRow("queued", s, o))
  BY DEF NewRow, FollowUp
<1>2. \E p : ChainRows(j, drop) \in {<<>>, <<p>>} /\ FollowUp(j, p)
  BY <1>1 DEF ChainRows
<1>3. \E p : HookRows(j) \in {<<>>, <<p>>} /\ FollowUp(j, p)
  BY <1>1 DEF HookRows
<1>4. \E p : GateRows(jobs[j].spec, ok, bad) \in {<<>>, <<p>>} /\ FollowUp(j, p)
  BY <1>1, GateRowFacts
<1> QED BY <1>2, <1>3, <1>4, TwoLists

\* A complete archives the job as succeeded, lowers remaining_deps of its live
\* dependents, and inserts the continuation and the row of the gate.
LEMMA CompleteEffects ==
    ASSUME IInv, NEW j \in JobId, NEW t, NEW skipped \in BOOLEAN, NEW drop \in BOOLEAN,
           Complete(j, t, skipped, drop)
    PROVE  /\ Effects /\ UNCHANGED edges /\ jobs[j].state = "running"
           /\ jobs'[j] = Settled(jobs[j], "succeeded")
           /\ Absent(archive(jobs, j, "succeeded")) = Absent(jobs)
           /\ Fills(archive(jobs, j, "succeeded"), jobs',
                    ChainRows(j, drop) \o GateRows(jobs[j].spec, ~skipped, FALSE))
           /\ \A i \in JobId \ {j} :
                 jobs'[i].state = "running" <=> jobs[i].state = "running"
           /\ \A i \in JobId : jobs[i].state # "absent" => jobs'[i].cancel = jobs[i].cancel
           /\ ledger' = record_events({j}, IF skipped THEN "skipped" ELSE "succeeded", {})
<1> DEFINE moved == archive(jobs, j, "succeeded")
           rows == ChainRows(j, drop) \o GateRows(jobs[j].spec, ~skipped, FALSE)
           inserted == submit(moved, rows)
           event == IF skipped THEN "skipped" ELSE "succeeded"
<1>1. /\ jobs[j].state = "running"
      /\ Fits(moved, rows)
      /\ jobs' = decrement_deps(inserted, j)
      /\ ledger' = record_events({j}, event, {})
      /\ UNCHANGED edges
  BY ZenonT(60) DEF Complete, owns, ChainRows
<1>2. jobs \in [JobId -> Row] /\ "succeeded" \in JobState
  BY DEF IInv, TypeOK, JobState, TERMINAL_STATES
<1>3. /\ moved \in [JobId -> Row] /\ moved[j].state = "succeeded"
      /\ moved[j] = Settled(jobs[j], "succeeded")
      /\ \A i \in JobId \ {j} : moved[i] = jobs[i]
  BY <1>2, ArchiveRows DEF archive
<1>4. \A k \in DOMAIN rows : rows[k].state = "queued" /\ Fresh(rows[k])
  <2>1. \A k \in DOMAIN rows : FollowUp(j, rows[k])
    BY SettleRows, ZenonT(60)
  <2> QED BY <2>1, ZenonT(60) DEF FollowUp, Fresh
<1> HIDE DEF moved, rows
<1>5. /\ Fills(moved, inserted, rows)
      /\ \A i \in JobId : moved[i].state # "absent" => inserted[i] = moved[i]
  BY <1>1, <1>3, SubmitFills
<1> HIDE DEF inserted
<1>6. \A i \in Absent(moved) : inserted[i] = moved[i] \/ \E k \in DOMAIN rows : inserted[i] = rows[k]
  BY <1>3, <1>5, FilledBy
<1>7. \A i \in JobId : jobs'[i] = IF Live(inserted, i) /\ <<i, j>> \in edges
                                  THEN OneDepLess(inserted[i]) ELSE inserted[i]
  BY <1>1 DEF decrement_deps, Dependents
<1>8. \A i \in JobId : jobs[i].state = "absent" => <<i, j>> \notin edges
  BY DEF IInv, EdgesKnown
<1>9. Absent(moved) = Absent(jobs)
  BY <1>1, <1>3 DEF Absent
<1>10. \A i \in Absent(jobs) : jobs'[i] = inserted[i]
  BY <1>7, <1>8, ZenonT(60) DEF Absent
<1>11. Fills(moved, jobs', rows)
  BY <1>5, <1>9, <1>10 DEF Fills, Injection
<1>12. jobs'[j] = Settled(jobs[j], "succeeded")
  BY <1>3, <1>5, <1>7, ZenonT(60) DEF Live, LIVE_STATES
<1>13. \A i \in JobId \ {j} : jobs[i].state # "absent" =>
          jobs'[i] = jobs[i] \/ jobs'[i] = OneDepLess(jobs[i])
  BY <1>3, <1>5, <1>7, ZenonT(60)
<1>14. \A i \in JobId : jobs[i] \in Row
  BY <1>2
<1>15. \A i \in JobId \ {j} : jobs[i].state # "absent" =>
          /\ jobs'[i].spec = jobs[i].spec /\ jobs'[i].origin = jobs[i].origin
          /\ jobs'[i].token = jobs[i].token /\ jobs'[i].attempt = jobs[i].attempt
          /\ jobs'[i].cancel = jobs[i].cancel
          /\ \/ jobs'[i].state = jobs[i].state
             \/ jobs[i].state = "submitted" /\ jobs'[i].state = "queued"
  BY <1>13, <1>14, RowColumns
<1>16. /\ jobs'[j].state = "succeeded" /\ jobs'[j].spec = jobs[j].spec
       /\ jobs'[j].origin = jobs[j].origin /\ jobs'[j].cancel = jobs[j].cancel
  BY <1>2, <1>12, <1>14, RowColumns
<1> HIDE DEF event
<1>17. \A i \in JobId : ledger'[i] = IF i = j THEN ledger[i] \cup {event} ELSE ledger[i]
  BY <1>1 DEF record_events
<1>18. \A i \in JobId \ {j} : jobs[i].state = "absent" =>
          jobs'[i] = jobs[i] \/ (jobs'[i].state = "queued" /\ Fresh(jobs'[i]))
  BY <1>3, <1>4, <1>6, <1>9, <1>10 DEF Absent
<1>19. Effects
  <2> SUFFICES ASSUME NEW i \in JobId
               PROVE  Effect(jobs[i], jobs'[i], ledger[i], ledger'[i])
    BY DEF Effects
  <2>1. CASE i = j
    BY <1>1, <1>16, <1>17, <2>1, ZenonT(60) DEF Effect, event
  <2>2. CASE i # j /\ jobs[i].state = "absent"
    BY <1>17, <1>18, <2>2, ZenonT(60) DEF Effect
  <2>3. CASE i # j /\ jobs[i].state # "absent"
    BY <1>15, <1>17, <2>3, ZenonT(60) DEF Effect, LiveMoves, TokenMoves
  <2> QED BY <2>1, <2>2, <2>3
<1>20. \A i \in JobId \ {j} : jobs'[i].state = "running" <=> jobs[i].state = "running"
  BY <1>15, <1>18
<1> QED BY <1>1, <1>9, <1>11, <1>12, <1>15, <1>16, <1>19, <1>20, ZenonT(60) DEF moved, rows, event

\* A table after a cascade: the members of the cut are archived as cancelled.
CutRows(C, root) ==
    \A i \in JobId \ {root} : jobs[i].state # "absent" =>
        jobs'[i] = IF i \in C THEN Settled(jobs[i], "cancelled") ELSE jobs[i]

\* The terminal branch of fail archives the job as dead, cancels what depends on
\* it, and inserts the row of the gate and the hook.
LEMMA DieEffects ==
    ASSUME IInv, NEW j \in JobId, jobs[j].state = "running", Die(j)
    PROVE  \E C \in SUBSET JobId :
           /\ Effects /\ UNCHANGED <<edges, stopped>> /\ Cut(C, j) /\ CutRows(C, j)
           /\ jobs'[j] = Settled(jobs[j], "dead")
           /\ Absent(archive(jobs, j, "dead")) = Absent(jobs)
           /\ Fills(archive(jobs, j, "dead"), jobs',
                    GateRows(jobs[j].spec, FALSE, TRUE) \o HookRows(j))
           /\ \A i \in JobId \ {j} :
                 jobs'[i].state = "running" <=> jobs[i].state = "running"
           /\ \A i \in JobId : jobs[i].state # "absent" => jobs'[i].cancel = jobs[i].cancel
           /\ ledger' = record_events({j}, "dead", C)
<1> DEFINE dead == archive(jobs, j, "dead")
           rows == GateRows(jobs[j].spec, FALSE, TRUE) \o HookRows(j)
           inserted == submit(dead, rows)
           C == Cone(inserted, j)
<1>1. /\ Fits(dead, rows)
      /\ jobs' = cascade_cancel(inserted, j)
      /\ ledger' = record_events({j}, "dead", C)
      /\ UNCHANGED <<edges, stopped>>
  BY ZenonT(60) DEF Die, HookRows
<1>2. jobs \in [JobId -> Row] /\ {"dead", "cancelled"} \subseteq JobState
  BY DEF IInv, TypeOK, JobState, TERMINAL_STATES
<1>3. /\ dead \in [JobId -> Row] /\ dead[j].state = "dead"
      /\ dead[j] = Settled(jobs[j], "dead")
      /\ \A i \in JobId \ {j} : dead[i] = jobs[i]
  BY <1>2, ArchiveRows DEF archive
<1>4. \A k \in DOMAIN rows : FollowUp(j, rows[k])
  BY SettleRows, ZenonT(60)
<1>5. rows \in Seq(QueuedRow)
  <2> DEFINE hook == HookRows(j)
  <2>1. jobs[j].spec \in Spec_t
    BY <1>2 DEF Row
  <2>2. GateRows(jobs[j].spec, FALSE, TRUE) \in Seq(QueuedRow)
    BY <2>1, SettleGate, ZenonT(60)
  <2>3. HookRows(j) \in Seq(QueuedRow)
    <3>1. HookSpec(jobs[j].spec) \in Spec_t /\ [kind |-> "hook", of |-> j] \in Origin
      BY <2>1, DerivedSpecs, ZenonT(60) DEF Origin, OriginKind
    <3> QED BY <3>1, QueuedRowType, RowLists DEF HookRows
  <2> QED BY <2>2, <2>3, RowLists, ZenonT(60)
<1> HIDE DEF dead, rows
<1>6. /\ inserted \in [JobId -> Row] /\ Fills(dead, inserted, rows)
      /\ \A i \in JobId : dead[i].state # "absent" => inserted[i] = dead[i]
      /\ \A i \in JobId : \/ inserted[i] = dead[i]
                          \/ dead[i].state = "absent" /\ inserted[i] \in QueuedRow
  <2>1. QueuedRow \in SUBSET Row
    BY DEF QueuedRow
  <2> QED BY <1>1, <1>3, <1>5, <2>1, SubmitFills, SubmitRows
<1> HIDE DEF inserted
<1>7. Absent(dead) = Absent(jobs)
  BY <1>3 DEF Absent
<1>8. \A i \in JobId : Quiet(jobs[i], inserted[i])
  BY <1>3, <1>6 DEF Quiet, QueuedRow, can_transition, TRANSITIONS
<1>9. inserted[j] = Settled(jobs[j], "dead") /\ inserted[j].state = "dead"
  BY <1>3, <1>6
<1>10. \A i \in JobId \ {j} : jobs[i].state # "absent" => inserted[i] = jobs[i]
  BY <1>3, <1>6
<1>11. Cut(C, j)
  BY <1>6, <1>8, <1>9, <1>10, ConeCut
<1> HIDE DEF C
<1>12. C \in SUBSET JobId /\ j \notin C /\ \A i \in C : jobs[i].state = "submitted"
  BY <1>11 DEF Cut
<1>13. \A i \in JobId : jobs'[i] = IF i \in C THEN Settled(inserted[i], "cancelled") ELSE inserted[i]
  BY <1>1 DEF cascade_cancel, C
<1>14. jobs'[j] = Settled(jobs[j], "dead")
  BY <1>9, <1>12, <1>13
<1>15. CutRows(C, j)
  BY <1>10, <1>13 DEF CutRows
<1>16. \A i \in Absent(jobs) : jobs'[i] = inserted[i]
  BY <1>12, <1>13 DEF Absent
<1>17. Fills(dead, jobs', rows)
  BY <1>6, <1>7, <1>16 DEF Fills, Injection
<1>18. \A i \in JobId : jobs[i] \in Row
  BY <1>2
<1>19. /\ \A i \in JobId : LET s == Settled(jobs[i], "cancelled")
                          IN  /\ s.state = "cancelled" /\ s.spec = jobs[i].spec
                              /\ s.origin = jobs[i].origin /\ s.cancel = jobs[i].cancel
                              /\ s.token = jobs[i].token
       /\ jobs'[j].state = "dead" /\ jobs'[j].spec = jobs[j].spec
       /\ jobs'[j].origin = jobs[j].origin /\ jobs'[j].cancel = jobs[j].cancel
  BY <1>2, <1>14, <1>18, RowColumns
<1>20. \A i \in JobId : ledger'[i] = IF i = j THEN ledger[i] \cup {"dead"}
                                    ELSE IF i \in C THEN ledger[i] \cup {"dependency_cancelled"}
                                    ELSE ledger[i]
  BY <1>1, <1>12 DEF record_events
<1>21. \A i \in JobId : jobs[i].state = "absent" =>
          jobs'[i] = jobs[i] \/ (jobs'[i].state = "queued" /\ Fresh(jobs'[i]))
  <2>1. \A i \in Absent(dead) : inserted[i] = dead[i] \/ \E k \in DOMAIN rows : inserted[i] = rows[k]
    BY <1>3, <1>6, FilledBy
  <2> QED BY <1>3, <1>4, <1>7, <1>16, <2>1 DEF Absent, FollowUp, Fresh
<1>22. Effects
  <2> SUFFICES ASSUME NEW i \in JobId
               PROVE  Effect(jobs[i], jobs'[i], ledger[i], ledger'[i])
    BY DEF Effects
  <2>1. CASE i = j
    BY <1>19, <1>20, <2>1, ZenonT(60) DEF Effect
  <2>2. CASE jobs[i].state = "absent"
    BY <1>12, <1>20, <1>21, <2>2, ZenonT(60) DEF Effect
  <2>3. CASE i # j /\ jobs[i].state # "absent"
    BY <1>12, <1>15, <1>19, <1>20, <2>3, ZenonT(60) DEF Effect, CutRows, LIVE_STATES
  <2> QED BY <2>1, <2>2, <2>3
<1>23. \A i \in JobId \ {j} : jobs'[i].state = "running" <=> jobs[i].state = "running"
  BY <1>12, <1>15, <1>19, <1>21 DEF CutRows
<1>24. \A i \in JobId : jobs[i].state # "absent" => jobs'[i].cancel = jobs[i].cancel
  BY <1>15, <1>19 DEF CutRows
<1>25. ledger' = record_events({j}, "dead", C)
  BY <1>1
<1> QED BY <1>1, <1>7, <1>11, <1>12, <1>14, <1>15, <1>17, <1>22, <1>23, <1>24, <1>25, ZenonT(60) DEF dead, rows

\* The two statements of cancel: a job that is not running is archived, a
\* running one is flagged, and with cascade what depends on it is archived too.
LEMMA CancelEffects ==
    ASSUME IInv, NEW j \in JobId, NEW cascade \in BOOLEAN,
           CancelImmediate(j, cascade) \/ CancelRunning(j, cascade)
    PROVE  \E C \in SUBSET JobId :
           /\ Effects /\ Calm /\ CutRows(C, j)
           /\ \/ jobs' = jobs
              \/ jobs[j].state = "running" /\ jobs'[j].state = "running"
              \/ jobs'[j].state = "cancelled"
           /\ \A i \in JobId : jobs'[i].state = "running" <=> jobs[i].state = "running"
           /\ \/ Cut(C, j)
              \/ C = {} /\ (jobs' = jobs \/ ~cascade)
<1>1. jobs \in [JobId -> Row] /\ ledger \in [JobId -> SUBSET TerminalEvent]
      /\ "cancelled" \in JobState
  BY DEF IInv, TypeOK, JobState, TERMINAL_STATES
<1>2. UNCHANGED <<edges, gates, stopped>>
  BY DEF CancelImmediate, CancelRunning
<1>3. CASE UNCHANGED <<jobs, ledger>>
  <2>1. Effects /\ Calm
    BY <1>2, <1>3 DEF Effects, Effect, Calm
  <2>2. CutRows({}, j)
    BY <1>3 DEF CutRows
  <2> QED BY <1>3, <2>1, <2>2
<1>4. ASSUME NEW T \in [JobId -> Row], NEW S \in SUBSET {j},
             Live(jobs, j), T[j].state \in {"running", "cancelled"},
             T[j].state = "running" => jobs[j].state = "running" /\ S = {},
             T[j].state = "cancelled" => jobs[j].state # "running" /\ S = {j},
             T[j].spec = jobs[j].spec, T[j].origin = jobs[j].origin,
             T[j].token = jobs[j].token, T[j].attempt = jobs[j].attempt,
             T[j].remaining = jobs[j].remaining,
             \A i \in JobId \ {j} : T[i] = jobs[i],
             NEW C, C = IF cascade THEN Cone(T, j) ELSE {},
             jobs' = IF cascade THEN cascade_cancel(T, j) ELSE T,
             ledger' = record_events(S, "cancelled", C)
      PROVE  \E D \in SUBSET JobId :
             /\ Effects /\ Calm /\ CutRows(D, j)
             /\ \/ jobs' = jobs
                \/ jobs[j].state = "running" /\ jobs'[j].state = "running"
                \/ jobs'[j].state = "cancelled"
             /\ \A i \in JobId : jobs'[i].state = "running" <=> jobs[i].state = "running"
             /\ \/ Cut(D, j)
                \/ D = {} /\ (jobs' = jobs \/ ~cascade)
  <2>1. \A i \in JobId : Quiet(jobs[i], T[i])
    <3>1. Quiet(jobs[j], T[j])
      BY <1>1, <1>4 DEF Quiet, Live
    <3> QED BY <1>4, <3>1 DEF Quiet
  <2>2. cascade => Cut(C, j)
    BY <1>4, <2>1, ConeCut
  <2>3. C \in SUBSET JobId /\ j \notin C /\ \A i \in C : jobs[i].state = "submitted"
    BY <1>4, <2>2 DEF Cut
  <2>4. \A i \in JobId : jobs'[i] = IF i \in C THEN Settled(T[i], "cancelled") ELSE T[i]
    BY <1>4 DEF cascade_cancel
  <2>5. CutRows(C, j) /\ jobs'[j] = T[j]
    BY <1>4, <2>3, <2>4 DEF CutRows
  <2>6. \A i \in JobId : LET s == Settled(jobs[i], "cancelled")
                         IN  /\ s.state = "cancelled" /\ s.spec = jobs[i].spec
                             /\ s.origin = jobs[i].origin /\ s.token = jobs[i].token
    BY <1>1, SettledColumns
  <2>7. \A i \in JobId : ledger'[i] = IF i \in S THEN ledger[i] \cup {"cancelled"}
                                      ELSE IF i \in C THEN ledger[i] \cup {"dependency_cancelled"}
                                      ELSE ledger[i]
    BY <1>4, <2>3 DEF record_events
  <2>8. \A i \in JobId \ {j} : jobs'[i] = IF i \in C THEN Settled(jobs[i], "cancelled") ELSE jobs[i]
    BY <1>4, <2>4
  <2>9. Effects
    <3> SUFFICES ASSUME NEW i \in JobId
                 PROVE  Effect(jobs[i], jobs'[i], ledger[i], ledger'[i])
      BY DEF Effects
    <3>1. CASE i = j
      BY <1>4, <2>3, <2>5, <2>7, <3>1, ZenonT(60) DEF Effect, Live, LIVE_STATES
    <3>2. CASE i # j
      BY <1>4, <2>3, <2>6, <2>7, <2>8, <3>2, ZenonT(60) DEF Effect, LIVE_STATES
    <3> QED BY <3>1, <3>2
  <2>10. /\ Calm
         /\ \A i \in JobId : jobs'[i].state = "running" <=> jobs[i].state = "running"
    <3>1. \A i \in JobId \ {j} : \/ jobs'[i] = jobs[i]
                                 \/ jobs[i].state = "submitted" /\ jobs'[i].state = "cancelled"
      BY <2>3, <2>6, <2>8
    <3> QED BY <1>2, <1>4, <2>5, <3>1 DEF Calm, Live, LIVE_STATES
  <2>11. (jobs[j].state = "running" /\ jobs'[j].state = "running") \/ jobs'[j].state = "cancelled"
    BY <1>4, <2>5
  <2>12. Cut(C, j) \/ (C = {} /\ ~cascade)
    BY <1>4, <2>2
  <2> QED BY <2>3, <2>5, <2>9, <2>10, <2>11, <2>12
<1>5. CASE CancelImmediate(j, cascade) /\ jobs[j].state # "running"
  <2> DEFINE T == archive(jobs, j, "cancelled")
             S == {j}
             C == IF cascade THEN Cone(T, j) ELSE {}
  <2>1. /\ Live(jobs, j)
        /\ jobs' = IF cascade THEN cascade_cancel(T, j) ELSE T
        /\ ledger' = record_events(S, "cancelled", C)
    BY <1>5, ZenonT(60) DEF CancelImmediate
  <2>2. \A r \in Row : /\ Settled(r, "cancelled").state = "cancelled"
                       /\ Settled(r, "cancelled").spec = r.spec
                       /\ Settled(r, "cancelled").origin = r.origin
                       /\ Settled(r, "cancelled").token = r.token
                       /\ Settled(r, "cancelled").attempt = r.attempt
                       /\ Settled(r, "cancelled").remaining = r.remaining
    BY DEF Settled, Row
  <2>3. /\ T \in [JobId -> Row] /\ T[j] = Settled(jobs[j], "cancelled")
        /\ \A i \in JobId \ {j} : T[i] = jobs[i]
    BY <1>1, ArchiveRows DEF archive
  <2>4. S \in SUBSET {j} /\ S = {j}
    OBVIOUS
  <2> HIDE DEF T, S
  <2>5. C = IF cascade THEN Cone(T, j) ELSE {}
    OBVIOUS
  <2> HIDE DEF C
  <2>6. /\ T[j].state = "cancelled" /\ T[j].spec = jobs[j].spec /\ T[j].origin = jobs[j].origin
        /\ T[j].token = jobs[j].token /\ T[j].attempt = jobs[j].attempt
        /\ T[j].remaining = jobs[j].remaining
    BY <1>1, <2>2, <2>3
  <2> QED BY <1>4, <1>5, <2>1, <2>3, <2>4, <2>5, <2>6
<1>6. CASE CancelRunning(j, cascade) /\ jobs[j].state = "running"
  <2> DEFINE T == [jobs EXCEPT ![j] = [@ EXCEPT !.cancel = TRUE]]
             S == {}
             C == IF cascade THEN Cone(T, j) ELSE {}
  <2>1. /\ jobs' = IF cascade THEN cascade_cancel(T, j) ELSE T
        /\ ledger' = record_events(S, "cancelled", C)
    BY <1>6 DEF CancelRunning
  <2>2. \A r \in Row : /\ [r EXCEPT !.cancel = TRUE] \in Row
                       /\ [r EXCEPT !.cancel = TRUE].state = r.state
                       /\ [r EXCEPT !.cancel = TRUE].spec = r.spec
                       /\ [r EXCEPT !.cancel = TRUE].origin = r.origin
                       /\ [r EXCEPT !.cancel = TRUE].token = r.token
                       /\ [r EXCEPT !.cancel = TRUE].attempt = r.attempt
                       /\ [r EXCEPT !.cancel = TRUE].remaining = r.remaining
    BY ZenonT(60) DEF Row
  <2>3. /\ T \in [JobId -> Row] /\ T[j] = [jobs[j] EXCEPT !.cancel = TRUE]
        /\ \A i \in JobId \ {j} : T[i] = jobs[i]
    BY <1>1, <2>2
  <2>4. S \in SUBSET {j} /\ S = {} /\ Live(jobs, j)
    BY <1>6 DEF Live, LIVE_STATES
  <2> HIDE DEF T, S
  <2>5. C = IF cascade THEN Cone(T, j) ELSE {}
    OBVIOUS
  <2> HIDE DEF C
  <2>6. /\ T[j].state = "running" /\ T[j].spec = jobs[j].spec /\ T[j].origin = jobs[j].origin
        /\ T[j].token = jobs[j].token /\ T[j].attempt = jobs[j].attempt
        /\ T[j].remaining = jobs[j].remaining
    BY <1>1, <1>6, <2>2, <2>3
  <2> QED BY <1>4, <1>6, <2>1, <2>3, <2>4, <2>5, <2>6, ZenonT(60)
<1>7. CASE CancelImmediate(j, cascade) /\ jobs[j].state = "running"
  BY <1>3, <1>7, ZenonT(60) DEF CancelImmediate
<1>8. CASE CancelRunning(j, cascade) /\ jobs[j].state # "running"
  BY <1>3, <1>8 DEF CancelRunning
<1> QED BY <1>5, <1>6, <1>7, <1>8

\* A worker's fail either retries the job or is its death.
LEMMA FailCases ==
    ASSUME NEW j \in JobId, NEW t, NEW retryable, NEW m, Fail(j, t, retryable, m)
    PROVE  /\ Calls(j, t) /\ owns(jobs, j, t) /\ jobs[j].state = "running"
           /\ \/ /\ jobs' = fail_retry(jobs, j)
                 /\ group_running' = decrement_group(group_running, jobs[j].spec)
                 /\ UNCHANGED <<ledger, edges, gates, stopped>>
              \/ Die(j)
  BY ZenonT(60) DEF Fail, owns

\* The sweeper's failing of a candidate is its death, if the lease still holds.
LEMMA FailExhaustedCases ==
    ASSUME IInv, NEW c \in candidates, FailExhausted(c[1], c[2])
    PROVE  /\ c[1] \in JobId
           /\ \/ /\ jobs[c[1]].state = "running" /\ <<c[1], jobs[c[1]].token>> \in candidates
                 /\ Die(c[1])
              \/ UNCHANGED <<jobs, edges, gates, group_running, ledger, stopped, submits>>
  BY DEF IInv, TypeOK, FailExhausted, owns

\* Every step has an effect of the list on every row.
LEMMA NextEffects ==
    ASSUME IInv, [Next]_vars
    PROVE  Effects
<1>1. CASE ClientStep
  BY <1>1, ClientBirths, ReleaseEffects, CancelEffects DEF ClientStep
<1>2. CASE \E S \in SUBSET JobId : Claim(S)
  BY <1>2, ClaimEffects
<1>3. CASE WorkerStep
  <2>1. PICK j \in JobId, t \in Nat :
              \/ \E skipped \in BOOLEAN, drop \in BOOLEAN : Complete(j, t, skipped, drop)
              \/ \E retryable, m : Fail(j, t, retryable, m)
              \/ Heartbeat(j, t)
              \/ Wait(j, t)
    BY <1>3, WorkerCases
  <2>2. CASE \E skipped \in BOOLEAN, drop \in BOOLEAN : Complete(j, t, skipped, drop)
    BY <2>2, CompleteEffects, ZenonT(60)
  <2>3. CASE \E retryable, m : Fail(j, t, retryable, m)
    BY <2>3, FailCases, RetryEffects, DieEffects, ZenonT(60)
  <2> QED BY <2>1, <2>2, <2>3, StillEffects, WaitEffects
<1>4. CASE TimeStep
  BY <1>4, StillEffects
<1>5. CASE SweepStep
  <2>1. CASE \E c \in candidates : FailExhausted(c[1], c[2])
    <3>1. PICK c \in candidates : FailExhausted(c[1], c[2])
      BY <2>1
    <3>2. CASE UNCHANGED <<jobs, ledger>>
      BY <3>2 DEF Effects, Effect
    <3> QED BY <3>1, <3>2, FailExhaustedCases, DieEffects, ZenonT(60)
  <2> QED BY <1>5, <2>1, StillEffects, ReleaseEffects, ReclaimEffects, ZenonT(60) DEF SweepStep
<1>6. CASE UNCHANGED vars
  BY <1>6, StillEffects
<1> QED BY <1>1, <1>2, <1>3, <1>4, <1>5, <1>6 DEF Next

(***************************************************************************)
(* Row by row: the ledger, the lease token, and ids without a row.         *)
(***************************************************************************)
\* An id without a row is blank.
BlankRows == \A i \in JobId : jobs[i].state = "absent" => jobs[i] = NoRow

\* The token of a running row is the one its last claim drew, and no other row of
\* the jobs table holds one.
LeaseTokens ==
    \A i \in JobId :
        /\ jobs[i].state = "running" => jobs[i].token = jobs[i].attempt /\ jobs[i].token # 0
        /\ jobs[i].state \in LIVE_STATES \ {"running"} => jobs[i].token = 0

RInv == IInv /\ BlankRows /\ LeaseTokens /\ LedgerAgrees

\* Initially there are neither rows nor events.
LEMMA InitRInv == Init => RInv
<1> SUFFICES ASSUME Init PROVE RInv
  OBVIOUS
<1>1. \A i \in JobId : jobs[i] = NoRow /\ ledger[i] = {} /\ jobs[i].state = "absent"
  BY DEF Init, NoRow, NewRow
<1>2. Cardinality({}) = 0
  BY FS_EmptySet
<1> QED BY <1>1, <1>2, InitIInv DEF RInv, BlankRows, LeaseTokens, LedgerAgrees, LIVE_STATES

\* The effects keep the ledger in agreement with the rows: the first terminal
\* event of a job is written when the row leaves the jobs table.
LEMMA NextRInv ==
    ASSUME RInv, [Next]_vars
    PROVE  RInv' /\ Effects
<1>1. Effects
  BY NextEffects DEF RInv
<1>2. IInv'
  BY NextIInv, StutterIInv DEF RInv
<1>3. BlankRows' /\ LeaseTokens'
  <2>1. /\ \A i \in JobId : jobs[i].state = "absent" => jobs[i] = NoRow
        /\ \A i \in JobId :
              /\ jobs[i].state = "running" => jobs[i].token = jobs[i].attempt /\ jobs[i].token # 0
              /\ jobs[i].state \in LIVE_STATES \ {"running"} => jobs[i].token = 0
    BY DEF RInv, BlankRows, LeaseTokens
  <2>2. \A i \in JobId : Effect(jobs[i], jobs'[i], ledger[i], ledger'[i])
    BY <1>1 DEF Effects
  <2>3. \A i \in JobId : jobs'[i].state = "absent" => jobs'[i] = jobs[i]
    BY <2>2 DEF Effect, LiveMoves, Fresh
  <2>4. \A i \in JobId :
           /\ jobs'[i].state = "running" => jobs'[i].token = jobs'[i].attempt /\ jobs'[i].token # 0
           /\ jobs'[i].state \in LIVE_STATES \ {"running"} => jobs'[i].token = 0
    <3> SUFFICES ASSUME NEW i \in JobId
                 PROVE  /\ jobs'[i].state = "running" =>
                              jobs'[i].token = jobs'[i].attempt /\ jobs'[i].token # 0
                        /\ jobs'[i].state \in LIVE_STATES \ {"running"} => jobs'[i].token = 0
      OBVIOUS
    <3>1. Effect(jobs[i], jobs'[i], ledger[i], ledger'[i])
      BY <2>2
    <3>2. CASE jobs[i].state = "absent"
      BY <3>1, <3>2 DEF Effect, Fresh, LIVE_STATES
    <3>3. CASE jobs[i].state # "absent"
      BY <2>1, <3>1, <3>3 DEF Effect, LiveMoves, TokenMoves, LIVE_STATES
    <3> QED BY <3>2, <3>3
  <2> QED BY <2>1, <2>3, <2>4 DEF BlankRows, LeaseTokens
<1>4. LedgerAgrees'
  <2> SUFFICES ASSUME NEW j \in JobId
               PROVE  /\ Cardinality(ledger'[j]) <= 1
                      /\ ledger'[j] \cap {"succeeded", "skipped"} # {} <=> jobs'[j].state = "succeeded"
                      /\ "dead" \in ledger'[j] <=> jobs'[j].state = "dead"
                      /\ ledger'[j] \cap {"cancelled", "dependency_cancelled"} # {} <=>
                            jobs'[j].state = "cancelled" /\ jobs'[j].token = 0
    BY DEF LedgerAgrees, SweptAway
  <2>1. /\ Cardinality(ledger[j]) <= 1
        /\ ledger[j] \cap {"succeeded", "skipped"} # {} <=> jobs[j].state = "succeeded"
        /\ "dead" \in ledger[j] <=> jobs[j].state = "dead"
        /\ ledger[j] \cap {"cancelled", "dependency_cancelled"} # {} <=>
              jobs[j].state = "cancelled" /\ jobs[j].token = 0
        /\ ledger[j] \subseteq TerminalEvent
    BY DEF RInv, LedgerAgrees, SweptAway, IInv, TypeOK
  <2>2. jobs[j].state \in LIVE_STATES \cup {"absent"} => ledger[j] = {}
    BY <2>1 DEF TerminalEvent, LIVE_STATES
  <2>3. Effect(jobs[j], jobs'[j], ledger[j], ledger'[j])
    BY <1>1 DEF Effects
  <2>4. /\ jobs[j].state = "running" => jobs[j].token # 0
        /\ jobs[j].state \in LIVE_STATES \ {"running"} => jobs[j].token = 0
    BY DEF RInv, LeaseTokens
  <2>5. CASE ledger'[j] = ledger[j]
    <3>1. \/ jobs'[j].state = jobs[j].state /\ jobs'[j].token = jobs[j].token
          \/ /\ jobs[j].state \in LIVE_STATES \cup {"absent"}
             /\ \/ jobs'[j].state \in LIVE_STATES
                \/ jobs'[j].state = "cancelled" /\ jobs'[j].token # 0
      BY <2>2, <2>3, <2>4, <2>5 DEF Effect, LiveMoves, LIVE_STATES, Fresh
    <3>2. CASE jobs'[j].state = jobs[j].state /\ jobs'[j].token = jobs[j].token
      BY <2>1, <2>5, <3>2
    <3>3. CASE jobs[j].state \in LIVE_STATES \cup {"absent"}
      BY <2>1, <2>2, <2>5, <3>1, <3>2, <3>3 DEF LIVE_STATES
    <3> QED BY <3>1, <3>2, <3>3
  <2>6. CASE ledger'[j] # ledger[j]
    <3>1. ledger[j] = {}
      BY <2>2, <2>3, <2>6 DEF Effect, LIVE_STATES
    <3>2. \/ jobs'[j].state = "succeeded" /\ ledger'[j] \in {{"succeeded"}, {"skipped"}}
          \/ jobs'[j].state = "dead" /\ ledger'[j] = {"dead"}
          \/ /\ jobs'[j].state = "cancelled" /\ jobs'[j].token = 0
             /\ ledger'[j] \in {{"cancelled"}, {"dependency_cancelled"}}
      BY <2>3, <2>4, <2>6, <3>1, ZenonT(60) DEF Effect
    <3>3. Cardinality(ledger'[j]) <= 1
      <4>1. \E x : ledger'[j] = {x}
        BY <3>2
      <4>2. PICK x : ledger'[j] = {x}
        BY <4>1
      <4>3. Cardinality({x}) = 1
        BY FS_Singleton
      <4> QED BY <4>2, <4>3
    <3>4. CASE jobs'[j].state = "succeeded" /\ ledger'[j] = {"succeeded"}
      BY <3>3, <3>4
    <3>5. CASE jobs'[j].state = "succeeded" /\ ledger'[j] = {"skipped"}
      BY <3>3, <3>5
    <3>6. CASE jobs'[j].state = "dead" /\ ledger'[j] = {"dead"}
      BY <3>3, <3>6
    <3>7. CASE jobs'[j].state = "cancelled" /\ jobs'[j].token = 0 /\ ledger'[j] = {"cancelled"}
      BY <3>3, <3>7
    <3>8. CASE /\ jobs'[j].state = "cancelled" /\ jobs'[j].token = 0
               /\ ledger'[j] = {"dependency_cancelled"}
      BY <3>3, <3>8
    <3> QED BY <3>2, <3>4, <3>5, <3>6, <3>7, <3>8
  <2> QED BY <2>5, <2>6
<1> QED BY <1>1, <1>2, <1>3, <1>4 DEF RInv

\* RInv holds in every state the engine reaches.
THEOREM RowInvariance == Spec => []RInv
<1>1. RInv /\ [Next]_vars => RInv'
  BY NextRInv
<1> QED BY <1>1, InitRInv, PTL DEF Spec

\* For any set of jobs and any interleaving, the job_events ledger agrees with
\* the archive: a job has a terminal event once it is archived and not before, one
\* in its whole life, and it names the state the job was archived in.  The one
\* exception is a cancelled job that the lease sweeper archives (SweptAway).
THEOREM LedgerTellsOneStory == Spec => []LedgerAgrees
<1>1. RInv => LedgerAgrees
  BY DEF RInv
<1> QED BY <1>1, RowInvariance, PTL

-----------------------------------------------------------------------------
(***************************************************************************)
(* The four kinds of steps.                                                *)
(***************************************************************************)
\* The gate a fan-out creates, and its children: every row of the list belongs
\* to it, and the gate expects as many as the list has.
FansOut(rows) ==
    \E g \in GateId, gs \in GateSpecs :
        /\ gates[g].expected = 0
        /\ gates' = [gates EXCEPT ![g] =
                        [NoGate EXCEPT !.policy = gs.policy, !.quorum_n = gs.quorum_n,
                                       !.expected = Len(gs.children),
                                       !.on_complete = gs.on_complete]]
        /\ DOMAIN rows = 1..Len(gs.children)
        /\ \A k \in DOMAIN rows : rows[k].spec = [gs.children[k] EXCEPT !.gate = g]

\* A client inserts rows that follow up on no job: a submit, a resubmit, a fan-out.
Inserts(rows) ==
    /\ Fills(jobs, jobs', rows)
    /\ \A i \in JobId : jobs[i].state # "absent" => jobs'[i] = jobs[i]
    /\ UNCHANGED <<ledger, stopped>>
    /\ \A k \in DOMAIN rows : rows[k].origin.kind \in {"client", "replay"}
    /\ \/ /\ UNCHANGED gates
          /\ \E s : /\ rows = <<rows[1]>> /\ rows[1].spec = s /\ s.gate = 0
                    /\ \/ s \in Specs
                       \/ \E j \in JobId : /\ jobs[j].state # "absent"
                                           /\ s = [jobs[j].spec EXCEPT !.dedup = Null, !.gate = 0]
       \/ FansOut(rows)

Completes == \E j \in JobId, t \in Nat, skipped \in BOOLEAN, drop \in BOOLEAN :
                Complete(j, t, skipped, drop)
Dies == \E j \in JobId : jobs[j].state = "running" /\ Die(j)

\* Submit inserts one row with no gate.
LEMMA SubmitInserts ==
    ASSUME IInv, NEW spec \in Specs, NEW d, NEW deferred, Submit(spec, d, deferred)
    PROVE  \E rows : Inserts(rows)
<1> DEFINE st == IF d # <<>> \/ deferred THEN "submitted" ELSE "queued"
           row == [NewRow(st, spec, FromClient) EXCEPT !.remaining = Len(d), !.due = ~deferred]
           rows == <<row>>
<1>1. Fits(jobs, rows) /\ jobs' = submit(jobs, rows) /\ UNCHANGED <<ledger, stopped, gates>>
  BY DEF Submit
<1>2. row.origin.kind = "client" /\ row.spec = spec /\ Fresh(row)
  <2> DEFINE n == Len(d)
             late == ~deferred
  <2> HIDE DEF n, late
  <2>1. \A x : LET r == [NewRow(x, spec, FromClient) EXCEPT !.remaining = n, !.due = late]
               IN  /\ r.origin = FromClient /\ r.spec = spec /\ r.state = x
                   /\ r.cancel = FALSE /\ r.token = 0
    BY DEF NewRow
  <2>2. /\ row.origin = FromClient /\ row.spec = spec /\ row.state = st
        /\ row.cancel = FALSE /\ row.token = 0
    BY <2>1 DEF n, late
  <2> QED BY <2>2 DEF FromClient, Fresh
<1> HIDE DEF row
<1>3. rows = <<rows[1]>> /\ rows[1] = row /\ DOMAIN rows = {1}
  OBVIOUS
<1> HIDE DEF rows
<1>4. /\ Fills(jobs, jobs', rows)
      /\ \A i \in JobId : jobs[i].state # "absent" => jobs'[i] = jobs[i]
  BY <1>1, <1>2, <1>3, BirthEffects
<1>5. spec.gate = 0
  BY EngineAssumption
<1> QED BY <1>1, <1>2, <1>3, <1>4, <1>5, ZenonT(60) DEF Inserts

\* Resubmit inserts one copy, outside the gate of the job it copies.
LEMMA ResubmitInserts ==
    ASSUME IInv, NEW j \in JobId, Resubmit(j)
    PROVE  \E rows : Inserts(rows)
<1> DEFINE spec == [jobs[j].spec EXCEPT !.dedup = Null, !.gate = 0]
           row == NewRow("queued", spec, [kind |-> "replay", of |-> j])
           rows == <<row>>
<1>1. /\ Fits(jobs, rows) /\ jobs' = submit(jobs, rows) /\ UNCHANGED <<ledger, stopped, gates>>
      /\ jobs[j].state # "absent"
  BY DEF Resubmit, Terminal, TERMINAL_STATES
<1>2. row.origin.kind = "replay" /\ row.spec = spec /\ Fresh(row)
  BY DEF NewRow, Fresh
<1>3. spec.gate = 0
  BY DEF IInv, TypeOK, Row, Spec_t
<1> HIDE DEF row
<1>4. rows = <<rows[1]>> /\ rows[1] = row /\ DOMAIN rows = {1}
  OBVIOUS
<1> HIDE DEF rows
<1>5. /\ Fills(jobs, jobs', rows)
      /\ \A i \in JobId : jobs[i].state # "absent" => jobs'[i] = jobs[i]
  BY <1>1, <1>2, <1>4, BirthEffects
<1> QED BY <1>1, <1>2, <1>3, <1>4, <1>5, ZenonT(60) DEF Inserts

\* A fan-out inserts the children of the gate it creates.
LEMMA FanOutInserts ==
    ASSUME IInv, NEW gs \in GateSpecs, FanOut(gs)
    PROVE  \E rows : Inserts(rows)
<1>1. PICK g \in GateId :
        LET rows == [k \in DOMAIN gs.children |->
                      NewRow("queued", [gs.children[k] EXCEPT !.gate = g], FromClient)]
        IN  /\ gates[g].expected = 0
            /\ Fits(jobs, rows)
            /\ gates' = [gates EXCEPT ![g] =
                  [NoGate EXCEPT !.policy = gs.policy, !.quorum_n = gs.quorum_n,
                                 !.expected = Len(gs.children),
                                 !.on_complete = gs.on_complete]]
            /\ jobs' = submit(jobs, rows)
            /\ UNCHANGED <<ledger, stopped>>
  BY ZenonT(60) DEF FanOut
<1> DEFINE rows == [k \in DOMAIN gs.children |->
                      NewRow("queued", [gs.children[k] EXCEPT !.gate = g], FromClient)]
<1>2. /\ gates[g].expected = 0
      /\ Fits(jobs, rows)
      /\ gates' = [gates EXCEPT ![g] =
            [NoGate EXCEPT !.policy = gs.policy, !.quorum_n = gs.quorum_n,
                           !.expected = Len(gs.children),
                           !.on_complete = gs.on_complete]]
      /\ jobs' = submit(jobs, rows)
      /\ UNCHANGED <<ledger, stopped>>
  BY <1>1
<1>3. \A k \in DOMAIN rows : /\ rows[k].origin.kind = "client" /\ Fresh(rows[k])
                             /\ rows[k].spec = [gs.children[k] EXCEPT !.gate = g]
  BY DEF NewRow, FromClient, Fresh
<1>4. DOMAIN rows = 1..Len(gs.children)
  BY EngineAssumption DEF GateSpec_t
<1> HIDE DEF rows
<1>5. /\ Fills(jobs, jobs', rows)
      /\ \A i \in JobId : jobs[i].state # "absent" => jobs'[i] = jobs[i]
  BY <1>2, <1>3, BirthEffects, ZenonT(60)
<1>6. FansOut(rows)
  BY <1>2, <1>3, <1>4, ZenonT(60) DEF FansOut
<1> QED BY <1>2, <1>3, <1>5, <1>6, ZenonT(60) DEF Inserts

\* Every step inserts rows for a client, completes a job, is the death of one, or
\* inserts nothing and settles nothing.
LEMMA NextKinds ==
    ASSUME IInv, [Next]_vars
    PROVE  Calm \/ (\E rows : Inserts(rows)) \/ Completes \/ Dies
<1>1. CASE ClientStep
  BY <1>1, SubmitInserts, FanOutInserts, ResubmitInserts, ReleaseEffects, CancelEffects DEF ClientStep
<1>2. CASE \E S \in SUBSET JobId : Claim(S)
  BY <1>2, ClaimEffects
<1>3. CASE WorkerStep
  <2>1. PICK j \in JobId, t \in Nat :
              \/ \E skipped \in BOOLEAN, drop \in BOOLEAN : Complete(j, t, skipped, drop)
              \/ \E retryable, m : Fail(j, t, retryable, m)
              \/ Heartbeat(j, t)
              \/ Wait(j, t)
    BY <1>3, WorkerCases
  <2>2. CASE \E retryable, m : Fail(j, t, retryable, m)
    BY <2>2, FailCases, RetryEffects DEF Dies
  <2> QED BY <2>1, <2>2, StillEffects, WaitEffects DEF Completes
<1>4. CASE TimeStep
  BY <1>4, StillEffects
<1>5. CASE SweepStep
  <2>1. CASE \E c \in candidates : FailExhausted(c[1], c[2])
    <3>1. CASE UNCHANGED <<jobs, edges, gates, stopped>>
      BY <3>1 DEF Calm
    <3> QED BY <2>1, <3>1, FailExhaustedCases, ZenonT(60) DEF Dies
  <2> QED BY <1>5, <2>1, StillEffects, ReleaseEffects, ReclaimEffects DEF SweepStep
<1>6. CASE UNCHANGED vars
  BY <1>6, StillEffects
<1> QED BY <1>1, <1>2, <1>3, <1>4, <1>5, <1>6 DEF Next


(***************************************************************************)
(* Follow-ups.                                                             *)
(***************************************************************************)
\* Where the rows an INSERT adds come from: a job or gate that is the origin of
\* no row of the list keeps its follow-ups; one that is the origin of exactly one
\* row, which no dedup key refuses, gets one more.
LEMMA BornOrigins ==
    ASSUME RInv, RInv', Effects, NEW T, NEW rows, Absent(T) = Absent(jobs), Fills(T, jobs', rows),
           NEW kind, NEW id, kind # "none"
    PROVE  /\ (\A k \in DOMAIN rows : rows[k].origin # [kind |-> kind, of |-> id]) =>
                 FollowUps(kind, id)' = FollowUps(kind, id)
           /\ \A k \in DOMAIN rows :
                 /\ rows[k].spec.dedup = Null
                 /\ \A m \in DOMAIN rows : rows[m].origin = [kind |-> kind, of |-> id] <=> m = k
                 => \E new \in JobId \ FollowUps(kind, id) :
                       /\ FollowUps(kind, id)' = FollowUps(kind, id) \cup {new}
                       /\ jobs'[new] = rows[k]
<1> DEFINE o == [kind |-> kind, of |-> id]
           K == Inserted(T, rows)
<1>1. PICK ids \in Injection(K, Absent(T)) :
        /\ \A k \in K : jobs'[ids[k]] = rows[k]
        /\ \A i \in Absent(T) : (\A k \in K : ids[k] # i) => jobs'[i] = T[i]
  BY DEF Fills
<1>2. /\ ids \in [K -> Absent(jobs)]
      /\ \A k, m \in K : ids[k] = ids[m] => k = m
  BY <1>1 DEF Injection, IsInjective
<1>3. K \subseteq DOMAIN rows /\ \A k \in DOMAIN rows : rows[k].spec.dedup = Null => k \in K
  BY DEF Inserted, Dup
<1> HIDE DEF K
<1>4. NoRow.origin # o
  BY DEF NoRow, NewRow
<1>5. \A i \in Absent(jobs) : i \in JobId /\ jobs[i].state = "absent" /\ jobs[i].origin # o
  BY <1>4 DEF RInv, BlankRows, Absent
<1>6. \A i \in Absent(jobs) : (\A k \in K : ids[k] # i) => jobs'[i].origin # o
  <2>1. \A i \in Absent(T) : T[i].state = "absent"
    BY DEF Absent
  <2>2. \A i \in JobId : jobs'[i].state = "absent" => jobs'[i] = NoRow
    BY DEF RInv, BlankRows
  <2> QED BY <1>1, <1>4, <1>5, <2>1, <2>2
<1>7. \A i \in JobId \ Absent(jobs) : jobs'[i].origin = jobs[i].origin
  BY ZenonT(60) DEF Effects, Effect, Absent
<1>8. \A i \in JobId : i \in FollowUps(kind, id)' <=>
         i \in FollowUps(kind, id) \/ \E k \in K : ids[k] = i /\ rows[k].origin = o
  <2> SUFFICES ASSUME NEW i \in JobId
               PROVE  jobs'[i].origin = o <=>
                        jobs[i].origin = o \/ \E k \in K : ids[k] = i /\ rows[k].origin = o
    BY DEF FollowUps
  <2>1. CASE i \notin Absent(jobs)
    BY <1>2, <1>7, <2>1
  <2>2. CASE i \in Absent(jobs)
    BY <1>1, <1>2, <1>5, <1>6, <2>2
  <2> QED BY <2>1, <2>2
<1>9. FollowUps(kind, id) \subseteq JobId /\ FollowUps(kind, id)' \subseteq JobId
  BY DEF FollowUps
<1>10. ASSUME NEW k \in DOMAIN rows, rows[k].spec.dedup = Null,
              \A m \in DOMAIN rows : rows[m].origin = o <=> m = k
       PROVE  \E new \in JobId \ FollowUps(kind, id) :
                 /\ FollowUps(kind, id)' = FollowUps(kind, id) \cup {new}
                 /\ jobs'[new] = rows[k]
  <2>1. k \in K /\ ids[k] \in JobId /\ ids[k] \notin FollowUps(kind, id)
    BY <1>2, <1>3, <1>5, <1>10 DEF FollowUps
  <2>2. \A i \in JobId : i \in FollowUps(kind, id)' <=> i \in FollowUps(kind, id) \/ i = ids[k]
    BY <1>3, <1>8, <1>10, <2>1
  <2> QED BY <1>1, <1>9, <2>1, <2>2
<1>11. (\A k \in DOMAIN rows : rows[k].origin # o) => FollowUps(kind, id)' = FollowUps(kind, id)
  BY <1>3, <1>8, <1>9, ZenonT(60)
<1> QED BY <1>10, <1>11

\* No row of the list follows up on id.
NoFollower(rows, kind, id) ==
    \A k \in DOMAIN rows : rows[k].origin # [kind |-> kind, of |-> id]

\* Row k of the list does, alone, and no dedup key refuses it.
OnlyFollower(rows, k, kind, id) ==
    /\ rows[k].spec.dedup = Null
    /\ \A m \in DOMAIN rows : rows[m].origin = [kind |-> kind, of |-> id] <=> m = k

\* One more row follows up on id.
OneMore(kind, id, row) ==
    \E new \in JobId \ FollowUps(kind, id) :
        FollowUps(kind, id)' = FollowUps(kind, id) \cup {new} /\ jobs'[new] = row

\* The first half of BornOrigins.
LEMMA NoneBorn ==
    ASSUME RInv, RInv', Effects, NEW T, NEW rows, Absent(T) = Absent(jobs), Fills(T, jobs', rows),
           NEW kind, NEW id, kind # "none", NoFollower(rows, kind, id)
    PROVE  FollowUps(kind, id)' = FollowUps(kind, id)
  BY BornOrigins DEF NoFollower

\* The second half.
LEMMA OneBorn ==
    ASSUME RInv, RInv', Effects, NEW T, NEW rows, Absent(T) = Absent(jobs), Fills(T, jobs', rows),
           NEW kind, NEW id, kind # "none", NEW k \in DOMAIN rows, OnlyFollower(rows, k, kind, id)
    PROVE  OneMore(kind, id, rows[k])
  BY BornOrigins DEF OnlyFollower, OneMore

GateList(gate, g) == gate = <<>> \/ \E r : gate = <<r>> /\ r.origin = g

\* The list has p once, if own does, and otherwise rows of gate, of origin g.
OnceIn(list, own, gate, p, g) ==
    /\ \A k \in DOMAIN list : list[k] = p \/ \E m \in DOMAIN gate : list[k] = gate[m]
    /\ \A k \in DOMAIN list : list[k].origin \in {p.origin, g}
    /\ own = <<p>> => \E k \in DOMAIN list :
          /\ list[k] = p
          /\ \A m \in DOMAIN list : list[m].origin = p.origin <=> m = k
    /\ own = <<>> => \A k \in DOMAIN list : list[k].origin # p.origin

\* The rows a settling job inserts: its own follow-up p, if it owes one, and the
\* row of its gate, in either order.  The list holds p at most once.
LEMMA OwnRows ==
    ASSUME NEW p, NEW own \in {<<>>, <<p>>}, NEW g, g # p.origin,
           NEW gate, GateList(gate, g),
           NEW list \in {own \o gate, gate \o own}
    PROVE  OnceIn(list, own, gate, p, g)
<1>1. PICK r : gate \in {<<>>, <<r>>} /\ r.origin = g
  <2>1. CASE gate = <<>>
    <3> DEFINE r == [origin |-> g]
    <3>1. r.origin = g
      OBVIOUS
    <3> HIDE DEF r
    <3> QED BY <2>1, <3>1
  <2> QED BY <2>1 DEF GateList
<1>2. /\ own = <<>> => list \in {<<>>, <<r>>}
      /\ own = <<p>> => list \in {<<p>>, <<p, r>>, <<r, p>>}
  BY <1>1, ShortLists, ZenonT(60)
<1>3. \A k \in DOMAIN list : list[k] \in {p, r}
  BY <1>2
<1>4. \A k \in DOMAIN list : list[k] = p \/ \E m \in DOMAIN gate : list[k] = gate[m]
  <2>1. CASE gate = <<>>
    <3>1. list \in {<<>>, <<p>>}
      BY <2>1, ShortLists
    <3> QED BY <3>1
  <2>2. CASE gate = <<r>>
    <3>1. 1 \in DOMAIN gate /\ gate[1] = r
      BY <2>2
    <3> QED BY <1>3, <3>1
  <2> QED BY <1>1, <2>1, <2>2
<1>5. ASSUME own = <<>>, NEW k \in DOMAIN list PROVE list[k] = r
  BY <1>2, <1>5
<1>6. ASSUME own = <<p>>
      PROVE  \E k \in DOMAIN list : list[k] = p /\ \A m \in DOMAIN list : m = k \/ list[m] = r
  BY <1>2, <1>6
<1>7. /\ \A k \in DOMAIN list : list[k].origin \in {p.origin, g}
      /\ own = <<>> => \A k \in DOMAIN list : list[k].origin # p.origin
  BY <1>1, <1>3, <1>5
<1>8. ASSUME own = <<p>>
      PROVE  \E k \in DOMAIN list :
                 /\ list[k] = p
                 /\ \A m \in DOMAIN list : list[m].origin = p.origin <=> m = k
  BY <1>1, <1>6, <1>8
<1> QED BY <1>4, <1>7, <1>8 DEF OnceIn

\* The continuation and the hook of a job name it as their origin and carry no
\* dedup key, so nothing refuses them.
LEMMA OwnRowColumns ==
    ASSUME NEW j, jobs[j] \in Row
    PROVE  /\ LET p == NewRow("queued", advance(jobs[j].spec), [kind |-> "chain", of |-> j])
              IN  p.origin = [kind |-> "chain", of |-> j] /\ p.spec.dedup = Null /\ p.spec.gate = 0
           /\ LET p == NewRow("queued", HookSpec(jobs[j].spec), [kind |-> "hook", of |-> j])
              IN  p.origin = [kind |-> "hook", of |-> j] /\ p.spec.dedup = Null /\ p.spec.gate = 0
<1>1. advance(jobs[j].spec).dedup = Null /\ advance(jobs[j].spec).gate = 0
  BY DEF Row, Spec_t, advance
<1>2. HookSpec(jobs[j].spec).dedup = Null /\ HookSpec(jobs[j].spec).gate = 0
  BY DEF HookSpec, NoSpec
<1>3. \A s, x : NewRow("queued", s, x).origin = x /\ NewRow("queued", s, x).spec = s
  BY DEF NewRow
<1> QED BY <1>1, <1>2, <1>3, ZenonT(60)

\* _settle_gate inserts no row, or one whose origin is the gate.
LEMMA GateRowOrigin ==
    ASSUME NEW spec, NEW ok \in BOOLEAN, NEW bad \in BOOLEAN
    PROVE  GateList(GateRows(spec, ok, bad), [kind |-> "gate", of |-> spec.gate])
<1>1. \A s, x : NewRow("queued", s, x).origin = x
  BY DEF NewRow
<1>2. \/ GateRows(spec, ok, bad) = <<>>
      \/ \E s : GateRows(spec, ok, bad) =
                   <<NewRow("queued", s, [kind |-> "gate", of |-> spec.gate])>>
  BY GateRowFacts, ZenonT(60)
<1> QED BY <1>1, <1>2 DEF GateList

CompleteList(j, skipped, drop) == ChainRows(j, drop) \o GateRows(jobs[j].spec, ~skipped, FALSE)
DieList(j) == GateRows(jobs[j].spec, FALSE, TRUE) \o HookRows(j)

\* What a complete inserts: the continuation, unless there is none or the worker
\* dropped it, and the row of the gate.
LEMMA CompleteListOnce ==
    ASSUME NEW j, jobs[j] \in Row, NEW skipped \in BOOLEAN, NEW drop \in BOOLEAN
    PROVE  LET p == NewRow("queued", advance(jobs[j].spec), [kind |-> "chain", of |-> j])
               own == IF HasNext(jobs[j].spec) /\ ~drop THEN <<p>> ELSE <<>>
           IN  /\ p.origin = [kind |-> "chain", of |-> j] /\ p.spec.dedup = Null
               /\ OnceIn(CompleteList(j, skipped, drop), own,
                         GateRows(jobs[j].spec, ~skipped, FALSE), p,
                         [kind |-> "gate", of |-> jobs[j].spec.gate])
<1> DEFINE ok == ~skipped
           c == [kind |-> "chain", of |-> j]
           g == [kind |-> "gate", of |-> jobs[j].spec.gate]
           p == NewRow("queued", advance(jobs[j].spec), c)
           gate == GateRows(jobs[j].spec, ok, FALSE)
           own == IF HasNext(jobs[j].spec) /\ ~drop THEN <<p>> ELSE <<>>
           rows == CompleteList(j, skipped, drop)
<1>1. p.origin = c /\ p.spec.dedup = Null
  BY OwnRowColumns, ZenonT(60)
<1>2. g # c
  <2>1. g.kind = "gate" /\ c.kind = "chain"
    OBVIOUS
  <2> QED BY <2>1
<1>3. GateList(gate, g)
  <2>1. ok \in BOOLEAN
    OBVIOUS
  <2> HIDE DEF ok
  <2> QED BY <2>1, GateRowOrigin, ZenonT(60)
<1>4. rows = own \o gate
  BY DEF CompleteList, ChainRows
<1>5. own \in {<<>>, <<p>>}
  OBVIOUS
<1> HIDE DEF rows, own, gate, p, c, g
<1>6. rows \in {own \o gate, gate \o own} /\ g # p.origin
  BY <1>1, <1>2, <1>4
<1>7. OnceIn(rows, own, gate, p, g)
  BY <1>3, <1>5, <1>6, OwnRows, ZenonT(60)
<1> QED BY <1>1, <1>7, ZenonT(60) DEF rows, own, gate, p, c, g

\* What a death inserts: the row of the gate, and the hook if there is one.
LEMMA DieListOnce ==
    ASSUME NEW j, jobs[j] \in Row
    PROVE  LET p == NewRow("queued", HookSpec(jobs[j].spec), [kind |-> "hook", of |-> j])
               own == IF jobs[j].spec.hook # <<>> THEN <<p>> ELSE <<>>
           IN  /\ p.origin = [kind |-> "hook", of |-> j] /\ p.spec.dedup = Null
               /\ OnceIn(DieList(j), own, GateRows(jobs[j].spec, FALSE, TRUE), p,
                         [kind |-> "gate", of |-> jobs[j].spec.gate])
<1> DEFINE h == [kind |-> "hook", of |-> j]
           g == [kind |-> "gate", of |-> jobs[j].spec.gate]
           p == NewRow("queued", HookSpec(jobs[j].spec), h)
           gate == GateRows(jobs[j].spec, FALSE, TRUE)
           own == IF jobs[j].spec.hook # <<>> THEN <<p>> ELSE <<>>
           rows == DieList(j)
<1>1. p.origin = h /\ p.spec.dedup = Null
  BY OwnRowColumns, ZenonT(60)
<1>2. g # h
  <2>1. g.kind = "gate" /\ h.kind = "hook"
    OBVIOUS
  <2> QED BY <2>1
<1>3. GateList(gate, g)
  BY GateRowOrigin, ZenonT(60)
<1>4. rows = gate \o own
  BY ZenonT(60) DEF DieList, HookRows
<1>5. own \in {<<>>, <<p>>}
  OBVIOUS
<1> HIDE DEF rows, own, gate, p, h, g
<1>6. rows \in {own \o gate, gate \o own} /\ g # p.origin
  BY <1>1, <1>2, <1>4
<1>7. OnceIn(rows, own, gate, p, g)
  BY <1>3, <1>5, <1>6, OwnRows, ZenonT(60)
<1> QED BY <1>1, <1>7, ZenonT(60) DEF rows, own, gate, p, h, g

OwesChain(j) == jobs[j].state = "succeeded" /\ Len(jobs[j].spec.path) > 1 /\ j \notin stopped
OwesHook(j) == jobs[j].state = "dead" /\ jobs[j].spec.hook # <<>>

\* FollowUpExactlyOnce, extended to ids that have no row yet: nothing follows up
\* on them, so the row that takes the id starts without follow-ups.
FollowUpsOwed ==
    \A j \in JobId :
        /\ Cardinality(FollowUps("chain", j)) = IF OwesChain(j) THEN 1 ELSE 0
        /\ Cardinality(FollowUps("hook", j)) = IF OwesHook(j) THEN 1 ELSE 0

\* A chain was stopped only by the complete that settled its job.
StoppedSucceeded == \A j \in stopped : jobs[j].state = "succeeded"

FInv == RInv /\ FollowUpsOwed /\ StoppedSucceeded

\* A job that owes nothing yet has no follow-up, and one more is exactly one.
LEMMA FirstFollowUp ==
    ASSUME NEW kind, NEW id, Cardinality(FollowUps(kind, id)) = 0, NEW new \in JobId,
           FollowUps(kind, id)' = FollowUps(kind, id) \cup {new}
    PROVE  Cardinality(FollowUps(kind, id)') = 1
<1>1. IsFiniteSet(FollowUps(kind, id))
  BY EngineAssumption, FS_Subset DEF FollowUps
<1>2. FollowUps(kind, id) = {}
  BY <1>1, FS_EmptySet
<1>3. FollowUps(kind, id)' = {new}
  BY <1>2
<1> QED BY <1>3, FS_Singleton, ZenonT(60)

\* What the effects of a step leave of a settled job, and of an id without a row.
LEMMA SettledStays ==
    ASSUME RInv, RInv', Effects, NEW i \in JobId
    PROVE  /\ jobs[i].state \in {"succeeded", "dead"} => jobs'[i].state = jobs[i].state
           /\ jobs[i].state # "absent" => jobs'[i].spec = jobs[i].spec /\ jobs'[i].origin = jobs[i].origin
           /\ jobs[i].state = "absent" => jobs'[i].state \notin {"succeeded", "dead"}
           /\ jobs[i].state = "absent" /\ jobs'[i].state = "absent" => jobs'[i] = jobs[i]
<1>1. Effect(jobs[i], jobs'[i], ledger[i], ledger'[i])
  BY DEF Effects
<1>2. /\ jobs[i].state = "absent" => jobs[i] = NoRow
      /\ jobs'[i].state = "absent" => jobs'[i] = NoRow
  BY DEF RInv, BlankRows
<1> QED BY <1>1, <1>2 DEF Effect, LiveMoves, Fresh, LIVE_STATES

\* A step that inserts and settles nothing owes nothing new.
LEMMA CalmFollowUps ==
    ASSUME FInv, RInv', Effects, Calm
    PROVE  FInv'
<1>1. \A i \in JobId :
         /\ jobs'[i].state \in {"succeeded", "dead"} \/ jobs[i].state \in {"succeeded", "dead"} =>
               jobs'[i].state = jobs[i].state /\ jobs'[i].spec = jobs[i].spec
         /\ jobs'[i].origin = jobs[i].origin
  BY SettledStays DEF FInv, Calm
<1>2. stopped' = stopped
  BY DEF Calm
<1>3. \A kind, id : FollowUps(kind, id)' = FollowUps(kind, id)
  BY <1>1 DEF FollowUps
<1>4. \A j \in JobId : OwesChain(j)' = OwesChain(j) /\ OwesHook(j)' = OwesHook(j)
  BY <1>1, <1>2 DEF OwesChain, OwesHook
<1>5. FollowUpsOwed'
  BY <1>3, <1>4 DEF FInv, FollowUpsOwed
<1>6. StoppedSucceeded'
  BY <1>1, <1>2 DEF FInv, StoppedSucceeded, RInv, IInv, TypeOK
<1> QED BY <1>5, <1>6 DEF FInv

\* What a client inserts follows up on no job.
LEMMA ClientFollowUps ==
    ASSUME FInv, RInv', Effects, NEW rows, Inserts(rows)
    PROVE  FInv'
<1>1. \A i \in JobId :
         jobs'[i].state \in {"succeeded", "dead"} \/ jobs[i].state \in {"succeeded", "dead"} =>
            jobs'[i].state = jobs[i].state /\ jobs'[i].spec = jobs[i].spec
  BY SettledStays, ZenonT(60) DEF FInv, Inserts
<1>2. stopped' = stopped
  BY ZenonT(60) DEF Inserts
<1>3. \A id : /\ FollowUps("chain", id)' = FollowUps("chain", id)
              /\ FollowUps("hook", id)' = FollowUps("hook", id)
  <2> SUFFICES ASSUME NEW id
               PROVE  /\ FollowUps("chain", id)' = FollowUps("chain", id)
                      /\ FollowUps("hook", id)' = FollowUps("hook", id)
    OBVIOUS
  <2>1. NoFollower(rows, "chain", id) /\ NoFollower(rows, "hook", id)
    <3>1. \A k \in DOMAIN rows : rows[k].origin.kind \in {"client", "replay"}
      BY ZenonT(60) DEF Inserts
    <3> QED BY <3>1 DEF NoFollower
  <2>2. Fills(jobs, jobs', rows) /\ RInv
    BY ZenonT(60) DEF Inserts, FInv
  <2>3. Absent(jobs) = Absent(jobs) /\ "chain" # "none" /\ "hook" # "none"
    OBVIOUS
  <2> QED BY <2>1, <2>2, <2>3, NoneBorn
<1>4. \A j \in JobId : OwesChain(j)' = OwesChain(j) /\ OwesHook(j)' = OwesHook(j)
  BY <1>1, <1>2 DEF OwesChain, OwesHook
<1>5. FollowUpsOwed'
  BY <1>3, <1>4 DEF FInv, FollowUpsOwed
<1>6. StoppedSucceeded'
  BY <1>1, <1>2 DEF FInv, StoppedSucceeded, RInv, IInv, TypeOK
<1> QED BY <1>5, <1>6 DEF FInv

\* A complete inserts the continuation of its chain, once, unless the worker
\* stopped the chain; the row of its gate follows up on no job.
LEMMA CompleteFollowUps ==
    ASSUME FInv, RInv', NEW j \in JobId, NEW t \in Nat, NEW skipped \in BOOLEAN,
           NEW drop \in BOOLEAN, Complete(j, t, skipped, drop)
    PROVE  FInv'
<1> DEFINE T == archive(jobs, j, "succeeded")
           rows == CompleteList(j, skipped, drop)
           c == [kind |-> "chain", of |-> j]
           g == [kind |-> "gate", of |-> jobs[j].spec.gate]
<1>1. /\ RInv /\ Effects /\ jobs[j].state = "running" /\ jobs'[j] = Settled(jobs[j], "succeeded")
      /\ Absent(T) = Absent(jobs) /\ Fills(T, jobs', rows)
  BY CompleteEffects, ZenonT(60) DEF FInv, RInv, CompleteList
<1>2. jobs'[j].state = "succeeded" /\ jobs'[j].spec = jobs[j].spec
  <2>1. jobs[j] \in Row /\ "succeeded" \in JobState
    BY <1>1 DEF RInv, IInv, TypeOK, JobState, TERMINAL_STATES
  <2> QED BY <1>1, <2>1, SettledColumns
<1>3. stopped' = IF drop THEN stopped \cup {j} ELSE stopped
  BY DEF Complete
<1>4. /\ \A k \in DOMAIN rows : rows[k].origin \in {c, g}
      /\ HasNext(jobs[j].spec) /\ ~drop =>
            \E k \in DOMAIN rows : /\ rows[k].spec.dedup = Null
                                   /\ \A m \in DOMAIN rows : rows[m].origin = c <=> m = k
      /\ ~(HasNext(jobs[j].spec) /\ ~drop) => \A k \in DOMAIN rows : rows[k].origin # c
  <2> DEFINE p == NewRow("queued", advance(jobs[j].spec), c)
             own == IF HasNext(jobs[j].spec) /\ ~drop THEN <<p>> ELSE <<>>
             gate == GateRows(jobs[j].spec, ~skipped, FALSE)
  <2>1. jobs[j] \in Row
    BY <1>1, ZenonT(60) DEF RInv, IInv, TypeOK
  <2>2. p.origin = c /\ p.spec.dedup = Null /\ OnceIn(rows, own, gate, p, g)
    BY <2>1, CompleteListOnce, ZenonT(60)
  <2> HIDE DEF rows, gate, p, c, g
  <2> QED BY <2>2 DEF OnceIn
<1> HIDE DEF T, rows
<1>5. \A i \in JobId \ {j} :
         /\ jobs'[i].state \in {"succeeded", "dead"} \/ jobs[i].state \in {"succeeded", "dead"} =>
               jobs'[i].state = jobs[i].state /\ jobs'[i].spec = jobs[i].spec
  <2>1. \A i \in JobId \ {j} : jobs[i].state # "absent" =>
           jobs'[i] = jobs[i] \/ jobs'[i] = OneDepLess(jobs[i])
    BY CompleteRows, ZenonT(60) DEF FInv, RInv
  <2>2. \A i \in JobId : OneDepLess(jobs[i]).state \in {jobs[i].state, "queued"}
    BY <1>1, OneDepLessState, ZenonT(60) DEF RInv, IInv, TypeOK
  <2> QED BY <1>1, <2>1, <2>2, SettledStays, ZenonT(60)
<1>6. \A id : id # j => FollowUps("chain", id)' = FollowUps("chain", id)
  <2> SUFFICES ASSUME NEW id, id # j
               PROVE  FollowUps("chain", id)' = FollowUps("chain", id)
    OBVIOUS
  <2>1. [kind |-> "chain", of |-> id] \notin {c, g}
    OBVIOUS
  <2>2. NoFollower(rows, "chain", id)
    BY <1>4, <2>1 DEF NoFollower
  <2> QED BY <1>1, <2>2, NoneBorn
<1>7. \A id : FollowUps("hook", id)' = FollowUps("hook", id)
  <2> SUFFICES ASSUME NEW id
               PROVE  FollowUps("hook", id)' = FollowUps("hook", id)
    OBVIOUS
  <2>1. [kind |-> "hook", of |-> id] \notin {c, g}
    OBVIOUS
  <2>2. NoFollower(rows, "hook", id)
    BY <1>4, <2>1 DEF NoFollower
  <2> QED BY <1>1, <2>2, NoneBorn
<1>8. j \notin stopped /\ ~OwesChain(j) /\ ~OwesHook(j) /\ ~OwesHook(j)'
  BY <1>1, <1>2 DEF FInv, StoppedSucceeded, OwesChain, OwesHook
<1>9. Cardinality(FollowUps("chain", j)') = IF OwesChain(j)' THEN 1 ELSE 0
  <2>1. Cardinality(FollowUps("chain", j)) = 0
    BY <1>8 DEF FInv, FollowUpsOwed
  <2>2. OwesChain(j)' <=> HasNext(jobs[j].spec) /\ ~drop
    BY <1>2, <1>3, <1>8 DEF OwesChain, HasNext
  <2>3. CASE HasNext(jobs[j].spec) /\ ~drop
    <3>1. \E new \in JobId : FollowUps("chain", j)' = FollowUps("chain", j) \cup {new}
      <4>1. PICK k \in DOMAIN rows : OnlyFollower(rows, k, "chain", j)
        BY <1>4, <2>3 DEF OnlyFollower
      <4>2. Absent(T) = Absent(jobs) /\ Fills(T, jobs', rows) /\ RInv /\ RInv' /\ Effects
        BY <1>1 DEF FInv
      <4>3. OneMore("chain", j, rows[k])
        BY <4>1, <4>2, OneBorn
      <4> QED BY <4>3 DEF OneMore
    <3> QED BY <2>1, <2>2, <2>3, <3>1, FirstFollowUp
  <2>4. CASE ~(HasNext(jobs[j].spec) /\ ~drop)
    <3>1. FollowUps("chain", j)' = FollowUps("chain", j)
      <4>1. NoFollower(rows, "chain", j)
        BY <1>4, <2>4 DEF NoFollower
      <4> QED BY <1>1, <4>1, NoneBorn
    <3> QED BY <2>1, <2>2, <2>4, <3>1
  <2> QED BY <2>3, <2>4
<1>10. \A i \in JobId \ {j} : OwesChain(i)' = OwesChain(i) /\ OwesHook(i)' = OwesHook(i)
  BY <1>3, <1>5, ZenonT(60) DEF OwesChain, OwesHook
<1>11. FollowUpsOwed'
  BY <1>6, <1>7, <1>8, <1>9, <1>10 DEF FInv, FollowUpsOwed
<1>12. StoppedSucceeded'
  BY <1>1, <1>2, <1>3, <1>5, ZenonT(60) DEF FInv, StoppedSucceeded, RInv, IInv, TypeOK
<1> QED BY <1>11, <1>12 DEF FInv

\* A death inserts the on_failure hook of its job, once, if it has one.
LEMMA DieFollowUps ==
    ASSUME FInv, RInv', NEW j \in JobId, jobs[j].state = "running", Die(j)
    PROVE  FInv'
<1> DEFINE T == archive(jobs, j, "dead")
           rows == DieList(j)
           h == [kind |-> "hook", of |-> j]
           g == [kind |-> "gate", of |-> jobs[j].spec.gate]
<1>1. PICK C \in SUBSET JobId :
      /\ RInv /\ Effects /\ jobs'[j] = Settled(jobs[j], "dead")
      /\ UNCHANGED stopped /\ Cut(C, j) /\ CutRows(C, j)
      /\ Absent(T) = Absent(jobs) /\ Fills(T, jobs', rows)
  BY DieEffects, ZenonT(60) DEF FInv, RInv, DieList
<1>2. jobs'[j].state = "dead" /\ jobs'[j].spec = jobs[j].spec
  <2>1. jobs[j] \in Row /\ "dead" \in JobState
    BY <1>1, ZenonT(60) DEF RInv, IInv, TypeOK, JobState, TERMINAL_STATES
  <2> QED BY <1>1, <2>1, SettledColumns
<1>3. /\ \A k \in DOMAIN rows : rows[k].origin \in {h, g}
      /\ jobs[j].spec.hook # <<>> =>
            \E k \in DOMAIN rows : /\ rows[k].spec.dedup = Null
                                   /\ \A m \in DOMAIN rows : rows[m].origin = h <=> m = k
      /\ jobs[j].spec.hook = <<>> => \A k \in DOMAIN rows : rows[k].origin # h
  <2> DEFINE p == NewRow("queued", HookSpec(jobs[j].spec), h)
             own == IF jobs[j].spec.hook # <<>> THEN <<p>> ELSE <<>>
             gate == GateRows(jobs[j].spec, FALSE, TRUE)
  <2>1. jobs[j] \in Row
    BY <1>1, ZenonT(60) DEF RInv, IInv, TypeOK
  <2>2. p.origin = h /\ p.spec.dedup = Null /\ OnceIn(rows, own, gate, p, g)
    BY <2>1, DieListOnce, ZenonT(60)
  <2> HIDE DEF rows, gate, p, h, g
  <2> QED BY <2>2, ZenonT(60) DEF OnceIn
<1> HIDE DEF T, rows
<1>4. \A i \in JobId \ {j} :
         /\ jobs'[i].state \in {"succeeded", "dead"} \/ jobs[i].state \in {"succeeded", "dead"} =>
               jobs'[i].state = jobs[i].state /\ jobs'[i].spec = jobs[i].spec
  <2>1. \A i \in JobId \ {j} : jobs[i].state # "absent" =>
           jobs'[i] = jobs[i] \/ jobs'[i] = Settled(jobs[i], "cancelled")
    BY <1>1, ZenonT(60) DEF CutRows
  <2>2. \A i \in JobId : Settled(jobs[i], "cancelled").state = "cancelled"
    <3>1. "cancelled" \in JobState /\ \A i \in JobId : jobs[i] \in Row
      BY <1>1, ZenonT(60) DEF RInv, IInv, TypeOK, JobState, TERMINAL_STATES
    <3> QED BY <3>1, SettledColumns
  <2> QED BY <1>1, <2>1, <2>2, SettledStays, ZenonT(60)
<1>5. \A id : id # j => FollowUps("hook", id)' = FollowUps("hook", id)
  <2> SUFFICES ASSUME NEW id, id # j
               PROVE  FollowUps("hook", id)' = FollowUps("hook", id)
    OBVIOUS
  <2>1. [kind |-> "hook", of |-> id] \notin {h, g}
    OBVIOUS
  <2>2. NoFollower(rows, "hook", id)
    BY <1>3, <2>1 DEF NoFollower
  <2> QED BY <1>1, <2>2, NoneBorn
<1>6. \A id : FollowUps("chain", id)' = FollowUps("chain", id)
  <2> SUFFICES ASSUME NEW id
               PROVE  FollowUps("chain", id)' = FollowUps("chain", id)
    OBVIOUS
  <2>1. [kind |-> "chain", of |-> id] \notin {h, g}
    OBVIOUS
  <2>2. NoFollower(rows, "chain", id)
    BY <1>3, <2>1 DEF NoFollower
  <2> QED BY <1>1, <2>2, NoneBorn
<1>7. ~OwesChain(j) /\ ~OwesHook(j) /\ ~OwesChain(j)'
  BY <1>1, <1>2 DEF OwesChain, OwesHook
<1>8. Cardinality(FollowUps("hook", j)') = IF OwesHook(j)' THEN 1 ELSE 0
  <2>1. Cardinality(FollowUps("hook", j)) = 0
    BY <1>7 DEF FInv, FollowUpsOwed
  <2>2. OwesHook(j)' <=> jobs[j].spec.hook # <<>>
    BY <1>2 DEF OwesHook
  <2>3. CASE jobs[j].spec.hook # <<>>
    <3>1. \E new \in JobId : FollowUps("hook", j)' = FollowUps("hook", j) \cup {new}
      <4>1. PICK k \in DOMAIN rows : OnlyFollower(rows, k, "hook", j)
        BY <1>3, <2>3 DEF OnlyFollower
      <4>2. Absent(T) = Absent(jobs) /\ Fills(T, jobs', rows) /\ RInv /\ RInv' /\ Effects
        BY <1>1 DEF FInv
      <4>3. OneMore("hook", j, rows[k])
        BY <4>1, <4>2, OneBorn
      <4> QED BY <4>3 DEF OneMore
    <3> QED BY <2>1, <2>2, <2>3, <3>1, FirstFollowUp
  <2>4. CASE jobs[j].spec.hook = <<>>
    <3>1. FollowUps("hook", j)' = FollowUps("hook", j)
      <4>1. NoFollower(rows, "hook", j)
        BY <1>3, <2>4 DEF NoFollower
      <4> QED BY <1>1, <4>1, NoneBorn
    <3> QED BY <2>1, <2>2, <2>4, <3>1
  <2> QED BY <2>3, <2>4
<1>9. \A i \in JobId \ {j} : OwesChain(i)' = OwesChain(i) /\ OwesHook(i)' = OwesHook(i)
  BY <1>1, <1>4, ZenonT(60) DEF OwesChain, OwesHook
<1>10. FollowUpsOwed'
  BY <1>5, <1>6, <1>7, <1>8, <1>9 DEF FInv, FollowUpsOwed
<1>11. StoppedSucceeded'
  BY <1>1, <1>4, ZenonT(60) DEF FInv, StoppedSucceeded, RInv, IInv, TypeOK
<1> QED BY <1>10, <1>11 DEF FInv

\* Initially nothing is settled and nothing follows up on anything.
LEMMA InitFInv == Init => FInv
<1> SUFFICES ASSUME Init PROVE FInv
  OBVIOUS
<1>1. RInv
  BY InitRInv
<1>2. \A i \in JobId : jobs[i].state = "absent" /\ jobs[i].origin.kind = "none"
  BY DEF Init, NoRow, NewRow
<1>3. \A id : FollowUps("chain", id) = {} /\ FollowUps("hook", id) = {}
  <2>1. \A id : [kind |-> "chain", of |-> id].kind = "chain" /\ [kind |-> "hook", of |-> id].kind = "hook"
    OBVIOUS
  <2> QED BY <1>2, <2>1 DEF FollowUps
<1>4. Cardinality({}) = 0
  BY FS_EmptySet
<1>5. stopped = {}
  BY DEF Init
<1> QED BY <1>1, <1>2, <1>3, <1>4, <1>5, ZenonT(60)
    DEF FInv, FollowUpsOwed, StoppedSucceeded, OwesChain, OwesHook

\* Every step keeps the account of owed and inserted follow-ups.
LEMMA NextFInv ==
    ASSUME FInv, [Next]_vars
    PROVE  FInv'
<1>1. RInv' /\ Effects
  BY NextRInv DEF FInv
<1>2. Calm \/ (\E rows : Inserts(rows)) \/ Completes \/ Dies
  BY NextKinds DEF FInv, RInv
<1>3. CASE Calm
  BY <1>1, <1>3, CalmFollowUps
<1>4. CASE \E rows : Inserts(rows)
  BY <1>1, <1>4, ClientFollowUps
<1>5. CASE Completes
  BY <1>1, <1>5, CompleteFollowUps DEF Completes
<1>6. CASE Dies
  BY <1>1, <1>6, DieFollowUps DEF Dies
<1> QED BY <1>2, <1>3, <1>4, <1>5, <1>6

\* Whatever interleaving of calls, retries, late or repeated answers, crashes and
\* sweeper passes happens, a succeeded link of a chain has exactly one
\* continuation (none if the worker stopped the chain), a dead job with
\* on_failure exactly one hook job, and no other job has either.
THEOREM FollowUpsExactlyOnce == Spec => []FollowUpExactlyOnce
<1>1. FInv => FollowUpExactlyOnce
  BY DEF FInv, FollowUpsOwed, FollowUpExactlyOnce, OwesChain, OwesHook
<1>2. FInv /\ [Next]_vars => FInv'
  BY NextFInv
<1> QED BY <1>1, <1>2, InitFInv, PTL DEF Spec
=============================================================================
