---------------------------- MODULE ControlPlane ----------------------------
(***************************************************************************)
(* The calls of the control plane that take several transactions           *)
(* (transport/client_service.py): the paged job list, the AwaitJob poll    *)
(* and Cancel, which reads the job before it cancels it.  Meanwhile other  *)
(* clients submit jobs, within the cap of their tenant, jobs are inserted  *)
(* in the ways that do not ask for the cap, and the engine moves them      *)
(* along their lifecycle.                                                  *)
(***************************************************************************)
EXTENDS EngineProcess, JobStates, FiniteSetsExt, Sequences, Functions

CONSTANTS MaxJobs,     \* bound on the ids of jobs
          MAX_PAGE     \* hard cap on the rows of a page

ASSUME ReadAssumption ==
    /\ MaxJobs \in Nat /\ MAX_PAGE \in Nat \ {0}
    /\ \A s \in Setups : s.cap \in Nat

VARIABLES job,         \* job[j]: state and created_at of job j, for the ids in use, and
                       \* the path that inserted it (history)
          txns,        \* inserting transactions so far: the clock created_at is read from
          pending,     \* those that have not committed: the path, the number of jobs,
                       \* the start, and the job a terminal call archives (0: none)
          flight,      \* the most jobs that other submits had under way when one counted
          query,       \* a walk through the pages of Query
          await,       \* an AwaitJob call
          cancel       \* a Cancel call

submitVars == <<txns, pending, flight>>
readVars == <<job, submitVars, query, await, cancel>>

JobId == 1..MaxJobs

\* What inserts jobs: Submit (and a cron fire), FanOut, Resubmit, and the
\* terminal calls: a chain continuation, an on_failure hook, a gate's branch.
Path == {"submit", "fan_out", "resubmit", "follow_up"}

NoQuery == [at |-> "idle", filter |-> "any", page_size |-> 1, offset |-> 0, seen |-> {}, start |-> {}]
NoAwait == [at |-> "idle", job |-> 0, late |-> FALSE]
NoCancel == [at |-> "idle", job |-> 0, previous_state |-> "absent", cancelled |-> FALSE]

ReadTypeOK ==
    /\ job \in [JobId -> [state: JobState \cup {"absent"}, created_at: 0..MaxJobs, path: Path]]
    /\ txns \in 0..MaxJobs /\ flight \in 0..MaxJobs /\ Cardinality(pending) <= txns
    /\ query.at \in {"idle", "paging", "done"} /\ query.seen \subseteq JobId
    /\ \A j \in query.seen : job[j].state # "absent"
    /\ await.at \in {"idle", "poll", "sleep", "done"}
    /\ cancel.at \in {"idle", "read", "flag", "done"}

ReadInit ==
    /\ job = [j \in JobId |-> [state |-> "absent", created_at |-> 0, path |-> "submit"]]
    /\ txns = 0 /\ pending = {} /\ flight = 0
    /\ query = NoQuery /\ await = NoAwait /\ cancel = NoCancel

known == {j \in JobId : job[j].state # "absent"}

\* Some engine serves the control plane.
served == \E e \in Engine : proc[e].grpc = "serving"

-----------------------------------------------------------------------------
(* The jobs: other clients and the engine. *)

\* count_tenant_live.sql: the jobs of the tenant that are not archived.
count_tenant_live == Cardinality({j \in known : job[j].state \in LIVE_STATES})
under_way(T) == Cardinality(UNION {{t} \X (1..t.size) : t \in T})
submits == {t \in pending : t.path = "submit"}

\* _enforce_tenant_caps: a cap of 0 is none.
within_cap_alone(adding) == setup.cap > 0 => count_tenant_live < setup.cap
within_cap(adding) == setup.cap > 0 => count_tenant_live + adding <= setup.cap

\* An inserting transaction begins: created_at is the time it does.
begins(path, n, ends) ==
    /\ served /\ path \in setup.paths
    /\ Cardinality(known) + under_way(pending) + n <= setup.jobs /\ txns < setup.jobs
    /\ Cardinality(pending) < setup.submits
    /\ txns' = txns + 1
    /\ pending' = pending \cup {[path |-> path, size |-> n, start |-> txns', ends |-> ends]}
    /\ UNCHANGED <<procVars, job, query, await, cancel>>

\* A batch of n jobs is one transaction, which counts in the snapshot of its
\* first statement.
submit_begins(n) ==
    /\ begins("submit", n, 0) /\ within_cap(n)
    /\ flight' = IF setup.cap = 0 THEN 0 ELSE Max({flight, under_way(submits)})

\* The others count nothing: FanOut with n children, Resubmit of an archived
\* job, and a Complete or Fail that archives j and inserts what follows it.
fan_out_begins(n) == begins("fan_out", n, 0) /\ UNCHANGED flight
resubmit_begins(j) ==
    /\ job[j].state \in TERMINAL_STATES
    /\ begins("resubmit", 1, 0) /\ UNCHANGED flight
unlocked(j) == \A t \in pending : t.ends # j
terminal_begins(j, n) ==
    /\ job[j].state = "running" /\ unlocked(j)
    /\ begins("follow_up", n, j) /\ UNCHANGED flight

inserted(t) ==
    [j \in JobId |-> IF j \in Cardinality(known) + 1 .. Cardinality(known) + t.size
                     THEN [state |-> "queued", created_at |-> t.start, path |-> t.path]
                     ELSE job[j]]
submit_commits(t) ==
    /\ t.ends = 0
    /\ job' = inserted(t)
    /\ pending' = pending \ {t}
    /\ UNCHANGED <<procVars, txns, flight, query, await, cancel>>
terminal_commits(t, s) ==
    /\ t.ends # 0 /\ job[t.ends].state = "running" /\ s \in {"succeeded", "dead"} \cap setup.states
    /\ job' = [inserted(t) EXCEPT ![t.ends].state = s]
    /\ pending' = pending \ {t}
    /\ UNCHANGED <<procVars, txns, flight, query, await, cancel>>
submit_fails(t) ==
    /\ trip_fails
    /\ pending' = pending \ {t}
    /\ UNCHANGED <<setup, proc, stops, job, txns, flight, query, await, cancel>>

\* The engine moves a job along its lifecycle, unless a terminal call has its row.
moves(j, s) ==
    /\ can_transition(job[j].state, s) /\ s \in setup.states /\ unlocked(j)
    /\ job' = [job EXCEPT ![j].state = s]
    /\ UNCHANGED <<procVars, submitVars, query, await, cancel>>

-----------------------------------------------------------------------------
(* Query. *)

matching(filter) == {j \in known : filter \in {"any", job[j].state}}

\* list_jobs.sql orders by created_at alone: rows of one transaction come in
\* any order, another one for every page.
orders(set) ==
    {q \in Bijection(1..Cardinality(set), set) :
        \A m, n \in DOMAIN q : m < n => job[q[m]].created_at >= job[q[n]].created_at}

query_begins(filter, page_size) ==
    /\ query.at = "idle" /\ filter \in setup.walks /\ served
    /\ query' = [NoQuery EXCEPT !.at = "paging", !.filter = filter, !.page_size = page_size,
                                !.start = matching(filter)]
    /\ UNCHANGED <<procVars, job, submitVars, await, cancel>>

\* QueryService.jobs: the limit is capped.
capped(limit) == Max({1, Min({limit, MAX_PAGE})})
jobs(order, limit, offset) == SubSeq(order, offset + 1, Min({Len(order), offset + capped(limit)}))

\* One page: a full one implies there may be more.
next_offset_gap(q, items) == q.offset + Len(items) + 1
next_offset(q, items) == q.offset + q.page_size
Query(order) ==
    LET items == jobs(order, query.page_size, query.offset)
        full == Len(items) = query.page_size
    IN  /\ query.at = "paging"
        /\ query' = [query EXCEPT !.seen = @ \cup Range(items),
                                  !.offset = IF full THEN next_offset(query, items) ELSE @,
                                  !.at = IF full THEN "paging" ELSE "done"]
        /\ UNCHANGED <<procVars, job, submitVars, await, cancel>>

-----------------------------------------------------------------------------
(* AwaitJob: reads the job until it is terminal or the deadline has passed. *)

await_begins(j) ==
    /\ await.at = "idle" /\ "await" \in setup.calls /\ served
    /\ await' = [NoAwait EXCEPT !.at = "poll", !.job = j]
    /\ UNCHANGED <<procVars, job, submitVars, query, cancel>>

answered(j, late) == job[j].state \in TERMINAL_STATES \/ late
AwaitJob ==
    /\ await.at = "poll"
    /\ await' = [await EXCEPT !.at = IF answered(await.job, await.late) THEN "done" ELSE "sleep"]
    /\ UNCHANGED <<procVars, job, submitVars, query, cancel>>
await_wakes ==
    /\ await.at = "sleep"
    /\ await' = [await EXCEPT !.at = "poll"]
    /\ UNCHANGED <<procVars, job, submitVars, query, cancel>>
deadline ==
    /\ await.at \in {"poll", "sleep"} /\ ~await.late
    /\ await' = [await EXCEPT !.late = TRUE]
    /\ UNCHANGED <<procVars, job, submitVars, query, cancel>>

-----------------------------------------------------------------------------
(* Cancel: get_job in one transaction, two statements in the next. *)

cancel_reads(j) ==
    /\ cancel.at = "idle" /\ "cancel" \in setup.calls /\ served
    /\ cancel' = [NoCancel EXCEPT !.at = "read", !.job = j, !.previous_state = job[j].state]
    /\ UNCHANGED <<procVars, job, submitVars, query, await>>

\* CancelService: cancel.sql archives a job that is not running, else
\* cancel_running.sql flags one that is, and otherwise nothing is done.  The
\* statements share a transaction and not a snapshot.
flagged(s) == s = "running"
cancel_immediate ==
    LET s == job[cancel.job].state
        archives == s \in LIVE_STATES \ {"running"}
    IN  /\ cancel.at = "read"
        /\ job' = IF archives THEN [job EXCEPT ![cancel.job].state = "cancelled"] ELSE job
        /\ cancel' = [cancel EXCEPT !.at = IF archives THEN "done" ELSE "flag", !.cancelled = archives]
        /\ UNCHANGED <<procVars, submitVars, query, await>>
cancel_running ==
    /\ cancel.at = "flag" /\ unlocked(cancel.job)
    /\ cancel' = [cancel EXCEPT !.at = "done", !.cancelled = flagged(job[cancel.job].state)]
    /\ UNCHANGED <<procVars, job, submitVars, query, await>>
Cancel(j) == cancel_reads(j) \/ (j = cancel.job /\ (cancel_immediate \/ cancel_running))

\* A step of the process: a call does not outlive the engine that serves it.
ReadsFollow ==
    /\ IF served' THEN UNCHANGED <<query, await, cancel>>
       ELSE query' = NoQuery /\ await' = NoAwait /\ cancel' = NoCancel
    /\ pending' = IF served' THEN pending ELSE {}
    /\ UNCHANGED <<job, txns, flight>>

ReadNext ==
    \/ \E n \in 1..2 : submit_begins(n) \/ fan_out_begins(n)
    \/ \E j \in known : resubmit_begins(j) \/ \E n \in 1..2 : terminal_begins(j, n)
    \/ \E t \in pending : submit_commits(t) \/ submit_fails(t) \/ \E s \in JobState : terminal_commits(t, s)
    \/ \E j \in JobId, s \in JobState : job[j].state # "absent" /\ moves(j, s)
    \/ \E f \in {"any", "dead"}, n \in 1..MAX_PAGE + 1 : query_begins(f, n)
    \/ \E j \in known : await_begins(j)
    \/ \E j \in known : Cancel(j)
    \/ query.at = "paging" /\ \E q \in orders(matching(query.filter)) : Query(q)
    \/ AwaitJob \/ await_wakes \/ deadline

-----------------------------------------------------------------------------
(* Properties. *)

\* A walk through the pages of a growing list (all jobs, or the dead letters)
\* has shown every job that matched when it began, whatever is submitted or
\* dies between two pages: rows only move to later pages.  Jobs that share
\* their created_at with another, and pages beyond the cap, are not promised.
WalkCovers ==
    query.at = "done" /\ query.page_size <= MAX_PAGE
        => \A j \in query.start :
             \/ j \in query.seen
             \/ \E k \in matching(query.filter) \ {j} : job[k].created_at = job[j].created_at

\* What Submit let in: submits that count at once can pass the cap of their
\* tenant together, and by no more than the jobs the other submits had under way
\* when one counted (one at a time never do), although they count the jobs of
\* the other paths too.  Those are not held to the cap, and pass it by any number.
CapOvershoot ==
    setup.cap > 0 =>
        Cardinality({j \in known : job[j].state \in LIVE_STATES /\ job[j].path = "submit"})
            <= setup.cap + flight

\* A Cancel answered "cancelled" names a previous state the job could be
\* cancelled from, although it was read in an earlier transaction.
CancelReportsLive == cancel.cancelled => cancel.previous_state \in LIVE_STATES

\* An AwaitJob call ends: with the terminal job, with the deadline, or with
\* the engine that serves it.
AwaitEnds == await.at = "poll" ~> await.at \in {"done", "idle"}
=============================================================================
