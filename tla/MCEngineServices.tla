-------------------------- MODULE MCEngineServices --------------------------
(***************************************************************************)
(* Two engines, two schedules, one subscriber and up to four jobs, in      *)
(* situations that each bring out one part.                                *)
(***************************************************************************)
EXTENDS EngineServices, SequencesExt

Quiet == [roles |-> [e \in Engine |-> {}], skew |-> [e \in Engine |-> 0], outages |-> 0, stops |-> 0,
          time |-> 1, rows |-> [s \in Schedule |-> Absent], exprs |-> [s \in Schedule |-> {}], edits |-> 0,
          events |-> 0, jobs |-> 0, submits |-> 1, paths |-> {"submit"}, cap |-> 0, states |-> {},
          calls |-> {}, walks |-> {}, attempts |-> 0]

One(r) == [e \in Engine |-> IF e = 1 THEN r ELSE {}]
Both(r) == [e \in Engine |-> r]
Stored(expr, next) == [Absent EXCEPT !.known = TRUE, !.expr = expr, !.enabled = TRUE, !.next_fire = next]
Rows(a, b) == [s \in Schedule |-> IF s = 1 THEN a ELSE b]

\* What fan_out does to a queue is what a put_nowait for each row does.
ASSUME FanOutIsPuts ==
    \A m \in 0..QUEUE_MAX, n \in 0..BATCH : \A owed \in SUBSET (1..m + n) :
        LET s == [Gone EXCEPT !.queue = [i \in 1..m |-> i], !.owed = owed]
            rows == [i \in 1..n |-> m + i]
        IN  fan_out(s, rows) = FoldLeft(put_nowait, s, rows)

MCSetups ==
    {\* a process alone: outages, signals, kills, calls
     [Quiet EXCEPT !.roles = One({"api", "sweeper"}), !.outages = 2, !.stops = 2, !.calls = {"any"}],
     \* two cron engines, one with a fast clock, one kill
     [Quiet EXCEPT !.roles = Both({"sweeper"}), !.skew = [e \in Engine |-> e - 1], !.stops = 1,
                   !.time = 4, !.rows = Rows(Stored(2, Unset), Absent)],
     \* one cron engine with a slow clock, two schedules, one of them unfirable
     [Quiet EXCEPT !.roles = One({"sweeper"}), !.skew = [e \in Engine |-> -1], !.outages = 1,
                   !.time = 5, !.rows = Rows(Stored(Never, Unset), Stored(2, 2))],
     \* two cron engines and the admin API
     [Quiet EXCEPT !.roles = Both({"sweeper"}), !.edits = 2, !.time = 3,
                   !.rows = Rows(Stored(2, 2), Absent), !.exprs = Rows({Never, 1}, {})],
     \* the event poller and a subscriber; a snapshot read
     [Quiet EXCEPT !.roles = One({"api"}), !.outages = 1, !.events = 3, !.calls = {"tail"}],
     [Quiet EXCEPT !.roles = One({"api"}), !.events = 3, !.stops = 1, !.calls = {"tail"}],
     [Quiet EXCEPT !.roles = One({"api"}), !.events = 3, !.calls = {"snapshot"}],
     \* the control plane
     [Quiet EXCEPT !.roles = One({"api"}), !.jobs = 4, !.walks = {"any"}],
     [Quiet EXCEPT !.roles = One({"api"}), !.jobs = 3, !.submits = 2, !.walks = {"any"}],
     [Quiet EXCEPT !.roles = One({"api"}), !.jobs = 2, !.states = {"running", "dead"}, !.walks = {"any"}],
     [Quiet EXCEPT !.roles = One({"api"}), !.jobs = 3, !.states = {"running", "dead"}, !.walks = {"dead"}],
     [Quiet EXCEPT !.roles = One({"api"}), !.jobs = 1, !.states = JobState, !.stops = 1, !.calls = {"await", "cancel"}],
     [Quiet EXCEPT !.roles = One({"api"}), !.jobs = 4, !.submits = 2, !.cap = 2, !.states = {"cancelled"}, !.outages = 1],
     [Quiet EXCEPT !.roles = One({"api"}), !.jobs = 3, !.submits = 2, !.cap = 1, !.paths = Path,
                   !.states = {"running", "succeeded"}],
     \* workers on a network that loses and delays
     [Quiet EXCEPT !.roles = One({"api"}), !.outages = 2, !.attempts = 2]}
=============================================================================
