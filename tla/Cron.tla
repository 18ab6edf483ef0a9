-------------------------------- MODULE Cron --------------------------------
(***************************************************************************)
(* The cron loop of every sweeper engine (services/loops.py:CronService)   *)
(* and the schedule edits of the admin API.  A pass reads the due          *)
(* schedules, and for each of them submits a job whose dedup key names the *)
(* window, then moves next_fire on by compare-and-swap.  The three         *)
(* statements are three transactions: engines, edits and crashes come      *)
(* between them.  Times are ticks; an expression is the period of its      *)
(* occurrences.                                                            *)
(***************************************************************************)
EXTENDS EngineProcess

CONSTANTS Schedule,  \* the schedule ids
          Horizon    \* bound on the clock

VARIABLES now,     \* the clock of Postgres
          sched,   \* sched[s]: the row of cron_schedules
          live,    \* <<s, w>>: the job of window w of s is in the jobs table
          fired,   \* fired[s][w]: jobs submitted for the window, 2 for any more
          cron,    \* cron[e]: the pass of the cron loop of e
          edits    \* admin calls so far

cronVars == <<now, sched, live, fired, cron, edits>>

\* A next_fire of 0 is NULL.  An expression of period 0 has a valid syntax and
\* no occurrence ("0 0 30 2 *"): croniter raises when asked for the next one.
Unset == 0
Never == 0
Time == 0..Horizon + 1
Absent == [known |-> FALSE, expr |-> Never, enabled |-> FALSE, next_fire |-> Unset, last_fire |-> Unset]

\* A pass: the rows still to visit and the one in hand with the engine's now.
Asleep == [at |-> "sleep", due |-> {}, row |-> <<>>, now |-> 0]

Row == [known: BOOLEAN, expr: 0..Horizon, enabled: BOOLEAN,
        next_fire: 0..2 * Horizon + 2, last_fire: Time]

ASSUME SetupAssumption ==
    /\ Horizon \in Nat \ {0}
    /\ \A s \in Setups : /\ s.rows \in [Schedule -> Row] /\ s.time \in 1..Horizon
                         /\ s.skew \in [Engine -> Int] /\ \A e \in Engine : s.skew[e] + 1 >= 0

CronTypeOK ==
    /\ now \in 1..Horizon
    /\ sched \in [Schedule -> Row]
    /\ live \subseteq Schedule \X Time
    /\ \A s \in Schedule : \A w \in DOMAIN fired[s] : fired[s][w] \in 0..2
    /\ \A e \in Engine : cron[e].at \in {"sleep", "next", "init", "submit", "advance"}
    /\ edits \in 0..setup.edits

CronInit ==
    /\ now = 1
    /\ sched = setup.rows
    /\ live = {}
    /\ fired = [s \in Schedule |-> [w \in Time |-> 0]]
    /\ cron = [e \in Engine |-> Asleep]
    /\ edits = 0

-----------------------------------------------------------------------------
(* The loop. *)

\* datetime.now(UTC) on engine e: its own clock, not Postgres'.
clock(e) == now + setup.skew[e]

\* The occurrence strictly after t.
next_after(expr, t) == (t \div expr + 1) * expr

\* cron_due.sql: enabled rows whose window has come or was never computed.
due(s) == sched[s].known /\ sched[s].enabled /\ sched[s].next_fire <= now

cron_due(e) ==
    /\ loops_run(e) /\ sweeper(e) /\ cron[e].at = "sleep"
    /\ \E s \in Schedule : due(s)
    /\ cron' = [cron EXCEPT ![e] = [Asleep EXCEPT !.at = "next",
                    !.due = {[id |-> s, row |-> sched[s]] : s \in {x \in Schedule : due(x)}}]]
    /\ UNCHANGED <<procVars, now, sched, live, fired, edits>>

\* The pass without schedule d, which it is done with or skips.
without(e, d) ==
    IF cron[e].due \ {d} = {} THEN Asleep ELSE [Asleep EXCEPT !.at = "next", !.due = cron[e].due \ {d}]

\* The step of a schedule raised: pass_ contains it and goes on with the rest.
contained_lost(e, d) == Asleep
contained(e, d) == without(e, d)

\* _fire up to its first await, for the row that comes first: NULL windows,
\* then the earliest.  The engine's clock is read once, here.
fire(e, d) ==
    LET row == d.row
        in_hand(at) == [at |-> at, due |-> cron[e].due \ {d}, row |-> d, now |-> clock(e)]
    IN  /\ loops_run(e) /\ cron[e].at = "next" /\ d \in cron[e].due
        /\ \A x \in cron[e].due : row.next_fire <= x.row.next_fire
        /\ \E pass \in {IF row.next_fire = Unset /\ row.expr = Never THEN contained(e, d)
                       ELSE IF row.next_fire = Unset THEN in_hand("init")
                       ELSE IF row.next_fire > clock(e) THEN without(e, d)
                       ELSE in_hand("submit")} :
             cron' = [cron EXCEPT ![e] = pass]
        /\ UNCHANGED <<procVars, now, sched, live, fired, edits>>

\* cron_advance.sql: the row is still enabled and its window still the one read.
cron_advance_unguarded(s, new, expected, at) ==
    [sched EXCEPT ![s] = IF @.known /\ @.enabled
                         THEN [@ EXCEPT !.next_fire = new, !.last_fire = at] ELSE @]
cron_advance(s, new, expected, at) ==
    [sched EXCEPT ![s] = IF @.known /\ @.enabled /\ @.next_fire = expected
                         THEN [@ EXCEPT !.next_fire = new, !.last_fire = at] ELSE @]

\* The compare-and-swap of the schedule in hand.  It may commit and still
\* raise; raised or lost, the pass goes on.
swap(e, new, expected, at) ==
    LET d == cron[e].row
    IN  /\ \/ trip_works /\ sched' = cron_advance(d.id, new, expected, at)
           \/ trip_fails /\ sched' \in {sched, cron_advance(d.id, new, expected, at)}
        /\ cron' = [cron EXCEPT ![e] = contained(e, d)]
        /\ UNCHANGED <<setup, proc, stops, now, live, fired, edits>>

\* The first encounter: the window is set, nothing fires.
init_window(e) ==
    /\ loops_run(e) /\ cron[e].at = "init"
    /\ swap(e, next_after(cron[e].row.row.expr, cron[e].now), Unset, cron[e].row.row.last_fire)

\* submit(): ux_jobs_dedup spans the jobs table, which a job leaves when it
\* settles.  A batch that raises is contained; its commit may have survived.
after_submit_swallowed(e, raised) == [cron[e] EXCEPT !.at = "advance"]
after_submit(e, raised) ==
    IF raised THEN contained(e, cron[e].row) ELSE [cron[e] EXCEPT !.at = "advance"]

again(n) == IF n < 2 THEN n + 1 ELSE 2
submit(e) ==
    LET s == cron[e].row.id
        w == cron[e].row.row.next_fire
    IN  /\ loops_run(e) /\ cron[e].at = "submit"
        /\ \E committed, raised \in BOOLEAN :
             /\ committed \/ raised
             /\ IF raised THEN trip_fails ELSE trip_works
             /\ IF committed /\ <<s, w>> \notin live
                THEN live' = live \cup {<<s, w>>} /\ fired' = [fired EXCEPT ![s][w] = again(fired[s][w])]
                ELSE UNCHANGED <<live, fired>>
             /\ cron' = [cron EXCEPT ![e] = after_submit(e, raised)]
        /\ UNCHANGED <<setup, proc, stops, now, sched, edits>>

\* The window after the one fired, never one in the engine's past.  A window
\* set for the old expression can be found under a new one that never occurs.
advance(e) ==
    LET row == cron[e].row.row
        w == row.next_fire
        nxt == next_after(row.expr, w)
    IN  /\ loops_run(e) /\ cron[e].at = "advance"
        /\ \/ /\ row.expr = Never
              /\ cron' = [cron EXCEPT ![e] = contained(e, cron[e].row)]
              /\ UNCHANGED <<procVars, now, sched, live, fired, edits>>
           \/ /\ row.expr # Never
              /\ swap(e, IF nxt < cron[e].now THEN cron[e].now ELSE nxt, w, w)

\* A step of the process: a loop cancelled or killed leaves its pass behind.
CronFollows ==
    /\ cron' = [e \in Engine |-> IF proc'[e].at = "group" THEN cron[e] ELSE Asleep]
    /\ UNCHANGED <<now, sched, live, fired, edits>>

-----------------------------------------------------------------------------
(* The world: admin calls, jobs that settle, time. *)

edit(s, row) ==
    /\ edits < setup.edits /\ edits' = edits + 1
    /\ sched' = [sched EXCEPT ![s] = row]
    /\ UNCHANGED <<procVars, now, live, fired, cron>>

\* cron_upsert.sql: a new expression forgets the window, the same one keeps it.
cron_upsert(r, expr, enabled) ==
    IF ~r.known THEN [Absent EXCEPT !.known = TRUE, !.expr = expr, !.enabled = enabled]
    ELSE [r EXCEPT !.expr = expr, !.enabled = enabled,
                   !.next_fire = IF expr = r.expr THEN r.next_fire ELSE Unset]
upsert_cron(s, expr, enabled) == edit(s, cron_upsert(sched[s], expr, enabled))
set_cron_enabled(s, enabled) == sched[s].known /\ edit(s, [sched[s] EXCEPT !.enabled = enabled])
delete_cron(s) == sched[s].known /\ edit(s, Absent)

\* The RPCs of the admin service; the REST endpoints make the same calls.
CronEdits(s) ==
    \/ \E x \in 0..Horizon, b \in BOOLEAN : x \in setup.exprs[s] /\ upsert_cron(s, x, b)
    \/ \E b \in BOOLEAN : set_cron_enabled(s, b)
    \/ delete_cron(s)

\* A job finishes and moves to the archive.
settle(j) == live' = live \ {j} /\ UNCHANGED <<procVars, now, sched, fired, cron, edits>>

tick == now < setup.time /\ now' = now + 1 /\ UNCHANGED <<procVars, sched, live, fired, cron, edits>>

CronOwn(e) == cron_due(e) \/ (\E d \in cron[e].due : fire(e, d)) \/ init_window(e) \/ submit(e) \/ advance(e)
CronNext ==
    \/ \E e \in Engine : CronOwn(e)
    \/ \E s \in Schedule : CronEdits(s)
    \/ \E j \in live : settle(j)
    \/ tick

-----------------------------------------------------------------------------
(* Properties. *)

\* A window is left behind only when its job was submitted: neither a crash
\* between the submit and the advance, nor a failed submit, nor a race of two
\* engines or of an engine and an edit, moves next_fire past a window that no
\* job was submitted for.
NoSkippedWindow ==
    [][\A s \in Schedule :
         LET old == sched[s].next_fire
             new == sched'[s].next_fire
         IN  old # Unset /\ new \notin {old, Unset} => fired[s][old] > 0]_cronVars

\* The windows of a schedule only move forward between two edits, however
\* stale the rows the engines work from and however far apart their clocks.
WindowsAdvance ==
    [][\A s \in Schedule :
         LET old == sched[s].next_fire
             new == sched'[s].next_fire
         IN  old # Unset /\ new # Unset => new >= old]_cronVars

\* One cron engine, no admin call and no failure: every window has one job.
SoleFirer ==
    Cardinality({e \in Engine : sweeper(e)}) = 1 /\ outages = 0 /\ stops = 0 /\ edits = 0
        => \A s \in Schedule : \A w \in DOMAIN fired[s] : fired[s][w] <= 1

\* A schedule that is behind catches up: the windows it fires, or skips by the
\* clamp, reach the present, past crashes, outages, engines with a slow clock
\* and another schedule whose expression cannot be evaluated.
behind(s) == due(s) /\ sched[s].next_fire < now /\ sched[s].expr # Never
CatchesUp == \A s \in Schedule : behind(s) ~> ~behind(s)
=============================================================================
