------------------------ MODULE EngineServicesProofs ------------------------
(***************************************************************************)
(* What holds of the engine processes, the cron windows and the calls of   *)
(* the workers for any engines, schedules, workers, clocks and faults,     *)
(* whatever else the engines run; and of the two races in Postgres, claims *)
(* of several engines and signals that meet waits, for any number of open  *)
(* transactions.                                                           *)
(***************************************************************************)
EXTENDS EngineServices, ClaimRace, SignalRendezvous, FiniteSetTheorems, TLAPS

\* What the provers may take for a step that does not say otherwise.
USE SMTT(60), ZenonT(60)

(***************************************************************************)
(* Engine processes and cron windows.                                      *)
(***************************************************************************)
\* What a process can look like between two of its steps.
Shape(p) ==
    /\ p \in Process
    /\ p.at # "group" => p.http = "none" /\ p.events = "none"
    /\ p.at \in {"down", "pools", "load", "closing"} => p.grpc = "none"
    /\ p.at = "drain" => p.grpc \in {"none", "stopping"}
    /\ p.at = "group" => p.grpc # "stopping"
    /\ p.call = "open" => p.grpc \in {"starting", "serving", "stopping"}
    /\ p.http # "none" => p.grpc \in {"created", "starting", "serving"}
    /\ p.http = "serving" => p.grpc # "created"

ProcInv == DOMAIN proc = Engine /\ proc = [e \in Engine |-> proc[e]] /\ \A e \in Engine : Shape(proc[e])

\* A schedule row and the work of a pass, without bounds.
AnyRow == [known: BOOLEAN, expr: Nat, enabled: BOOLEAN, next_fire: Nat, last_fire: Int]
Work == [id: Schedule, row: AnyRow]
Pass == [at: {"sleep", "next", "init", "submit", "advance"}, due: SUBSET Work,
         row: Work \cup {<<>>}, now: Nat]

\* A pass holds a row it read, whose window had come; the window it is about
\* to leave behind has its job.
PassOK(c) ==
    /\ \A d \in c.due : d.row.next_fire <= Horizon
    /\ c.at \in {"init", "submit", "advance"} => c.row \in Work
    /\ c.at = "init" => c.row.row.expr # Never
    /\ c.at \in {"submit", "advance"} => c.row.row.next_fire <= Horizon

Fired(c) == c.at = "advance" => fired[c.row.id][c.row.row.next_fire] > 0

CronInv ==
    /\ setup \in Setups
    /\ now \in 1..Horizon
    /\ sched \in [Schedule -> AnyRow]
    /\ fired \in [Schedule -> [Time -> 0..2]]
    /\ live \subseteq Schedule \X Time
    /\ \A s \in Schedule, t \in Time : <<s, t>> \in live => fired[s][t] > 0
    /\ cron \in [Engine -> Pass]
    /\ \A e \in Engine : PassOK(cron[e]) /\ Fired(cron[e])

-----------------------------------------------------------------------------
(* The processes. *)

\* A process that is not running.
LEMMA DownShape == Shape(Down)
BY DEF Shape, Down, Process, Stage

\* The TaskGroup cancelled by a task that raised, or drained by a signal.
LEMMA CancelledShape ==
    ASSUME NEW p, Shape(p), p.at = "group"
    PROVE  Shape(Cancelled(p)) /\ Shape(Drained(p))
<1>1. Shape(Cancelled(p))
  BY ZenonT(60) DEF Shape, Cancelled, Process, Stage
<1>2. ASSUME NEW q, Shape(q) PROVE Shape([q EXCEPT !.serving = FALSE])
  <2>1. [q EXCEPT !.serving = FALSE] \in Process
    BY <1>2, ZenonT(60) DEF Shape, Process
  <2> QED
    BY <1>2, <2>1 DEF Shape, Process
<1> QED
  BY <1>1, <1>2 DEF Drained

\* The TaskGroup just entered.
LEMMA SpawnedShape ==
    ASSUME NEW e PROVE Shape(Spawned(e))
BY ZenonT(60) DEF Shape, Spawned, Down, Process, Stage

\* A step that replaces the process of e by one of the right shape.
LEMMA ReplaceShape ==
    ASSUME ProcInv, NEW e \in Engine, NEW p, Shape(p), proc' = [proc EXCEPT ![e] = p]
    PROVE  ProcInv'
BY DEF ProcInv

\* A field of a process changed in a way that keeps the shape.
LEMMA ProcStep ==
    ASSUME ProcInv, NEW e \in Engine, ProcNext(e) \/ events_start(e)
    PROVE  ProcInv' /\ setup' = setup
<1>0. Shape(proc[e]) /\ proc[e] \in Process
  BY DEF ProcInv, Shape
<1>1. CASE boot(e)
  <2>1. Shape([proc[e] EXCEPT !.at = "pools"])
    BY <1>0, <1>1 DEF boot, Shape, Process, Stage
  <2> QED
    BY <1>1, <2>1, ReplaceShape, ZenonT(60) DEF boot
<1>2. CASE create_pools(e)
  <2>1. Shape([proc[e] EXCEPT !.at = "load"])
    BY <1>0, <1>2 DEF create_pools, Shape, Process, Stage
  <2> QED
    BY <1>2, <2>1, ReplaceShape, DownShape DEF create_pools
<1>3. CASE load(e)
  BY <1>3, ReplaceShape, DownShape, SpawnedShape DEF load
<1>4. CASE serve_grpc(e)
  <2>1. Shape([proc[e] EXCEPT !.grpc = "starting"])
    BY <1>0, <1>4 DEF serve_grpc, Shape, Process, Stage
  <2>2. proc[e].at = "group"
    BY <1>0, <1>4 DEF serve_grpc, Shape, Process, Stage
  <2>3. Shape(Cancelled(proc[e]))
    BY <1>0, <2>2, CancelledShape
  <2>4. proc' = [proc EXCEPT ![e] = [proc[e] EXCEPT !.grpc = "starting"]]
        \/ proc' = [proc EXCEPT ![e] = Cancelled(proc[e])]
    BY <1>4 DEF serve_grpc, task_raises, ProcInv
  <2> QED
    BY <1>4, <2>1, <2>3, <2>4, ReplaceShape DEF serve_grpc
<1>5. CASE health_set(e)
  <2>1. Shape([proc[e] EXCEPT !.grpc = "serving"])
    BY <1>0, <1>5 DEF health_set, Shape, Process, Stage
  <2> QED
    BY <1>5, <2>1, ReplaceShape, ZenonT(60) DEF health_set
<1>6. CASE serve_http(e)
  <2>1. Shape([proc[e] EXCEPT !.http = "serving"])
    BY <1>0, <1>6 DEF serve_http, Shape, Process, Stage
  <2> QED
    BY <1>6, <2>1, ReplaceShape, ZenonT(60) DEF serve_http
<1>7. CASE grpc_stops(e)
  <2>1. Shape([proc[e] EXCEPT !.grpc = "none", !.call = "none"])
    BY <1>0, <1>7, ZenonT(60) DEF grpc_stops, Shape, Process, Stage
  <2>2. proc' = [proc EXCEPT ![e] = [proc[e] EXCEPT !.grpc = "none", !.call = "none"]]
    BY <1>7, ZenonT(60) DEF grpc_stops, ProcInv
  <2> QED
    BY <1>7, <2>1, <2>2, ReplaceShape, ZenonT(60) DEF grpc_stops
<1>8. CASE pools_close(e)
  <2>1. Shape([proc[e] EXCEPT !.at = "closing"])
    BY <1>0, <1>8 DEF pools_close, Shape, Process, Stage
  <2> QED
    BY <1>8, <2>1, ReplaceShape, ZenonT(60) DEF pools_close
<1>9. CASE exits(e) \/ kill(e)
  BY <1>9, ReplaceShape, DownShape DEF exits, kill
<1>10. CASE pass_fails(e)
  BY <1>10 DEF pass_fails, ProcInv
<1>11. CASE call_begins(e)
  <2>1. Shape([proc[e] EXCEPT !.call = "open"])
    BY <1>0, <1>11 DEF call_begins, Shape, Process, Stage
  <2> QED
    BY <1>11, <2>1, ReplaceShape, ZenonT(60) DEF call_begins
<1>12. CASE call_ends(e)
  <2>1. Shape([proc[e] EXCEPT !.call = "none"])
    BY <1>0, <1>12 DEF call_ends, Shape, Process, Stage
  <2> QED
    BY <1>12, <2>1, ReplaceShape, ZenonT(60) DEF call_ends
<1>13. CASE sigterm(e)
  BY <1>0, <1>13, ReplaceShape, CancelledShape, ZenonT(60) DEF sigterm
<1>14. CASE events_start(e)
  <2>1. Shape([proc[e] EXCEPT !.events = "running"])
    BY <1>0, <1>14 DEF events_start, Shape, Process, Stage
  <2>2. proc[e].at = "group"
    BY <1>0, <1>14 DEF events_start, Shape, Process, Stage
  <2> QED
    BY <1>0, <1>14, <2>1, <2>2, ReplaceShape, CancelledShape DEF events_start, task_raises
<1> QED
  BY <1>1, <1>2, <1>3, <1>4, <1>5, <1>6, <1>7, <1>8, <1>9, <1>10, <1>11, <1>12, <1>13, <1>14
     DEF ProcNext, ProcOwn

\* Occurrences lie strictly after the time asked for.
LEMMA NextAfter ==
    ASSUME NEW x \in Nat \ {0}, NEW t \in Nat
    PROVE  next_after(x, t) \in Nat /\ next_after(x, t) > t
BY DEF next_after

-----------------------------------------------------------------------------
(* The cron loop. *)

\* A step that replaces the pass of e and leaves the jobs alone.
LEMMA ReplacePass ==
    ASSUME CronInv, NEW e \in Engine, NEW c \in Pass, PassOK(c), Fired(c),
           cron' = [cron EXCEPT ![e] = c], sched' \in [Schedule -> AnyRow],
           UNCHANGED <<setup, now, live, fired>>
    PROVE  CronInv'
<1>1. cron' \in [Engine -> Pass]
  BY DEF CronInv
<1>2. \A f \in Engine : PassOK(cron'[f]) /\ Fired(cron'[f])
  BY DEF CronInv
<1>3. \A f \in Engine : PassOK(cron[f])' /\ Fired(cron[f])'
  BY <1>2 DEF PassOK, Fired
<1> QED
  BY <1>1, <1>3 DEF CronInv

\* A pass that waits for its interval.
LEMMA AsleepOK == Asleep \in Pass /\ PassOK(Asleep) /\ Fired(Asleep)
BY DEF Asleep, Pass, PassOK, Fired

\* What is left of a pass is a pass.
LEMMA WithoutOK ==
    ASSUME CronInv, NEW e \in Engine, NEW d
    PROVE  contained(e, d) \in Pass /\ PassOK(contained(e, d)) /\ Fired(contained(e, d))
<1>1. cron[e] \in Pass /\ PassOK(cron[e])
  BY DEF CronInv
<1> DEFINE c == [Asleep EXCEPT !.at = "next", !.due = cron[e].due \ {d}]
<1>2. c \in Pass /\ PassOK(c) /\ Fired(c)
  BY <1>1, ZenonT(60) DEF Asleep, Pass, PassOK, Fired
<1> QED
  BY <1>2, AsleepOK DEF contained, without

\* The read of the rows that are due.
LEMMA CronDueStep ==
    ASSUME CronInv, NEW e \in Engine, cron_due(e)
    PROVE  CronInv'
<1> DEFINE c == [Asleep EXCEPT !.at = "next",
                    !.due = {[id |-> s, row |-> sched[s]] : s \in {x \in Schedule : due(x)}}]
<1>1. \A s \in Schedule : [id |-> s, row |-> sched[s]] \in Work
  BY DEF CronInv, Work
<1>2. c \in Pass
  BY <1>1, ZenonT(60) DEF Asleep, Pass
<1>3. \A d \in c.due : d.row.next_fire <= Horizon
  BY SetupAssumption DEF CronInv, AnyRow, due, Asleep
<1>4. PassOK(c) /\ Fired(c)
  BY <1>3 DEF PassOK, Fired, Asleep
<1> QED
  BY <1>2, <1>4, ReplacePass, ZenonT(60) DEF cron_due, procVars, CronInv

\* The clock of an engine is a time.
LEMMA ClockType ==
    ASSUME CronInv, NEW e \in Engine
    PROVE  clock(e) \in Nat
BY SetupAssumption DEF CronInv, clock

\* _fire up to its first write, on the engine's own clock.
LEMMA FireStep ==
    ASSUME CronInv, NEW e \in Engine, NEW d \in cron[e].due, fire(e, d)
    PROVE  CronInv'
<1>1. cron[e] \in Pass /\ PassOK(cron[e])
  BY DEF CronInv
<1>2. d \in Work /\ d.row.next_fire <= Horizon
  BY <1>1 DEF Pass, PassOK
<1> DEFINE c(at) == [at |-> at, due |-> cron[e].due \ {d}, row |-> d, now |-> clock(e)]
<1>3. \A at \in {"init", "submit"} : c(at) \in Pass
  BY <1>1, <1>2, ClockType DEF Pass
<1>4. d.row.expr # Never => PassOK(c("init")) /\ Fired(c("init"))
  BY <1>1, <1>2 DEF PassOK, Fired
<1>5. PassOK(c("submit")) /\ Fired(c("submit"))
  BY <1>1, <1>2 DEF PassOK, Fired
<1>6. \/ cron' = [cron EXCEPT ![e] = contained(e, d)]
      \/ d.row.expr # Never /\ cron' = [cron EXCEPT ![e] = c("init")]
      \/ cron' = [cron EXCEPT ![e] = c("submit")]
  BY ZenonT(60) DEF fire, contained
<1>7. sched' \in [Schedule -> AnyRow] /\ UNCHANGED <<setup, now, live, fired>>
  BY DEF fire, procVars, CronInv
<1> HIDE DEF c
<1> QED
  BY <1>3, <1>4, <1>5, <1>6, <1>7, WithoutOK, ReplacePass

\* What a step may do to the windows: the bodies of the two action properties.
Leaves ==
    \A s \in Schedule :
        LET old == sched[s].next_fire
            new == sched'[s].next_fire
        IN  old # Unset /\ new \notin {old, Unset} => fired[s][old] > 0
Forward ==
    \A s \in Schedule :
        LET old == sched[s].next_fire
            new == sched'[s].next_fire
        IN  old # Unset /\ new # Unset => new >= old

\* A row keeps its window or forgets it.
LEMMA KeepsOrForgets ==
    ASSUME CronInv,
           \A s \in Schedule : sched'[s].next_fire \in {sched[s].next_fire, Unset}
    PROVE  Leaves /\ Forward
<1>1. \A s \in Schedule : sched[s].next_fire \in Nat
  BY DEF CronInv, AnyRow
<1> QED
  BY <1>1 DEF Leaves, Forward

\* The compare-and-swap, whether it took effect or not.
LEMMA SwapStep ==
    ASSUME CronInv, NEW e \in Engine, cron[e].row \in Work,
           NEW new \in Nat, NEW expected, NEW at \in Int, swap(e, new, expected, at),
           expected # Unset => fired[cron[e].row.id][expected] > 0 /\ expected \in Nat /\ new >= expected
    PROVE  CronInv' /\ Leaves /\ Forward
<1> DEFINE k == cron[e].row.id
           r == sched[k]
           swapped == [r EXCEPT !.next_fire = new, !.last_fire = at]
<1>1. k \in Schedule /\ r \in AnyRow
  BY DEF CronInv, Work
<1>2. swapped \in AnyRow /\ swapped.next_fire = new
  BY <1>1, ZenonT(60) DEF AnyRow
<1>3. \/ sched' = sched
      \/ r.next_fire = expected /\ sched' = [sched EXCEPT ![k] = swapped]
  <2>1. sched' = sched \/ sched' = cron_advance(k, new, expected, at)
    BY DEF swap
  <2>2. ~(r.known /\ r.enabled /\ r.next_fire = expected) => cron_advance(k, new, expected, at) = sched
    BY <1>1 DEF cron_advance, CronInv
  <2>3. r.known /\ r.enabled /\ r.next_fire = expected
          => cron_advance(k, new, expected, at) = [sched EXCEPT ![k] = swapped]
    BY <1>1 DEF cron_advance, CronInv
  <2> QED
    BY <2>1, <2>2, <2>3
<1>4. sched' \in [Schedule -> AnyRow]
  BY <1>1, <1>2, <1>3 DEF CronInv
<1>5. CronInv'
  BY <1>4, WithoutOK, ReplacePass, ZenonT(60) DEF swap
<1>6. CASE sched' = sched
  BY <1>5, <1>6, KeepsOrForgets
<1>7. CASE r.next_fire = expected /\ sched' = [sched EXCEPT ![k] = swapped]
  <2>1. \A s \in Schedule \ {k} : sched'[s].next_fire = sched[s].next_fire
    BY <1>7 DEF CronInv
  <2>2. sched'[k].next_fire = new
    BY <1>1, <1>2, <1>7 DEF CronInv
  <2>3. \A s \in Schedule : sched[s].next_fire \in Nat
    BY DEF CronInv, AnyRow
  <2> HIDE DEF swapped
  <2> QED
    BY <1>5, <1>7, <2>1, <2>2, <2>3 DEF Leaves, Forward
<1> QED
  BY <1>3, <1>6, <1>7

\* The first window of a schedule.
LEMMA InitWindowStep ==
    ASSUME CronInv, NEW e \in Engine, init_window(e)
    PROVE  CronInv' /\ Leaves /\ Forward
<1>1. cron[e] \in Pass /\ PassOK(cron[e]) /\ cron[e].at = "init"
  BY DEF CronInv, init_window
<1>2. cron[e].row \in Work /\ cron[e].row.row \in AnyRow /\ cron[e].now \in Nat
      /\ cron[e].row.row.expr # Never
  BY <1>1 DEF PassOK, Pass, Work
<1>3. next_after(cron[e].row.row.expr, cron[e].now) \in Nat /\ cron[e].row.row.last_fire \in Int
  BY <1>2, NextAfter, ZenonT(60) DEF AnyRow, Never
<1> QED
  BY <1>2, <1>3, SwapStep DEF init_window

\* The window moves on once its job is in.
LEMMA AdvanceStep ==
    ASSUME CronInv, NEW e \in Engine, advance(e)
    PROVE  CronInv' /\ Leaves /\ Forward
<1> DEFINE r == cron[e].row.row
           w == r.next_fire
           nxt == next_after(r.expr, w)
           new == IF nxt < cron[e].now THEN cron[e].now ELSE nxt
<1>1. cron[e] \in Pass /\ PassOK(cron[e]) /\ Fired(cron[e]) /\ cron[e].at = "advance"
  BY DEF CronInv, advance
<1>2. cron[e].row \in Work /\ r \in AnyRow /\ cron[e].now \in Nat
      /\ fired[cron[e].row.id][w] > 0
  BY <1>1 DEF PassOK, Fired, Pass, Work
<1>3. CASE r.expr = Never
  <2>1. cron' = [cron EXCEPT ![e] = contained(e, cron[e].row)] /\ UNCHANGED <<setup, now, sched, live, fired>>
    BY <1>3 DEF advance, procVars
  <2>2. sched' \in [Schedule -> AnyRow]
    BY <2>1 DEF CronInv
  <2>3. CronInv'
    BY <2>1, <2>2, WithoutOK, ReplacePass, ZenonT(60)
  <2> QED
    BY <2>1, <2>3, KeepsOrForgets
<1>4. CASE r.expr # Never
  <2>1. nxt \in Nat /\ nxt > w /\ w \in Nat
    BY <1>2, <1>4, NextAfter DEF AnyRow, Never
  <2>2. new \in Nat /\ new >= w
    BY <1>2, <2>1
  <2>3. swap(e, new, w, w)
    BY <1>4 DEF advance
  <2> HIDE DEF new, nxt
  <2> QED
    BY <1>2, <2>1, <2>2, <2>3, SwapStep
<1> QED
  BY <1>3, <1>4

\* A job more for a window never takes one from another.
LEMMA SubmitStep ==
    ASSUME CronInv, NEW e \in Engine, submit(e)
    PROVE  CronInv' /\ Leaves /\ Forward
<1> DEFINE k == cron[e].row.id
           w == cron[e].row.row.next_fire
<1>1. cron[e] \in Pass /\ PassOK(cron[e]) /\ cron[e].at = "submit"
  BY DEF CronInv, submit
<1>2. cron[e].row \in Work /\ k \in Schedule /\ w \in Time
  BY <1>1, SetupAssumption DEF PassOK, Pass, Work, AnyRow, Time
<1>3. PICK committed \in BOOLEAN, raised \in BOOLEAN :
         /\ IF committed /\ <<k, w>> \notin live
            THEN live' = live \cup {<<k, w>>} /\ fired' = [fired EXCEPT ![k][w] = again(fired[k][w])]
            ELSE UNCHANGED <<live, fired>>
         /\ cron' = [cron EXCEPT ![e] = after_submit(e, raised)]
         /\ committed \/ raised
  BY ZenonT(60) DEF submit
<1>3a. fired[k] \in [Time -> 0..2] /\ again(fired[k][w]) \in 0..2 /\ again(fired[k][w]) > 0
  <2>1. fired[k] \in [Time -> 0..2] /\ fired[k][w] \in 0..2
    BY <1>2 DEF CronInv
  <2>2. \A n \in 0..2 : again(n) \in 0..2 /\ again(n) > 0
    BY DEF again
  <2> QED
    BY <2>1, <2>2, ZenonT(60)
<1>4. fired' \in [Schedule -> [Time -> 0..2]]
      /\ \A s \in Schedule, t \in Time : fired[s][t] > 0 => fired'[s][t] > 0
  <2>2. CASE UNCHANGED fired
    BY <2>2 DEF CronInv
  <2>3. CASE fired' = [fired EXCEPT ![k][w] = again(fired[k][w])]
    <3> DEFINE g == [fired[k] EXCEPT ![w] = again(fired[k][w])]
    <3>1. g \in [Time -> 0..2] /\ \A t \in Time : fired[k][t] > 0 => g[t] > 0
      <4> DEFINE f == fired[k]
                 v == again(fired[k][w])
      <4>1. f \in [Time -> 0..2] /\ v \in 0..2 /\ v > 0 /\ w \in Time
        BY <1>2, <1>3a, ZenonT(60)
      <4> HIDE DEF f, v, w
      <4>2. [f EXCEPT ![w] = v] \in [Time -> 0..2]
        BY <4>1
      <4>3. \A t \in Time : f[t] > 0 => [f EXCEPT ![w] = v][t] > 0
        BY <4>1
      <4> QED
        BY <4>2, <4>3, ZenonT(60) DEF f, v
    <3>2. fired' = [fired EXCEPT ![k] = g]
      BY <2>3
    <3> HIDE DEF g
    <3> QED
      BY <1>2, <3>1, <3>2 DEF CronInv
  <2> QED
    BY <1>3, <2>2, <2>3
<1>5. committed => fired'[k][w] > 0
  <2>1. CASE committed /\ <<k, w>> \notin live
    <3>1. fired' = [fired EXCEPT ![k] = [fired[k] EXCEPT ![w] = again(fired[k][w])]]
      BY <1>3, <2>1
    <3>2. fired'[k] = [fired[k] EXCEPT ![w] = again(fired[k][w])]
      BY <1>2, <3>1 DEF CronInv
    <3> QED
      BY <1>2, <1>3a, <3>2, ZenonT(60)
  <2>2. CASE <<k, w>> \in live
    BY <1>2, <1>3, <2>2 DEF CronInv
  <2> QED
    BY <2>1, <2>2
<1>6. live' \subseteq Schedule \X Time
      /\ \A s \in Schedule, t \in Time : <<s, t>> \in live' => fired'[s][t] > 0
  <2>1. live' = live \/ (committed /\ live' = live \cup {<<k, w>>})
    BY <1>3
  <2> QED
    BY <1>2, <1>4, <1>5, <2>1 DEF CronInv
<1> DEFINE c == after_submit(e, raised)
<1>7. c \in Pass /\ PassOK(c) /\ (c.at = "advance" => ~raised /\ c.row = cron[e].row)
  <2>1. [cron[e] EXCEPT !.at = "advance"] \in Pass /\ PassOK([cron[e] EXCEPT !.at = "advance"])
    BY <1>1, <1>2 DEF Pass, PassOK
  <2>2. contained(e, cron[e].row).at # "advance"
    BY DEF contained, without, Asleep
  <2> QED
    BY <1>1, <2>1, <2>2, WithoutOK DEF after_submit, Pass
<1>8. cron' = [cron EXCEPT ![e] = c] /\ UNCHANGED <<setup, now, sched>>
  BY <1>3, ZenonT(60) DEF submit
<1> HIDE DEF c
<1>9. cron' \in [Engine -> Pass] /\ \A f \in Engine : PassOK(cron'[f])
  BY <1>7, <1>8 DEF CronInv
<1>10. \A f \in Engine : cron'[f].at = "advance" => fired'[cron'[f].row.id][cron'[f].row.row.next_fire] > 0
  <2> SUFFICES ASSUME NEW f \in Engine, cron'[f].at = "advance"
               PROVE  fired'[cron'[f].row.id][cron'[f].row.row.next_fire] > 0
    OBVIOUS
  <2>1. CASE f = e
    BY <1>3, <1>5, <1>7, <1>8, <2>1 DEF CronInv
  <2>2. CASE f # e
    <3>1. cron'[f] = cron[f] /\ PassOK(cron[f]) /\ Fired(cron[f])
      BY <1>8, <2>2 DEF CronInv
    <3>2. cron[f].row \in Work /\ cron[f].row.row.next_fire \in Time
      BY <3>1, SetupAssumption DEF PassOK, Work, AnyRow, Time
    <3> QED
      BY <1>4, <3>1, <3>2 DEF Fired, Work
  <2> QED
    BY <2>1, <2>2
<1>11. CronInv'
  BY <1>4, <1>6, <1>8, <1>9, <1>10, ZenonT(60) DEF CronInv, PassOK, Fired
<1> QED
  BY <1>8, <1>11, KeepsOrForgets

\* An edit keeps the window of a row or forgets it.
LEMMA EditStep ==
    ASSUME CronInv, NEW s \in Schedule, NEW r \in AnyRow, edit(s, r),
           r.next_fire \in {sched[s].next_fire, Unset}
    PROVE  CronInv' /\ Leaves /\ Forward
<1>1. sched' \in [Schedule -> AnyRow] /\ UNCHANGED <<setup, now, live, fired, cron>>
  BY DEF edit, procVars, CronInv
<1>2. \A x \in Schedule : sched'[x].next_fire \in {sched[x].next_fire, Unset}
  BY DEF edit, CronInv
<1>3. CronInv'
  BY <1>1 DEF CronInv, PassOK, Fired
<1> QED
  BY <1>2, <1>3, KeepsOrForgets

\* Upsert, enable or disable, delete.
LEMMA CronEditsStep ==
    ASSUME CronInv, NEW s \in Schedule, CronEdits(s)
    PROVE  CronInv' /\ Leaves /\ Forward
<1>1. sched[s] \in AnyRow /\ Absent \in AnyRow /\ Absent.next_fire = Unset
  BY DEF CronInv, AnyRow, Absent, Never, Unset
<1>2. ASSUME NEW x \in 0..Horizon, NEW b \in BOOLEAN, upsert_cron(s, x, b)
      PROVE  CronInv' /\ Leaves /\ Forward
  <2> DEFINE r == cron_upsert(sched[s], x, b)
  <2> SUFFICES r \in AnyRow /\ r.next_fire \in {sched[s].next_fire, Unset}
    BY <1>2, EditStep DEF upsert_cron
  <2>1. CASE ~sched[s].known
    <3>1. r = [Absent EXCEPT !.known = TRUE, !.expr = x, !.enabled = b]
      BY <2>1 DEF cron_upsert
    <3>2. x \in Nat
      BY SetupAssumption
    <3> QED
      BY <1>1, <3>1, <3>2, ZenonT(60) DEF AnyRow
  <2>2. CASE sched[s].known
    <3>1. r = [sched[s] EXCEPT !.expr = x, !.enabled = b,
                               !.next_fire = IF x = sched[s].expr THEN sched[s].next_fire ELSE Unset]
      BY <2>2 DEF cron_upsert
    <3>2. x \in Nat /\ (IF x = sched[s].expr THEN sched[s].next_fire ELSE Unset) \in Nat
      BY <1>1, SetupAssumption DEF AnyRow, Unset
    <3> QED
      BY <1>1, <3>1, <3>2, ZenonT(60) DEF AnyRow
  <2> QED
    BY <2>1, <2>2
<1>3. ASSUME NEW b \in BOOLEAN, set_cron_enabled(s, b)
      PROVE  CronInv' /\ Leaves /\ Forward
  <2>1. [sched[s] EXCEPT !.enabled = b] \in AnyRow
        /\ [sched[s] EXCEPT !.enabled = b].next_fire = sched[s].next_fire
    BY <1>1 DEF AnyRow
  <2> QED
    BY <1>3, <2>1, EditStep, ZenonT(60) DEF set_cron_enabled
<1>4. CASE delete_cron(s)
  BY <1>1, <1>4, EditStep DEF delete_cron
<1> QED
  BY <1>2, <1>3, <1>4 DEF CronEdits

\* Every step of the cron loop, of an admin, of a job that settles and of time.
LEMMA CronStep ==
    ASSUME CronInv, CronNext
    PROVE  CronInv' /\ Leaves /\ Forward
<1>1. ASSUME NEW e \in Engine, CronOwn(e)
      PROVE  CronInv' /\ Leaves /\ Forward
  <2>1. CASE cron_due(e)
    BY <2>1, CronDueStep, KeepsOrForgets, ZenonT(60) DEF cron_due
  <2>2. ASSUME NEW d \in cron[e].due, fire(e, d) PROVE CronInv' /\ Leaves /\ Forward
    <3>1. sched' = sched
      BY <2>2 DEF fire
    <3> QED
      BY <2>2, <3>1, FireStep, KeepsOrForgets
  <2> QED
    BY <1>1, <2>1, <2>2, InitWindowStep, SubmitStep, AdvanceStep DEF CronOwn
<1>2. ASSUME NEW j \in live, settle(j) PROVE CronInv' /\ Leaves /\ Forward
  <2>1. live' \subseteq live /\ UNCHANGED <<setup, now, sched, fired, cron>>
    BY <1>2 DEF settle, procVars
  <2>2. CronInv'
    BY <2>1 DEF CronInv, PassOK, Fired
  <2> QED
    BY <2>1, <2>2, KeepsOrForgets
<1>3. CASE tick
  <2>1. now' \in 1..Horizon /\ UNCHANGED <<setup, sched, live, fired, cron>>
    BY <1>3, SetupAssumption DEF tick, procVars, CronInv
  <2>2. CronInv'
    BY <2>1 DEF CronInv, PassOK, Fired
  <2> QED
    BY <2>1, <2>2, KeepsOrForgets
<1> QED
  BY <1>1, <1>2, <1>3, CronEditsStep DEF CronNext

\* The pass of an engine that goes down is gone.
LEMMA FollowsStep ==
    ASSUME CronInv, CronFollows, setup' = setup
    PROVE  CronInv' /\ Leaves /\ Forward
<1>1. UNCHANGED <<setup, now, sched, live, fired>>
  BY DEF CronFollows
<1>2. \A e \in Engine : cron'[e] \in {cron[e], Asleep}
  BY DEF CronFollows
<1>3. cron' \in [Engine -> Pass]
  BY <1>2, AsleepOK DEF CronFollows, CronInv
<1>4. \A e \in Engine : PassOK(cron'[e]) /\ Fired(cron'[e])
  BY <1>2, AsleepOK DEF CronInv
<1>5. CronInv'
  BY <1>1, <1>3, <1>4, ZenonT(60) DEF CronInv, PassOK, Fired
<1> QED
  BY <1>1, <1>5, KeepsOrForgets

-----------------------------------------------------------------------------
IInv == ProcInv /\ CronInv

\* The initial states.
LEMMA InitIInv == Init => IInv
<1> SUFFICES ASSUME Init PROVE IInv
  OBVIOUS
<1>1. ProcInv
  BY DownShape DEF Init, ProcInit, ProcInv
<1>2. sched \in [Schedule -> AnyRow]
  <2>1. sched \in [Schedule -> Row]
    BY SetupAssumption DEF Init, CronInit
  <2>2. Row \subseteq AnyRow
    BY SetupAssumption DEF Row, AnyRow, Time
  <2> QED
    BY <2>1, <2>2
<1>3. fired \in [Schedule -> [Time -> 0..2]] /\ live = {} /\ now \in 1..Horizon
  BY SetupAssumption DEF Init, CronInit
<1>4. cron \in [Engine -> Pass] /\ \A e \in Engine : PassOK(cron[e]) /\ Fired(cron[e])
  BY AsleepOK DEF Init, CronInit
<1>5. setup \in Setups
  BY DEF Init
<1> QED
  BY <1>1, <1>2, <1>3, <1>4, <1>5 DEF IInv, CronInv

\* A step of the cron loop leaves the processes alone.
LEMMA CronFrame == ASSUME CronNext PROVE proc' = proc
BY ZenonT(60) DEF CronNext, CronOwn, CronEdits, cron_due, fire, init_window, submit, advance, swap,
       upsert_cron, set_cron_enabled, delete_cron, edit, settle, tick, procVars

\* So does one of the event poller.
LEMMA EventFrame == ASSUME EventNext PROVE proc' = proc /\ setup' = setup
BY ZenonT(60) DEF EventNext, EventOwn, record_event, commit, rollback, poll_once, poll_done, poll_fails,
       subscribe, get, unsubscribe, snapshot_begins, snapshot_for_ctx, procVars
\* The control plane calls change no process.
LEMMA ReadFrame == ASSUME ReadNext PROVE proc' = proc /\ setup' = setup
BY ZenonT(60) DEF ReadNext, begins, submit_begins, fan_out_begins, resubmit_begins, terminal_begins,
   submit_commits, terminal_commits, submit_fails, moves, query_begins, await_begins, Cancel, cancel_reads,
       cancel_immediate, cancel_running, Query, AwaitJob, await_wakes, deadline, procVars
\* The calls of the workers change no process.
LEMMA RpcFrame == ASSUME RpcNext PROVE proc' = proc /\ setup' = setup
BY ZenonT(60) DEF RpcNext, assigned, handle, Complete, Fail, serve, breaks, sweep, procVars

\* Steps that leave the processes and the loop alone.
LEMMA Stutters ==
    ASSUME IInv, UNCHANGED <<proc, setup, cronVars>>
    PROVE  IInv' /\ Leaves /\ Forward
<1>1. CronInv' /\ sched' = sched
  BY DEF IInv, CronInv, PassOK, Fired, cronVars
<1>2. ProcInv'
  BY DEF IInv, ProcInv
<1> QED
  BY <1>1, <1>2, KeepsOrForgets DEF IInv

\* Every step of the composition.
LEMMA NextIInv ==
    ASSUME IInv, [Next]_allVars
    PROVE  IInv' /\ Leaves /\ Forward
<1>1. ASSUME NEW e \in Engine, (ProcNext(e) /\ Follow) \/ Starts(e)
      PROVE  IInv' /\ Leaves /\ Forward
  <2>1. (ProcNext(e) \/ events_start(e)) /\ CronFollows
    BY <1>1 DEF Follow, Starts, start
  <2> QED
    BY <2>1, ProcStep, FollowsStep DEF IInv
<1>2. CASE CronNext
  <2>1. ProcInv'
    BY <1>2, CronFrame DEF IInv, ProcInv
  <2> QED
    BY <1>2, <2>1, CronStep DEF IInv
<1>3. CASE (EventNext \/ ReadNext \/ RpcNext) /\ UNCHANGED cronVars
  BY <1>3, EventFrame, ReadFrame, RpcFrame, Stutters
<1>4. CASE UNCHANGED allVars
  BY <1>4, Stutters DEF allVars, procVars
<1> QED
  BY <1>1, <1>2, <1>3, <1>4 DEF Next

\* An engine that /readyz reports ready has bound its gRPC port, through every
\* start, failure, signal and kill.
THEOREM BoundBeforeReady == Spec => []ReadyMeansBound
<1>1. IInv => ReadyMeansBound
  BY DEF IInv, ProcInv, Shape, Process, Stage, ReadyMeansBound, readyz
<1> QED
  BY <1>1, InitIInv, NextIInv, PTL DEF Spec

\* The pools are never closed under a call of a server that announced itself.
THEOREM PoolsLast == Spec => []PoolsOutliveCalls
<1>1. IInv => PoolsOutliveCalls
  BY DEF IInv, ProcInv, Shape, Process, Stage, PoolsOutliveCalls
<1> QED
  BY <1>1, InitIInv, NextIInv, PTL DEF Spec

\* No step of any engine, no crash, failed round trip or edit moves next_fire
\* past a window that no job was submitted for.
THEOREM WindowsFire == Spec => NoSkippedWindow
<1>1. Leaves => [\A s \in Schedule :
         LET old == sched[s].next_fire
             new == sched'[s].next_fire
         IN  old # Unset /\ new \notin {old, Unset} => fired[s][old] > 0]_cronVars
  BY DEF Leaves
<1> QED
  BY <1>1, InitIInv, NextIInv, PTL DEF Spec, NoSkippedWindow

\* Between two edits the windows of a schedule only move forward, whatever the
\* clocks of the engines say.
THEOREM WindowsMoveOn == Spec => WindowsAdvance
<1>1. Forward => [\A s \in Schedule :
         LET old == sched[s].next_fire
             new == sched'[s].next_fire
         IN  old # Unset /\ new # Unset => new >= old]_cronVars
  BY DEF Forward
<1> QED
  BY <1>1, InitIInv, NextIInv, PTL DEF Spec, WindowsAdvance

-----------------------------------------------------------------------------
(* The calls of the workers. *)

\* A lease that settled its job is no longer running under its token.
RpcInv ==
    /\ row \in [state: {"queued", "running", "succeeded", "dead"}, token: Nat]
    /\ worker \in [Worker -> [at: {"idle", "handle", "complete", "fail", "ended"}, token: Nat]]
    /\ net \subseteq [from: Worker, op: {"complete", "fail"}, token: Nat]
    /\ accepted \in Seq(Nat)
    /\ \A n \in 1..Len(accepted) : /\ accepted[n] <= row.token
                                   /\ accepted[n] = row.token => row.state # "running"
    /\ LeaseSettlesOnce
    /\ AckIsDurable

\* What a worker does with an answer.
LEMMA AnswerStep ==
    ASSUME RpcInv, NEW w \in Worker, NEW ok \in BOOLEAN, answer(w, ok)
    PROVE  /\ worker' \in [Worker -> [at: {"idle", "handle", "complete", "fail", "ended"}, token: Nat]]
           /\ follow_up(w, ok) \subseteq [from: Worker, op: {"complete", "fail"}, token: Nat]
           /\ acked' # acked => ok /\ worker[w].at = "complete" /\ acked' = acked \cup {worker[w].token}
<1>1. worker[w] \in [at: {"idle", "handle", "complete", "fail", "ended"}, token: Nat]
  BY DEF RpcInv
<1>2. follow_up(w, ok) \subseteq [from: Worker, op: {"complete", "fail"}, token: Nat]
  BY <1>1 DEF follow_up, request
<1>3. worker' \in [Worker -> [at: {"idle", "handle", "complete", "fail", "ended"}, token: Nat]]
  BY <1>1 DEF answer, RpcInv, Free
<1> QED
  BY <1>2, <1>3 DEF answer

\* A request that does not hold the lease, or a connection that breaks.
LEMMA RefusedStep ==
    ASSUME RpcInv, UNCHANGED <<row, accepted, acked>>,
           worker' \in [Worker -> [at: {"idle", "handle", "complete", "fail", "ended"}, token: Nat]],
           net' \subseteq [from: Worker, op: {"complete", "fail"}, token: Nat]
    PROVE  RpcInv'
BY DEF RpcInv, LeaseSettlesOnce, AckIsDurable

\* complete_move and fail_peek let a request settle the job only under the
\* token it runs with.
LEMMA ServeStep ==
    ASSUME RpcInv, NEW m \in net, NEW replied \in BOOLEAN, serve(m, replied)
    PROVE  RpcInv'
<1>1. m \in [from: Worker, op: {"complete", "fail"}, token: Nat] /\ m.from \in Worker
  BY DEF RpcInv
<1>2. /\ worker' \in [Worker -> [at: {"idle", "handle", "complete", "fail", "ended"}, token: Nat]]
      /\ net' \subseteq [from: Worker, op: {"complete", "fail"}, token: Nat]
      /\ acked' # acked => /\ holds(m) /\ m.op = "complete"
                           /\ acked' = acked \cup {m.token}
  <2>1. CASE worker[m.from].at = m.op /\ worker[m.from].token = m.token
    <3>1. answer(m.from, replied /\ holds(m)) /\ net' = (net \ {m}) \cup follow_up(m.from, replied /\ holds(m))
      BY <2>1 DEF serve
    <3>2. (replied /\ holds(m)) \in BOOLEAN
      BY DEF holds
    <3> QED
      BY <1>1, <2>1, <3>1, <3>2, AnswerStep, ZenonT(60) DEF RpcInv
  <2>2. CASE ~(worker[m.from].at = m.op /\ worker[m.from].token = m.token)
    BY <2>2 DEF serve, RpcInv
  <2> QED
    BY <2>1, <2>2
<1>3. CASE ~holds(m)
  <2>1. UNCHANGED <<row, accepted, acked>>
    BY <1>2, <1>3 DEF serve
  <2> QED
    BY <1>2, <2>1, RefusedStep
<1>4. CASE holds(m)
  <2>1. row.state = "running" /\ row.token = m.token /\ acked = {} /\ m.token \in Nat
    BY <1>1, <1>4 DEF holds, RpcInv, AckIsDurable
  <2>2. moved(m) \in {"succeeded", "queued", "dead"} /\ (m.op = "complete" => moved(m) = "succeeded")
    BY <1>1 DEF moved
  <2>3. row' = [row EXCEPT !.state = moved(m)] /\ accepted' = Append(accepted, m.token)
    BY <1>4 DEF serve
  <2>4. row' \in [state: {"queued", "running", "succeeded", "dead"}, token: Nat]
        /\ row'.token = m.token /\ row'.state = moved(m) /\ row'.state # "running"
    BY <2>1, <2>2, <2>3 DEF RpcInv
  <2>5. /\ accepted' \in Seq(Nat)
        /\ \A n \in 1..Len(accepted') : accepted'[n] <= m.token
        /\ LeaseSettlesOnce'
    BY <2>1, <2>3 DEF RpcInv, LeaseSettlesOnce
  <2>6. AckIsDurable'
    BY <1>2, <2>1, <2>2, <2>4 DEF AckIsDurable
  <2> QED
    BY <1>2, <2>4, <2>5, <2>6 DEF RpcInv
<1> QED
  BY <1>3, <1>4

\* Every step of a worker, of the network and of the sweeper.
LEMMA RpcStep ==
    ASSUME RpcInv, [RpcNext]_rpcVars
    PROVE  RpcInv'
<1>1. ASSUME NEW w \in Worker, assigned(w) PROVE RpcInv'
  <2>1. row.state = "queued" /\ row.token \in Nat /\ acked = {}
        /\ row' = [state |-> "running", token |-> row.token + 1] /\ UNCHANGED <<net, accepted, acked>>
    BY <1>1 DEF assigned, RpcInv, AckIsDurable
  <2>2. worker' \in [Worker -> [at: {"idle", "handle", "complete", "fail", "ended"}, token: Nat]]
    BY <1>1, <2>1 DEF assigned, RpcInv
  <2>3. \A n \in 1..Len(accepted') : accepted'[n] < row'.token
    BY <2>1 DEF RpcInv
  <2> QED
    BY <2>1, <2>2, <2>3 DEF RpcInv, LeaseSettlesOnce, AckIsDurable
<1>2. ASSUME NEW w \in Worker, handle(w) PROVE RpcInv'
  <2>1. PICK op \in {"complete", "fail"} : call_rpc(w, op)
    BY <1>2 DEF handle
  <2>2. worker[w].token \in Nat
    BY DEF RpcInv
  <2>3. worker' \in [Worker -> [at: {"idle", "handle", "complete", "fail", "ended"}, token: Nat]]
    BY <2>1 DEF call_rpc, RpcInv
  <2>4. net' \subseteq [from: Worker, op: {"complete", "fail"}, token: Nat]
    BY <2>1, <2>2 DEF call_rpc, request, RpcInv
  <2> QED
    BY <1>2, <2>3, <2>4, RefusedStep DEF handle
<1>3. ASSUME NEW w \in Worker, NEW dropped \in BOOLEAN, breaks(w, dropped) PROVE RpcInv'
  <2>1. UNCHANGED <<row, accepted>> /\ answer(w, FALSE)
        /\ net' \subseteq net \cup follow_up(w, FALSE)
    BY <1>3, ZenonT(60) DEF breaks
  <2> QED
    BY <2>1, AnswerStep, RefusedStep, ZenonT(60) DEF RpcInv
<1>4. CASE sweep
  <2>1. row' \in [state: {"queued", "running", "succeeded", "dead"}, token: Nat]
        /\ row'.token = row.token /\ row'.state = "queued" /\ row.state = "running"
        /\ UNCHANGED <<worker, net, accepted, acked>>
    BY <1>4 DEF sweep, RpcInv
  <2> QED
    BY <2>1 DEF RpcInv, LeaseSettlesOnce, AckIsDurable
<1>5. CASE UNCHANGED rpcVars
  BY <1>5, RefusedStep DEF rpcVars, RpcInv
<1> QED
  BY <1>1, <1>2, <1>3, <1>4, <1>5, ServeStep DEF RpcNext, Complete, Fail

\* The invariant of the calls holds in every state of the composition.
LEMMA RpcInvariance == Spec => []RpcInv
<1>1. Init => RpcInv
  BY DEF Init, RpcInit, RpcInv, Free, LeaseSettlesOnce, AckIsDurable
<1>2. RpcInv /\ [Next]_allVars => RpcInv'
  <2>1. [Next]_allVars => [RpcNext]_rpcVars
    BY DEF Next, Starts, Follow, allVars
  <2> QED
    BY <2>1, RpcStep
<1> QED
  BY <1>1, <1>2, PTL DEF Spec

\* For any number of workers, attempts and lost or late messages, a result a
\* worker saw accepted stays the job's outcome.
THEOREM ResultStands == Spec => []AckIsDurable
BY RpcInvariance, PTL DEF RpcInv

\* No lease ever settles its job twice, although Complete and Fail of one
\* attempt may both reach the engine.
THEOREM SettledOnce == Spec => []LeaseSettlesOnce
BY RpcInvariance, PTL DEF RpcInv

-----------------------------------------------------------------------------
(***************************************************************************)
(* The group ceiling across engines, for any number of engines and jobs and*)
(* any cap.                                                                *)
(***************************************************************************)
\* The counter is between the rows it stands for and the cap, and an engine
\* that computed headroom still holds the lock it read the counter under, so
\* the headroom is current.
ClaimInv ==
    /\ ClaimTypeOK
    /\ Cardinality(RunningCapped) <= running
    /\ running <= Cap
    /\ \A e, f \in holder : e = f
    /\ \A e \in Claimer : headroom[e] # 0 => e \in holder
    /\ \A e \in holder : pc[e] = "rows" /\ headroom[e] = Cap - running

\* Sets of capped jobs have a size.
LEMMA CappedFinite ==
    ASSUME NEW S \in SUBSET Capped
    PROVE  IsFiniteSet(S) /\ Cardinality(S) \in Nat
<1>1. S \subseteq Claimable
  BY DEF Claimable
<1>2. IsFiniteSet(S)
  BY <1>1, ClaimAssumption, FS_Subset
<1> QED
  BY <1>2, FS_CardinalityType

\* Before the first claim nothing runs.
LEMMA InitClaimInv == ClaimInit => ClaimInv
<1> SUFFICES ASSUME ClaimInit PROVE ClaimInv
  OBVIOUS
<1>1. RunningCapped = {}
  BY DEF ClaimInit, RunningCapped, Claimable
<1>2. Cardinality(RunningCapped) = 0
  BY <1>1, FS_EmptySet
<1>3. ClaimTypeOK
  BY DEF ClaimInit, ClaimTypeOK
<1> QED
  BY <1>2, <1>3, ClaimAssumption DEF ClaimInit, ClaimInv

\* The statement's snapshot touches neither rows, counter nor locks.
LEMMA SnapshotStep ==
    ASSUME ClaimInv, NEW e \in Claimer, Snapshot(e)
    PROVE  ClaimInv'
<1>1. ClaimTypeOK'
  BY DEF ClaimInv, ClaimTypeOK, Snapshot, Queued
<1>2. RunningCapped' = RunningCapped
  BY DEF Snapshot, RunningCapped
<1>3. e \notin holder
  BY DEF ClaimInv, Snapshot
<1> QED
  BY <1>1, <1>2, <1>3 DEF ClaimInv, ClaimTypeOK, Snapshot

\* The lock of the counter row is free when it is taken, and running is read
\* under it.
LEMMA LockGroupStep ==
    ASSUME ClaimInv, NEW e \in Claimer, LockGroup(e)
    PROVE  ClaimInv'
<1>1. ClaimTypeOK'
  BY ClaimAssumption DEF ClaimInv, ClaimTypeOK, LockGroup
<1>2. RunningCapped' = RunningCapped
  BY DEF LockGroup, RunningCapped
<1>3. e \notin holder
  BY DEF ClaimInv, LockGroup
<1>4. CASE GroupLock(e)
  <2>1. holder = {} /\ holder' = {e} /\ headroom' = [headroom EXCEPT ![e] = Cap - running]
    BY <1>4 DEF LockGroup, GroupLock
  <2> QED
    BY <1>1, <1>2, <2>1 DEF ClaimInv, ClaimTypeOK, LockGroup
<1>5. CASE ~GroupLock(e)
  <2>1. holder' = holder /\ headroom' = [headroom EXCEPT ![e] = 0]
    BY <1>5 DEF LockGroup
  <2> QED
    BY <1>1, <1>2, <1>3, <2>1 DEF ClaimInv, ClaimTypeOK, LockGroup
<1> QED
  BY <1>4, <1>5

\* A claim adds at most the rows it counts, and counts at most its headroom.
LEMMA TakeRowsStep ==
    ASSUME ClaimInv, NEW e \in Claimer, NEW S \in SUBSET snapshot[e], TakeRows(e, S)
    PROVE  ClaimInv'
<1> DEFINE n == Cardinality(S \cap Capped)
<1>1. n \in Nat /\ IsFiniteSet(S \cap Capped)
  BY CappedFinite
<1>2. ClaimTypeOK'
  <2>1. rows' \in [Claimable -> [state: {"queued", "running", "archived"}, attempt: Nat]]
    BY DEF ClaimInv, ClaimTypeOK, TakeRows
  <2>2. running' \in Nat
    BY <1>1 DEF ClaimInv, ClaimTypeOK, TakeRows
  <2> QED
    BY <2>1, <2>2 DEF ClaimInv, ClaimTypeOK, TakeRows, EndClaim
<1>3. RunningCapped' \subseteq RunningCapped \cup (S \cap Capped)
  BY DEF TakeRows, RunningCapped, Claimable
<1>4. IsFiniteSet(RunningCapped) /\ Cardinality(RunningCapped) \in Nat
  BY CappedFinite DEF RunningCapped
<1>5. IsFiniteSet(RunningCapped \cup (S \cap Capped))
      /\ Cardinality(RunningCapped \cup (S \cap Capped)) \in Nat
      /\ Cardinality(RunningCapped \cup (S \cap Capped)) <= Cardinality(RunningCapped) + n
  <2>1. Cardinality(RunningCapped \cup (S \cap Capped)) =
           Cardinality(RunningCapped) + n - Cardinality(RunningCapped \cap (S \cap Capped))
    BY <1>1, <1>4, FS_Union
  <2>2. Cardinality(RunningCapped \cap (S \cap Capped)) \in Nat
    BY CappedFinite DEF RunningCapped
  <2>3. RunningCapped \cup (S \cap Capped) \in SUBSET Capped
    BY DEF RunningCapped
  <2> HIDE DEF n
  <2> QED
    BY <1>1, <1>4, <2>1, <2>2, <2>3, CappedFinite
<1>6. Cardinality(RunningCapped') <= Cardinality(RunningCapped) + n
  <2>1. Cardinality(RunningCapped') <= Cardinality(RunningCapped \cup (S \cap Capped))
    BY <1>3, <1>5, FS_Subset
  <2>2. Cardinality(RunningCapped') \in Nat
    <3>1. RunningCapped' \in SUBSET Capped
      BY DEF RunningCapped
    <3> QED
      BY <3>1, CappedFinite
  <2> HIDE DEF n
  <2> QED
    BY <1>1, <1>4, <1>5, <2>1, <2>2
<1>7. Cardinality(RunningCapped') <= running' /\ running' <= Cap
  <2>1. running' = running + n /\ n <= headroom[e]
    BY DEF TakeRows
  <2>2. Cardinality(RunningCapped') \in Nat
    <3>1. RunningCapped' \in SUBSET Capped
      BY DEF RunningCapped
    <3> QED
      BY <3>1, CappedFinite
  <2>3. headroom[e] = 0 \/ headroom[e] = Cap - running
    BY DEF ClaimInv
  <2> HIDE DEF n
  <2> QED
    BY <1>1, <1>4, <1>6, <2>1, <2>2, <2>3, ClaimAssumption DEF ClaimInv, ClaimTypeOK
<1>8. (\A f \in holder' : pc'[f] = "rows" /\ headroom'[f] = Cap - running')
  <2> SUFFICES ASSUME NEW f \in holder' PROVE pc'[f] = "rows" /\ headroom'[f] = Cap - running'
    OBVIOUS
  <2>1. f \in holder /\ f # e
    BY DEF TakeRows, EndClaim
  <2>2. e \notin holder
    BY <2>1 DEF ClaimInv
  <2>3. headroom[e] = 0
    BY <2>2 DEF ClaimInv
  <2>4. running' = running
    BY <1>1, <2>3 DEF TakeRows, ClaimInv, ClaimTypeOK
  <2> QED
    BY <2>1, <2>4 DEF ClaimInv, ClaimTypeOK, TakeRows, EndClaim
<1>9. \A f, g \in holder' : f = g
  BY DEF ClaimInv, TakeRows, EndClaim
<1>10. \A f \in Claimer : headroom'[f] # 0 => f \in holder'
  <2>1. headroom \in [Claimer -> Int]
    BY DEF ClaimInv, ClaimTypeOK
  <2>2. headroom' = [headroom EXCEPT ![e] = 0] /\ holder' = holder \ {e}
    BY DEF TakeRows, EndClaim
  <2> QED
    BY <2>1, <2>2 DEF ClaimInv
<1> HIDE DEF n
<1> QED
  BY <1>2, <1>7, <1>8, <1>9, <1>10 DEF ClaimInv

\* A claim that rolls back gives up its lock and its headroom.
LEMMA ClaimAbortStep ==
    ASSUME ClaimInv, NEW e \in Claimer, Abort(e)
    PROVE  ClaimInv'
<1>1. ClaimTypeOK'
  BY DEF ClaimInv, ClaimTypeOK, Abort, EndClaim
<1>2. RunningCapped' = RunningCapped
  BY DEF Abort, RunningCapped
<1> QED
  BY <1>1, <1>2 DEF ClaimInv, ClaimTypeOK, Abort, EndClaim

\* A capped row that leaves running gives back one slot, while nobody holds the
\* counter.
LEMMA LeaveStep ==
    ASSUME ClaimInv, NEW j \in Claimable, NEW st \in {"queued", "archived"}, Leave(j, st)
    PROVE  ClaimInv'
<1>1. ClaimTypeOK'
  BY DEF ClaimInv, ClaimTypeOK, Leave
<1>2. IsFiniteSet(RunningCapped) /\ Cardinality(RunningCapped) \in Nat
  BY CappedFinite DEF RunningCapped
<1>3. CASE j \in Capped
  <2>1. RunningCapped' = RunningCapped \ {j} /\ j \in RunningCapped
    BY <1>3 DEF Leave, RunningCapped, ClaimInv, ClaimTypeOK, Claimable
  <2>2. Cardinality(RunningCapped') = Cardinality(RunningCapped) - 1
    BY <1>2, <2>1, FS_RemoveElement
  <2>3. holder = {}
    BY <1>3 DEF Leave
  <2>4. running' = IF running > 0 THEN running - 1 ELSE running
    BY <1>3 DEF Leave
  <2>5. Cardinality(RunningCapped') <= running' /\ running' <= Cap
    <3>1. Cardinality(RunningCapped') \in Nat
      BY <1>2, <2>1, <2>2, CappedFinite DEF RunningCapped
    <3> QED
      BY <1>2, <2>2, <2>4, <3>1, ClaimAssumption DEF ClaimInv, ClaimTypeOK
  <2> QED
    BY <1>1, <2>3, <2>5 DEF ClaimInv, Leave
<1>4. CASE j \notin Capped
  <2>1. RunningCapped' = RunningCapped
    BY <1>4 DEF Leave, RunningCapped, ClaimInv, ClaimTypeOK, Claimable
  <2>2. running' = running
    BY <1>4 DEF Leave
  <2> QED
    BY <1>1, <2>1, <2>2 DEF ClaimInv, Leave
<1> QED
  BY <1>3, <1>4

\* Cancelling a queued job changes no slot.
LEMMA CancelQueuedStep ==
    ASSUME ClaimInv, NEW j \in Claimable, CancelQueued(j)
    PROVE  ClaimInv'
<1>1. ClaimTypeOK'
  BY DEF ClaimInv, ClaimTypeOK, CancelQueued
<1>2. RunningCapped' = RunningCapped
  BY DEF CancelQueued, RunningCapped, ClaimInv, ClaimTypeOK, Claimable
<1> QED
  BY <1>1, <1>2 DEF ClaimInv, CancelQueued

\* The invariant holds in every state.
THEOREM CounterCovers == ClaimSpec => []ClaimInv
<1>1. ClaimInv /\ [ClaimNext]_claimVars => ClaimInv'
  <2> SUFFICES ASSUME ClaimInv, [ClaimNext]_claimVars PROVE ClaimInv'
    OBVIOUS
  <2>1. CASE ClaimNext
    BY <2>1, SnapshotStep, LockGroupStep, TakeRowsStep, ClaimAbortStep, LeaveStep, CancelQueuedStep
       DEF ClaimNext
  <2>2. CASE UNCHANGED claimVars
    BY <2>2 DEF claimVars, ClaimInv, ClaimTypeOK, RunningCapped
  <2> QED
    BY <2>1, <2>2
<1> QED
  BY <1>1, InitClaimInv, PTL DEF ClaimSpec

\* claim.sql keeps the ceiling of a capped key however many engines run it at
\* once: batches are bounded by the headroom read under the counter's lock.
THEOREM Ceiling == ClaimSpec => []CeilingAcrossEngines
<1>1. ClaimInv => CeilingAcrossEngines
  <2>1. Cardinality(RunningCapped) \in Nat
    BY CappedFinite DEF RunningCapped
  <2> QED
    BY <2>1, ClaimAssumption DEF ClaimInv, ClaimTypeOK, CeilingAcrossEngines
<1> QED
  BY <1>1, CounterCovers, PTL

\* The counter of a capped key covers the rows that run for any number of engines
\* and jobs, also when engines claim a row twice: what is released was counted.
THEOREM CounterNeverLags == ClaimSpec => []CounterNeverShort
<1>1. ClaimInv => CounterNeverShort
  BY DEF ClaimInv, CounterNeverShort
<1> QED
  BY <1>1, CounterCovers, PTL

-----------------------------------------------------------------------------
(***************************************************************************)
(* No payload twice and no wake-up of a job that moved on, for any number  *)
(* of jobs, signals and transactions in flight.                            *)
(***************************************************************************)
\* What open transactions hold is still as they found it, and no two of them
\* hold the same row: the row locks taken with SKIP LOCKED.
Locks ==
    /\ \A w \in waits : w.found \in Sig => signals[w.found] = "pending"
    /\ \A v, w \in waits : v.found \in Sig /\ v.found = w.found => v = w
    /\ \A x \in sends : signals[x.sig] = "unsent"
    /\ \A x, y \in sends : x.sig = y.sig => x = y
    /\ \A x \in sends : x.found \in Job => table[x.found].state = "waiting"
    /\ \A x, y \in sends : x.found \in Job /\ x.found = y.found => x = y

\* A job past its first claim has an attempt to speak of.
Claimed == \A j \in Job : table[j].state \in {"running", "waiting"} => table[j].attempt > 0

LockInv == SignalTypeOK /\ Locks /\ Claimed /\ ConsumedOnce

\* Nothing has been sent and nobody waits.
LEMMA InitLockInv == SignalInit => LockInv
BY RendezvousAssumption DEF SignalInit, LockInv, SignalTypeOK, Locks, Claimed, ConsumedOnce, WaitRow, Payload

\* Handing over a signal that was not consumed keeps the account of payloads.
LEMMA HandOver ==
    ASSUME SignalTypeOK, ConsumedOnce, NEW s \in Sig, signals[s] # "consumed", NEW j, NEW t,
           signals' = [signals EXCEPT ![s] = "consumed"],
           given' = given \cup {<<s, j, t>>}
    PROVE  ConsumedOnce'
<1>1. \A g \in given : g[1] # s
  BY DEF ConsumedOnce
<1>2. <<s, j, t>>[1] = s
  OBVIOUS
<1>3. \A g, h \in given' : g[1] = h[1] => g = h
  BY <1>1, <1>2 DEF ConsumedOnce
<1>4. ASSUME NEW r \in Sig
      PROVE  signals'[r] = "consumed" <=> \E g \in given' : g[1] = r
  <2>1. CASE r = s
    <3>1. signals'[r] = "consumed"
      BY <2>1 DEF SignalTypeOK
    <3>2. <<s, j, t>> \in given'
      OBVIOUS
    <3> QED
      BY <1>2, <2>1, <3>1, <3>2, ZenonT(60)
  <2>2. CASE r # s
    <3>1. signals'[r] = signals[r]
      BY <2>2 DEF SignalTypeOK
    <3>2. (\E g \in given' : g[1] = r) <=> (\E g \in given : g[1] = r)
      BY <1>2, <2>2
    <3> QED
      BY <3>1, <3>2 DEF ConsumedOnce
  <2> QED
    BY <2>1, <2>2
<1> QED
  BY <1>3, <1>4 DEF ConsumedOnce

\* So does any other move of a signal that was not consumed.
LEMMA NoHandOver ==
    ASSUME SignalTypeOK, ConsumedOnce, NEW s \in Sig, signals[s] # "consumed",
           NEW v \in {"pending", "failed"}, signals' = [signals EXCEPT ![s] = v],
           given' = given
    PROVE  ConsumedOnce'
<1>1. \A r \in Sig : signals'[r] = "consumed" <=> signals[r] = "consumed"
  BY DEF SignalTypeOK
<1> QED
  BY <1>1 DEF ConsumedOnce

\* Claims, ends of attempts, cancels and timeouts leave signals alone and touch
\* no job an open signal() has locked.
LEMMA JobStep ==
    ASSUME LockInv, NEW j \in Job, Claim(j) \/ EndAttempt(j) \/ CancelWaiter(j) \/ SweepWaits(j)
    PROVE  LockInv'
<1>0. Null \in Payload /\ "timeout" \in Payload
  BY DEF Payload
<1>1. table' \in [Job -> WaitRow]
  <2>1. CASE Claim(j)
    BY <2>1, RendezvousAssumption DEF LockInv, SignalTypeOK, Claim, WaitRow
  <2>2. CASE EndAttempt(j)
    BY <2>2 DEF LockInv, SignalTypeOK, EndAttempt, WaitRow
  <2>3. CASE CancelWaiter(j)
    BY <2>3 DEF LockInv, SignalTypeOK, CancelWaiter, WaitRow
  <2>4. CASE SweepWaits(j)
    BY <1>0, <2>4, ZenonT(60) DEF LockInv, SignalTypeOK, SweepWaits, WaitRow
  <2> QED
    BY <2>1, <2>2, <2>3, <2>4
<1>2. UNCHANGED <<signals, waits, sends, given>>
  BY DEF Claim, EndAttempt, CancelWaiter, SweepWaits
<1>3. ASSUME NEW x \in sends, x.found \in Job
      PROVE  table'[x.found].state = "waiting"
  <2>1. table[x.found].state = "waiting"
    BY <1>3 DEF LockInv, Locks
  <2>2. x.found \in LockedJobs
    BY <1>3 DEF LockedJobs
  <2>3. x.found # j
    BY <2>1, <2>2 DEF Claim, EndAttempt, CancelWaiter, SweepWaits, Expirable, FreeWaiters
  <2>4. table'[x.found] = table[x.found]
    BY <1>3, <2>3 DEF LockInv, SignalTypeOK, Claim, EndAttempt, CancelWaiter, SweepWaits
  <2> QED
    BY <2>1, <2>4
<1>4. SignalTypeOK'
  BY <1>1, <1>2 DEF LockInv, SignalTypeOK
<1>5. Locks'
  BY <1>2, <1>3, ZenonT(60) DEF LockInv, Locks
<1>6. ConsumedOnce'
  BY <1>2, ZenonT(60) DEF LockInv, ConsumedOnce
<1>7. Claimed'
  BY DEF Claim, EndAttempt, CancelWaiter, SweepWaits, LockInv, SignalTypeOK, WaitRow, Claimed
<1> QED
  BY <1>4, <1>5, <1>6, <1>7 DEF LockInv

\* wait_consume.sql locks a pending signal nobody else has locked, or none.
LEMMA WaitConsumeStep ==
    ASSUME LockInv, NEW j \in Job, NEW t \in 1..table[j].attempt, WaitConsume(j, t)
    PROVE  LockInv'
<1>1. PICK f \in (IF FreeSignals = {} THEN {Null} ELSE FreeSignals) :
          waits' = waits \cup {[job |-> j, token |-> t, found |-> f]}
  BY DEF WaitConsume
<1>2. UNCHANGED <<table, signals, sends, given>>
  BY DEF WaitConsume
<1>3. f = Null \/ (f \in Sig /\ signals[f] = "pending" /\ \A w \in waits : w.found # f)
  BY <1>1 DEF FreeSignals, Pending, LockedSignals
<1>4. t \in 1..MaxAttempt
  BY RendezvousAssumption DEF LockInv, SignalTypeOK, WaitRow
<1>5. SignalTypeOK'
  BY <1>1, <1>2, <1>3, <1>4 DEF LockInv, SignalTypeOK
<1>6. Null \notin Sig
  BY RendezvousAssumption
<1>7. Locks'
  <2> DEFINE n == [job |-> j, token |-> t, found |-> f]
  <2>1. n.found = f
    OBVIOUS
  <2>2. waits' = waits \cup {n}
    BY <1>1
  <2> HIDE DEF n
  <2>3. \A w \in waits' : w.found \in Sig => signals'[w.found] = "pending"
    BY <1>2, <1>3, <1>6, <2>1, <2>2 DEF LockInv, Locks
  <2>4. \A v, w \in waits' : v.found \in Sig /\ v.found = w.found => v = w
    BY <1>3, <1>6, <2>1, <2>2 DEF LockInv, Locks
  <2> QED
    BY <1>2, <2>3, <2>4 DEF LockInv, Locks
<1>8. ConsumedOnce'
  BY <1>2, ZenonT(60) DEF LockInv, ConsumedOnce
<1>9. Claimed'
  BY <1>2, ZenonT(60) DEF LockInv, Claimed
<1> QED
  BY <1>5, <1>7, <1>8, <1>9 DEF LockInv

\* The commit of wait() hands over the one signal it had locked, or parks a
\* running job, which no open signal() has locked.
LEMMA WaitCommitStep ==
    ASSUME LockInv, NEW w \in waits, WaitCommit(w)
    PROVE  LockInv'
<1>0. w \in [job: Job, token: 1..MaxAttempt, found: Sig \cup {Null}] /\ Null \notin Sig
  BY RendezvousAssumption DEF LockInv, SignalTypeOK
<1>1. CASE w.found \in Sig
  <2>1. /\ waits' = waits \ {w} /\ UNCHANGED <<table, sends>>
        /\ signals' = [signals EXCEPT ![w.found] = "consumed"]
        /\ given' = given \cup {<<w.found, w.job, w.token>>}
    BY <1>0, <1>1 DEF WaitCommit
  <2>2. signals[w.found] = "pending"
    BY <1>1 DEF LockInv, Locks
  <2>4. SignalTypeOK'
    BY <1>0, <1>1, <2>1 DEF LockInv, SignalTypeOK
  <2>5. Locks'
    BY <1>1, <2>1, <2>2 DEF LockInv, Locks, SignalTypeOK
  <2>6. ConsumedOnce'
    BY <1>1, <2>1, <2>2, HandOver, ZenonT(60) DEF LockInv
  <2>7. Claimed'
    BY <2>1 DEF LockInv, Claimed
  <2> QED
    BY <2>4, <2>5, <2>6, <2>7 DEF LockInv
<1>2. CASE w.found = Null
  <2>1. waits' = waits \ {w} /\ UNCHANGED <<signals, sends, given>>
    BY <1>0, <1>2 DEF WaitCommit
  <2>2. table' = table \/ table' = [table EXCEPT ![w.job].state = "waiting"]
    BY <1>0, <1>2 DEF WaitCommit
  <2>3. SignalTypeOK'
    BY <1>0, <2>1, <2>2 DEF LockInv, SignalTypeOK, WaitRow
  <2>4. \A x \in sends : x.found \in Job => table'[x.found].state = "waiting"
    BY <1>0, <2>2 DEF LockInv, Locks, SignalTypeOK, WaitRow
  <2>5. Locks'
    BY <2>1, <2>4 DEF LockInv, Locks
  <2>6. ConsumedOnce'
    BY <2>1 DEF LockInv, ConsumedOnce
  <2>7. Claimed'
    BY <1>0, <1>2 DEF WaitCommit, owns, LockInv, SignalTypeOK, WaitRow, Claimed
  <2> QED
    BY <2>3, <2>5, <2>6, <2>7 DEF LockInv
<1> QED
  BY <1>0, <1>1, <1>2

\* signal.sql locks a waiting job nobody else has locked, or none.
LEMMA SignalWakeStep ==
    ASSUME LockInv, NEW s \in Sig, SignalWake(s)
    PROVE  LockInv'
<1>1. PICK f \in (IF FreeWaiters = {} THEN {Null} ELSE FreeWaiters) :
          sends' = sends \cup {[sig |-> s, found |-> f]}
  BY DEF SignalWake
<1>2. UNCHANGED <<table, signals, waits, given>> /\ signals[s] = "unsent"
      /\ \A x \in sends : x.sig # s
  BY DEF SignalWake
<1>3. f = Null \/ (f \in Job /\ table[f].state = "waiting" /\ \A x \in sends : x.found # f)
  BY <1>1 DEF FreeWaiters, Waiting, LockedJobs
<1>4. SignalTypeOK'
  BY <1>1, <1>2, <1>3 DEF LockInv, SignalTypeOK
<1>5. Null \notin Job
  BY RendezvousAssumption
<1>6. Locks'
  <2> DEFINE n == [sig |-> s, found |-> f]
  <2>1. n.sig = s /\ n.found = f
    OBVIOUS
  <2>2. sends' = sends \cup {n}
    BY <1>1
  <2> HIDE DEF n
  <2>3. \A x \in sends' : signals'[x.sig] = "unsent"
    BY <1>2, <2>1, <2>2 DEF LockInv, Locks
  <2>4. \A x, y \in sends' : x.sig = y.sig => x = y
    BY <1>2, <2>1, <2>2 DEF LockInv, Locks
  <2>5. \A x \in sends' : x.found \in Job => table'[x.found].state = "waiting"
    BY <1>2, <1>3, <1>5, <2>1, <2>2 DEF LockInv, Locks
  <2>6. \A x, y \in sends' : x.found \in Job /\ x.found = y.found => x = y
    BY <1>3, <1>5, <2>1, <2>2 DEF LockInv, Locks
  <2> QED
    BY <1>2, <2>3, <2>4, <2>5, <2>6 DEF LockInv, Locks
<1>7. ConsumedOnce'
  BY <1>2, ZenonT(60) DEF LockInv, ConsumedOnce
<1>8. Claimed'
  BY <1>2 DEF LockInv, Claimed
<1> QED
  BY <1>4, <1>6, <1>7, <1>8 DEF LockInv

\* The commit of signal() hands its payload to the job it had locked, or stores
\* it: in both cases the signal was in no other transaction.
LEMMA SignalCommitStep ==
    ASSUME LockInv, NEW x \in sends, SignalCommit(x)
    PROVE  LockInv'
<1>0. x \in [sig: Sig, found: Job \cup {Null}] /\ Null \notin Job
  BY RendezvousAssumption DEF LockInv, SignalTypeOK
<1>1. signals[x.sig] = "unsent"
  BY DEF LockInv, Locks
<1>2. \A w \in waits : w.found # x.sig
  BY <1>0, <1>1 DEF LockInv, Locks
<1>3. \A y \in sends \ {x} : y.sig # x.sig
  BY DEF LockInv, Locks
<1>4. sends' = sends \ {x} /\ UNCHANGED waits
  BY DEF SignalCommit
<1>5. CASE x.found \in Job
  <2>1. /\ table' = [table EXCEPT ![x.found].state = "queued", ![x.found].payload = x.sig]
        /\ signals' = [signals EXCEPT ![x.sig] = "consumed"]
        /\ given' = given \cup {<<x.sig, x.found, table[x.found].attempt>>}
    BY <1>0, <1>5 DEF SignalCommit
  <2>2. table[x.found].attempt \in 1..MaxAttempt
    BY <1>5 DEF LockInv, Locks, Claimed, SignalTypeOK, WaitRow
  <2>3. x.sig \in Payload
    BY <1>0 DEF Payload
  <2>4. SignalTypeOK'
    BY <1>0, <1>4, <1>5, <2>1, <2>2, <2>3 DEF LockInv, SignalTypeOK, WaitRow
  <2>5. \A y \in sends \ {x} : y.found \in Job => y.found # x.found
    BY <1>5 DEF LockInv, Locks
  <2>6. \A y \in sends \ {x} : y.found \in Job => table'[y.found] = table[y.found]
    BY <2>1, <2>5 DEF LockInv, SignalTypeOK
  <2>7. Locks'
    BY <1>0, <1>2, <1>3, <1>4, <2>1, <2>6 DEF LockInv, Locks, SignalTypeOK
  <2>8. ConsumedOnce'
    BY <1>0, <1>1, <2>1, HandOver, ZenonT(60) DEF LockInv
  <2>9. Claimed'
    BY <1>5, <2>1 DEF LockInv, SignalTypeOK, WaitRow, Claimed
  <2> QED
    BY <2>4, <2>7, <2>8, <2>9 DEF LockInv
<1>6. CASE x.found = Null
  <2>1. signals' = [signals EXCEPT ![x.sig] = "pending"] /\ UNCHANGED <<table, given>>
    BY <1>0, <1>6 DEF SignalCommit
  <2>2. SignalTypeOK'
    BY <1>0, <1>4, <2>1 DEF LockInv, SignalTypeOK
  <2>3. Locks'
    BY <1>0, <1>2, <1>3, <1>4, <2>1 DEF LockInv, Locks, SignalTypeOK
  <2>4. ConsumedOnce'
    BY <1>0, <1>1, <2>1, NoHandOver, ZenonT(60) DEF LockInv
  <2>5. Claimed'
    BY <2>1 DEF LockInv, Claimed
  <2> QED
    BY <2>2, <2>3, <2>4, <2>5 DEF LockInv
<1> QED
  BY <1>0, <1>5, <1>6

\* A transaction that rolls back hands nothing over.
LEMMA AbortStep ==
    ASSUME LockInv,
           \/ \E w \in waits : WaitAbort(w)
           \/ \E x \in sends : SignalAbort(x)
    PROVE  LockInv'
<1>1. ASSUME NEW w \in waits, WaitAbort(w)
      PROVE  LockInv'
  BY <1>1 DEF WaitAbort, LockInv, SignalTypeOK, Locks, Claimed, ConsumedOnce
<1>2. ASSUME NEW x \in sends, SignalAbort(x)
      PROVE  LockInv'
  <2>0. x \in [sig: Sig, found: Job \cup {Null}]
    BY DEF LockInv, SignalTypeOK
  <2>1. signals[x.sig] = "unsent" /\ \A y \in sends \ {x} : y.sig # x.sig
    BY DEF LockInv, Locks
  <2>2. SignalTypeOK'
    BY <1>2, <2>0 DEF SignalAbort, LockInv, SignalTypeOK
  <2>3. Locks'
    BY <1>2, <2>0, <2>1 DEF SignalAbort, LockInv, Locks, SignalTypeOK
  <2>4. ConsumedOnce'
    BY <1>2, <2>0, <2>1, NoHandOver, ZenonT(60) DEF SignalAbort, LockInv
  <2>5. Claimed'
    BY <1>2, ZenonT(60) DEF SignalAbort, LockInv, Claimed
  <2> QED
    BY <2>2, <2>3, <2>4, <2>5 DEF LockInv
<1> QED
  BY <1>1, <1>2

\* The invariant holds in every state.
THEOREM RowLocksHold == SignalSpec => []LockInv
<1>1. LockInv /\ [SignalNext]_signalVars => LockInv'
  <2> SUFFICES ASSUME LockInv, [SignalNext]_signalVars PROVE LockInv'
    OBVIOUS
  <2>1. CASE SignalNext
    BY <2>1, JobStep, WaitConsumeStep, WaitCommitStep, SignalWakeStep, SignalCommitStep,
       AbortStep DEF SignalNext
  <2>2. CASE UNCHANGED signalVars
    BY <2>2 DEF signalVars, LockInv, SignalTypeOK, Locks, Claimed, ConsumedOnce
  <2> QED
    BY <2>1, <2>2
<1> QED
  BY <1>1, InitLockInv, PTL DEF SignalSpec

\* However many waits and signals of a key run at once, crash or time out, a
\* payload is handed over at most once, and exactly when it is marked consumed.
THEOREM DeliveredOnce == SignalSpec => []ConsumedOnce
BY RowLocksHold, PTL DEF LockInv

\* event_payload is written only to a job that is waiting, by whichever of
\* signal() and sweep_waits.sql comes first.
THEOREM OnlyWaitersWoken == SignalSpec => WakesOnlyAWaiter
<1> DEFINE Woken == \A j \in Job : table'[j].payload # table[j].payload => table[j].state = "waiting"
<1>1. LockInv /\ [SignalNext]_signalVars => [Woken]_signalVars
  <2> SUFFICES ASSUME LockInv, SignalNext, NEW j \in Job, table'[j].payload # table[j].payload
               PROVE  table[j].state = "waiting"
    OBVIOUS
  <2>1. ASSUME NEW i \in Job, Claim(i) \/ EndAttempt(i) \/ CancelWaiter(i)
        PROVE  FALSE
    BY <2>1 DEF Claim, EndAttempt, CancelWaiter, LockInv, SignalTypeOK, WaitRow
  <2>2. ASSUME NEW i \in Job, SweepWaits(i)
        PROVE  table[j].state = "waiting"
    BY <2>2 DEF SweepWaits, Expirable, FreeWaiters, Waiting, LockInv, SignalTypeOK, WaitRow
  <2>3. ASSUME NEW w \in waits, WaitCommit(w)
        PROVE  FALSE
    BY <2>3 DEF WaitCommit, LockInv, SignalTypeOK, WaitRow
  <2>4. ASSUME NEW x \in sends, SignalCommit(x)
        PROVE  table[j].state = "waiting"
    BY <2>4 DEF SignalCommit, LockInv, SignalTypeOK, Locks
  <2>5. CASE table' = table
    BY <2>5
  <2> QED
    BY <2>1, <2>2, <2>3, <2>4, <2>5, ZenonT(60) DEF SignalNext, WaitConsume, WaitAbort, SignalWake, SignalAbort
<1> QED
  BY <1>1, RowLocksHold, PTL DEF SignalSpec, WakesOnlyAWaiter
=============================================================================
