---------------------------- MODULE EngineProcess ----------------------------
(***************************************************************************)
(* One engine process from boot to exit (main.py:_run).  It opens its two  *)
(* Postgres pools, warms the rate-class cache and then runs its subsystems *)
(* as tasks of one asyncio TaskGroup: the gRPC server, the HTTP server,    *)
(* the event poller and the periodic loops, by role.  A loop contains the  *)
(* failures of its passes; any other task that raises, or SIGTERM, cancels *)
(* the whole group, and the pools close only when the group is done.       *)
(***************************************************************************)
EXTENDS Integers, FiniteSets

CONSTANTS Engine,  \* the engine processes of the deployment
          Setups   \* the situations explored, each a record of roles and bounds

VARIABLES setup,   \* the situation
          proc,    \* proc[e]: the process of e
          outages, \* failed round trips so far, to Postgres or of a worker
          stops    \* signals and kills so far

procVars == <<setup, proc, outages, stops>>

api(e) == "api" \in setup.roles[e]
sweeper(e) == "sweeper" \in setup.roles[e]

\* The fields of a process.  `at` is where _run stands, grpc, http and events
\* are the tasks with a startup phase, call is one RPC of a client.
Down == [at |-> "down", serving |-> FALSE, grpc |-> "none", http |-> "none",
         events |-> "none", call |-> "none"]
Stage == {"down", "pools", "load", "group", "drain", "closing"}
Process == [at: Stage, serving: BOOLEAN, grpc: {"none", "created", "starting", "serving", "stopping"},
            http: {"none", "created", "serving"}, events: {"none", "created", "running"},
            call: {"none", "open", "orphan"}]

ProcTypeOK ==
    /\ proc \in [Engine -> Process]
    /\ outages \in 0..setup.outages
    /\ stops \in 0..setup.stops

ProcInit == proc = [e \in Engine |-> Down] /\ outages = 0 /\ stops = 0

\* The periodic loops are tasks of the group: they run while it does.
loops_run(e) == proc[e].at = "group"

\* A round trip fails, or works.
trip_fails == outages < setup.outages /\ outages' = outages + 1
trip_works == outages' = outages

\* Every task is cancelled.  A loop ends at its await and so does a server
\* that is still starting; a server that announced itself stops gracefully.
\* The server cancelled between start() and its try block is not stopped, so
\* a call it already accepted goes on without it.
Cancelled(p) ==
    [p EXCEPT !.at = "drain", !.http = "none", !.events = "none",
              !.grpc = IF p.grpc = "serving" THEN "stopping" ELSE "none",
              !.call = IF p.grpc = "starting" /\ p.call = "open" THEN "orphan" ELSE p.call]

\* The group after SIGTERM: the flag goes first, then the group is cancelled.
Drained(p) == [Cancelled(p) EXCEPT !.serving = FALSE]

\* The orchestrator starts the process, which opens its pools.
boot(e) ==
    /\ proc[e].at = "down" /\ setup.roles[e] # {}
    /\ proc' = [proc EXCEPT ![e].at = "pools"]
    /\ UNCHANGED <<setup, outages, stops>>

\* asyncpg connects at once: with Postgres away the process exits.
create_pools(e) ==
    /\ proc[e].at = "pools"
    /\ \/ trip_works /\ proc' = [proc EXCEPT ![e].at = "load"]
       \/ trip_fails /\ proc' = [proc EXCEPT ![e] = Down]
    /\ UNCHANGED <<setup, stops>>

\* The tasks the roles ask for.
Spawned(e) == [Down EXCEPT !.at = "group", !.serving = TRUE,
                           !.grpc = IF api(e) THEN "created" ELSE "none",
                           !.http = IF api(e) THEN "created" ELSE "none",
                           !.events = IF api(e) THEN "created" ELSE "none"]

\* rate_limiter.load(), then the task group without another await.
load(e) ==
    /\ proc[e].at = "load"
    /\ \/ trip_works /\ proc' = [proc EXCEPT ![e] = Spawned(e)]
       \/ trip_fails /\ proc' = [proc EXCEPT ![e] = Down]
    /\ UNCHANGED <<setup, stops>>

\* A task of the group raised: the others are cancelled, the flag stays up.
task_raises(e) == proc' = [proc EXCEPT ![e] = Cancelled(@)]

\* serve_grpc binds its port and awaits start(); a port in use raises.
serve_grpc(e) ==
    /\ proc[e].grpc = "created"
    /\ \/ proc' = [proc EXCEPT ![e].grpc = "starting"] /\ UNCHANGED stops
       \/ stops < setup.stops /\ stops' = stops + 1 /\ task_raises(e)
    /\ UNCHANGED <<setup, outages>>

\* The health service says SERVING once the server has started.
health_set(e) ==
    /\ proc[e].grpc = "starting"
    /\ proc' = [proc EXCEPT ![e].grpc = "serving"]
    /\ UNCHANGED <<setup, outages, stops>>

\* asyncio runs the tasks of the group in the order of their creation.
serve_http(e) ==
    /\ proc[e].http = "created" /\ proc[e].grpc # "created"
    /\ proc' = [proc EXCEPT ![e].http = "serving"]
    /\ UNCHANGED <<setup, outages, stops>>

\* The poller reads the head of the ledger before its contained loop begins.
events_start(e) ==
    /\ proc[e].events = "created" /\ proc[e].grpc # "created"
    /\ \/ trip_works /\ proc' = [proc EXCEPT ![e].events = "running"]
       \/ trip_fails /\ task_raises(e)
    /\ UNCHANGED <<setup, stops>>

\* A pass of a loop, or a poll of the running poller, fails: it is logged.
pass_fails(e) == loops_run(e) /\ trip_fails /\ UNCHANGED <<setup, proc, stops>>

\* A client opens an RPC, and ends it when it likes.
call_begins(e) ==
    /\ proc[e].grpc \in {"starting", "serving"} /\ proc[e].call = "none" /\ "any" \in setup.calls
    /\ proc' = [proc EXCEPT ![e].call = "open"]
    /\ UNCHANGED <<setup, outages, stops>>
call_ends(e) ==
    /\ proc[e].call # "none"
    /\ proc' = [proc EXCEPT ![e].call = "none"]
    /\ UNCHANGED <<setup, outages, stops>>

\* SIGTERM wakes _run, which raises _Drain inside the group.
sigterm(e) ==
    /\ proc[e].at = "group" /\ stops < setup.stops
    /\ stops' = stops + 1
    /\ proc' = [proc EXCEPT ![e] = Drained(@)]
    /\ UNCHANGED <<setup, outages>>

\* server.stop(grace): new calls are refused, open ones end or are cut off
\* after shutdown_drain_s.
grpc_stops_patient(e) ==
    /\ proc[e].grpc = "stopping" /\ proc[e].call = "none"
    /\ proc' = [proc EXCEPT ![e].grpc = "none"]
    /\ UNCHANGED <<setup, outages, stops>>
grpc_stops(e) ==
    /\ proc[e].grpc = "stopping"
    /\ proc' = [proc EXCEPT ![e].grpc = "none", ![e].call = "none"]
    /\ UNCHANGED <<setup, outages, stops>>

\* The group is done: the Redis client and the pools close.
pools_close_early(e) ==
    /\ proc[e].at = "drain"
    /\ proc' = [proc EXCEPT ![e].at = "closing"]
    /\ UNCHANGED <<setup, outages, stops>>
pools_close(e) ==
    /\ proc[e].at = "drain" /\ proc[e].grpc = "none"
    /\ proc' = [proc EXCEPT ![e].at = "closing"]
    /\ UNCHANGED <<setup, outages, stops>>

exits(e) ==
    /\ proc[e].at = "closing"
    /\ proc' = [proc EXCEPT ![e] = Down]
    /\ UNCHANGED <<setup, outages, stops>>

\* The process dies at any point.
kill(e) ==
    /\ proc[e].at # "down" /\ stops < setup.stops
    /\ stops' = stops + 1
    /\ proc' = [proc EXCEPT ![e] = Down]
    /\ UNCHANGED <<setup, outages>>

\* /readyz answers 200: it needs the HTTP server, the flag and Postgres.
readyz(e) == proc[e].http = "serving" /\ proc[e].serving

\* What the process does of itself, whose turn asyncio guarantees.
ProcOwn(e) == boot(e) \/ create_pools(e) \/ load(e) \/ serve_grpc(e) \/ health_set(e)
              \/ serve_http(e) \/ grpc_stops(e) \/ pools_close(e) \/ exits(e)
ProcNext(e) == ProcOwn(e) \/ pass_fails(e) \/ call_begins(e) \/ call_ends(e) \/ sigterm(e) \/ kill(e)

-----------------------------------------------------------------------------
(* Properties. *)

\* An engine that /readyz reports ready has bound its gRPC port: load
\* balancers that read one port may send traffic to the other.
ReadyMeansBound == \A e \in Engine : readyz(e) => proc[e].grpc \in {"starting", "serving"}

\* The pools are never closed under a call of a server that announced
\* itself: the group waits for server.stop, which ends every call.
PoolsOutliveCalls == \A e \in Engine : proc[e].at = "closing" => proc[e].call # "open"

\* A failed Postgres round trip never ends an engine that is up: the passes of
\* the loops, the polls and each cron schedule contain it.
BlipsContained ==
    [][\A e \in Engine :
         outages' # outages /\ proc[e].at = "group" /\ proc[e].events # "created"
             => proc'[e].at = "group"]_procVars

\* Shutdown completes whatever clients hold open: a process that drains exits.
ShutdownCompletes == \A e \in Engine : proc[e].at = "drain" ~> proc[e].at = "down"
=============================================================================
