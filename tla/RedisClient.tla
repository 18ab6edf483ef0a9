----------------------------- MODULE RedisClient -----------------------------
(***************************************************************************)
(* The Redis client that the rate limiter opens and the checkpoint service *)
(* borrows (RateLimiter.redis): whether each engine reaches Redis, and how *)
(* a call can end.                                                         *)
(***************************************************************************)
EXTENDS Integers

CONSTANTS
    Engine,
    Setup      \* the situations checked, each with its bounds

VARIABLES
    up,        \* Engine -> it reaches Redis
    faults,    \* faults that may still happen
    setup      \* the situation checked, which never changes

ClientInit ==
    /\ setup \in Setup
    /\ faults = setup.faults
    /\ up = [e \in Engine |-> setup.redis]

Fault == faults > 0 /\ faults' = faults - 1

\* A call works, fails, or times out after the server has done its work.
\* Without a Redis every call "fails" at once.
redis_call(e, o) ==
    /\ IF o = "down" THEN ~up[e] ELSE up[e]
    /\ IF o = "late" THEN Fault ELSE UNCHANGED faults

redis_link(e) ==
    /\ setup.redis
    /\ IF up[e] THEN Fault ELSE UNCHANGED faults
    /\ up' = [up EXCEPT ![e] = ~@]
    /\ UNCHANGED setup
=============================================================================
