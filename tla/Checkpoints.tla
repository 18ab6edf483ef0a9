----------------------------- MODULE Checkpoints -----------------------------
(***************************************************************************)
(* services/checkpoint_service.py, for one job and the attempts at it: the *)
(* durable row, the copy in Redis, PutCheckpoint and GetCheckpoint, and    *)
(* the row that a claim preloads into the assignment.  An attempt that was *)
(* reclaimed does not know it and goes on (nothing here is lease-guarded). *)
(* Checkpoints are numbered in the order in which Postgres commits them;   *)
(* 0 is none.                                                              *)
(***************************************************************************)
EXTENDS RedisClient

CONSTANTS
    Attempt,      \* 1..n
    Home          \* Attempt -> the engine its worker talks to

ASSUME CkAssumption == Attempt \subseteq Nat \ {0} /\ Home \in [Attempt -> Engine]

VARIABLES
    row,          \* the checkpoints table
    cache,        \* ckpt:{tenant}:{job} in Redis
    puts,         \* checkpoints put so far
    attempt,      \* the current attempt
    preload,      \* Attempt -> JobAssignment.checkpoint_json
    call,         \* Attempt -> the RPC under way: what is left of it, and on what
    answer        \* the last answer of GetCheckpoint and the row when it was asked

ckvars == <<row, cache, puts, attempt, preload, call, answer>>

Quiet == [at |-> "idle", value |-> 0]

CkInit ==
    /\ row = 0 /\ cache = 0 /\ puts = 0
    /\ attempt = 1
    /\ preload = [a \in Attempt |-> 0]
    /\ call = [a \in Attempt |-> Quiet]
    /\ answer = [value |-> 0, durable |-> 0]

\* put: the row commits first.
put(a) ==
    /\ a <= attempt /\ call[a] = Quiet
    /\ puts < setup.puts /\ puts' = puts + 1
    /\ row' = puts + 1
    /\ call' = [call EXCEPT ![a] = [at |-> "set", value |-> puts + 1]]
    /\ UNCHANGED <<cache, attempt, preload, answer, up, faults, setup>>

\* _redis_set: a failure is logged, and the RPC has succeeded.
cached_if_absent(value, o) == IF o = "down" \/ cache # 0 THEN cache ELSE value
cached(value, o) == IF o = "down" THEN cache ELSE value
put_sets(a, o) ==
    /\ call[a].at = "set"
    /\ redis_call(Home[a], o)
    /\ cache' = cached(call[a].value, o)
    /\ call' = [call EXCEPT ![a] = Quiet]
    /\ UNCHANGED <<row, puts, attempt, preload, answer, up, setup>>

\* get: what Redis has, and the row when it has nothing or cannot be reached.
get(a, o) ==
    /\ a <= attempt /\ call[a] = Quiet /\ setup.puts > 0
    /\ redis_call(Home[a], o)
    /\ IF o = "ok" /\ cache # 0
       THEN /\ answer' = [value |-> cache, durable |-> row]
            /\ UNCHANGED call
       ELSE /\ call' = [call EXCEPT ![a] = [at |-> "read", value |-> row]]
            /\ UNCHANGED answer
    /\ UNCHANGED <<row, cache, puts, attempt, preload, up, setup>>
get_reads(a) ==
    /\ call[a].at = "read"
    /\ answer' = [value |-> row, durable |-> call[a].value]
    /\ call' = [call EXCEPT ![a] = Quiet]
    /\ UNCHANGED <<row, cache, puts, attempt, preload, up, faults, setup>>

\* The lease of the current attempt expires and the job is claimed again.
reclaimed ==
    /\ attempt + 1 \in Attempt /\ Fault
    /\ attempt' = attempt + 1
    /\ preload' = [preload EXCEPT ![attempt + 1] = row]
    /\ UNCHANGED <<row, cache, puts, call, answer, up, setup>>

\* The engine dies in the middle of an RPC; Redis loses the key.
rpc_dies(a) ==
    /\ call[a] # Quiet /\ Fault
    /\ call' = [call EXCEPT ![a] = Quiet]
    /\ UNCHANGED <<row, cache, puts, attempt, preload, answer, up, setup>>
cache_forgets ==
    /\ cache # 0 /\ Fault
    /\ cache' = 0
    /\ UNCHANGED <<row, puts, attempt, preload, call, answer, up, setup>>

CkNext ==
    \/ \E a \in Attempt :
        \/ put(a) \/ get_reads(a) \/ rpc_dies(a)
        \/ \E o \in {"ok", "down", "late"} : put_sets(a, o) \/ get(a, o)
    \/ reclaimed \/ cache_forgets

-----------------------------------------------------------------------------
\* Redis is a copy: while no call has failed and no attempt was reclaimed, what
\* it has between two RPCs is what is durable, or nothing.
CacheCurrent ==
    faults = setup.faults /\ (\A a \in Attempt : call[a].at # "set") => cache \in {0, row}

\* And then an answer is never older than the checkpoint that was durable when
\* it was asked for.  A write Redis missed, or a reclaimed attempt that goes on
\* writing, can leave it with an older one until the next write or its expiry.
FreshCheckpoint == faults = setup.faults => answer.value >= answer.durable
=============================================================================
