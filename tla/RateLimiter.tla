----------------------------- MODULE RateLimiter -----------------------------
(***************************************************************************)
(* The token buckets of services/rate_limiter.py, as several engines use   *)
(* them: the Redis bucket and the Postgres bucket behind it, the cached    *)
(* configuration, the matcher's reserve, claim and return, the refill tick *)
(* that reloads the configuration, and the feedback of a 429.              *)
(*                                                                         *)
(* Tokens are fractional in the code: here they are counted in units, Unit *)
(* of them to a token.  An engine stamps the Redis bucket with its own     *)
(* clock.  Postgres has one, but now() is the time a statement began and   *)
(* not when it gets the row lock: it can find a later stamp than its own.  *)
(* A Redis call can time out after its script ran: the caller then does    *)
(* the work again on Postgres.                                             *)
(***************************************************************************)
EXTENDS RedisClient, FiniteSetsExt

CONSTANTS
    Class,        \* rate classes
    Unit,         \* units to a token
    Config,       \* the capacities and refill rates an operator sets, in units
    MaxCapacity,  \* no configuration has more of either
    MaxRefill,
    MaxSkew,      \* no engine's clock is further behind
    Limit         \* the largest batch of a pass

Unknown == [known |-> FALSE, capacity |-> 0, refill |-> 0]

\* A situation: the first configuration, whether Redis is enabled, how far each
\* clock is behind, and the bounds: ticks, passes of an engine, jobs submitted,
\* faults, edits, and the checkpoints that are put (module Checkpoints).
ASSUME RateAssumption ==
    /\ Unit \in Nat \ {0} /\ Limit \in Nat \ {0}
    /\ MaxCapacity \in Nat /\ MaxRefill \in Nat
    /\ Config \subseteq [known: {TRUE}, capacity: 0..MaxCapacity, refill: 0..MaxRefill]
    /\ MaxSkew \in Nat
    /\ Setup \subseteq [rates: [Class -> Config \cup {Unknown}], redis: BOOLEAN,
                        skew: [Engine -> 0..MaxSkew], time: Nat,
                        passes: [Engine -> Nat], jobs: [Class -> Nat],
                        faults: Nat, edits: Nat, puts: Nat]

VARIABLES
    now,       \* the clock of Postgres
    table,     \* rate_classes: Class -> configuration and bucket
    bucket,    \* rl:{class} in Redis
    statements, \* statements on rate_classes that no pass waits for
    cfg,       \* Engine -> _cfg
    load,      \* Engine -> the rows a load has read and not stored yet
    edit,      \* Engine -> the class and configuration an upsert has written
               \* and not cached yet
    pass,      \* Engine -> the matching pass and its local variables
    ready,     \* Class -> jobs waiting to be claimed
    passes,    \* Engine -> passes it may still make
    edits,     \* edits an operator may still make
    drawn,     \* Class -> tokens granted and not returned (history)
    started,   \* Class -> jobs claimed (history)
    minted     \* Class -> units that came from elsewhere than a full bucket
               \* and the passing of time (history)

backend == <<table, bucket, statements>>
admin == <<cfg, load, edit, edits>>
history == <<drawn, started, minted>>
vars == <<now, table, bucket, statements, up, cfg, load, edit, pass, ready, passes, faults, edits, setup,
          drawn, started, minted>>

None == [c \in Class |-> 0]
Sleeping == [at |-> "sleep", limit |-> 0, todo |-> {}, exhausted |-> {}, reserved |-> None,
             taking |-> {}, since |-> 0]
NoLoad == [reading |-> FALSE, rows |-> [c \in Class |-> Unknown]]
NoEdit == [c \in Class |-> Unknown]
Absent == [live |-> FALSE, tokens |-> 0, ts |-> 0]

\* The rate_classes row of a configuration: a new class starts full.
new_row(k, t) == [cfg |-> k, tokens |-> k.capacity, refilled_at |-> t]
edited_row(r, k) == [cfg |-> k, tokens |-> r.tokens, refilled_at |-> r.refilled_at]
rows == [c \in Class |-> table[c].cfg]

Init ==
    /\ ClientInit
    /\ now = 0
    /\ table = [c \in Class |-> new_row(setup.rates[c], 0)]
    /\ bucket = [c \in Class |-> Absent]
    /\ statements = {}
    /\ cfg = [e \in Engine |-> setup.rates]
    /\ load = [e \in Engine |-> NoLoad]
    /\ edit = [e \in Engine |-> NoEdit]
    /\ pass = [e \in Engine |-> Sleeping]
    /\ ready = None
    /\ passes = setup.passes
    /\ edits = setup.edits
    /\ drawn = None /\ started = None
    /\ minted = None

clock(e) == IF now < setup.skew[e] THEN 0 ELSE now - setup.skew[e]   \* time.time() on e
Least(a, b) == IF a < b THEN a ELSE b
Elapsed(from, to) == IF to < from THEN 0 ELSE to - from

-----------------------------------------------------------------------------
(***************************************************************************)
(* Taking, returning and draining.  Each operator gives what one call does *)
(* to one bucket.                                                          *)
(***************************************************************************)
Refilled(k, tokens, elapsed) == Least(k.capacity, tokens + elapsed * k.refill)
Granted(units, want) == Least(units \div Unit, want)

\* _LUA_REFILL_TAKE: a missing bucket is full.
lua_refilled(e, c) ==
    IF ~bucket[c].live THEN cfg[e][c].capacity
    ELSE Refilled(cfg[e][c], bucket[c].tokens, Elapsed(bucket[c].ts, clock(e)))
lua_take_kept(e, c, want) ==
    bucket' = [bucket EXCEPT ![c] =
        [live |-> TRUE, ts |-> clock(e), tokens |-> lua_refilled(e, c)]]
lua_take(e, c, want) ==
    bucket' = [bucket EXCEPT ![c] =
        [live |-> TRUE, ts |-> clock(e),
         tokens |-> lua_refilled(e, c) - Unit * Granted(lua_refilled(e, c), want)]]

\* What Redis refills twice when the bucket's stamp moves back to a slower clock.
rewound(e, c) ==
    IF bucket[c].live THEN MaxRefill * Elapsed(clock(e), bucket[c].ts) ELSE 0

\* rate_take_pg.sql with the configuration of the row, by a statement whose
\* now() is t.  Unlike the script it does not take a negative elapsed time for
\* none: the refill can be below zero, and its floor a negative grant.
pg_refilled(c, t) == Refilled(table[c].cfg, table[c].tokens, t - table[c].refilled_at)
pg_granted(c, t, want) == Granted(pg_refilled(c, t), want)
pg_take(c, t, want) ==
    table' = [table EXCEPT ![c] =
        [cfg |-> @.cfg, refilled_at |-> t,
         tokens |-> pg_refilled(c, t) - Unit * pg_granted(c, t, want)]]
pg_drain(c, t) ==
    table' = [table EXCEPT ![c] = [cfg |-> @.cfg, tokens |-> 0, refilled_at |-> t]]

\* What they mint when the row was stamped after t: the stamp moves back, over
\* time the row was refilled for (a take gave that back, at the row's own
\* rate), and a balance below zero is rounded up to the next token.
pg_set_back(c, t, refill) == (MaxRefill - refill) * Elapsed(t, table[c].refilled_at)
pg_rounded_up(granted) == IF granted < 0 THEN 0 - Unit * granted ELSE 0
pg_minted(c, t, want) ==
    pg_set_back(c, t, table[c].cfg.refill) + pg_rounded_up(pg_granted(c, t, want))

\* _LUA_RETURN and rate_return_pg.sql: capped, and a missing bucket takes nothing.
lua_return(e, c, give) ==
    bucket' = IF ~bucket[c].live THEN bucket
              ELSE [bucket EXCEPT ![c].tokens = Least(cfg[e][c].capacity, @ + Unit * give)]
pg_return(c, give) ==
    table' = [table EXCEPT ![c].tokens = Least(table[c].cfg.capacity, @ + Unit * give)]

-----------------------------------------------------------------------------
(***************************************************************************)
(* A matching pass of an engine: peek, reserve class by class, claim,      *)
(* return class by class.                                                  *)
(***************************************************************************)
peek(e, limit) ==
    /\ passes[e] > 0 /\ passes' = [passes EXCEPT ![e] = @ - 1]
    /\ pass[e].at = "sleep"
    /\ pass' = [pass EXCEPT ![e] = [Sleeping EXCEPT !.at = "reserve", !.limit = limit,
                                        !.todo = {c \in Class : ready[c] > 0}]]
    /\ UNCHANGED <<now, backend, up, admin, ready, faults, setup, history>>

\* _reserve_rate_tokens, for one class: a grant of zero or less exhausts it.
Tokens(granted) == IF granted > 0 THEN granted ELSE 0
reserved(p, c, granted) ==
    [p EXCEPT !.todo = @ \ {c},
              !.exhausted = IF granted > 0 THEN @ ELSE @ \cup {c},
              !.reserved = [@ EXCEPT ![c] = Tokens(granted)],
              !.taking = {}, !.since = 0]

reserve_at(e, c) == pass[e].at = "reserve" /\ c \in pass[e].todo /\ pass[e].taking = {}

\* An unconfigured class is not limited.
reserve_unlimited(e, c) ==
    /\ reserve_at(e, c) /\ ~cfg[e][c].known
    /\ pass' = [pass EXCEPT ![e] = reserved(@, c, pass[e].limit)]
    /\ drawn' = [drawn EXCEPT ![c] = @ + pass[e].limit]
    /\ minted' = [minted EXCEPT ![c] = @ + Unit * pass[e].limit]
    /\ UNCHANGED <<now, backend, up, admin, ready, faults, passes, setup, started>>

reserve_redis(e, c) ==
    LET granted == Granted(lua_refilled(e, c), pass[e].limit) IN
    /\ reserve_at(e, c) /\ cfg[e][c].known
    /\ redis_call(e, "ok")
    /\ lua_take(e, c, pass[e].limit)
    /\ pass' = [pass EXCEPT ![e] = reserved(@, c, granted)]
    /\ drawn' = [drawn EXCEPT ![c] = @ + granted]
    /\ minted' = [minted EXCEPT ![c] = @ + rewound(e, c)]
    /\ UNCHANGED <<now, table, statements, up, admin, ready, passes, setup, started>>

\* The Redis call failed, or there is no Redis.  Had its script run, its
\* tokens are lost.  The engine turns to Postgres, ...
reserve_falls_back(e, c, o) ==
    /\ reserve_at(e, c) /\ cfg[e][c].known
    /\ redis_call(e, o)
    /\ IF o = "late" THEN lua_take(e, c, pass[e].limit) ELSE UNCHANGED bucket
    /\ pass' = [pass EXCEPT ![e] = [@ EXCEPT !.taking = {c}, !.since = now]]
    /\ minted' = IF o = "late" THEN [minted EXCEPT ![c] = @ + rewound(e, c)] ELSE minted
    /\ UNCHANGED <<now, table, statements, up, admin, ready, passes, setup, drawn, started>>

\* ... where the statement began at t, in between, and has the row now.
reserve_pg(e, c, t) ==
    LET granted == pg_granted(c, t, pass[e].limit) IN
    /\ c \in pass[e].taking
    /\ pg_take(c, t, pass[e].limit)
    /\ pass' = [pass EXCEPT ![e] = reserved(@, c, granted)]
    /\ drawn' = [drawn EXCEPT ![c] = @ + Tokens(granted)]
    /\ minted' = [minted EXCEPT ![c] = @ + pg_minted(c, t, pass[e].limit)]
    /\ UNCHANGED <<now, bucket, statements, up, admin, ready, faults, passes, setup, started>>

\* What claim.sql lets a batch have of a class: the reserved quota, unless
\* nothing was reserved at all; then whatever is not exhausted.
quota(e, c) ==
    IF c \in pass[e].exhausted THEN 0
    ELSE IF pass[e].reserved = None THEN pass[e].limit
    ELSE pass[e].reserved[c]

\* A class that is due some of its tokens back after a batch.
unused_if_any(e, c, batch) == IF batch = None THEN 0 ELSE Elapsed(batch[c], pass[e].reserved[c])
unused(e, c, batch) == Elapsed(batch[c], pass[e].reserved[c])

\* claim, and which classes _return_unused_tokens will visit.  The batch can be
\* smaller than the quotas: other engines' locks, group ceilings, tags.
claim(e) ==
    /\ pass[e].at = "reserve" /\ pass[e].todo = {}
    /\ \E batch \in [Class -> 0..Limit] :
        /\ \A c \in Class : batch[c] <= ready[c] /\ batch[c] <= quota(e, c)
        /\ MapThenSumSet(LAMBDA c : batch[c], Class) <= pass[e].limit
        /\ ready' = [c \in Class |-> ready[c] - batch[c]]
        /\ started' = [c \in Class |-> started[c] + batch[c]]
        /\ pass' = [pass EXCEPT ![e] =
                       [@ EXCEPT !.at = "return",
                                 !.todo = {c \in Class : unused(e, c, batch) > 0},
                                 !.reserved = [c \in Class |-> unused(e, c, batch)]]]
    /\ UNCHANGED <<now, backend, up, admin, faults, passes, setup, drawn, minted>>

release_at(e, c) == pass[e].at = "return" /\ c \in pass[e].todo
settled(p, c) == [p EXCEPT !.todo = @ \ {c}, !.reserved = [@ EXCEPT ![c] = 0]]
returned(e, c) ==
    /\ pass' = [pass EXCEPT ![e] = settled(@, c)]
    /\ drawn' = [drawn EXCEPT ![c] = @ - pass[e].reserved[c]]

release_unlimited(e, c) ==
    /\ release_at(e, c) /\ ~cfg[e][c].known
    /\ returned(e, c)
    /\ UNCHANGED <<now, backend, up, admin, ready, faults, passes, setup, started, minted>>

release_redis(e, c) ==
    /\ release_at(e, c) /\ cfg[e][c].known
    /\ redis_call(e, "ok")
    /\ lua_return(e, c, pass[e].reserved[c])
    /\ returned(e, c)
    /\ UNCHANGED <<now, table, statements, up, admin, ready, passes, setup, started, minted>>

\* The fallback: after a late reply the tokens are returned twice.
release_pg(e, c, o) ==
    /\ release_at(e, c) /\ cfg[e][c].known
    /\ redis_call(e, o)
    /\ IF o = "late" THEN lua_return(e, c, pass[e].reserved[c]) ELSE UNCHANGED bucket
    /\ pg_return(c, pass[e].reserved[c])
    /\ returned(e, c)
    /\ minted' = IF o = "late" THEN [minted EXCEPT ![c] = @ + Unit * pass[e].reserved[c]]
                 ELSE minted
    /\ UNCHANGED <<now, statements, up, admin, ready, passes, setup, started>>

\* The pass goes on to assign its batch (module WorkerFleet) and sleeps.
pass_ends(e) ==
    /\ pass[e].at = "return" /\ pass[e].todo = {}
    /\ pass' = [pass EXCEPT ![e] = Sleeping]
    /\ UNCHANGED <<now, backend, up, admin, ready, faults, passes, setup, history>>

\* A statement fails: the dispatcher logs it and sleeps.  Neither the claim nor
\* the return that failed is tried again.
pass_fails(e) ==
    /\ pass[e].at # "sleep" /\ Fault
    /\ pass' = [pass EXCEPT ![e] = Sleeping]
    /\ UNCHANGED <<now, backend, up, admin, ready, passes, setup, history>>

-----------------------------------------------------------------------------
(***************************************************************************)
(* Around the pass.                                                        *)
(***************************************************************************)
\* A statement on the row of c, on its way to Postgres; taken for the number of
\* tokens, or to drain.  Faults count down, so that each has a name of its own.
Statement(c, since, want) == [id |-> faults, class |-> c, since |-> since, want |-> want]

\* drain, when a running job of the class fails with a 429.
drain(e, c, o) ==
    /\ started[c] > 0 /\ cfg[e][c].known
    /\ Fault
    /\ IF o = "down" THEN ~up[e] ELSE up[e]
    /\ IF o = "down" THEN UNCHANGED <<bucket, minted>>
       ELSE /\ bucket' = [bucket EXCEPT ![c] = [live |-> TRUE, tokens |-> 0, ts |-> clock(e)]]
            /\ minted' = [minted EXCEPT ![c] = @ + rewound(e, c)]
    /\ statements' = IF o = "ok" THEN statements ELSE statements \cup {Statement(c, now, 0)}
    /\ UNCHANGED <<now, table, up, admin, pass, ready, passes, setup, drawn, started>>

\* Such a statement gets the row: the UPDATE of drain, or a take whose engine
\* died waiting, and whose tokens are lost.
statement_runs(s, t) ==
    /\ statements' = statements \ {s}
    /\ IF s.want = 0
       THEN /\ pg_drain(s.class, t)
            /\ minted' = [minted EXCEPT ![s.class] = @ + pg_set_back(s.class, t, 0)]
       ELSE /\ pg_take(s.class, t, s.want)
            /\ minted' = [minted EXCEPT ![s.class] = @ + pg_minted(s.class, t, s.want)]
    /\ UNCHANGED <<now, bucket, up, admin, pass, ready, faults, passes, setup, drawn, started>>

\* upsert: the row, then this engine's cache.  The bucket of an existing row is kept.
upsert(e, c, k) ==
    /\ edits > 0 /\ edits' = edits - 1
    /\ edit[e] = NoEdit /\ edit' = [edit EXCEPT ![e] = [NoEdit EXCEPT ![c] = k]]
    /\ table' = [table EXCEPT ![c] = IF @.cfg.known THEN edited_row(@, k) ELSE new_row(k, now)]
    /\ UNCHANGED <<now, bucket, statements, up, cfg, load, pass, ready, faults, passes, setup,
                   history>>
upsert_caches(e) ==
    /\ edit[e] # NoEdit
    /\ edit' = [edit EXCEPT ![e] = NoEdit]
    /\ cfg' = [cfg EXCEPT ![e] = [c \in Class |-> IF edit[e][c].known THEN edit[e][c] ELSE @[c]]]
    /\ UNCHANGED <<now, backend, up, load, edits, pass, ready, faults, passes, setup, history>>

\* load, on the refill tick: the rows are read, and stored when they arrive.
load_reads(e) ==
    /\ ~load[e].reading /\ setup.edits > 0     \* with nothing edited it changes nothing
    /\ load' = [load EXCEPT ![e] = [reading |-> TRUE, rows |-> rows]]
    /\ UNCHANGED <<now, backend, up, cfg, edit, edits, pass, ready, faults, passes, setup, history>>
loaded_new(e) == [c \in Class |-> IF cfg[e][c].known THEN cfg[e][c] ELSE load[e].rows[c]]
loaded(e) == load[e].rows
load_stores(e) ==
    /\ load[e].reading
    /\ load' = [load EXCEPT ![e] = NoLoad]
    /\ cfg' = [cfg EXCEPT ![e] = loaded(e)]
    /\ UNCHANGED <<now, backend, up, edit, edits, pass, ready, faults, passes, setup, history>>

\* A crash: the engine comes back with an empty cache and loads it before it
\* serves.  A take it was waiting for may still reach the row.
restart(e) ==
    /\ Fault
    /\ statements' = statements \cup
                       {Statement(c, pass[e].since, pass[e].limit) : c \in pass[e].taking}
    /\ pass' = [pass EXCEPT ![e] = Sleeping]
    /\ load' = [load EXCEPT ![e] = NoLoad]
    /\ edit' = [edit EXCEPT ![e] = NoEdit]
    /\ cfg' = [cfg EXCEPT ![e] = rows]
    /\ UNCHANGED <<now, table, bucket, up, edits, ready, passes, setup, history>>

\* The environment: time, submissions, the way to Redis, and Redis losing a key
\* (it restarted, or the bucket was idle for an hour).
tick ==
    /\ now < setup.time /\ now' = now + 1
    /\ UNCHANGED <<backend, up, admin, pass, ready, faults, passes, setup, history>>
arrive(c) ==
    /\ ready[c] + started[c] < setup.jobs[c]
    /\ ready' = [ready EXCEPT ![c] = @ + 1]
    /\ UNCHANGED <<now, backend, up, admin, pass, faults, passes, setup, history>>
link_changes(e) ==
    /\ redis_link(e)
    /\ UNCHANGED <<now, backend, admin, pass, ready, passes, history>>
redis_forgets(c) ==
    /\ bucket[c].live /\ Fault
    /\ bucket' = [bucket EXCEPT ![c] = Absent]
    /\ minted' = [minted EXCEPT ![c] = @ + MaxCapacity + MaxRefill * MaxSkew]
    /\ UNCHANGED <<now, table, statements, up, admin, pass, ready, passes, setup, drawn, started>>

-----------------------------------------------------------------------------
Reserve(e, c) ==
    \/ reserve_unlimited(e, c) \/ reserve_redis(e, c)
    \/ \E o \in {"down", "late"} : reserve_falls_back(e, c, o)
    \/ \E t \in pass[e].since..now : reserve_pg(e, c, t)
Release(e, c) ==
    release_unlimited(e, c) \/ release_redis(e, c) \/ \E o \in {"down", "late"} : release_pg(e, c, o)
Environment ==
    \/ tick
    \/ \E c \in Class : arrive(c) \/ redis_forgets(c)
    \/ \E e \in Engine : link_changes(e) \/ restart(e)

Next ==
    \/ \E e \in Engine :
        \/ \E limit \in 1..Limit : peek(e, limit)
        \/ claim(e) \/ pass_ends(e) \/ pass_fails(e)
        \/ load_reads(e) \/ load_stores(e) \/ upsert_caches(e)
        \/ \E c \in Class :
            \/ Reserve(e, c) \/ Release(e, c)
            \/ \E o \in {"ok", "down", "late"} : drain(e, c, o)
            \/ \E k \in Config : upsert(e, c, k)
    \/ \E s \in statements : \E t \in s.since..now : statement_runs(s, t)
    \/ Environment

Spec == Init /\ [][Next]_vars
-----------------------------------------------------------------------------
PassType ==
    [at: {"sleep", "reserve", "return"}, limit: 0..Limit, todo: SUBSET Class,
     exhausted: SUBSET Class, reserved: [Class -> Nat], taking: SUBSET Class, since: Nat]
StatementType == [id: Nat, class: Class, since: Nat, want: 0..Limit]

\* Buckets hold whole units, never fewer than none, and the Redis bucket never
\* more than the largest capacity, whatever engines with different caches do to
\* it.  The row can hold more only by what a take left of a negative balance.
TypeOK ==
    /\ now \in Nat
    /\ table \in [Class -> [cfg: Config \cup {Unknown}, tokens: 0..(MaxCapacity + Unit),
                           refilled_at: 0..now]]
    /\ bucket \in [Class -> [live: BOOLEAN, tokens: 0..MaxCapacity, ts: 0..now]]
    /\ statements \subseteq StatementType
    /\ up \in [Engine -> BOOLEAN]
    /\ cfg \in [Engine -> [Class -> Config \cup {Unknown}]]
    /\ load \in [Engine -> [reading: BOOLEAN, rows: [Class -> Config \cup {Unknown}]]]
    /\ edit \in [Engine -> [Class -> Config \cup {Unknown}]]
    /\ pass \in [Engine -> PassType]
    /\ ready \in [Class -> Nat] /\ passes \in [Engine -> Nat]
    /\ faults \in Nat /\ edits \in Nat /\ setup \in Setup
    /\ drawn \in [Class -> Int] /\ started \in [Class -> Nat] /\ minted \in [Class -> Nat]

\* Tokens spent are bounded by the buckets: over a class's life no more tokens
\* are out than the two buckets held when full and were refilled with since,
\* plus what is known to come from elsewhere: a batch reserved before its class
\* was configured, a return that a late reply repeated, a bucket Redis lost, a
\* stamp of the Redis bucket that a slower clock set back, and a statement that
\* waited for its row, found it stamped in its own future, set that stamp back
\* and rounded a balance below zero up to a token (rate_take_pg.sql:33, drain).
\* Failing over from one bucket to the other and returning to the wrong one,
\* stale caches and edits add nothing.
Budget == 2 * MaxCapacity + MaxRefill * MaxSkew + 2 * (MaxRefill * now)
RateBound == \A c \in Class : Unit * drawn[c] <= Budget + minted[c]

\* Why it holds: what a bucket holds and is still owed since its stamp, together
\* with the tokens that are out, never exceeds the budget.  A bucket Redis does
\* not have yet, or a class not configured yet, counts as full.
RedisPotential(c) ==
    IF bucket[c].live THEN bucket[c].tokens + MaxRefill * (now - bucket[c].ts)
    ELSE MaxCapacity + MaxRefill * MaxSkew
PgPotential(c) ==
    IF table[c].cfg.known THEN table[c].tokens + MaxRefill * (now - table[c].refilled_at)
    ELSE MaxCapacity
Conserved ==
    \A c \in Class :
        RedisPotential(c) + PgPotential(c) + Unit * drawn[c] <= Budget + minted[c]

\* Nothing is wasted: while no fault has happened and no pass is under way, every
\* token that is out bought the start of a job (_return_unused_tokens).
NothingWasted ==
    faults = setup.faults /\ (\A e \in Engine : pass[e].at = "sleep")
        => \A c \in Class : drawn[c] <= started[c]

\* A pass starts more jobs of a class than it reserved tokens for only if it
\* reserved none at all and the class had no waiting job when it looked: a job
\* that arrived in between is then not held back (claim.sql, empty quotas).
QuotaKept ==
    [][\A e \in Engine : pass[e].at = "reserve" /\ pass'[e].at = "return" =>
        \A c \in Class :
            \/ started'[c] - started[c] <= pass[e].reserved[c]
            \/ pass[e].reserved = None /\ c \notin pass[e].exhausted]_vars

\* An edit reaches every engine: once the operator stops editing, every cache
\* comes to hold the committed configuration and keeps it, also when a reload
\* or an older edit wrote over the newer one.
ConfigConverges == <>[](\A e \in Engine : cfg[e] = rows)
=============================================================================
