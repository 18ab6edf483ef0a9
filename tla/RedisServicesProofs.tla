-------------------------- MODULE RedisServicesProofs --------------------------
(***************************************************************************)
(* Every token of the rate limiter buys a job or goes back, and the        *)
(* checkpoint service on the same Redis client answers with nothing stale, *)
(* for any engines, classes, configurations, clocks and attempts.          *)
(***************************************************************************)
EXTENDS RedisServices, RateLimiterProofs, FiniteSetTheorems

\* What the provers may take for a step that does not say otherwise.
USE SMTT(60), ZenonT(60)

(***************************************************************************)
(* The tokens that the passes under way hold, and the two services on one  *)
(* Redis client.  NothingWasted says nothing while a pass is under way, so *)
(* the proof follows every token from the grant to the start of a job or   *)
(* back: Held has one element for each.                                    *)
(***************************************************************************)
Held(r) == {h \in Engine \X Nat : h[2] \in 1..r[h[1]]}
Holding(c) == Held([e \in Engine |-> pass[e].reserved[c]])

\* What one engine holds of a class is as many elements as it has tokens.
LEMMA OwnTokens ==
  ASSUME NEW e, NEW n \in Nat
  PROVE  IsFiniteSet({e} \X (1..n)) /\ Cardinality({e} \X (1..n)) = n
<1> DEFINE f == [i \in 1..n |-> <<e, i>>]
<1>1. f \in [1..n -> {e} \X (1..n)]
  OBVIOUS
<1>2. \A i, k \in 1..n : f[i] = f[k] => i = k
  OBVIOUS
<1>3. \A t \in {e} \X (1..n) : t[2] \in 1..n /\ f[t[2]] = t
  OBVIOUS
<1> HIDE DEF f
<1>4. f \in Bijection(1..n, {e} \X (1..n))
  BY <1>1, <1>2, <1>3 DEF Bijection, Injection, Surjection, IsInjective
<1>5. IsFiniteSet(1..n) /\ Cardinality(1..n) = n
  BY FS_Interval
<1>6. ExistsBijection(1..n, {e} \X (1..n))
  BY <1>4, ZenonT(60) DEF ExistsBijection
<1> QED
  BY <1>5, <1>6, FS_Bijection

\* When one engine reserves, claims or returns, the tokens out change by what
\* that engine has more or less.
LEMMA HeldMoves ==
  ASSUME NEW r \in [Engine -> Nat], NEW s \in [Engine -> Nat], NEW e \in Engine,
         \A d \in Engine : d # e => s[d] = r[d],
         IsFiniteSet(Held(r))
  PROVE  /\ IsFiniteSet(Held(s))
         /\ Cardinality(Held(r)) \in Nat /\ Cardinality(Held(s)) \in Nat
         /\ Cardinality(Held(s)) = Cardinality(Held(r)) - r[e] + s[e]
<1> DEFINE Rest == {h \in Held(r) : h[1] # e}
           Own(n) == {e} \X (1..n)
<1>1. Rest = {h \in Held(s) : h[1] # e}
  BY DEF Held
<1>2. Held(r) = Rest \cup Own(r[e]) /\ Rest \cap Own(r[e]) = {}
  BY DEF Held
<1>3. Held(s) = Rest \cup Own(s[e]) /\ Rest \cap Own(s[e]) = {}
  BY DEF Held
<1>4. IsFiniteSet(Rest) /\ Cardinality(Rest) \in Nat
  BY FS_Subset, FS_CardinalityType
<1>5. /\ IsFiniteSet(Own(r[e])) /\ Cardinality(Own(r[e])) = r[e]
      /\ IsFiniteSet(Own(s[e])) /\ Cardinality(Own(s[e])) = s[e]
  <2>1. r[e] \in Nat /\ s[e] \in Nat
    OBVIOUS
  <2> QED
    BY OwnTokens, ZenonT(60)
<1> HIDE DEF Rest, Own
<1>6. Cardinality(Held(r)) = Cardinality(Rest) + r[e]
  <2>1. Cardinality(Held(r)) = Cardinality(Rest) + Cardinality(Own(r[e])) - Cardinality({})
    BY <1>2, <1>4, <1>5, FS_Union
  <2> QED
    BY <1>5, <2>1, FS_EmptySet
<1>7. IsFiniteSet(Held(s)) /\ Cardinality(Held(s)) = Cardinality(Rest) + s[e]
  <2>1. /\ IsFiniteSet(Held(s))
        /\ Cardinality(Held(s)) = Cardinality(Rest) + Cardinality(Own(s[e])) - Cardinality({})
    BY <1>3, <1>4, <1>5, FS_Union
  <2> QED
    BY <1>5, <2>1, FS_EmptySet
<1> QED
  BY <1>4, <1>6, <1>7

\* A pass holds tokens only from the grant of a class until it is settled, and
\* takes from Postgres only for a class it has yet to reserve.
HeldPass(e) ==
    /\ \A c \in Class :
        \/ pass[e].at = "sleep"
        \/ pass[e].at = "reserve" /\ c \in pass[e].todo
        \/ pass[e].at = "return" /\ c \notin pass[e].todo
        => pass[e].reserved[c] = 0
    /\ \A c \in pass[e].taking : pass[e].at = "reserve" /\ c \in pass[e].todo
Accounted(c) == drawn[c] <= started[c] + Cardinality(Holding(c))
HInv ==
    /\ faults <= setup.faults
    /\ \A e \in Engine : HeldPass(e)
    /\ \A c \in Class : IsFiniteSet(Holding(c))
    /\ faults = setup.faults => \A c \in Class : Accounted(c)

\* HeldMoves, for the passes of the model.
LEMMA EngineMoves ==
  ASSUME TypeOK, TypeOK', NEW e \in Engine, NEW c \in Class,
         \A d \in Engine : d # e => pass'[d] = pass[d],
         IsFiniteSet(Holding(c))
  PROVE  /\ IsFiniteSet(Holding(c)')
         /\ Cardinality(Holding(c)) \in Nat /\ Cardinality(Holding(c)') \in Nat
         /\ Cardinality(Holding(c)') =
                Cardinality(Holding(c)) - pass[e].reserved[c] + pass'[e].reserved[c]
<1> DEFINE r == [d \in Engine |-> pass[d].reserved[c]]
           s == [d \in Engine |-> pass'[d].reserved[c]]
<1>1. r \in [Engine -> Nat] /\ s \in [Engine -> Nat]
  BY DEF TypeOK, PassType
<1>2. \A d \in Engine : d # e => s[d] = r[d]
  OBVIOUS
<1>3. r[e] = pass[e].reserved[c] /\ s[e] = pass'[e].reserved[c]
  OBVIOUS
<1>4. Holding(c) = Held(r) /\ Holding(c)' = Held(s)
  BY DEF Holding, Held
<1> HIDE DEF r, s
<1>5. IsFiniteSet(Held(r))
  BY <1>4
<1>6. /\ IsFiniteSet(Held(s))
      /\ Cardinality(Held(r)) \in Nat /\ Cardinality(Held(s)) \in Nat
      /\ Cardinality(Held(s)) = Cardinality(Held(r)) - r[e] + s[e]
  BY <1>1, <1>2, <1>5, HeldMoves
<1> QED
  BY <1>3, <1>4, <1>6

\* A step of one engine keeps the account when what it draws is what it starts
\* or holds, until something fails.
LEMMA EngineStep ==
  ASSUME TypeOK, TypeOK', HInv, NEW e \in Engine,
         \A d \in Engine : d # e => pass'[d] = pass[d],
         HeldPass(e)', setup' = setup, faults' <= faults,
         faults' = faults =>
             \A c \in Class : drawn'[c] - drawn[c] <=
                 (started'[c] - started[c]) + (pass'[e].reserved[c] - pass[e].reserved[c])
  PROVE  HInv'
<1>1. setup.faults \in Nat /\ faults \in Nat /\ faults' \in Nat /\ faults <= setup.faults
  BY RateAssumption DEF TypeOK, HInv
<1>2. faults' <= setup'.faults
  BY <1>1
<1>3. ASSUME NEW d \in Engine PROVE HeldPass(d)'
  BY DEF HInv, HeldPass
<1>4. ASSUME NEW c \in Class PROVE IsFiniteSet(Holding(c))'
  BY EngineMoves DEF HInv
<1>5. ASSUME faults' = setup'.faults, NEW c \in Class PROVE Accounted(c)'
  <2>1. faults' = faults /\ faults = setup.faults
    BY <1>1, <1>5
  <2>2. drawn[c] <= started[c] + Cardinality(Holding(c))
    BY <2>1 DEF HInv, Accounted
  <2>3. /\ Cardinality(Holding(c)) \in Nat /\ Cardinality(Holding(c)') \in Nat
        /\ Cardinality(Holding(c)') =
                Cardinality(Holding(c)) - pass[e].reserved[c] + pass'[e].reserved[c]
    BY EngineMoves DEF HInv
  <2>4. /\ drawn[c] \in Int /\ drawn'[c] \in Int /\ started[c] \in Nat /\ started'[c] \in Nat
        /\ pass[e].reserved[c] \in Nat /\ pass'[e].reserved[c] \in Nat
    BY DEF TypeOK, PassType
  <2>5. drawn'[c] - drawn[c] <=
            (started'[c] - started[c]) + (pass'[e].reserved[c] - pass[e].reserved[c])
    BY <2>1
  <2>6. drawn'[c] <= started'[c] + Cardinality(Holding(c)')
    BY <2>2, <2>3, <2>4, <2>5
  <2> QED
    BY <2>6 DEF Accounted
<1> QED
  BY <1>2, <1>3, <1>4, <1>5 DEF HInv

\* A step that touches no pass and no token, or that is a failure, keeps it.
LEMMA CalmHInv ==
  ASSUME TypeOK, TypeOK', HInv, pass' = pass, setup' = setup, faults' <= faults,
         faults' = faults => UNCHANGED <<drawn, started>>
  PROVE  HInv'
<1>1. setup.faults \in Nat /\ faults \in Nat /\ faults' \in Nat /\ faults <= setup.faults
  BY RateAssumption DEF TypeOK, HInv
<1>2. \A c \in Class : Holding(c)' = Holding(c)
  BY DEF Holding, Held
<1>3. \A e \in Engine : HeldPass(e)'
  BY DEF HInv, HeldPass
<1>4. ASSUME faults' = setup'.faults, NEW c \in Class PROVE Accounted(c)'
  <2>1. faults' = faults /\ faults = setup.faults
    BY <1>1, <1>4
  <2> QED
    BY <1>2, <2>1 DEF HInv, Accounted
<1> QED
  BY <1>1, <1>2, <1>3, <1>4 DEF HInv

\* The steps that reserve: what is granted is drawn, and held.
Reserves(e, c) ==
    \/ reserve_unlimited(e, c) \/ reserve_redis(e, c)
    \/ \E t \in pass[e].since..now : reserve_pg(e, c, t)
LEMMA ReserveHInv ==
  ASSUME TypeOK, TypeOK', HInv, NEW e \in Engine, NEW c \in Class, Reserves(e, c)
  PROVE  HInv'
<1>0. /\ pass[e] \in PassType /\ faults \in Nat /\ pass[e].limit \in Nat
  BY RateAssumption DEF TypeOK, PassType
<1>a. pass[e].at = "reserve" /\ c \in pass[e].todo /\ pass[e].reserved[c] = 0
  <2>1. pass[e].at = "reserve" /\ c \in pass[e].todo
    BY DEF HInv, HeldPass, Reserves, reserve_unlimited, reserve_redis, reserve_pg, reserve_at
  <2> QED
    BY <2>1 DEF HInv, HeldPass
<1>1. PICK g : /\ pass' = [pass EXCEPT ![e] = reserved(pass[e], c, g)]
               /\ drawn' = [drawn EXCEPT ![c] = drawn[c] + Tokens(g)]
  <2>1. CASE reserve_unlimited(e, c)
    <3>1. Tokens(pass[e].limit) = pass[e].limit
      BY <1>0 DEF Tokens
    <3> QED
      BY <2>1, <3>1 DEF reserve_unlimited
  <2>2. CASE reserve_redis(e, c)
    <3> DEFINE g == Granted(lua_refilled(e, c), pass[e].limit)
    <3>1. cfg[e][c] \in Config
      BY <2>2, KnownIsConfig DEF reserve_redis, TypeOK
    <3>2. g \in Nat
      BY <1>0, <3>1, LuaTake
    <3>3. /\ pass' = [pass EXCEPT ![e] = reserved(pass[e], c, g)]
          /\ drawn' = [drawn EXCEPT ![c] = drawn[c] + g]
      BY <2>2 DEF reserve_redis
    <3> HIDE DEF g
    <3>4. Tokens(g) = g
      BY <3>2 DEF Tokens
    <3> QED
      BY <3>3, <3>4
  <2>3. ASSUME NEW t \in pass[e].since..now, reserve_pg(e, c, t)
        PROVE  \E g : /\ pass' = [pass EXCEPT ![e] = reserved(pass[e], c, g)]
                      /\ drawn' = [drawn EXCEPT ![c] = drawn[c] + Tokens(g)]
    BY <2>3 DEF reserve_pg
  <2> QED
    BY <2>1, <2>2, <2>3 DEF Reserves
<1>b. Tokens(g) \in Nat
  <2>1. pass'[e].reserved[c] = Tokens(g)
    BY <1>0, <1>1 DEF TypeOK, PassType, reserved
  <2> QED
    BY <2>1 DEF TypeOK, PassType
<1>2. setup' = setup /\ started' = started /\ faults' <= faults
  BY <1>0 DEF Reserves, reserve_unlimited, reserve_redis, reserve_pg, redis_call, Fault
<1>3. /\ pass'[e] = reserved(pass[e], c, g)
      /\ \A d \in Engine : d # e => pass'[d] = pass[d]
  BY <1>1 DEF TypeOK
<1>4. /\ pass'[e].at = "reserve" /\ pass'[e].todo = pass[e].todo \ {c}
      /\ pass'[e].reserved = [pass[e].reserved EXCEPT ![c] = Tokens(g)]
      /\ pass'[e].taking = {}
  BY <1>0, <1>a, <1>3 DEF reserved, PassType
<1>5. HeldPass(e)'
  BY <1>0, <1>a, <1>4 DEF HInv, HeldPass, PassType
<1>6. \A b \in Class :
          /\ drawn'[b] = IF b = c THEN drawn[b] + Tokens(g) ELSE drawn[b]
          /\ pass'[e].reserved[b] = IF b = c THEN Tokens(g) ELSE pass[e].reserved[b]
  BY <1>1, <1>4 DEF TypeOK, PassType
<1>7. \A b \in Class : /\ drawn[b] \in Int /\ started[b] \in Int /\ pass[e].reserved[b] \in Int
                       /\ pass'[e].reserved[b] \in Int
  BY DEF TypeOK, PassType
<1>8. \A b \in Class : drawn'[b] - drawn[b] <=
          (started'[b] - started[b]) + (pass'[e].reserved[b] - pass[e].reserved[b])
  BY <1>a, <1>b, <1>2, <1>6, <1>7
<1> QED
  BY <1>2, <1>3, <1>5, <1>8, EngineStep

\* The step to Postgres draws nothing yet.
LEMMA FallsBackHInv ==
  ASSUME TypeOK, TypeOK', HInv, NEW e \in Engine, NEW c \in Class,
         NEW o \in {"down", "late"}, reserve_falls_back(e, c, o)
  PROVE  HInv'
<1>0. pass[e] \in PassType /\ faults \in Nat
  BY DEF TypeOK
<1>1. /\ setup' = setup /\ started' = started /\ drawn' = drawn /\ faults' <= faults
      /\ pass[e].at = "reserve" /\ c \in pass[e].todo
  BY <1>0 DEF reserve_falls_back, reserve_at, redis_call, Fault
<1>2. /\ pass'[e] = [pass[e] EXCEPT !.taking = {c}, !.since = now]
      /\ \A d \in Engine : d # e => pass'[d] = pass[d]
  BY DEF reserve_falls_back, TypeOK
<1>3. /\ pass'[e].at = pass[e].at /\ pass'[e].todo = pass[e].todo
      /\ pass'[e].reserved = pass[e].reserved /\ pass'[e].taking = {c}
  BY <1>0, <1>2 DEF PassType
<1>4. HeldPass(e)'
  BY <1>1, <1>3 DEF HInv, HeldPass
<1>5. \A b \in Class : drawn[b] \in Int /\ started[b] \in Int /\ pass[e].reserved[b] \in Int
  BY DEF TypeOK, PassType
<1>6. \A b \in Class : drawn'[b] - drawn[b] <=
          (started'[b] - started[b]) + (pass'[e].reserved[b] - pass[e].reserved[b])
  BY <1>1, <1>3, <1>5
<1> QED
  BY <1>1, <1>2, <1>4, <1>6, EngineStep

\* The steps that return: what is no longer held is no longer drawn.
LEMMA ReleaseHInv ==
  ASSUME TypeOK, TypeOK', HInv, NEW e \in Engine, NEW c \in Class, Release(e, c)
  PROVE  HInv'
<1>0. /\ pass[e] \in PassType /\ faults \in Nat /\ release_at(e, c) /\ returned(e, c)
  BY DEF TypeOK, Release, release_unlimited, release_redis, release_pg
<1>1. setup' = setup /\ started' = started /\ faults' <= faults
  BY <1>0 DEF Release, release_unlimited, release_redis, release_pg, redis_call, Fault
<1>2. /\ pass'[e] = settled(pass[e], c)
      /\ \A d \in Engine : d # e => pass'[d] = pass[d]
  BY <1>0 DEF TypeOK, returned
<1>3. /\ pass'[e].at = "return" /\ pass'[e].todo = pass[e].todo \ {c}
      /\ pass'[e].reserved = [pass[e].reserved EXCEPT ![c] = 0]
      /\ pass'[e].taking = pass[e].taking
  BY <1>0, <1>2 DEF settled, PassType, release_at
<1>4. HeldPass(e)'
  BY <1>0, <1>3 DEF HInv, HeldPass, PassType, release_at
<1>5. \A b \in Class :
          /\ drawn'[b] = IF b = c THEN drawn[b] - pass[e].reserved[c] ELSE drawn[b]
          /\ pass'[e].reserved[b] = IF b = c THEN 0 ELSE pass[e].reserved[b]
  BY <1>0, <1>3 DEF TypeOK, PassType, returned
<1>6. \A b \in Class : drawn[b] \in Int /\ started[b] \in Int /\ pass[e].reserved[b] \in Int
  BY DEF TypeOK, PassType
<1>7. \A b \in Class : drawn'[b] - drawn[b] <=
          (started'[b] - started[b]) + (pass'[e].reserved[b] - pass[e].reserved[b])
  BY <1>1, <1>5, <1>6
<1> QED
  BY <1>1, <1>2, <1>4, <1>7, EngineStep

\* The claim: a token is kept for the return unless it bought a job.
LEMMA ClaimHInv ==
  ASSUME TypeOK, TypeOK', HInv, NEW e \in Engine, claim(e)
  PROVE  HInv'
<1>0. pass[e] \in PassType /\ faults \in Nat
  BY DEF TypeOK
<1>1. PICK batch \in [Class -> 0..Limit] :
        /\ \A c \in Class : batch[c] <= ready[c] /\ batch[c] <= quota(e, c)
        /\ ready' = [c \in Class |-> ready[c] - batch[c]]
        /\ started' = [c \in Class |-> started[c] + batch[c]]
        /\ pass' = [pass EXCEPT ![e] =
                       [@ EXCEPT !.at = "return",
                                 !.todo = {c \in Class : unused(e, c, batch) > 0},
                                 !.reserved = [c \in Class |-> unused(e, c, batch)]]]
  BY ONLY claim(e), ZenonT(60) DEF claim
<1>2. setup' = setup /\ drawn' = drawn /\ faults' <= faults
  BY <1>0 DEF claim
<1>3. /\ pass'[e].at = "return"
      /\ pass'[e].todo = {c \in Class : unused(e, c, batch) > 0}
      /\ pass'[e].reserved = [c \in Class |-> unused(e, c, batch)]
      /\ pass'[e].taking = {}
      /\ \A d \in Engine : d # e => pass'[d] = pass[d]
  <2> DEFINE td == {c \in Class : unused(e, c, batch) > 0}
             rs == [c \in Class |-> unused(e, c, batch)]
  <2>1. pass' = [pass EXCEPT ![e] = [@ EXCEPT !.at = "return", !.todo = td, !.reserved = rs]]
    BY <1>1
  <2> HIDE DEF td, rs
  <2>2. /\ pass'[e] = [pass[e] EXCEPT !.at = "return", !.todo = td, !.reserved = rs]
        /\ \A d \in Engine : d # e => pass'[d] = pass[d]
    BY <2>1 DEF TypeOK
  <2>3. /\ pass'[e].at = "return" /\ pass'[e].todo = td /\ pass'[e].reserved = rs
        /\ pass'[e].taking = pass[e].taking
    BY <1>0, <2>2 DEF PassType
  <2>4. pass[e].taking = {}
    BY DEF claim, HInv, HeldPass
  <2> QED
    BY <2>2, <2>3, <2>4 DEF td, rs
<1>4. \A c \in Class : /\ batch[c] \in Nat /\ pass[e].reserved[c] \in Nat
                       /\ unused(e, c, batch) \in Nat
                       /\ pass[e].reserved[c] <= batch[c] + unused(e, c, batch)
  BY <1>0 DEF PassType, unused, Elapsed
<1>5. HeldPass(e)'
  BY <1>3, <1>4 DEF HeldPass
<1>6. \A c \in Class : drawn[c] \in Int /\ started[c] \in Int
  BY DEF TypeOK
<1>7. \A c \in Class : drawn'[c] - drawn[c] <=
          (started'[c] - started[c]) + (pass'[e].reserved[c] - pass[e].reserved[c])
  <2> SUFFICES ASSUME NEW c \in Class
               PROVE  drawn'[c] - drawn[c] <=
                      (started'[c] - started[c]) + (pass'[e].reserved[c] - pass[e].reserved[c])
    OBVIOUS
  <2>1. started'[c] = started[c] + batch[c] /\ pass'[e].reserved[c] = unused(e, c, batch)
    BY <1>1, <1>3
  <2> QED
    BY <1>2, <1>4, <1>6, <2>1
<1> QED
  BY <1>2, <1>3, <1>5, <1>7, EngineStep

\* A pass begins and ends holding nothing.  One that fails keeps what it held,
\* and that is a failure.
LEMMA PassHInv ==
  ASSUME TypeOK, TypeOK', HInv, NEW e \in Engine,
         (\E limit \in 1..Limit : peek(e, limit)) \/ pass_ends(e) \/ pass_fails(e) \/ restart(e)
  PROVE  HInv'
<1>0. pass[e] \in PassType /\ faults \in Nat
  BY DEF TypeOK
<1>1. setup' = setup /\ drawn' = drawn /\ started' = started
  BY ZenonT(60) DEF peek, pass_ends, pass_fails, restart, history
<1>2. /\ pass'[e].reserved = None /\ pass'[e].at \in {"sleep", "reserve"}
      /\ pass'[e].taking = {}
      /\ \A d \in Engine : d # e => pass'[d] = pass[d]
      /\ faults' <= faults
      /\ \/ faults' # faults \/ pass[e].at = "sleep"
         \/ pass[e].at = "return" /\ pass[e].todo = {}
  <2>1. ASSUME NEW limit \in 1..Limit, peek(e, limit)
        PROVE  <1>2!:
    <3>1. PICK td : pass' = [pass EXCEPT ![e] = [Sleeping EXCEPT !.at = "reserve",
                                                    !.limit = limit, !.todo = td]]
      BY <2>1, ZenonT(60) DEF peek
    <3>2. pass'[e] = [Sleeping EXCEPT !.at = "reserve", !.limit = limit, !.todo = td]
      BY <3>1 DEF TypeOK
    <3>3. pass'[e].reserved = None /\ pass'[e].at = "reserve" /\ pass'[e].taking = {}
      BY <3>2 DEF Sleeping
    <3>4. pass[e].at = "sleep" /\ faults' = faults
      BY <2>1, ZenonT(60) DEF peek
    <3> QED
      BY <3>1, <3>3, <3>4 DEF TypeOK
  <2>2. ASSUME pass' = [pass EXCEPT ![e] = Sleeping]
        PROVE  /\ pass'[e].reserved = None /\ pass'[e].at = "sleep" /\ pass'[e].taking = {}
               /\ \A d \in Engine : d # e => pass'[d] = pass[d]
    BY <2>2 DEF TypeOK, Sleeping
  <2>3. ASSUME pass_ends(e)
        PROVE  <1>2!:
    <3>1. /\ pass' = [pass EXCEPT ![e] = Sleeping] /\ faults' = faults
          /\ pass[e].at = "return" /\ pass[e].todo = {}
      BY <2>3 DEF pass_ends
    <3> QED
      BY <1>0, <2>2, <3>1
  <2>4. ASSUME pass_fails(e) \/ restart(e)
        PROVE  <1>2!:
    <3>1. pass' = [pass EXCEPT ![e] = Sleeping] /\ faults' = faults - 1
      BY <2>4 DEF pass_fails, restart, Fault
    <3> QED
      BY <1>0, <2>2, <3>1
  <2> QED
    BY <2>1, <2>3, <2>4
<1>3. HeldPass(e)'
  BY <1>2 DEF HeldPass, None
<1>4. ASSUME faults' = faults, NEW c \in Class PROVE pass[e].reserved[c] = 0
  BY <1>2, <1>4 DEF HInv, HeldPass
<1>5. \A c \in Class : pass'[e].reserved[c] = 0 /\ drawn[c] \in Int /\ started[c] \in Int
  BY <1>2 DEF None, TypeOK
<1>6. faults' = faults =>
          \A c \in Class : drawn'[c] - drawn[c] <=
              (started'[c] - started[c]) + (pass'[e].reserved[c] - pass[e].reserved[c])
  BY <1>1, <1>4, <1>5
<1> QED
  BY <1>1, <1>2, <1>3, <1>6, EngineStep

\* The account is kept by every step of the rate limiter.
LEMMA NextHInv ==
  ASSUME TypeOK, TypeOK', HInv, [Next]_vars
  PROVE  HInv'
<1>0. faults \in Nat
  BY DEF TypeOK
<1>1. CASE UNCHANGED vars
  BY <1>0, <1>1, CalmHInv DEF vars
<1>2. CASE Environment
  <2>1. ASSUME tick \/ (\E c \in Class : arrive(c) \/ redis_forgets(c))
               \/ (\E e \in Engine : link_changes(e))
        PROVE  HInv'
    <3>1. /\ pass' = pass /\ setup' = setup /\ drawn' = drawn /\ started' = started
          /\ faults' <= faults
      BY <1>0, <2>1 DEF tick, arrive, redis_forgets, link_changes, redis_link, Fault, history
    <3> QED
      BY <3>1, CalmHInv
  <2> QED
    BY <1>2, <2>1, PassHInv DEF Environment
<1>3. ASSUME NEW e \in Engine,
             \/ \E limit \in 1..Limit : peek(e, limit)
             \/ claim(e) \/ pass_ends(e) \/ pass_fails(e)
      PROVE  HInv'
  BY <1>3, ClaimHInv, PassHInv
<1>4. ASSUME NEW e \in Engine,
             \/ load_reads(e) \/ load_stores(e) \/ upsert_caches(e)
             \/ \E c \in Class : \/ \E o \in {"ok", "down", "late"} : drain(e, c, o)
                                 \/ \E k \in Config : upsert(e, c, k)
      PROVE  HInv'
  <2>1. /\ pass' = pass /\ setup' = setup /\ drawn' = drawn /\ started' = started
        /\ faults' <= faults
    <3>1. CASE load_reads(e) \/ load_stores(e) \/ upsert_caches(e)
      BY <1>0, <3>1 DEF load_reads, load_stores, upsert_caches, history
    <3>2. ASSUME NEW c \in Class, NEW o \in {"ok", "down", "late"}, drain(e, c, o)
          PROVE  <2>1!:
      BY ONLY <1>0, <3>2 DEF drain, Fault
    <3>3. ASSUME NEW c \in Class, NEW k \in Config, upsert(e, c, k)
          PROVE  <2>1!:
      BY ONLY <1>0, <3>3 DEF upsert, history
    <3> QED
      BY <1>4, <3>1, <3>2, <3>3
  <2> QED
    BY <2>1, CalmHInv
<1>5. ASSUME NEW e \in Engine, NEW c \in Class, Reserve(e, c) \/ Release(e, c)
      PROVE  HInv'
  BY <1>5, ReserveHInv, FallsBackHInv, ReleaseHInv, ZenonT(60) DEF Reserve, Reserves
<1>6. ASSUME NEW s \in statements, NEW t \in s.since..now, statement_runs(s, t)
      PROVE  HInv'
  <2>1. /\ pass' = pass /\ setup' = setup /\ drawn' = drawn /\ started' = started
        /\ faults' <= faults
    BY <1>0, <1>6 DEF statement_runs
  <2> QED
    BY <2>1, CalmHInv
<1> QED
  BY <1>1, <1>2, <1>3, <1>4, <1>5, <1>6 DEF Next

\* Nothing is held at first.
LEMMA InitHInv == Init => HInv
<1> SUFFICES ASSUME Init PROVE HInv
  OBVIOUS
<1>1. TypeOK
  BY Starts DEF IInv
<1>2. \A e \in Engine : pass[e].reserved = None /\ pass[e].taking = {}
  BY ZenonT(60) DEF Init, Sleeping
<1>3. ASSUME NEW c \in Class PROVE Holding(c) = {}
  <2> DEFINE r == [e \in Engine |-> pass[e].reserved[c]]
  <2>1. \A e \in Engine : pass[e].reserved[c] = 0
    BY <1>2, ZenonT(60) DEF None
  <2>2. \A e \in Engine : r[e] = 0
    BY <2>1, ZenonT(60)
  <2>3. Holding(c) = Held(r)
    BY ZenonT(60) DEF Holding
  <2> HIDE DEF r
  <2>4. Held(r) = {}
    BY <2>2 DEF Held
  <2> QED
    BY <2>3, <2>4
<1>4. \A e \in Engine : HeldPass(e)
  BY <1>2 DEF HeldPass, None
<1>5. faults = setup.faults /\ setup.faults \in Nat
  BY RateAssumption DEF Init, ClientInit, TypeOK
<1>6. ASSUME NEW c \in Class PROVE IsFiniteSet(Holding(c)) /\ Accounted(c)
  <2>1. drawn[c] = 0 /\ started[c] = 0
    BY DEF Init, None
  <2> QED
    BY <1>3, <2>1, FS_EmptySet DEF Accounted
<1> QED
  BY <1>4, <1>5, <1>6 DEF HInv

-----------------------------------------------------------------------------
(***************************************************************************)
(* The checkpoint service.  While nothing has failed there is one attempt, *)
(* every engine reaches Redis or there is none, and what the calls under   *)
(* way carry is not newer than the row.                                    *)
(***************************************************************************)
Undisturbed ==
    /\ attempt = 1
    /\ \A a \in Attempt : a # 1 => call[a] = Quiet
    /\ \A e \in Engine : up[e] = setup.redis
    /\ ~setup.redis => cache = 0
    /\ \A a \in Attempt : call[a].at = "set" => call[a].value = row
    /\ \A a \in Attempt : call[a].at = "read" => call[a].value <= row
    /\ CacheCurrent
CkInv ==
    /\ row \in Nat /\ cache \in Nat /\ puts = row /\ attempt \in Nat
    /\ call \in [Attempt -> [at: {"idle", "set", "read"}, value: Nat]]
    /\ answer \in [value: Nat, durable: Nat]
    /\ faults = setup.faults => Undisturbed /\ FreshCheckpoint

\* The two services together.
SInv == IInv /\ HInv /\ CkInv

\* How a step of the rate limiter touches the client: faults are only spent, and
\* while none is, no engine loses Redis.
LEMMA ClientSteps ==
  ASSUME TypeOK, [Next]_vars
  PROVE  /\ setup' = setup /\ faults \in Nat
         /\ faults' = faults \/ (faults > 0 /\ faults' = faults - 1)
         /\ faults' = faults => \A e \in Engine : up'[e] = up[e] \/ (setup.redis /\ up'[e])
<1>0. faults \in Nat /\ up \in [Engine -> BOOLEAN]
  BY DEF TypeOK
<1>1. CASE UNCHANGED vars
  BY <1>0, <1>1 DEF vars
<1>2. CASE Environment
  <2>1. ASSUME NEW d \in Engine, link_changes(d)
        PROVE  /\ setup' = setup
               /\ faults' = faults \/ (faults > 0 /\ faults' = faults - 1)
               /\ faults' = faults => \A e \in Engine : up'[e] = up[e] \/ (setup.redis /\ up'[e])
    <3>1. /\ setup' = setup /\ setup.redis /\ up' = [up EXCEPT ![d] = ~up[d]]
          /\ up[d] => (faults > 0 /\ faults' = faults - 1)
          /\ ~up[d] => faults' = faults
      BY <2>1, ZenonT(60) DEF link_changes, redis_link, Fault
    <3>2. ASSUME ~up[d], NEW e \in Engine PROVE up'[e] = up[e] \/ up'[e]
      <4>1. CASE e = d
        BY <1>0, <3>1, <3>2, ZenonT(60)
      <4>2. CASE e # d
        BY <3>1, <4>2
      <4> QED
        BY <4>1, <4>2
    <3>3. CASE up[d]
      BY <1>0, <3>1, <3>3
    <3>4. CASE ~up[d]
      BY <3>1, <3>2, <3>4, ZenonT(60)
    <3> QED
      BY <3>3, <3>4
  <2>2. ASSUME tick \/ (\E c \in Class : arrive(c) \/ redis_forgets(c))
               \/ (\E e \in Engine : restart(e))
        PROVE  setup' = setup /\ up' = up
               /\ (faults' = faults \/ (faults > 0 /\ faults' = faults - 1))
    BY <2>2 DEF tick, arrive, redis_forgets, restart, Fault
  <2> QED
    BY <1>0, <1>2, <2>1, <2>2 DEF Environment
<1>3. ASSUME NEW e \in Engine,
             \/ \E limit \in 1..Limit : peek(e, limit)
             \/ claim(e) \/ pass_ends(e) \/ pass_fails(e)
             \/ load_reads(e) \/ load_stores(e) \/ upsert_caches(e)
      PROVE  setup' = setup /\ up' = up
             /\ (faults' = faults \/ (faults > 0 /\ faults' = faults - 1))
  BY <1>3, ZenonT(60)
  DEF peek, claim, pass_ends, pass_fails, load_reads, load_stores, upsert_caches, Fault
<1>4. ASSUME NEW e \in Engine, NEW c \in Class,
             \/ Reserve(e, c) \/ Release(e, c)
             \/ \E o \in {"ok", "down", "late"} : drain(e, c, o)
             \/ \E k \in Config : upsert(e, c, k)
      PROVE  setup' = setup /\ up' = up
             /\ (faults' = faults \/ (faults > 0 /\ faults' = faults - 1))
  <2>1. CASE Reserve(e, c)
    BY <2>1, ZenonT(60) DEF Reserve, reserve_unlimited, reserve_redis, reserve_falls_back,
                            reserve_pg, redis_call, Fault
  <2>2. CASE Release(e, c)
    BY <2>2, ZenonT(60) DEF Release, release_unlimited, release_redis, release_pg, redis_call, Fault
  <2>3. CASE \/ \E o \in {"ok", "down", "late"} : drain(e, c, o)
             \/ \E k \in Config : upsert(e, c, k)
    BY <2>3 DEF drain, upsert, Fault
  <2> QED
    BY <1>4, <2>1, <2>2, <2>3
<1>5. ASSUME NEW s \in statements, NEW t \in s.since..now, statement_runs(s, t)
      PROVE  setup' = setup /\ up' = up /\ faults' = faults
  BY <1>5 DEF statement_runs
<1> QED
  BY <1>0, <1>1, <1>2, <1>3, <1>4, <1>5 DEF Next

\* A failure leaves nothing to show but the types.
LEMMA FaultCkInv ==
  ASSUME TypeOK, HInv, CkInv, setup' = setup, faults > 0, faults' = faults - 1,
         row' \in Nat, cache' \in Nat, puts' = row', attempt' \in Nat,
         call' \in [Attempt -> [at: {"idle", "set", "read"}, value: Nat]],
         answer' \in [value: Nat, durable: Nat]
  PROVE  CkInv'
<1>1. faults' # setup'.faults
  BY DEF TypeOK, HInv
<1> QED
  BY <1>1 DEF CkInv

\* The rate limiter's steps keep the checkpoint service's invariant.
LEMMA RateCkInv ==
  ASSUME TypeOK, TypeOK', HInv, CkInv, [Next]_vars, UNCHANGED ckvars
  PROVE  CkInv'
<1>1. /\ row' = row /\ cache' = cache /\ puts' = puts /\ attempt' = attempt
      /\ call' = call /\ answer' = answer
  BY DEF ckvars
<1>2. /\ setup' = setup /\ faults \in Nat
      /\ faults' = faults \/ (faults > 0 /\ faults' = faults - 1)
      /\ faults' = faults => \A e \in Engine : up'[e] = up[e] \/ (setup.redis /\ up'[e])
  BY ClientSteps
<1>3. CASE faults > 0 /\ faults' = faults - 1
  BY <1>1, <1>2, <1>3, FaultCkInv DEF CkInv
<1>4. CASE faults' = faults
  <2>1. ASSUME faults = setup.faults PROVE Undisturbed' /\ FreshCheckpoint'
    <3>1. Undisturbed /\ FreshCheckpoint
      BY <2>1 DEF CkInv
    <3>2. \A e \in Engine : up'[e] = setup'.redis
      <4>1. \A e \in Engine : up[e] = setup.redis /\ up[e] \in BOOLEAN
        BY <3>1 DEF Undisturbed, TypeOK
      <4>2. setup.redis \in BOOLEAN /\ \A e \in Engine : up'[e] = up[e] \/ (setup.redis /\ up'[e])
        BY <1>2, <1>4, RateAssumption DEF TypeOK
      <4>3. \A e \in Engine : up'[e] \in BOOLEAN
        BY DEF TypeOK
      <4> QED
        BY <1>2, <4>1, <4>2, ZenonT(60)
    <3>3. CacheCurrent'
      BY <1>1, <1>2, <1>4, <3>1 DEF Undisturbed, CacheCurrent
    <3> QED
      BY <1>1, <1>2, <1>4, <3>1, <3>2, <3>3 DEF Undisturbed, FreshCheckpoint
  <2> QED
    BY <1>1, <1>2, <1>4, <2>1 DEF CkInv
<1> QED
  BY <1>2, <1>3, <1>4

\* PutCheckpoint: the row first, then the copy.
LEMMA PutCkInv ==
  ASSUME TypeOK, HInv, CkInv, NEW a \in Attempt,
         put(a) \/ \E o \in {"ok", "down", "late"} : put_sets(a, o)
  PROVE  CkInv'
<1>0. /\ row \in Nat /\ cache \in Nat /\ puts = row /\ attempt \in Nat
      /\ call \in [Attempt -> [at: {"idle", "set", "read"}, value: Nat]]
      /\ answer \in [value: Nat, durable: Nat] /\ faults \in Nat
      /\ Quiet \in [at: {"idle", "set", "read"}, value: Nat]
      /\ Quiet.at = "idle"
  BY DEF CkInv, TypeOK, Quiet
<1>1. CASE put(a)
  <2>1. /\ a <= attempt /\ call[a] = Quiet /\ puts' = row + 1 /\ row' = row + 1
        /\ call' = [call EXCEPT ![a] = [at |-> "set", value |-> row + 1]]
        /\ cache' = cache /\ attempt' = attempt /\ answer' = answer /\ up' = up
        /\ faults' = faults /\ setup' = setup
    BY <1>0, <1>1 DEF put
  <2>2. ASSUME faults = setup.faults PROVE Undisturbed' /\ FreshCheckpoint'
    <3>0. Undisturbed /\ FreshCheckpoint
      BY <2>2 DEF CkInv
    <3>1. Undisturbed /\ FreshCheckpoint /\ a = 1
      <4>1. attempt = 1 /\ a \in Nat \ {0}
        BY <3>0, CkAssumption DEF Undisturbed
      <4> QED
        BY <2>1, <3>0, <4>1
    <3>2. \A b \in Attempt : b # a => call'[b] = Quiet
      BY <2>1, <3>1 DEF Undisturbed
    <3>3. call'[a].at = "set" /\ call'[a].value = row'
      BY <1>0, <2>1
    <3>4. CacheCurrent'
      BY <3>3 DEF CacheCurrent
    <3> QED
      BY <1>0, <2>1, <3>1, <3>4 DEF Undisturbed, FreshCheckpoint
  <2> QED
    BY <2>1, <2>2 DEF CkInv
<1>2. ASSUME NEW o \in {"ok", "down", "late"}, put_sets(a, o) PROVE CkInv'
  <2>1. /\ call[a].at = "set" /\ cache' = cached(call[a].value, o)
        /\ call' = [call EXCEPT ![a] = Quiet]
        /\ row' = row /\ puts' = puts /\ attempt' = attempt /\ answer' = answer
        /\ up' = up /\ setup' = setup
        /\ o = "down" => ~up[Home[a]] /\ faults' = faults
        /\ o = "ok" => faults' = faults
        /\ o = "late" => faults > 0 /\ faults' = faults - 1
    BY <1>2 DEF put_sets, redis_call, Fault
  <2>2. cache' \in Nat /\ call' \in [Attempt -> [at: {"idle", "set", "read"}, value: Nat]]
    BY <1>0, <2>1 DEF cached
  <2>3. CASE o = "late"
    BY <1>0, <2>1, <2>2, <2>3, FaultCkInv
  <2>4. CASE o # "late"
    <3>1. ASSUME faults = setup.faults PROVE Undisturbed' /\ FreshCheckpoint'
      <4>1. Undisturbed /\ FreshCheckpoint
        BY <3>1 DEF CkInv
      <4>2. \A b \in Attempt : call'[b] = Quiet
        BY <1>0, <2>1, <4>1 DEF Undisturbed
      <4>3. IF o = "down" THEN ~setup.redis /\ cache' = 0 ELSE up[Home[a]] /\ cache' = row
        BY <1>2, <4>1, CkAssumption DEF Undisturbed, cached, put_sets, redis_call
      <4>4. ~setup.redis => cache' = 0
        BY <4>1, <4>3, CkAssumption DEF Undisturbed
      <4>5. CacheCurrent'
        BY <2>1, <4>3 DEF CacheCurrent
      <4> QED
        BY <1>0, <2>1, <2>4, <4>1, <4>4, <4>5 DEF Undisturbed, FreshCheckpoint
    <3> QED
      BY <2>1, <2>2, <2>4, <3>1 DEF CkInv
  <2> QED
    BY <2>3, <2>4
<1> QED
  BY <1>1, <1>2

\* GetCheckpoint: what Redis has, or what the row has by the time it is read.
LEMMA GetCkInv ==
  ASSUME TypeOK, HInv, CkInv, NEW a \in Attempt,
         get_reads(a) \/ \E o \in {"ok", "down", "late"} : get(a, o)
  PROVE  CkInv'
<1>0. /\ row \in Nat /\ cache \in Nat /\ puts = row /\ attempt \in Nat
      /\ call \in [Attempt -> [at: {"idle", "set", "read"}, value: Nat]]
      /\ answer \in [value: Nat, durable: Nat] /\ faults \in Nat
      /\ Quiet \in [at: {"idle", "set", "read"}, value: Nat]
      /\ Quiet.at = "idle"
  BY DEF CkInv, TypeOK, Quiet
<1>1. CASE get_reads(a)
  <2>1. /\ call[a].at = "read" /\ answer' = [value |-> row, durable |-> call[a].value]
        /\ call' = [call EXCEPT ![a] = Quiet]
        /\ row' = row /\ cache' = cache /\ puts' = puts /\ attempt' = attempt
        /\ up' = up /\ faults' = faults /\ setup' = setup
    BY <1>1 DEF get_reads
  <2>2. /\ call' \in [Attempt -> [at: {"idle", "set", "read"}, value: Nat]]
        /\ answer' \in [value: Nat, durable: Nat]
    BY <1>0, <2>1
  <2>3. ASSUME faults = setup.faults PROVE Undisturbed' /\ FreshCheckpoint'
    <3>1. Undisturbed
      BY <2>3 DEF CkInv
    <3>2. \A b \in Attempt : call'[b] = Quiet /\ call[b].at # "set"
      BY <1>0, <2>1, <3>1 DEF Undisturbed
    <3>3. FreshCheckpoint'
      BY <2>1, <3>1 DEF Undisturbed, FreshCheckpoint
    <3>4. CacheCurrent'
      BY <2>1, <3>1 DEF Undisturbed, CacheCurrent
    <3> QED
      BY <1>0, <2>1, <3>1, <3>3, <3>4 DEF Undisturbed
  <2> QED
    BY <2>1, <2>2, <2>3 DEF CkInv
<1>2. ASSUME NEW o \in {"ok", "down", "late"}, get(a, o) PROVE CkInv'
  <2>1. /\ a <= attempt /\ call[a] = Quiet
        /\ row' = row /\ cache' = cache /\ puts' = puts /\ attempt' = attempt
        /\ up' = up /\ setup' = setup
        /\ o = "late" => faults > 0 /\ faults' = faults - 1
        /\ o # "late" => faults' = faults
    BY <1>2 DEF get, redis_call, Fault
  <2>2. \/ answer' = [value |-> cache, durable |-> row] /\ call' = call /\ cache # 0
        \/ answer' = answer /\ call' = [call EXCEPT ![a] = [at |-> "read", value |-> row]]
    BY <1>2 DEF get
  <2>3. /\ call' \in [Attempt -> [at: {"idle", "set", "read"}, value: Nat]]
        /\ answer' \in [value: Nat, durable: Nat]
    BY <1>0, <2>2
  <2>4. CASE o = "late"
    BY <1>0, <2>1, <2>3, <2>4, FaultCkInv
  <2>5. CASE o # "late"
    <3>1. ASSUME faults = setup.faults PROVE Undisturbed' /\ FreshCheckpoint'
      <4>0. Undisturbed /\ FreshCheckpoint
        BY <3>1 DEF CkInv
      <4>1. Undisturbed /\ FreshCheckpoint /\ a = 1
        <5>1. attempt = 1 /\ a \in Nat \ {0}
          BY <4>0, CkAssumption DEF Undisturbed
        <5> QED
          BY <2>1, <4>0, <5>1
      <4>2. \A b \in Attempt : call[b] = Quiet
        BY <2>1, <4>1, ZenonT(60) DEF Undisturbed
      <4>3. cache \in {0, row}
        BY <1>0, <3>1, <4>1, <4>2, ZenonT(60) DEF Undisturbed, CacheCurrent
      <4>4. \A b \in Attempt : call'[b] = Quiet \/ (b = 1 /\ call'[b] = [at |-> "read", value |-> row])
        BY <1>0, <2>2, <4>1, <4>2
      <4>5. FreshCheckpoint'
        <5>1. CASE answer' = [value |-> cache, durable |-> row] /\ cache # 0
          <6>1. answer'.value = row /\ answer'.durable = row
            BY <4>3, <5>1
          <6> QED
            BY <1>0, <6>1 DEF FreshCheckpoint
        <5>2. CASE answer' = answer
          BY <3>1, <4>1, <5>2 DEF FreshCheckpoint
        <5> QED
          BY <2>2, <5>1, <5>2
      <4>6. CacheCurrent'
        BY <2>1, <4>3 DEF CacheCurrent
      <4> QED
        BY <1>0, <2>1, <4>1, <4>4, <4>5, <4>6 DEF Undisturbed
    <3> QED
      BY <2>1, <2>3, <2>5, <3>1 DEF CkInv
  <2> QED
    BY <2>4, <2>5
<1> QED
  BY <1>1, <1>2

\* Every step of the checkpoint service keeps its invariant, and leaves the rate
\* limiter alone but for the faults that are left.
LEMMA CkSteps ==
  ASSUME TypeOK, HInv, CkInv, CkNext
  PROVE  /\ CkInv' /\ setup' = setup /\ up' = up
         /\ faults' = faults \/ (faults > 0 /\ faults' = faults - 1)
<1>0. /\ row \in Nat /\ cache \in Nat /\ puts = row /\ attempt \in Nat
      /\ call \in [Attempt -> [at: {"idle", "set", "read"}, value: Nat]]
      /\ answer \in [value: Nat, durable: Nat]
      /\ Quiet \in [at: {"idle", "set", "read"}, value: Nat]
  BY DEF CkInv, Quiet
<1>1. /\ setup' = setup /\ up' = up
      /\ faults' = faults \/ (faults > 0 /\ faults' = faults - 1)
  BY ZenonT(60)
  DEF CkNext, put, put_sets, get, get_reads, rpc_dies, reclaimed, cache_forgets, redis_call, Fault
<1>2. ASSUME (\E a \in Attempt : rpc_dies(a)) \/ reclaimed \/ cache_forgets
      PROVE  CkInv'
  <2>1. /\ faults > 0 /\ faults' = faults - 1 /\ row' = row /\ puts' = puts
        /\ answer' = answer
    BY <1>2 DEF rpc_dies, reclaimed, cache_forgets, Fault
  <2>2. /\ cache' \in Nat /\ attempt' \in Nat
        /\ call' \in [Attempt -> [at: {"idle", "set", "read"}, value: Nat]]
    BY <1>0, <1>2 DEF rpc_dies, reclaimed, cache_forgets
  <2> QED
    BY <1>0, <1>1, <2>1, <2>2, FaultCkInv
<1>3. CkInv'
  BY <1>2, PutCkInv, GetCkInv DEF CkNext
<1> QED
  BY <1>1, <1>3

\* No checkpoint at first.
LEMMA InitCkInv == ServicesInit => CkInv
<1> SUFFICES ASSUME ServicesInit PROVE CkInv
  OBVIOUS
<1>1. /\ row = 0 /\ cache = 0 /\ puts = 0 /\ attempt = 1
      /\ call = [a \in Attempt |-> Quiet] /\ answer = [value |-> 0, durable |-> 0]
      /\ up = [e \in Engine |-> setup.redis]
  BY DEF ServicesInit, CkInit, Init, ClientInit
<1>2. Quiet \in [at: {"idle", "set", "read"}, value: Nat] /\ Quiet.at = "idle"
  BY DEF Quiet
<1>3. Undisturbed /\ FreshCheckpoint
  BY <1>1, <1>2 DEF Undisturbed, FreshCheckpoint, CacheCurrent
<1> QED
  BY <1>1, <1>2, <1>3 DEF CkInv

\* The two services keep their invariants while they share one Redis client.
THEOREM ServicesInvariance == ServicesSpec => []SInv
<1>1. ServicesInit => SInv
  BY Starts, InitHInv, InitCkInv DEF ServicesInit, SInv
<1>2. SInv /\ [ServicesNext]_<<vars, ckvars>> => SInv'
  <2> SUFFICES ASSUME SInv, [ServicesNext]_<<vars, ckvars>> PROVE SInv'
    OBVIOUS
  <2>0. IInv /\ TypeOK /\ CachedIsConfigured /\ TakenIsConfigured /\ Conserved /\ HInv /\ CkInv
    BY DEF SInv, IInv
  <2>1. ASSUME [Next]_vars, UNCHANGED ckvars PROVE SInv'
    <3>1. IInv' /\ TypeOK'
      BY <2>0, <2>1, Preserved DEF IInv
    <3>2. HInv' /\ CkInv'
      BY <2>0, <2>1, <3>1, NextHInv, RateCkInv
    <3> QED
      BY <3>1, <3>2 DEF SInv
  <2>2. ASSUME CkNext, UNCHANGED ratevars PROVE SInv'
    <3>1. /\ CkInv' /\ setup' = setup /\ up' = up
          /\ faults' = faults \/ (faults > 0 /\ faults' = faults - 1)
      BY <2>0, <2>2, CkSteps
    <3>2. TypeOK'
      BY <2>0, <2>2, <3>1 DEF TypeOK, ratevars
    <3>3. CachedIsConfigured'
      BY <2>0, <2>2, ZenonT(60) DEF CachedIsConfigured, ratevars
    <3>4. Conserved' /\ TakenIsConfigured'
      BY <2>0, <2>2, QuietConserved, TakenKept DEF ratevars
    <3>5. HInv'
      <4>1. pass' = pass /\ drawn' = drawn /\ started' = started
        BY <2>2 DEF ratevars
      <4>2. faults \in Nat /\ faults' <= faults
        BY <2>0, <3>1 DEF TypeOK
      <4> QED
        BY <2>0, <3>1, <3>2, <4>1, <4>2, CalmHInv
    <3> QED
      BY <3>1, <3>2, <3>3, <3>4, <3>5 DEF SInv, IInv
  <2> QED
    BY <2>1, <2>2 DEF ServicesNext, vars, ckvars
<1> QED
  BY <1>1, <1>2, PTL DEF ServicesSpec

\* However the engines of a cluster fail over between Redis and Postgres, with
\* stale caches and edits under way, statements that wait for the row of a class
\* with an old now(), and the checkpoint service on the same Redis client, the
\* tokens out of a class never exceed what the buckets held and were refilled
\* with, plus what minted names: among it what such a statement mints when it
\* sets a later stamp back (rate_take_pg.sql:33).
THEOREM RateBounded == ServicesSpec => []RateBound
<1>1. SInv => RateBound
  BY BoundFromAccount DEF SInv
<1> QED
  BY <1>1, ServicesInvariance, PTL

\* While nothing has failed, every token that is out when the passes sleep bought
\* the start of a job, whatever the passes of other engines did in between
\* (_reserve_rate_tokens, claim, _return_unused_tokens).
THEOREM TokensBuyJobs == ServicesSpec => []NothingWasted
<1>1. SInv => NothingWasted
  <2> SUFFICES ASSUME SInv, faults = setup.faults,
                      \A e \in Engine : pass[e].at = "sleep",
                      NEW c \in Class
               PROVE  drawn[c] <= started[c]
    BY DEF NothingWasted
  <2>1. TypeOK /\ HInv
    BY DEF SInv, IInv
  <2> DEFINE r == [e \in Engine |-> pass[e].reserved[c]]
  <2>2. \A e \in Engine : pass[e].reserved[c] = 0
    BY <2>1 DEF HInv, HeldPass
  <2>3. \A e \in Engine : r[e] = 0
    BY <2>2, ZenonT(60)
  <2>4. Holding(c) = Held(r)
    BY ZenonT(60) DEF Holding
  <2> HIDE DEF r
  <2>5. Holding(c) = {}
    BY <2>3, <2>4 DEF Held
  <2>6. drawn[c] <= started[c] + Cardinality({})
    BY <2>1, <2>5 DEF HInv, Accounted
  <2> QED
    BY <2>1, <2>6, FS_EmptySet DEF TypeOK
<1> QED
  BY <1>1, ServicesInvariance, PTL

\* While nothing has failed, GetCheckpoint answers with nothing older than the
\* checkpoint that was durable when it was asked, for any number of puts and gets
\* and with a Redis or without (CheckpointService.put, get).
THEOREM CheckpointsAreFresh == ServicesSpec => []FreshCheckpoint
<1>1. SInv => FreshCheckpoint
  BY DEF SInv, CkInv, FreshCheckpoint
<1> QED
  BY <1>1, ServicesInvariance, PTL
=============================================================================
