-------------------------- MODULE RateLimiterProofs --------------------------
(***************************************************************************)
(* The rate limiter spends no more than its buckets hold and are refilled  *)
(* with, for any engines, classes, configurations and clocks.  RateBound   *)
(* is not inductive: how much may still be drawn depends on what the two   *)
(* buckets hold, so the proof carries Conserved, which adds the potential  *)
(* of the buckets to the tokens that are out.                              *)
(***************************************************************************)
EXTENDS RateLimiter, TLAPS

\* What the provers may take for a step that does not say otherwise.
USE SMTT(60), ZenonT(60)

(***************************************************************************)
(* What one call does to one bucket, the inductive invariant, that it      *)
(* holds at first, and that the steps which move no token keep it.         *)
(***************************************************************************)

\* Products with a rate are beyond the solvers' linear arithmetic: these few
\* facts are all that the proofs need of them.
LEMMA TimesMinus == \A r, a, b \in Int : r * (a - b) = r * a - r * b
  OBVIOUS
\* A product with a sum.
LEMMA TimesPlus == \A r, a, b \in Int : r * (a + b) = r * a + r * b
  OBVIOUS
\* A product with a larger factor is larger.
LEMMA TimesMono ==
  ASSUME NEW r \in Nat, NEW a \in Int, NEW b \in Int, a <= b
  PROVE  r * a <= r * b
  OBVIOUS
\* A product of naturals.
LEMMA TimesNat == \A r, a \in Nat : r * a \in Nat
  OBVIOUS
\* A product of integers.
LEMMA TimesInt == \A r, a \in Int : r * a \in Int
  OBVIOUS

\* Granting takes whole tokens that are there, and no more than were wanted
\* (the floor in _LUA_REFILL_TAKE and rate_take_pg.sql).
LEMMA GrantedFits ==
  ASSUME NEW units \in Nat, NEW want \in Nat
  PROVE  /\ Granted(units, want) \in 0..want
         /\ Unit * Granted(units, want) \in Nat
         /\ Unit * Granted(units, want) <= units
<1> DEFINE q == units \div Unit
           g == Granted(units, want)
<1>1. Unit \in Nat /\ Unit > 0
  BY RateAssumption
<1>2. q \in Nat /\ Unit * q <= units
  BY <1>1
<1>3. g \in Nat /\ g <= q /\ g <= want
  BY <1>2 DEF Granted, Least
<1>4. Unit * g <= Unit * q
  BY <1>1, <1>3
<1>5. Unit * g \in Nat /\ Unit * q \in Nat
  BY <1>1, <1>3
<1> QED
  BY <1>2, <1>3, <1>4, <1>5

\* A balance below zero is granted its floor, and what is left is less than a
\* token (the floor in rate_take_pg.sql).
LEMMA GrantedBelow ==
  ASSUME NEW units \in Int, units < 0, NEW want \in Nat
  PROVE  /\ Granted(units, want) \in Int /\ Granted(units, want) < 0
         /\ Unit * Granted(units, want) \in Int
         /\ units - Unit * Granted(units, want) \in 0..Unit
<1> DEFINE q == units \div Unit
           u == Unit * q
<1>1. Unit \in Nat /\ Unit > 0
  BY RateAssumption
<1>2. q \in Int /\ u <= units /\ units - u < Unit /\ u \in Int
  BY <1>1
<1>3. q < 0
  BY <1>1, <1>2
<1>4. Granted(units, want) = q
  BY <1>2, <1>3 DEF Granted, Least
<1> HIDE DEF u
<1>5. units - u \in 0..Unit
  BY <1>1, <1>2
<1> QED
  BY <1>2, <1>3, <1>4, <1>5 DEF u

\* A refill keeps to the capacity and adds at most MaxRefill for every tick.
LEMMA RefilledFits ==
  ASSUME NEW k \in Config, NEW tokens \in Nat, NEW elapsed \in Nat
  PROVE  /\ Refilled(k, tokens, elapsed) \in 0..MaxCapacity
         /\ Refilled(k, tokens, elapsed) <= tokens + MaxRefill * elapsed
<1>1. k.capacity \in 0..MaxCapacity /\ k.refill \in 0..MaxRefill /\ MaxCapacity \in Nat /\ MaxRefill \in Nat
  BY RateAssumption, ZenonT(60)
<1>2. elapsed * k.refill \in Nat /\ MaxRefill * elapsed \in Nat
  BY <1>1
<1>3. elapsed * k.refill <= elapsed * MaxRefill
  BY <1>1
<1>4. elapsed * MaxRefill = MaxRefill * elapsed
  BY <1>1
<1> QED
  BY <1>1 DEF Refilled, Least

\* An engine's clock is never ahead of Postgres and at most MaxSkew behind.
LEMMA ClockBehind ==
  ASSUME TypeOK, NEW e \in Engine
  PROVE  clock(e) \in 0..now /\ now - clock(e) <= MaxSkew /\ now - clock(e) \in Nat
<1>1. setup.skew[e] \in 0..MaxSkew /\ MaxSkew \in Nat
  BY RateAssumption DEF TypeOK
<1>2. now \in Nat
  BY DEF TypeOK
<1> QED
  BY <1>1, <1>2 DEF clock

\* What the Lua script leaves in a bucket and what it granted: nothing is made,
\* except by moving the stamp back.
LEMMA LuaTake ==
  ASSUME TypeOK, NEW e \in Engine, NEW c \in Class, cfg[e][c] \in Config, NEW want \in Nat
  PROVE  LET left == lua_refilled(e, c) - Unit * Granted(lua_refilled(e, c), want) IN
         /\ left \in 0..MaxCapacity
         /\ Granted(lua_refilled(e, c), want) \in 0..want
         /\ rewound(e, c) \in Nat
         /\ left + MaxRefill * (now - clock(e)) + Unit * Granted(lua_refilled(e, c), want)
              <= RedisPotential(c) + rewound(e, c)
<1> DEFINE b == bucket[c]
           l == lua_refilled(e, c)
           g == Granted(l, want)
           t == clock(e)
<1>0. MaxRefill \in Nat /\ MaxCapacity \in Nat /\ MaxSkew \in Nat /\ now \in Nat
  BY RateAssumption DEF TypeOK
<1>1. t \in 0..now /\ now - t <= MaxSkew /\ now - t \in Nat
  BY ClockBehind
<1>2. b.tokens \in 0..MaxCapacity /\ b.ts \in 0..now /\ b.live \in BOOLEAN
  BY DEF TypeOK
<1>3. cfg[e][c].capacity \in 0..MaxCapacity
  BY RateAssumption, ZenonT(60)
<1>4. l \in 0..MaxCapacity
      /\ (~b.live => l = cfg[e][c].capacity)
      /\ (b.live => l <= b.tokens + MaxRefill * Elapsed(b.ts, t))
  <2>1. Elapsed(b.ts, t) \in Nat
    BY <1>1, <1>2 DEF Elapsed
  <2>2. Refilled(cfg[e][c], b.tokens, Elapsed(b.ts, t)) \in 0..MaxCapacity
        /\ Refilled(cfg[e][c], b.tokens, Elapsed(b.ts, t)) <= b.tokens + MaxRefill * Elapsed(b.ts, t)
    <3>1. b.tokens \in Nat
      BY <1>2
    <3> QED
      BY ONLY <2>1, <3>1, RefilledFits, cfg[e][c] \in Config, ZenonT(60)
  <2> QED
    BY <2>2, <1>3 DEF lua_refilled
<1>5. g \in 0..want /\ Unit * g \in Nat /\ Unit * g <= l
  <2>1. l \in Nat
    BY <1>4
  <2> QED
    BY ONLY <2>1, GrantedFits, want \in Nat, ZenonT(60)
<1>6. Elapsed(t, b.ts) \in Nat /\ Elapsed(b.ts, t) \in Nat
      /\ Elapsed(b.ts, t) - Elapsed(t, b.ts) = t - b.ts
  BY <1>1, <1>2 DEF Elapsed
<1>7. MaxRefill * Elapsed(t, b.ts) \in Nat /\ MaxRefill * Elapsed(b.ts, t) \in Nat
      /\ MaxRefill * (now - t) \in Nat /\ MaxRefill * (now - b.ts) \in Int
      /\ MaxRefill * MaxSkew \in Nat
  BY <1>0, <1>1, <1>2, <1>6
<1>8. rewound(e, c) \in Nat
  BY <1>7 DEF rewound
<1>9. l + MaxRefill * (now - t) <= RedisPotential(c) + rewound(e, c)
  <2>1. CASE b.live
    <3>1. MaxRefill * Elapsed(b.ts, t) - MaxRefill * Elapsed(t, b.ts) = MaxRefill * t - MaxRefill * b.ts
      <4>1. MaxRefill * (Elapsed(b.ts, t) - Elapsed(t, b.ts)) = MaxRefill * (t - b.ts)
        BY <1>6
      <4>2. MaxRefill * (t - b.ts) = MaxRefill * t - MaxRefill * b.ts
        BY <1>0, <1>1, <1>2
      <4>3. MaxRefill * (Elapsed(b.ts, t) - Elapsed(t, b.ts))
             = MaxRefill * Elapsed(b.ts, t) - MaxRefill * Elapsed(t, b.ts)
        BY <1>0, <1>6
      <4> QED
        BY <4>1, <4>2, <4>3
    <3>2. MaxRefill * (now - t) = MaxRefill * now - MaxRefill * t
          /\ MaxRefill * (now - b.ts) = MaxRefill * now - MaxRefill * b.ts
      BY <1>0, <1>1, <1>2
    <3>3. MaxRefill * now \in Int /\ MaxRefill * t \in Int /\ MaxRefill * b.ts \in Int
      BY <1>0, <1>1, <1>2
    <3>4. RedisPotential(c) = b.tokens + MaxRefill * (now - b.ts)
          /\ rewound(e, c) = MaxRefill * Elapsed(t, b.ts)
      BY <2>1 DEF RedisPotential, rewound
    <3> HIDE DEF l, t, b
    <3> QED
      BY <1>2, <1>4, <1>7, <2>1, <3>1, <3>2, <3>3, <3>4
  <2>2. CASE ~b.live
    <3>1. MaxRefill * (now - t) <= MaxRefill * MaxSkew
      BY <1>0, <1>1
    <3>2. RedisPotential(c) = MaxCapacity + MaxRefill * MaxSkew
      BY <2>2 DEF RedisPotential
    <3> QED
      BY <1>0, <1>4, <1>7, <1>8, <3>1, <3>2
  <2> QED
    BY <2>1, <2>2
<1>10. RedisPotential(c) \in Int
  BY <1>2, <1>0 DEF RedisPotential
<1> HIDE DEF l, g, t, b
<1>11. l - Unit * g \in 0..MaxCapacity
  BY <1>0, <1>4, <1>5
<1>12. l - Unit * g + MaxRefill * (now - t) + Unit * g <= RedisPotential(c) + rewound(e, c)
  BY <1>4, <1>5, <1>7, <1>9
<1> QED
  BY <1>5, <1>8, <1>11, <1>12 DEF l, g, t

\* The same for rate_take_pg.sql and the UPDATE of drain, whose now() is t: what
\* they make is what pg_set_back and pg_rounded_up name.
LEMMA PgRefill ==
  ASSUME TypeOK, NEW c \in Class, table[c].cfg \in Config, NEW t \in 0..now
  PROVE  /\ pg_refilled(c, t) \in Int /\ pg_refilled(c, t) <= MaxCapacity
         /\ pg_set_back(c, t, table[c].cfg.refill) \in Nat
         /\ pg_refilled(c, t) + MaxRefill * (now - t)
              <= PgPotential(c) + pg_set_back(c, t, table[c].cfg.refill)
         /\ pg_set_back(c, t, 0) \in Nat
         /\ MaxRefill * (now - t) <= PgPotential(c) + pg_set_back(c, t, 0)
<1> DEFINE r == table[c]
           at == r.refilled_at
           k == r.cfg.refill
           M == MaxRefill
           b == Elapsed(t, at)
<1>0. M \in Nat /\ MaxCapacity \in Nat /\ now \in Nat /\ t \in Nat /\ t <= now /\ Unit \in Nat
  BY RateAssumption DEF TypeOK
<1>1. r.tokens \in Nat /\ at \in 0..now
  BY <1>0 DEF TypeOK
<1>2. r.cfg.known = TRUE /\ r.cfg.capacity \in 0..MaxCapacity /\ k \in 0..M
  BY RateAssumption, ZenonT(60)
<1>3. b \in Nat
  BY <1>0, <1>1 DEF Elapsed
<1>4. pg_refilled(c, t) \in Int /\ pg_refilled(c, t) <= MaxCapacity
      /\ pg_refilled(c, t) <= r.tokens + (t - at) * k
  <2>1. (t - at) * k \in Int
    BY <1>0, <1>1, <1>2
  <2> DEFINE x == (t - at) * k
  <2>2. pg_refilled(c, t) = Least(r.cfg.capacity, r.tokens + x) /\ x \in Int
    BY <2>1 DEF pg_refilled, Refilled
  <2> HIDE DEF x
  <2>3. pg_refilled(c, t) \in Int /\ pg_refilled(c, t) <= MaxCapacity /\ pg_refilled(c, t) <= r.tokens + x
    BY <1>0, <1>1, <1>2, <2>2 DEF Least
  <2> QED
    BY <2>3 DEF x
<1>5. PgPotential(c) = r.tokens + M * (now - at) /\ M * (now - at) \in Nat /\ M * (now - t) \in Nat
  <2>1. now - at \in Nat /\ now - t \in Nat
    BY <1>0, <1>1
  <2> QED
    BY <1>0, <1>2, <2>1 DEF PgPotential
<1>6. pg_set_back(c, t, k) = (M - k) * b /\ pg_set_back(c, t, 0) = M * b
      /\ (M - k) * b \in Nat /\ M * b \in Nat
  <2>1. M - k \in Nat /\ M - 0 = M
    BY <1>0, <1>2
  <2> QED
    BY <1>0, <1>3, <2>1 DEF pg_set_back
<1>7. (t - at) * k + M * (now - t) <= M * (now - at) + (M - k) * b
      /\ M * (now - t) <= M * (now - at) + M * b
  <2>1. CASE at <= t
    <3>1. b = 0 /\ t - at \in Nat
      BY <1>0, <1>1, <2>1 DEF Elapsed
    <3>2. (t - at) * k <= (t - at) * M
      BY <1>0, <1>2, <3>1
    <3>3. (t - at) * M + M * (now - t) = M * (now - at)
      BY <1>0, <1>1
    <3>4. (M - k) * b = 0 /\ M * b = 0
      BY <1>0, <1>2, <3>1
    <3>5. (t - at) * M \in Nat /\ (t - at) * k \in Nat
      BY <1>0, <1>2, <3>1
    <3> DEFINE x == (t - at) * k
               y == (t - at) * M
               z == M * (now - t)
               v == M * (now - at)
    <3>6. x <= y /\ y + z = v /\ x \in Nat /\ y \in Nat /\ z \in Nat /\ v \in Nat
      BY <1>5, <3>2, <3>3, <3>5
    <3> HIDE DEF x, y, z, v
    <3>7. x + z <= v + 0 /\ z <= v + 0
      BY <3>6
    <3> QED
      BY <3>4, <3>7 DEF x, z, v
  <2>2. CASE t < at
    <3>1. b = at - t
      BY <1>0, <1>1, <2>2 DEF Elapsed
    <3>2. (t - at) * k + M * (now - t) = M * (now - at) + (M - k) * (at - t)
      <4>1. (M - k) * (at - t) = M * (at - t) - k * (at - t) /\ (t - at) * k = 0 - k * (at - t)
        BY <1>0, <1>1, <1>2
      <4>2. M * (now - t) = M * (now - at) + M * (at - t)
        BY <1>0, <1>1
      <4>3. k * (at - t) \in Int /\ M * (at - t) \in Int
        BY <1>0, <1>1, <1>2
      <4> DEFINE f == k * (at - t)
                 h == M * (at - t)
                 v == M * (now - at)
      <4>4. (M - k) * (at - t) = h - f /\ (t - at) * k = 0 - f /\ M * (now - t) = v + h
            /\ f \in Int /\ h \in Int /\ v \in Nat
        BY <1>5, <4>1, <4>2, <4>3
      <4> HIDE DEF f, h, v
      <4>5. (0 - f) + (v + h) = v + (h - f)
        BY <4>4
      <4> QED
        BY <4>4, <4>5 DEF v
    <3>3. M * (now - t) = M * (now - at) + M * (at - t)
      BY <1>0, <1>1
    <3>4. (t - at) * k \in Int
      BY <1>0, <1>1, <1>2
    <3> DEFINE x == (t - at) * k
               z == M * (now - t)
               v == M * (now - at)
               w == (M - k) * (at - t)
               u == M * (at - t)
    <3>5. x + z = v + w /\ z = v + u /\ x \in Int /\ z \in Nat /\ v \in Nat /\ w \in Nat /\ u \in Nat
          /\ w = (M - k) * b /\ u = M * b
      BY <1>5, <1>6, <3>1, <3>2, <3>3, <3>4
    <3> HIDE DEF x, z, v, w, u
    <3>6. x + z <= v + w /\ z <= v + u
      BY <3>5
    <3> QED
      BY <3>5, <3>6 DEF x, z, v
  <2> QED
    BY <1>0, <1>1, <2>1, <2>2
<1> DEFINE x == (t - at) * k
           z == M * (now - t)
           v == M * (now - at)
           sk == pg_set_back(c, t, k)
           s0 == pg_set_back(c, t, 0)
           l == pg_refilled(c, t)
<1>8. /\ l \in Int /\ l <= r.tokens + x /\ x + z <= v + sk /\ z <= v + s0
      /\ PgPotential(c) = r.tokens + v /\ sk \in Nat /\ s0 \in Nat /\ z \in Nat /\ v \in Nat
      /\ x \in Int
  <2>1. x \in Int
    BY <1>0, <1>1, <1>2
  <2> QED
    BY <1>4, <1>5, <1>6, <1>7, <2>1
<1> HIDE DEF x, z, v, sk, s0, l
<1>9. l + z <= PgPotential(c) + sk /\ z <= PgPotential(c) + s0
  BY <1>1, <1>8
<1> QED
  BY <1>4, <1>8, <1>9 DEF l, z, sk, s0

\* What rate_take_pg.sql leaves in the row, what it granted and what it made.
LEMMA PgTake ==
  ASSUME TypeOK, NEW c \in Class, table[c].cfg \in Config, NEW want \in Nat, NEW t \in 0..now
  PROVE  LET g == pg_granted(c, t, want) IN
         /\ pg_refilled(c, t) - Unit * g \in 0..(MaxCapacity + Unit)
         /\ g \in Int /\ Tokens(g) \in Nat /\ Unit * Tokens(g) \in Nat
         /\ pg_minted(c, t, want) \in Nat
         /\ pg_refilled(c, t) - Unit * g + MaxRefill * (now - t) + Unit * Tokens(g)
              <= PgPotential(c) + pg_minted(c, t, want)
<1> DEFINE l == pg_refilled(c, t)
           g == pg_granted(c, t, want)
           sk == pg_set_back(c, t, table[c].cfg.refill)
           z == MaxRefill * (now - t)
           ug == Unit * g
           ut == Unit * Tokens(g)
           up_ == pg_rounded_up(g)
<1>0. MaxRefill \in Nat /\ MaxCapacity \in Nat /\ now \in Nat /\ Unit \in Nat
  BY RateAssumption DEF TypeOK
<1>1. l \in Int /\ l <= MaxCapacity /\ sk \in Nat /\ l + z <= PgPotential(c) + sk
  BY PgRefill
<1>2. z \in Nat /\ PgPotential(c) \in Nat
  <2>1. now - t \in Nat /\ now - table[c].refilled_at \in Nat /\ table[c].tokens \in Nat
    BY <1>0 DEF TypeOK
  <2> QED
    BY <1>0, <2>1 DEF PgPotential
<1>3. g = Granted(l, want) /\ pg_minted(c, t, want) = sk + up_
  BY DEF pg_granted, pg_minted
<1>4. /\ g \in Int /\ Tokens(g) \in Nat /\ ug \in Int /\ ut \in Nat /\ up_ \in Nat
      /\ l - ug \in 0..(MaxCapacity + Unit) /\ ut - ug = up_
  <2>1. CASE l >= 0
    <3>1. l \in Nat
      BY <1>1, <2>1
    <3>2. g \in 0..want /\ ug \in Nat /\ ug <= l
      BY ONLY <1>3, <3>1, GrantedFits, want \in Nat, ZenonT(60)
    <3>3. Tokens(g) = g /\ up_ = 0
      BY <3>2 DEF Tokens, pg_rounded_up
    <3>4. ut = ug
      BY <3>3
    <3> HIDE DEF l, g, ug, ut, up_
    <3> QED
      BY <1>0, <1>1, <3>1, <3>2, <3>3, <3>4
  <2>2. CASE l < 0
    <3>1. g \in Int /\ g < 0 /\ ug \in Int /\ l - ug \in 0..Unit
      BY ONLY <1>1, <1>3, <2>2, GrantedBelow, want \in Nat, ZenonT(60)
    <3>2. Tokens(g) = 0 /\ up_ = 0 - ug
      BY <3>1 DEF Tokens, pg_rounded_up
    <3>3. ut = 0
      BY <1>0, <3>2
    <3> HIDE DEF l, g, ug, ut, up_
    <3>4. 0 - ug \in Nat
      BY <1>0, <1>1, <2>2, <3>1
    <3> QED
      BY <1>0, <1>1, <3>1, <3>2, <3>3, <3>4
  <2> QED
    BY <1>1, <2>1, <2>2
<1> HIDE DEF l, g, sk, z, ug, ut, up_
<1>5. sk + up_ \in Nat /\ l - ug + z + ut <= PgPotential(c) + (sk + up_)
  BY <1>1, <1>2, <1>4
<1> QED
  BY <1>3, <1>4, <1>5 DEF l, g, z, ug, ut

\* A return keeps to the capacity and adds at most what is given back
\* (_LUA_RETURN, rate_return_pg.sql).
LEMMA ReturnFits ==
  ASSUME NEW k \in Config, NEW tokens \in Nat, NEW give \in Nat
  PROVE  /\ Least(k.capacity, tokens + Unit * give) \in 0..MaxCapacity
         /\ Least(k.capacity, tokens + Unit * give) <= tokens + Unit * give
         /\ Unit * give \in Nat
<1>1. k.capacity \in 0..MaxCapacity /\ MaxCapacity \in Nat /\ Unit \in Nat
  BY RateAssumption, ZenonT(60)
<1>2. Unit * give \in Nat
  BY <1>1
<1> QED
  BY <1>1 DEF Least

-----------------------------------------------------------------------------
\* An engine knows only classes that are configured: none is ever deleted.
CachedIsConfigured ==
    \A c \in Class : ~table[c].cfg.known =>
        \A e \in Engine : ~cfg[e][c].known /\ ~load[e].rows[c].known /\ ~edit[e][c].known

\* Statements on their way to Postgres find the row of their class.
TakenIsConfigured ==
    /\ \A e \in Engine : \A c \in pass[e].taking : table[c].cfg.known
    /\ \A s \in statements : table[s.class].cfg.known

IInv == TypeOK /\ CachedIsConfigured /\ TakenIsConfigured /\ Conserved

\* A known configuration is one an operator set.
LEMMA KnownIsConfig ==
  ASSUME NEW k \in Config \cup {Unknown}
  PROVE  /\ k.known \in BOOLEAN
         /\ k.known <=> k \in Config
         /\ k.capacity \in 0..MaxCapacity
<1>1. CASE k \in Config
  BY <1>1, RateAssumption, ZenonT(60)
<1>2. CASE k = Unknown
  <2>1. k.known = FALSE /\ k.capacity = 0 /\ 0 \in 0..MaxCapacity
    BY <1>2, RateAssumption DEF Unknown
  <2>2. k \notin Config
    BY <2>1, RateAssumption, ZenonT(60)
  <2> QED
    BY <2>1, <2>2, ZenonT(60)
<1> QED
  BY <1>1, <1>2

\* Everything in the accounts is an integer.
LEMMA Sums ==
  ASSUME TypeOK
  PROVE  /\ Budget \in Nat
         /\ \A c \in Class : /\ RedisPotential(c) \in Nat /\ PgPotential(c) \in Nat
                             /\ Unit * drawn[c] \in Int /\ minted[c] \in Nat
<1>0. MaxRefill \in Nat /\ MaxCapacity \in Nat /\ MaxSkew \in Nat /\ now \in Nat /\ Unit \in Nat
  BY RateAssumption DEF TypeOK
<1>1. MaxRefill * MaxSkew \in Nat /\ MaxRefill * now \in Nat
  BY <1>0
<1>2. Budget \in Nat
  BY <1>0 DEF Budget
<1>3. ASSUME NEW c \in Class
      PROVE  /\ RedisPotential(c) \in Nat /\ PgPotential(c) \in Nat
             /\ Unit * drawn[c] \in Int /\ minted[c] \in Nat
  <2>1. /\ bucket[c].tokens \in 0..MaxCapacity /\ now - bucket[c].ts \in Nat
        /\ table[c].tokens \in Nat /\ now - table[c].refilled_at \in Nat
        /\ drawn[c] \in Int /\ minted[c] \in Nat
    BY <1>0 DEF TypeOK
  <2>2. MaxRefill * (now - bucket[c].ts) \in Nat /\ MaxRefill * (now - table[c].refilled_at) \in Nat
        /\ Unit * drawn[c] \in Int
    BY <1>0, <2>1
  <2> QED
    BY <1>0, <2>1 DEF RedisPotential, PgPotential
<1> QED
  BY <1>2, <1>3

\* The initial states.
LEMMA Starts == Init => IInv
<1> SUFFICES ASSUME Init PROVE IInv
  OBVIOUS
<1>0. MaxRefill \in Nat /\ MaxCapacity \in Nat /\ MaxSkew \in Nat /\ Unit \in Nat /\ Limit \in Nat
  BY RateAssumption
<1>1. setup \in Setup /\ setup.rates \in [Class -> Config \cup {Unknown}] /\ setup.redis \in BOOLEAN
      /\ setup.faults \in Nat /\ setup.edits \in Nat /\ setup.passes \in [Engine -> Nat]
  BY RateAssumption DEF Init, ClientInit
<1>2. \A c \in Class : setup.rates[c].capacity \in 0..MaxCapacity
  BY <1>1, KnownIsConfig
<1>3. None \in [Class -> Nat] /\ Sleeping \in PassType
  BY <1>0 DEF None, Sleeping, PassType
<1>4. TypeOK
  BY <1>0, <1>1, <1>2, <1>3
  DEF Init, ClientInit, TypeOK, new_row, Absent, NoLoad, NoEdit, None
<1>5. CachedIsConfigured
  BY DEF Init, CachedIsConfigured, new_row, NoLoad, NoEdit, Unknown
<1>6. Conserved
  <2> SUFFICES ASSUME NEW c \in Class
               PROVE  RedisPotential(c) + PgPotential(c) + Unit * drawn[c] <= Budget + minted[c]
    BY DEF Conserved
  <2>1. drawn[c] = 0 /\ minted[c] = 0 /\ now = 0 /\ bucket[c].live = FALSE
        /\ table[c].refilled_at = 0 /\ table[c].tokens = setup.rates[c].capacity
    BY DEF Init, None, Absent, new_row
  <2>2. PgPotential(c) <= MaxCapacity /\ PgPotential(c) \in Int
    BY <1>0, <1>2, <2>1 DEF PgPotential
  <2>3. RedisPotential(c) = MaxCapacity + MaxRefill * MaxSkew
    BY <2>1 DEF RedisPotential
  <2>4. Budget = 2 * MaxCapacity + MaxRefill * MaxSkew /\ Unit * drawn[c] = 0
    BY <1>0, <2>1 DEF Budget
  <2>5. MaxRefill * MaxSkew \in Nat
    BY <1>0
  <2> QED
    BY <1>0, <2>1, <2>2, <2>3, <2>4
<1>7. TakenIsConfigured
  BY DEF Init, TakenIsConfigured, Sleeping
<1> QED
  BY <1>4, <1>5, <1>6, <1>7 DEF IInv

-----------------------------------------------------------------------------
(***************************************************************************)
(* Steps that leave the accounts alone.                                    *)
(***************************************************************************)
LEMMA QuietConserved ==
  ASSUME Conserved, UNCHANGED <<now, table, bucket, drawn, minted>>
  PROVE  Conserved'
  BY DEF Conserved, RedisPotential, PgPotential, Budget

\* A step that sends no statement and deletes no row.
LEMMA TakenKept ==
  ASSUME TypeOK, TakenIsConfigured,
         \A c \in Class : table[c].cfg.known => table'[c].cfg.known,
         \A f \in Engine : pass'[f].taking \subseteq pass[f].taking,
         statements' \subseteq statements
  PROVE  TakenIsConfigured'
<1>1. \A f \in Engine : pass[f].taking \subseteq Class
  BY DEF TypeOK, PassType
<1>2. \A s \in statements : s.class \in Class
  BY DEF TypeOK, StatementType
<1> QED
  BY <1>1, <1>2 DEF TakenIsConfigured

\* The types of the local variables of a pass.
LEMMA PassTypes ==
  ASSUME TypeOK, NEW e \in Engine
  PROVE  /\ pass[e] \in PassType /\ pass[e].limit \in 0..Limit /\ pass[e].limit \in Nat
         /\ pass[e].reserved \in [Class -> Nat]
         /\ pass[e].taking \subseteq Class /\ pass[e].since \in Nat
         /\ Limit \in Nat /\ Limit > 0
         /\ Sleeping \in PassType /\ None \in [Class -> Nat]
<1>1. Limit \in Nat /\ Limit > 0
  BY RateAssumption
<1> QED
  BY <1>1 DEF TypeOK, PassType, Sleeping, None

\* One engine's pass moves on and sends no statement.
LEMMA PassMoved ==
  ASSUME TypeOK, TakenIsConfigured, NEW e \in Engine, NEW p \in PassType,
         p.taking \subseteq pass[e].taking, pass' = [pass EXCEPT ![e] = p],
         \A c \in Class : table'[c].cfg = table[c].cfg, statements' \subseteq statements
  PROVE  pass' \in [Engine -> PassType] /\ TakenIsConfigured'
<1>1. pass \in [Engine -> PassType]
  BY DEF TypeOK
<1>2. pass' \in [Engine -> PassType] /\ \A f \in Engine : pass'[f].taking \subseteq pass[f].taking
  BY <1>1
<1> QED
  BY <1>2, TakenKept

\* Steps that only move a pass along.
LEMMA PassStep ==
  ASSUME IInv, NEW e \in Engine,
         \/ \E limit \in 1..Limit : peek(e, limit)
         \/ pass_ends(e)
         \/ pass_fails(e)
  PROVE  IInv'
<1>1. TypeOK /\ CachedIsConfigured /\ Conserved
  BY DEF IInv
<1>2. pass' \in [Engine -> PassType] /\ faults' \in Nat /\ passes' \in [Engine -> Nat]
  <2>1. CASE \E limit \in 1..Limit : peek(e, limit)
    <3>1. PICK limit \in 1..Limit : peek(e, limit)
      BY <2>1
    <3> DEFINE p == [Sleeping EXCEPT !.at = "reserve", !.limit = limit,
                                     !.todo = {c \in Class : ready[c] > 0}]
    <3>2. p \in PassType
      <4>1. Sleeping \in PassType /\ limit \in 0..Limit
        BY <1>1, PassTypes
      <4> QED
        BY <4>1, ZenonT(60) DEF PassType
    <3>3. pass' = [pass EXCEPT ![e] = p] /\ passes' = [passes EXCEPT ![e] = @ - 1]
          /\ passes[e] > 0 /\ faults' = faults
      BY <3>1, ZenonT(60) DEF peek
    <3> HIDE DEF p
    <3>4. pass' \in [Engine -> PassType]
      BY <1>1, <3>2, <3>3 DEF TypeOK
    <3> QED
      BY <1>1, <3>3, <3>4 DEF TypeOK
  <2>2. CASE pass_ends(e)
    BY <1>1, <2>2, PassTypes DEF pass_ends, TypeOK
  <2>3. CASE pass_fails(e)
    BY <1>1, <2>3, PassTypes DEF pass_fails, Fault, TypeOK
  <2> QED
    BY <2>1, <2>2, <2>3
<1>3. UNCHANGED <<now, backend, up, admin, ready, setup, history>>
  BY ZenonT(60) DEF peek, pass_ends, pass_fails
<1>4. TypeOK'
  BY <1>1, <1>2, <1>3 DEF TypeOK, backend, admin, history
<1>5. CachedIsConfigured'
  BY <1>1, <1>3 DEF CachedIsConfigured, backend, admin
<1>6. Conserved'
  BY <1>1, <1>3, QuietConserved DEF backend, history
<1>7. TakenIsConfigured'
  <2>1. PICK p \in PassType : pass' = [pass EXCEPT ![e] = p] /\ p.taking = {}
    <3>1. Sleeping \in PassType /\ Sleeping.taking = {}
      BY <1>1, PassTypes, ZenonT(60) DEF Sleeping
    <3>2. CASE pass_ends(e) \/ pass_fails(e)
      BY <3>1, <3>2 DEF pass_ends, pass_fails
    <3>3. ASSUME NEW limit \in 1..Limit, peek(e, limit)
          PROVE  \E p \in PassType : pass' = [pass EXCEPT ![e] = p] /\ p.taking = {}
      <4> DEFINE q == [Sleeping EXCEPT !.at = "reserve", !.limit = limit,
                                       !.todo = {c \in Class : ready[c] > 0}]
      <4>1. limit \in 0..Limit
        OBVIOUS
      <4>2. q \in PassType /\ q.taking = {}
        BY <3>1, <4>1, ZenonT(60) DEF PassType, Sleeping
      <4>3. pass' = [pass EXCEPT ![e] = q]
        BY <3>3, ZenonT(60) DEF peek
      <4> QED
        BY <4>2, <4>3, ZenonT(60)
    <3> QED
      BY <3>2, <3>3
  <2>2. p.taking \subseteq pass[e].taking
    BY <2>1
  <2>3. (\A c \in Class : table'[c].cfg = table[c].cfg) /\ statements' \subseteq statements
    BY <1>3 DEF backend
  <2> QED
    BY <1>1, <2>1, <2>2, <2>3, PassMoved, ZenonT(60) DEF IInv
<1> QED
  BY <1>4, <1>5, <1>6, <1>7 DEF IInv

\* claim spends what was reserved.
LEMMA ClaimStep ==
  ASSUME IInv, NEW e \in Engine, claim(e)
  PROVE  IInv'
<1>1. TypeOK /\ CachedIsConfigured /\ Conserved
  BY DEF IInv
<1>2. PICK batch \in [Class -> 0..Limit] :
        /\ \A c \in Class : batch[c] <= ready[c] /\ batch[c] <= quota(e, c)
        /\ ready' = [c \in Class |-> ready[c] - batch[c]]
        /\ started' = [c \in Class |-> started[c] + batch[c]]
        /\ pass' = [pass EXCEPT ![e] =
                       [@ EXCEPT !.at = "return",
                                 !.todo = {c \in Class : unused(e, c, batch) > 0},
                                 !.reserved = [c \in Class |-> unused(e, c, batch)]]]
  BY ZenonT(60) DEF claim
<1>3. batch \in [Class -> Nat]
  OBVIOUS
<1>4. ready' \in [Class -> Nat] /\ started' \in [Class -> Nat]
  BY <1>1, <1>2 DEF TypeOK
<1>5. pass' \in [Engine -> PassType]
  <2>1. \A c \in Class : unused(e, c, batch) \in Nat
    BY <1>1, PassTypes DEF unused, Elapsed
  <2>2. [c \in Class |-> unused(e, c, batch)] \in [Class -> Nat]
    BY <2>1
  <2>3. {c \in Class : unused(e, c, batch) > 0} \in SUBSET Class
    OBVIOUS
  <2>4. [pass[e] EXCEPT !.at = "return",
                        !.todo = {c \in Class : unused(e, c, batch) > 0},
                        !.reserved = [c \in Class |-> unused(e, c, batch)]] \in PassType
    BY ONLY <1>1, <2>2, <2>3, PassTypes, e \in Engine, ZenonT(60) DEF PassType
  <2> QED
    BY ONLY <1>1, <1>2, <2>4 DEF TypeOK
<1>6. UNCHANGED <<now, backend, up, admin, faults, passes, setup, drawn, minted>>
  BY DEF claim
<1>7. TypeOK'
  BY <1>1, <1>4, <1>5, <1>6 DEF TypeOK, backend, admin
<1>8. CachedIsConfigured'
  BY <1>1, <1>6 DEF CachedIsConfigured, backend, admin
<1>9. Conserved'
  BY <1>1, <1>6, QuietConserved DEF backend
<1>10. TakenIsConfigured'
  <2>1. \A f \in Engine : pass'[f].taking \subseteq pass[f].taking
    BY <1>1, <1>2 DEF TypeOK, PassType
  <2> QED
    BY <1>1, <1>6, <2>1, TakenKept DEF IInv, backend
<1> QED
  BY <1>7, <1>8, <1>9, <1>10 DEF IInv

\* The caches take what the table holds, or held when it was read.
LEMMA CacheStep ==
  ASSUME IInv, NEW e \in Engine,
         load_reads(e) \/ load_stores(e) \/ upsert_caches(e) \/ restart(e)
  PROVE  IInv'
<1>1. TypeOK /\ CachedIsConfigured /\ Conserved
  BY DEF IInv
<1>2. rows \in [Class -> Config \cup {Unknown}] /\ NoLoad.rows \in [Class -> Config \cup {Unknown}]
      /\ NoEdit \in [Class -> Config \cup {Unknown}] /\ NoLoad.reading = FALSE
  BY <1>1 DEF TypeOK, rows, NoLoad, NoEdit
<1>3. /\ cfg' \in [Engine -> [Class -> Config \cup {Unknown}]]
      /\ load' \in [Engine -> [reading: BOOLEAN, rows: [Class -> Config \cup {Unknown}]]]
      /\ edit' \in [Engine -> [Class -> Config \cup {Unknown}]]
  <2>1. CASE load_reads(e)
    BY <1>1, <1>2, <2>1 DEF load_reads, TypeOK
  <2>2. CASE load_stores(e)
    BY <1>1, <2>2 DEF load_stores, loaded, TypeOK, NoLoad
  <2>3. CASE upsert_caches(e)
    <3>1. [c \in Class |-> IF edit[e][c].known THEN edit[e][c] ELSE cfg[e][c]]
            \in [Class -> Config \cup {Unknown}]
      BY <1>1 DEF TypeOK
    <3> QED
      BY <1>1, <1>2, <2>3 DEF upsert_caches, TypeOK
  <2>4. CASE restart(e)
    BY <1>1, <1>2, <2>4 DEF restart, TypeOK, NoLoad
  <2> QED
    BY <2>1, <2>2, <2>3, <2>4
<1>4. pass' \in [Engine -> PassType] /\ faults' \in Nat
  <2>1. Sleeping \in PassType /\ pass \in [Engine -> PassType] /\ faults \in Nat
    BY <1>1, PassTypes DEF TypeOK
  <2>2. CASE restart(e)
    <3>1. pass' = [pass EXCEPT ![e] = Sleeping] /\ Fault
      BY <2>2 DEF restart
    <3> QED
      BY ONLY <2>1, <3>1 DEF Fault
  <2>3. CASE ~restart(e)
    BY <2>1, <2>3 DEF load_reads, load_stores, upsert_caches
  <2> QED
    BY <2>2, <2>3
<1>5. UNCHANGED <<now, table, bucket, up, edits, ready, passes, setup, history>>
  BY DEF load_reads, load_stores, upsert_caches, restart, backend
<1>9. statements' \subseteq StatementType /\ TakenIsConfigured'
  <2>1. CASE restart(e)
    <3> DEFINE sent == {Statement(c, pass[e].since, pass[e].limit) : c \in pass[e].taking}
    <3>1. statements' = statements \cup sent /\ pass' = [pass EXCEPT ![e] = Sleeping]
      BY <2>1 DEF restart
    <3>2. pass[e].taking \subseteq Class /\ pass[e].since \in Nat /\ pass[e].limit \in 0..Limit
          /\ faults \in Nat
      BY <1>1, PassTypes DEF TypeOK
    <3>3. \A s \in sent : s \in StatementType /\ s.class \in pass[e].taking
      BY <3>2 DEF Statement, StatementType
    <3>4. statements' \subseteq StatementType
      BY <1>1, <3>1, <3>3 DEF TypeOK
    <3> HIDE DEF sent
    <3>5. \A f \in Engine : pass'[f].taking \subseteq pass[f].taking
      BY <1>1, <3>1 DEF Sleeping, TypeOK
    <3>6. \A s \in statements' : table[s.class].cfg.known
      BY <3>1, <3>3 DEF IInv, TakenIsConfigured
    <3>7. TakenIsConfigured'
      BY <1>5, <3>5, <3>6 DEF IInv, TakenIsConfigured
    <3> QED
      BY <3>4, <3>7
  <2>2. CASE ~restart(e)
    <3>1. statements' = statements /\ pass' = pass
      BY <2>2 DEF load_reads, load_stores, upsert_caches, backend
    <3> QED
      BY <1>1, <1>5, <3>1 DEF IInv, TakenIsConfigured, TypeOK
  <2> QED
    BY <2>1, <2>2
<1>6. TypeOK'
  BY <1>1, <1>3, <1>4, <1>5, <1>9 DEF TypeOK, history
<1>7. CachedIsConfigured'
  <2> SUFFICES ASSUME NEW c \in Class, ~table'[c].cfg.known, NEW f \in Engine
               PROVE  ~cfg'[f][c].known /\ ~load'[f].rows[c].known /\ ~edit'[f][c].known
    BY DEF CachedIsConfigured
  <2>1. table' = table
    BY <1>5
  <2>2. ~table[c].cfg.known /\ \A g \in Engine :
            ~cfg[g][c].known /\ ~load[g].rows[c].known /\ ~edit[g][c].known
    BY <1>1, <2>1 DEF CachedIsConfigured
  <2>3. ~rows[c].known /\ ~NoLoad.rows[c].known /\ ~NoEdit[c].known
    BY <2>2 DEF rows, NoLoad, NoEdit, Unknown
  <2>4. CASE load_reads(e)
    BY <2>2, <2>3, <2>4 DEF load_reads, TypeOK
  <2>5. CASE load_stores(e)
    BY <2>2, <2>3, <2>5 DEF load_stores, loaded, TypeOK
  <2>6. CASE upsert_caches(e)
    BY <2>2, <2>3, <2>6 DEF upsert_caches, TypeOK
  <2>7. CASE restart(e)
    BY <2>2, <2>3, <2>7 DEF restart, TypeOK
  <2> QED
    BY <2>4, <2>5, <2>6, <2>7
<1>8. Conserved'
  BY <1>1, <1>5, QuietConserved DEF history
<1> QED
  BY <1>6, <1>7, <1>8, <1>9 DEF IInv

\* Steps of the world: submitted jobs and the link to Redis.
LEMMA OutsideStep ==
  ASSUME IInv, (\E c \in Class : arrive(c)) \/ (\E e \in Engine : link_changes(e))
  PROVE  IInv'
<1>1. TypeOK /\ CachedIsConfigured /\ Conserved
  BY DEF IInv
<1>2. ready' \in [Class -> Nat] /\ up' \in [Engine -> BOOLEAN] /\ faults' \in Nat
  <2>1. ready \in [Class -> Nat] /\ up \in [Engine -> BOOLEAN] /\ faults \in Nat
    BY <1>1 DEF TypeOK
  <2>2. CASE \E c \in Class : arrive(c)
    BY <2>1, <2>2 DEF arrive
  <2>3. CASE \E e \in Engine : link_changes(e)
    <3>1. PICK e \in Engine : link_changes(e)
      BY <2>3
    <3>2. up' = [up EXCEPT ![e] = ~up[e]] /\ ready' = ready /\ (faults' = faults \/ Fault)
      BY <3>1 DEF link_changes, redis_link
    <3>3. up' \in [Engine -> BOOLEAN]
      BY <2>1, <3>2
    <3> QED
      BY <2>1, <3>2 DEF Fault
  <2> QED
    BY <2>2, <2>3
<1>3. UNCHANGED <<now, backend, admin, pass, passes, setup, history>>
  BY DEF arrive, link_changes, redis_link
<1>4. TypeOK'
  BY <1>1, <1>2, <1>3 DEF TypeOK, backend, admin, history
<1>5. CachedIsConfigured'
  BY <1>1, <1>3 DEF CachedIsConfigured, backend, admin
<1>6. Conserved'
  BY <1>1, <1>3, QuietConserved DEF backend, history
<1>7. TakenIsConfigured'
  BY <1>3 DEF IInv, TakenIsConfigured, backend
<1> QED
  BY <1>4, <1>5, <1>6, <1>7 DEF IInv

(***************************************************************************)
(* The steps of a matching pass that reserve and return tokens keep the    *)
(* inductive invariant.  Each concerns one class.                          *)
(***************************************************************************)

BucketType == [live: BOOLEAN, tokens: 0..MaxCapacity, ts: 0..now]
RowType == [cfg: Config \cup {Unknown}, tokens: 0..(MaxCapacity + Unit), refilled_at: 0..now]

\* A step that touches the bucket of one class.
LEMMA OneClass ==
  ASSUME Conserved, NEW c \in Class, now' = now,
         \A d \in Class \ {c} : /\ bucket'[d] = bucket[d] /\ table'[d] = table[d]
                                /\ drawn'[d] = drawn[d] /\ minted'[d] = minted[d],
         RedisPotential(c)' + PgPotential(c)' + Unit * drawn'[c] <= Budget + minted'[c]
  PROVE  Conserved'
<1> SUFFICES ASSUME NEW d \in Class
             PROVE  (RedisPotential(d) + PgPotential(d) + Unit * drawn[d] <= Budget + minted[d])'
  BY DEF Conserved
<1>1. Budget' = Budget
  BY DEF Budget
<1>2. CASE d = c
  BY <1>1, <1>2
<1>3. CASE d # c
  <2>1. bucket'[d] = bucket[d] /\ table'[d] = table[d] /\ drawn'[d] = drawn[d] /\ minted'[d] = minted[d]
    BY <1>3
  <2>2. RedisPotential(d)' = RedisPotential(d) /\ PgPotential(d)' = PgPotential(d)
    BY <2>1 DEF RedisPotential, PgPotential
  <2> QED
    BY <1>1, <2>2 DEF Conserved
<1> QED
  BY <1>2, <1>3

\* What a step of class c needs to keep the types.
LEMMA OneClassTypes ==
  ASSUME TypeOK, now' = now, UNCHANGED <<up, admin, ready, passes, setup, started>>,
         faults' \in Nat, pass' \in [Engine -> PassType],
         bucket' \in [Class -> BucketType], table' \in [Class -> RowType],
         statements' \subseteq StatementType,
         drawn' \in [Class -> Int], minted' \in [Class -> Nat]
  PROVE  TypeOK'
  BY DEF TypeOK, BucketType, RowType, admin

\* The pass of an engine that has reserved or returned a class.
LEMMA PassMoves ==
  ASSUME TypeOK, NEW e \in Engine, NEW c \in Class, NEW granted \in Int
  PROVE  /\ reserved(pass[e], c, granted) \in PassType
         /\ reserved(pass[e], c, granted).taking = {}
         /\ settled(pass[e], c) \in PassType
         /\ settled(pass[e], c).taking = pass[e].taking
<1>1. pass[e] \in PassType
  BY PassTypes
<1>2. [pass[e].reserved EXCEPT ![c] = Tokens(granted)] \in [Class -> Nat]
      /\ [pass[e].reserved EXCEPT ![c] = 0] \in [Class -> Nat]
  <2>1. Tokens(granted) \in Nat
    BY DEF Tokens
  <2> QED
    BY <2>1, PassTypes
<1>3. (IF granted > 0 THEN pass[e].exhausted ELSE pass[e].exhausted \cup {c}) \in SUBSET Class
      /\ pass[e].todo \ {c} \in SUBSET Class /\ {} \in SUBSET Class /\ 0 \in Nat
  BY <1>1 DEF PassType
<1> QED
  BY <1>1, <1>2, <1>3, ZenonT(60) DEF reserved, settled, PassType

\* reserve of a class the engine does not know: granted as asked, and minted.
LEMMA ReserveUnlimitedStep ==
  ASSUME IInv, NEW e \in Engine, NEW c \in Class, reserve_unlimited(e, c)
  PROVE  IInv'
<1> DEFINE g == pass[e].limit
<1>1. TypeOK /\ CachedIsConfigured /\ Conserved /\ g \in Nat
  BY PassTypes DEF IInv
<1>2. /\ pass' = [pass EXCEPT ![e] = reserved(@, c, g)]
      /\ drawn' = [drawn EXCEPT ![c] = @ + g]
      /\ minted' = [minted EXCEPT ![c] = @ + Unit * g]
      /\ UNCHANGED <<now, backend, up, admin, ready, faults, passes, setup, started>>
  BY DEF reserve_unlimited
<1> HIDE DEF g
<1>3. Unit \in Nat /\ Unit * g \in Nat
  BY <1>1, RateAssumption
<1>7. pass' \in [Engine -> PassType] /\ TakenIsConfigured'
  <2>1. g \in Int
    BY <1>1
  <2>2. reserved(pass[e], c, g) \in PassType /\ reserved(pass[e], c, g).taking \subseteq pass[e].taking
    BY <1>1, <2>1, PassMoves
  <2>3. pass' = [pass EXCEPT ![e] = reserved(pass[e], c, g)] /\ table' = table /\ statements' = statements
    BY <1>2 DEF backend
  <2> QED
    BY <1>1, <2>2, <2>3, PassMoved, ZenonT(60) DEF IInv
<1>4. TypeOK'
  <2> DEFINE u == Unit * g
  <2>0. u \in Nat /\ minted' = [minted EXCEPT ![c] = @ + u] /\ drawn' = [drawn EXCEPT ![c] = @ + g]
        /\ minted \in [Class -> Nat] /\ drawn \in [Class -> Int]
    BY <1>1, <1>2, <1>3 DEF TypeOK
  <2> HIDE DEF u
  <2>1. drawn' \in [Class -> Int] /\ minted' \in [Class -> Nat]
    BY <1>1, <2>0
  <2>3. bucket' \in [Class -> BucketType] /\ table' \in [Class -> RowType] /\ faults' \in Nat
        /\ statements' \subseteq StatementType
    BY <1>1, <1>2 DEF TypeOK, BucketType, RowType, backend
  <2>4. now' = now /\ UNCHANGED <<up, admin, ready, passes, setup, started>>
    BY <1>2
  <2> QED
    BY ONLY <1>1, <1>7, <2>1, <2>3, <2>4, OneClassTypes
<1>5. CachedIsConfigured'
  BY <1>1, <1>2 DEF CachedIsConfigured, backend, admin
<1>6. Conserved'
  <2>1. RedisPotential(c)' = RedisPotential(c) /\ PgPotential(c)' = PgPotential(c)
    BY <1>2 DEF RedisPotential, PgPotential, backend
  <2>2. drawn'[c] = drawn[c] + g /\ minted'[c] = minted[c] + Unit * g /\ drawn[c] \in Int
    BY <1>1, <1>2 DEF TypeOK
  <2>3. Unit * drawn'[c] = Unit * drawn[c] + Unit * g
    BY <1>1, <1>3, <2>2
  <2>4. RedisPotential(c) + PgPotential(c) + Unit * drawn[c] <= Budget + minted[c]
    BY <1>1 DEF Conserved
  <2>5. RedisPotential(c)' + PgPotential(c)' + Unit * drawn'[c] <= Budget + minted'[c]
    BY <1>1, <1>3, <2>1, <2>2, <2>4, Sums
  <2>6. \A d \in Class \ {c} : /\ bucket'[d] = bucket[d] /\ table'[d] = table[d]
                               /\ drawn'[d] = drawn[d] /\ minted'[d] = minted[d]
    BY <1>2 DEF TypeOK, backend
  <2>7. now' = now
    BY <1>2
  <2> QED
    BY ONLY <1>1, <2>5, <2>6, <2>7, c \in Class, OneClass
<1> QED
  BY <1>4, <1>5, <1>6, <1>7 DEF IInv

\* A script that ran on the bucket of c, whatever became of its reply.
LEMMA LuaTakeStep ==
  ASSUME TypeOK, NEW e \in Engine, NEW c \in Class, cfg[e][c] \in Config, NEW want \in Nat,
         lua_take(e, c, want), now' = now
  PROVE  /\ bucket' \in [Class -> BucketType]
         /\ \A d \in Class \ {c} : bucket'[d] = bucket[d]
         /\ RedisPotential(c)' + Unit * Granted(lua_refilled(e, c), want)
              <= RedisPotential(c) + rewound(e, c)
         /\ Granted(lua_refilled(e, c), want) \in Nat
         /\ rewound(e, c) \in Nat /\ RedisPotential(c)' \in Int
         /\ Unit * Granted(lua_refilled(e, c), want) \in Nat
<1> DEFINE g == Granted(lua_refilled(e, c), want)
           left == lua_refilled(e, c) - Unit * g
<1>1. /\ left \in 0..MaxCapacity /\ g \in 0..want /\ rewound(e, c) \in Nat
      /\ left + MaxRefill * (now - clock(e)) + Unit * g <= RedisPotential(c) + rewound(e, c)
  BY LuaTake
<1>2. clock(e) \in 0..now /\ now - clock(e) \in Nat
  BY ClockBehind
<1>3. bucket' = [bucket EXCEPT ![c] = [live |-> TRUE, ts |-> clock(e), tokens |-> left]]
  BY DEF lua_take
<1> HIDE DEF left, g
<1>4. bucket \in [Class -> BucketType]
  BY DEF TypeOK, BucketType
<1>5. bucket' \in [Class -> BucketType] /\ \A d \in Class \ {c} : bucket'[d] = bucket[d]
  BY <1>1, <1>2, <1>3, <1>4 DEF BucketType
<1>6. bucket'[c].live = TRUE /\ bucket'[c].ts = clock(e) /\ bucket'[c].tokens = left
  BY <1>3, <1>4
<1>7. RedisPotential(c)' = left + MaxRefill * (now - clock(e))
  BY <1>6 DEF RedisPotential
<1>8. MaxRefill \in Nat /\ MaxCapacity \in Nat /\ Unit \in Nat /\ g \in Nat
  BY <1>1, RateAssumption
<1>9. MaxRefill * (now - clock(e)) \in Nat /\ Unit * g \in Nat
  BY <1>2, <1>8
<1> QED
  BY <1>1, <1>5, <1>7, <1>9 DEF g

\* The row of a class after a statement that stamped it with t.
LEMMA PgStamped ==
  ASSUME TypeOK, NEW c \in Class, table[c].cfg \in Config, NEW t \in 0..now,
         NEW left \in 0..(MaxCapacity + Unit), now' = now,
         table' = [table EXCEPT ![c] = [cfg |-> @.cfg, tokens |-> left, refilled_at |-> t]]
  PROVE  /\ table' \in [Class -> RowType]
         /\ \A d \in Class : table'[d].cfg = table[d].cfg
         /\ \A d \in Class \ {c} : table'[d] = table[d]
         /\ PgPotential(c)' = left + MaxRefill * (now - t)
         /\ PgPotential(c)' \in Int
<1>1. table \in [Class -> RowType] /\ now \in Nat /\ MaxRefill \in Nat /\ MaxCapacity \in Nat /\ Unit \in Nat
  BY RateAssumption DEF TypeOK, RowType
<1>2. [cfg |-> table[c].cfg, tokens |-> left, refilled_at |-> t] \in RowType
  BY <1>1 DEF RowType
<1>3. /\ table' \in [Class -> RowType]
      /\ \A d \in Class : table'[d].cfg = table[d].cfg
      /\ \A d \in Class \ {c} : table'[d] = table[d]
  BY <1>1, <1>2
<1>4. table[c].cfg.known = TRUE
  BY RateAssumption, ZenonT(60)
<1>5. table'[c].tokens = left /\ table'[c].refilled_at = t /\ table'[c].cfg.known = TRUE
  BY <1>1, <1>4 DEF RowType
<1>6. PgPotential(c)' = left + MaxRefill * (now - t)
  BY <1>5 DEF PgPotential
<1>7. MaxRefill * (now - t) \in Int
  BY <1>1
<1> QED
  BY <1>1, <1>3, <1>6, <1>7

\* rate_take_pg.sql takes what the potential of the row loses, but for what it
\* makes.
LEMMA PgTakeStep ==
  ASSUME TypeOK, NEW c \in Class, table[c].cfg \in Config, NEW want \in Nat, NEW t \in 0..now,
         pg_take(c, t, want), now' = now
  PROVE  /\ table' \in [Class -> RowType]
         /\ \A d \in Class : table'[d].cfg = table[d].cfg
         /\ \A d \in Class \ {c} : table'[d] = table[d]
         /\ PgPotential(c)' + Unit * Tokens(pg_granted(c, t, want))
              <= PgPotential(c) + pg_minted(c, t, want)
         /\ pg_granted(c, t, want) \in Int
         /\ Tokens(pg_granted(c, t, want)) \in Nat /\ Unit * Tokens(pg_granted(c, t, want)) \in Nat
         /\ pg_minted(c, t, want) \in Nat /\ PgPotential(c)' \in Int
<1> DEFINE g == pg_granted(c, t, want)
           left == pg_refilled(c, t) - Unit * g
<1>1. /\ left \in 0..(MaxCapacity + Unit)
      /\ g \in Int /\ Tokens(g) \in Nat /\ Unit * Tokens(g) \in Nat
      /\ pg_minted(c, t, want) \in Nat
      /\ left + MaxRefill * (now - t) + Unit * Tokens(g) <= PgPotential(c) + pg_minted(c, t, want)
  BY PgTake
<1>2. table' = [table EXCEPT ![c] = [cfg |-> @.cfg, tokens |-> left, refilled_at |-> t]]
  BY DEF pg_take
<1> HIDE DEF left, g
<1>3. /\ table' \in [Class -> RowType]
      /\ \A d \in Class : table'[d].cfg = table[d].cfg
      /\ \A d \in Class \ {c} : table'[d] = table[d]
      /\ PgPotential(c)' = left + MaxRefill * (now - t)
      /\ PgPotential(c)' \in Int
  BY <1>1, <1>2, PgStamped, ZenonT(60)
<1>4. PgPotential(c)' + Unit * Tokens(g) <= PgPotential(c) + pg_minted(c, t, want)
  BY <1>1, <1>3
<1> QED
  BY <1>1, <1>3, <1>4 DEF g

\* The UPDATE of drain leaves nothing but the time since its now().
LEMMA PgDrainStep ==
  ASSUME TypeOK, NEW c \in Class, table[c].cfg \in Config, NEW t \in 0..now, pg_drain(c, t), now' = now
  PROVE  /\ table' \in [Class -> RowType]
         /\ \A d \in Class : table'[d].cfg = table[d].cfg
         /\ \A d \in Class \ {c} : table'[d] = table[d]
         /\ PgPotential(c)' <= PgPotential(c) + pg_set_back(c, t, 0)
         /\ pg_set_back(c, t, 0) \in Nat /\ PgPotential(c)' \in Int
<1>1. MaxCapacity \in Nat /\ Unit \in Nat /\ MaxRefill \in Nat /\ now \in Nat
  BY RateAssumption DEF TypeOK
<1>2. 0 \in 0..(MaxCapacity + Unit)
  BY <1>1
<1>3. table' = [table EXCEPT ![c] = [cfg |-> @.cfg, tokens |-> 0, refilled_at |-> t]]
  BY DEF pg_drain
<1>4. /\ table' \in [Class -> RowType]
      /\ \A d \in Class : table'[d].cfg = table[d].cfg
      /\ \A d \in Class \ {c} : table'[d] = table[d]
      /\ PgPotential(c)' = 0 + MaxRefill * (now - t)
      /\ PgPotential(c)' \in Int
  BY <1>2, <1>3, PgStamped, ZenonT(60)
<1>5. pg_set_back(c, t, 0) \in Nat /\ MaxRefill * (now - t) <= PgPotential(c) + pg_set_back(c, t, 0)
  BY PgRefill
<1>6. MaxRefill * (now - t) \in Int
  BY <1>1
<1> QED
  BY <1>4, <1>5, <1>6

\* The Redis script of a return.
LEMMA LuaReturnStep ==
  ASSUME TypeOK, NEW e \in Engine, NEW c \in Class, cfg[e][c] \in Config, NEW give \in Nat,
         lua_return(e, c, give), now' = now
  PROVE  /\ bucket' \in [Class -> BucketType]
         /\ \A d \in Class \ {c} : bucket'[d] = bucket[d]
         /\ RedisPotential(c)' <= RedisPotential(c) + Unit * give
         /\ RedisPotential(c)' \in Int /\ Unit * give \in Nat
<1> DEFINE u == Unit * give
           x == Least(cfg[e][c].capacity, bucket[c].tokens + u)
<1>1. bucket \in [Class -> BucketType] /\ bucket[c].tokens \in Nat
      /\ bucket[c].live \in BOOLEAN /\ now - bucket[c].ts \in Nat
  BY DEF TypeOK, BucketType
<1>2. x \in 0..MaxCapacity /\ x <= bucket[c].tokens + u /\ u \in Nat
  BY <1>1, ReturnFits, ZenonT(60)
<1>3. bucket' = IF ~bucket[c].live THEN bucket ELSE [bucket EXCEPT ![c].tokens = x]
  BY DEF lua_return
<1>4. MaxRefill \in Nat /\ MaxCapacity \in Nat /\ MaxSkew \in Nat
  BY RateAssumption
<1>5. MaxRefill * (now - bucket[c].ts) \in Nat /\ MaxRefill * MaxSkew \in Nat
  BY <1>1, <1>4
<1> HIDE DEF x, u
<1>6. bucket' \in [Class -> BucketType] /\ \A d \in Class \ {c} : bucket'[d] = bucket[d]
  BY <1>1, <1>2, <1>3 DEF BucketType
<1>7. RedisPotential(c)' <= RedisPotential(c) + u /\ RedisPotential(c)' \in Int
  <2>1. CASE ~bucket[c].live
    <3>1. RedisPotential(c)' = RedisPotential(c) /\ RedisPotential(c) = MaxCapacity + MaxRefill * MaxSkew
      BY <1>3, <2>1 DEF RedisPotential
    <3> QED
      BY <1>2, <1>4, <3>1
  <2>2. CASE bucket[c].live
    <3>1. bucket'[c].tokens = x /\ bucket'[c].ts = bucket[c].ts /\ bucket'[c].live = TRUE
      BY <1>1, <1>3, <2>2 DEF BucketType
    <3>2. RedisPotential(c)' = x + MaxRefill * (now - bucket[c].ts)
          /\ RedisPotential(c) = bucket[c].tokens + MaxRefill * (now - bucket[c].ts)
      BY <2>2, <3>1 DEF RedisPotential
    <3> QED
      BY <1>1, <1>2, <1>5, <3>2
  <2> QED
    BY <2>1, <2>2
<1> QED
  BY <1>2, <1>6, <1>7 DEF u

\* rate_return_pg.
LEMMA PgReturnStep ==
  ASSUME TypeOK, NEW c \in Class, table[c].cfg \in Config, NEW give \in Nat,
         pg_return(c, give), now' = now
  PROVE  /\ table' \in [Class -> RowType]
         /\ \A d \in Class : table'[d].cfg = table[d].cfg
         /\ \A d \in Class \ {c} : table'[d] = table[d]
         /\ PgPotential(c)' <= PgPotential(c) + Unit * give
         /\ PgPotential(c)' \in Int /\ Unit * give \in Nat
<1> DEFINE u == Unit * give
           x == Least(table[c].cfg.capacity, table[c].tokens + u)
<1>1. table \in [Class -> RowType] /\ table[c].tokens \in Nat
      /\ now - table[c].refilled_at \in Nat
  BY RateAssumption DEF TypeOK, RowType
<1>2. x \in 0..MaxCapacity /\ x <= table[c].tokens + u /\ u \in Nat
  BY <1>1, ReturnFits, ZenonT(60)
<1>3. table' = [table EXCEPT ![c].tokens = x]
  BY DEF pg_return
<1>4. MaxRefill \in Nat /\ MaxCapacity \in Nat /\ Unit \in Nat /\ table[c].cfg.known = TRUE
  BY RateAssumption, ZenonT(60)
<1>5. MaxRefill * (now - table[c].refilled_at) \in Nat
  BY <1>1, <1>4
<1> HIDE DEF x, u
<1>6. /\ table' \in [Class -> RowType]
      /\ \A d \in Class : table'[d].cfg = table[d].cfg
      /\ \A d \in Class \ {c} : table'[d] = table[d]
  <2>1. x \in 0..(MaxCapacity + Unit)
    BY <1>2, <1>4
  <2> QED
    BY <1>1, <1>3, <2>1 DEF RowType
<1>7. table'[c].tokens = x /\ table'[c].refilled_at = table[c].refilled_at /\ table'[c].cfg.known = TRUE
  BY <1>1, <1>3, <1>4 DEF RowType
<1>8. PgPotential(c)' = x + MaxRefill * (now - table[c].refilled_at)
      /\ PgPotential(c) = table[c].tokens + MaxRefill * (now - table[c].refilled_at)
  BY <1>4, <1>7 DEF PgPotential
<1> QED
  BY <1>1, <1>2, <1>5, <1>6, <1>8 DEF u

\* The accounts after a step of class c in which the buckets gave up g tokens
\* and got back r, and slack came from elsewhere.
LEMMA Account ==
  ASSUME TypeOK, NEW c \in Class,
         NEW R \in Int, NEW P \in Int, NEW dr \in Int, NEW g \in Int, NEW slack \in Int,
         RedisPotential(c) + PgPotential(c) + Unit * drawn[c] <= Budget + minted[c],
         R + P + Unit * g <= RedisPotential(c) + PgPotential(c) + slack,
         dr = drawn[c] + g
  PROVE  R + P + Unit * dr <= Budget + minted[c] + slack
<1>1. Unit \in Int /\ drawn[c] \in Int
  BY RateAssumption DEF TypeOK
<1>2. Unit * dr = Unit * drawn[c] + Unit * g /\ Unit * g \in Int /\ Unit * drawn[c] \in Int
  BY <1>1, TimesPlus, TimesInt, ZenonT(60)
<1>3. Budget \in Nat /\ RedisPotential(c) \in Nat /\ PgPotential(c) \in Nat /\ minted[c] \in Nat
  BY Sums
<1> DEFINE ud == Unit * drawn[c]
           ug == Unit * g
           udr == Unit * dr
<1>4. udr = ud + ug /\ ud \in Int /\ ug \in Int
      /\ RedisPotential(c) + PgPotential(c) + ud <= Budget + minted[c]
      /\ R + P + ug <= RedisPotential(c) + PgPotential(c) + slack
  BY <1>2
<1> HIDE DEF ud, ug, udr
<1>5. R + P + udr <= Budget + minted[c] + slack
  BY <1>3, <1>4
<1> QED
  BY <1>5 DEF udr

\* reserve answered by Redis.
LEMMA ReserveRedisStep ==
  ASSUME IInv, NEW e \in Engine, NEW c \in Class, reserve_redis(e, c)
  PROVE  IInv'
<1> DEFINE want == pass[e].limit
           g == Granted(lua_refilled(e, c), want)
           w == rewound(e, c)
<1>1. TypeOK /\ CachedIsConfigured /\ Conserved /\ want \in Nat
  BY PassTypes DEF IInv
<1>2. /\ lua_take(e, c, want)
      /\ pass' = [pass EXCEPT ![e] = reserved(@, c, g)]
      /\ drawn' = [drawn EXCEPT ![c] = @ + g]
      /\ minted' = [minted EXCEPT ![c] = @ + w]
      /\ UNCHANGED <<now, table, statements, up, admin, ready, faults, passes, setup, started>>
  BY DEF reserve_redis, redis_call
<1>3. cfg[e][c] \in Config
  <2>1. cfg[e][c] \in Config \cup {Unknown} /\ cfg[e][c].known
    BY <1>1 DEF reserve_redis, TypeOK
  <2> QED
    BY ONLY <2>1, KnownIsConfig
<1>4. /\ bucket' \in [Class -> BucketType]
      /\ \A d \in Class \ {c} : bucket'[d] = bucket[d]
      /\ RedisPotential(c)' + Unit * g <= RedisPotential(c) + w
      /\ g \in Nat /\ w \in Nat /\ RedisPotential(c)' \in Int /\ Unit * g \in Nat
  BY <1>1, <1>2, <1>3, LuaTakeStep
<1> HIDE DEF want, g, w
<1>8. pass' \in [Engine -> PassType] /\ TakenIsConfigured'
  <2>1. g \in Int
    BY <1>4
  <2>2. reserved(pass[e], c, g) \in PassType /\ reserved(pass[e], c, g).taking \subseteq pass[e].taking
    BY <1>1, <2>1, PassMoves
  <2>3. pass' = [pass EXCEPT ![e] = reserved(pass[e], c, g)] /\ table' = table /\ statements' = statements
    BY <1>2
  <2> QED
    BY <1>1, <2>2, <2>3, PassMoved DEF IInv
<1>5. TypeOK'
  <2>1. minted' \in [Class -> Nat] /\ drawn' \in [Class -> Int]
    BY <1>1, <1>2, <1>4 DEF TypeOK
  <2>3. table' \in [Class -> RowType] /\ faults' \in Nat /\ statements' \subseteq StatementType
    BY <1>1, <1>2 DEF TypeOK, RowType
  <2>4. now' = now /\ UNCHANGED <<up, admin, ready, passes, setup, started>>
    BY <1>2
  <2> QED
    BY ONLY <1>1, <1>4, <1>8, <2>1, <2>3, <2>4, OneClassTypes
<1>6. CachedIsConfigured'
  BY <1>1, <1>2 DEF CachedIsConfigured, admin
<1>7. Conserved'
  <2>1. PgPotential(c)' = PgPotential(c) /\ now' = now
    BY <1>2, ZenonT(60) DEF PgPotential
  <2>2. drawn'[c] = drawn[c] + g /\ minted'[c] = minted[c] + w /\ drawn[c] \in Int /\ minted[c] \in Nat
    BY <1>1, <1>2 DEF TypeOK
  <2>3. PgPotential(c) \in Nat /\ RedisPotential(c) \in Nat /\ Budget \in Nat
    BY <1>1, Sums
  <2>4. RedisPotential(c)' + PgPotential(c)' + Unit * g <= RedisPotential(c) + PgPotential(c) + w
    BY <1>4, <2>1, <2>3
  <2>5. RedisPotential(c) + PgPotential(c) + Unit * drawn[c] <= Budget + minted[c]
    BY <1>1 DEF Conserved
  <2>6. drawn'[c] \in Int /\ g \in Int /\ w \in Int /\ PgPotential(c)' \in Int
    <3>1. g \in Int /\ w \in Int
      BY <1>4
    <3> HIDE DEF g, w
    <3> QED
      BY <2>1, <2>2, <2>3, <3>1
  <2>7. RedisPotential(c)' + PgPotential(c)' + Unit * drawn'[c] <= Budget + minted[c] + w
    BY ONLY <1>1, <1>4, <2>2, <2>4, <2>5, <2>6, c \in Class, Account
  <2>8. RedisPotential(c)' + PgPotential(c)' + Unit * drawn'[c] <= Budget + minted'[c]
    BY <1>4, <2>2, <2>3, <2>7
  <2>9. \A d \in Class \ {c} : /\ bucket'[d] = bucket[d] /\ table'[d] = table[d]
                               /\ drawn'[d] = drawn[d] /\ minted'[d] = minted[d]
    BY <1>2, <1>4 DEF TypeOK
  <2> QED
    BY ONLY <1>1, <2>1, <2>8, <2>9, c \in Class, OneClass
<1> QED
  BY <1>5, <1>6, <1>7, <1>8 DEF IInv

\* A class the engine knows has a row.
LEMMA CachedRow ==
  ASSUME TypeOK, CachedIsConfigured, NEW e \in Engine, NEW c \in Class, cfg[e][c].known
  PROVE  cfg[e][c] \in Config /\ table[c].cfg \in Config
<1>1. cfg[e][c] \in Config \cup {Unknown} /\ table[c].cfg \in Config \cup {Unknown}
  BY DEF TypeOK
<1>2. table[c].cfg.known
  BY DEF CachedIsConfigured
<1> QED
  BY ONLY <1>1, <1>2, cfg[e][c].known, KnownIsConfig

\* A step of class c that draws g tokens and mints w units keeps the accounts
\* when the potentials pay for the rest.
LEMMA AccountStep ==
  ASSUME TypeOK, Conserved, NEW c \in Class, NEW g \in Int, NEW w \in Nat, now' = now,
         \A d \in Class \ {c} : bucket'[d] = bucket[d] /\ table'[d] = table[d],
         drawn' = [drawn EXCEPT ![c] = @ + g], minted' = [minted EXCEPT ![c] = @ + w],
         RedisPotential(c)' \in Int, PgPotential(c)' \in Int,
         RedisPotential(c)' + PgPotential(c)' + Unit * g <= RedisPotential(c) + PgPotential(c) + w
  PROVE  Conserved' /\ minted' \in [Class -> Nat] /\ drawn' \in [Class -> Int]
<1>1. minted \in [Class -> Nat] /\ drawn \in [Class -> Int]
  BY DEF TypeOK
<1>2. minted' \in [Class -> Nat] /\ drawn' \in [Class -> Int]
  BY <1>1
<1>3. drawn'[c] = drawn[c] + g /\ minted'[c] = minted[c] + w /\ drawn'[c] \in Int
      /\ \A d \in Class \ {c} : drawn'[d] = drawn[d] /\ minted'[d] = minted[d]
  BY <1>1
<1>4. RedisPotential(c) + PgPotential(c) + Unit * drawn[c] <= Budget + minted[c]
  BY DEF Conserved
<1>5. w \in Int /\ Budget \in Nat /\ minted[c] \in Nat
  BY Sums
<1>6. RedisPotential(c)' + PgPotential(c)' + Unit * drawn'[c] <= Budget + minted[c] + w
  BY <1>3, <1>4, <1>5, Account
<1>7. RedisPotential(c)' + PgPotential(c)' + Unit * drawn'[c] <= Budget + minted'[c]
  BY <1>3, <1>5, <1>6
<1>8. \A d \in Class \ {c} : /\ bucket'[d] = bucket[d] /\ table'[d] = table[d]
                              /\ drawn'[d] = drawn[d] /\ minted'[d] = minted[d]
  BY <1>3
<1>9. Conserved'
  BY ONLY <1>7, <1>8, Conserved, now' = now, c \in Class, OneClass
<1> QED
  BY <1>2, <1>9

\* reserve turns to Postgres, Redis being off, down or late.
LEMMA FallsBackStep ==
  ASSUME IInv, NEW e \in Engine, NEW c \in Class, NEW o \in {"down", "late"},
         reserve_falls_back(e, c, o)
  PROVE  IInv'
<1> DEFINE want == pass[e].limit
           w == IF o = "late" THEN rewound(e, c) ELSE 0
           p == [pass[e] EXCEPT !.taking = {c}, !.since = now]
<1>1. TypeOK /\ CachedIsConfigured /\ TakenIsConfigured /\ Conserved /\ want \in Nat /\ now \in Nat
  BY PassTypes DEF IInv, TypeOK
<1>2. /\ o = "late" => lua_take(e, c, want) /\ minted' = [minted EXCEPT ![c] = @ + rewound(e, c)]
      /\ o # "late" => bucket' = bucket /\ minted' = minted
      /\ pass' = [pass EXCEPT ![e] = p]
      /\ faults' = faults \/ Fault
      /\ UNCHANGED <<now, table, statements, up, admin, ready, passes, setup, drawn, started>>
  BY DEF reserve_falls_back, redis_call
<1>3. cfg[e][c] \in Config /\ table[c].cfg \in Config
  BY <1>1, CachedRow, ZenonT(60) DEF reserve_falls_back
<1>4. RedisPotential(c) \in Nat /\ PgPotential(c) \in Nat
  BY <1>1, Sums
<1>5. /\ bucket' \in [Class -> BucketType]
      /\ \A d \in Class \ {c} : bucket'[d] = bucket[d]
      /\ RedisPotential(c)' <= RedisPotential(c) + w
      /\ w \in Nat /\ RedisPotential(c)' \in Int
      /\ minted' = [minted EXCEPT ![c] = @ + w]
  <2>1. CASE o = "late"
    <3> DEFINE gr == Granted(lua_refilled(e, c), want)
    <3>1. /\ bucket' \in [Class -> BucketType]
          /\ \A d \in Class \ {c} : bucket'[d] = bucket[d]
          /\ RedisPotential(c)' + Unit * gr <= RedisPotential(c) + rewound(e, c)
          /\ rewound(e, c) \in Nat /\ RedisPotential(c)' \in Int /\ Unit * gr \in Nat
      BY <1>1, <1>2, <1>3, <2>1, LuaTakeStep, ZenonT(60)
    <3>2. w = rewound(e, c) /\ minted' = [minted EXCEPT ![c] = @ + rewound(e, c)]
      BY <1>2, <2>1
    <3> HIDE DEF gr, w
    <3> QED
      BY <1>4, <3>1, <3>2
  <2>2. CASE o # "late"
    <3>1. bucket' = bucket /\ w = 0 /\ minted' = minted /\ minted \in [Class -> Nat]
      BY <1>1, <1>2, <2>2 DEF TypeOK
    <3>2. RedisPotential(c)' = RedisPotential(c)
      BY <1>2, <3>1 DEF RedisPotential
    <3> HIDE DEF w
    <3> QED
      BY <1>1, <1>4, <3>1, <3>2 DEF TypeOK, BucketType
  <2> QED
    BY <2>1, <2>2
<1> HIDE DEF want, w
<1>6. Conserved' /\ minted' \in [Class -> Nat] /\ drawn' \in [Class -> Int]
  <2>0. PgPotential(c)' = PgPotential(c)
    BY <1>2, ZenonT(60) DEF PgPotential
  <2>1. PgPotential(c)' = PgPotential(c) /\ PgPotential(c)' \in Int
    BY <1>4, <2>0
  <2>2. drawn' = [drawn EXCEPT ![c] = @ + 0] /\ now' = now
        /\ \A d \in Class \ {c} : bucket'[d] = bucket[d] /\ table'[d] = table[d]
    BY <1>1, <1>2, <1>5 DEF TypeOK
  <2>3. Unit * 0 = 0
    BY RateAssumption
  <2>4. RedisPotential(c)' + PgPotential(c)' + Unit * 0 <= RedisPotential(c) + PgPotential(c) + w
    BY <1>4, <1>5, <2>1, <2>3
  <2>5. 0 \in Int
    OBVIOUS
  <2> QED
    BY ONLY <1>1, <1>5, <2>1, <2>2, <2>4, <2>5, c \in Class, AccountStep
<1>7. p \in PassType /\ p.taking = {c}
  <2>1. pass[e] \in PassType /\ {c} \in SUBSET Class
    BY <1>1, PassTypes
  <2> QED
    BY <1>1, <2>1, ZenonT(60) DEF PassType
<1> HIDE DEF p
<1>8. pass' \in [Engine -> PassType] /\ pass'[e] = p /\ \A f \in Engine \ {e} : pass'[f] = pass[f]
  BY <1>1, <1>2, <1>7 DEF TypeOK
<1>9. TypeOK'
  <2>1. faults' \in Nat /\ table' \in [Class -> RowType] /\ statements' \subseteq StatementType
    BY <1>1, <1>2 DEF TypeOK, Fault, RowType
  <2>2. now' = now /\ UNCHANGED <<up, admin, ready, passes, setup, started>>
    BY <1>2
  <2> QED
    BY ONLY <1>1, <1>5, <1>6, <1>8, <2>1, <2>2, OneClassTypes
<1>10. CachedIsConfigured'
  BY <1>1, <1>2 DEF CachedIsConfigured, admin
<1>11. TakenIsConfigured'
  <2>1. table[c].cfg.known
    BY <1>3, RateAssumption, ZenonT(60)
  <2>2. \A f \in Engine : \A d \in pass'[f].taking : table[d].cfg.known
    BY <1>1, <1>7, <1>8, <2>1 DEF TakenIsConfigured
  <2> QED
    BY <1>1, <1>2, <2>2 DEF TakenIsConfigured
<1> QED
  BY <1>6, <1>9, <1>10, <1>11 DEF IInv

\* A class that a statement was sent for has a row.
LEMMA TakenRow ==
  ASSUME TypeOK, NEW c \in Class, table[c].cfg.known
  PROVE  table[c].cfg \in Config
<1>1. table[c].cfg \in Config \cup {Unknown}
  BY DEF TypeOK
<1> QED
  BY ONLY <1>1, table[c].cfg.known, KnownIsConfig

\* reserve answered by Postgres.
LEMMA ReservePgStep ==
  ASSUME IInv, NEW e \in Engine, NEW c \in Class, NEW t \in pass[e].since..now, reserve_pg(e, c, t)
  PROVE  IInv'
<1> DEFINE want == pass[e].limit
           gr == pg_granted(c, t, want)
           g == Tokens(gr)
           w == pg_minted(c, t, want)
<1>1. TypeOK /\ CachedIsConfigured /\ TakenIsConfigured /\ Conserved /\ want \in Nat /\ now \in Nat
      /\ t \in 0..now
  <2>1. TypeOK /\ CachedIsConfigured /\ TakenIsConfigured /\ Conserved
    BY DEF IInv
  <2>2. want \in Nat /\ pass[e].since \in Nat /\ now \in Nat
    BY <2>1, PassTypes DEF TypeOK
  <2> QED
    BY <2>1, <2>2
<1>2. /\ pg_take(c, t, want)
      /\ pass' = [pass EXCEPT ![e] = reserved(pass[e], c, gr)]
      /\ drawn' = [drawn EXCEPT ![c] = @ + g]
      /\ minted' = [minted EXCEPT ![c] = @ + w]
      /\ UNCHANGED <<now, bucket, statements, up, admin, ready, faults, passes, setup, started>>
  BY DEF reserve_pg
<1>3. table[c].cfg \in Config
  <2>1. table[c].cfg.known
    BY <1>1 DEF reserve_pg, TakenIsConfigured
  <2> QED
    BY <1>1, <2>1, TakenRow
<1>4. /\ table' \in [Class -> RowType]
      /\ \A d \in Class : table'[d].cfg = table[d].cfg
      /\ \A d \in Class \ {c} : table'[d] = table[d]
      /\ PgPotential(c)' + Unit * g <= PgPotential(c) + w
      /\ gr \in Int /\ g \in Nat /\ Unit * g \in Nat /\ w \in Nat /\ PgPotential(c)' \in Int
  BY <1>1, <1>2, <1>3, PgTakeStep, ZenonT(60)
<1> HIDE DEF want, gr, g, w
<1>5. Conserved' /\ minted' \in [Class -> Nat] /\ drawn' \in [Class -> Int]
  <2>1. RedisPotential(c)' = RedisPotential(c) /\ RedisPotential(c) \in Nat /\ PgPotential(c) \in Nat
    BY <1>1, <1>2, Sums DEF RedisPotential
  <2>2. RedisPotential(c)' + PgPotential(c)' + Unit * g <= RedisPotential(c) + PgPotential(c) + w
        /\ RedisPotential(c)' \in Int
    BY <1>4, <2>1
  <2>3. now' = now /\ g \in Int
        /\ \A d \in Class \ {c} : bucket'[d] = bucket[d] /\ table'[d] = table[d]
    BY <1>2, <1>4
  <2> QED
    BY ONLY <1>1, <1>2, <1>4, <2>2, <2>3, c \in Class, AccountStep
<1>6. pass' \in [Engine -> PassType] /\ TakenIsConfigured'
  <2>1. reserved(pass[e], c, gr) \in PassType /\ reserved(pass[e], c, gr).taking \subseteq pass[e].taking
    BY <1>1, <1>4, PassMoves, ZenonT(60)
  <2> QED
    BY <1>1, <1>2, <1>4, <2>1, PassMoved, ZenonT(60)
<1>7. TypeOK'
  <2>1. bucket' \in [Class -> BucketType] /\ statements' \subseteq StatementType /\ faults' \in Nat
    BY <1>1, <1>2 DEF TypeOK, BucketType
  <2>2. now' = now /\ UNCHANGED <<up, admin, ready, passes, setup, started>>
    BY <1>2
  <2> QED
    BY ONLY <1>1, <1>4, <1>5, <1>6, <2>1, <2>2, OneClassTypes
<1>8. CachedIsConfigured'
  BY <1>1, <1>2, <1>4, ZenonT(60) DEF CachedIsConfigured, admin
<1> QED
  BY <1>5, <1>6, <1>7, <1>8 DEF IInv

\* A statement that no pass waits for gets its row.
LEMMA StatementStep ==
  ASSUME IInv, NEW s \in statements, NEW t \in s.since..now, statement_runs(s, t)
  PROVE  IInv'
<1> DEFINE c == s.class
           w == IF s.want = 0 THEN pg_set_back(c, t, 0) ELSE pg_minted(c, t, s.want)
<1>1. TypeOK /\ CachedIsConfigured /\ TakenIsConfigured /\ Conserved
  BY DEF IInv
<1>2. s \in StatementType /\ c \in Class /\ s.want \in Nat /\ s.since \in Nat /\ now \in Nat /\ t \in 0..now
  <2>1. s \in StatementType /\ now \in Nat
    BY <1>1 DEF TypeOK
  <2>2. c \in Class /\ s.want \in Nat /\ s.since \in Nat
    BY <2>1, RateAssumption DEF StatementType
  <2> QED
    BY <2>1, <2>2
<1>3. /\ s.want = 0 => pg_drain(c, t)
      /\ s.want # 0 => pg_take(c, t, s.want)
      /\ minted' = [minted EXCEPT ![c] = @ + w]
      /\ statements' \subseteq statements
      /\ UNCHANGED <<now, bucket, up, admin, pass, ready, faults, passes, setup, drawn, started>>
  BY DEF statement_runs
<1>4. table[c].cfg \in Config
  <2>1. table[c].cfg.known
    BY <1>1 DEF TakenIsConfigured
  <2> QED
    BY <1>1, <1>2, <2>1, TakenRow
<1>5. RedisPotential(c) \in Nat /\ PgPotential(c) \in Nat
  BY <1>1, <1>2, Sums
<1>6. /\ table' \in [Class -> RowType]
      /\ \A d \in Class : table'[d].cfg = table[d].cfg
      /\ \A d \in Class \ {c} : table'[d] = table[d]
      /\ PgPotential(c)' <= PgPotential(c) + w
      /\ w \in Nat /\ PgPotential(c)' \in Int
  <2>1. CASE s.want = 0
    <3>1. pg_drain(c, t) /\ now' = now /\ w = pg_set_back(c, t, 0)
      BY <1>3, <2>1
    <3> HIDE DEF c, w
    <3> QED
      BY <1>1, <1>2, <1>4, <3>1, PgDrainStep, ZenonT(60)
  <2>2. CASE s.want # 0
    <3> DEFINE ug == Unit * Tokens(pg_granted(c, t, s.want))
    <3>1. pg_take(c, t, s.want) /\ now' = now /\ w = pg_minted(c, t, s.want)
      BY <1>3, <2>2
    <3> HIDE DEF c, w
    <3>2. /\ table' \in [Class -> RowType]
          /\ \A d \in Class : table'[d].cfg = table[d].cfg
          /\ \A d \in Class \ {c} : table'[d] = table[d]
          /\ PgPotential(c)' + ug <= PgPotential(c) + w
          /\ ug \in Nat /\ w \in Nat /\ PgPotential(c)' \in Int
      BY <1>1, <1>2, <1>4, <3>1, PgTakeStep, ZenonT(60)
    <3> HIDE DEF ug
    <3> QED
      BY <1>5, <3>2
  <2> QED
    BY <2>1, <2>2
<1> HIDE DEF c, w
<1>7. Conserved' /\ minted' \in [Class -> Nat] /\ drawn' \in [Class -> Int]
  <2>1. RedisPotential(c)' = RedisPotential(c) /\ RedisPotential(c)' \in Int
    BY <1>3, <1>5 DEF RedisPotential
  <2>2. drawn' = [drawn EXCEPT ![c] = @ + 0] /\ now' = now
        /\ \A d \in Class \ {c} : bucket'[d] = bucket[d] /\ table'[d] = table[d]
    BY <1>1, <1>2, <1>3, <1>6 DEF TypeOK
  <2>3. Unit * 0 = 0
    BY RateAssumption
  <2>4. RedisPotential(c)' + PgPotential(c)' + Unit * 0 <= RedisPotential(c) + PgPotential(c) + w
    BY <1>5, <1>6, <2>1, <2>3
  <2>5. 0 \in Int
    OBVIOUS
  <2> QED
    BY ONLY <1>1, <1>2, <1>3, <1>6, <2>1, <2>2, <2>4, <2>5, AccountStep
<1>8. TypeOK'
  <2>1. bucket' \in [Class -> BucketType] /\ statements' \subseteq StatementType /\ faults' \in Nat
        /\ pass' \in [Engine -> PassType]
    BY <1>1, <1>3 DEF TypeOK, BucketType
  <2>2. now' = now /\ UNCHANGED <<up, admin, ready, passes, setup, started>>
    BY <1>3
  <2> QED
    BY ONLY <1>1, <1>6, <1>7, <2>1, <2>2, OneClassTypes
<1>9. CachedIsConfigured'
  BY <1>1, <1>3, <1>6, ZenonT(60) DEF CachedIsConfigured, admin
<1>10. TakenIsConfigured'
  <2>1. \A f \in Engine : pass'[f].taking \subseteq pass[f].taking
    BY <1>3
  <2> QED
    BY <1>1, <1>3, <1>6, <2>1, TakenKept
<1> QED
  BY <1>7, <1>8, <1>9, <1>10 DEF IInv

\* What a release leaves in the pass and in the account of tokens that are out.
LEMMA Returned ==
  ASSUME TypeOK, NEW e \in Engine, NEW c \in Class, returned(e, c)
  PROVE  /\ pass[e].reserved[c] \in Nat
         /\ pass' \in [Engine -> PassType]
         /\ \A f \in Engine : pass'[f].taking \subseteq pass[f].taking
         /\ drawn' \in [Class -> Int]
         /\ drawn'[c] = drawn[c] + (0 - pass[e].reserved[c])
         /\ \A d \in Class \ {c} : drawn'[d] = drawn[d]
<1>1. pass[e].reserved[c] \in Nat
  BY PassTypes
<1>2. pass' \in [Engine -> PassType] /\ \A f \in Engine : pass'[f].taking \subseteq pass[f].taking
  <2>0. 0 \in Int
    OBVIOUS
  <2>1. settled(pass[e], c) \in PassType /\ settled(pass[e], c).taking = pass[e].taking
    BY <2>0, PassMoves
  <2>2. pass' = [pass EXCEPT ![e] = settled(pass[e], c)]
    BY DEF returned
  <2>3. pass \in [Engine -> PassType]
    BY DEF TypeOK
  <2> QED
    BY ONLY <2>1, <2>2, <2>3, e \in Engine
<1>3. drawn' = [drawn EXCEPT ![c] = @ - pass[e].reserved[c]] /\ drawn \in [Class -> Int]
  BY DEF returned, TypeOK
<1> QED
  BY <1>1, <1>2, <1>3

\* release to either backend, or to both when the reply is late.
LEMMA ReleaseStep ==
  ASSUME IInv, NEW e \in Engine, NEW c \in Class, Release(e, c)
  PROVE  IInv'
<1> DEFINE give == pass[e].reserved[c]
           g == 0 - give
<1>1. TypeOK /\ CachedIsConfigured /\ Conserved
  BY DEF IInv
<1>2. returned(e, c) /\ UNCHANGED <<now, statements, up, admin, ready, passes, setup, started>>
      /\ (faults' = faults \/ Fault)
  BY ZenonT(60) DEF Release, release_unlimited, release_redis, release_pg, redis_call, backend
<1>3. /\ give \in Nat /\ pass' \in [Engine -> PassType] /\ drawn' \in [Class -> Int]
      /\ \A f \in Engine : pass'[f].taking \subseteq pass[f].taking
      /\ drawn'[c] = drawn[c] + g
      /\ \A d \in Class \ {c} : drawn'[d] = drawn[d]
  BY <1>1, <1>2, Returned
<1>4. RedisPotential(c) \in Nat /\ PgPotential(c) \in Nat /\ Budget \in Nat /\ minted[c] \in Nat
  BY <1>1, Sums
<1>5. Unit * give \in Nat /\ Unit * g = 0 - Unit * give
  <2>1. Unit \in Nat /\ 0 \in Int /\ give \in Int /\ Unit * 0 = 0
    BY <1>3, RateAssumption
  <2>2. Unit * (0 - give) = Unit * 0 - Unit * give
    BY <2>1
  <2> QED
    BY <1>3, <2>1
<1> HIDE DEF give, g
<1> DEFINE Done(w) ==
      /\ w \in Nat
      /\ bucket' \in [Class -> BucketType] /\ table' \in [Class -> RowType]
      /\ \A d \in Class : table'[d].cfg = table[d].cfg
      /\ \A d \in Class \ {c} : bucket'[d] = bucket[d] /\ table'[d] = table[d]
      /\ RedisPotential(c)' \in Int /\ PgPotential(c)' \in Int
      /\ RedisPotential(c)' + PgPotential(c)' + Unit * g <= RedisPotential(c) + PgPotential(c) + w
      /\ minted' = [minted EXCEPT ![c] = @ + w]
<1>6. \E w \in Nat : Done(w)
  <2>0. bucket \in [Class -> BucketType] /\ table \in [Class -> RowType] /\ minted \in [Class -> Nat]
    BY <1>1 DEF TypeOK, BucketType, RowType
  <2>1. CASE release_unlimited(e, c)
    <3>1. bucket' = bucket /\ table' = table /\ minted' = minted
      BY <2>1 DEF release_unlimited, backend
    <3>2. RedisPotential(c)' = RedisPotential(c) /\ PgPotential(c)' = PgPotential(c)
      BY <1>2, <3>1 DEF RedisPotential, PgPotential
    <3>3. minted' = [minted EXCEPT ![c] = @ + 0]
      BY <2>0, <3>1
    <3>4. bucket' \in [Class -> BucketType] /\ table' \in [Class -> RowType]
      BY <2>0, <3>1
    <3>5. RedisPotential(c)' + PgPotential(c)' + Unit * g <= RedisPotential(c) + PgPotential(c) + 0
          /\ RedisPotential(c)' \in Int /\ PgPotential(c)' \in Int
      BY <1>4, <1>5, <3>2
    <3>6. Done(0)
      BY <3>1, <3>3, <3>4, <3>5, ZenonT(60)
    <3> QED
      BY <3>6, ZenonT(60)
  <2>2. CASE release_redis(e, c)
    <3>1. cfg[e][c] \in Config /\ lua_return(e, c, give) /\ table' = table /\ minted' = minted /\ now' = now
      BY <1>1, <2>2, CachedRow, ZenonT(60) DEF release_redis, give
    <3>2. /\ bucket' \in [Class -> BucketType]
          /\ \A d \in Class \ {c} : bucket'[d] = bucket[d]
          /\ RedisPotential(c)' <= RedisPotential(c) + Unit * give /\ RedisPotential(c)' \in Int
      BY <1>1, <1>3, <3>1, LuaReturnStep
    <3>3. PgPotential(c)' = PgPotential(c)
      BY <3>1 DEF PgPotential
    <3>4. minted' = [minted EXCEPT ![c] = @ + 0] /\ table' \in [Class -> RowType]
      BY <2>0, <3>1
    <3>5. RedisPotential(c)' + PgPotential(c)' + Unit * g <= RedisPotential(c) + PgPotential(c) + 0
          /\ PgPotential(c)' \in Int
      BY <1>4, <1>5, <3>2, <3>3
    <3>6. Done(0)
      BY <3>1, <3>2, <3>4, <3>5, ZenonT(60)
    <3> QED
      BY <3>6, ZenonT(60)
  <2>3. ASSUME NEW o \in {"down", "late"}, release_pg(e, c, o)
        PROVE  \E w \in Nat : Done(w)
    <3> DEFINE w == IF o = "late" THEN Unit * give ELSE 0
    <3>1. /\ cfg[e][c] \in Config /\ table[c].cfg \in Config /\ pg_return(c, give) /\ now' = now
          /\ o = "late" => lua_return(e, c, give)
          /\ o # "late" => bucket' = bucket
      BY <1>1, <2>3, CachedRow, ZenonT(60) DEF release_pg, give
    <3>2. /\ table' \in [Class -> RowType]
          /\ \A d \in Class : table'[d].cfg = table[d].cfg
          /\ \A d \in Class \ {c} : table'[d] = table[d]
          /\ PgPotential(c)' <= PgPotential(c) + Unit * give /\ PgPotential(c)' \in Int
      BY <1>1, <1>3, <3>1, PgReturnStep
    <3>3. /\ bucket' \in [Class -> BucketType] /\ w \in Nat
          /\ \A d \in Class \ {c} : bucket'[d] = bucket[d]
          /\ RedisPotential(c)' <= RedisPotential(c) + w /\ RedisPotential(c)' \in Int
      <4>1. CASE o = "late"
        BY <1>1, <1>3, <3>1, <4>1, LuaReturnStep, ZenonT(60)
      <4>2. CASE o # "late"
        <5>1. bucket' = bucket /\ w = 0
          BY <3>1, <4>2
        <5>2. RedisPotential(c)' = RedisPotential(c)
          BY <3>1, <5>1 DEF RedisPotential
        <5> HIDE DEF w
        <5> QED
          BY ONLY <1>4, <2>0, <5>1, <5>2
      <4> QED
        BY <4>1, <4>2
    <3>4. minted' = [minted EXCEPT ![c] = @ + w]
      <4>1. CASE o = "late"
        BY <2>3, <4>1 DEF release_pg, give
      <4>2. CASE o # "late"
        <5>1. minted' = minted /\ w = 0
          BY <2>3, <4>2 DEF release_pg
        <5> HIDE DEF w
        <5> QED
          BY <2>0, <5>1
      <4> QED
        BY <4>1, <4>2
    <3> HIDE DEF w
    <3>5. RedisPotential(c)' + PgPotential(c)' + Unit * g <= RedisPotential(c) + PgPotential(c) + w
      BY <1>4, <1>5, <3>2, <3>3
    <3>6. Done(w)
      BY <3>2, <3>3, <3>4, <3>5
    <3> QED
      BY <3>6, ZenonT(60)
  <2> QED
    BY <2>1, <2>2, <2>3, ZenonT(60) DEF Release
<1>7. PICK w \in Nat : Done(w)
  BY <1>6, ZenonT(60)
<1>8. TypeOK'
  <2>1. minted' \in [Class -> Nat]
    BY <1>1, <1>7 DEF TypeOK
  <2>2. faults' \in Nat /\ statements' \subseteq StatementType
    BY <1>1, <1>2 DEF TypeOK, Fault
  <2> QED
    BY ONLY <1>1, <1>2, <1>3, <1>7, <2>1, <2>2, OneClassTypes
<1>9. CachedIsConfigured'
  BY <1>1, <1>2, <1>7, ZenonT(60) DEF CachedIsConfigured, admin
<1>10. Conserved'
  <2>1. /\ w \in Nat /\ minted' = [minted EXCEPT ![c] = @ + w]
        /\ RedisPotential(c)' \in Int /\ PgPotential(c)' \in Int
        /\ RedisPotential(c)' + PgPotential(c)' + Unit * g <= RedisPotential(c) + PgPotential(c) + w
        /\ \A d \in Class \ {c} : bucket'[d] = bucket[d] /\ table'[d] = table[d]
    BY <1>7, ZenonT(60)
  <2>2. drawn' = [drawn EXCEPT ![c] = @ + g] /\ g \in Int
    <3>1. drawn \in [Class -> Int] /\ give \in Nat /\ drawn' = [drawn EXCEPT ![c] = @ - give]
      BY <1>1, <1>2, <1>3 DEF returned, TypeOK, give
    <3>2. g \in Int /\ drawn[c] - give = drawn[c] + g
      BY ONLY <3>1, c \in Class DEF g
    <3> HIDE DEF g, give
    <3> QED
      BY ONLY <3>1, <3>2, ZenonT(60)
  <2> QED
    BY ONLY <1>1, <1>2, <2>1, <2>2, c \in Class, AccountStep
<1>11. TakenIsConfigured'
  BY <1>1, <1>2, <1>3, <1>7, TakenKept DEF IInv
<1> QED
  BY <1>8, <1>9, <1>10, <1>11 DEF IInv

(***************************************************************************)
(* The remaining steps, and the theorems.                                  *)
(***************************************************************************)

\* Draining empties the Redis bucket, at worst moving its stamp back, or sends
\* an UPDATE, or both.
LEMMA DrainStep ==
  ASSUME IInv, NEW e \in Engine, NEW c \in Class, NEW o \in {"ok", "down", "late"}, drain(e, c, o)
  PROVE  IInv'
<1> DEFINE w == IF o = "down" THEN 0 ELSE rewound(e, c)
<1>1. TypeOK /\ CachedIsConfigured /\ Conserved
  BY DEF IInv
<1>2. /\ UNCHANGED <<now, table, up, admin, pass, ready, passes, setup, drawn, started>> /\ Fault
      /\ o = "down" => bucket' = bucket /\ minted' = minted
      /\ o # "down" => /\ bucket' = [bucket EXCEPT ![c] = [live |-> TRUE, tokens |-> 0, ts |-> clock(e)]]
                       /\ minted' = [minted EXCEPT ![c] = @ + rewound(e, c)]
      /\ statements' = statements \/ statements' = statements \cup {Statement(c, now, 0)}
  BY DEF drain
<1>3. cfg[e][c] \in Config /\ table[c].cfg \in Config
  BY <1>1, CachedRow DEF drain
<1>4. /\ bucket \in [Class -> BucketType] /\ table \in [Class -> RowType] /\ minted \in [Class -> Nat]
      /\ drawn \in [Class -> Int] /\ faults' \in Nat /\ pass' \in [Engine -> PassType]
      /\ now \in Nat /\ MaxCapacity \in Nat /\ MaxRefill \in Nat /\ statements' \subseteq StatementType
  <2>1. MaxCapacity \in Nat /\ MaxRefill \in Nat
    BY RateAssumption
  <2>5. statements' \subseteq StatementType
    <3>1. Statement(c, now, 0) \in StatementType /\ statements \subseteq StatementType
      BY <1>1, RateAssumption DEF Statement, StatementType, TypeOK
    <3> QED
      BY <1>2, <3>1
  <2>2. faults' \in Nat /\ pass' = pass
    <3>1. faults \in Nat
      BY <1>1 DEF TypeOK
    <3>2. Fault /\ pass' = pass
      BY <1>2
    <3> QED
      BY ONLY <3>1, <3>2 DEF Fault
  <2>3. bucket \in [Class -> BucketType] /\ table \in [Class -> RowType]
    BY <1>1 DEF TypeOK, BucketType, RowType
  <2>4. /\ minted \in [Class -> Nat] /\ drawn \in [Class -> Int] /\ now \in Nat
        /\ pass \in [Engine -> PassType]
    BY <1>1 DEF TypeOK
  <2> QED
    BY <2>1, <2>2, <2>3, <2>4, <2>5
<1>5. RedisPotential(c) \in Nat /\ PgPotential(c) \in Nat /\ Budget \in Nat /\ minted[c] \in Nat
      /\ Unit * drawn[c] \in Int
  BY <1>1, Sums
<1>6. clock(e) \in 0..now /\ now - clock(e) \in Nat
  BY <1>1, ClockBehind
<1>7. rewound(e, c) \in Nat /\ MaxRefill * (now - clock(e)) <= RedisPotential(c) + rewound(e, c)
  <2>1. LET left == lua_refilled(e, c) - Unit * Granted(lua_refilled(e, c), 0) IN
        /\ left \in 0..MaxCapacity
        /\ rewound(e, c) \in Nat
        /\ left + MaxRefill * (now - clock(e)) + Unit * Granted(lua_refilled(e, c), 0)
             <= RedisPotential(c) + rewound(e, c)
    BY <1>1, <1>3, LuaTake
  <2>2. Granted(lua_refilled(e, c), 0) \in 0..0
    BY <1>1, <1>3, LuaTake
  <2>3. Unit * Granted(lua_refilled(e, c), 0) = 0
    BY <2>2, RateAssumption
  <2>4. MaxRefill * (now - clock(e)) \in Nat
    BY <1>4, <1>6
  <2> DEFINE lr == lua_refilled(e, c)
             gr == Unit * Granted(lr, 0)
  <2>5. gr = 0 /\ lr - gr \in 0..MaxCapacity /\ rewound(e, c) \in Nat
        /\ lr - gr + MaxRefill * (now - clock(e)) + gr <= RedisPotential(c) + rewound(e, c)
    BY <2>1, <2>3
  <2> HIDE DEF lr, gr
  <2> QED
    BY <1>5, <2>4, <2>5
<1>8. CachedIsConfigured' /\ TakenIsConfigured'
  <2>1. table[c].cfg.known /\ Statement(c, now, 0).class = c
    BY <1>3, RateAssumption, ZenonT(60) DEF Statement
  <2>2. TakenIsConfigured'
    BY <1>2, <2>1 DEF IInv, TakenIsConfigured
  <2>3. CachedIsConfigured'
    BY <1>1, <1>2 DEF CachedIsConfigured, admin
  <2> QED
    BY <2>2, <2>3
<1>9. /\ bucket' \in [Class -> BucketType] /\ w \in Nat /\ minted' = [minted EXCEPT ![c] = @ + w]
      /\ \A d \in Class \ {c} : bucket'[d] = bucket[d]
      /\ RedisPotential(c)' <= RedisPotential(c) + w /\ RedisPotential(c)' \in Int
  <2>1. CASE o = "down"
    <3>1. bucket' = bucket /\ minted' = minted /\ w = 0
      BY <1>2, <2>1
    <3>2. RedisPotential(c)' = RedisPotential(c)
      BY <1>2, <3>1 DEF RedisPotential
    <3> HIDE DEF w
    <3> QED
      BY ONLY <1>4, <1>5, <3>1, <3>2
  <2>2. CASE o # "down"
    <3>1. w = rewound(e, c)
      BY <2>2
    <3>2. RedisPotential(c)' = 0 + MaxRefill * (now - clock(e))
      <4>1. bucket' = [bucket EXCEPT ![c] = [live |-> TRUE, tokens |-> 0, ts |-> clock(e)]] /\ now' = now
        BY <1>2, <2>2
      <4>2. bucket'[c] = [live |-> TRUE, tokens |-> 0, ts |-> clock(e)]
        BY ONLY <1>4, <4>1, c \in Class
      <4>3. bucket'[c].live = TRUE /\ bucket'[c].tokens = 0 /\ bucket'[c].ts = clock(e)
        BY ONLY <4>2
      <4> QED
        BY ONLY <4>1, <4>3 DEF RedisPotential
    <3>3. MaxRefill * (now - clock(e)) \in Nat
      BY <1>4, <1>6
    <3>4. bucket' \in [Class -> BucketType] /\ \A d \in Class \ {c} : bucket'[d] = bucket[d]
      <4>1. [live |-> TRUE, tokens |-> 0, ts |-> clock(e)] \in BucketType
        BY <1>4, <1>6 DEF BucketType
      <4> QED
        BY <1>2, <1>4, <4>1, ZenonT(60)
    <3> HIDE DEF w
    <3>5. minted' = [minted EXCEPT ![c] = @ + w]
      BY <1>2, <2>2, <3>1
    <3> QED
      BY ONLY <1>7, <3>1, <3>2, <3>3, <3>4, <3>5
  <2> QED
    BY <2>1, <2>2
<1>10. /\ table' \in [Class -> RowType] /\ \A d \in Class \ {c} : table'[d] = table[d]
       /\ PgPotential(c)' <= PgPotential(c) /\ PgPotential(c)' \in Int
  <2>1. table' = table /\ PgPotential(c)' = PgPotential(c)
    BY <1>2 DEF PgPotential
  <2> QED
    BY <1>4, <1>5, <2>1
<1> HIDE DEF w
<1>11. minted' \in [Class -> Nat] /\ minted'[c] = minted[c] + w
       /\ \A d \in Class \ {c} : minted'[d] = minted[d]
  BY <1>4, <1>9
<1>12. TypeOK'
  BY <1>1, <1>2, <1>4, <1>9, <1>10, <1>11, OneClassTypes
<1>13. RedisPotential(c) + PgPotential(c) + Unit * drawn[c] <= Budget + minted[c]
  BY <1>1 DEF Conserved
<1>14. drawn' = drawn /\ now' = now
  BY <1>2
<1>15. RedisPotential(c)' + PgPotential(c)' + Unit * drawn'[c] <= Budget + minted'[c]
  <2> DEFINE ud == Unit * drawn[c]
  <2>1. ud \in Int /\ RedisPotential(c) + PgPotential(c) + ud <= Budget + minted[c]
    BY <1>5, <1>13
  <2> HIDE DEF ud
  <2>2. RedisPotential(c)' + PgPotential(c)' + ud <= Budget + minted'[c]
    BY ONLY <1>5, <1>9, <1>10, <1>11, <2>1
  <2> QED
    BY <1>14, <2>2 DEF ud
<1>16. Conserved'
  BY ONLY <1>1, <1>9, <1>10, <1>11, <1>14, <1>15, c \in Class, OneClass
<1> QED
  BY <1>8, <1>12, <1>16 DEF IInv

\* An edit keeps the tokens of a row; a new row is no fuller than its class was
\* counted to be.
LEMMA UpsertStep ==
  ASSUME IInv, NEW e \in Engine, NEW c \in Class, NEW k \in Config, upsert(e, c, k)
  PROVE  IInv'
<1> DEFINE x == IF table[c].cfg.known THEN edited_row(table[c], k) ELSE new_row(k, now)
<1>1. TypeOK /\ CachedIsConfigured /\ Conserved
  BY DEF IInv
<1>2. /\ table' = [table EXCEPT ![c] = x]
      /\ edit' = [edit EXCEPT ![e] = [NoEdit EXCEPT ![c] = k]]
      /\ edits' = edits - 1 /\ edits > 0
      /\ UNCHANGED <<now, bucket, statements, up, cfg, load, pass, ready, faults, passes, setup, history>>
  BY ZenonT(60) DEF upsert
<1>3. k.known = TRUE /\ k.capacity \in 0..MaxCapacity /\ MaxCapacity \in Nat /\ MaxRefill \in Nat
      /\ Unit \in Nat
  BY RateAssumption, ZenonT(60)
<1>4. table \in [Class -> RowType] /\ now \in Nat
  BY <1>1 DEF TypeOK, RowType
<1>5. x \in RowType /\ x.cfg = k /\ x.cfg.known = TRUE
  <2>1. edited_row(table[c], k) \in RowType /\ edited_row(table[c], k).cfg = k
    BY <1>4 DEF RowType, edited_row
  <2>2. new_row(k, now) \in RowType /\ new_row(k, now).cfg = k
    BY <1>3, <1>4 DEF RowType, new_row
  <2> QED
    BY <1>3, <2>1, <2>2, ZenonT(60)
<1>6. TypeOK'
  <2>1. [NoEdit EXCEPT ![c] = k] \in [Class -> Config \cup {Unknown}]
    BY DEF NoEdit
  <2>2. edit' \in [Engine -> [Class -> Config \cup {Unknown}]]
    BY <1>1, <1>2, <2>1, ZenonT(60) DEF TypeOK
  <2> HIDE DEF x
  <2>3. table' \in [Class -> RowType] /\ edits' \in Nat
    BY <1>1, <1>2, <1>4, <1>5 DEF TypeOK
  <2> QED
    BY <1>1, <1>2, <2>2, <2>3 DEF TypeOK, RowType, history
<1>7. CachedIsConfigured'
  <2> SUFFICES ASSUME NEW d \in Class, ~table'[d].cfg.known, NEW f \in Engine
               PROVE  ~cfg'[f][d].known /\ ~load'[f].rows[d].known /\ ~edit'[f][d].known
    BY ZenonT(60) DEF CachedIsConfigured
  <2>1. d # c /\ table'[d] = table[d]
    BY <1>2, <1>4, <1>5
  <2>2. ~cfg[f][d].known /\ ~load[f].rows[d].known /\ ~edit[f][d].known
    BY <1>1, <2>1 DEF CachedIsConfigured
  <2>3. ~([NoEdit EXCEPT ![c] = k])[d].known
    BY <2>1 DEF NoEdit, Unknown
  <2>4. edit'[f] = edit[f] \/ edit'[f] = [NoEdit EXCEPT ![c] = k]
    BY <1>2 DEF TypeOK
  <2> QED
    BY <1>2, <2>2, <2>3, <2>4, ZenonT(60)
<1>8. Conserved'
  <2>1. PgPotential(c)' <= PgPotential(c) /\ PgPotential(c)' \in Int
    <3>1. table'[c] = x /\ now' = now
      BY <1>2, <1>4
    <3>2. PgPotential(c)' = x.tokens + MaxRefill * (now - x.refilled_at)
      BY <1>5, <3>1, ZenonT(60) DEF PgPotential
    <3>3. CASE table[c].cfg.known
      <4>1. x.tokens = table[c].tokens /\ x.refilled_at = table[c].refilled_at
        BY <3>3 DEF edited_row
      <4>2. PgPotential(c)' = PgPotential(c)
        BY <3>2, <3>3, <4>1, ZenonT(60) DEF PgPotential
      <4>3. PgPotential(c) \in Nat
        BY <1>1, Sums, ZenonT(60)
      <4> QED
        BY ONLY <4>2, <4>3
    <3>4. CASE ~table[c].cfg.known
      <4>1. x.tokens = k.capacity /\ x.refilled_at = now /\ PgPotential(c) = MaxCapacity
        <5>1. x = new_row(k, now)
          BY <3>4
        <5> QED
          BY <3>4 DEF new_row, PgPotential
      <4>2. MaxRefill * (now - now) = 0
        BY <1>3, <1>4
      <4>3. PgPotential(c)' = k.capacity + 0
        BY <3>2, <4>1, <4>2
      <4> QED
        BY <1>3, <4>1, <4>3
    <3>5. table[c].cfg.known \in BOOLEAN
      BY <1>4, KnownIsConfig DEF RowType
    <3> QED
      BY <3>3, <3>4
  <2>2. RedisPotential(c)' = RedisPotential(c) /\ drawn' = drawn /\ minted' = minted /\ now' = now
    BY <1>2 DEF RedisPotential, history
  <2>3. RedisPotential(c) + PgPotential(c) + Unit * drawn[c] <= Budget + minted[c]
    BY <1>1 DEF Conserved
  <2>4. RedisPotential(c)' + PgPotential(c)' + Unit * drawn'[c] <= Budget + minted'[c]
    <3> DEFINE p == RedisPotential(c)
               ud == Unit * drawn[c]
    <3>1. /\ p \in Nat /\ ud \in Int /\ PgPotential(c) \in Nat /\ Budget \in Nat /\ minted[c] \in Nat
          /\ p + PgPotential(c) + ud <= Budget + minted[c]
      BY <1>1, <2>3, Sums
    <3> HIDE DEF p, ud
    <3>2. p + PgPotential(c)' + ud <= Budget + minted[c]
      BY ONLY <2>1, <3>1
    <3> QED
      BY <2>2, <3>2 DEF p, ud
  <2>5. \A d \in Class \ {c} : /\ bucket'[d] = bucket[d] /\ table'[d] = table[d]
                               /\ drawn'[d] = drawn[d] /\ minted'[d] = minted[d]
    <3> HIDE DEF x
    <3>1. bucket' = bucket /\ table' = [table EXCEPT ![c] = x]
      BY <1>2
    <3> QED
      BY ONLY <1>4, <2>2, <3>1
  <2> QED
    BY ONLY <1>1, <2>2, <2>4, <2>5, c \in Class, OneClass, ZenonT(60)
<1>9. TakenIsConfigured'
  <2> HIDE DEF x
  <2>1. \A d \in Class : table[d].cfg.known => table'[d].cfg.known
    BY <1>2, <1>4, <1>5
  <2>2. (\A f \in Engine : pass'[f].taking \subseteq pass[f].taking) /\ statements' \subseteq statements
    BY <1>2
  <2> QED
    BY <1>1, <2>1, <2>2, TakenKept, ZenonT(60) DEF IInv
<1> QED
  BY <1>6, <1>7, <1>8, <1>9 DEF IInv

\* A tick refills each of the two buckets by at most MaxRefill.
LEMMA TickStep ==
  ASSUME IInv, tick
  PROVE  IInv'
<1>1. TypeOK /\ CachedIsConfigured /\ Conserved
  BY DEF IInv
<1>2. now' = now + 1 /\ UNCHANGED <<table, bucket, statements, up, admin, pass, ready, faults, passes, setup, history>>
  BY DEF tick, backend
<1>3. now \in Nat /\ MaxRefill \in Nat /\ MaxCapacity \in Nat /\ MaxSkew \in Nat
  BY <1>1, RateAssumption DEF TypeOK
<1>4. 0..now \subseteq 0..now'
  BY <1>2, <1>3
<1>5. TypeOK'
  BY <1>1, <1>2 DEF TypeOK, admin, history
<1>6. CachedIsConfigured'
  BY <1>1, <1>2, ZenonT(60) DEF CachedIsConfigured, admin
<1>7. Budget' = Budget + 2 * MaxRefill
  <2>1. MaxRefill * (now + 1) = MaxRefill * now + MaxRefill /\ MaxRefill * now \in Nat
        /\ MaxRefill * MaxSkew \in Nat
    BY <1>3
  <2> DEFINE m == MaxRefill * now
             s == MaxRefill * MaxSkew
  <2>2. Budget' = 2 * MaxCapacity + s + 2 * (m + MaxRefill) /\ Budget = 2 * MaxCapacity + s + 2 * m
    BY <1>2, <2>1 DEF Budget
  <2>3. m \in Nat /\ s \in Nat
    BY <2>1
  <2> HIDE DEF m, s
  <2> QED
    BY <1>3, <2>2, <2>3
<1>8. ASSUME NEW d \in Class
      PROVE  RedisPotential(d)' + PgPotential(d)' + Unit * drawn'[d] <= Budget' + minted'[d]
  <2>1. bucket[d].ts \in 0..now /\ table[d].refilled_at \in 0..now
        /\ bucket[d].tokens \in Nat /\ table[d].tokens \in Nat
    BY <1>1, RateAssumption DEF TypeOK
  <2>2. ASSUME NEW t \in 0..now
        PROVE  MaxRefill * (now' - t) = MaxRefill * (now - t) + MaxRefill /\ MaxRefill * (now - t) \in Nat
    <3>1. now' - t = (now - t) + 1 /\ now - t \in Nat
      BY <1>2, <1>3
    <3> QED
      BY <1>3, <3>1
  <2>3. RedisPotential(d)' <= RedisPotential(d) + MaxRefill /\ RedisPotential(d)' \in Int
    <3>1. CASE bucket[d].live
      <4> DEFINE m == MaxRefill * (now - bucket[d].ts)
      <4>1. RedisPotential(d)' = bucket[d].tokens + (m + MaxRefill) /\ RedisPotential(d) = bucket[d].tokens + m
            /\ m \in Nat
        BY <1>2, <2>1, <2>2, <3>1 DEF RedisPotential
      <4> HIDE DEF m
      <4> QED
        BY <1>3, <2>1, <4>1
    <3>2. CASE ~bucket[d].live
      <4>1. RedisPotential(d)' = RedisPotential(d)
        BY <1>2, <3>2 DEF RedisPotential
      <4> QED
        BY <1>1, <1>3, <4>1, Sums
    <3> QED
      BY <3>1, <3>2
  <2>4. PgPotential(d)' <= PgPotential(d) + MaxRefill /\ PgPotential(d)' \in Int
    <3>1. CASE table[d].cfg.known
      <4> DEFINE m == MaxRefill * (now - table[d].refilled_at)
      <4>1. PgPotential(d)' = table[d].tokens + (m + MaxRefill) /\ PgPotential(d) = table[d].tokens + m
            /\ m \in Nat
        BY <1>2, <2>1, <2>2, <3>1 DEF PgPotential
      <4> HIDE DEF m
      <4> QED
        BY <1>3, <2>1, <4>1
    <3>2. CASE ~table[d].cfg.known
      <4>1. PgPotential(d)' = PgPotential(d)
        BY <1>2, <3>2 DEF PgPotential
      <4> QED
        BY <1>1, <1>3, <4>1, Sums
    <3> QED
      BY <3>1, <3>2
  <2>5. RedisPotential(d) + PgPotential(d) + Unit * drawn[d] <= Budget + minted[d]
    BY <1>1 DEF Conserved
  <2>6. drawn' = drawn /\ minted' = minted
    BY <1>2 DEF history
  <2>7. RedisPotential(d) \in Nat /\ PgPotential(d) \in Nat /\ Unit * drawn[d] \in Int
        /\ minted[d] \in Nat /\ Budget \in Nat
    BY <1>1, Sums
  <2> DEFINE ud == Unit * drawn[d]
  <2>8. ud \in Int /\ RedisPotential(d) + PgPotential(d) + ud <= Budget + minted[d]
    BY <2>5, <2>7
  <2> HIDE DEF ud
  <2>9. RedisPotential(d)' + PgPotential(d)' + ud <= Budget' + minted[d]
    BY <1>3, <1>7, <2>3, <2>4, <2>7, <2>8
  <2> QED
    BY <2>6, <2>9 DEF ud
<1>9. Conserved'
  BY <1>8 DEF Conserved
<1>10. TakenIsConfigured'
  BY <1>2 DEF IInv, TakenIsConfigured
<1> QED
  BY <1>5, <1>6, <1>9, <1>10 DEF IInv

\* A bucket that Redis loses counts as full again; minted pays for it.
LEMMA ForgetsStep ==
  ASSUME IInv, NEW c \in Class, redis_forgets(c)
  PROVE  IInv'
<1>1. TypeOK /\ CachedIsConfigured /\ Conserved
  BY DEF IInv
<1>2. /\ bucket' = [bucket EXCEPT ![c] = Absent]
      /\ minted' = [minted EXCEPT ![c] = @ + MaxCapacity + MaxRefill * MaxSkew]
      /\ UNCHANGED <<now, table, statements, up, admin, pass, ready, passes, setup, drawn, started>> /\ Fault
  BY DEF redis_forgets
<1>3. now \in Nat /\ MaxRefill \in Nat /\ MaxCapacity \in Nat /\ MaxSkew \in Nat
      /\ bucket \in [Class -> BucketType] /\ table \in [Class -> RowType] /\ minted \in [Class -> Nat]
      /\ drawn \in [Class -> Int] /\ faults' \in Nat /\ pass' \in [Engine -> PassType]
      /\ statements' \subseteq StatementType
  BY <1>1, <1>2, RateAssumption DEF TypeOK, BucketType, RowType, Fault
<1>4. MaxRefill * MaxSkew \in Nat
  BY <1>3
<1> DEFINE full == MaxCapacity + MaxRefill * MaxSkew
<1>5. full \in Nat /\ minted'[c] = minted[c] + full /\ \A d \in Class \ {c} : minted'[d] = minted[d]
  BY <1>2, <1>3
<1>6. minted' \in [Class -> Nat]
  BY <1>2, <1>3
<1>7. Absent \in BucketType
  BY <1>3 DEF Absent, BucketType
<1>8. bucket' \in [Class -> BucketType] /\ ~bucket'[c].live
  BY <1>2, <1>3, <1>7 DEF Absent
<1>9. TypeOK'
  BY <1>1, <1>2, <1>3, <1>8, OneClassTypes
<1>10. RedisPotential(c)' = full /\ PgPotential(c)' = PgPotential(c) /\ drawn' = drawn
  BY <1>2, <1>8 DEF RedisPotential, PgPotential
<1> HIDE DEF full
<1>11. RedisPotential(c)' + PgPotential(c)' + Unit * drawn'[c] <= Budget + minted'[c]
  <2>1. RedisPotential(c) \in Nat /\ PgPotential(c) \in Nat /\ Unit * drawn[c] \in Int
        /\ minted[c] \in Nat /\ Budget \in Nat
    BY <1>1, Sums
  <2>2. RedisPotential(c) + PgPotential(c) + Unit * drawn[c] <= Budget + minted[c]
    BY <1>1 DEF Conserved
  <2> QED
    BY <1>5, <1>10, <2>1, <2>2
<1>12. now' = now /\ \A d \in Class \ {c} : /\ bucket'[d] = bucket[d] /\ table'[d] = table[d]
                                            /\ drawn'[d] = drawn[d] /\ minted'[d] = minted[d]
  BY <1>2
<1>13. Conserved'
  BY ONLY <1>1, <1>11, <1>12, c \in Class, OneClass
<1>14. CachedIsConfigured' /\ TakenIsConfigured'
  BY <1>1, <1>2 DEF IInv, CachedIsConfigured, TakenIsConfigured, admin
<1> QED
  BY <1>9, <1>13, <1>14 DEF IInv

\* Every step keeps the invariant.
LEMMA Preserved == IInv /\ [Next]_vars => IInv'
<1> SUFFICES ASSUME IInv, [Next]_vars PROVE IInv'
  OBVIOUS
<1>1. CASE Next
  <2>1. CASE Environment
    BY <2>1, TickStep, OutsideStep, ForgetsStep, CacheStep DEF Environment
  <2>2. ASSUME NEW e \in Engine,
               \/ \E limit \in 1..Limit : peek(e, limit)
               \/ claim(e) \/ pass_ends(e) \/ pass_fails(e)
               \/ load_reads(e) \/ load_stores(e) \/ upsert_caches(e)
        PROVE  IInv'
    BY <2>2, PassStep, ClaimStep, CacheStep
  <2>3. ASSUME NEW e \in Engine, NEW c \in Class, Reserve(e, c)
        PROVE  IInv'
    BY <2>3, ReserveUnlimitedStep, ReserveRedisStep, FallsBackStep, ReservePgStep DEF Reserve
  <2>4. ASSUME NEW e \in Engine, NEW c \in Class,
               \/ Release(e, c)
               \/ \E o \in {"ok", "down", "late"} : drain(e, c, o)
               \/ \E k \in Config : upsert(e, c, k)
        PROVE  IInv'
    BY <2>4, ReleaseStep, DrainStep, UpsertStep
  <2>5. ASSUME NEW s \in statements, NEW t \in s.since..now, statement_runs(s, t)
        PROVE  IInv'
    BY <2>5, StatementStep
  <2> QED
    BY <1>1, <2>1, <2>2, <2>3, <2>4, <2>5 DEF Next
<1>2. CASE UNCHANGED vars
  <2>1. TypeOK /\ CachedIsConfigured /\ Conserved
    BY DEF IInv
  <2>2. TypeOK'
    BY <1>2, <2>1 DEF TypeOK, vars
  <2>3. CachedIsConfigured'
    BY <1>2, <2>1, ZenonT(60) DEF CachedIsConfigured, vars
  <2>4. Conserved'
    BY <1>2, <2>1, QuietConserved DEF vars
  <2>5. TakenIsConfigured'
    BY <1>2 DEF IInv, TakenIsConfigured, vars
  <2> QED
    BY <2>2, <2>3, <2>4, <2>5 DEF IInv
<1> QED
  BY <1>1, <1>2

-----------------------------------------------------------------------------
\* The inductive invariant holds in every state of every instance: the state is
\* well typed, an engine caches and sends statements for only the classes that
\* the table has, and what the two buckets hold and are owed, with the tokens
\* that are out, fits the budget.
THEOREM Invariance == Spec => []IInv
<1>1. Init => IInv
  BY Starts
<1>2. IInv /\ [Next]_vars => IInv'
  BY Preserved
<1> QED
  BY <1>1, <1>2, PTL DEF Spec

\* Neither bucket goes below zero, and neither above the largest capacity but
\* for the token a Postgres take leaves of a balance below zero, for any number
\* of engines, classes and configurations (_LUA_REFILL_TAKE, rate_take_pg.sql).
THEOREM TypeCorrect == Spec => []TypeOK
<1>1. IInv => TypeOK
  BY DEF IInv
<1> QED
  BY <1>1, Invariance, PTL

\* The account bounds the tokens that are out: the buckets hold no less than none.
LEMMA BoundFromAccount == IInv => RateBound
<1> SUFFICES ASSUME IInv, NEW c \in Class
             PROVE  Unit * drawn[c] <= Budget + minted[c]
  BY DEF RateBound
<1>1. TypeOK /\ Conserved
  BY DEF IInv
<1>2. RedisPotential(c) \in Nat /\ PgPotential(c) \in Nat /\ Unit * drawn[c] \in Int
      /\ minted[c] \in Nat /\ Budget \in Nat
  BY <1>1, Sums
<1>3. RedisPotential(c) + PgPotential(c) + Unit * drawn[c] <= Budget + minted[c]
  BY <1>1 DEF Conserved
<1> DEFINE ud == Unit * drawn[c]
<1>4. ud \in Int /\ RedisPotential(c) + PgPotential(c) + ud <= Budget + minted[c]
  BY <1>2, <1>3
<1> HIDE DEF ud
<1>5. ud <= Budget + minted[c]
  BY <1>2, <1>4
<1> QED
  BY <1>5 DEF ud

==============================================================================
