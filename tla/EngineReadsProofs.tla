------------------------- MODULE EngineReadsProofs --------------------------
(***************************************************************************)
(* What holds of the control plane and of the tail of the ledger for any   *)
(* number of engines, jobs, tenants' caps, pages, rows and subscribers,    *)
(* whatever else the engines run.                                          *)
(***************************************************************************)
EXTENDS EngineServices, FiniteSetTheorems, TLAPS

\* What the provers may take for a step that does not say otherwise.
USE SMTT(60), ZenonT(60)

(* The control plane: the cap of a tenant. *)

\* A pending submit stands for as many jobs as it will insert.
Tokens(P) == UNION {{t} \X (1..t.size) : t \in P}

AnyJob == [state: JobState \cup {"absent"}, created_at: Nat, path: Path]
Submit == [path: Path, size: Nat, start: Nat, ends: Nat]
liveJobs == {j \in known : job[j].state \in LIVE_STATES}
admitted == {j \in known : job[j].state \in LIVE_STATES /\ job[j].path = "submit"}

\* Besides the types: the transactions under way are older than the next one,
\* and what lives of what Submit let in, together with what its calls have
\* under way, exceeds the cap by no more than what was under way when one
\* counted.
CapInv ==
    /\ setup \in Setups
    /\ job \in [JobId -> AnyJob]
    /\ txns \in Nat /\ flight \in Nat
    /\ pending \subseteq Submit /\ \A t \in pending : t.start <= txns
    /\ IsFiniteSet(Tokens(submits))
    /\ setup.cap > 0 => Cardinality(admitted) + Cardinality(Tokens(submits)) <= setup.cap + flight

\* The jobs of one more submit are counted on top.
LEMMA TokensAdd ==
    ASSUME NEW P, NEW t \in Submit, t \notin P, IsFiniteSet(Tokens(P))
    PROVE  /\ IsFiniteSet(Tokens(P \cup {t}))
           /\ Cardinality(Tokens(P \cup {t})) = Cardinality(Tokens(P)) + t.size
<1> DEFINE T == {t} \X (1..t.size)
           f == [n \in 1..t.size |-> <<t, n>>]
<1>1. t.size \in Nat
  BY DEF Submit
<1>2. f \in Bijection(1..t.size, T)
  <2>1. f \in [1..t.size -> T]
    OBVIOUS
  <2>2. \A m, n \in 1..t.size : f[m] = f[n] => m = n
    OBVIOUS
  <2>3. \A x \in T : \E n \in 1..t.size : f[n] = x
    OBVIOUS
  <2> QED BY <2>1, <2>2, <2>3 DEF Bijection, Injection, Surjection, IsInjective
<1>3. IsFiniteSet(T) /\ Cardinality(T) = t.size
  <2>1. ExistsBijection(1..t.size, T)
    BY <1>2, ZenonT(60) DEF ExistsBijection
  <2>2. IsFiniteSet(1..t.size) /\ Cardinality(1..t.size) = t.size
    BY <1>1, FS_Interval
  <2> QED BY <2>1, <2>2, FS_Bijection
<1>4. Tokens(P \cup {t}) = Tokens(P) \cup T
  BY DEF Tokens
<1>5. Tokens(P) \cap T = {}
  BY DEF Tokens
<1> HIDE DEF T
<1>6. IsFiniteSet(Tokens(P) \cup T) /\ Cardinality(Tokens(P) \cap T) = 0
      /\ Cardinality(Tokens(P) \cup T) = Cardinality(Tokens(P)) + Cardinality(T) - Cardinality(Tokens(P) \cap T)
  BY <1>3, <1>5, FS_Union, FS_EmptySet
<1>7. Cardinality(Tokens(P)) \in Nat
  BY FS_CardinalityType
<1>8. Cardinality(Tokens(P) \cup T) = Cardinality(Tokens(P)) + t.size
  BY <1>1, <1>3, <1>6, <1>7
<1> QED BY <1>4, <1>6, <1>8, ZenonT(60)

\* And they are counted no longer once it has ended.
LEMMA TokensRemove ==
    ASSUME NEW P \in SUBSET Submit, NEW t \in P, IsFiniteSet(Tokens(P))
    PROVE  /\ IsFiniteSet(Tokens(P \ {t}))
           /\ Cardinality(Tokens(P)) = Cardinality(Tokens(P \ {t})) + t.size
           /\ Cardinality(Tokens(P \ {t})) \in Nat /\ t.size \in Nat
<1>1. Tokens(P \ {t}) \in SUBSET Tokens(P)
  BY DEF Tokens
<1>2. IsFiniteSet(Tokens(P \ {t}))
  BY <1>1, FS_Subset, ZenonT(60)
<1>3. P = (P \ {t}) \cup {t} /\ t \in Submit /\ t \notin P \ {t}
  OBVIOUS
<1>4. Cardinality(Tokens(P)) = Cardinality(Tokens(P \ {t})) + t.size
  BY <1>2, <1>3, TokensAdd
<1>5. Cardinality(Tokens(P \ {t})) \in Nat
  BY <1>2, FS_CardinalityType
<1> QED BY <1>2, <1>3, <1>4, <1>5 DEF Submit

\* Any set of jobs is finite.
LEMMA JobsFinite ==
    ASSUME NEW S \in SUBSET JobId
    PROVE  IsFiniteSet(S) /\ Cardinality(S) \in Nat
<1>1. IsFiniteSet(JobId)
  BY ReadAssumption, FS_Interval DEF JobId
<1> QED BY <1>1, FS_Subset, FS_CardinalityType

\* The counts, as cardinalities: count_tenant_live.sql counts more than Submit let in.
LEMMA Counts ==
    ASSUME IsFiniteSet(Tokens(submits))
    PROVE  /\ under_way(submits) = Cardinality(Tokens(submits)) /\ Cardinality(Tokens(submits)) \in Nat
           /\ IsFiniteSet(admitted) /\ Cardinality(admitted) \in Nat
           /\ count_tenant_live \in Nat /\ Cardinality(admitted) <= count_tenant_live
<1>1. under_way(submits) = Cardinality(Tokens(submits))
  BY DEF under_way, Tokens
<1>2. count_tenant_live = Cardinality(liveJobs)
  BY DEF count_tenant_live, liveJobs
<1>3. liveJobs \in SUBSET JobId /\ admitted \in SUBSET liveJobs
  BY DEF liveJobs, admitted, known
<1>4. IsFiniteSet(liveJobs) /\ Cardinality(liveJobs) \in Nat
  BY <1>3, JobsFinite
<1>5. IsFiniteSet(admitted) /\ Cardinality(admitted) <= Cardinality(liveJobs)
  BY <1>3, <1>4, FS_Subset
<1> QED BY <1>1, <1>2, <1>4, <1>5, FS_CardinalityType

\* Steps that let Submit add nothing.
LEMMA CapKeeps ==
    ASSUME CapInv, UNCHANGED <<setup, flight>>,
           txns' \in Nat, pending' \subseteq Submit, \A t \in pending' : t.start <= txns',
           job' \in [JobId -> AnyJob], admitted' \subseteq admitted, submits' \subseteq submits
    PROVE  CapInv'
<1>1. setup.cap \in Nat /\ flight \in Nat /\ IsFiniteSet(Tokens(submits))
  BY ReadAssumption DEF CapInv
<1>2. Tokens(submits)' \in SUBSET Tokens(submits)
  BY DEF Tokens
<1>3. IsFiniteSet(Tokens(submits))' /\ Cardinality(Tokens(submits)') <= Cardinality(Tokens(submits))
      /\ Cardinality(Tokens(submits)') \in Nat /\ Cardinality(Tokens(submits)) \in Nat
  BY <1>1, <1>2, FS_Subset, FS_CardinalityType
<1>4. Cardinality(admitted') <= Cardinality(admitted) /\ Cardinality(admitted') \in Nat
      /\ Cardinality(admitted) \in Nat
  <2>1. IsFiniteSet(admitted) /\ admitted' \in SUBSET admitted
    BY <1>1, Counts
  <2> QED BY <2>1, FS_Subset, FS_CardinalityType
<1>5. setup'.cap > 0 => Cardinality(admitted') + Cardinality(Tokens(submits)') <= setup'.cap + flight'
  <2>1. setup.cap > 0 => Cardinality(admitted) + Cardinality(Tokens(submits)) <= setup.cap + flight
    BY DEF CapInv
  <2> QED BY <1>1, <1>3, <1>4, <2>1
<1> QED BY <1>1, <1>3, <1>5 DEF CapInv

\* An inserting transaction is one more under way.
LEMMA BeginsCap ==
    ASSUME CapInv, NEW path \in Path, NEW n \in 1..2, NEW ends \in Nat, begins(path, n, ends)
    PROVE  LET t == [path |-> path, size |-> n, start |-> txns + 1, ends |-> ends] IN
           /\ t \in Submit /\ t \notin pending /\ pending' = pending \cup {t}
           /\ pending' \subseteq Submit /\ \A u \in pending' : u.start <= txns'
           /\ txns' \in Nat /\ UNCHANGED <<job, setup>>
           /\ submits' = IF path = "submit" THEN submits \cup {t} ELSE submits
<1> DEFINE t == [path |-> path, size |-> n, start |-> txns + 1, ends |-> ends]
<1>1. txns \in Nat /\ pending \subseteq Submit
  BY DEF CapInv
<1>2. t \in Submit /\ t \notin pending /\ t.path = path
  BY <1>1 DEF CapInv, Submit
<1>3. pending' = pending \cup {t} /\ UNCHANGED <<job, setup>> /\ txns' = txns + 1
  BY DEF begins, procVars
<1>4. pending' \subseteq Submit /\ \A u \in pending' : u.start <= txns'
  BY <1>1, <1>2, <1>3 DEF CapInv, Submit
<1> HIDE DEF t
<1>5. submits' = IF path = "submit" THEN submits \cup {t} ELSE submits
  BY <1>2, <1>3 DEF submits
<1> QED BY <1>1, <1>2, <1>3, <1>4, <1>5 DEF t

\* A submit counts the live jobs of the tenant, and not those of the submits
\* that have not committed: flight is raised to what it missed.
LEMMA SubmitBeginsCap ==
    ASSUME CapInv, NEW n \in 1..2, submit_begins(n)
    PROVE  CapInv'
<1> DEFINE t == [path |-> "submit", size |-> n, start |-> txns + 1, ends |-> 0]
<1>1. setup.cap \in Nat /\ flight \in Nat /\ IsFiniteSet(Tokens(submits)) /\ job \in [JobId -> AnyJob]
  BY ReadAssumption DEF CapInv
<1>2. /\ t \in Submit /\ t \notin pending /\ submits' = submits \cup {t}
      /\ pending' \subseteq Submit /\ \A u \in pending' : u.start <= txns'
      /\ txns' \in Nat /\ UNCHANGED <<job, setup>>
  <2>1. begins("submit", n, 0) /\ "submit" \in Path
    BY DEF submit_begins, Path
  <2> QED BY <2>1, BeginsCap
<1>3. t \notin submits /\ t.size = n
  BY <1>2 DEF submits
<1> HIDE DEF t
<1>4. IsFiniteSet(Tokens(submits \cup {t})) /\ Cardinality(Tokens(submits \cup {t})) = Cardinality(Tokens(submits)) + n
  BY <1>1, <1>2, <1>3, TokensAdd
<1>5. Tokens(submits)' = Tokens(submits \cup {t})
  BY <1>2 DEF Tokens
<1>6. /\ under_way(submits) = Cardinality(Tokens(submits)) /\ Cardinality(Tokens(submits)) \in Nat
      /\ Cardinality(admitted) \in Nat /\ count_tenant_live \in Nat
      /\ Cardinality(admitted) <= count_tenant_live
  BY <1>1, Counts
<1>7. admitted' = admitted
  BY <1>2 DEF admitted, known
<1>8. flight' \in Nat /\ (setup.cap > 0 => flight' >= Cardinality(Tokens(submits)))
  <2>1. CASE setup.cap = 0
    BY <2>1 DEF submit_begins
  <2>2. CASE setup.cap > 0
    <3> DEFINE u == under_way(submits)
    <3>1. u \in Nat
      BY <1>6
    <3>2. flight' = Max({flight, u})
      BY <2>2 DEF submit_begins
    <3> HIDE DEF u
    <3>3. Max({flight, u}) = IF flight >= u THEN flight ELSE u
      BY <1>1, <3>1 DEF Max
    <3>4. flight' \in Nat /\ flight' >= u
      BY <1>1, <3>1, <3>2, <3>3
    <3> QED BY <1>6, <3>4 DEF u
  <2> QED BY <1>1, <2>1, <2>2
<1>9. setup.cap > 0 => count_tenant_live + n <= setup.cap
  BY DEF submit_begins, within_cap
<1>10. setup'.cap > 0 => Cardinality(admitted') + Cardinality(Tokens(submits)') <= setup'.cap + flight'
  BY <1>1, <1>2, <1>4, <1>5, <1>6, <1>7, <1>8, <1>9
<1> QED BY <1>1, <1>2, <1>4, <1>5, <1>8, <1>10 DEF CapInv

\* What no step does to a job: forget it, date it anew, or revive a dead one.
Kept(j) ==
    /\ job'[j].state # "absent" /\ job'[j].created_at = job[j].created_at
    /\ job[j].state = "dead" => job'[j].state = "dead"

\* A job that is known before and after, and not revived.
Steady ==
    /\ job' \in [JobId -> AnyJob] /\ known' = known /\ admitted' \subseteq admitted
    /\ \A j \in known : Kept(j)

\* The steps of the control plane that leave the jobs alone.
LEMMA SameJobs ==
    ASSUME job \in [JobId -> AnyJob], job' = job
    PROVE  Steady
BY DEF Steady, Kept, known, admitted

\* A legal transition never leaves a terminal state.
LEMMA MovesSteady ==
    ASSUME job \in [JobId -> AnyJob], NEW j \in JobId, NEW s \in JobState,
           job[j].state # "absent", can_transition(job[j].state, s),
           job' = [job EXCEPT ![j].state = s]
    PROVE  Steady
<1>1. job[j] \in AnyJob
  OBVIOUS
<1>2. job[j].state \in LIVE_STATES
  BY <1>1 DEF can_transition, TRANSITIONS, AnyJob, JobState, LIVE_STATES, TERMINAL_STATES
<1>3. /\ job' \in [JobId -> AnyJob] /\ job'[j].state = s /\ job'[j].created_at = job[j].created_at
      /\ job'[j].path = job[j].path /\ \A i \in JobId \ {j} : job'[i] = job[i]
  BY <1>1 DEF AnyJob
<1>4. s # "absent" /\ job[j].state # "dead"
  BY <1>2 DEF JobState, LIVE_STATES, TERMINAL_STATES
<1>5. known' = known
  BY <1>3, <1>4 DEF known
<1>6. admitted' \subseteq admitted
  BY <1>2, <1>3, <1>5 DEF admitted, known
<1>7. \A i \in known : Kept(i)
  BY <1>3, <1>4 DEF Kept, known
<1> QED BY <1>3, <1>5, <1>6, <1>7 DEF Steady

\* cancel.sql archives a live job.
LEMMA CancelSteady ==
    ASSUME job \in [JobId -> AnyJob], cancel.job \in JobId, cancel_immediate
    PROVE  Steady
<1> DEFINE j == cancel.job
<1>1. CASE job[j].state \in LIVE_STATES \ {"running"}
  <2>1. job[j].state # "absent" /\ can_transition(job[j].state, "cancelled") /\ "cancelled" \in JobState
    BY <1>1 DEF can_transition, TRANSITIONS, LIVE_STATES, TERMINAL_STATES, JobState
  <2>2. job' = [job EXCEPT ![j].state = "cancelled"]
    BY <1>1 DEF cancel_immediate
  <2> QED BY <2>1, <2>2, MovesSteady, ZenonT(60)
<1>2. CASE job[j].state \notin LIVE_STATES \ {"running"}
  BY <1>2, SameJobs DEF cancel_immediate
<1> QED BY <1>1, <1>2

\* The rows of a transaction become visible together, and a terminal call
\* archives its job with them.
Commits(t) == submit_commits(t) \/ \E s \in JobState : terminal_commits(t, s)
Ids(t) == Cardinality(known) + 1 .. Cardinality(known) + t.size
Archived(j) ==
    /\ job[j].state = "running" /\ job'[j].state \in TERMINAL_STATES
    /\ job'[j].created_at = job[j].created_at /\ job'[j].path = job[j].path
Lands(t) ==
    /\ job' \in [JobId -> AnyJob]
    /\ \A j \in JobId \cap Ids(t) : job'[j].state # "absent" /\ job'[j].path = t.path
    /\ \A j \in JobId \ Ids(t) : job'[j] = job[j] \/ Archived(j)
LEMMA Landed ==
    ASSUME job \in [JobId -> AnyJob], NEW t \in Submit, Commits(t)
    PROVE  Lands(t)
<1>1. /\ inserted(t) \in [JobId -> AnyJob]
      /\ \A j \in JobId \cap Ids(t) : inserted(t)[j].state # "absent" /\ inserted(t)[j].path = t.path
      /\ \A j \in JobId \ Ids(t) : inserted(t)[j] = job[j]
  <2> DEFINE new == [state |-> "queued", created_at |-> t.start, path |-> t.path]
  <2>1. new \in AnyJob /\ new.state # "absent" /\ new.path = t.path
    BY DEF AnyJob, Submit, JobState, LIVE_STATES
  <2>2. inserted(t) = [j \in JobId |-> IF j \in Ids(t) THEN new ELSE job[j]]
    BY DEF inserted, Ids
  <2> HIDE DEF new
  <2> QED BY <2>1, <2>2
<1>2. CASE submit_commits(t)
  BY <1>1, <1>2 DEF submit_commits, Lands
<1>3. ASSUME NEW s \in JobState, terminal_commits(t, s) PROVE Lands(t)
  <2> DEFINE J == inserted(t)
             i == t.ends
  <2>1. /\ job' = [J EXCEPT ![i].state = s] /\ s \in {"succeeded", "dead"}
        /\ job[i].state = "running"
    BY <1>3 DEF terminal_commits
  <2>2. s # "absent" /\ s \in TERMINAL_STATES
    BY <2>1 DEF TERMINAL_STATES
  <2>3. /\ J \in [JobId -> AnyJob]
        /\ \A j \in JobId \cap Ids(t) : J[j].state # "absent" /\ J[j].path = t.path
        /\ \A j \in JobId \ Ids(t) : J[j] = job[j]
    BY <1>1
  <2> HIDE DEF J, i
  <2>4. /\ job' \in [JobId -> AnyJob] /\ \A j \in JobId \ {i} : job'[j] = J[j]
        /\ i \in JobId => /\ job'[i].state = s /\ job'[i].created_at = J[i].created_at
                          /\ job'[i].path = J[i].path
    BY <2>1, <2>3 DEF AnyJob
  <2>5. \A j \in JobId \ Ids(t) : job'[j] = job[j] \/ Archived(j)
    BY <2>1, <2>2, <2>3, <2>4 DEF Archived
  <2>6. \A j \in JobId \cap Ids(t) : job'[j].state # "absent" /\ job'[j].path = t.path
    BY <2>2, <2>3, <2>4
  <2> QED BY <2>4, <2>5, <2>6 DEF Lands
<1> QED BY <1>2, <1>3 DEF Commits

\* The jobs of a batch stop being under way as they begin to count.
LEMMA CommitsCap ==
    ASSUME CapInv, NEW t \in pending, Commits(t)
    PROVE  CapInv'
<1>1. /\ setup.cap \in Nat /\ flight \in Nat /\ IsFiniteSet(Tokens(submits))
      /\ pending \subseteq Submit /\ t \in Submit /\ t.size \in Nat
      /\ job \in [JobId -> AnyJob] /\ txns \in Nat
  BY ReadAssumption DEF CapInv, Submit
<1>2. pending' = pending \ {t} /\ UNCHANGED <<setup, txns, flight>>
  BY ZenonT(60) DEF Commits, submit_commits, terminal_commits, procVars
<1>3. /\ job' \in [JobId -> AnyJob]
      /\ \A j \in JobId \cap Ids(t) : job'[j].state # "absent" /\ job'[j].path = t.path
      /\ \A j \in JobId \ Ids(t) : job'[j] = job[j] \/ Archived(j)
  BY <1>1, Landed DEF Lands
<1>4. \A j \in admitted' : j \in admitted \/ (t.path = "submit" /\ j \in Ids(t))
  BY <1>3 DEF admitted, known, Archived, LIVE_STATES, TERMINAL_STATES
<1>5. pending' \subseteq Submit /\ \A u \in pending' : u.start <= txns'
  BY <1>1, <1>2 DEF CapInv
<1>6. CASE t.path # "submit"
  <2>1. admitted' \subseteq admitted /\ submits' \subseteq submits
    BY <1>2, <1>4, <1>6 DEF submits
  <2> QED BY <1>1, <1>2, <1>3, <1>5, <2>1, CapKeeps
<1>7. CASE t.path = "submit"
  <2>1. t \in submits /\ submits' = submits \ {t} /\ submits \in SUBSET Submit
    BY <1>1, <1>2, <1>7 DEF submits
  <2>2. IsFiniteSet(Ids(t)) /\ Cardinality(Ids(t)) = t.size
    <3> DEFINE c == Cardinality(known)
               a == c + 1
               b == c + t.size
    <3>1. c \in Nat
      <4>1. known \in SUBSET JobId
        BY DEF known
      <4> QED BY <4>1, JobsFinite
    <3> HIDE DEF c
    <3>2. a \in Int /\ b \in Int /\ (IF a > b THEN 0 ELSE b - a + 1) = t.size
      BY <1>1, <3>1
    <3>3. Ids(t) = a..b
      BY DEF Ids, c
    <3> HIDE DEF a, b
    <3>4. IsFiniteSet(a..b) /\ Cardinality(a..b) = IF a > b THEN 0 ELSE b - a + 1
      BY <3>2, FS_Interval
    <3> QED BY <3>2, <3>3, <3>4
  <2>3. /\ Cardinality(Tokens(submits)) \in Nat /\ IsFiniteSet(admitted) /\ Cardinality(admitted) \in Nat
    BY <1>1, Counts
  <2>4. Cardinality(admitted') <= Cardinality(admitted) + t.size /\ Cardinality(admitted') \in Nat
    <3> DEFINE I == Ids(t)
    <3>0. IsFiniteSet(I) /\ Cardinality(I) = t.size /\ admitted' \in SUBSET (admitted \cup I)
      BY <1>4, <2>2
    <3> HIDE DEF I
    <3>1. IsFiniteSet(admitted \cup I)
          /\ Cardinality(admitted \cup I) = Cardinality(admitted) + t.size - Cardinality(admitted \cap I)
      BY <2>3, <3>0, FS_Union
    <3>2. Cardinality(admitted \cap I) \in Nat
      BY <2>3, FS_Subset, FS_CardinalityType
    <3>3. Cardinality(admitted') <= Cardinality(admitted \cup I) /\ Cardinality(admitted') \in Nat
          /\ Cardinality(admitted \cup I) \in Nat
      BY <3>0, <3>1, FS_Subset, FS_CardinalityType
    <3> QED BY <1>1, <2>3, <3>1, <3>2, <3>3
  <2>5. /\ IsFiniteSet(Tokens(submits \ {t}))
        /\ Cardinality(Tokens(submits)) = Cardinality(Tokens(submits \ {t})) + t.size
        /\ Cardinality(Tokens(submits \ {t})) \in Nat
    BY <1>1, <2>1, TokensRemove
  <2>6. Tokens(submits)' = Tokens(submits \ {t})
    BY <2>1 DEF Tokens
  <2>7. setup'.cap > 0 => Cardinality(admitted') + Cardinality(Tokens(submits)') <= setup'.cap + flight'
    <3>1. setup.cap > 0 => Cardinality(admitted) + Cardinality(Tokens(submits)) <= setup.cap + flight
      BY DEF CapInv
    <3> QED BY <1>1, <1>2, <2>3, <2>4, <2>5, <2>6, <3>1
  <2> QED BY <1>1, <1>2, <1>3, <1>5, <2>5, <2>6, <2>7 DEF CapInv
<1> QED BY <1>6, <1>7

\* Every step of the control plane, and of the processes under it.
LEMMA CapStep ==
    ASSUME CapInv, setup' = setup, ReadNext \/ ReadsFollow \/ UNCHANGED readVars
    PROVE  CapInv'
<1>0. job \in [JobId -> AnyJob]
  BY DEF CapInv
<1>a. ASSUME Steady, UNCHANGED <<txns, flight>>, pending' \subseteq pending PROVE CapInv'
  <2>1. submits' \subseteq submits
    BY <1>a DEF submits
  <2> QED BY <1>a, <2>1, CapKeeps DEF Steady, CapInv
<1>1. ASSUME NEW n \in 1..2, submit_begins(n) PROVE CapInv'
  BY <1>1, SubmitBeginsCap
<1>b. ASSUME NEW path \in Path, path # "submit", NEW n \in 1..2, NEW i \in Nat,
             begins(path, n, i), UNCHANGED flight
      PROVE  CapInv'
  <2>1. /\ pending' \subseteq Submit /\ \A u \in pending' : u.start <= txns'
        /\ txns' \in Nat /\ job' = job /\ submits' = submits
    BY <1>b, BeginsCap
  <2> QED BY <1>0, <1>b, <2>1, SameJobs, CapKeeps DEF Steady
<1>c. ASSUME (\E n \in 1..2 : fan_out_begins(n))
             \/ \E j \in known : resubmit_begins(j) \/ \E n \in 1..2 : terminal_begins(j, n)
      PROVE  CapInv'
  <2>1. PICK path \in Path \ {"submit"}, n \in 1..2, i \in Nat : begins(path, n, i) /\ UNCHANGED flight
    <3>1. \A j \in known : j \in Nat
      BY DEF known, JobId
    <3> QED BY <1>c, <3>1 DEF fan_out_begins, resubmit_begins, terminal_begins, Path
  <2> QED BY <1>b, <2>1
<1>2. ASSUME NEW t \in pending, Commits(t) PROVE CapInv'
  BY <1>2, CommitsCap
<1>3. ASSUME NEW t \in pending, submit_fails(t) PROVE CapInv'
  <2>1. UNCHANGED <<job, txns, flight>> /\ pending' \subseteq pending
    BY <1>3 DEF submit_fails
  <2> QED BY <1>0, <1>a, <2>1, SameJobs
<1>4. ASSUME NEW j \in JobId, NEW s \in JobState, job[j].state # "absent", moves(j, s) PROVE CapInv'
  <2>1. Steady
    BY <1>0, <1>4, MovesSteady, ZenonT(60) DEF moves
  <2>2. UNCHANGED submitVars
    BY <1>4 DEF moves
  <2> QED BY <1>a, <2>1, <2>2 DEF submitVars
<1>5. ASSUME NEW j \in known, Cancel(j) PROVE CapInv'
  <2>1. UNCHANGED submitVars
    BY <1>5 DEF Cancel, cancel_reads, cancel_immediate, cancel_running
  <2>2. Steady
    <3>1. CASE j = cancel.job /\ cancel_immediate
      BY <1>0, <3>1, CancelSteady DEF known
    <3>2. CASE job' = job
      BY <1>0, <3>2, SameJobs
    <3> QED BY <1>5, <3>1, <3>2 DEF Cancel, cancel_reads, cancel_running
  <2> QED BY <1>a, <2>1, <2>2 DEF submitVars
<1>6. CASE UNCHANGED <<job, submitVars>>
  BY <1>0, <1>a, <1>6, SameJobs DEF submitVars
<1>7. CASE ReadsFollow
  <2>1. UNCHANGED <<job, txns, flight>> /\ pending' \subseteq pending
    BY <1>7 DEF ReadsFollow
  <2> QED BY <1>0, <1>a, <2>1, SameJobs
<1>8. CASE ReadNext
  <2>1. \/ \E n \in 1..2 : submit_begins(n)
        \/ (\E n \in 1..2 : fan_out_begins(n))
           \/ \E j \in known : resubmit_begins(j) \/ \E n \in 1..2 : terminal_begins(j, n)
        \/ \E t \in pending : Commits(t) \/ submit_fails(t)
        \/ \E j \in JobId, s \in JobState : job[j].state # "absent" /\ moves(j, s)
        \/ \E j \in known : Cancel(j)
        \/ UNCHANGED <<job, submitVars>>
    BY <1>8, ZenonT(60) DEF ReadNext, Commits, query_begins, await_begins, Query, AwaitJob, await_wakes, deadline
  <2> QED BY <2>1, <1>1, <1>c, <1>2, <1>3, <1>4, <1>5, <1>6
<1> QED BY <1>6, <1>7, <1>8 DEF readVars

\* No step of the processes changes the situation.
LEMMA SetupStays ==
    ASSUME NEW e \in Engine, ProcNext(e) \/ events_start(e)
    PROVE  setup' = setup
<1>1. ASSUME ProcOwn(e) PROVE setup' = setup
  BY <1>1, ZenonT(60) DEF ProcOwn, boot, create_pools, load, serve_grpc, health_set, serve_http, grpc_stops,
                     pools_close, exits
<1>2. ASSUME events_start(e) \/ pass_fails(e) \/ call_begins(e) \/ call_ends(e) \/ sigterm(e) \/ kill(e)
      PROVE  setup' = setup
  BY <1>2, ZenonT(60) DEF events_start, pass_fails, call_begins, call_ends, sigterm, kill
<1> QED BY <1>1, <1>2 DEF ProcNext

\* What a step of the composition is to the control plane.
LEMMA ReadView ==
    ASSUME [Next]_allVars
    PROVE  setup' = setup /\ (ReadNext \/ ReadsFollow \/ UNCHANGED readVars)
<1>1. ASSUME NEW e \in Engine, (ProcNext(e) /\ Follow) \/ Starts(e)
      PROVE  setup' = setup /\ ReadsFollow
  BY <1>1, SetupStays DEF Follow, Starts, start
<1>2. CASE CronNext /\ UNCHANGED <<eventVars, readVars, rpcVars>>
  <2>1. setup' = setup
    BY <1>2, ZenonT(60) DEF CronNext, CronOwn, CronEdits, cron_due, fire, init_window, submit, advance, swap,
       upsert_cron, set_cron_enabled, delete_cron, edit, settle, tick, procVars
  <2> QED BY <1>2, <2>1
<1>3. CASE EventNext /\ UNCHANGED <<cronVars, readVars, rpcVars>>
  <2>1. setup' = setup
    BY <1>3, ZenonT(60) DEF EventNext, EventOwn, record_event, commit, rollback, poll_once, poll_done,
       poll_fails, subscribe, get, unsubscribe, snapshot_begins, snapshot_for_ctx, procVars
  <2> QED BY <1>3, <2>1
<1>4. CASE RpcNext /\ UNCHANGED <<cronVars, eventVars, readVars>>
  <2>1. setup' = setup
    BY <1>4, ZenonT(60) DEF RpcNext, assigned, handle, Complete, Fail, serve, breaks, sweep, procVars
  <2> QED BY <1>4, <2>1
<1>5. CASE ReadNext
  BY <1>5, ZenonT(60) DEF ReadNext, begins, submit_begins, fan_out_begins, resubmit_begins, terminal_begins,
     submit_commits, terminal_commits, submit_fails, moves, query_begins, await_begins, Cancel, cancel_reads, cancel_immediate, cancel_running, Query, AwaitJob,
     await_wakes, deadline, procVars
<1>6. CASE UNCHANGED allVars
  BY <1>6 DEF allVars, procVars
<1> QED BY <1>1, <1>2, <1>3, <1>4, <1>5, <1>6 DEF Next

\* Before the first submit nothing lives and nothing is under way.
LEMMA InitCapInv == Init => CapInv
<1> SUFFICES ASSUME Init PROVE CapInv
  OBVIOUS
<1>1. job \in [JobId -> AnyJob] /\ txns = 0 /\ pending = {} /\ flight = 0 /\ setup \in Setups
  BY DEF Init, ReadInit, AnyJob, Path
<1>2. Tokens(submits) = {} /\ admitted = {}
  BY DEF Tokens, submits, admitted, known, Init, ReadInit
<1>3. IsFiniteSet(Tokens(submits)) /\ Cardinality(Tokens(submits)) = 0 /\ Cardinality(admitted) = 0
  BY <1>2, FS_EmptySet
<1> QED BY <1>1, <1>3, ReadAssumption DEF CapInv

\* For any jobs, tenant caps and submits in flight: the live jobs that Submit let
\* in pass the cap by no more than the jobs other submits had under way when one
\* counted, whatever fan-outs, resubmits and follow-ups insert beside it, whatever
\* the engine does to the jobs, whichever fails and whenever engines die.
THEOREM CapBounded == Spec => []CapOvershoot
<1>1. Init => CapInv
  BY InitCapInv
<1>2. CapInv /\ [Next]_allVars => CapInv'
  BY ReadView, CapStep
<1>3. CapInv => CapOvershoot
  <2> SUFFICES ASSUME CapInv, setup.cap > 0 PROVE Cardinality(admitted) <= setup.cap + flight
    BY DEF CapOvershoot, admitted
  <2>1. setup.cap \in Nat /\ flight \in Nat /\ IsFiniteSet(Tokens(submits))
    BY ReadAssumption DEF CapInv
  <2> QED BY <2>1, Counts DEF CapInv
<1> QED BY <1>1, <1>2, <1>3, PTL DEF Spec

-----------------------------------------------------------------------------
(* The control plane: the walk through the pages of Query. *)

\* Two facts about sequences: what a slice and a concatenation hold.
LEMMA Slice ==
    ASSUME NEW T, NEW q, NEW a \in Int, NEW b \in Int, \A n \in a..b : q[n] \in T
    PROVE  /\ SubSeq(q, a, b) \in Seq(T) /\ Len(SubSeq(q, a, b)) = IF a <= b THEN b - a + 1 ELSE 0
           /\ \A n \in 1..b - a + 1 : SubSeq(q, a, b)[n] = q[a + n - 1]
OBVIOUS
LEMMA Joined ==
    ASSUME NEW T, NEW q \in Seq(T), NEW r \in Seq(T)
    PROVE  /\ q \o r \in Seq(T) /\ Len(q \o r) = Len(q) + Len(r)
           /\ \A n \in 1..Len(q) + Len(r) : (q \o r)[n] = IF n <= Len(q) THEN q[n] ELSE r[n - Len(q)]
OBVIOUS

\* An order of the rows holds every row.
LEMMA OrderHoldsAll ==
    ASSUME NEW S, IsFiniteSet(S), NEW q \in Bijection(1..Cardinality(S), S)
    PROVE  /\ Cardinality(S) \in Nat /\ q \in [1..Cardinality(S) -> S]
           /\ \A m, n \in 1..Cardinality(S) : q[m] = q[n] => m = n
           /\ \A k \in S : \E n \in 1..Cardinality(S) : q[n] = k
<1> DEFINE N == Cardinality(S)
<1>1. N \in Nat
  BY FS_CardinalityType
<1> HIDE DEF N
<1>2. q \in Bijection(1..N, S)
  BY DEF N
<1>3. q \in [1..N -> S] /\ \A m, n \in 1..N : q[m] = q[n] => m = n
  BY <1>2, ZenonT(60) DEF Bijection, Injection, IsInjective
<1>4. \A k \in S : \E n \in 1..N : q[n] = k
  BY <1>2 DEF Bijection, Surjection
<1> QED BY <1>1, <1>3, <1>4 DEF N

\* In an order by date, the newest first, a row that shares its date with none
\* comes after as many rows as are newer.
LEMMA PlaceInOrder ==
    ASSUME NEW S, IsFiniteSet(S), NEW date, \A k \in S : date[k] \in Nat, NEW q \in Bijection(1..Cardinality(S), S),
           \A m, n \in 1..Cardinality(S) : m < n => date[q[m]] >= date[q[n]],
           NEW p \in 1..Cardinality(S), \A k \in S : k # q[p] => date[k] # date[q[p]]
    PROVE  Cardinality({k \in S : date[k] > date[q[p]]}) = p - 1
<1> DEFINE N == Cardinality(S)
           R == {k \in S : date[k] > date[q[p]]}
           f == [n \in 1..p - 1 |-> q[n]]
<1>1. /\ N \in Nat /\ q \in [1..N -> S]
      /\ \A m, n \in 1..N : q[m] = q[n] => m = n
      /\ \A k \in S : \E n \in 1..N : q[n] = k
  BY OrderHoldsAll
<1>2. p \in 1..N /\ \A m, n \in 1..N : m < n => date[q[m]] >= date[q[n]]
  OBVIOUS
<1> HIDE DEF N
<1>3. \A n \in 1..N : q[n] \in S /\ date[q[n]] \in Nat
  BY <1>1
<1>4. \A n \in 1..p - 1 : n \in 1..N /\ q[n] \in R
  <2> SUFFICES ASSUME NEW n \in 1..p - 1 PROVE n \in 1..N /\ q[n] \in R
    OBVIOUS
  <2>1. n \in 1..N /\ n < p
    BY <1>1, <1>2
  <2>2. q[n] # q[p]
    BY <1>1, <1>2, <2>1
  <2>3. date[q[n]] >= date[q[p]] /\ date[q[n]] # date[q[p]]
    BY <1>2, <1>3, <2>1, <2>2
  <2> QED BY <1>2, <1>3, <2>1, <2>3
<1>5. \A k \in R : \E n \in 1..p - 1 : q[n] = k
  <2> SUFFICES ASSUME NEW k \in R PROVE \E n \in 1..p - 1 : q[n] = k
    OBVIOUS
  <2>1. PICK n \in 1..N : q[n] = k
    BY <1>1
  <2>2. date[q[n]] > date[q[p]]
    BY <2>1
  <2>3. ~(n > p) /\ n # p
    BY <1>2, <1>3, <2>2
  <2> QED BY <1>1, <1>2, <2>1, <2>3
<1>6. f \in Bijection(1..p - 1, R)
  <2>1. f \in [1..p - 1 -> R]
    BY <1>4
  <2>2. \A m, n \in 1..p - 1 : f[m] = f[n] => m = n
    BY <1>1, <1>4
  <2>3. \A k \in R : \E n \in 1..p - 1 : f[n] = k
    BY <1>5
  <2> HIDE DEF R
  <2> QED BY <2>1, <2>2, <2>3 DEF Bijection, Injection, Surjection, IsInjective
<1>7. IsFiniteSet(1..p - 1) /\ Cardinality(1..p - 1) = p - 1
  <2> DEFINE b == p - 1
  <2>1. b \in Int /\ 1 \in Int /\ (IF 1 > b THEN 0 ELSE b - 1 + 1) = b
    BY <1>1, <1>2
  <2> HIDE DEF b
  <2>2. IsFiniteSet(1..b) /\ Cardinality(1..b) = b
    BY <2>1, FS_Interval
  <2> QED BY <2>2 DEF b
<1>8. ExistsBijection(1..p - 1, R)
  BY <1>6, ZenonT(60) DEF ExistsBijection
<1> HIDE DEF R
<1>9. Cardinality(R) = p - 1
  BY <1>7, <1>8, FS_Bijection
<1> QED BY <1>9 DEF R

\* The rows before j in every order, if no row shares the date of j.
Tied(j) == \E k \in matching(query.filter) \ {j} : job[k].created_at = job[j].created_at
Newer(j) == {k \in matching(query.filter) : job[k].created_at > job[j].created_at}

\* A walk keeps its promise to j: it has shown it or will come to it.
Promised(j) == j \in query.seen \/ Tied(j) \/ Cardinality(Newer(j)) >= query.offset

\* Ids are given out in turn, so that no job is ever overwritten; what matched
\* when the walk began still matches.
WalkInv ==
    /\ \E n \in Nat : known = 1..n
    /\ query \in [at: {"idle", "paging", "done"}, filter: {"any", "dead"}, page_size: Nat \ {0},
                  offset: Nat, seen: SUBSET JobId, start: SUBSET JobId]
    /\ query.start \subseteq matching(query.filter)
    /\ query.at = "paging" /\ query.page_size <= MAX_PAGE => \A j \in query.start : Promised(j)
    /\ WalkCovers

\* Rows that are added only move the others to later pages.
LEMMA GrowthKeepsWalk ==
    ASSUME WalkInv, job \in [JobId -> AnyJob], job' \in [JobId -> AnyJob],
           \A j \in known : Kept(j), (\E n \in Nat : known = 1..n)', query' = query
    PROVE  WalkInv'
<1> DEFINE f == query.filter
<1>1. f \in {"any", "dead"} /\ query.start \subseteq matching(f) /\ query.offset \in Nat
  BY DEF WalkInv
<1>2. matching(f) \subseteq known /\ matching(f)' \in SUBSET JobId
  BY DEF matching, known
<1>3. \A j \in known : j \in known' /\ job'[j].created_at = job[j].created_at
  BY DEF Kept, known
<1>4. \A j \in matching(f) : j \in matching(f)'
  BY <1>1, <1>3 DEF matching, Kept
<1>5. \A j \in matching(f) : Tied(j) => Tied(j)'
  BY <1>2, <1>3, <1>4 DEF Tied
<1>6. \A j \in matching(f) : Promised(j) => Promised(j)'
  <2> SUFFICES ASSUME NEW j \in matching(f), Promised(j) PROVE Promised(j)'
    OBVIOUS
  <2>1. Newer(j) \in SUBSET Newer(j)' /\ Newer(j)' \in SUBSET JobId
    BY <1>2, <1>3, <1>4 DEF Newer
  <2>2. Cardinality(Newer(j)) <= Cardinality(Newer(j)') /\ Cardinality(Newer(j)) \in Nat
        /\ Cardinality(Newer(j)') \in Nat
    BY <2>1, JobsFinite, FS_Subset, FS_CardinalityType
  <2> HIDE DEF f
  <2> QED BY <1>1, <1>5, <2>2 DEF Promised
<1>7. WalkCovers'
  BY <1>1, <1>5 DEF WalkInv, WalkCovers, Tied
<1>8. (query.start \subseteq matching(query.filter))'
  BY <1>1, <1>4
<1> QED BY <1>1, <1>6, <1>7, <1>8 DEF WalkInv

\* A transaction that commits takes the next ids.
LEMMA CommitsGrow ==
    ASSUME WalkInv, job \in [JobId -> AnyJob], NEW t \in Submit, Commits(t)
    PROVE  /\ job' \in [JobId -> AnyJob] /\ (\E n \in Nat : known = 1..n)'
           /\ \A j \in known : Kept(j)
<1> DEFINE c == Cardinality(known)
<1>1. c \in Nat /\ known = 1..c
  <2>1. PICK n \in Nat : known = 1..n
    BY DEF WalkInv
  <2>2. Cardinality(1..n) = n
    BY FS_Interval
  <2> QED BY <2>1, <2>2
<1>2. t.size \in Nat /\ Ids(t) = c + 1 .. c + t.size
  BY DEF Submit, Ids
<1>3. /\ job' \in [JobId -> AnyJob]
      /\ \A j \in JobId \cap Ids(t) : job'[j].state # "absent" /\ job'[j].path = t.path
      /\ \A j \in JobId \ Ids(t) : job'[j] = job[j] \/ Archived(j)
  BY Landed DEF Lands
<1> HIDE DEF c
<1>4. \A j \in known : j \notin Ids(t) /\ j \in JobId /\ job[j].state # "absent"
  BY <1>1, <1>2 DEF known
<1>5. "running" # "dead" /\ "running" # "absent" /\ "absent" \notin TERMINAL_STATES
  BY DEF TERMINAL_STATES
<1>6. \A j \in known : Kept(j)
  BY <1>3, <1>4, <1>5 DEF Kept, Archived
<1>7. known' = known \cup (Ids(t) \cap JobId)
  <2>1. \A j \in JobId : job'[j].state # "absent" <=> j \in Ids(t) \/ job[j].state # "absent"
    BY <1>3, <1>5 DEF Archived
  <2> QED BY <2>1 DEF known
<1>8. known' = IF c + t.size <= MaxJobs THEN 1..c + t.size ELSE 1..MaxJobs
  <2>1. c <= MaxJobs
    BY <1>1, <1>4, ReadAssumption DEF JobId
  <2> QED BY <1>1, <1>2, <1>7, <2>1, ReadAssumption DEF JobId
<1> QED BY <1>1, <1>2, <1>3, <1>6, <1>8, ReadAssumption

\* The limit of a page, which the service caps.
LEMMA CappedType ==
    ASSUME NEW l \in Nat \ {0}
    PROVE  capped(l) \in Nat \ {0} /\ capped(l) = IF l <= MAX_PAGE THEN l ELSE MAX_PAGE
<1> DEFINE k == IF l <= MAX_PAGE THEN l ELSE MAX_PAGE
<1>1. Min({l, MAX_PAGE}) = k
  BY ReadAssumption DEF Min
<1>2. k \in Nat \ {0}
  BY ReadAssumption
<1> HIDE DEF k
<1>3. Max({1, k}) = k
  BY <1>2 DEF Max
<1>4. capped(l) = k
  BY <1>1, <1>3 DEF capped
<1> QED BY <1>2, <1>4 DEF k

\* The rows of a page, which are at most page_size.
LEMMA PageRows ==
    ASSUME NEW N \in Nat, NEW T, NEW q \in [1..N -> T], NEW o \in Nat, NEW l \in Nat \ {0}
    PROVE  /\ Range(jobs(q, l, o)) = {q[n] : n \in o + 1 .. (IF N < o + capped(l) THEN N ELSE o + capped(l))}
           /\ l <= MAX_PAGE => capped(l) = l /\ (Len(jobs(q, l, o)) = l <=> o + l <= N)
<1> DEFINE hi == IF N < o + capped(l) THEN N ELSE o + capped(l)
           items == SubSeq(q, o + 1, hi)
<1>2. capped(l) = IF l <= MAX_PAGE THEN l ELSE MAX_PAGE
  BY CappedType
<1>3. capped(l) \in Nat \ {0}
  BY CappedType
<1>4. Min({N, o + capped(l)}) = hi
  BY <1>3 DEF Min
<1>5. Len(q) = N /\ q \in Seq(T)
  OBVIOUS
<1>6. jobs(q, l, o) = items
  BY <1>4, <1>5, ZenonT(60) DEF jobs
<1>7. hi \in Nat /\ hi <= N
  BY <1>3
<1> HIDE DEF hi
<1>8. /\ items \in Seq(T) /\ Len(items) = IF o + 1 <= hi THEN hi - o ELSE 0
      /\ \A n \in 1..Len(items) : items[n] = q[o + n]
  <2> DEFINE m == o + 1
  <2>1. m \in Int /\ hi \in Int /\ \A n \in m..hi : q[n] \in T
    BY <1>7
  <2> HIDE DEF m
  <2>2. /\ SubSeq(q, m, hi) \in Seq(T) /\ Len(SubSeq(q, m, hi)) = IF m <= hi THEN hi - m + 1 ELSE 0
        /\ \A n \in 1..hi - m + 1 : SubSeq(q, m, hi)[n] = q[m + n - 1]
    BY <2>1, Slice
  <2>3. items = SubSeq(q, m, hi)
    BY DEF m
  <2> HIDE DEF items
  <2>4. \A n \in 1..Len(items) : n \in 1..hi - m + 1 /\ m + n - 1 = o + n
    BY <1>7, <2>1, <2>2, <2>3 DEF m
  <2> QED BY <1>7, <2>2, <2>3, <2>4 DEF m
<1> HIDE DEF items
<1>9. Range(items) = {q[n] : n \in o + 1 .. hi}
  <2>1. Range(items) = {items[n] : n \in 1..Len(items)}
    BY <1>8 DEF Range
  <2>2. \A n \in 1..Len(items) : items[n] = q[o + n] /\ o + n \in o + 1 .. hi
    BY <1>7, <1>8
  <2>3. \A n \in o + 1 .. hi : n - o \in 1..Len(items) /\ items[n - o] = q[n]
    BY <1>7, <1>8
  <2> QED BY <2>1, <2>2, <2>3
<1>10. l <= MAX_PAGE => capped(l) = l /\ (Len(items) = l <=> o + l <= N)
  BY <1>2, <1>8, <1>7 DEF hi
<1> QED BY <1>6, <1>9, <1>10 DEF hi

\* One page: it shows the promised rows whose place it covers, and a short one
\* is the last.
LEMMA PageStep ==
    ASSUME WalkInv, job \in [JobId -> AnyJob], NEW q \in orders(matching(query.filter)), Query(q)
    PROVE  WalkInv'
<1> DEFINE S == matching(query.filter)
           N == Cardinality(S)
           o == query.offset
           l == query.page_size
           items == jobs(q, l, o)
           hi == IF N < o + capped(l) THEN N ELSE o + capped(l)
           full == Len(items) = l
<1>1. /\ query \in [at: {"idle", "paging", "done"}, filter: {"any", "dead"}, page_size: Nat \ {0},
                    offset: Nat, seen: SUBSET JobId, start: SUBSET JobId]
      /\ query.start \subseteq S /\ query.at = "paging" /\ o \in Nat /\ l \in Nat \ {0}
      /\ l <= MAX_PAGE => \A j \in query.start : Promised(j)
  BY DEF WalkInv, Query
<1>2. S \in SUBSET JobId /\ IsFiniteSet(S) /\ q \in Bijection(1..Cardinality(S), S) /\ q \in Seq(S)
  <2>1. S \in SUBSET JobId /\ q \in Bijection(1..Cardinality(S), S)
    BY DEF matching, known, orders
  <2> QED BY <2>1, JobsFinite, OrderHoldsAll
<1>3. /\ N \in Nat /\ q \in [1..N -> S]
      /\ \A k \in S : \E n \in 1..N : q[n] = k
  BY <1>2, OrderHoldsAll
<1>4. \A m, n \in 1..N : m < n => job[q[m]].created_at >= job[q[n]].created_at
  <2>1. Len(q) = N
    BY <1>3
  <2> QED BY <2>1 DEF orders
<1>5. query' = [query EXCEPT !.seen = @ \cup Range(items),
                             !.offset = IF full THEN o + l ELSE @,
                             !.at = IF full THEN "paging" ELSE "done"]
      /\ job' = job
  BY DEF Query, next_offset
<1>6. /\ Range(items) = {q[n] : n \in o + 1 .. hi}
      /\ l <= MAX_PAGE => capped(l) = l /\ (full <=> o + l <= N)
  <2>1. N \in Nat /\ q \in [1..N -> S] /\ o \in Nat /\ l \in Nat \ {0}
    BY <1>1, <1>3
  <2> HIDE DEF S, N, o, l
  <2> QED BY <2>1, PageRows, ZenonT(60)
<1>7. Range(items) \subseteq JobId
  <2>1. hi <= N
    BY <1>1, <1>3, CappedType
  <2>2. hi \in Nat /\ N \in Nat /\ o \in Nat
    BY <1>1, <1>3, CappedType
  <2> HIDE DEF hi, N, o, S, items
  <2>3. \A n \in o + 1 .. hi : n \in 1..N
    BY <2>1, <2>2
  <2>4. \A n \in o + 1 .. hi : q[n] \in JobId
    BY <1>2, <1>3, <2>3
  <2> QED BY <1>6, <2>4
<1>8. /\ query' \in [at: {"idle", "paging", "done"}, filter: {"any", "dead"}, page_size: Nat \ {0},
                     offset: Nat, seen: SUBSET JobId, start: SUBSET JobId]
      /\ query'.filter = query.filter /\ query'.start = query.start /\ query'.page_size = l
      /\ query'.seen = query.seen \cup Range(items)
      /\ query'.offset = (IF full THEN o + l ELSE o)
      /\ query'.at = (IF full THEN "paging" ELSE "done")
  <2> HIDE DEF items, full
  <2>1. o + l \in Nat
    BY <1>1
  <2> QED BY <1>1, <1>5, <1>7, <2>1, ZenonT(60)
<1>9. matching(query.filter)' = S /\ known' = known
  BY <1>5, <1>8 DEF matching, known
<1>10. ASSUME NEW j \in query.start, l <= MAX_PAGE
       PROVE  j \in query'.seen \/ Tied(j) \/ (full /\ Cardinality(Newer(j)) >= o + l)
  <2>1. CASE j \in query.seen \/ Tied(j)
    BY <1>8, <2>1, ZenonT(60)
  <2>2. CASE ~Tied(j) /\ Cardinality(Newer(j)) >= o
    <3>1. PICK p \in 1..N : q[p] = j
      BY <1>1, <1>3
    <3>2. Cardinality(Newer(j)) = p - 1
      <4> DEFINE date == [k \in S |-> job[k].created_at]
      <4>1. \A k \in S : date[k] \in Nat
        BY <1>2 DEF AnyJob
      <4>2. \A m, n \in 1..N : m < n => date[q[m]] >= date[q[n]]
        BY <1>3, <1>4, ZenonT(60)
      <4>3. j \in S /\ \A k \in S : k # j => date[k] # date[j]
        BY <1>1, <2>2 DEF Tied
      <4>4. Newer(j) = {k \in S : date[k] > date[j]}
        BY <4>3 DEF Newer
      <4> HIDE DEF date, S
      <4>5. Cardinality({k \in S : date[k] > date[q[p]]}) = p - 1
        <5>1. /\ IsFiniteSet(S) /\ q \in Bijection(1..Cardinality(S), S) /\ p \in 1..Cardinality(S)
              /\ \A m, n \in 1..Cardinality(S) : m < n => date[q[m]] >= date[q[n]]
          BY <1>2, <4>2
        <5>2. \A k \in S : k # q[p] => date[k] # date[q[p]]
          BY <3>1, <4>3
        <5> QED BY ONLY <4>1, <5>1, <5>2, PlaceInOrder
      <4> QED BY <3>1, <4>4, <4>5
    <3>3. p >= o + 1
      BY <1>1, <1>3, <2>2, <3>2
    <3>4. hi \in Nat
      BY <1>1, <1>3, CappedType
    <3>5. CASE p <= hi
      <4> HIDE DEF hi, items
      <4>1. p \in o + 1 .. hi
        BY <1>1, <3>1, <3>3, <3>4, <3>5
      <4> QED BY <1>6, <1>8, <3>1, <4>1
    <3>6. CASE p > hi
      <4>1. capped(l) = l /\ (full <=> o + l <= N)
        BY <1>6, <1>10
      <4>2. hi = IF N < o + l THEN N ELSE o + l
        BY <4>1
      <4> HIDE DEF hi, full, N
      <4>3. o + l <= N /\ p - 1 >= o + l
        BY <1>1, <1>3, <3>1, <3>6, <4>2
      <4> QED BY <3>2, <4>1, <4>3
    <3>7. p <= hi \/ p > hi
      <4> HIDE DEF hi, N
      <4> QED BY <1>3, <3>1, <3>4
    <3> QED BY <3>5, <3>6, <3>7, ZenonT(60)
  <2> QED BY <1>1, <1>10, <2>1, <2>2 DEF Promised
<1>11. \A j \in query.start : (Tied(j)' <=> Tied(j)) /\ Newer(j)' = Newer(j)
  BY <1>5, <1>8, <1>9 DEF Tied, Newer
<1> HIDE DEF full, N, hi, items
<1>12. (query.at = "paging" /\ query.page_size <= MAX_PAGE => \A j \in query.start : Promised(j))'
  <2> SUFFICES ASSUME query'.at = "paging", l <= MAX_PAGE, NEW j \in query.start PROVE Promised(j)'
    BY <1>8
  <2>1. query'.offset = o + l
    BY <1>8
  <2>2. j \in query'.seen \/ Tied(j) \/ Cardinality(Newer(j)) >= o + l
    BY <1>10
  <2> QED BY <1>11, <2>1, <2>2 DEF Promised
<1>13. WalkCovers'
  BY <1>5, <1>8, <1>9, <1>10 DEF WalkCovers, Tied
<1>14. (query.start \subseteq matching(query.filter))'
  BY <1>1, <1>8, <1>9
<1>15. (\E n \in Nat : known = 1..n)'
  BY <1>9 DEF WalkInv
<1> QED BY <1>8, <1>12, <1>13, <1>14, <1>15 DEF WalkInv

\* A walk that has shown nothing yet, or none at all.
LEMMA FreshWalk ==
    ASSUME WalkInv, job' = job, NEW f \in {"any", "dead"}, NEW n \in Nat \ {0}, NEW at \in {"idle", "paging"},
           NEW rows \in SUBSET matching(f),
           query' = [at |-> at, filter |-> f, page_size |-> n, offset |-> 0, seen |-> {}, start |-> rows]
    PROVE  WalkInv'
<1>1. known' = known /\ matching(f)' = matching(f) /\ matching(f) \in SUBSET JobId
  BY DEF matching, known
<1>2. (\E k \in Nat : known = 1..k)'
  BY <1>1 DEF WalkInv
<1>3. \A j \in rows : Promised(j)'
  <2> SUFFICES ASSUME NEW j \in rows PROVE Cardinality(Newer(j)') >= 0 /\ query'.offset = 0
    BY DEF Promised
  <2>1. Newer(j)' \in SUBSET JobId
    BY <1>1 DEF Newer
  <2>2. Cardinality(Newer(j)') \in Nat
    BY <2>1, JobsFinite
  <2> QED BY <2>2
<1>4. WalkCovers'
  BY DEF WalkCovers
<1>5. query' \in [at: {"idle", "paging", "done"}, filter: {"any", "dead"}, page_size: Nat \ {0},
                  offset: Nat, seen: SUBSET JobId, start: SUBSET JobId]
  BY <1>1
<1>6. (query.start \subseteq matching(query.filter))'
  BY <1>1
<1> QED BY <1>2, <1>3, <1>4, <1>5, <1>6 DEF WalkInv

\* Every step of the control plane, and of the processes under it.
LEMMA WalkStep ==
    ASSUME CapInv, WalkInv, ReadNext \/ ReadsFollow \/ UNCHANGED readVars
    PROVE  WalkInv'
<1>0. job \in [JobId -> AnyJob]
  BY DEF CapInv
<1>1. ASSUME Steady, query' = query PROVE WalkInv'
  <2>1. (\E n \in Nat : known = 1..n)'
    BY <1>1 DEF Steady, WalkInv
  <2> QED BY <1>0, <1>1, <2>1, GrowthKeepsWalk DEF Steady
<1>2. ASSUME NEW t \in pending, Commits(t) PROVE WalkInv'
  <2>1. t \in Submit
    BY DEF CapInv
  <2>2. query' = query
    BY <1>2, ZenonT(60) DEF Commits, submit_commits, terminal_commits
  <2> QED BY <1>0, <1>2, <2>1, <2>2, CommitsGrow, GrowthKeepsWalk
<1>3. ASSUME NEW j \in JobId, NEW s \in JobState, job[j].state # "absent", moves(j, s) PROVE WalkInv'
  <2>1. Steady /\ query' = query
    BY <1>0, <1>3, MovesSteady, ZenonT(60) DEF moves
  <2> QED BY <1>1, <2>1
<1>4. ASSUME NEW j \in known, Cancel(j) PROVE WalkInv'
  <2>1. query' = query
    BY <1>4 DEF Cancel, cancel_reads, cancel_immediate, cancel_running
  <2>2. CASE j = cancel.job /\ cancel_immediate
    BY <1>0, <1>1, <2>1, <2>2, CancelSteady DEF known
  <2>3. CASE job' = job
    BY <1>0, <1>1, <2>1, <2>3, SameJobs
  <2> QED BY <1>4, <2>2, <2>3 DEF Cancel, cancel_reads, cancel_running
<1>5. ASSUME NEW f \in {"any", "dead"}, NEW n \in 1..MAX_PAGE + 1, query_begins(f, n) PROVE WalkInv'
  <2>1. n \in Nat \ {0} /\ matching(f) \in SUBSET matching(f) /\ job' = job
    BY <1>5, ReadAssumption DEF query_begins
  <2>2. query' = [at |-> "paging", filter |-> f, page_size |-> n, offset |-> 0, seen |-> {},
                  start |-> matching(f)]
    BY <1>5, ZenonT(60) DEF query_begins, NoQuery
  <2> HIDE <1>5
  <2> QED BY <2>1, <2>2, FreshWalk
<1>6. ASSUME NEW q \in orders(matching(query.filter)), Query(q) PROVE WalkInv'
  BY <1>0, <1>6, PageStep
<1>7. CASE UNCHANGED <<job, query>>
  BY <1>0, <1>1, <1>7, SameJobs
<1>8. CASE ReadsFollow
  <2>1. CASE query' = NoQuery /\ job' = job
    <3>1. {} \in SUBSET matching("any")
      OBVIOUS
    <3> QED BY <2>1, <3>1, FreshWalk DEF NoQuery
  <2> QED BY <1>7, <1>8, <2>1 DEF ReadsFollow
<1>9. CASE ReadNext
  <2>1. \/ \E t \in pending : Commits(t)
        \/ \E j \in JobId, s \in JobState : job[j].state # "absent" /\ moves(j, s)
        \/ \E f \in {"any", "dead"}, n \in 1..MAX_PAGE + 1 : query_begins(f, n)
        \/ \E j \in known : Cancel(j)
        \/ \E q \in orders(matching(query.filter)) : Query(q)
        \/ UNCHANGED <<job, query>>
    BY <1>9, ZenonT(60) DEF ReadNext, begins, submit_begins, fan_out_begins, resubmit_begins,
       terminal_begins, Commits, submit_fails, await_begins, AwaitJob, await_wakes, deadline
  <2> QED BY <2>1, <1>2, <1>3, <1>4, <1>5, <1>6, <1>7, ZenonT(60)
<1> QED BY <1>7, <1>8, <1>9 DEF readVars

\* For any number of jobs and any page size within the cap: a walk through the
\* pages of a growing list that ends has shown every job that matched when it
\* began and shares its created_at with no other, whatever was submitted,
\* moved or cancelled between two pages.
THEOREM WalksCover == Spec => []WalkCovers
<1>1. Init => CapInv /\ WalkInv
  <2> SUFFICES ASSUME Init PROVE WalkInv
    BY InitCapInv
  <2>1. known = {} /\ query = NoQuery
    BY DEF Init, ReadInit, known
  <2>2. known = 1..0
    BY <2>1
  <2>3. query \in [at: {"idle", "paging", "done"}, filter: {"any", "dead"}, page_size: Nat \ {0},
                   offset: Nat, seen: SUBSET JobId, start: SUBSET JobId]
    BY <2>1 DEF NoQuery
  <2> QED BY <2>1, <2>2, <2>3 DEF WalkInv, WalkCovers, NoQuery
<1>2. CapInv /\ WalkInv /\ [Next]_allVars => CapInv' /\ WalkInv'
  BY ReadView, CapStep, WalkStep
<1>3. WalkInv => WalkCovers
  BY DEF WalkInv
<1> QED BY <1>1, <1>2, <1>3, PTL DEF Spec

-----------------------------------------------------------------------------
(* The tail of the ledger. *)

\* Every row of a finite ledger has its place by id.
LEMMA Ranks ==
    ASSUME NEW R \in SUBSET Nat, IsFiniteSet(R)
    PROVE  /\ Cardinality(R) \in Nat
           /\ \A n \in 1..Cardinality(R) : \E i \in R : Cardinality({k \in R : k < i}) = n - 1
<1> DEFINE N == Cardinality(R)
           below(i) == {k \in R : k < i}
           f == [i \in R |-> Cardinality(below(i)) + 1]
<1>1. N \in Nat
  BY FS_CardinalityType
<1>2. \A i \in R : IsFiniteSet(below(i)) /\ Cardinality(below(i)) \in 0..N - 1
  <2> SUFFICES ASSUME NEW i \in R PROVE IsFiniteSet(below(i)) /\ Cardinality(below(i)) \in 0..N - 1
    OBVIOUS
  <2>1. below(i) \in SUBSET R /\ i \notin below(i)
    OBVIOUS
  <2> HIDE DEF below
  <2>2. IsFiniteSet(below(i)) /\ Cardinality(below(i)) <= N /\ Cardinality(below(i)) \in Nat
        /\ Cardinality(below(i)) # N
    BY <2>1, FS_Subset, FS_CardinalityType
  <2> QED BY <1>1, <2>2
<1>3. \A i, j \in R : i < j => Cardinality(below(i)) < Cardinality(below(j))
  <2> SUFFICES ASSUME NEW i \in R, NEW j \in R, i < j PROVE Cardinality(below(i)) < Cardinality(below(j))
    OBVIOUS
  <2>0. i \in Nat /\ j \in Nat /\ \A k \in R : k \in Nat
    OBVIOUS
  <2>1. below(i) \in SUBSET below(j) /\ i \in below(j) /\ i \notin below(i)
    <3>1. \A k \in below(i) : k \in R /\ k < j
      BY <2>0
    <3>2. i \in below(j) /\ i \notin below(i)
      BY <2>0
    <3> QED BY <3>1, <3>2, ZenonT(60)
  <2> HIDE DEF below, N
  <2>2. Cardinality(below(i)) <= Cardinality(below(j)) /\ Cardinality(below(i)) # Cardinality(below(j))
    BY <1>2, <2>1, FS_Subset
  <2> QED BY <1>1, <1>2, <2>2
<1> HIDE DEF below, N
<1>4. f \in [R -> 1..N] /\ \A i, j \in R : f[i] = f[j] => i = j
  <2>1. \A i \in R : Cardinality(below(i)) + 1 \in 1..N
    BY <1>1, <1>2
  <2>2. \A i, j \in R : i # j => Cardinality(below(i)) # Cardinality(below(j))
    <3>1. \A i, j \in R : i # j => i < j \/ j < i
      OBVIOUS
    <3>2. \A i \in R : Cardinality(below(i)) \in Nat
      BY <1>1, <1>2
    <3> QED BY <1>3, <3>1, <3>2
  <2>3. \A i, j \in R : i # j => Cardinality(below(i)) + 1 # Cardinality(below(j)) + 1
    BY <1>1, <1>2, <2>2
  <2> QED BY <2>1, <2>3
<1>5. f \in Injection(R, 1..N)
  <2> HIDE DEF f
  <2> QED BY <1>4 DEF Injection, IsInjective
<1>6. IsFiniteSet(1..N) /\ Cardinality(1..N) = N
  BY <1>1, FS_Interval
<1>7. f \in Surjection(R, 1..N)
  <2> HIDE DEF f
  <2> QED BY <1>5, <1>6, FS_Injection DEF N
<1>8. \A n \in 1..N : \E i \in R : f[i] = n
  <2> HIDE DEF f
  <2> QED BY <1>7 DEF Surjection
<1>9. \A n \in 1..N : \E i \in R : Cardinality(below(i)) = n - 1
  <2> SUFFICES ASSUME NEW n \in 1..N PROVE \E i \in R : Cardinality(below(i)) = n - 1
    OBVIOUS
  <2>1. PICK i \in R : f[i] = n
    BY <1>8
  <2>2. Cardinality(below(i)) + 1 = n /\ Cardinality(below(i)) \in Nat
    BY <1>1, <1>2, <2>1
  <2> QED BY <2>2
<1> QED BY <1>1, <1>9 DEF below, N

\* A page holds rows of the ledger after the cursor, in id order.
LEMMA PageInOrder ==
    ASSUME ledger \in SUBSET Nat, IsFiniteSet(ledger), NEW id \in Nat
    PROVE  /\ page_after(id) \in Seq(Nat)
           /\ \A n \in 1..Len(page_after(id)) : page_after(id)[n] \in ledger /\ page_after(id)[n] > id
           /\ \A m, n \in 1..Len(page_after(id)) : m < n => page_after(id)[m] < page_after(id)[n]
<1> DEFINE R == {i \in ledger : i > id}
           rank(i) == Cardinality({k \in R : k < i})
           L == Min({BATCH, Cardinality(R)})
           p == [n \in 1..L |-> CHOOSE i \in R : rank(i) = n - 1]
<1>1. R \in SUBSET Nat /\ R \in SUBSET ledger /\ IsFiniteSet(R)
  <2>1. R \in SUBSET Nat /\ R \in SUBSET ledger
    BY ZenonT(60)
  <2> QED BY <2>1, FS_Subset
<1>2. page_after(id) = p
  BY DEF page_after
<1>3. \A i \in R : i > id /\ i \in ledger /\ i \in Nat
  OBVIOUS
<1> HIDE DEF R
<1>4. Cardinality(R) \in Nat /\ \A n \in 1..Cardinality(R) : \E i \in R : rank(i) = n - 1
  BY <1>1, Ranks, ZenonT(60)
<1>5. L \in Nat /\ L <= Cardinality(R)
  BY <1>4, StreamAssumption DEF Min
<1>6. \A i, j \in R : i <= j => rank(i) <= rank(j) /\ rank(i) \in Nat /\ rank(j) \in Nat
  <2> SUFFICES ASSUME NEW i \in R, NEW j \in R, i <= j
               PROVE  rank(i) <= rank(j) /\ rank(i) \in Nat /\ rank(j) \in Nat
    OBVIOUS
  <2>1. {k \in R : k < i} \in SUBSET {k \in R : k < j} /\ {k \in R : k < j} \in SUBSET R
    <3>1. \A k \in R : k < i => k < j
      BY <1>3
    <3> QED BY <3>1
  <2> QED BY <1>1, <2>1, FS_Subset, FS_CardinalityType
<1> HIDE DEF rank, L
<1>7. \A n \in 1..L : p[n] \in R /\ rank(p[n]) = n - 1
  <2> SUFFICES ASSUME NEW n \in 1..L PROVE p[n] \in R /\ rank(p[n]) = n - 1
    OBVIOUS
  <2>1. \E i \in R : rank(i) = n - 1
    BY <1>4, <1>5
  <2>2. p[n] = CHOOSE i \in R : rank(i) = n - 1
    OBVIOUS
  <2> HIDE DEF p
  <2> QED BY <2>1, <2>2
<1>8. p \in Seq(Nat) /\ Len(p) = L
  <2>1. p \in [1..L -> Nat]
    BY <1>3, <1>7
  <2> HIDE DEF p
  <2> QED BY <1>5, <2>1
<1> HIDE DEF p
<1>9. \A m, n \in 1..L : m < n => p[m] < p[n]
  <2> SUFFICES ASSUME NEW m \in 1..L, NEW n \in 1..L, m < n, ~(p[m] < p[n]) PROVE FALSE
    OBVIOUS
  <2>1. p[m] \in R /\ p[n] \in R /\ rank(p[m]) = m - 1 /\ rank(p[n]) = n - 1
    BY <1>7
  <2>2. p[n] <= p[m]
    BY <1>3, <2>1
  <2> QED BY <1>5, <1>6, <2>1, <2>2
<1> QED BY <1>2, <1>3, <1>7, <1>8, <1>9

\* The head of a ledger that is not empty.
LEMMA HeadOf ==
    ASSUME NEW R \in SUBSET Nat, IsFiniteSet(R), R # {}
    PROVE  Max(R) \in R /\ \A k \in R : Max(R) >= k
<1> DEFINE N == Cardinality(R)
           below(i) == {k \in R : k < i}
<1>1. N \in Nat /\ N # 0 /\ \A n \in 1..N : \E i \in R : Cardinality(below(i)) = n - 1
  BY Ranks, FS_EmptySet
<1>2. PICK i \in R : Cardinality(below(i)) = N - 1
  <2> HIDE DEF N
  <2> QED BY <1>1
<1>3. IsFiniteSet(R \ {i}) /\ Cardinality(R \ {i}) = N - 1
  BY FS_RemoveElement
<1>4. below(i) \in SUBSET (R \ {i})
  <2>1. \A k \in below(i) : k \in R /\ k # i
    OBVIOUS
  <2> QED BY <2>1
<1>5. below(i) = R \ {i}
  <2> HIDE DEF below, N
  <2> QED BY <1>2, <1>3, <1>4, FS_Subset
<1>6. \A k \in R : i >= k
  <2>1. \A k \in R : k # i => k \in below(i)
    BY <1>5
  <2> QED BY <2>1
<1> QED BY <1>6, ZenonT(60) DEF Max

\* A connection, and the order of what it was handed and what it has queued.
Connection == [on: SUBSET Engine, queue: Seq(Nat), last: Nat,
               seen: SUBSET Nat, owed: SUBSET Nat, missed: SUBSET Nat]
InOrder(s) ==
    /\ \A n \in 1..Len(s.queue) : s.last < s.queue[n]
    /\ \A m, n \in 1..Len(s.queue) : m < n => s.queue[m] < s.queue[n]
Behind(s, id) == s.last <= id /\ \A n \in 1..Len(s.queue) : s.queue[n] <= id

\* A page put into a queue, whatever a full one drops.
LEMMA FanOutInOrder ==
    ASSUME NEW s \in Connection, InOrder(s), NEW lo \in Nat, Behind(s, lo), NEW rows \in Seq(Nat),
           \A n \in 1..Len(rows) : rows[n] > lo,
           \A m, n \in 1..Len(rows) : m < n => rows[m] < rows[n]
    PROVE  /\ fan_out(s, rows) \in Connection /\ InOrder(fan_out(s, rows)) /\ fan_out(s, rows).on = s.on
           /\ \A hi \in Nat : lo <= hi /\ (\A n \in 1..Len(rows) : rows[n] <= hi) => Behind(fan_out(s, rows), hi)
<1> DEFINE q == s.queue
           k == Len(q)
           r == Len(rows)
           all == q \o rows
           drop == Max({0, Len(all) - QUEUE_MAX})
           queue == SubSeq(all, drop + 1, Len(all))
           missed == s.missed \cup ({all[n] : n \in 1..drop} \cap s.owed)
           t == fan_out(s, rows)
<1>1. q \in Seq(Nat) /\ s.last \in Nat /\ s.missed \in SUBSET Nat /\ s.owed \in SUBSET Nat
  BY DEF Connection
<1>2. /\ \A n \in 1..k : s.last < q[n] /\ q[n] <= lo
      /\ \A m, n \in 1..k : m < n => q[m] < q[n]
      /\ \A n \in 1..r : rows[n] > lo
      /\ \A m, n \in 1..r : m < n => rows[m] < rows[n]
      /\ s.last <= lo
  BY ZenonT(60) DEF InOrder, Behind
<1>3. /\ k \in Nat /\ r \in Nat /\ all \in Seq(Nat) /\ Len(all) = k + r
      /\ \A n \in 1..k : q[n] \in Nat
      /\ \A n \in 1..r : rows[n] \in Nat
      /\ \A n \in 1..k + r : all[n] = IF n <= k THEN q[n] ELSE rows[n - k]
  <2> HIDE DEF q
  <2> QED BY <1>1, Joined
<1> HIDE DEF q, k, r, all
<1>4. ASSUME NEW n \in 1..k + r, n > k
      PROVE  n - k \in 1..r /\ all[n] = rows[n - k] /\ all[n] \in Nat /\ all[n] > lo
  <2>1. n - k \in 1..r /\ all[n] = rows[n - k]
    BY <1>3, <1>4
  <2> QED BY <1>2, <1>3, <2>1
<1>5. ASSUME NEW n \in 1..k + r, n <= k
      PROVE  n \in 1..k /\ all[n] = q[n] /\ all[n] \in Nat /\ all[n] <= lo /\ s.last < all[n]
  <2>1. n \in 1..k /\ all[n] = q[n]
    BY <1>3, <1>5
  <2> QED BY <1>2, <1>3, <2>1
<1>6. ASSUME NEW n \in 1..k + r PROVE all[n] \in Nat /\ s.last < all[n]
  <2>1. CASE n <= k
    BY <1>5, <2>1
  <2>2. CASE n > k
    <3>1. s.last \in Nat /\ s.last <= lo /\ all[n] \in Nat /\ all[n] > lo
      BY <1>1, <1>2, <1>4, <2>2
    <3> QED BY <3>1
  <2> QED BY <1>3, <2>1, <2>2
<1>7. ASSUME NEW m \in 1..k + r, NEW n \in 1..k + r, m < n PROVE all[m] < all[n]
  <2>1. CASE n <= k
    <3>1. m <= k
      BY <1>3, <1>7, <2>1
    <3>2. n \in 1..k /\ m \in 1..k /\ all[m] = q[m] /\ all[n] = q[n]
      BY <1>5, <2>1, <3>1
    <3> QED BY <1>2, <1>7, <3>2
  <2>2. CASE m > k
    <3>1. n > k /\ m - k < n - k
      BY <1>3, <1>7, <2>2
    <3>2. m - k \in 1..r /\ n - k \in 1..r /\ all[m] = rows[m - k] /\ all[n] = rows[n - k]
      BY <1>4, <2>2, <3>1
    <3> QED BY <1>2, <3>1, <3>2
  <2>3. CASE m <= k /\ n > k
    <3>1. all[m] \in Nat /\ all[n] \in Nat /\ all[m] <= lo /\ all[n] > lo
      BY <1>4, <1>5, <2>3
    <3> QED BY <3>1
  <2> QED BY <1>3, <2>1, <2>2, <2>3
<1>8. drop \in Nat /\ drop <= k + r
  <2> DEFINE l == Len(all) - QUEUE_MAX
  <2>1. l \in Int /\ l <= k + r
    BY <1>3, StreamAssumption
  <2> HIDE DEF l
  <2>2. Max({0, l}) = IF l > 0 THEN l ELSE 0
    BY <2>1 DEF Max
  <2> QED BY <1>3, <2>1, <2>2 DEF l
<1> HIDE DEF drop
<1>9. /\ queue \in Seq(Nat) /\ Len(queue) = k + r - drop
      /\ \A n \in 1..Len(queue) : queue[n] = all[drop + n] /\ drop + n \in 1..k + r
  <2> DEFINE a == drop + 1
             b == k + r
  <2>1. a \in Int /\ b \in Int /\ \A n \in a..b : all[n] \in Nat
    BY <1>3, <1>6, <1>8
  <2>2. queue = SubSeq(all, a, b)
    BY <1>3
  <2>3. b >= drop /\ b \in Nat /\ a = drop + 1 /\ b = k + r
    BY <1>3, <1>8
  <2> HIDE DEF a, b, queue
  <2>4. /\ queue \in Seq(Nat) /\ Len(queue) = IF a <= b THEN b - a + 1 ELSE 0
        /\ \A n \in 1..b - a + 1 : queue[n] = all[a + n - 1]
    BY <2>1, <2>2, Slice
  <2>5. (IF a <= b THEN b - a + 1 ELSE 0) = b - drop /\ b - a + 1 = b - drop
    BY <1>8, <2>3
  <2>6. \A n \in 1..b - drop : a + n - 1 = drop + n /\ drop + n \in 1..b
    BY <1>8, <2>3
  <2>7. Len(queue) = b - drop
    BY <2>4, <2>5
  <2>8. \A n \in 1..b - drop : queue[n] = all[drop + n]
    BY <2>4, <2>5, <2>6
  <2>9. Len(queue) = k + r - drop
    <3>1. k \in Nat /\ r \in Nat /\ drop \in Nat
      BY <1>3, <1>8
    <3> HIDE DEF k, r
    <3> QED BY <2>3, <2>7, <3>1
  <2>10. ASSUME NEW n \in 1..Len(queue) PROVE queue[n] = all[drop + n] /\ drop + n \in 1..k + r
    <3>1. n \in 1..b - drop
      BY <2>7
    <3>2. (1..b) = 1..k + r
      BY <2>3
    <3> QED BY <2>6, <2>8, <3>1, <3>2, ZenonT(60)
  <2> QED BY <2>4, <2>9, <2>10
<1>10. missed \in SUBSET Nat
  BY <1>1
<1>11. t = [s EXCEPT !.queue = queue, !.missed = missed]
  BY DEF fan_out, all, drop, q
<1> HIDE DEF queue, missed
<1>12. t \in Connection /\ t.queue = queue /\ t.last = s.last /\ t.on = s.on
  <2> HIDE DEF t
  <2> QED BY <1>9, <1>10, <1>11, ZenonT(60) DEF Connection
<1> HIDE DEF t
<1>13. InOrder(t)
  <2>1. \A n \in 1..Len(queue) : s.last < queue[n]
    BY <1>6, <1>9
  <2>2. \A m, n \in 1..Len(queue) : m < n => drop + m < drop + n
    BY <1>8
  <2>3. \A m, n \in 1..Len(queue) : m < n => queue[m] < queue[n]
    BY <1>7, <1>9, <2>2, ZenonT(60)
  <2> QED BY <1>12, <2>1, <2>3 DEF InOrder
<1>14. ASSUME NEW hi \in Nat, lo <= hi, \A n \in 1..Len(rows) : rows[n] <= hi
       PROVE  Behind(t, hi)
  <2>1. \A n \in 1..k + r : all[n] <= hi
    <3> SUFFICES ASSUME NEW n \in 1..k + r PROVE all[n] <= hi
      OBVIOUS
    <3>1. CASE n <= k
      <4>1. all[n] \in Nat /\ all[n] <= lo
        BY <1>5, <3>1
      <4> QED BY <1>14, <4>1
    <3>2. CASE n > k
      BY <1>4, <1>14, <3>2 DEF r
    <3> QED BY <1>3, <3>1, <3>2
  <2>2. s.last <= hi
    BY <1>1, <1>2, <1>14
  <2> QED BY <1>9, <1>12, <2>1, <2>2 DEF Behind
<1> QED BY <1>12, <1>13, <1>14 DEF t

\* The rows a subscriber of e was handed or has queued are behind the cursor of
\* e, which stands at a row of the ledger or at its start.
Ordered(c) ==
    /\ InOrder(sub[c])
    /\ \A e \in sub[c].on : sub[c].on = {e} /\ Behind(sub[c], after_id[e])
LedgerInv ==
    /\ seq \in Nat /\ open \subseteq 1..seq /\ ledger \subseteq 1..seq
    /\ after_id \in [Engine -> Nat] /\ \A e \in Engine : after_id[e] \in {0} \cup ledger
TailInv ==
    /\ LedgerInv
    /\ sub \in [Sub -> Connection]
    /\ \A c \in Sub : Ordered(c)

\* The head of the ledger is ahead of every cursor.
LEMMA HeadAhead ==
    ASSUME LedgerInv
    PROVE  /\ ledger \in SUBSET Nat /\ IsFiniteSet(ledger)
           /\ max_event_id \in {0} \cup ledger /\ max_event_id \in Nat
           /\ \A e \in Engine : after_id[e] <= max_event_id
<1>1. ledger \in SUBSET Nat /\ seq \in Nat /\ ledger \in SUBSET (1..seq)
  BY DEF LedgerInv
<1>2. IsFiniteSet(ledger)
  <2>1. IsFiniteSet(1..seq)
    BY <1>1, FS_Interval
  <2> QED BY <1>1, <2>1, FS_Subset, ZenonT(60)
<1>3. max_event_id \in {0} \cup ledger /\ max_event_id \in Nat /\ \A k \in ledger : max_event_id >= k
  <2>1. CASE ledger = {}
    BY <2>1 DEF max_event_id
  <2>2. CASE ledger # {}
    <3>1. max_event_id \in ledger /\ \A k \in ledger : max_event_id >= k
      BY <1>1, <1>2, <2>2, HeadOf, ZenonT(60) DEF max_event_id
    <3> QED BY <1>1, <3>1
  <2> QED BY <2>1, <2>2
<1>4. \A e \in Engine : after_id[e] <= max_event_id
  <2>1. \A e \in Engine : after_id[e] = 0 \/ after_id[e] \in ledger
    BY DEF LedgerInv
  <2> QED BY <1>3, <2>1
<1> QED BY <1>1, <1>2, <1>3, <1>4

\* A connection whose rows stay as they are, under a cursor that did not move
\* back.
LEMMA KeepsOrder ==
    ASSUME TailInv, NEW c \in Sub,
           sub'[c].on = sub[c].on, sub'[c].queue = sub[c].queue, sub'[c].last = sub[c].last,
           \A e \in sub[c].on : after_id'[e] \in Nat /\ after_id'[e] >= after_id[e]
    PROVE  Ordered(c)'
<1>0. /\ sub[c] \in Connection /\ sub[c].last \in Nat /\ sub[c].queue \in Seq(Nat) /\ sub[c].on \subseteq Engine
      /\ InOrder(sub[c]) /\ \A e \in sub[c].on : sub[c].on = {e} /\ Behind(sub[c], after_id[e])
  BY DEF TailInv, Ordered, Connection
<1>1. InOrder(sub'[c])
  BY <1>0 DEF InOrder
<1>2. ASSUME NEW e \in sub[c].on PROVE Behind(sub'[c], after_id'[e])
  <2>1. /\ after_id[e] \in Nat /\ after_id'[e] \in Nat /\ after_id'[e] >= after_id[e]
        /\ sub[c].last <= after_id[e]
    BY <1>0 DEF TailInv, LedgerInv, Behind
  <2>2. \A n \in 1..Len(sub[c].queue) : sub[c].queue[n] \in Nat /\ sub[c].queue[n] <= after_id[e]
    BY <1>0 DEF Behind
  <2>3. sub[c].last <= after_id'[e] /\ \A n \in 1..Len(sub[c].queue) : sub[c].queue[n] <= after_id'[e]
    BY <1>0, <2>1, <2>2
  <2> QED BY <2>3 DEF Behind
<1> QED BY <1>0, <1>1, <1>2 DEF Ordered

\* No connection at all.
LEMMA NoConnection ==
    /\ Gone \in Connection /\ Gone.on = {} /\ Gone.last = 0 /\ Gone.queue = <<>>
    /\ InOrder(Gone)
<1>1. <<>> \in Seq(Nat) /\ Len(<<>>) = 0 /\ {} \in SUBSET Engine /\ {} \in SUBSET Nat /\ 0 \in Nat
  OBVIOUS
<1>2. Gone.on = {} /\ Gone.last = 0 /\ Gone.queue = <<>>
  BY DEF Gone
<1>3. Gone \in Connection
  BY <1>1 DEF Gone, Connection
<1>4. InOrder(Gone)
  BY <1>1, <1>2 DEF InOrder
<1> QED BY <1>2, <1>3, <1>4

\* A connection that was handed nothing yet.
LEMMA NewConnection ==
    ASSUME NEW E \in SUBSET Engine
    PROVE  /\ [Gone EXCEPT !.on = E] \in Connection /\ InOrder([Gone EXCEPT !.on = E])
           /\ [Gone EXCEPT !.on = E].on = E
           /\ \A id \in Nat : Behind([Gone EXCEPT !.on = E], id)
<1> DEFINE s == [Gone EXCEPT !.on = E]
<1>1. s \in Connection /\ s.on = E /\ s.last = 0 /\ s.queue = <<>>
  BY NoConnection DEF Connection
<1> HIDE DEF s
<1>2. InOrder(s) /\ \A id \in Nat : Behind(s, id)
  <2>1. Len(<<>>) = 0
    OBVIOUS
  <2> QED BY <1>1, <2>1 DEF InOrder, Behind
<1> QED BY <1>1, <1>2 DEF s

\* Steps that keep the ledger and every cursor, or move them on, and change no
\* row of a connection, except that a connection may end.
LEMMA QuietTail ==
    ASSUME TailInv, LedgerInv', sub' \in [Sub -> Connection],
           \A c \in Sub : \/ sub'[c] = Gone
                          \/ /\ sub'[c].on = sub[c].on /\ sub'[c].queue = sub[c].queue /\ sub'[c].last = sub[c].last
                             /\ \A e \in sub[c].on : after_id'[e] >= after_id[e]
    PROVE  TailInv'
<1>1. ASSUME NEW c \in Sub, sub'[c] = Gone PROVE Ordered(c)'
  BY <1>1, NoConnection DEF Ordered
<1>2. ASSUME NEW c \in Sub, sub'[c] # Gone PROVE Ordered(c)'
  <2>1. sub[c].on \subseteq Engine
    BY DEF TailInv, Connection
  <2>2. \A e \in sub[c].on : after_id'[e] \in Nat
    BY <2>1 DEF LedgerInv
  <2> QED BY <1>2, <2>2, KeepsOrder
<1> QED BY <1>1, <1>2 DEF TailInv

\* The cursor of an engine jumps to the head of the ledger.
LEMMA HeadStep ==
    ASSUME TailInv, NEW e \in Engine, to_head(e), UNCHANGED <<seq, open, ledger>>
    PROVE  TailInv'
<1>1. /\ max_event_id \in {0} \cup ledger /\ max_event_id \in Nat
      /\ \A f \in Engine : after_id[f] <= max_event_id
  BY HeadAhead DEF TailInv
<1>2. after_id \in [Engine -> Nat] /\ after_id' = [after_id EXCEPT ![e] = max_event_id]
  BY DEF TailInv, LedgerInv, to_head
<1>3. LedgerInv'
  BY <1>1, <1>2 DEF TailInv, LedgerInv
<1>4. ASSUME NEW c \in Sub
      PROVE  /\ sub'[c] \in Connection
             /\ sub'[c].on = sub[c].on /\ sub'[c].queue = sub[c].queue /\ sub'[c].last = sub[c].last
             /\ \A f \in sub[c].on : after_id'[f] >= after_id[f]
  <2>1. sub[c] \in Connection
    BY DEF TailInv
  <2>2. \/ sub'[c] = sub[c]
        \/ sub'[c] = [sub[c] EXCEPT !.missed = @ \cup {i \in sub[c].owed : after_id[e] < i /\ i <= max_event_id}]
    BY DEF to_head, Passed
  <2>3. \A f \in Engine : after_id'[f] >= after_id[f]
    BY <1>1, <1>2
  <2> QED BY <2>1, <2>2, <2>3 DEF Connection
<1>5. sub' \in [Sub -> Connection]
  <2>1. sub' = [c \in Sub |-> sub'[c]]
    BY DEF to_head, Passed
  <2> QED BY <1>4, <2>1
<1> QED BY <1>3, <1>4, <1>5, QuietTail

\* The cursor of an engine moves to the last row of a page, which goes to the
\* queue of each of its subscribers.
LEMMA FanOutStep ==
    ASSUME TailInv, NEW e \in Engine, UNCHANGED <<seq, open, ledger>>, events_since(e) # <<>>,
           after_id' = [after_id EXCEPT ![e] = cursor(events_since(e))],
           sub' = [c \in Sub |-> IF c \in on(e) THEN fan_out(sub[c], events_since(e)) ELSE sub[c]]
    PROVE  TailInv'
<1> DEFINE rows == events_since(e)
           lo == after_id[e]
           hi == cursor(rows)
<1>1. /\ after_id \in [Engine -> Nat] /\ lo \in Nat /\ sub \in [Sub -> Connection]
      /\ ledger \in SUBSET Nat /\ IsFiniteSet(ledger)
  BY HeadAhead DEF TailInv, LedgerInv
<1>2. /\ rows \in Seq(Nat)
      /\ \A n \in 1..Len(rows) : rows[n] \in ledger /\ rows[n] > lo
      /\ \A m, n \in 1..Len(rows) : m < n => rows[m] < rows[n]
  BY <1>1, PageInOrder, ZenonT(60) DEF events_since
<1> HIDE DEF rows
<1>3. Len(rows) \in Nat \ {0} /\ hi = rows[Len(rows)]
  BY <1>2 DEF rows, cursor
<1>4. hi \in ledger /\ hi \in Nat /\ lo <= hi /\ \A n \in 1..Len(rows) : rows[n] <= hi
  <2>1. Len(rows) \in 1..Len(rows) /\ \A n \in 1..Len(rows) : rows[n] \in Nat /\ (n < Len(rows) \/ n = Len(rows))
    BY <1>2, <1>3
  <2>2. hi \in ledger /\ hi \in Nat /\ hi > lo
    BY <1>1, <1>2, <1>3, <2>1
  <2>3. \A n \in 1..Len(rows) : rows[n] < hi \/ rows[n] = hi
    BY <1>2, <1>3, <2>1
  <2> QED BY <1>1, <2>1, <2>2, <2>3
<1>5. after_id' = [after_id EXCEPT ![e] = hi]
  BY DEF rows
<1> HIDE DEF hi, lo
<1>6. LedgerInv'
  BY <1>1, <1>4, <1>5 DEF TailInv, LedgerInv
<1>7. ASSUME NEW c \in Sub, c \in on(e) PROVE sub'[c] \in Connection /\ Ordered(c)'
  <2>1. sub[c] \in Connection /\ InOrder(sub[c]) /\ sub[c].on = {e} /\ Behind(sub[c], lo)
    BY <1>1, <1>7, ZenonT(60) DEF TailInv, Ordered, on, lo
  <2>2. sub'[c] = fan_out(sub[c], rows)
    BY <1>7 DEF rows
  <2>3. /\ fan_out(sub[c], rows) \in Connection /\ InOrder(fan_out(sub[c], rows))
        /\ fan_out(sub[c], rows).on = sub[c].on
        /\ lo <= hi /\ (\A n \in 1..Len(rows) : rows[n] <= hi) => Behind(fan_out(sub[c], rows), hi)
    BY <1>1, <1>2, <1>4, <2>1, FanOutInOrder, ZenonT(60)
  <2>4. Behind(fan_out(sub[c], rows), hi)
    BY <1>4, <2>3
  <2>5. after_id'[e] = hi
    BY <1>1, <1>5
  <2> QED BY <2>1, <2>2, <2>3, <2>4, <2>5, ZenonT(60) DEF Ordered
<1>8. ASSUME NEW c \in Sub, c \notin on(e) PROVE sub'[c] \in Connection /\ Ordered(c)'
  <2>1. sub'[c] = sub[c] /\ sub[c] \in Connection /\ sub[c].on \subseteq Engine /\ e \notin sub[c].on
    BY <1>1, <1>8 DEF on, Connection
  <2>2. \A f \in sub[c].on : after_id'[f] \in Nat /\ after_id'[f] >= after_id[f]
    BY <1>1, <1>5, <2>1
  <2> QED BY <2>1, <2>2, KeepsOrder
<1>9. sub' \in [Sub -> Connection]
  <2>1. sub' = [c \in Sub |-> sub'[c]]
    OBVIOUS
  <2> QED BY <1>7, <1>8, <2>1
<1> QED BY <1>6, <1>7, <1>8, <1>9 DEF TailInv

\* A client takes the first row of its queue.
LEMMA GetStep ==
    ASSUME TailInv, NEW c \in Sub, get(c)
    PROVE  TailInv'
<1> DEFINE q == sub[c].queue
           t == Tail(q)
<1>1. /\ sub \in [Sub -> Connection] /\ sub[c] \in Connection /\ q \in Seq(Nat) /\ sub[c].seen \in SUBSET Nat
      /\ sub[c].on \in SUBSET Engine /\ InOrder(sub[c])
      /\ \A e \in sub[c].on : sub[c].on = {e} /\ Behind(sub[c], after_id[e])
  BY DEF TailInv, Ordered, Connection
<1>2. q # <<>> /\ UNCHANGED <<seq, open, ledger, after_id>>
  BY DEF get
<1>3. sub' = [sub EXCEPT ![c] = [sub[c] EXCEPT !.queue = t, !.last = Head(q), !.seen = @ \cup {Head(q)}]]
  BY <1>1, ZenonT(60) DEF get
<1>4. /\ t \in Seq(Nat) /\ Len(q) \in Nat \ {0} /\ Len(t) = Len(q) - 1 /\ Head(q) = q[1] /\ q[1] \in Nat
      /\ \A n \in 1..Len(t) : t[n] = q[n + 1]
  BY <1>1, <1>2
<1>5. \A n \in 1..Len(t) : n + 1 \in 1..Len(q) /\ 1 < n + 1
  BY <1>4
<1>6. 1 \in 1..Len(q)
  BY <1>4
<1> HIDE DEF t, q
<1>7. sub'[c] \in Connection /\ sub'[c].on = sub[c].on /\ sub'[c].queue = t /\ sub'[c].last = q[1]
  BY <1>1, <1>3, <1>4, ZenonT(60) DEF Connection
<1>8. InOrder(sub'[c])
  <2>1. \A m, n \in 1..Len(q) : m < n => q[m] < q[n]
    BY <1>1 DEF InOrder, q
  <2>2. \A n \in 1..Len(t) : q[1] < t[n]
    BY <1>4, <1>5, <1>6, <2>1
  <2>3. \A m, n \in 1..Len(t) : m < n => m + 1 < n + 1
    BY <1>4
  <2>4. \A m, n \in 1..Len(t) : m < n => t[m] < t[n]
    BY <1>4, <1>5, <2>1, <2>3, ZenonT(60)
  <2> QED BY <1>7, <2>2, <2>4 DEF InOrder
<1>9. ASSUME NEW e \in sub[c].on PROVE Behind(sub'[c], after_id'[e])
  <2>1. \A n \in 1..Len(q) : q[n] <= after_id[e]
    BY <1>1 DEF Behind, q
  <2> QED BY <1>2, <1>4, <1>5, <1>6, <1>7, <2>1 DEF Behind
<1>10. Ordered(c)'
  BY <1>1, <1>7, <1>8, <1>9, ZenonT(60) DEF Ordered
<1>11. \A d \in Sub : d # c => sub'[d] = sub[d]
  BY <1>1, <1>3
<1>12. \A d \in Sub : Ordered(d)'
  BY <1>2, <1>10, <1>11 DEF TailInv, Ordered
<1>13. sub' \in [Sub -> Connection]
  BY <1>1, <1>3, <1>7, <1>11
<1> QED BY <1>2, <1>12, <1>13 DEF TailInv, LedgerInv

\* A connection begins with nothing queued.
LEMMA SubscribeStep ==
    ASSUME TailInv, NEW c \in Sub, NEW e \in Engine, subscribe(c, e)
    PROVE  TailInv'
<1> DEFINE s == [Gone EXCEPT !.on = {e}]
<1>1. s \in Connection /\ InOrder(s) /\ s.on = {e} /\ \A id \in Nat : Behind(s, id)
  BY NewConnection
<1>2. sub' = [sub EXCEPT ![c] = s] /\ UNCHANGED <<seq, open, ledger, after_id>>
  BY DEF subscribe
<1> HIDE DEF s
<1>3. sub \in [Sub -> Connection] /\ after_id[e] \in Nat
  BY DEF TailInv, LedgerInv
<1>4. Ordered(c)'
  BY <1>1, <1>2, <1>3 DEF Ordered
<1>5. \A d \in Sub : d # c => Ordered(d)'
  BY <1>2, <1>3 DEF TailInv, Ordered
<1> QED BY <1>1, <1>2, <1>3, <1>4, <1>5, ZenonT(60) DEF TailInv, LedgerInv

\* The transactions of the ledger: a row that commits is one of its ids.
LEMMA LedgerSteps ==
    ASSUME TailInv, record_event \/ \E i \in open : commit(i) \/ rollback(i)
    PROVE  TailInv'
<1>1. /\ seq \in Nat /\ open \subseteq 1..seq /\ ledger \subseteq 1..seq
      /\ after_id \in [Engine -> Nat] /\ \A e \in Engine : after_id[e] \in {0} \cup ledger
      /\ sub \in [Sub -> Connection] /\ \A c \in Sub : sub[c].on \subseteq Engine
  BY ZenonT(60) DEF TailInv, LedgerInv, Connection
<1>2. after_id' = after_id
  BY ZenonT(60) DEF record_event, commit, rollback
<1>3. LedgerInv'
  <2>1. CASE record_event
    <3>1. (1..seq) \subseteq 1..seq + 1 /\ seq + 1 \in 1..seq + 1 /\ seq + 1 \in Nat
      BY <1>1
    <3> QED BY <1>1, <1>2, <2>1, <3>1 DEF record_event, LedgerInv
  <2>2. CASE \E i \in open : commit(i) \/ rollback(i)
    BY <1>1, <1>2, <2>2, ZenonT(60) DEF commit, rollback, LedgerInv
  <2> QED BY <2>1, <2>2
<1>4. ASSUME NEW c \in Sub
      PROVE  /\ sub'[c] \in Connection
             /\ sub'[c].on = sub[c].on /\ sub'[c].queue = sub[c].queue /\ sub'[c].last = sub[c].last
  <2>1. CASE sub' = sub
    BY <1>1, <2>1
  <2>2. ASSUME NEW i \in open, commit(i)
        PROVE  /\ sub'[c] \in Connection
               /\ sub'[c].on = sub[c].on /\ sub'[c].queue = sub[c].queue /\ sub'[c].last = sub[c].last
    <3> DEFINE passed == {x \in {i} : \E e \in sub[c].on : x <= after_id[e]}
    <3>1. sub[c] \in Connection /\ i \in Nat /\ passed \in SUBSET {i}
      BY <1>1
    <3>2. \/ sub'[c] = sub[c]
          \/ sub'[c] = [sub[c] EXCEPT !.owed = @ \cup {i}, !.missed = @ \cup passed]
      BY <2>2, ZenonT(60) DEF commit
    <3> HIDE DEF passed
    <3> QED BY <3>1, <3>2, ZenonT(60) DEF Connection
  <2> QED BY <2>1, <2>2 DEF record_event, rollback
<1>5. sub' \in [Sub -> Connection]
  <2>1. sub' = [c \in Sub |-> sub'[c]]
    <3>1. CASE sub' = sub
      BY <1>1, <3>1
    <3>2. ASSUME NEW i \in open, commit(i) PROVE sub' = [c \in Sub |-> sub'[c]]
      BY <3>2, ZenonT(60) DEF commit
    <3> QED BY <3>1, <3>2 DEF record_event, rollback
  <2> QED BY <1>4, <2>1
<1>6. \A c \in Sub : \A e \in sub[c].on : after_id'[e] >= after_id[e]
  BY <1>1, <1>2
<1> QED BY <1>3, <1>4, <1>5, <1>6, QuietTail

\* An engine that ends takes its cursor and its connections with it.
LEMMA FollowTail ==
    ASSUME TailInv, EventsFollow
    PROVE  TailInv'
<1> DEFINE up(e) == proc'[e].at = "group"
<1>1. /\ after_id' = [e \in Engine |-> IF up(e) THEN after_id[e] ELSE 0]
      /\ sub' = [c \in Sub |-> IF \A e \in sub[c].on : up(e) THEN sub[c] ELSE Gone]
      /\ UNCHANGED <<seq, open, ledger>>
  BY DEF EventsFollow
<1> HIDE DEF up
<1>2. LedgerInv'
  BY <1>1 DEF TailInv, LedgerInv
<1>3. sub \in [Sub -> Connection] /\ \A c \in Sub : sub[c].on \subseteq Engine
  BY DEF TailInv, Connection
<1>4. sub' \in [Sub -> Connection]
  BY <1>1, <1>3, NoConnection
<1>5. after_id \in [Engine -> Nat]
  BY DEF TailInv, LedgerInv
<1>6. ASSUME NEW c \in Sub, \A e \in sub[c].on : up(e)
      PROVE  sub'[c] = sub[c] /\ \A e \in sub[c].on : after_id'[e] >= after_id[e]
  <2>1. sub'[c] = sub[c]
    BY <1>1, <1>6
  <2>2. \A e \in sub[c].on : after_id'[e] = after_id[e] /\ after_id[e] \in Nat
    BY <1>1, <1>3, <1>5, <1>6
  <2> QED BY <2>1, <2>2
<1>7. \A c \in Sub : ~(\A e \in sub[c].on : up(e)) => sub'[c] = Gone
  BY <1>1
<1> QED BY <1>2, <1>4, <1>6, <1>7, QuietTail

\* Every step of the tail, and of the processes under it.
LEMMA TailStep ==
    ASSUME TailInv, EventNext \/ EventsFollow \/ (\E e \in Engine : start(e)) \/ UNCHANGED eventVars
    PROVE  TailInv'
<1>1. CASE UNCHANGED <<seq, open, ledger, after_id, sub>>
  <2>1. sub' = sub /\ after_id' = after_id
    BY <1>1
  <2> QED BY <1>1, <2>1 DEF TailInv, LedgerInv, Ordered
<1>2. ASSUME NEW e \in Engine, EventOwn(e) PROVE TailInv'
  <2>1. CASE poll_once(e) \/ poll_fails(e)
    BY <1>1, <2>1 DEF poll_once, poll_fails
  <2>2. CASE poll_done(e)
    <3>1. CASE to_head(e)
      BY <2>2, <3>1, HeadStep DEF poll_done
    <3>2. CASE UNCHANGED <<after_id, sub>>
      BY <1>1, <2>2, <3>2 DEF poll_done
    <3>3. CASE /\ events_since(e) # <<>>
               /\ after_id' = [after_id EXCEPT ![e] = cursor(events_since(e))]
               /\ sub' = [c \in Sub |-> IF c \in on(e) THEN fan_out(sub[c], events_since(e)) ELSE sub[c]]
      <4>1. UNCHANGED <<seq, open, ledger>>
        BY <2>2 DEF poll_done
      <4> QED BY <3>3, <4>1, FanOutStep, ZenonT(60)
    <3> QED BY <2>2, <3>1, <3>2, <3>3 DEF poll_done
  <2> QED BY <1>2, <2>1, <2>2 DEF EventOwn
<1>3. ASSUME NEW c \in Sub, unsubscribe(c) PROVE TailInv'
  <2>1. sub' = [sub EXCEPT ![c] = Gone] /\ UNCHANGED <<seq, open, ledger, after_id>>
    BY <1>3 DEF unsubscribe
  <2>2. sub \in [Sub -> Connection] /\ after_id \in [Engine -> Nat] /\ \A d \in Sub : sub[d].on \subseteq Engine
    BY DEF TailInv, LedgerInv, Connection
  <2>3. LedgerInv' /\ sub' \in [Sub -> Connection]
    BY <2>1, <2>2, NoConnection DEF TailInv, LedgerInv
  <2>4. \A d \in Sub : sub'[d] = Gone \/ sub'[d] = sub[d]
    BY <2>1, <2>2
  <2>5. \A d \in Sub : \A e \in sub[d].on : after_id'[e] >= after_id[e]
    BY <2>1, <2>2
  <2> QED BY <2>3, <2>4, <2>5, QuietTail
<1>4. CASE snapshot_begins \/ snapshot_for_ctx
  BY <1>1, <1>4 DEF snapshot_begins, snapshot_for_ctx
<1>5. ASSUME NEW e \in Engine, start(e) PROVE TailInv'
  BY <1>5, HeadStep, FollowTail DEF start
<1>6. CASE EventNext
  BY <1>2, <1>3, <1>4, <1>6, LedgerSteps, SubscribeStep, GetStep DEF EventNext
<1> QED BY <1>1, <1>5, <1>6, FollowTail DEF eventVars

\* For any subscribers, batch and queue sizes and any number of rows: a
\* subscriber is handed rows in id order and none twice, through failed polls,
\* full queues, restarts and rows that commit out of order.
THEOREM RowsStayInOrder == Spec => []RowsInOrder
<1>1. Init => TailInv
  <2> SUFFICES ASSUME Init PROVE TailInv
    OBVIOUS
  <2>1. seq = 0 /\ open = {} /\ ledger = {} /\ after_id = [e \in Engine |-> 0] /\ sub = [c \in Sub |-> Gone]
    BY DEF Init, EventInit
  <2> QED BY <2>1, NoConnection DEF TailInv, LedgerInv, Ordered
<1>2. TailInv /\ [Next]_allVars => TailInv'
  <2> SUFFICES ASSUME TailInv, [Next]_allVars PROVE TailInv'
    OBVIOUS
  <2>1. EventNext \/ EventsFollow \/ (\E e \in Engine : start(e)) \/ UNCHANGED eventVars
    BY DEF Next, Follow, Starts, allVars
  <2> QED BY <2>1, TailStep
<1>3. TailInv => RowsInOrder
  <2> SUFFICES ASSUME TailInv, NEW c \in Sub, NEW n \in 1..Len(<<sub[c].last>> \o sub[c].queue) - 1
               PROVE  (<<sub[c].last>> \o sub[c].queue)[n] < (<<sub[c].last>> \o sub[c].queue)[n + 1]
    BY DEF RowsInOrder
  <2> DEFINE q == sub[c].queue
             l == sub[c].last
             rows == <<l>> \o q
  <2>1. /\ q \in Seq(Nat) /\ l \in Nat /\ \A k \in 1..Len(q) : l < q[k]
        /\ \A k, m \in 1..Len(q) : k < m => q[k] < q[m]
    BY DEF TailInv, Ordered, Connection, InOrder
  <2> HIDE DEF q, l
  <2>2. Len(rows) = Len(q) + 1 /\ rows[1] = l /\ \A k \in 1..Len(q) : rows[k + 1] = q[k]
    BY <2>1
  <2>3. Len(q) \in Nat /\ n \in 1..Len(q)
    <3>1. n \in 1..Len(rows) - 1
      BY DEF q, l
    <3> QED BY <2>1, <2>2, <3>1
  <2>4. rows[n] < rows[n + 1]
    <3>1. CASE n = 1
      BY <2>1, <2>2, <2>3, <3>1
    <3>2. CASE n > 1
      <4>1. n - 1 \in 1..Len(q) /\ n - 1 < n /\ (n - 1) + 1 = n
        BY <2>3, <3>2
      <4>2. rows[n] = q[n - 1] /\ rows[n + 1] = q[n]
        BY <2>2, <2>3, <4>1
      <4> QED BY <2>1, <2>3, <4>1, <4>2
    <3> QED BY <2>3, <3>1, <3>2
  <2> QED BY <2>4 DEF q, l
<1> QED BY <1>1, <1>2, <1>3, PTL DEF Spec
=============================================================================
