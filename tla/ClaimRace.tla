------------------------------ MODULE ClaimRace ------------------------------
(***************************************************************************)
(* claim.sql run by several engines at once on one key of capped jobs and  *)
(* on jobs without a cap.  Under READ COMMITTED the statement reads jobs   *)
(* in one snapshot, then locks the group counter and the rows; a row that  *)
(* changed after the snapshot is locked in its new version, and only the   *)
(* conditions of the locking query itself are evaluated again on it.  So a *)
(* claim is three steps: snapshot, counter lock, and the row locks with    *)
(* the update and the commit.  The ceiling counts rows of jobs, as the     *)
(* counter does; parked jobs and the recount of the counter are in         *)
(* JobEngine.                                                              *)
(***************************************************************************)
EXTENDS Integers, FiniteSets

CONSTANTS
    Claimer,     \* engines that claim
    Plain,       \* jobs of ungrouped_unlimited: no group, no rate class
    Ranked,      \* jobs of ungrouped_limited, or of a group without a cap
    Capped,      \* jobs of the key with max_concurrent_per_group = Cap
    Cap,
    MaxClaim     \* bound: claims of one job

Claimable == Plain \cup Ranked \cup Capped

ASSUME ClaimAssumption ==
    /\ IsFiniteSet(Claimable)
    /\ Plain \cap Ranked = {} /\ Plain \cap Capped = {} /\ Ranked \cap Capped = {}
    /\ Cap \in Nat \ {0} /\ MaxClaim \in Nat

VARIABLES
    rows,      \* the rows of jobs: state ("archived": no longer there) and attempt
    running,   \* the counter row of the key in group_running
    pc,        \* Claimer -> the step its claim is at
    snapshot,  \* Claimer -> the queued rows its statement sees
    ready,     \* Claimer -> the key was not full in that snapshot
    holder,    \* engines that hold the lock of the counter row
    headroom   \* Claimer -> Cap - running, as read under that lock

claimVars == <<rows, running, pc, snapshot, ready, holder, headroom>>

Queued == {j \in Claimable : rows[j].state = "queued"}
RunningCapped == {j \in Capped : rows[j].state = "running"}

ClaimInit ==
    /\ rows = [j \in Claimable |-> [state |-> "queued", attempt |-> 0]]
    /\ running = 0
    /\ pc = [e \in Claimer |-> "idle"]
    /\ snapshot = [e \in Claimer |-> {}]
    /\ ready = [e \in Claimer |-> FALSE]
    /\ holder = {}
    /\ headroom = [e \in Claimer |-> 0]

\* The statement starts: rate_ranked, grouped_ranked and ready_capped_groups
\* read this snapshot.
Snapshot(e) ==
    /\ pc[e] = "idle"
    /\ pc' = [pc EXCEPT ![e] = "group"]
    /\ snapshot' = [snapshot EXCEPT ![e] = Queued]
    /\ ready' = [ready EXCEPT ![e] = running < Cap]
    /\ UNCHANGED <<rows, running, holder, headroom>>

\* group_slots: FOR UPDATE SKIP LOCKED on the counter row, which is then read
\* in its latest version.
GroupLock_shared(e) == ready[e]
GroupLock(e) == ready[e] /\ holder = {}
LockGroup(e) ==
    /\ pc[e] = "group"
    /\ pc' = [pc EXCEPT ![e] = "rows"]
    /\ holder' = IF GroupLock(e) THEN holder \cup {e} ELSE holder
    /\ headroom' = [headroom EXCEPT ![e] = IF GroupLock(e) THEN Cap - running ELSE 0]
    /\ UNCHANGED <<rows, running, snapshot, ready>>

\* The rows of the snapshot a claim may still lock: ungrouped_unlimited repeats
\* state = 'queued' on the locked version; the other two scans join their ranks
\* by id, and need only find the row in jobs.
Lockable(j) == IF j \in Plain THEN rows[j].state = "queued"
               ELSE rows[j].state # "archived"

\* The transaction of the claim ends: its locks and its snapshot are gone.
EndClaim(e) ==
    /\ pc' = [pc EXCEPT ![e] = "idle"]
    /\ snapshot' = [snapshot EXCEPT ![e] = {}]
    /\ ready' = [ready EXCEPT ![e] = FALSE]
    /\ holder' = holder \ {e}
    /\ headroom' = [headroom EXCEPT ![e] = 0]

\* claimed, counter_bump and the commit.  Which rows a batch takes depends on
\* priorities, tags and the other claimers' row locks; at most headroom of them
\* are rows of the capped key.
TakeRows(e, S) ==
    /\ pc[e] = "rows"
    /\ S \subseteq {j \in snapshot[e] : Lockable(j) /\ rows[j].attempt < MaxClaim}
    /\ Cardinality(S \cap Capped) <= headroom[e]
    /\ rows' = [j \in Claimable |->
                   IF j \in S THEN [state |-> "running", attempt |-> rows[j].attempt + 1]
                   ELSE rows[j]]
    /\ running' = running + Cardinality(S \cap Capped)
    /\ EndClaim(e)

\* The engine dies, or the statement times out: the transaction rolls back.
Abort(e) ==
    /\ pc[e] = "rows"
    /\ EndClaim(e)
    /\ UNCHANGED <<rows, running>>

\* The job leaves running: a worker settles it, or a retry or the sweeper
\* requeues it.  Releasing the slot waits for the lock of the counter row.
Leave(j, st) ==
    /\ rows[j].state = "running"
    /\ j \in Capped => holder = {}
    /\ rows' = [rows EXCEPT ![j].state = st]
    /\ running' = IF j \in Capped /\ running > 0 THEN running - 1 ELSE running
    /\ UNCHANGED <<pc, snapshot, ready, holder, headroom>>

\* cancel.sql on a queued job: it holds no slot.
CancelQueued_releases(j) ==
    /\ rows[j].state = "queued" /\ (j \in Capped => holder = {})
    /\ rows' = [rows EXCEPT ![j].state = "archived"]
    /\ running' = IF j \in Capped /\ running > 0 THEN running - 1 ELSE running
    /\ UNCHANGED <<pc, snapshot, ready, holder, headroom>>
CancelQueued(j) ==
    /\ rows[j].state = "queued"
    /\ rows' = [rows EXCEPT ![j].state = "archived"]
    /\ UNCHANGED <<running, pc, snapshot, ready, holder, headroom>>

ClaimNext ==
    \/ \E e \in Claimer : Snapshot(e) \/ LockGroup(e) \/ Abort(e)
    \/ \E e \in Claimer : \E S \in SUBSET snapshot[e] : TakeRows(e, S)
    \/ \E j \in Claimable, st \in {"queued", "archived"} : Leave(j, st)
    \/ \E j \in Claimable : CancelQueued(j)

ClaimSpec == ClaimInit /\ [][ClaimNext]_claimVars

-----------------------------------------------------------------------------
\* Type invariant.
ClaimTypeOK ==
    /\ rows \in [Claimable -> [state: {"queued", "running", "archived"}, attempt: Nat]]
    /\ running \in Nat
    /\ pc \in [Claimer -> {"idle", "group", "rows"}]
    /\ snapshot \in [Claimer -> SUBSET Claimable]
    /\ ready \in [Claimer -> BOOLEAN]
    /\ holder \subseteq Claimer
    /\ headroom \in [Claimer -> Int]

\* However many engines claim at once, the key never runs more than Cap jobs:
\* "concurrent claimers serialize on the group's counter row and each batch is
\* bounded by (cap - running)" (matcher.py:17).
CeilingAcrossEngines == Cardinality(RunningCapped) <= Cap

\* The counter never falls short of the rows that run, although a row that two
\* engines claim is counted twice and released as often as it leaves, and a job
\* cancelled in the queue after some snapshot was counted by nobody.  A counter
\* that is short is headroom for a job too many, until the sweeper recounts.
CounterNeverShort == Cardinality(RunningCapped) <= running

\* "Safe for N concurrent engines and N workers" (claim.sql): no claim takes a
\* row that is already running.
ClaimedFromQueue ==
    [][\A j \in Claimable : rows'[j].attempt # rows[j].attempt => rows[j].state = "queued"]_claimVars
=============================================================================
