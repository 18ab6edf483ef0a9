-------------------------- MODULE SignalRendezvous --------------------------
(***************************************************************************)
(* SignalService: jobs that wait for an external event and signals that    *)
(* deliver one, for one tenant and one wait_key.  signal() and wait() are  *)
(* each one transaction of two statements, and READ COMMITTED gives each   *)
(* statement its own snapshot, so a transaction is two steps here: the     *)
(* first statement, which locks the row it found or finds none, and the    *)
(* second one with the commit.  A transaction may also be lost between     *)
(* them (the engine dies, the connection breaks) and rolls back.           *)
(*                                                                         *)
(* Signals are told apart by the payload they carry.  Several signals or   *)
(* waits can be in flight at once, on one engine or on several.  Which of  *)
(* several rows is oldest is left open: any of them may be the one locked. *)
(***************************************************************************)
EXTENDS Naturals

CONSTANTS
    Job,         \* jobs whose handlers wait on the key
    Sig,         \* signals sent to the key
    Null,        \* no payload
    MaxAttempt   \* bound: claims of one job

ASSUME RendezvousAssumption ==
    /\ Null \notin Sig \cup Job \cup {"timeout"} /\ "timeout" \notin Sig
    /\ MaxAttempt \in Nat

VARIABLES
    table,    \* Job -> row: state, attempt (which stands for the lease token)
              \* and event_payload
    signals,  \* Sig -> "unsent", "failed" (the call was lost), or the state of
              \* the signal: "pending" in the signals table, "consumed"
    waits,    \* open wait() transactions: what wait_consume.sql found
    sends,    \* open signal() transactions: what signal.sql found
    given     \* history: <<signal, job, attempt>>, the payloads handed over

signalVars == <<table, signals, waits, sends, given>>

Payload == Sig \cup {Null, "timeout"}
WaitRow == [state: {"queued", "running", "waiting", "done"}, attempt: 0..MaxAttempt, payload: Payload]

\* A row locked by an open transaction: FOR UPDATE SKIP LOCKED passes it over.
LockedSignals == {w.found : w \in waits} \cap Sig
LockedJobs == {s.found : s \in sends} \cap Job

SignalInit ==
    /\ table = [j \in Job |-> [state |-> "queued", attempt |-> 0, payload |-> Null]]
    /\ signals = [s \in Sig |-> "unsent"]
    /\ waits = {} /\ sends = {} /\ given = {}

-----------------------------------------------------------------------------
\* claim.sql hands the row, event_payload included, to a worker.
Claim(j) ==
    /\ table[j].state = "queued" /\ table[j].attempt < MaxAttempt
    /\ table' = [table EXCEPT ![j].state = "running", ![j].attempt = @ + 1]
    /\ UNCHANGED <<signals, waits, sends, given>>

\* The worker ends the attempt: it completes or fails for good, or a retry or
\* the lease sweep requeues the row.  Neither touches event_payload.
EndAttempt(j) ==
    /\ table[j].state = "running"
    /\ \E st \in {"done", "queued"} : table' = [table EXCEPT ![j].state = st]
    /\ UNCHANGED <<signals, waits, sends, given>>

\* cancel.sql archives a queued or waiting job; it waits for the row lock of an
\* open signal().
CancelWaiter(j) ==
    /\ table[j].state \in {"queued", "waiting"} /\ j \notin LockedJobs
    /\ table' = [table EXCEPT ![j].state = "done"]
    /\ UNCHANGED <<signals, waits, sends, given>>

\* wait(), statement 1, wait_consume.sql: lock a pending signal, if there is
\* one.  The statement is not guarded by the lease: any attempt t may run it.
Pending == {s \in Sig : signals[s] = "pending"}
FreeSignals_locked == Pending
FreeSignals == Pending \ LockedSignals
WaitConsume(j, t) ==
    /\ t \in 1..table[j].attempt
    /\ ~\E w \in waits : w.job = j /\ w.token = t
    /\ \E f \in IF FreeSignals = {} THEN {Null} ELSE FreeSignals :
           waits' = waits \cup {[job |-> j, token |-> t, found |-> f]}
    /\ UNCHANGED <<table, signals, sends, given>>

\* wait(), statement 2 and commit: the consumed payload goes to the caller, or
\* wait_park.sql parks the job if the caller still owns it (else StaleLease).
owns(j, t) == table[j].state = "running" /\ table[j].attempt = t
WaitCommit(w) ==
    /\ waits' = waits \ {w}
    /\ \/ /\ w.found \in Sig
          /\ signals' = [signals EXCEPT ![w.found] = "consumed"]
          /\ given' = given \cup {<<w.found, w.job, w.token>>}
          /\ UNCHANGED table
       \/ /\ w.found = Null /\ owns(w.job, w.token)
          /\ table' = [table EXCEPT ![w.job].state = "waiting"]
          /\ UNCHANGED <<signals, given>>
       \/ /\ w.found = Null /\ ~owns(w.job, w.token)
          /\ UNCHANGED <<table, signals, given>>
    /\ UNCHANGED sends

\* signal(), statement 1, signal.sql: lock a waiting job, if there is one.
Waiting == {j \in Job : table[j].state = "waiting"}
FreeWaiters == Waiting \ LockedJobs
SignalWake(s) ==
    /\ signals[s] = "unsent" /\ ~\E x \in sends : x.sig = s
    /\ \E f \in IF FreeWaiters = {} THEN {Null} ELSE FreeWaiters :
           sends' = sends \cup {[sig |-> s, found |-> f]}
    /\ UNCHANGED <<table, signals, waits, given>>

\* signal(), statement 2 and commit: the job is queued with the payload, or
\* signal_insert.sql stores the signal for a later wait.
SignalCommit(x) ==
    /\ sends' = sends \ {x}
    /\ \/ /\ x.found \in Job
          /\ table' = [table EXCEPT ![x.found].state = "queued", ![x.found].payload = x.sig]
          /\ signals' = [signals EXCEPT ![x.sig] = "consumed"]
          /\ given' = given \cup {<<x.sig, x.found, table[x.found].attempt>>}
       \/ /\ x.found = Null
          /\ signals' = [signals EXCEPT ![x.sig] = "pending"]
          /\ UNCHANGED <<table, given>>
    /\ UNCHANGED waits

\* An open transaction is lost and rolls back; its locks go with it.  A worker
\* may call wait() again; a caller of signal() that tries again sends another.
WaitAbort(w) ==
    /\ waits' = waits \ {w}
    /\ UNCHANGED <<table, signals, sends, given>>
SignalAbort(x) ==
    /\ sends' = sends \ {x}
    /\ signals' = [signals EXCEPT ![x.sig] = "failed"]
    /\ UNCHANGED <<table, waits, given>>

\* sweep_waits.sql: a waiting job past its deadline, not locked by a signal, is
\* queued with the timeout payload.
Expirable_first_wait == {j \in FreeWaiters : table[j].payload = Null}
Expirable == FreeWaiters
SweepWaits(j) ==
    /\ j \in Expirable
    /\ table' = [table EXCEPT ![j].state = "queued", ![j].payload = "timeout"]
    /\ UNCHANGED <<signals, waits, sends, given>>

SignalNext ==
    \/ \E j \in Job : Claim(j) \/ EndAttempt(j) \/ CancelWaiter(j) \/ SweepWaits(j)
    \/ \E j \in Job : \E t \in 1..table[j].attempt : WaitConsume(j, t)
    \/ \E w \in waits : WaitCommit(w) \/ WaitAbort(w)
    \/ \E s \in Sig : SignalWake(s)
    \/ \E x \in sends : SignalCommit(x) \/ SignalAbort(x)

SignalSpec == SignalInit /\ [][SignalNext]_signalVars

\* Transactions end (the pools set a statement timeout) and the sweeper loops.
FairSignalSpec ==
    /\ SignalSpec
    /\ WF_signalVars(\E x \in sends : SignalCommit(x) \/ SignalAbort(x))
    /\ \A j \in Job : WF_signalVars(SweepWaits(j))

-----------------------------------------------------------------------------
\* Type invariant: rows, table and open transactions hold what the code puts there.
SignalTypeOK ==
    /\ table \in [Job -> WaitRow]
    /\ signals \in [Sig -> {"unsent", "failed", "pending", "consumed"}]
    /\ waits \subseteq [job: Job, token: 1..MaxAttempt, found: Sig \cup {Null}]
    /\ sends \subseteq [sig: Sig, found: Job \cup {Null}]
    /\ given \subseteq Sig \X Job \X (1..MaxAttempt)

\* A signal is handed over exactly when it is consumed, and to one wait only:
\* concurrent waits never take the same row, and a woken job's signal is not
\* also left in the table (FOR UPDATE SKIP LOCKED in wait_consume.sql, wake or
\* park in signal()).
ConsumedOnce ==
    /\ \A g, h \in given : g[1] = h[1] => g = h
    /\ \A s \in Sig : signals[s] = "consumed" <=> \E g \in given : g[1] = s

\* A payload is only ever written to a job that is waiting: neither a second
\* signal nor the timeout of sweep_waits.sql overwrites the payload of a job
\* that was already woken, and no wake-up hits a job that moved on.
WakesOnlyAWaiter ==
    [][\A j \in Job : table'[j].payload # table[j].payload => table[j].state = "waiting"]_signalVars

\* "This guarantees no job waits forever" (sweep_waits.sql): signalled or not,
\* a parked job is queued again.
NoEternalWait == \A j \in Job : table[j].state = "waiting" ~> table[j].state # "waiting"
=============================================================================
