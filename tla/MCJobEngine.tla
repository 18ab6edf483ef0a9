----------------------------- MODULE MCJobEngine -----------------------------
(***************************************************************************)
(* Instances of JobEngine for TLC: the job specs and fan-outs clients send *)
(* in each run.                                                            *)
(***************************************************************************)
EXTENDS JobEngine

CONSTANTS MaxJobs, MaxGates, k1, g1

MCJobId == 1..MaxJobs
MCGateId == 1..MaxGates

Plain == [path |-> <<"a">>, hook |-> <<>>, group |-> Null, cap |-> 0, max |-> 2,
          dedup |-> Null, gate |-> 0]
NoGateSpecs == {}

\* A two-link chain with a failure hook and a dedup key.
Chain == [Plain EXCEPT !.path = <<"a", "b">>, !.hook = <<"h">>, !.dedup = k1]
LifecycleSpecs == {Chain}

\* Jobs of one key with one cap: one that may retry and one that may not.
Capped2 == [Plain EXCEPT !.group = g1, !.cap = 2]
CappedSpecs == {Capped2, [Capped2 EXCEPT !.max = 1]}

PlainSpecs == {[Plain EXCEPT !.max = 1]}
NoSpecs == {}

\* Two slots: with one, a counter that drifted admits no claim the recount
\* could race.
ProgressSpecs == {Capped2}

\* Fan-outs of three children under each policy; the continuation has a hook.
Child == [Plain EXCEPT !.max = 1]
Barrier(policy, n) == [policy |-> policy, quorum_n |-> n, children |-> <<Child, Child, Child>>,
                       on_complete |-> [Child EXCEPT !.path = <<"b">>, !.hook = <<"h">>]]
Barriers == {Barrier("all_success", 0), Barrier("all_terminal", 0), Barrier("quorum", 2),
             Barrier("quorum", 4)}
=============================================================================
