---------------------------- MODULE MCWorkerFleet ----------------------------
(***************************************************************************)
(* Instances of WorkerFleet, and the reference for its pure algorithms.    *)
(***************************************************************************)
EXTENDS WorkerFleet

MCSlots == [w \in Worker |-> 1]
MCTags == [w \in Worker |-> {}]
MCRunsOn == [j \in Job |-> {}]
MCPriority == [j \in Job |-> 0]
MCGroupKey == [j \in Job |-> j]
Fleet(ws, js, hooks, n) == [workers |-> ws, jobs |-> js, hooks |-> hooks, faults |-> n]
MCSetup == {Fleet({1}, {1, 2}, FALSE, 1), Fleet({1}, {1}, TRUE, 1), Fleet({1}, {}, TRUE, 2), Fleet({1, 2}, {1}, FALSE, 0)}
\* Five jobs for the order of a batch: two groups, a job without a group, and
\* one job that outranks its group.
Order == INSTANCE DispatchOrder
             WITH Priority <- <<1, 1, 1, 1, 2>>, GroupKey <- <<"a", "a", "b", "own", "a">>
P == <<1, 1, 1, 1, 2>>
G == <<"a", "a", "b", "own", "a">>
\* The two properties below do not depend on the state: they are evaluated in
\* the states before the first stream.
Batches == SetToAllKPermutations(1..5)
Before(s, i, j) == \E a, b \in DOMAIN s : a < b /\ s[a] = i /\ s[b] = j

\* The order of every batch is fair: it is a permutation of the batch, priority
\* comes first, jobs of one group keep their order, and inside a priority band
\* no group is two jobs ahead of a group that still waits (_fairness_shape).
FairOrder ==
    conns = <<>> => \A batch \in Batches : \E out \in {Order!FairnessShape(batch)} :
        /\ Len(out) = Len(batch) /\ ToSet(out) = ToSet(batch)
        /\ \A i, j \in ToSet(out) :
              /\ P[i] > P[j] => Before(out, i, j)
              /\ P[i] = P[j] /\ G[i] = G[j] /\ Before(batch, i, j) => Before(out, i, j)
        /\ \A n \in DOMAIN out : \A i, j \in ToSet(out) :
              LET taken(k) == Cardinality({m \in 1..n : P[out[m]] = P[k] /\ G[out[m]] = G[k]})
              IN  P[i] = P[j] /\ j \notin ToSet(SubSeq(out, 1, n)) => taken(i) <= taken(j) + 1

\* Assignment is even: for every capacity, batch size and cursor, every job
\* that fits is placed, no worker passes its capacity, the ring resumes after
\* the worker served last, and no worker is two jobs ahead of one that still has
\* capacity (_assign_round_robin).
EvenSpread ==
    conns = <<>> => \A capacity \in [1..3 -> 0..2], prev \in 0..3, n \in 0..6 :
        \E out \in {Order!AssignRoundRobin([i \in 1..n |-> i], capacity, prev)} :
            LET got(w) == Cardinality({i \in DOMAIN out : out[i][2] = w})
                able == {w \in 1..3 : capacity[w] > 0}
                after == {w \in able : w > prev}
            IN  /\ Len(out) = Min({n, capacity[1] + capacity[2] + capacity[3]})
                /\ \A w \in 1..3 : got(w) <= capacity[w]
                /\ out # <<>> => out[1][2] = Min(IF after # {} THEN after ELSE able)
                /\ \A u, v \in 1..3 : got(u) > got(v) + 1 => got(v) = capacity[v]
=============================================================================
