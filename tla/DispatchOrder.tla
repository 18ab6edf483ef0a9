---------------------------- MODULE DispatchOrder ----------------------------
(***************************************************************************)
(* The pure half of a dispatch pass (services/matcher.py): the order in    *)
(* which a claimed batch is handed out, and the ring that hands it out.    *)
(* A job is any value with a priority and a group; a job without a group   *)
(* is a bucket of its own.                                                 *)
(***************************************************************************)
EXTENDS Integers, Sequences, SequencesExt, FiniteSets, FiniteSetsExt

CONSTANTS
    Priority,   \* Job -> jobs.priority
    GroupKey    \* Job -> jobs.group_key, or the job itself when it is NULL

\* The keys of jobs in the order a dict first meets them.
Buckets(jobs) ==
    FoldLeft(LAMBDA ks, j : IF GroupKey[j] \in ToSet(ks) THEN ks ELSE Append(ks, GroupKey[j]),
             <<>>, jobs)

\* _round_robin_by_group: round r takes the r-th job of every bucket that still
\* has one, in the order of the buckets.
RoundRobinByGroup_drain(jobs) ==
    FlattenSeq([b \in 1..Len(Buckets(jobs)) |->
        SelectSeq(jobs, LAMBDA j : GroupKey[j] = Buckets(jobs)[b])])
RoundRobinByGroup(jobs) ==
    LET keys == Buckets(jobs)
        queue == [b \in 1..Len(keys) |-> SelectSeq(jobs, LAMBDA j : GroupKey[j] = keys[b])]
        round(r) == FlattenSeq([b \in 1..Len(keys) |->
                        IF Len(queue[b]) >= r THEN <<queue[b][r]>> ELSE <<>>])
    IN  FlattenSeq([r \in 1..Len(jobs) |-> round(r)])

\* _fairness_shape: the highest priority first, round-robin inside a band.
FairnessShape(jobs) ==
    LET bands == SetToSortSeq({Priority[j] : j \in ToSet(jobs)}, >)
    IN  FlattenSeq([p \in 1..Len(bands) |->
            RoundRobinByGroup(SelectSeq(jobs, LAMBDA j : Priority[j] = bands[p]))])

\* bisect_right: how many workers of the sorted ring come up to the last one
\* that was given a job.
RingStart(ring, last) == Cardinality({i \in 1..Len(ring) : ring[i] <= last})

\* One job of the loop of _assign_round_robin: the next worker of the ring with
\* capacity left takes it.  The cursor moves past every worker it looked at.
Place_stay(ring, st, j) ==
    LET ahead == {k \in 0..(Len(ring) - 1) :
                     st.remaining[ring[((st.idx + k) % Len(ring)) + 1]] > 0}
    IN  IF ahead = {} THEN [st EXCEPT !.idx = @ + Len(ring)]
        ELSE LET w == ring[((st.idx + Min(ahead)) % Len(ring)) + 1]
             IN  [idx |-> st.idx,
                  remaining |-> [st.remaining EXCEPT ![w] = @ - 1],
                  placed |-> Append(st.placed, <<j, w>>)]
Place(ring, st, j) ==
    LET ahead == {k \in 0..(Len(ring) - 1) :
                     st.remaining[ring[((st.idx + k) % Len(ring)) + 1]] > 0}
    IN  IF ahead = {} THEN [st EXCEPT !.idx = @ + Len(ring)]
        ELSE LET w == ring[((st.idx + Min(ahead)) % Len(ring)) + 1]
             IN  [idx |-> st.idx + Min(ahead) + 1,
                  remaining |-> [st.remaining EXCEPT ![w] = @ - 1],
                  placed |-> Append(st.placed, <<j, w>>)]

\* _assign_round_robin: the sequence of <<job, worker>> it places, for workers
\* with these capacities after worker last.
AssignRoundRobin(jobs, capacity, last) ==
    LET ring == SetToSortSeq(DOMAIN capacity, <)
    IN  FoldLeft(LAMBDA st, j : Place(ring, st, j),
                 [idx |-> RingStart(ring, last), remaining |-> capacity, placed |-> <<>>],
                 jobs).placed

\* _per_group_cap: how many jobs of one group a batch may hold.
PerGroupCap(configured, limit) == IF configured > 0 THEN configured ELSE Max({2, limit \div 8})
=============================================================================
