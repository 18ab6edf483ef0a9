---- MODULE MCRedisServices ----
(***************************************************************************)
(* Two engines, one or two rate classes and half tokens, or the attempts   *)
(* at a job, in situations that each bring out one difficulty.             *)
(***************************************************************************)
EXTENDS RedisServices

Rate(cap, refill) == [known |-> TRUE, capacity |-> cap, refill |-> refill]
MCConfig == {Rate(2, 1), Rate(1, 2)}
Situation(a, b, redis, skew, npasses, jobs, time, nfaults, nedits, nputs) ==
    [rates |-> [c \in Class |-> IF c = 1 THEN a ELSE b], redis |-> redis,
     skew |-> [e \in Engine |-> IF e = 1 THEN 0 ELSE skew],
     passes |-> [e \in Engine |-> IF e = 1 THEN npasses[1] ELSE npasses[2]],
     jobs |-> [c \in Class |-> IF c = 1 THEN jobs[1] ELSE jobs[2]],
     time |-> time, faults |-> nfaults, edits |-> nedits, puts |-> nputs]

MCHome == [a \in Attempt |-> a]

MCSetup ==
    {\* two engines on one Redis bucket, one with a slow clock
     Situation(Rate(2, 1), Unknown, TRUE, 1, <<2, 2>>, <<3, 0>>, 2, 0, 0, 0),
     \* the same in the hands of Postgres alone
     Situation(Rate(2, 1), Unknown, FALSE, 0, <<2, 2>>, <<2, 0>>, 2, 0, 0, 0),
     \* two engines and a fault; one engine and two
     Situation(Rate(2, 1), Unknown, TRUE, 0, <<2, 1>>, <<3, 0>>, 1, 1, 0, 0),
     Situation(Rate(2, 1), Unknown, TRUE, 0, <<3, 0>>, <<2, 0>>, 1, 2, 0, 0),
     \* two classes in one pass
     Situation(Rate(2, 1), Rate(1, 2), TRUE, 0, <<2, 0>>, <<2, 1>>, 1, 0, 0, 0),
     \* a class is configured, then edited, while a pass is under way
     Situation(Rate(2, 1), Unknown, TRUE, 0, <<1, 0>>, <<0, 1>>, 0, 0, 2, 0),
     \* checkpoints alone
     Situation(Unknown, Unknown, TRUE, 0, <<0, 0>>, <<0, 0>>, 0, 2, 0, 3),
     Situation(Unknown, Unknown, FALSE, 0, <<0, 0>>, <<0, 0>>, 0, 1, 0, 2)}
====
