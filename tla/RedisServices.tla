---------------------------- MODULE RedisServices ----------------------------
(***************************************************************************)
(* The two users of one Redis client: the rate limiter and the checkpoint  *)
(* service.  They share the way to Redis and its outages, nothing else.    *)
(***************************************************************************)
EXTENDS RateLimiter, Checkpoints

ratevars == <<now, table, bucket, statements, cfg, load, edit, pass, ready, passes, edits,
              drawn, started, minted>>

ServicesInit == Init /\ CkInit
ServicesNext ==
    \/ Next /\ UNCHANGED ckvars
    \/ CkNext /\ UNCHANGED ratevars

ServicesSpec == ServicesInit /\ [][ServicesNext]_<<vars, ckvars>>

\* The refill tick runs on every engine for as long as it lives, and an upsert
\* that committed is answered.
Refilling ==
    \A e \in Engine :
        /\ WF_vars((load_reads(e) \/ load_stores(e)) /\ UNCHANGED ckvars)
        /\ WF_vars(upsert_caches(e) /\ UNCHANGED ckvars)
FairServices == ServicesSpec /\ Refilling
=============================================================================
