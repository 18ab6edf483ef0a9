--------------------------- MODULE EngineServices ---------------------------
(***************************************************************************)
(* The engine processes with what they run: the cron loop, the event       *)
(* poller, the calls of the control plane and those of a worker.  They     *)
(* share the processes, whose exits cut them short, and the outages.       *)
(***************************************************************************)
EXTENDS Cron, EventStream, ControlPlane, WorkerRpc

allVars == <<procVars, cronVars, eventVars, readVars, rpcVars>>

Init == setup \in Setups /\ ProcInit /\ CronInit /\ EventInit /\ ReadInit /\ RpcInit

\* What a step of the processes means to the others.
Follow == CronFollows /\ EventsFollow /\ ReadsFollow /\ UNCHANGED rpcVars

Boots(e) == ProcOwn(e) /\ Follow
Starts(e) == start(e) /\ CronFollows /\ ReadsFollow /\ UNCHANGED rpcVars

Next ==
    \/ \E e \in Engine : ProcNext(e) /\ Follow
    \/ \E e \in Engine : Starts(e)
    \/ CronNext /\ UNCHANGED <<eventVars, readVars, rpcVars>>
    \/ EventNext /\ UNCHANGED <<cronVars, readVars, rpcVars>>
    \/ ReadNext /\ UNCHANGED <<cronVars, eventVars, rpcVars>>
    \/ RpcNext /\ UNCHANGED <<cronVars, eventVars, readVars>>

Spec == Init /\ [][Next]_allVars

\* The orchestrator restarts an engine, asyncio gives every task its turn, time
\* passes, and a client takes the rows it is sent.
Fairness ==
    /\ \A e \in Engine :
         /\ WF_allVars(Boots(e)) /\ WF_allVars(Starts(e))
         /\ WF_allVars(CronOwn(e) /\ UNCHANGED <<eventVars, readVars, rpcVars>>)
         /\ WF_allVars(EventOwn(e) /\ UNCHANGED <<cronVars, readVars, rpcVars>>)
    /\ \A c \in Sub : WF_allVars(get(c) /\ UNCHANGED <<cronVars, readVars, rpcVars>>)
    /\ WF_allVars((AwaitJob \/ await_wakes) /\ UNCHANGED <<cronVars, eventVars, rpcVars>>)
    /\ WF_allVars(deadline /\ UNCHANGED <<cronVars, eventVars, rpcVars>>)
    /\ WF_allVars(tick /\ UNCHANGED <<eventVars, readVars, rpcVars>>)
FairSpec == Spec /\ Fairness

\* One type invariant for all of them.
TypeOK == ProcTypeOK /\ CronTypeOK /\ EventTypeOK /\ ReadTypeOK /\ RpcTypeOK
=============================================================================
