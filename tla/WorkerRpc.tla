------------------------------ MODULE WorkerRpc ------------------------------
(***************************************************************************)
(* The way of a job result from a worker to the engine, over a network     *)
(* that loses and delays: examples/raw_grpc_worker/worker.py against the   *)
(* Complete and Fail handlers of transport/worker_service.py.  The worker  *)
(* answers an error of Complete with Fail, although the engine may have    *)
(* committed the result, or may still be about to.                         *)
(***************************************************************************)
EXTENDS EngineProcess, Sequences, Functions

CONSTANT Worker      \* the worker processes

VARIABLES row,       \* the job: state, lease token (its attempt) and attempts made
          worker,    \* worker[w]: the loop of worker w
          net,       \* requests under way to the engine
          accepted,  \* the tokens of accepted requests, in order
          acked      \* tokens of the results a worker saw accepted

rpcVars == <<row, worker, net, accepted, acked>>

Free == [at |-> "idle", token |-> 0]

RpcTypeOK ==
    /\ row.state \in {"queued", "running", "succeeded", "dead"} /\ row.token \in 0..setup.attempts
    /\ \A w \in Worker : worker[w].at \in {"idle", "handle", "complete", "fail", "ended"}
    /\ net \subseteq [from: Worker, op: {"complete", "fail"}, token: 1..setup.attempts]
    /\ acked \subseteq Range(accepted)

RpcInit ==
    /\ row = [state |-> "queued", token |-> 0]
    /\ worker = [w \in Worker |-> Free]
    /\ net = {} /\ accepted = <<>> /\ acked = {}

\* A request of worker w; it waits for the answer.
request(w, op) == [from |-> w, op |-> op, token |-> worker[w].token]
call_rpc(w, op) ==
    /\ worker' = [worker EXCEPT ![w].at = op]
    /\ net' = net \cup {request(w, op)}

\* The Claim stream hands the queued job to a worker with a free slot.
assigned(w) ==
    /\ \E e \in Engine : proc[e].grpc = "serving"
    /\ worker[w].at = "idle" /\ row.state = "queued" /\ row.token < setup.attempts
    /\ row' = [state |-> "running", token |-> row.token + 1]
    /\ worker' = [worker EXCEPT ![w] = [at |-> "handle", token |-> row.token + 1]]
    /\ UNCHANGED <<procVars, net, accepted, acked>>

\* handle() returns a result or raises.
handle(w) ==
    /\ worker[w].at = "handle"
    /\ call_rpc(w, "complete") \/ call_rpc(w, "fail")
    /\ UNCHANGED <<procVars, row, accepted, acked>>

\* What the worker does with an answer: an error of Complete leads to Fail, an
\* error of Fail ends the worker, and the slot is announced free otherwise.
answer(w, ok) ==
    \/ /\ ok
       /\ worker' = [worker EXCEPT ![w] = Free]
       /\ acked' = IF worker[w].at = "complete" THEN acked \cup {worker[w].token} ELSE acked
    \/ /\ ~ok /\ worker[w].at = "complete"
       /\ worker' = [worker EXCEPT ![w].at = "fail"]
       /\ UNCHANGED acked
    \/ /\ ~ok /\ worker[w].at = "fail"
       /\ worker' = [worker EXCEPT ![w].at = "ended"]
       /\ UNCHANGED acked

\* The request a worker sends on when its answer was an error.
follow_up(w, ok) == IF ~ok /\ worker[w].at = "complete" THEN {request(w, "fail")} ELSE {}

\* complete_move and fail_peek: the job is running under the token.
holds_unfenced(m) == row.state = "running"
holds(m) == row.state = "running" /\ row.token = m.token

\* The row after an accepted request.
moved(m) ==
    CASE m.op = "complete" -> "succeeded"
      [] m.op = "fail" /\ row.token < setup.attempts -> "queued"
      [] OTHER -> "dead"

\* The engine serves a request.  Its answer reaches the worker if that still
\* waits for it and the network does not lose it.
serve(m, replied) ==
    LET waits == worker[m.from].at = m.op /\ worker[m.from].token = m.token
    IN  /\ IF holds(m) THEN row' = [row EXCEPT !.state = moved(m)] /\ accepted' = Append(accepted, m.token)
           ELSE UNCHANGED <<row, accepted>>
        /\ replied \/ outages < setup.outages
        /\ outages' = IF replied THEN outages ELSE outages + 1
        /\ IF waits
           THEN /\ answer(m.from, replied /\ holds(m))
                /\ net' = (net \ {m}) \cup follow_up(m.from, replied /\ holds(m))
           ELSE net' = net \ {m} /\ UNCHANGED <<worker, acked>>
        /\ UNCHANGED <<setup, proc, stops>>

Complete(m, replied) == m.op = "complete" /\ serve(m, replied)
Fail(m, replied) == m.op = "fail" /\ serve(m, replied)

\* The connection breaks: the worker sees an error, the request is dropped or
\* is still served later.
breaks(w, dropped) ==
    LET m == request(w, worker[w].at)
    IN  /\ worker[w].at \in {"complete", "fail"} /\ m \in net
        /\ trip_fails
        /\ answer(w, FALSE)
        /\ net' = (IF dropped THEN net \ {m} ELSE net) \cup follow_up(w, FALSE)
        /\ UNCHANGED <<setup, proc, stops, row, accepted>>

\* The lease expires under a slow worker: the sweeper queues the job again.
sweep ==
    /\ row.state = "running"
    /\ row' = [row EXCEPT !.state = "queued"]
    /\ UNCHANGED <<procVars, worker, net, accepted, acked>>

RpcNext ==
    \/ \E w \in Worker : assigned(w) \/ handle(w)
    \/ \E m \in net, b \in BOOLEAN : Complete(m, b) \/ Fail(m, b)
    \/ \E w \in Worker, b \in BOOLEAN : breaks(w, b)
    \/ sweep

-----------------------------------------------------------------------------
(* Properties. *)

\* A result a worker saw accepted is the job's outcome for good: no Fail sent
\* for a lost answer and no worker that lost its lease takes it back.
AckIsDurable == acked # {} => row.state = "succeeded" /\ acked = {row.token}

\* A lease settles its job at most once, although the worker may send Complete
\* and Fail for it and either may be served late.
LeaseSettlesOnce == \A m, n \in 1..Len(accepted) : accepted[m] = accepted[n] => m = n
=============================================================================
