---------------------------- MODULE JobLifecycle ----------------------------
(***************************************************************************)
(* The lifecycle every Symba job promises to follow: the state machine of  *)
(* core/states.py, over all jobs at once.  A row is created submitted or   *)
(* queued and from then on only moves along TRANSITIONS; one database      *)
(* transaction may move several rows.  JobEngine implements this module.   *)
(***************************************************************************)
EXTENDS JobStates

CONSTANT JobId          \* the ids a job row can have

VARIABLE state          \* state[j]: the state of job j, "absent" before insert

Init == state = [j \in JobId |-> "absent"]

\* One transaction: every row it changes makes one legal transition.
Next ==
    /\ DOMAIN state' = JobId
    /\ \A j \in JobId : \/ state'[j] = state[j]
                        \/ can_transition(state[j], state'[j])

Spec == Init /\ [][Next]_state
=============================================================================
