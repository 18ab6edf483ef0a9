------------------------------ MODULE JobStates ------------------------------
(***************************************************************************)
(* core/states.py: the states of a job and the legal moves between them.   *)
(***************************************************************************)
\* The states of a live row (table jobs) and of an archived one (jobs_archive).
LIVE_STATES == {"submitted", "queued", "running", "waiting"}
TERMINAL_STATES == {"succeeded", "dead", "cancelled"}
JobState == LIVE_STATES \cup TERMINAL_STATES

\* The legal transitions; "absent" is the row before its INSERT.
TRANSITIONS(s) ==
    CASE s = "absent"    -> {"submitted", "queued"}
      [] s = "submitted" -> {"queued", "cancelled"}
      [] s = "queued"    -> {"running", "cancelled"}
      [] s = "running"   -> {"queued", "waiting", "succeeded", "dead", "cancelled"}
      [] s = "waiting"   -> {"queued", "cancelled"}
      [] OTHER           -> {}

can_transition(src, dst) == dst \in TRANSITIONS(src)
=============================================================================
