------------------------------- MODULE Domain -------------------------------
(***************************************************************************)
(* The status vocabulary of app/domain.py: the statuses of a run and of a  *)
(* recording, and the transition tables update_resource checks every       *)
(* status change against.  A row that does not exist yet is "absent".      *)
(***************************************************************************)

TERMINAL_RUNS == {"passed", "failed", "cancelled", "timed_out", "error"}

RunStatus == {"queued", "running"} \cup TERMINAL_RUNS

RUN_TRANSITIONS ==
    [s \in RunStatus |->
        CASE s = "queued"  -> {"running", "cancelled", "error"}
          [] s = "running" -> TERMINAL_RUNS
          [] OTHER         -> {}]

\* The rows of run_events the API itself writes, as far as they tell a
\* status; what the controller emits while a run executes is not included.
RunEvent == [type : {"run.queued", "run.started", "run.cancelled", "run.finished", "run.error"},
             status : RunStatus]

Event(type, status) == [type |-> type, status |-> status]

TERMINAL_RECORDINGS == {"stopped", "error"}

RecordingStatus == {"starting", "ready", "stopping"} \cup TERMINAL_RECORDINGS

RECORDING_TRANSITIONS ==
    [s \in RecordingStatus |->
        CASE s = "starting" -> {"ready", "stopping", "error"}
          [] s = "ready"    -> {"stopping", "error"}
          [] s = "stopping" -> {"stopped", "error"}
          [] OTHER          -> {}]

\* Mutant: the transition table is not consulted.
AllowedAnyway(transitions, previous, current) == TRUE

\* check_transition: rewriting the same status is always allowed, and any
\* other change must be in the table; otherwise the update raises ValueError.
Allowed(transitions, previous, current) ==
    current = previous \/ current \in transitions[previous]

=============================================================================
