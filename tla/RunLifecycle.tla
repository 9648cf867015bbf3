---------------------------- MODULE RunLifecycle ----------------------------
(***************************************************************************)
(* What a client of the runs API may rely on, whatever the scheduler, the  *)
(* runtime controller, the database or the process do: the status of each  *)
(* run only moves along RUN_TRANSITIONS, a run becomes terminal in the     *)
(* same step that publishes the event which says so, and an event that     *)
(* names a final status names the one the row keeps.                       *)
(***************************************************************************)
EXTENDS Domain

CONSTANT Runs

VARIABLES row,       \* the status in each run's row, or "absent"
          published  \* the RunEvents of each run, as a set

lifecycleVars == <<row, published>>

Init == /\ row = [r \in Runs |-> "absent"]
        /\ published = [r \in Runs |-> {}]

Publishes(r, event) == published'[r] = published[r] \cup {event}

Queues(r) == /\ row[r] = "absent"
             /\ row'[r] = "queued"
             /\ Publishes(r, Event("run.queued", "queued"))

Starts(r) == /\ row[r] = "queued"
             /\ row'[r] = "running"
             /\ published'[r] = published[r]

\* The controller begins the run: its row has left "queued" by then, but may
\* already have been cancelled.
Announces(r) == /\ row[r] \in {"running", "cancelled"}
                /\ row'[r] = row[r]
                /\ Publishes(r, Event("run.started", "running"))

\* The run becomes terminal, or a terminal run's result is written again:
\* the status in the closing event is the status of the row.
Closes(r) ==
    /\ row[r] # "absent"
    /\ row'[r] \in TERMINAL_RUNS
    /\ Allowed(RUN_TRANSITIONS, row[r], row'[r])
    /\ \/ Publishes(r, Event("run.finished", row'[r]))
       \/ row'[r] = "cancelled" /\ Publishes(r, Event("run.cancelled", "cancelled"))
       \/ row'[r] = "error" /\ Publishes(r, Event("run.error", "error"))

Rests(r) == row'[r] = row[r] /\ published'[r] = published[r]

\* A restart closes every interrupted run in one transaction, so several
\* runs may move in one step.
Next == /\ row' \in [Runs -> RunStatus \cup {"absent"}]
        /\ published' \in [Runs -> SUBSET RunEvent]
        /\ \A r \in Runs :
              Queues(r) \/ Starts(r) \/ Announces(r) \/ Closes(r) \/ Rests(r)

Spec == Init /\ [][Next]_lifecycleVars

=============================================================================
