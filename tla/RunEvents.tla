------------------------------ MODULE RunEvents ------------------------------
(***************************************************************************)
(* The event log of one run and a client that pages through it.  An event  *)
(* takes its id from a sequence when it is inserted, and is seen when its  *)
(* transaction commits.  The insert also has to see the run's row (foreign *)
(* key), so it waits for whoever holds that row FOR UPDATE: cancel_run and *)
(* Jobs.finish, which insert an event of their own before they commit.     *)
(***************************************************************************)
EXTENDS Integers, FiniteSets, FiniteSetsExt

CONSTANTS MaxEvents,  \* bound: events of the run
          Limit       \* the page size a client asks for

VARIABLES nextId,     \* the sequence behind run_events.id
          events,     \* the ids of the committed events
          inserted,   \* the id emit has taken and not committed, or 0
          holder,     \* who holds the run's row FOR UPDATE
          cancelled,  \* the row has been closed by cancel_run
          finished,   \* the row has been closed by Jobs.finish
          after,      \* the client's cursor
          seen        \* the ids it has been given

vars == <<nextId, events, inserted, holder, cancelled, finished, after, seen>>

\* run.queued is there before a client can know the run.
Init == /\ nextId = 2 /\ events = {1} /\ inserted = 0 /\ holder = "nobody"
        /\ cancelled = FALSE /\ finished = FALSE
        /\ after = 0 /\ seen = {}

\* emit, one event at a time: the id is taken, then the foreign key is checked.
Insert ==
    /\ ~finished /\ inserted = 0 /\ nextId <= MaxEvents
    /\ inserted' = nextId /\ nextId' = nextId + 1
    /\ UNCHANGED <<events, holder, cancelled, finished, after, seen>>

\* Nobody holds the row: the insert sees it and the transaction commits.
CommitEvent ==
    /\ inserted # 0 /\ holder = "nobody"
    /\ events' = events \cup {inserted} /\ inserted' = 0
    /\ UNCHANGED <<nextId, holder, cancelled, finished, after, seen>>

\* The event was refused, or its transaction failed: the id is never used.
LoseEvent ==
    /\ inserted # 0 /\ inserted' = 0
    /\ UNCHANGED <<nextId, events, holder, cancelled, finished, after, seen>>

\* resource_for(lock=True) of a run that is not over; finish, once the runtime
\* has answered, timed out or failed.
LockRow(who) ==
    /\ holder = "nobody" /\ ~finished /\ (who = "cancel" => ~cancelled)
    /\ nextId <= MaxEvents
    /\ holder' = who
    /\ UNCHANGED <<nextId, events, inserted, cancelled, finished, after, seen>>

\* run.cancelled or run.finished is flushed and committed with the row.
CloseRow ==
    /\ holder # "nobody" /\ holder' = "nobody"
    /\ events' = events \cup {nextId} /\ nextId' = nextId + 1
    /\ cancelled' = (cancelled \/ holder = "cancel")
    /\ finished' = (finished \/ holder = "finish")
    /\ UNCHANGED <<inserted, after, seen>>

\* One page: the first events behind the cursor, by id.
Page == LET behind == {e \in events : e > after}
        IN  {e \in behind : Cardinality({d \in behind : d <= e}) <= Limit}

\* The events route; the client asks on with nextAfter.
ReadPage ==
    /\ Page # {}
    /\ seen' = seen \cup Page /\ after' = Max(Page)
    /\ UNCHANGED <<nextId, events, inserted, holder, cancelled, finished>>

AtRest == (finished \/ nextId > MaxEvents) /\ inserted = 0 /\ UNCHANGED vars

Next == \/ Insert \/ CommitEvent \/ LoseEvent
        \/ LockRow("cancel") \/ LockRow("finish") \/ CloseRow
        \/ ReadPage \/ AtRest

Spec == Init /\ [][Next]_vars

-----------------------------------------------------------------------------

\* "Events are ordered, and paging can be resumed" (acceptance.md): whoever
\* asks on with nextAfter has been given every event at or before it.
PagesMissNothing == \A e \in events : e <= after => e \in seen

=============================================================================
