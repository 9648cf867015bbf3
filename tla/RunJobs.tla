------------------------------ MODULE RunJobs ------------------------------
(***************************************************************************)
(* The life of a run: the request handlers of services/runs.py that create *)
(* and cancel it, the background task Jobs.execute that drives it under a  *)
(* bounded number of slots, the Node controller's DockerRunner that        *)
(* executes it, the startup recovery and the graceful close.               *)
(*                                                                         *)
(* One action is one stretch of code between two points where another     *)
(* task, request or process can run: a database transaction (they hold the *)
(* row lock FOR UPDATE, so each is atomic), a message to or from the       *)
(* controller, an await.  A commit has three outcomes: it succeeds; it     *)
(* fails and changes nothing; or it is applied but its acknowledgement is  *)
(* lost, so the caller sees an exception for a change that happened.       *)
(***************************************************************************)
EXTENDS Domain, Integers, FiniteSets

CONSTANTS Runs,                 \* the run rows that may be created
          MaxConcurrentRuns,    \* Settings.max_concurrent_runs
          MaxRestarts,          \* bound: crashes and graceful stops
          MaxControllerLosses,  \* bound: controllers that die, or that their reader kills
          MaxFaults             \* bound: failed commits, docker failures, RPC timeouts

ASSUME SlotsAssumption == MaxConcurrentRuns \in Nat \ {0}
ASSUME BoundsAssumption == /\ MaxRestarts \in Nat
                           /\ MaxControllerLosses \in Nat
                           /\ MaxFaults \in Nat

VARIABLES
    \* PostgreSQL: what survives a crash of the API process
    row,          \* body["status"] of each run's row, or "absent"
    startedAt,    \* the runs whose row has body["startedAt"] set
    published,    \* the RunEvent rows of each run
    \* the API process
    phase,        \* "down", "cleanup" (in recover), "up", "closing", "draining"
    task,         \* where the run's Jobs.execute task is; "none": no such task
    result,       \* the controller's answer to the task, from its line on the pipe
                  \* until it is stored
    slots,        \* value of the semaphore Jobs.slots
    cancelReq,    \* where the cancel request that won the row is
    failed,       \* runs whose task or creating request died with an exception
    interrupted,  \* recover()'s list of runs to clean up
    bridge,       \* Runtime.process and Runtime.reader, the latest controller's
    oldReaders,   \* readers of earlier controllers that have yet to see their end
    \* the Node controller and Docker
    node,         \* DockerRunner.active, and a flagged item.cancel
    containers,   \* runs with labelled containers or networks in Docker
    \* bounded environment
    restarts, losses, faults

durable == <<row, startedAt, published>>
docker  == <<node, containers>>
runtime == <<bridge, oldReaders>>
budgets == <<restarts, losses, faults>>
vars    == <<durable, phase, task, result, slots, cancelReq, failed, interrupted, runtime, docker,
             budgets>>

\* "created": the row is committed, Jobs.schedule not yet called;
\* "waiting": for a slot; "begin": about to lock the row; "prepare": the row
\* is running, the vault is opened and run.started stored; "call": awaiting
\* runtime.run; "finish": storing the controller's result; "fail": storing
\* the error of an exception.
Holding   == {"begin", "prepare", "call", "finish", "fail"}
TaskState == {"none", "created", "waiting"} \cup Holding

\* "checking": start() awaits available() before active.set; "active": in
\* the map, item.cancel undefined; the other two are values of item.cancel.
Cancelling == {"cancelled", "timed_out"}
Executing  == {"active"} \cup Cancelling
NodeState  == {"idle", "checking"} \cup Executing

Terminal(r) == row[r] \in TERMINAL_RUNS
Open(r)     == row[r] \in {"queued", "running"}
Holders     == {r \in Runs : task[r] \in Holding}
\* "up": the latest controller runs, or the next call starts one; "exited": it
\* has exited, and its reader has yet to see that; "gone": that reader has
\* ended too, and no call has started a fresh one.
BridgeState == {"up", "exited", "gone"}
Serving     == phase \in {"up", "closing", "draining"}

CommitOutcome == {"ok", "failed", "unacknowledged"}

\* One commit with outcome o; all outcomes but "ok" use the fault budget.
Commits(o) == /\ o = "ok" \/ faults < MaxFaults
              /\ faults' = IF o = "ok" THEN faults ELSE faults + 1
Applied(o) == o # "failed"

Store(r, o, status, event) ==
    /\ row' = IF Applied(o) THEN [row EXCEPT ![r] = status] ELSE row
    /\ published' = IF Applied(o) THEN [published EXCEPT ![r] = @ \cup {event}] ELSE published

Init ==
    /\ row = [r \in Runs |-> "absent"]
    /\ startedAt = {}
    /\ published = [r \in Runs |-> {}]
    /\ phase = "up"
    /\ task = [r \in Runs |-> "none"]
    /\ result = [r \in Runs |-> "none"]
    /\ slots = MaxConcurrentRuns
    /\ cancelReq = [r \in Runs |-> "none"]
    /\ failed = {}
    /\ interrupted = {}
    /\ bridge = "up" /\ oldReaders = 0
    /\ node = [r \in Runs |-> "idle"]
    /\ containers = {}
    /\ restarts = 0 /\ losses = 0 /\ faults = 0

-----------------------------------------------------------------------------
(* Requests: services/runs.py                                              *)

\* create_run and rerun: the row and run.queued in one transaction.  When
\* the acknowledgement is lost the request fails and nobody schedules the row.
Create(r) ==
    /\ phase = "up" /\ row[r] = "absent"
    /\ \E o \in CommitOutcome \ {"failed"} :
          /\ Commits(o)
          /\ Store(r, o, "queued", Event("run.queued", "queued"))
          /\ task' = IF o = "ok" THEN [task EXCEPT ![r] = "created"] ELSE task
          /\ failed' = IF o = "ok" THEN failed ELSE failed \cup {r}
    /\ UNCHANGED <<startedAt, phase, result, slots, cancelReq, interrupted, runtime, docker, restarts, losses>>

\* Jobs.schedule, once the commit has returned to the request.
Schedule(r) ==
    /\ phase = "up" /\ task[r] = "created"
    /\ task' = [task EXCEPT ![r] = "waiting"]
    /\ UNCHANGED <<durable, phase, result, slots, cancelReq, failed, interrupted, runtime, docker, budgets>>

\* Mutant: the status was checked before another transaction changed it.
CancellableStale(r) == row[r] # "absent"

Cancellable(r) == Open(r)

\* cancel_run: a terminal row is left alone; otherwise the row is cancelled
\* first and the controller told afterwards, outside the transaction.
Cancel(r) ==
    /\ phase = "up" /\ Cancellable(r)
    /\ \E o \in CommitOutcome \ {"failed"} :
          /\ Commits(o)
          /\ Store(r, o, "cancelled", Event("run.cancelled", "cancelled"))
          /\ cancelReq' = IF o = "ok" THEN [cancelReq EXCEPT ![r] = "calling"] ELSE cancelReq
    /\ UNCHANGED <<startedAt, phase, task, result, slots, failed, interrupted, runtime, docker, restarts, losses>>

\* _ensure: the line of a call reaches a running controller, a fresh one when
\* the latest is known to have exited.  Its reader may still be reading.
Reaches ==
    /\ bridge' = "up"
    /\ oldReaders' = IF bridge = "exited" THEN oldReaders + 1 ELSE oldReaders

\* Until the return code is known the line goes to the one that has exited.
IsLost == bridge # "up" /\ UNCHANGED runtime

\* DockerRunner.cancel: without an active item it does nothing, and answers.
CancelDelivered(r) ==
    /\ phase = "up" /\ cancelReq[r] = "calling" /\ Reaches
    /\ cancelReq' = [cancelReq EXCEPT ![r] = "none"]
    /\ node' = IF node[r] \in Executing THEN [node EXCEPT ![r] = "cancelled"] ELSE node
    /\ UNCHANGED <<durable, phase, task, result, slots, failed, interrupted, containers, budgets>>

\* wait_for in Runtime._call: the request fails, the row stays cancelled.
CancelTimesOut(r) ==
    /\ phase = "up" /\ cancelReq[r] = "calling"
    /\ cancelReq' = [cancelReq EXCEPT ![r] = "none"]
    /\ UNCHANGED <<durable, phase, task, result, slots, failed, interrupted, runtime, docker, budgets>>

-----------------------------------------------------------------------------
(* The background task: Jobs.execute and Jobs.finish                       *)

\* Mutants: the slot is returned twice, or kept when the task ends.
ReleaseTwice(r) == task' = [task EXCEPT ![r] = "none"] /\ slots' = slots + 2
ReleaseForgets(r) == task' = [task EXCEPT ![r] = "none"] /\ slots' = slots

Release(r) == /\ task' = [task EXCEPT ![r] = "none"]
              /\ slots' = slots + 1

\* async with self.slots
Acquire(r) ==
    /\ Serving /\ task[r] = "waiting" /\ slots > 0
    /\ slots' = slots - 1
    /\ task' = [task EXCEPT ![r] = "begin"]
    /\ UNCHANGED <<durable, phase, result, cancelReq, failed, interrupted, runtime, docker, budgets>>

\* Mutant: neither the check nor check_transition stops a terminal run.
NeverOver(r) == FALSE

AlreadyOver(r) == Terminal(r)

\* The row turned terminal while the task was waiting: return.
BeginTerminal(r) ==
    /\ Serving /\ task[r] = "begin" /\ AlreadyOver(r)
    /\ Release(r)
    /\ UNCHANGED <<durable, phase, result, cancelReq, failed, interrupted, runtime, docker, budgets>>

BeginRunning(r) ==
    /\ Serving /\ task[r] = "begin" /\ ~AlreadyOver(r)
    /\ \E o \in CommitOutcome :
          /\ Commits(o)
          /\ row' = IF Applied(o) THEN [row EXCEPT ![r] = "running"] ELSE row
          /\ startedAt' = IF Applied(o) THEN startedAt \cup {r} ELSE startedAt
          /\ task' = [task EXCEPT ![r] = IF o = "ok" THEN "prepare" ELSE "fail"]
    /\ UNCHANGED <<published, phase, result, slots, cancelReq, failed, interrupted, runtime, docker, restarts, losses>>

\* vault.open, mkdir, emit(run.started), then runtime.run writes the request.
\* "failed" stands for an error before run.started is stored and
\* "unacknowledged" for one after it: a lost reply or a controller that
\* cannot be spawned.
Prepare(r) ==
    /\ Serving /\ task[r] = "prepare"
    /\ \E o \in CommitOutcome :
          /\ Commits(o)
          /\ published' = IF Applied(o)
                          THEN [published EXCEPT ![r] = @ \cup {Event("run.started", "running")}]
                          ELSE published
          /\ task' = [task EXCEPT ![r] = IF o = "ok" THEN "call" ELSE "fail"]
          /\ \/ o = "ok" /\ Reaches /\ node' = [node EXCEPT ![r] = "checking"]
             \/ o = "ok" /\ IsLost /\ UNCHANGED node
             \/ o # "ok" /\ UNCHANGED <<runtime, node>>
    /\ UNCHANGED <<row, startedAt, phase, result, slots, cancelReq, failed, interrupted, containers, restarts, losses>>

\* The exception of a task in "finish" leads to the second finish of the
\* except clause; the exception of that one ends the task, which only the
\* done callback reports.
Raises(r) ==
    IF task[r] = "fail"
    THEN Release(r) /\ failed' = failed \cup {r}
    ELSE /\ task' = [task EXCEPT ![r] = "fail"]
         /\ UNCHANGED <<slots, failed>>

\* The status finish() writes: a row cancelled meanwhile stays cancelled.
FinalStatus(r) ==
    IF row[r] = "cancelled" THEN "cancelled"
    ELSE IF task[r] = "fail" THEN "error" ELSE result[r]

Finish(r) ==
    /\ Serving /\ task[r] \in {"finish", "fail"}
    /\ Allowed(RUN_TRANSITIONS, row[r], FinalStatus(r))
    /\ \E o \in CommitOutcome :
          /\ Commits(o)
          /\ Store(r, o, FinalStatus(r), Event("run.finished", FinalStatus(r)))
          /\ IF o = "ok" THEN Release(r) /\ UNCHANGED failed ELSE Raises(r)
    /\ result' = [result EXCEPT ![r] = "none"]
    /\ UNCHANGED <<startedAt, phase, cancelReq, interrupted, runtime, docker, restarts, losses>>

\* check_transition refuses: the row already holds another final status.
FinishRefused(r) ==
    /\ Serving /\ task[r] \in {"finish", "fail"}
    /\ ~Allowed(RUN_TRANSITIONS, row[r], FinalStatus(r))
    /\ Raises(r)
    /\ result' = [result EXCEPT ![r] = "none"]
    /\ UNCHANGED <<durable, phase, cancelReq, interrupted, runtime, docker, budgets>>

-----------------------------------------------------------------------------
(* The Node controller: DockerRunner of src/runtime/runner.ts              *)

\* The answer is written, for a task that still waits for it: the reader
\* drops any other.
Answers(r, status) ==
    result' = IF task[r] = "call" THEN [result EXCEPT ![r] = status] ELSE result

\* start() throws: Docker unavailable, no versions, an unknown role.
NodeRejects(r) ==
    /\ node[r] = "checking"
    /\ node' = [node EXCEPT ![r] = "idle"]
    /\ Answers(r, "exception")
    /\ UNCHANGED <<durable, phase, task, slots, cancelReq, failed, interrupted, runtime, containers, budgets>>

\* active.set, then the sandbox network and its containers are created.
NodeStarts(r) ==
    /\ node[r] = "checking"
    /\ node' = [node EXCEPT ![r] = "active"]
    /\ containers' = containers \cup {r}
    /\ UNCHANGED <<durable, phase, task, result, slots, cancelReq, failed, interrupted, runtime, budgets>>

\* item.cancel ??= 'timed_out': the timer never overrides a user's cancel.
TimerFires(r) ==
    /\ node[r] = "active"
    /\ node' = [node EXCEPT ![r] = "timed_out"]
    /\ UNCHANGED <<durable, phase, task, result, slots, cancelReq, failed, interrupted, runtime, containers, budgets>>

\* The finally block of execute(): resources removed (or not, when docker
\* fails: the errors are swallowed), item.cancel overrides the status, and
\* complete() replies.  A cancel that comes after the status was settled is
\* one that finds the run completed.  A result the API cannot validate is an
\* error there.
NodeCompletes(r) ==
    /\ node[r] \in Executing
    /\ node' = [node EXCEPT ![r] = "idle"]
    /\ \/ containers' = containers \ {r} /\ UNCHANGED faults
       \/ faults < MaxFaults /\ faults' = faults + 1 /\ UNCHANGED containers
    /\ \E status \in (IF node[r] \in Cancelling THEN {node[r]} ELSE TERMINAL_RUNS) \cup {"exception"} :
          Answers(r, status)
    /\ UNCHANGED <<durable, phase, task, slots, cancelReq, failed, interrupted, runtime, restarts, losses>>

Answered(r) == task[r] = "call" /\ result[r] # "none"

\* _read hands the answer to the task; an error becomes an exception, and so
\* does a result the API cannot validate.
ReadAnswer(r) ==
    /\ Serving /\ Answered(r)
    /\ IF result[r] = "exception"
       THEN task' = [task EXCEPT ![r] = "fail"] /\ result' = [result EXCEPT ![r] = "none"]
       ELSE task' = [task EXCEPT ![r] = "finish"] /\ UNCHANGED result
    /\ UNCHANGED <<durable, phase, slots, cancelReq, failed, interrupted, runtime, docker, budgets>>

\* The call has no controller that would answer it.
Unanswerable(r) == node[r] = "idle" /\ ~Answered(r)

\* wait_for in Runtime._call: the task gives up, the controller goes on and
\* its late answer is dropped.  When nobody is there to answer the timeout
\* is no fault: it is sure to come.
CallTimesOut(r) ==
    /\ Serving /\ task[r] = "call"
    /\ IF Unanswerable(r) THEN UNCHANGED faults ELSE faults < MaxFaults /\ faults' = faults + 1
    /\ task' = [task EXCEPT ![r] = "fail"]
    /\ result' = [result EXCEPT ![r] = "none"]
    /\ UNCHANGED <<durable, phase, slots, cancelReq, failed, interrupted, runtime, docker, restarts, losses>>

\* The controller exits: what it was executing is forgotten, its containers
\* stay, and nobody in the API knows yet.
ControllerExits ==
    /\ Serving /\ bridge = "up" /\ bridge' = "exited"
    /\ losses < MaxControllerLosses /\ losses' = losses + 1
    /\ node' = [r \in Runs |-> "idle"]
    /\ UNCHANGED <<durable, phase, task, result, slots, cancelReq, failed, interrupted, oldReaders,
                   containers, restarts, faults>>

\* Mutant: the calls in flight are left pending.
CallsLeftPending == UNCHANGED <<task, result, cancelReq>>

\* The finally block of _read: whatever is pending fails, also the calls a
\* fresh controller is executing.
FailsPending ==
    /\ task' = [r \in Runs |-> IF task[r] = "call" THEN "fail" ELSE task[r]]
    /\ result' = [r \in Runs |-> IF task[r] = "call" THEN "none" ELSE result[r]]
    /\ cancelReq' = [r \in Runs |-> IF cancelReq[r] = "calling" THEN "none" ELSE cancelReq[r]]

\* A reader comes to the end of the output of its controller.
ReaderEnds ==
    /\ Serving
    /\ \/ bridge = "exited" /\ bridge' = "gone" /\ UNCHANGED oldReaders
       \/ oldReaders > 0 /\ oldReaders' = oldReaders - 1 /\ UNCHANGED bridge
    /\ FailsPending
    /\ UNCHANGED <<durable, phase, slots, failed, interrupted, docker, budgets>>

\* A reader breaks on a line or an event and kills its controller, all
\* without an await.
ReaderBreaks ==
    /\ Serving /\ bridge = "up" /\ bridge' = "gone"
    /\ losses < MaxControllerLosses /\ losses' = losses + 1
    /\ FailsPending
    /\ node' = [r \in Runs |-> "idle"]
    /\ UNCHANGED <<durable, phase, slots, failed, interrupted, oldReaders, containers, restarts, faults>>

-----------------------------------------------------------------------------
(* Shutdown, crash and recovery: main.py's lifespan, Jobs.close, recover   *)

ProcessEnds ==
    /\ phase' = "down"
    /\ task' = [r \in Runs |-> "none"]
    /\ result' = [r \in Runs |-> "none"]
    /\ slots' = MaxConcurrentRuns
    /\ cancelReq' = [r \in Runs |-> "none"]
    /\ failed' = {}
    /\ interrupted' = {}
    /\ bridge' = "up" /\ oldReaders' = 0
    /\ node' = [r \in Runs |-> "idle"]

\* The process dies at any point, recovery included; the controller's end
\* removes some of the containers, or none.
Crash ==
    /\ phase # "down" /\ restarts < MaxRestarts /\ restarts' = restarts + 1
    /\ ProcessEnds
    /\ \E left \in SUBSET containers : containers' = left
    /\ UNCHANGED <<durable, losses, faults>>

\* The lifespan ends once the requests have: Jobs.close calls runtime.close.
CloseBegins ==
    /\ phase = "up" /\ restarts < MaxRestarts /\ restarts' = restarts + 1
    /\ \A r \in Runs : task[r] # "created" /\ cancelReq[r] # "calling"
    /\ phase' = "closing"
    /\ UNCHANGED <<durable, task, result, slots, cancelReq, failed, interrupted, runtime, docker, losses, faults>>

\* runner.close() cancels what is active, on the close call and again when
\* its stdin ends; a start() still checking is in nobody's way.
NodeCloseCancels(r) ==
    /\ phase = "closing" /\ node[r] \in {"active", "timed_out"}
    /\ node' = [node EXCEPT ![r] = "cancelled"]
    /\ UNCHANGED <<durable, phase, task, result, slots, cancelReq, failed, interrupted, runtime, containers, budgets>>

\* The controller has exited or was killed after its timeouts; its reader,
\* unless it has ended before, is cancelled, which fails the calls in flight.
CloseRuntime ==
    /\ phase = "closing" /\ phase' = "draining"
    /\ IF bridge = "gone" THEN UNCHANGED <<task, result, cancelReq>> ELSE FailsPending
    /\ bridge' = "up"
    /\ node' = [r \in Runs |-> "idle"]
    /\ UNCHANGED <<durable, slots, failed, interrupted, oldReaders, containers, budgets>>

\* After five seconds the tasks left are cancelled and the process exits; a
\* run started on a fresh controller meanwhile may leave its containers.
CloseDone ==
    /\ phase = "draining"
    /\ ProcessEnds
    /\ \E left \in SUBSET containers : containers' = left
    /\ UNCHANGED <<durable, budgets>>

\* Mutant: a run still queued is not taken for an interrupted one.
InterruptedRunning == {r \in Runs : row[r] = "running"}

Interrupted == {r \in Runs : Open(r)}

\* recover(): one transaction turns every interrupted run into an error.
Recover ==
    /\ phase = "down" /\ phase' = "cleanup"
    /\ interrupted' = Interrupted
    /\ row' = [r \in Runs |-> IF r \in Interrupted THEN "error" ELSE row[r]]
    /\ published' = [r \in Runs |-> IF r \in Interrupted
                                    THEN published[r] \cup {Event("run.error", "error")}
                                    ELSE published[r]]
    /\ UNCHANGED <<startedAt, task, result, slots, cancelReq, failed, runtime, docker, budgets>>

\* Runtime.recover removes what those runs left in Docker, or stops at the
\* first docker failure, which only adds a sentence to the rows' error text.
Cleanup ==
    /\ phase = "cleanup" /\ phase' = "up"
    /\ \/ containers' = containers \ interrupted /\ UNCHANGED faults
       \/ /\ interrupted # {} /\ faults < MaxFaults /\ faults' = faults + 1
          /\ \E removed \in SUBSET interrupted : containers' = containers \ removed
    /\ interrupted' = {}
    /\ UNCHANGED <<durable, task, result, slots, cancelReq, failed, runtime, node, restarts, losses>>

-----------------------------------------------------------------------------

\* Nothing is in flight: the server waits for requests.
AtRest == /\ phase = "up"
          /\ \A r \in Runs : /\ task[r] = "none" /\ node[r] = "idle"
                             /\ cancelReq[r] # "calling"
          /\ UNCHANGED vars

RequestStep(r) == Create(r) \/ Schedule(r) \/ Cancel(r) \/ CancelDelivered(r) \/ CancelTimesOut(r)
TaskStep(r)    == \/ Acquire(r) \/ BeginTerminal(r) \/ BeginRunning(r) \/ Prepare(r)
                  \/ ReadAnswer(r) \/ CallTimesOut(r) \/ Finish(r) \/ FinishRefused(r)
NodeStep(r)    == \/ NodeRejects(r) \/ NodeStarts(r) \/ TimerFires(r)
                  \/ NodeCompletes(r) \/ NodeCloseCancels(r)
ProcessStep    == \/ ControllerExits \/ ReaderEnds \/ ReaderBreaks \/ Crash \/ CloseBegins \/ CloseRuntime \/ CloseDone
                  \/ Recover \/ Cleanup

Next == \/ \E r \in Runs : RequestStep(r) \/ TaskStep(r) \/ NodeStep(r)
        \/ ProcessStep
        \/ AtRest

Spec == Init /\ [][Next]_vars
-----------------------------------------------------------------------------
(* Fairness.  The event loop runs every ready task, wait_for's timeout is   *)
(* finite, and the semaphore is FIFO, so a waiting task is not overtaken   *)
(* for ever: strong fairness of Acquire.  Node's event loop does the same; *)
(* a run ends because its container exits or the timer stops it.  A close  *)
(* comes to its end, and the process is restarted.  No fairness for        *)
(* requests, readers, failures, crashes or the start of a close.           *)

TaskRuns(r) == \/ Schedule(r) \/ BeginTerminal(r) \/ BeginRunning(r) \/ Prepare(r)
               \/ ReadAnswer(r) \/ CallTimesOut(r) \/ Finish(r) \/ FinishRefused(r)
NodeRuns(r) == NodeRejects(r) \/ NodeStarts(r) \/ NodeCompletes(r)

FairSpec == /\ Spec
            /\ \A r \in Runs : SF_vars(Acquire(r)) /\ WF_vars(TaskRuns(r)) /\ WF_vars(NodeRuns(r))
            /\ WF_vars(CloseRuntime \/ CloseDone \/ Recover \/ Cleanup)

-----------------------------------------------------------------------------
(* Properties                                                              *)

\* Every variable keeps to its domain.
TypeOK ==
    /\ row \in [Runs -> RunStatus \cup {"absent"}]
    /\ startedAt \subseteq Runs
    /\ published \in [Runs -> SUBSET RunEvent]
    /\ phase \in {"down", "cleanup", "up", "closing", "draining"}
    /\ task \in [Runs -> TaskState]
    /\ result \in [Runs -> TERMINAL_RUNS \cup {"none", "exception"}]
    /\ slots \in 0..MaxConcurrentRuns
    /\ cancelReq \in [Runs -> {"none", "calling"}]
    /\ failed \subseteq Runs
    /\ interrupted \subseteq Runs
    /\ bridge \in BridgeState /\ oldReaders \in Nat
    /\ node \in [Runs -> NodeState]
    /\ containers \subseteq Runs
    /\ restarts \in 0..MaxRestarts
    /\ losses \in 0..MaxControllerLosses
    /\ faults \in 0..MaxFaults

\* No path of execute() leaks a slot or returns one twice: returns,
\* exceptions, failed commits, restarts (async with self.slots).
SlotsAccounted == slots + Cardinality(Holders) = MaxConcurrentRuns

\* A run shown as queued or running while the API serves has a task that
\* will end it, or its loss was reported (BACKGROUND_FAILED, a failed
\* request); in particular a restart leaves no such run behind.
NoSilentOrphan ==
    Serving => \A r \in Runs : Open(r) => task[r] # "none" \/ r \in failed

\* What the events of a run say of its end is what its row says: there is
\* a closing event exactly when the row is terminal, and none contradicts it.
ClosingEventsAgree ==
    \A r \in Runs :
        /\ Terminal(r) <=> \E e \in published[r] : e.status \in TERMINAL_RUNS
        /\ \A e \in published[r] : e.status \in TERMINAL_RUNS => e.status = row[r]

\* The task of r counts on a controller that is no longer there, and a reader
\* is about to tell it: an answer is on the pipe, or the end of the output.
AboutToLearn(r) ==
    task[r] = "call" /\ (Answered(r) \/ bridge = "exited" \/ oldReaders > 0)

\* A container no controller looks after belongs to a run that is over, about
\* to be recorded as over, or reported lost, or its task is about to learn of
\* it: however the losses, the fresh controllers, the ends of old readers and
\* a close follow each other, no task is left to wait for such a container
\* until its timeout, up to thirteen minutes later.
UnmanagedContainersAreOver ==
    Serving => \A r \in containers :
        \/ node[r] \in Executing
        \/ Terminal(r)
        \/ task[r] \in {"finish", "fail"}
        \/ r \in failed
        \/ AboutToLearn(r)

\* A run cancelled while still queued never reaches the controller: its
\* task finds the row terminal under the lock, however late it gets a slot.
CancelledWhileQueuedNeverRuns ==
    [][\A r \in Runs : row[r] = "cancelled" /\ r \notin startedAt =>
            r \notin startedAt' /\ r \notin containers' /\ node'[r] = "idle"]_vars

\* The jobs, with all their failures, implement the lifecycle clients see.
Lifecycle == INSTANCE RunLifecycle
ImplementsLifecycle == Lifecycle!Spec

\* Every queued run ends, or its loss is reported.
EveryRunCloses ==
    \A r \in Runs : row[r] = "queued" ~> (Terminal(r) \/ r \in failed)

\* docs/runner.md: cancel(runId) sends the termination signal, so after its
\* answer the controller is not about to execute the run, nor executing it
\* without the cancel flag.
CancelStopsExecution ==
    [][\A r \in Runs : CancelDelivered(r) => node'[r] \notin {"checking", "active"}]_vars

\* docs/runner.md: recovery at startup cleans up the containers left over.
RecoveryRemovesLeftovers ==
    [][phase = "cleanup" /\ phase' = "up" => containers' = {}]_vars

=============================================================================
