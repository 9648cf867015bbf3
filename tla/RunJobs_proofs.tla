--------------------------- MODULE RunJobs_proofs ---------------------------
(***************************************************************************)
(* Proofs about RunJobs, for any set of runs, any number of slots and any  *)
(* bounds.                                                                 *)
(***************************************************************************)
EXTENDS RunJobs, FiniteSetTheorems, TLAPS

\* A task works on a row that exists, and finishes with a final status.
TaskHasRow ==
    \A r \in Runs : /\ task[r] # "none" => row[r] # "absent"
                    /\ task[r] = "finish" => result[r] \in TERMINAL_RUNS

\* The inductive invariant behind the types: slots stays within bounds only
\* because it is accounted for, and rows only because tasks have results.
TypeInv == TypeOK /\ IsFiniteSet(Holders) /\ SlotsAccounted /\ TaskHasRow

\* What a step may do to the slots and to the tasks that hold one.
SlotMove ==
    \/ Holders' = Holders /\ slots' = slots
    \/ /\ slots > 0 /\ slots' = slots - 1
       /\ \E r \in Runs \ Holders : Holders' = Holders \cup {r}
    \/ /\ slots' = slots + 1
       /\ \E r \in Holders : Holders' = Holders \ {r}
    \/ Holders' = {} /\ slots' = MaxConcurrentRuns

LEMMA ReleaseMoves ==
    ASSUME task \in [Runs -> TaskState], NEW r \in Runs, task[r] \in Holding, Release(r)
    PROVE  SlotMove
<1>1. r \in Holders /\ Holders' = Holders \ {r}
  BY DEF Release, Holders, Holding
<1>2. QED
  BY <1>1 DEF Release, SlotMove

LEMMA RaisesMoves ==
    ASSUME task \in [Runs -> TaskState], NEW r \in Runs, task[r] \in {"finish", "fail"}, Raises(r)
    PROVE  SlotMove
<1>1. CASE task[r] = "fail"
  BY <1>1, ReleaseMoves DEF Raises, Holding
<1>2. CASE task[r] = "finish"
  <2>1. Holders' = Holders
    BY <1>2 DEF Raises, Holders, Holding
  <2>2. QED
    BY <1>2, <2>1 DEF Raises, SlotMove
<1>3. QED
  BY <1>1, <1>2

\* Every step moves at most one task into or out of the slots, with its slot.
LEMMA StepMovesSlots ==
    ASSUME task \in [Runs -> TaskState], TaskHasRow, [Next]_vars
    PROVE  SlotMove
<1> USE DEF SlotMove
<1> DEFINE Same == Holders' = Holders /\ slots' = slots
<1>1. ASSUME NEW r \in Runs, RequestStep(r) PROVE Same
  <2>1. CASE Create(r) \/ Schedule(r)
    BY <2>1 DEF Create, Schedule, TaskHasRow, Holders, Holding
  <2>2. CASE Cancel(r) \/ CancelDelivered(r) \/ CancelTimesOut(r)
    BY <2>2 DEF Cancel, CancelDelivered, CancelTimesOut, Holders
  <2>3. QED
    BY <1>1, <2>1, <2>2 DEF RequestStep
<1>2. ASSUME NEW r \in Runs, TaskStep(r) PROVE SlotMove
  <2>1. CASE Acquire(r)
    <3>1. Holders' = Holders \cup {r} /\ r \notin Holders
      BY <2>1 DEF Acquire, Holders, Holding
    <3>2. QED
      BY <2>1, <3>1 DEF Acquire
  <2>2. CASE BeginTerminal(r)
    BY <2>2, ReleaseMoves DEF BeginTerminal, Holding
  <2>3. CASE BeginRunning(r)
    BY <2>3 DEF BeginRunning, Holders, Holding
  <2>4. CASE Prepare(r)
    BY <2>4 DEF Prepare, Holders, Holding
  <2>5. CASE Finish(r)
    BY <2>5, ReleaseMoves, RaisesMoves DEF Finish, Holding
  <2>6. CASE FinishRefused(r)
    BY <2>6, RaisesMoves DEF FinishRefused
  <2>7. CASE ReadAnswer(r) \/ CallTimesOut(r)
    BY <2>7 DEF ReadAnswer, Answered, CallTimesOut, Holders, Holding
  <2>8. QED
    BY <1>2, <2>1, <2>2, <2>3, <2>4, <2>5, <2>6, <2>7 DEF TaskStep
<1>3. ASSUME NEW r \in Runs, NodeStep(r) PROVE Same
  BY <1>3 DEF NodeStep, NodeRejects, NodeStarts, TimerFires, NodeCompletes, NodeCloseCancels,
              Holders, Holding
<1>4. CASE ProcessStep
  <2>1. CASE ControllerExits \/ ReaderEnds \/ ReaderBreaks \/ CloseRuntime
    BY <2>1 DEF ControllerExits, ReaderEnds, ReaderBreaks, CloseRuntime, FailsPending, Holders, Holding
  <2>2. CASE Crash \/ CloseDone
    BY <2>2 DEF Crash, CloseDone, ProcessEnds, Holders, Holding
  <2>3. CASE CloseBegins \/ Recover \/ Cleanup
    BY <2>3 DEF CloseBegins, Recover, Cleanup, Holders
  <2>4. QED
    BY <1>4, <2>1, <2>2, <2>3 DEF ProcessStep
<1>5. CASE AtRest \/ UNCHANGED vars
  BY <1>5 DEF AtRest, vars, Holders
<1>6. QED
  BY <1>1, <1>2, <1>3, <1>4, <1>5 DEF Next

\* With the slots accounted for, a move keeps them accounted for, and keeps
\* the semaphore between 0 and its initial value.
LEMMA MoveKeepsAccount ==
    ASSUME IsFiniteSet(Holders), SlotsAccounted, slots \in 0..MaxConcurrentRuns, SlotMove
    PROVE  /\ IsFiniteSet(Holders') /\ SlotsAccounted'
           /\ slots' \in 0..MaxConcurrentRuns
<1> USE SlotsAssumption DEF SlotsAccounted
<1>1. Cardinality(Holders) \in Nat
  BY FS_CardinalityType
<1>2. CASE Holders' = Holders /\ slots' = slots
  BY <1>2
<1>3. CASE /\ slots > 0 /\ slots' = slots - 1
           /\ \E r \in Runs \ Holders : Holders' = Holders \cup {r}
  <2>1. PICK r \in Runs \ Holders : Holders' = Holders \cup {r}
    BY <1>3
  <2>2. IsFiniteSet(Holders') /\ Cardinality(Holders') = Cardinality(Holders) + 1
    BY <2>1, FS_AddElement
  <2>3. QED
    BY <1>1, <1>3, <2>2
<1>4. CASE /\ slots' = slots + 1
           /\ \E r \in Holders : Holders' = Holders \ {r}
  <2>1. PICK r \in Holders : Holders' = Holders \ {r}
    BY <1>4
  <2>2. IsFiniteSet(Holders') /\ Cardinality(Holders') = Cardinality(Holders) - 1
    BY <2>1, FS_RemoveElement
  <2>3. Cardinality(Holders') \in Nat
    BY <2>2, FS_CardinalityType
  <2>4. QED
    BY <1>1, <1>4, <2>2, <2>3
<1>5. CASE Holders' = {} /\ slots' = MaxConcurrentRuns
  BY <1>5, FS_EmptySet
<1>6. QED
  BY <1>2, <1>3, <1>4, <1>5 DEF SlotMove

-----------------------------------------------------------------------------

LEMMA FinalStatusIsTerminal ==
    ASSUME TaskHasRow,
           NEW r \in Runs, task[r] \in {"finish", "fail"}
    PROVE  FinalStatus(r) \in TERMINAL_RUNS
<1>1. "cancelled" \in TERMINAL_RUNS /\ "error" \in TERMINAL_RUNS
  BY DEF TERMINAL_RUNS
<1>2. task[r] # "fail" => result[r] \in TERMINAL_RUNS
  BY DEF TaskHasRow
<1>3. QED
  BY <1>1, <1>2 DEF FinalStatus

\* Requests create rows before tasks, and move rows only along the statuses.
LEMMA RequestsKeepTypes ==
    ASSUME TypeOK, TaskHasRow, NEW r \in Runs, RequestStep(r)
    PROVE  TypeOK' /\ TaskHasRow'
<1> USE BoundsAssumption DEF TypeOK, TaskHasRow, budgets, durable, docker, runtime, BridgeState
<1> USE DEF RunEvent, Event, RunStatus, TaskState
<1>1. CASE Create(r)
  BY <1>1 DEF Create, Store, Applied, Commits, CommitOutcome
<1>2. CASE Schedule(r)
  BY <1>2 DEF Schedule
<1>3. CASE Cancel(r)
  BY <1>3 DEF Cancel, Cancellable, Open, Store, Applied, Commits, CommitOutcome, TERMINAL_RUNS
<1>4. CASE CancelDelivered(r)
  BY <1>4 DEF CancelDelivered, Reaches, NodeState, Executing, Cancelling
<1>5. CASE CancelTimesOut(r)
  BY <1>5 DEF CancelTimesOut
<1>6. QED
  BY <1>1, <1>2, <1>3, <1>4, <1>5 DEF RequestStep

\* A task's step, whatever becomes of its commit.
LEMMA TasksKeepTypes ==
    ASSUME TypeOK, TaskHasRow, NEW r \in Runs, TaskStep(r), slots' \in 0..MaxConcurrentRuns
    PROVE  TypeOK' /\ TaskHasRow'
<1> USE BoundsAssumption DEF TypeOK, TaskHasRow, budgets, durable, docker, runtime, BridgeState
<1> USE DEF RunEvent, Event, RunStatus, TaskState, Holding
<1>1. CASE Acquire(r)
  BY <1>1 DEF Acquire
<1>2. CASE BeginTerminal(r)
  BY <1>2 DEF BeginTerminal, Release
<1>3. CASE BeginRunning(r)
  BY <1>3 DEF BeginRunning, Applied, Commits, CommitOutcome
<1>4. CASE Prepare(r)
  BY <1>4 DEF Prepare, Reaches, IsLost, Applied, Commits, CommitOutcome, NodeState
<1>5. CASE Finish(r)
  <2>1. FinalStatus(r) \in TERMINAL_RUNS
    BY <1>5, FinalStatusIsTerminal DEF Finish
  <2>2. row' \in [Runs -> RunStatus \cup {"absent"}] /\ published' \in [Runs -> SUBSET RunEvent]
    BY <1>5, <2>1 DEF Finish, Store
  <2>3. faults' \in 0..MaxFaults
    BY <1>5 DEF Finish, Commits, CommitOutcome
  <2>4. task' \in [Runs -> TaskState] /\ failed' \subseteq Runs
    BY <1>5 DEF Finish, Release, Raises
  <2>5. TaskHasRow'
    BY <1>5, <2>1 DEF Finish, Release, Raises, Store, TERMINAL_RUNS
  <2>6. QED
    BY <1>5, <2>2, <2>3, <2>4, <2>5 DEF Finish
<1>6. CASE FinishRefused(r)
  BY <1>6 DEF FinishRefused, Raises, Release
<1>7. CASE CallTimesOut(r)
  BY <1>7 DEF CallTimesOut
<1>8. CASE ReadAnswer(r)
  BY <1>8 DEF ReadAnswer, Answered
<1>9. QED
  BY <1>1, <1>2, <1>3, <1>4, <1>5, <1>6, <1>7, <1>8, TaskStep(r) DEF TaskStep

\* The controller only ever answers a task with a final status or an error.
LEMMA NodeKeepsTypes ==
    ASSUME TypeOK, TaskHasRow, NEW r \in Runs, NodeStep(r)
    PROVE  TypeOK' /\ TaskHasRow'
<1> USE BoundsAssumption DEF TypeOK, TaskHasRow, budgets, durable, docker, runtime, BridgeState
<1> USE DEF NodeState, Executing, Cancelling, TaskState, Holding
<1>1. CASE NodeRejects(r)
  BY <1>1 DEF NodeRejects, Answers
<1>2. CASE NodeStarts(r)
  BY <1>2 DEF NodeStarts
<1>3. CASE TimerFires(r)
  BY <1>3 DEF TimerFires
<1>4. CASE NodeCompletes(r)
  <2>1. PICK status \in TERMINAL_RUNS \cup {"exception"} : Answers(r, status)
    BY <1>4 DEF NodeCompletes, TERMINAL_RUNS
  <2>2. /\ result' \in [Runs -> TERMINAL_RUNS \cup {"none", "exception"}]
        /\ \A q \in Runs : task[q] = "finish" => result'[q] = result[q]
    BY <2>1 DEF Answers
  <2>3. faults' \in 0..MaxFaults /\ containers' \subseteq Runs
    BY <1>4 DEF NodeCompletes
  <2>4. node' \in [Runs -> NodeState]
    BY <1>4 DEF NodeCompletes
  <2>5. QED
    BY <1>4, <2>2, <2>3, <2>4 DEF NodeCompletes
<1>5. CASE NodeCloseCancels(r)
  BY <1>5 DEF NodeCloseCancels
<1>6. QED
  BY <1>1, <1>2, <1>3, <1>4, <1>5, NodeStep(r) DEF NodeStep

LEMMA ProcessKeepsTypes ==
    ASSUME TypeOK, TaskHasRow, ProcessStep, slots' \in 0..MaxConcurrentRuns
    PROVE  TypeOK' /\ TaskHasRow'
<1> USE BoundsAssumption DEF TypeOK, TaskHasRow, budgets, durable, docker, runtime, BridgeState
<1> USE DEF TaskState, Holding
<1>1. CASE ControllerExits \/ ReaderEnds \/ ReaderBreaks
  BY <1>1 DEF ControllerExits, ReaderEnds, ReaderBreaks, FailsPending, NodeState
<1>2. CASE Crash
  BY <1>2 DEF Crash, ProcessEnds, NodeState
<1>3. CASE CloseBegins
  BY <1>3 DEF CloseBegins
<1>4. CASE CloseRuntime
  BY <1>4 DEF CloseRuntime, FailsPending, NodeState
<1>5. CASE CloseDone
  BY <1>5 DEF CloseDone, ProcessEnds, NodeState
<1>6. CASE Recover
  BY <1>6 DEF Recover, Interrupted, Open, RunEvent, Event, RunStatus, TERMINAL_RUNS
<1>7. CASE Cleanup
  BY <1>7 DEF Cleanup
<1>8. QED
  BY <1>1, <1>2, <1>3, <1>4, <1>5, <1>6, <1>7 DEF ProcessStep

LEMMA InitTyped == Init => TypeInv
<1> SUFFICES ASSUME Init PROVE TypeInv
  OBVIOUS
<1>1. Holders = {}
  BY DEF Init, Holders, Holding
<1>2. IsFiniteSet(Holders) /\ SlotsAccounted
  BY <1>1, FS_EmptySet, SlotsAssumption DEF Init, SlotsAccounted
<1>3. TypeOK /\ TaskHasRow
  BY SlotsAssumption, BoundsAssumption DEF Init, TypeOK, TaskHasRow, TaskState, NodeState, BridgeState
<1>4. QED
  BY <1>2, <1>3 DEF TypeInv

LEMMA StepTyped == TypeInv /\ [Next]_vars => TypeInv'
<1> SUFFICES ASSUME TypeInv, [Next]_vars PROVE TypeInv'
  OBVIOUS
<1> USE DEF TypeInv
<1>1. task \in [Runs -> TaskState] /\ slots \in 0..MaxConcurrentRuns
  BY DEF TypeOK
<1>2. SlotMove
  BY <1>1, StepMovesSlots
<1>3. IsFiniteSet(Holders') /\ SlotsAccounted' /\ slots' \in 0..MaxConcurrentRuns
  BY <1>1, <1>2, MoveKeepsAccount
<1>4. TypeOK' /\ TaskHasRow'
  <2>1. CASE AtRest \/ UNCHANGED vars
    BY <2>1 DEF AtRest, vars, TypeOK, TaskHasRow, durable, docker, runtime, budgets
  <2>2. QED
    BY <1>3, <2>1, RequestsKeepTypes, TasksKeepTypes, NodeKeepsTypes, ProcessKeepsTypes DEF Next
<1>5. QED
  BY <1>3, <1>4

\* The types and the slots, in every reachable state: no path through
\* execute() loses a slot or returns one twice.
THEOREM Typing == Spec => []TypeInv
BY InitTyped, StepTyped, PTL DEF Spec

THEOREM TypesHold == Spec => []TypeOK
<1>1. TypeInv => TypeOK
  BY DEF TypeInv
<1>2. QED
  BY <1>1, Typing, PTL

\* Slots and their holders always add up to MaxConcurrentRuns.
THEOREM SlotsHold == Spec => []SlotsAccounted
<1>1. TypeInv => SlotsAccounted
  BY DEF TypeInv
<1>2. QED
  BY <1>1, Typing, PTL

-----------------------------------------------------------------------------

\* How far the row, the task and the controller may be apart: a task waiting
\* for its slot has a row that is queued or already cancelled, and whatever
\* executes belongs to a run whose row was once marked running.
Progress ==
    \A r \in Runs :
        /\ task[r] \in {"created", "waiting", "begin"} => row[r] \in {"queued", "cancelled"}
        /\ task[r] = "prepare" => row[r] \in {"running", "cancelled"}
        /\ r \in startedAt => row[r] \notin {"absent", "queued"}
        /\ \/ task[r] \in {"prepare", "call", "finish"}
           \/ node[r] # "idle"
           \/ r \in containers
           => r \in startedAt

\* Before the API serves, nothing runs, and once recover() has committed no
\* run is left open.
QuietWhenDown ==
    /\ ~Serving => \A r \in Runs : task[r] = "none" /\ node[r] = "idle"
    /\ phase = "cleanup" => \A r \in Runs : ~Open(r)

\* The controller works for a task that awaits it, or for a run already over.
NodeAttended ==
    \A r \in Runs : node[r] # "idle" =>
        task[r] \in {"call", "finish", "fail"} \/ Terminal(r) \/ r \in failed

LEMMA FinishTypes ==
    ASSUME TypeInv, NEW r \in Runs, task[r] \in {"finish", "fail"}
    PROVE  FinalStatus(r) \in TERMINAL_RUNS
BY FinalStatusIsTerminal DEF TypeInv, TypeOK

LEMMA StepKeepsProgress ==
    ASSUME TypeInv, Progress, QuietWhenDown, [Next]_vars
    PROVE  Progress' /\ QuietWhenDown'
<1> USE DEF TypeInv, TypeOK, Progress, QuietWhenDown, Serving, durable, docker
<1>1. ASSUME NEW r \in Runs, RequestStep(r) PROVE Progress' /\ QuietWhenDown'
  <2>1. CASE Create(r)
    BY <2>1 DEF Create, Store, Applied, CommitOutcome, TaskHasRow
  <2>2. CASE Schedule(r)
    BY <2>2 DEF Schedule
  <2>3. CASE Cancel(r)
    BY <2>3 DEF Cancel, Cancellable, Store, Open
  <2>4. CASE CancelDelivered(r)
    BY <2>4 DEF CancelDelivered, Reaches, Executing, Cancelling
  <2>5. CASE CancelTimesOut(r)
    BY <2>5 DEF CancelTimesOut
  <2>6. QED
    BY <1>1, <2>1, <2>2, <2>3, <2>4, <2>5 DEF RequestStep
<1>2. ASSUME NEW r \in Runs, TaskStep(r) PROVE Progress' /\ QuietWhenDown'
  <2>1. CASE Acquire(r)
    BY <2>1 DEF Acquire
  <2>2. CASE BeginTerminal(r)
    BY <2>2 DEF BeginTerminal, Release
  <2>3. CASE BeginRunning(r)
    <3>1. \/ /\ row' = [row EXCEPT ![r] = "running"] /\ startedAt' = startedAt \cup {r}
             /\ \E p \in {"prepare", "fail"} : task' = [task EXCEPT ![r] = p]
          \/ row' = row /\ startedAt' = startedAt /\ task' = [task EXCEPT ![r] = "fail"]
      BY <2>3 DEF BeginRunning, Applied
    <3>2. QED
      BY <2>3, <3>1 DEF BeginRunning
  <2>4. CASE Prepare(r)
    BY <2>4 DEF Prepare, IsLost, Reaches
  <2>5. CASE Finish(r)
    <3>1. FinalStatus(r) \in TERMINAL_RUNS
      BY <2>5, FinishTypes DEF Finish
    <3>2. task' = [task EXCEPT ![r] = "none"] \/ task' = [task EXCEPT ![r] = "fail"]
      BY <2>5 DEF Finish, Release, Raises
    <3>3. row' = row \/ row' = [row EXCEPT ![r] = FinalStatus(r)]
      BY <2>5 DEF Finish, Store
    <3>4. QED
      BY <2>5, <3>1, <3>2, <3>3 DEF Finish, TERMINAL_RUNS
  <2>6. CASE FinishRefused(r)
    BY <2>6 DEF FinishRefused, Raises, Release
  <2>7. CASE CallTimesOut(r)
    BY <2>7 DEF CallTimesOut
  <2>8. CASE ReadAnswer(r)
    BY <2>8 DEF ReadAnswer, Answered
  <2>9. QED
    BY <1>2, <2>1, <2>2, <2>3, <2>4, <2>5, <2>6, <2>7, <2>8 DEF TaskStep
<1>3. ASSUME NEW r \in Runs, NodeStep(r) PROVE Progress' /\ QuietWhenDown'
  <2>1. CASE NodeRejects(r)
    BY <2>1 DEF NodeRejects
  <2>2. CASE NodeStarts(r)
    BY <2>2 DEF NodeStarts
  <2>3. CASE TimerFires(r)
    BY <2>3 DEF TimerFires
  <2>4. CASE NodeCompletes(r)
    <3>1. /\ containers' \subseteq containers /\ node' = [node EXCEPT ![r] = "idle"]
          /\ node[r] # "idle"
      BY <2>4 DEF NodeCompletes, Executing, Cancelling
    <3>2. QED
      BY <2>4, <3>1 DEF NodeCompletes
  <2>5. CASE NodeCloseCancels(r)
    BY <2>5 DEF NodeCloseCancels
  <2>6. QED
    BY <1>3, <2>1, <2>2, <2>3, <2>4, <2>5 DEF NodeStep
<1>4. CASE ProcessStep
  <2>1. CASE ControllerExits \/ ReaderEnds \/ ReaderBreaks
    BY <2>1 DEF ControllerExits, ReaderEnds, ReaderBreaks, FailsPending
  <2>2. CASE Crash
    BY <2>2 DEF Crash, ProcessEnds
  <2>3. CASE CloseBegins
    BY <2>3 DEF CloseBegins
  <2>4. CASE CloseRuntime
    BY <2>4 DEF CloseRuntime, FailsPending
  <2>5. CASE CloseDone
    BY <2>5 DEF CloseDone, ProcessEnds
  <2>6. CASE Recover
    BY <2>6 DEF Recover, Interrupted, Open
  <2>7. CASE Cleanup
    BY <2>7 DEF Cleanup
  <2>8. QED
    BY <1>4, <2>1, <2>2, <2>3, <2>4, <2>5, <2>6, <2>7 DEF ProcessStep
<1>5. CASE AtRest \/ UNCHANGED vars
  BY <1>5 DEF AtRest, vars, Open
<1>6. QED
  BY <1>1, <1>2, <1>3, <1>4, <1>5 DEF Next

THEOREM ProgressHolds == Spec => [](Progress /\ QuietWhenDown)
<1>1. Init => Progress /\ QuietWhenDown
  BY DEF Init, Progress, QuietWhenDown, Serving, Open
<1>2. TypeInv /\ Progress /\ QuietWhenDown /\ [Next]_vars => Progress' /\ QuietWhenDown'
  BY StepKeepsProgress
<1>3. QED
  BY <1>1, <1>2, Typing, PTL DEF Spec

\* A run cancelled while still queued never reaches the controller, however
\* late its task gets a slot and whatever fails in between.
THEOREM CancelledRunsStayOut == Spec => CancelledWhileQueuedNeverRuns
<1> DEFINE Stays == \A r \in Runs : row[r] = "cancelled" /\ r \notin startedAt =>
                        r \notin startedAt' /\ r \notin containers' /\ node'[r] = "idle"
<1>1. TypeInv /\ Progress /\ QuietWhenDown /\ Progress' /\ QuietWhenDown' /\ [Next]_vars => Stays
  <2> SUFFICES ASSUME TypeInv, Progress, Progress', [Next]_vars,
                      NEW r \in Runs, row[r] = "cancelled", r \notin startedAt
               PROVE  r \notin startedAt'
    BY DEF Progress
  <2>1. ASSUME NEW q \in Runs, TaskStep(q) PROVE r \notin startedAt'
    BY <2>1 DEF TaskStep, Acquire, BeginTerminal, BeginRunning, Prepare, Finish, FinishRefused,
                CallTimesOut, ReadAnswer, durable, AlreadyOver, Terminal, TERMINAL_RUNS
  <2>2. ASSUME NEW q \in Runs, RequestStep(q) \/ NodeStep(q) PROVE r \notin startedAt'
    BY <2>2 DEF RequestStep, Create, Schedule, Cancel, CancelDelivered, CancelTimesOut, NodeStep,
                NodeRejects, NodeStarts, TimerFires, NodeCompletes, NodeCloseCancels, durable
  <2>3. CASE ProcessStep \/ AtRest \/ UNCHANGED vars
    BY <2>3 DEF ProcessStep, ControllerExits, ReaderEnds, ReaderBreaks, Crash, CloseBegins,
                CloseRuntime, CloseDone, Recover, Cleanup, AtRest, vars, durable
  <2>4. QED
    BY <2>1, <2>2, <2>3 DEF Next
<1>2. QED
  BY <1>1, Typing, ProgressHolds, PTL DEF Spec, CancelledWhileQueuedNeverRuns

-----------------------------------------------------------------------------

\* A controller that has exited executes nothing.
ExitedIsIdle == bridge # "up" => \A r \in Runs : node[r] = "idle"

\* Who looks after an open run, a busy controller and a container.
Attended == NoSilentOrphan /\ NodeAttended /\ ExitedIsIdle /\ UnmanagedContainersAreOver

LEMMA StepKeepsAttended ==
    ASSUME TypeInv, Progress, QuietWhenDown, Attended, [Next]_vars
    PROVE  Attended'
<1> USE DEF TypeInv, TypeOK, Attended, NoSilentOrphan, NodeAttended, UnmanagedContainersAreOver
<1> USE DEF ExitedIsIdle, AboutToLearn, Answered, Serving, Open, Terminal, durable, docker, runtime
<1>1. ASSUME NEW r \in Runs, RequestStep(r) PROVE Attended'
  <2>1. CASE Create(r)
    BY <2>1 DEF Create, Store, Applied, CommitOutcome, Progress, TERMINAL_RUNS
  <2>2. CASE Schedule(r)
    BY <2>2 DEF Schedule
  <2>3. CASE Cancel(r)
    BY <2>3 DEF Cancel, Cancellable, Store, TERMINAL_RUNS
  <2>4. CASE CancelDelivered(r)
    BY <2>4 DEF CancelDelivered, Reaches, Executing, Cancelling
  <2>5. CASE CancelTimesOut(r)
    BY <2>5 DEF CancelTimesOut
  <2>6. QED
    BY <1>1, <2>1, <2>2, <2>3, <2>4, <2>5 DEF RequestStep
<1>2. ASSUME NEW r \in Runs, TaskStep(r) PROVE Attended'
  <2>1. CASE Acquire(r)
    BY <2>1 DEF Acquire
  <2>2. CASE BeginTerminal(r)
    BY <2>2 DEF BeginTerminal, Release, AlreadyOver, TERMINAL_RUNS
  <2>3. CASE BeginRunning(r)
    BY <2>3 DEF BeginRunning, AlreadyOver
  <2>4. CASE Prepare(r)
    BY <2>4 DEF Prepare, IsLost, Reaches, Executing, Cancelling
  <2>5. CASE Finish(r)
    <3>1. FinalStatus(r) \in TERMINAL_RUNS
      BY <2>5, FinishTypes DEF Finish
    <3>2. \/ /\ row' = [row EXCEPT ![r] = FinalStatus(r)]
             /\ failed' = failed /\ task' = [task EXCEPT ![r] = "none"]
          \/ /\ row' = row \/ row' = [row EXCEPT ![r] = FinalStatus(r)]
             /\ \/ failed' = failed /\ task' = [task EXCEPT ![r] = "fail"]
                \/ failed' = failed \cup {r} /\ task' = [task EXCEPT ![r] = "none"]
      BY <2>5 DEF Finish, Store, Applied, Release, Raises
    <3>3. QED
      BY <2>5, <3>1, <3>2 DEF Finish, TERMINAL_RUNS
  <2>6. CASE FinishRefused(r)
    BY <2>6 DEF FinishRefused, Raises, Release
  <2>7. CASE CallTimesOut(r)
    BY <2>7 DEF CallTimesOut
  <2>8. CASE ReadAnswer(r)
    BY <2>8 DEF ReadAnswer, Answered
  <2>9. QED
    BY <1>2, <2>1, <2>2, <2>3, <2>4, <2>5, <2>6, <2>7, <2>8 DEF TaskStep
<1>3. ASSUME NEW r \in Runs, NodeStep(r) PROVE Attended'
  <2>1. CASE NodeRejects(r)
    BY <2>1 DEF NodeRejects, Answers, Executing, Cancelling
  <2>2. CASE NodeStarts(r)
    BY <2>2 DEF NodeStarts, Executing
  <2>3. CASE TimerFires(r)
    BY <2>3 DEF TimerFires, Executing, Cancelling
  <2>4. CASE NodeCompletes(r)
    <3>1. PICK status \in TERMINAL_RUNS \cup {"exception"} : Answers(r, status)
      BY <2>4 DEF NodeCompletes, Cancelling, TERMINAL_RUNS
    <3>2. /\ \A q \in Runs \ {r} : result'[q] = result[q]
          /\ task[r] = "call" => result'[r] # "none"
      BY <3>1 DEF Answers, TERMINAL_RUNS
    <3>3. /\ containers' \subseteq containers /\ node' = [node EXCEPT ![r] = "idle"]
          /\ node[r] # "idle"
      BY <2>4 DEF NodeCompletes, Executing, Cancelling
    <3>4. QED
      BY <2>4, <3>2, <3>3 DEF NodeCompletes
  <2>5. CASE NodeCloseCancels(r)
    BY <2>5 DEF NodeCloseCancels, Executing, Cancelling
  <2>6. QED
    BY <1>3, <2>1, <2>2, <2>3, <2>4, <2>5 DEF NodeStep
<1>4. CASE ProcessStep
  <2>1. CASE ControllerExits \/ ReaderEnds \/ ReaderBreaks
    <3>1. CASE ControllerExits
      BY <3>1 DEF ControllerExits
    <3>2. CASE ReaderEnds
      BY <3>2 DEF ReaderEnds, FailsPending
    <3>3. CASE ReaderBreaks
      BY <3>3 DEF ReaderBreaks, FailsPending
    <3>4. QED
      BY <2>1, <3>1, <3>2, <3>3
  <2>2. CASE Crash
    BY <2>2 DEF Crash, ProcessEnds
  <2>3. CASE CloseBegins
    BY <2>3 DEF CloseBegins
  <2>4. CASE CloseRuntime
    BY <2>4 DEF CloseRuntime, FailsPending
  <2>5. CASE CloseDone
    BY <2>5 DEF CloseDone, ProcessEnds
  <2>6. CASE Recover
    BY <2>6 DEF Recover, QuietWhenDown
  <2>7. CASE Cleanup
    BY <2>7 DEF Cleanup, QuietWhenDown, Progress, RunStatus
  <2>8. QED
    BY <1>4, <2>1, <2>2, <2>3, <2>4, <2>5, <2>6, <2>7 DEF ProcessStep
<1>5. CASE AtRest \/ UNCHANGED vars
  BY <1>5 DEF AtRest, vars
<1>6. QED
  BY <1>1, <1>2, <1>3, <1>4, <1>5 DEF Next

THEOREM AttendedHolds == Spec => []Attended
<1>1. Init => Attended
  BY DEF Init, Attended, NoSilentOrphan, NodeAttended, ExitedIsIdle, UnmanagedContainersAreOver, Open
<1>2. TypeInv /\ Progress /\ QuietWhenDown /\ Attended /\ [Next]_vars => Attended'
  BY StepKeepsAttended
<1>3. QED
  BY <1>1, <1>2, Typing, ProgressHolds, PTL DEF Spec

\* A run shown as queued or running always has a task that will end it, or
\* its loss was reported; recovery leaves none behind.
THEOREM NoOrphans == Spec => []NoSilentOrphan
<1>1. Attended => NoSilentOrphan
  BY DEF Attended
<1>2. QED
  BY <1>1, AttendedHolds, PTL

\* A container no controller looks after belongs to a run that is over, about
\* to be recorded as over or reported lost, or its task is about to learn of
\* it: of any number of losses, and of fresh controllers in between, none
\* leaves a task waiting for a container until its timeout.
THEOREM LostContainersAreOver == Spec => []UnmanagedContainersAreOver
<1>1. Attended => UnmanagedContainersAreOver
  BY DEF Attended
<1>2. QED
  BY <1>1, AttendedHolds, PTL

-----------------------------------------------------------------------------
(* The refinement: every step moves each run as RunLifecycle allows.       *)

Moves(r) == \/ Lifecycle!Queues(r) \/ Lifecycle!Starts(r) \/ Lifecycle!Announces(r)
            \/ Lifecycle!Closes(r) \/ Lifecycle!Rests(r)

\* RunLifecycle extends Domain on its own: the two copies agree.
LEMMA SameVocabulary ==
    /\ Lifecycle!TERMINAL_RUNS = TERMINAL_RUNS
    /\ Lifecycle!RunStatus = RunStatus
    /\ Lifecycle!RunEvent = RunEvent
    /\ Lifecycle!RUN_TRANSITIONS = RUN_TRANSITIONS
    /\ \A type, status : Lifecycle!Event(type, status) = Event(type, status)
    /\ \A table, old, new : Lifecycle!Allowed(table, old, new) <=> Allowed(table, old, new)
BY DEF Lifecycle!TERMINAL_RUNS, TERMINAL_RUNS, Lifecycle!RunStatus, RunStatus,
       Lifecycle!RunEvent, RunEvent, Lifecycle!RUN_TRANSITIONS, RUN_TRANSITIONS,
       Lifecycle!Event, Event, Lifecycle!Allowed, Allowed

\* An open run may be cancelled and may turn into an error.
LEMMA OpenMayEnd ==
    ASSUME NEW s \in {"queued", "running"}, NEW e \in {"cancelled", "error"}
    PROVE  e \in TERMINAL_RUNS /\ Allowed(RUN_TRANSITIONS, s, e)
BY DEF Allowed, RUN_TRANSITIONS, RunStatus, TERMINAL_RUNS

\* Only one run's row or events change: every other run rests.
LEMMA OthersRest ==
    ASSUME TypeOK, NEW r \in Runs, Moves(r), NEW s, NEW E,
           row' = row \/ row' = [row EXCEPT ![r] = s],
           published' = published \/ published' = [published EXCEPT ![r] = E]
    PROVE  \A q \in Runs : Moves(q)
BY DEF TypeOK, Moves, Lifecycle!Rests

LEMMA StepMovesRows ==
    ASSUME TypeInv, Progress, QuietWhenDown, [Next]_vars
    PROVE  \A q \in Runs : Moves(q)
<1> USE DEF TypeInv, TypeOK, durable
<1>1. ASSUME NEW r \in Runs, RequestStep(r) PROVE \A q \in Runs : Moves(q)
  <2>1. CASE Create(r)
    <3>1. Lifecycle!Queues(r)
      BY <2>1, SameVocabulary DEF Create, Store, Applied, CommitOutcome, Lifecycle!Queues, Lifecycle!Publishes
    <3>2. QED
      BY <2>1, <3>1, OthersRest DEF Create, Store, Moves
  <2>2. CASE Cancel(r)
    <3>1. row'[r] = "cancelled" /\ Lifecycle!Publishes(r, Event("run.cancelled", "cancelled"))
      BY <2>2 DEF Cancel, Store, Applied, CommitOutcome, Lifecycle!Publishes
    <3>2. row[r] \in {"queued", "running"}
      BY <2>2 DEF Cancel, Cancellable, Open
    <3>3. Lifecycle!Closes(r)
      BY <3>1, <3>2, OpenMayEnd, SameVocabulary DEF Lifecycle!Closes
    <3>4. QED
      BY <2>2, <3>3, OthersRest DEF Cancel, Store, Moves
  <2>3. CASE Schedule(r) \/ CancelDelivered(r) \/ CancelTimesOut(r)
    BY <2>3 DEF Schedule, CancelDelivered, CancelTimesOut, Moves, Lifecycle!Rests
  <2>4. QED
    BY <1>1, <2>1, <2>2, <2>3 DEF RequestStep
<1>2. ASSUME NEW r \in Runs, TaskStep(r) PROVE \A q \in Runs : Moves(q)
  <2>1. CASE BeginRunning(r)
    <3>1. row[r] = "queued"
      BY <2>1 DEF BeginRunning, AlreadyOver, Terminal, TERMINAL_RUNS, Progress
    <3>2. Lifecycle!Starts(r) \/ Lifecycle!Rests(r)
      BY <2>1, <3>1 DEF BeginRunning, Lifecycle!Starts, Lifecycle!Rests
    <3>3. QED
      BY <2>1, <3>2, OthersRest DEF BeginRunning, Moves
  <2>2. CASE Prepare(r)
    <3>1. row[r] \in {"running", "cancelled"}
      BY <2>2 DEF Prepare, Progress
    <3>2. Lifecycle!Announces(r) \/ Lifecycle!Rests(r)
      BY <2>2, <3>1, SameVocabulary DEF Prepare, Lifecycle!Announces, Lifecycle!Rests, Lifecycle!Publishes
    <3>3. QED
      BY <2>2, <3>2, OthersRest DEF Prepare, Moves
  <2>3. CASE Finish(r)
    <3>1. FinalStatus(r) \in TERMINAL_RUNS
      BY <2>3, FinishTypes DEF Finish
    <3>2. row[r] # "absent"
      BY <2>3 DEF Finish, TaskHasRow
    <3>3. Allowed(RUN_TRANSITIONS, row[r], FinalStatus(r))
      BY <2>3 DEF Finish
    <3>4. \/ row' = row /\ published' = published
          \/ /\ row' = [row EXCEPT ![r] = FinalStatus(r)]
             /\ published' = [published EXCEPT ![r] = @ \cup {Event("run.finished", FinalStatus(r))}]
      BY <2>3 DEF Finish, Store
    <3>5. Lifecycle!Closes(r) \/ Lifecycle!Rests(r)
      BY <3>1, <3>2, <3>3, <3>4, SameVocabulary DEF Lifecycle!Closes, Lifecycle!Rests, Lifecycle!Publishes
    <3>6. QED
      BY <3>4, <3>5, OthersRest DEF Moves
  <2>4. CASE Acquire(r) \/ BeginTerminal(r) \/ FinishRefused(r) \/ CallTimesOut(r) \/ ReadAnswer(r)
    BY <2>4 DEF Acquire, BeginTerminal, FinishRefused, CallTimesOut, ReadAnswer, Moves, Lifecycle!Rests
  <2>5. QED
    BY <1>2, <2>1, <2>2, <2>3, <2>4 DEF TaskStep
<1>3. ASSUME NEW r \in Runs, NodeStep(r) PROVE \A q \in Runs : Moves(q)
  BY <1>3 DEF NodeStep, NodeRejects, NodeStarts, TimerFires, NodeCompletes, NodeCloseCancels,
              Moves, Lifecycle!Rests
<1>4. CASE Recover
  <2>1. ASSUME NEW q \in Interrupted PROVE Lifecycle!Closes(q)
    <3>1. q \in Runs /\ row[q] \in {"queued", "running"}
      BY <2>1 DEF Interrupted, Open
    <3>2. row'[q] = "error" /\ Lifecycle!Publishes(q, Event("run.error", "error"))
      BY <1>4, <2>1, <3>1 DEF Recover, Lifecycle!Publishes
    <3>3. QED
      BY <3>1, <3>2, OpenMayEnd, SameVocabulary DEF Lifecycle!Closes
  <2>2. ASSUME NEW q \in Runs \ Interrupted PROVE Lifecycle!Rests(q)
    BY <1>4, <2>2 DEF Recover, Lifecycle!Rests
  <2>3. QED
    BY <2>1, <2>2 DEF Moves
<1>5. CASE \/ ControllerExits \/ ReaderEnds \/ ReaderBreaks \/ Crash
           \/ CloseBegins \/ CloseRuntime \/ CloseDone \/ Cleanup \/ AtRest \/ UNCHANGED vars
  BY <1>5 DEF ControllerExits, ReaderEnds, ReaderBreaks, Crash, CloseBegins, CloseRuntime, CloseDone,
              Cleanup, AtRest, vars, Moves, Lifecycle!Rests
<1>6. QED
  BY <1>1, <1>2, <1>3, <1>4, <1>5 DEF Next, ProcessStep

\* The jobs implement the lifecycle clients rely on, through every failed
\* commit, lost controller, crash, restart and shutdown.
THEOREM JobsImplementLifecycle == Spec => ImplementsLifecycle
<1>1. Init => Lifecycle!Init
  BY DEF Init, Lifecycle!Init
<1>2. TypeInv /\ TypeInv' /\ Progress /\ QuietWhenDown /\ [Next]_vars
        => [Lifecycle!Next]_(Lifecycle!lifecycleVars)
  <2> SUFFICES ASSUME TypeInv, TypeInv', Progress, QuietWhenDown, [Next]_vars
               PROVE  Lifecycle!Next
    OBVIOUS
  <2>1. \A q \in Runs : Moves(q)
    BY StepMovesRows
  <2>2. QED
    BY <2>1, SameVocabulary DEF Moves, Lifecycle!Next, TypeInv, TypeOK
<1>3. QED
  BY <1>1, <1>2, Typing, ProgressHolds, PTL DEF Spec, ImplementsLifecycle, Lifecycle!Spec

\* A final status may only be written again.
LEMMA TerminalIsFinal ==
    ASSUME NEW s \in TERMINAL_RUNS, NEW e, Allowed(RUN_TRANSITIONS, s, e)
    PROVE  e = s
BY DEF Allowed, RUN_TRANSITIONS, RunStatus, TERMINAL_RUNS

\* The closing events follow from the lifecycle's moves alone.
LEMMA MovesKeepAgreement ==
    ASSUME TypeOK, ClosingEventsAgree, \A q \in Runs : Moves(q)
    PROVE  ClosingEventsAgree'
<1> SUFFICES ASSUME NEW r \in Runs
             PROVE  /\ Terminal(r)' <=> \E e \in published'[r] : e.status \in TERMINAL_RUNS
                    /\ \A e \in published'[r] : e.status \in TERMINAL_RUNS => e.status = row'[r]
  BY DEF ClosingEventsAgree
<1> USE SameVocabulary DEF Lifecycle!Publishes, Terminal
<1>1. /\ row[r] \in TERMINAL_RUNS <=> \E e \in published[r] : e.status \in TERMINAL_RUNS
      /\ \A e \in published[r] : e.status \in TERMINAL_RUNS => e.status = row[r]
  BY DEF ClosingEventsAgree
<1>2. \A type, status : Event(type, status).status = status
  BY DEF Event
<1>3. \A s \in {"absent", "queued", "running"} : s \notin TERMINAL_RUNS
  BY DEF TERMINAL_RUNS
<1>4. CASE Lifecycle!Queues(r)
  BY <1>1, <1>2, <1>3, <1>4 DEF Lifecycle!Queues
<1>5. CASE Lifecycle!Starts(r) \/ Lifecycle!Rests(r)
  BY <1>1, <1>3, <1>5 DEF Lifecycle!Starts, Lifecycle!Rests
<1>6. CASE Lifecycle!Announces(r)
  BY <1>1, <1>2, <1>3, <1>6 DEF Lifecycle!Announces
<1>7. CASE Lifecycle!Closes(r)
  <2>1. row'[r] \in TERMINAL_RUNS /\ Allowed(RUN_TRANSITIONS, row[r], row'[r])
    BY <1>7 DEF Lifecycle!Closes
  <2>2. PICK type : published'[r] = published[r] \cup {Event(type, row'[r])}
    BY <1>7 DEF Lifecycle!Closes
  <2>3. row[r] \in TERMINAL_RUNS => row'[r] = row[r]
    BY <2>1, TerminalIsFinal
  <2>4. QED
    BY <1>1, <1>2, <2>1, <2>2, <2>3
<1>8. QED
  BY <1>4, <1>5, <1>6, <1>7 DEF Moves

\* The events of a run never contradict its row about how it ended.
THEOREM ClosingEventsHold == Spec => []ClosingEventsAgree
<1>1. Init => ClosingEventsAgree
  BY DEF Init, ClosingEventsAgree, Terminal, TERMINAL_RUNS
<1>2. TypeInv /\ Progress /\ QuietWhenDown /\ ClosingEventsAgree /\ [Next]_vars
        => ClosingEventsAgree'
  BY StepMovesRows, MovesKeepAgreement DEF TypeInv
<1>3. QED
  BY <1>1, <1>2, Typing, ProgressHolds, PTL DEF Spec

\* How a run ended is decided once.
TerminalStays == [][\A r \in Runs : Terminal(r) => row'[r] = row[r]]_vars

\* Whatever a controller still carries out after a cancel, a timeout or a
\* restart, and whatever tasks, retries and recovery write, a run that has
\* ended keeps the status it ended with (update_resource).
THEOREM EndedRunsKeepTheirStatus == Spec => TerminalStays
<1>1. TypeInv /\ Progress /\ QuietWhenDown /\ [Next]_vars
        => [\A r \in Runs : Terminal(r) => row'[r] = row[r]]_vars
  <2> SUFFICES ASSUME TypeInv, Progress, QuietWhenDown, [Next]_vars, NEW r \in Runs, Terminal(r)
               PROVE  row'[r] = row[r]
    OBVIOUS
  <2>1. Moves(r)
    BY StepMovesRows
  <2>2. row[r] \notin {"absent", "queued"}
    BY DEF Terminal, TERMINAL_RUNS
  <2>3. CASE Lifecycle!Closes(r)
    BY <2>3, SameVocabulary, TerminalIsFinal DEF Lifecycle!Closes, Terminal
  <2>4. QED
    BY <2>1, <2>2, <2>3 DEF Moves, Lifecycle!Queues, Lifecycle!Starts, Lifecycle!Announces,
                            Lifecycle!Rests
<1>2. QED
  BY <1>1, Typing, ProgressHolds, PTL DEF Spec, TerminalStays

=============================================================================
