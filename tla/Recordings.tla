----------------------------- MODULE Recordings -----------------------------
(***************************************************************************)
(* The recordings of one user: services/recordings.py, the routes that     *)
(* stop and save them, the sweeper that stops the expired ones, and the    *)
(* sessions of the Node controller's DockerRecorder behind them.           *)
(*                                                                         *)
(* Actions and commits are cut as in RunJobs: one action per transaction   *)
(* under the row lock, per reply of the controller, per await.  The code   *)
(* of a recording is a number that grows as the user acts in the browser;  *)
(* 0 is the empty code.                                                    *)
(***************************************************************************)
EXTENDS Domain, Integers, FiniteSets

CONSTANTS Recordings,           \* the recording rows that may be created
          Requests,             \* concurrent stop or save requests
          MaxRecordingsPerUser, \* Settings.max_recordings_per_user
          MaxCode,              \* bound: how often the code grows
          MaxRestarts,          \* bound: restarts of the API process
          MaxControllerLosses,  \* bound: deaths of the controller by themselves
          MaxFaults             \* bound: failed commits, calls and browsers

Sweeper  == "sweeper"           \* the task of expire_recordings
Nobody   == "nobody"
Stoppers == Requests \cup {Sweeper}
Codes    == 0..MaxCode

ASSUME RecordingsAssumption == /\ MaxRecordingsPerUser \in Nat \ {0}
                               /\ Sweeper \notin Requests
                               /\ MaxCode \in Nat
                               /\ MaxRestarts \in Nat
                               /\ MaxControllerLosses \in Nat
                               /\ MaxFaults \in Nat

VARIABLES
    \* PostgreSQL
    status,    \* body["status"] of each recording's row, or "absent"
    code,      \* body["code"]
    saved,     \* the codes of the versions save_recording made from it
    expired,   \* recordings past body["expiresAt"]
    \* the API process
    counting,  \* create requests that have counting and hold the user's lock
    starter,   \* where the start_recording task is
    flusher,   \* where the flush_and_publish task is
    poll,      \* where a get_recording request is
    polled,    \* the code it has read
    stop,      \* where a stop or save request, or the sweeper, is
    lost,      \* recordings whose commit went unacknowledged to their request
    \* the Node controller
    session,   \* the recorder session of each recording
    written,   \* the code codegen has written; final once the session is stopped
    \* bounded environment
    restarts, losses, faults

table   == <<status, code, saved, expired>>
tasks   == <<counting, starter, flusher, lost>>
polls   == <<poll, polled>>
node    == <<session, written>>
budgets == <<restarts, losses, faults>>
vars    == <<table, tasks, polls, stop, node, budgets>>

\* "created": the row is committed, Jobs.track not yet called; "open": the
\* vault and the directory; "call": awaiting recording_start; "publish" and
\* "fail": storing the outcome; "done" and "raised": how the task ended.  A
\* session is "stopping" from session.stopped = true until codegen's last
\* output is read.
StarterState == {"none", "created", "open", "call", "publish", "fail", "done", "raised"}
FlusherState == {"none", "call", "publish", "fail", "done", "raised"}
PollState    == {"idle", "reading", "target", "apply", "broken"}
SessionState == {"none", "initializing", "up", "stopping", "stopped"}

StopState    == [at : {"idle", "joining", "flushing", "dead"},
                 on : Recordings \cup {Nobody}, save : BOOLEAN]

Idle == [at |-> "idle", on |-> Nobody, save |-> FALSE]
\* The sweeper, after an exception over recording r: a task nobody awaits
\* before the lifespan ends (main.py), and whose exception nobody reports.
DeadOn(r) == [at |-> "dead", on |-> r, save |-> FALSE]

Active(r)   == status[r] \in {"starting", "ready", "stopping"}
ActiveCount == Cardinality({r \in Recordings : Active(r)})

CommitOutcome == {"ok", "failed", "unacknowledged"}

\* One commit with outcome o; all outcomes but "ok" use the fault budget.
Commits(o) == /\ o = "ok" \/ faults < MaxFaults
              /\ faults' = IF o = "ok" THEN faults ELSE faults + 1
Applied(o) == o # "failed"
Fails      == faults < MaxFaults /\ faults' = faults + 1

Store(r, o, s) == status' = IF Applied(o) THEN [status EXCEPT ![r] = s] ELSE status

Init ==
    /\ status = [r \in Recordings |-> "absent"]
    /\ code = [r \in Recordings |-> 0]
    /\ saved = [r \in Recordings |-> {}]
    /\ expired = {}
    /\ counting = {}
    /\ starter = [r \in Recordings |-> "none"]
    /\ flusher = [r \in Recordings |-> "none"]
    /\ poll = [r \in Recordings |-> "idle"]
    /\ polled = [r \in Recordings |-> 0]
    /\ stop = [p \in Stoppers |-> Idle]
    /\ lost = {}
    /\ session = [r \in Recordings |-> "none"]
    /\ written = [r \in Recordings |-> 0]
    /\ restarts = 0 /\ losses = 0 /\ faults = 0

-----------------------------------------------------------------------------
(* create_recording and start_recording                                    *)

\* Mutant: create_recording counts without locking the user's row.
UserUnlocked == TRUE

\* The user's row is locked from the count to the commit.
UserLockFree == counting = {}

CountActive(r) ==
    /\ status[r] = "absent" /\ r \notin counting /\ UserLockFree
    /\ ActiveCount < MaxRecordingsPerUser    \* else RECORDING_LIMIT, lock released
    /\ counting' = counting \cup {r}
    /\ UNCHANGED <<table, starter, flusher, lost, polls, stop, node, budgets>>

\* When the acknowledgement is lost the request fails and nobody starts it.
Create(r) ==
    /\ r \in counting
    /\ \E o \in CommitOutcome :
          /\ Commits(o)
          /\ Store(r, o, "starting")
          /\ starter' = IF o = "ok" THEN [starter EXCEPT ![r] = "created"] ELSE starter
          /\ lost' = IF o = "unacknowledged" THEN lost \cup {r} ELSE lost
    /\ counting' = counting \ {r}
    /\ UNCHANGED <<code, saved, expired, flusher, polls, stop, node, restarts, losses>>

Track(r) ==
    /\ starter[r] = "created"
    /\ starter' = [starter EXCEPT ![r] = "open"]
    /\ UNCHANGED <<table, counting, flusher, lost, polls, stop, node, budgets>>

\* The request reaches the controller, which refuses one already expired;
\* or the vault, the directory or the controller's process fails.
StartCall(r) ==
    /\ starter[r] = "open"
    /\ \/ /\ r \notin expired
          /\ starter' = [starter EXCEPT ![r] = "call"]
          /\ session' = [session EXCEPT ![r] = "initializing"]
          /\ UNCHANGED faults
       \/ /\ IF r \in expired THEN UNCHANGED faults ELSE Fails
          /\ starter' = [starter EXCEPT ![r] = "fail"]
          /\ UNCHANGED session
    /\ UNCHANGED <<table, counting, flusher, lost, polls, stop, written, restarts, losses>>

\* The reply of recording_start, if the task still waits for it.
Replied(r, next) == IF starter[r] = "call" THEN [starter EXCEPT ![r] = next] ELSE starter

NodeReady(r) ==
    /\ session[r] = "initializing"
    /\ session' = [session EXCEPT ![r] = "up"]
    /\ starter' = Replied(r, "publish")
    /\ UNCHANGED <<table, counting, flusher, lost, polls, stop, written, budgets>>

\* initialize() throws: the containers are removed, the session stays in
\* the map as a stopped one.
NodeStartFails(r) ==
    /\ session[r] = "initializing" /\ Fails
    /\ session' = [session EXCEPT ![r] = "stopped"]
    /\ starter' = Replied(r, "fail")
    /\ UNCHANGED <<table, counting, flusher, lost, polls, stop, written, restarts, losses>>

\* After 120 seconds the task gives up; the controller goes on.
StartTimesOut(r) ==
    /\ starter[r] = "call" /\ Fails
    /\ starter' = [starter EXCEPT ![r] = "fail"]
    /\ UNCHANGED <<table, counting, flusher, lost, polls, stop, node, restarts, losses>>

\* The other branch, a row no longer "starting", is never taken:
\* StartFindsStarting.
StartPublish(r) ==
    /\ starter[r] = "publish" /\ status[r] = "starting"
    /\ \E o \in CommitOutcome :
          /\ Commits(o)
          /\ Store(r, o, "ready")
          /\ starter' = [starter EXCEPT ![r] = IF o = "ok" THEN "done" ELSE "fail"]
    /\ UNCHANGED <<code, saved, expired, counting, flusher, lost, polls, stop, node, restarts, losses>>

\* The except clause of start_recording; an exception in it ends the task.
StartFail(r) ==
    /\ starter[r] = "fail"
    /\ \E o \in CommitOutcome :
          /\ Commits(o)
          /\ IF status[r] \in {"starting", "ready"} THEN Store(r, o, "error") ELSE UNCHANGED status
          /\ starter' = [starter EXCEPT ![r] = IF o = "ok" THEN "done" ELSE "raised"]
    /\ UNCHANGED <<code, saved, expired, counting, flusher, lost, polls, stop, node, restarts, losses>>

-----------------------------------------------------------------------------
(* finish_recording: stop and save requests and the sweeper                *)

\* Mutants: a recording not ready yet, or being stopped, is stopped.
StoppableEarly(r) == status[r] \in {"starting", "ready"}
StoppableTwice(r) == status[r] \in {"ready", "stopping"}

Stoppable(r) == status[r] = "ready"

\* Mutant: the code of a failed flush, read by an older poll, is saved.
SaveableAnyway(r) == status[r] \in TERMINAL_RECORDINGS /\ code[r] # 0

\* save_recording refuses what is not stopped, and an empty code.
Saveable(r) == status[r] = "stopped" /\ code[r] # 0

\* finish_recording has returned: a save request adds a version.
Delivers(r, save) ==
    IF save /\ Saveable(r)
    THEN \E o \in CommitOutcome :
            /\ Commits(o)
            /\ saved' = IF Applied(o) THEN [saved EXCEPT ![r] = @ \cup {code[r]}] ELSE saved
    ELSE UNCHANGED <<saved, faults>>

\* An exception over r ends a request with an error, and the sweeper for good.
Ended(p, r) == [stop EXCEPT ![p] = IF p = Sweeper THEN DeadOn(r) ELSE Idle]

\* Under the row lock, a ready recording turns stopping and one flush task
\* is started; anything else is left to whoever handles it.
FlushOrReturn(p, r, save) ==
    \/ /\ Stoppable(r)
       /\ \E o \in CommitOutcome :
             /\ Commits(o)
             /\ Store(r, o, "stopping")
             /\ flusher' = IF o = "ok" THEN [flusher EXCEPT ![r] = "call"] ELSE flusher
             /\ lost' = IF o = "unacknowledged" /\ p # Sweeper THEN lost \cup {r} ELSE lost
             /\ stop' = IF o = "ok" THEN [stop EXCEPT ![p] = [at |-> "flushing", on |-> r, save |-> save]]
                        ELSE Ended(p, r)
       /\ UNCHANGED saved
    \/ /\ ~Stoppable(r)
       /\ Delivers(r, save)
       /\ stop' = [stop EXCEPT ![p] = Idle]
       /\ UNCHANGED <<status, flusher, lost>>

\* A recording whose start is under way is first waited for.  Without a
\* task in Jobs.tasks this raises a KeyError.
StopBegin(p, r, save) ==
    /\ stop[p] = Idle /\ status[r] # "absent"
    /\ \/ /\ status[r] = "starting"
          /\ stop' = IF starter[r] \in {"none", "created", "raised"} THEN Ended(p, r)
                     ELSE [stop EXCEPT ![p] = [at |-> "joining", on |-> r, save |-> save]]
          /\ UNCHANGED <<status, saved, flusher, lost, faults>>
       \/ /\ status[r] # "starting" \/ Stoppable(r)
          /\ FlushOrReturn(p, r, save)
    /\ UNCHANGED <<code, expired, counting, starter, polls, node, restarts, losses>>

\* The start task has ended: the row is locked and read again, unless the
\* task raised.
Join(p, r, save) ==
    /\ stop[p] = [at |-> "joining", on |-> r, save |-> save]
    /\ \/ /\ starter[r] = "done" /\ FlushOrReturn(p, r, save)
       \/ /\ starter[r] = "raised" /\ stop' = Ended(p, r)
          /\ UNCHANGED <<status, saved, flusher, lost, faults>>
    /\ UNCHANGED <<code, expired, counting, starter, polls, node, restarts, losses>>

\* The flush task has ended; the row is refreshed unless it raised.
Settle(p, r, save) ==
    /\ stop[p] = [at |-> "flushing", on |-> r, save |-> save]
    /\ \/ flusher[r] = "done" /\ Delivers(r, save) /\ stop' = [stop EXCEPT ![p] = Idle]
       \/ flusher[r] = "raised" /\ stop' = Ended(p, r) /\ UNCHANGED <<saved, faults>>
    /\ UNCHANGED <<status, code, expired, tasks, polls, node, restarts, losses>>

\* The client disconnects: both awaits are shielded, the tasks go on.
Disconnect(p) ==
    /\ p # Sweeper /\ stop[p] # Idle
    /\ stop' = [stop EXCEPT ![p] = Idle]
    /\ UNCHANGED <<table, tasks, polls, node, budgets>>

\* Mutant: the sweeper does not look at the recordings in use.
DueStarting(r) == r \in expired /\ status[r] = "starting"

Due(r) == r \in expired /\ status[r] \in {"starting", "ready"}

Sweep(r)         == Due(r) /\ StopBegin(Sweeper, r, FALSE)
Request(p, r)    == \E save \in BOOLEAN : StopBegin(p, r, save)
Continue(p, r)   == \E save \in BOOLEAN : Join(p, r, save) \/ Settle(p, r, save)

\* recording_stop reaches the controller: the session counts as stopped from
\* here on.  One that is stopping or stopped already is not stopped again.
FlushBegins(r) ==
    /\ flusher[r] = "call" /\ session[r] = "up"
    /\ session' = [session EXCEPT ![r] = "stopping"]
    /\ UNCHANGED <<table, tasks, polls, stop, written, budgets>>

\* recording_stop answers with the final code.  Or the call fails: no such
\* session, code that cannot be bound, docker, the 60 seconds.
FlushReply(r) ==
    /\ flusher[r] = "call"
    /\ \/ /\ session[r] = "stopped"
          /\ flusher' = [flusher EXCEPT ![r] = "publish"] /\ UNCHANGED faults
       \/ /\ session[r] \in {"none", "stopping", "stopped"}
          /\ IF session[r] = "none" THEN UNCHANGED faults ELSE Fails
          /\ flusher' = [flusher EXCEPT ![r] = "fail"]
    /\ UNCHANGED <<table, counting, starter, lost, polls, stop, node, restarts, losses>>

\* Mutant: the failure of a flush is written with a status of runs.
FlushedAsRun(r) == IF flusher[r] = "publish" THEN "stopped" ELSE "failed"

FlushedStatus(r) == IF flusher[r] = "publish" THEN "stopped" ELSE "error"

\* The flush task's own transaction; an exception in it ends the task.
FlushPublish(r) ==
    /\ flusher[r] \in {"publish", "fail"} /\ status[r] = "stopping"
    /\ \E o \in CommitOutcome :
          /\ Commits(o)
          /\ Store(r, o, FlushedStatus(r))
          /\ code' = IF Applied(o) /\ flusher[r] = "publish" THEN [code EXCEPT ![r] = written[r]] ELSE code
          /\ flusher' = [flusher EXCEPT ![r] = IF o = "ok" THEN "done" ELSE "raised"]
    /\ UNCHANGED <<saved, expired, counting, starter, lost, polls, stop, node, restarts, losses>>

-----------------------------------------------------------------------------
(* The browser, the time and the session in the Node controller            *)

UserActs(r) ==
    /\ session[r] \in {"up", "stopping"} /\ written[r] < MaxCode
    /\ written' = [written EXCEPT ![r] = @ + 1]
    /\ UNCHANGED <<table, tasks, polls, stop, session, budgets>>

Expire(r) ==
    /\ Active(r) /\ r \notin expired
    /\ expired' = expired \cup {r}
    /\ UNCHANGED <<status, code, saved, tasks, polls, stop, node, budgets>>

\* The timer at expiresAt or the health monitor stops the session; the error
\* callback comes after recording_start has been answered, and is dropped.
SessionEnds(r) ==
    /\ session[r] = "up"
    /\ IF r \in expired THEN UNCHANGED faults ELSE Fails
    /\ session' = [session EXCEPT ![r] = "stopping"]
    /\ UNCHANGED <<table, tasks, polls, stop, written, restarts, losses>>

\* finish(): the containers are gone, codegen's file is read and kept.
SessionFlushes(r) ==
    /\ session[r] = "stopping"
    /\ session' = [session EXCEPT ![r] = "stopped"]
    /\ UNCHANGED <<table, tasks, polls, stop, written, budgets>>

\* Every call in flight fails; the sessions are forgotten.
ControllerDies ==
    /\ session' = [r \in Recordings |-> "none"]
    /\ starter' = [r \in Recordings |-> IF starter[r] = "call" THEN "fail" ELSE starter[r]]
    /\ flusher' = [r \in Recordings |-> IF flusher[r] = "call" THEN "fail" ELSE flusher[r]]
    /\ poll' = [r \in Recordings |-> IF poll[r] \in {"reading", "target"} THEN "broken" ELSE poll[r]]
    /\ UNCHANGED <<table, counting, lost, polled, stop, written, restarts, faults>>

ControllerLost ==
    /\ losses < MaxControllerLosses /\ losses' = losses + 1
    /\ \E r \in Recordings : session[r] # "none"
    /\ ControllerDies

-----------------------------------------------------------------------------
(* get_recording: the poll of a ready recording                            *)

PollBegin(r) ==
    /\ poll[r] = "idle" /\ status[r] = "ready"
    /\ poll' = [poll EXCEPT ![r] = "reading"]
    /\ UNCHANGED <<table, tasks, polled, stop, node, budgets>>

\* recording_read answers what codegen has written, or fails.
PollRead(r) ==
    /\ poll[r] = "reading"
    /\ \/ /\ session[r] # "none"
          /\ poll' = [poll EXCEPT ![r] = "target"]
          /\ polled' = [polled EXCEPT ![r] = written[r]]
          /\ UNCHANGED faults
       \/ /\ IF session[r] = "none" THEN UNCHANGED faults ELSE Fails
          /\ poll' = [poll EXCEPT ![r] = "broken"] /\ UNCHANGED polled
    /\ UNCHANGED <<table, tasks, stop, node, restarts, losses>>

PollTarget(r) ==
    /\ poll[r] = "target" /\ session[r] = "up"
    /\ poll' = [poll EXCEPT ![r] = "apply"]
    /\ UNCHANGED <<table, tasks, polled, stop, node, budgets>>

\* The target of a session that is stopping or stopped is undefined, which JSON leaves out: the
\* reader raises a KeyError for the missing result, and kills the controller.
PollTargetMissing(r) ==
    /\ poll[r] = "target" /\ session[r] \in {"stopping", "stopped"}
    /\ ControllerDies /\ UNCHANGED losses

\* Mutant: the row is not read again under the lock.
ReadyBefore(r) == TRUE

StillReady(r) == status[r] = "ready"

PollApply(r) ==
    /\ poll[r] \in {"apply", "broken"}
    /\ poll' = [poll EXCEPT ![r] = "idle"] /\ polled' = [polled EXCEPT ![r] = 0]
    /\ IF StillReady(r)
       THEN \E o \in CommitOutcome :
               /\ Commits(o)
               /\ IF poll[r] = "broken" THEN Store(r, o, "error") ELSE UNCHANGED status
               /\ code' = IF Applied(o) /\ poll[r] = "apply" THEN [code EXCEPT ![r] = polled[r]] ELSE code
       ELSE UNCHANGED <<status, code, faults>>
    /\ UNCHANGED <<saved, expired, tasks, stop, node, restarts, losses>>

-----------------------------------------------------------------------------

\* Mutant: recover() takes a recording being stopped for a finished one.
InterruptedOpen == {r \in Recordings : status[r] \in {"starting", "ready"}}

Interrupted == {r \in Recordings : Active(r)}

\* The process dies and is started again: recover() before any request.
Restart ==
    /\ restarts < MaxRestarts /\ restarts' = restarts + 1
    /\ status' = [r \in Recordings |-> IF r \in Interrupted THEN "error" ELSE status[r]]
    /\ counting' = {}
    /\ starter' = [r \in Recordings |-> "none"]
    /\ flusher' = [r \in Recordings |-> "none"]
    /\ poll' = [r \in Recordings |-> "idle"] /\ polled' = [r \in Recordings |-> 0]
    /\ stop' = [p \in Stoppers |-> Idle]
    /\ lost' = {}
    /\ session' = [r \in Recordings |-> "none"]
    /\ UNCHANGED <<code, saved, expired, written, losses, faults>>

\* Nothing is in flight: the server waits for requests.
AtRest == /\ \A r \in Recordings : /\ starter[r] \in {"none", "done", "raised"}
                                   /\ flusher[r] \in {"none", "done", "raised"}
                                   /\ r \notin counting /\ poll[r] = "idle"
                                   /\ session[r] # "stopping"
          /\ \A p \in Stoppers : stop[p].at \in {"idle", "dead"}
          /\ UNCHANGED vars

StartStep(r) == \/ CountActive(r) \/ Create(r) \/ Track(r) \/ StartCall(r)
                \/ StartTimesOut(r) \/ StartPublish(r) \/ StartFail(r)
StopStep(r)  == \/ \E p \in Requests : Request(p, r)
                \/ \E p \in Stoppers : Continue(p, r)
                \/ Sweep(r) \/ FlushBegins(r) \/ FlushReply(r) \/ FlushPublish(r)
NodeStep(r)  == \/ NodeReady(r) \/ NodeStartFails(r) \/ UserActs(r) \/ SessionEnds(r)
                \/ SessionFlushes(r)
PollStep(r)  == \/ PollBegin(r) \/ PollRead(r) \/ PollTarget(r)
                \/ PollTargetMissing(r) \/ PollApply(r)

Next == \/ \E r \in Recordings : \/ StartStep(r) \/ StopStep(r) \/ NodeStep(r)
                                 \/ PollStep(r) \/ Expire(r)
        \/ \E p \in Requests : Disconnect(p)
        \/ ControllerLost \/ Restart
        \/ AtRest

Spec == Init /\ [][Next]_vars

-----------------------------------------------------------------------------
(* Fairness.  The event loop runs every ready task, the controller answers *)
(* every call or the call times out, the sweeper scans the expired rows    *)
(* every 15 seconds.  No fairness for requests, polls, users or failures.  *)

RecordingProgress(r) ==
    /\ WF_vars(Track(r)) /\ WF_vars(StartCall(r))
    /\ WF_vars(NodeReady(r) \/ NodeStartFails(r))
    /\ WF_vars(StartPublish(r)) /\ WF_vars(StartFail(r))
    /\ WF_vars(Sweep(r)) /\ WF_vars(Continue(Sweeper, r))
    /\ WF_vars(FlushBegins(r) \/ FlushReply(r)) /\ WF_vars(SessionFlushes(r))
    /\ WF_vars(FlushPublish(r))

FairSpec == Spec /\ \A r \in Recordings : RecordingProgress(r)

-----------------------------------------------------------------------------
(* Properties                                                              *)

\* Every variable keeps to its domain.
TypeOK ==
    /\ status \in [Recordings -> RecordingStatus \cup {"absent"}]
    /\ code \in [Recordings -> Codes]
    /\ saved \in [Recordings -> SUBSET Codes]
    /\ expired \subseteq Recordings
    /\ counting \subseteq Recordings
    /\ starter \in [Recordings -> StarterState]
    /\ flusher \in [Recordings -> FlusherState]
    /\ poll \in [Recordings -> PollState]
    /\ polled \in [Recordings -> Codes]
    /\ stop \in [Stoppers -> StopState]
    /\ lost \subseteq Recordings
    /\ session \in [Recordings -> SessionState]
    /\ written \in [Recordings -> Codes]
    /\ restarts \in 0..MaxRestarts
    /\ losses \in 0..MaxControllerLosses
    /\ faults \in 0..MaxFaults

\* However the create requests of one user interleave, max_recordings_per_user
\* is never exceeded: the user's row is locked from the count to the commit.
ActiveWithinLimit == ActiveCount <= MaxRecordingsPerUser

\* A stopped recording holds the code of the flush: no poll that read an
\* earlier code, and answers late, overwrites it.
StoppedHasFinalCode ==
    \A r \in Recordings : status[r] = "stopped" => code[r] = written[r]

\* A recording that is starting or stopping has a task that will end that,
\* or its failure was reported, to a request or as BACKGROUND_FAILED; except
\* the one recording over which the sweeper died, if it has: that one stays
\* stopping and nothing says so.
NoSilentOrphan ==
    \A r \in Recordings :
        /\ status[r] = "starting" => starter[r] \notin {"none", "done"} \/ r \in lost
        /\ status[r] = "stopping" => \/ flusher[r] \notin {"none", "done"} \/ r \in lost
                                    \/ stop[Sweeper] = DeadOn(r)

\* start_recording always finds its row as it left it, since a stop waits
\* for the start: its branch for another status, which stops the session, is
\* never needed.
StartFindsStarting ==
    \A r \in Recordings : starter[r] = "publish" => status[r] = "starting"

\* docs/architecture.md: concurrent stops do not call the controller again;
\* whoever finds the recording stopping leaves the flush to the first.
SingleFlush ==
    [][\A r \in Recordings :
            flusher[r] # "none" /\ flusher'[r] = "call" => flusher[r] = "call"]_vars

\* The requests, tasks and failures implement the lifecycle clients see; in
\* particular only the final code of a stopped recording is ever saved.
Lifecycle == INSTANCE RecordingLifecycle
ImplementsLifecycle == Lifecycle!Spec

\* Nobody goes on to close r, and the log or an answer says so.
Reported(r) == r \in lost \/ starter[r] = "raised" \/ flusher[r] = "raised"

SweeperDead == stop[Sweeper].at = "dead"

\* As long as the sweeper lives every recording that expires is closed, or
\* its failure reported, whatever request or poll came between.  Once it has
\* died, silently, what expires stays open until someone stops it or the
\* process is restarted: nothing restarts the sweeper.
SweeperClosesExpired ==
    \A r \in Recordings : r \in expired /\ Active(r) ~> (~Active(r) \/ Reported(r) \/ SweeperDead)

\* RuntimePort.recording_target answers "dict | None", and get_recording
\* handles None: a poll that finds its browser gone is no reason for the
\* other recordings to lose their sessions.
MissingTargetIsAnAnswer ==
    [][\A r, q \in Recordings :
            r # q /\ poll[r] = "target" /\ poll'[r] = "broken" /\ session[q] = "up"
            /\ losses' = losses /\ restarts' = restarts
            => session'[q] # "none"]_vars

=============================================================================
