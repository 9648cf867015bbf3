------------------------- MODULE Recordings_proofs -------------------------
(***************************************************************************)
(* Proofs about Recordings, for any recordings, requests and bounds.       *)
(***************************************************************************)
EXTENDS Recordings, FiniteSetTheorems, TLAPS

\* Where the tasks of a recording are determines how far its row has come.
Stages ==
    \A r \in Recordings :
        /\ r \in counting => status[r] = "absent"
        /\ status[r] = "absent" => starter[r] = "none" /\ flusher[r] = "none" /\ code[r] = 0
        /\ starter[r] \in {"created", "open", "call", "publish"} => status[r] = "starting"
        /\ flusher[r] \in {"call", "publish", "fail"} => status[r] = "stopping"
        /\ flusher[r] # "none" => status[r] \in {"stopping", "stopped", "error"}

\* From the answer to the flush on, the session cannot write any more code.
Flushed ==
    \A r \in Recordings :
        /\ flusher[r] = "publish" \/ status[r] = "stopped" => session[r] \in {"stopped", "none"}
        /\ status[r] = "stopped" => code[r] = written[r]

\* The user's lock has one holder, which has counted fewer than the limit.
Actives == {r \in Recordings : Active(r)}
Limit ==
    /\ IsFiniteSet(Actives)
    /\ \A r, q \in counting : r = q
    /\ ActiveWithinLimit
    /\ counting # {} => ActiveCount < MaxRecordingsPerUser

IndInv == TypeOK /\ Stages /\ Flushed /\ NoSilentOrphan

-----------------------------------------------------------------------------
(* Types                                                                   *)

LEMMA CommitsKeepFaults ==
    ASSUME NEW o \in CommitOutcome, faults \in 0..MaxFaults, Commits(o)
    PROVE  faults' \in 0..MaxFaults
BY RecordingsAssumption DEF Commits

LEMMA FailsKeepsFaults ==
    ASSUME faults \in 0..MaxFaults, Fails
    PROVE  faults' \in 0..MaxFaults
BY RecordingsAssumption DEF Fails

LEMMA StartKeepsTypes ==
    ASSUME TypeOK, NEW r \in Recordings, StartStep(r)
    PROVE  TypeOK'
<1> USE CommitsKeepFaults, FailsKeepsFaults DEF TypeOK, StarterState, RecordingStatus, TERMINAL_RECORDINGS
<1> USE DEF polls, node, table
<1>1. CASE CountActive(r)
  BY <1>1 DEF CountActive, budgets
<1>2. CASE Create(r)
  BY <1>2 DEF Create, Store
<1>3. CASE Track(r)
  BY <1>3 DEF Track, budgets
<1>4. CASE StartCall(r)
  BY <1>4 DEF StartCall, SessionState
<1>5. CASE StartTimesOut(r)
  BY <1>5 DEF StartTimesOut
<1>6. CASE StartPublish(r)
  BY <1>6 DEF StartPublish, Store
<1>7. CASE StartFail(r)
  BY <1>7 DEF StartFail, Store
<1>8. QED
  BY <1>1, <1>2, <1>3, <1>4, <1>5, <1>6, <1>7 DEF StartStep

LEMMA DeliversTypes ==
    ASSUME TypeOK, NEW r \in Recordings, NEW save \in BOOLEAN, Delivers(r, save)
    PROVE  saved' \in [Recordings -> SUBSET Codes] /\ faults' \in 0..MaxFaults
BY CommitsKeepFaults DEF TypeOK, Delivers

LEMMA EndedTypes ==
    ASSUME TypeOK, NEW p \in Stoppers
    PROVE  /\ \A r \in Recordings : Ended(p, r) \in [Stoppers -> StopState]
           /\ [stop EXCEPT ![p] = Idle] \in [Stoppers -> StopState]
<1>1. Idle \in StopState /\ \A r \in Recordings : DeadOn(r) \in StopState
  BY DEF Idle, DeadOn, StopState
<1>2. QED
  BY <1>1 DEF TypeOK, Ended

LEMMA FlushOrReturnTypes ==
    ASSUME TypeOK, NEW p \in Stoppers, NEW r \in Recordings, NEW save \in BOOLEAN,
           FlushOrReturn(p, r, save)
    PROVE  /\ status' \in [Recordings -> RecordingStatus \cup {"absent"}]
           /\ saved' \in [Recordings -> SUBSET Codes]
           /\ flusher' \in [Recordings -> FlusherState]
           /\ lost' \subseteq Recordings
           /\ stop' \in [Stoppers -> StopState]
           /\ faults' \in 0..MaxFaults
<1>1. CASE Stoppable(r)
  <2>1. PICK o \in CommitOutcome :
            /\ Commits(o)
            /\ Store(r, o, "stopping")
            /\ flusher' = IF o = "ok" THEN [flusher EXCEPT ![r] = "call"] ELSE flusher
            /\ lost' = IF o = "unacknowledged" /\ p # Sweeper THEN lost \cup {r} ELSE lost
            /\ stop' = IF o = "ok" THEN [stop EXCEPT ![p] = [at |-> "flushing", on |-> r, save |-> save]]
                       ELSE Ended(p, r)
    BY <1>1 DEF FlushOrReturn
  <2>2. saved' = saved
    BY <1>1 DEF FlushOrReturn
  <2>3. faults' \in 0..MaxFaults
    BY <2>1, CommitsKeepFaults DEF TypeOK
  <2>4. stop' \in [Stoppers -> StopState]
    <3>1. [at |-> "flushing", on |-> r, save |-> save] \in StopState
      BY DEF StopState
    <3>2. QED
      BY <2>1, <3>1, EndedTypes DEF TypeOK
  <2>5. status' \in [Recordings -> RecordingStatus \cup {"absent"}]
    BY <2>1 DEF TypeOK, Store, RecordingStatus
  <2>6. QED
    BY <2>1, <2>2, <2>3, <2>4, <2>5 DEF TypeOK, FlusherState
<1>2. CASE ~Stoppable(r)
  BY <1>2, DeliversTypes, EndedTypes DEF FlushOrReturn, TypeOK
<1>3. QED
  BY <1>1, <1>2

LEMMA StopKeepsTypes ==
    ASSUME TypeOK, NEW r \in Recordings, StopStep(r)
    PROVE  TypeOK'
<1> USE DEF polls, node, table, tasks
<1>1. ASSUME NEW p \in Stoppers, NEW save \in BOOLEAN, StopBegin(p, r, save) PROVE TypeOK'
  <2>1. CASE FlushOrReturn(p, r, save)
    BY <1>1, <2>1, FlushOrReturnTypes DEF StopBegin, TypeOK
  <2>2. CASE /\ stop' = IF starter[r] \in {"none", "created", "raised"} THEN Ended(p, r)
                        ELSE [stop EXCEPT ![p] = [at |-> "joining", on |-> r, save |-> save]]
             /\ UNCHANGED <<status, saved, flusher, lost, faults>>
    <3>1. [at |-> "joining", on |-> r, save |-> save] \in StopState
      BY DEF StopState
    <3>2. stop' \in [Stoppers -> StopState]
      BY <2>2, <3>1, EndedTypes DEF TypeOK
    <3>3. QED
      BY <1>1, <2>2, <3>2 DEF StopBegin, TypeOK
  <2>3. QED
    BY <1>1, <2>1, <2>2 DEF StopBegin
<1>2. ASSUME NEW p \in Stoppers, NEW save \in BOOLEAN, Join(p, r, save) PROVE TypeOK'
  <2>1. CASE FlushOrReturn(p, r, save)
    BY <1>2, <2>1, FlushOrReturnTypes DEF Join, TypeOK
  <2>2. CASE stop' = Ended(p, r) /\ UNCHANGED <<status, saved, flusher, lost, faults>>
    BY <1>2, <2>2, EndedTypes DEF Join, TypeOK
  <2>3. QED
    BY <1>2, <2>1, <2>2 DEF Join
<1>3. ASSUME NEW p \in Stoppers, NEW save \in BOOLEAN, Settle(p, r, save) PROVE TypeOK'
  <2>1. stop' \in [Stoppers -> StopState]
    BY <1>3, EndedTypes DEF Settle
  <2>2. saved' \in [Recordings -> SUBSET Codes] /\ faults' \in 0..MaxFaults
    BY <1>3, DeliversTypes DEF Settle, TypeOK
  <2>3. QED
    BY <1>3, <2>1, <2>2 DEF Settle, TypeOK
<1>4. CASE FlushReply(r)
  BY <1>4, FailsKeepsFaults DEF FlushReply, TypeOK, FlusherState
<1>8. CASE FlushBegins(r)
  BY <1>8 DEF FlushBegins, budgets, TypeOK, SessionState
<1>5. CASE FlushPublish(r)
  <2>1. FlushedStatus(r) \in RecordingStatus
    BY DEF FlushedStatus, RecordingStatus, TERMINAL_RECORDINGS
  <2>2. QED
    BY <1>5, <2>1, CommitsKeepFaults DEF FlushPublish, Store, TypeOK, FlusherState
<1>6. Sweeper \in Stoppers /\ FALSE \in BOOLEAN /\ Requests \subseteq Stoppers
  BY DEF Stoppers
<1>7. QED
  BY <1>1, <1>2, <1>3, <1>4, <1>5, <1>6, <1>8 DEF StopStep, Request, Continue, Sweep

LEMMA PollKeepsTypes ==
    ASSUME TypeOK, NEW r \in Recordings, NodeStep(r) \/ PollStep(r) \/ Expire(r)
    PROVE  TypeOK'
<1> USE CommitsKeepFaults, FailsKeepsFaults
<1> USE DEF TypeOK, polls, node, table, tasks, budgets
<1>1. CASE NodeStep(r)
  BY <1>1, RecordingsAssumption DEF NodeStep, NodeReady, NodeStartFails, UserActs, SessionEnds,
     SessionFlushes, Replied, SessionState, StarterState, Codes
<1>2. CASE PollBegin(r) \/ PollRead(r) \/ PollTarget(r)
  BY <1>2 DEF PollBegin, PollRead, PollTarget, PollState
<1>3. CASE PollTargetMissing(r)
  BY <1>3 DEF PollTargetMissing, ControllerDies, SessionState, StarterState, FlusherState, PollState
<1>4. CASE PollApply(r)
  <2>1. faults' \in 0..MaxFaults
    BY <1>4 DEF PollApply
  <2>2. status' \in [Recordings -> RecordingStatus \cup {"absent"}]
    BY <1>4 DEF PollApply, Store, RecordingStatus, TERMINAL_RECORDINGS
  <2>3. code' \in [Recordings -> Codes] /\ polled' \in [Recordings -> Codes]
    BY <1>4, RecordingsAssumption DEF PollApply, Codes
  <2>4. QED
    BY <1>4, <2>1, <2>2, <2>3 DEF PollApply, PollState
<1>5. CASE Expire(r)
  BY <1>5 DEF Expire
<1>6. QED
  BY <1>1, <1>2, <1>3, <1>4, <1>5 DEF PollStep

LEMMA ProcessKeepsTypes ==
    ASSUME TypeOK, ControllerLost \/ Restart \/ \E p \in Requests : Disconnect(p)
    PROVE  TypeOK'
<1> USE DEF TypeOK, polls, node, table, tasks, budgets
<1>1. CASE ControllerLost
  BY <1>1, RecordingsAssumption DEF ControllerLost, ControllerDies,
     SessionState, StarterState, FlusherState, PollState
<1>2. CASE Restart
  <2>1. stop' \in [Stoppers -> StopState]
    BY <1>2 DEF Restart, Idle, StopState
  <2>2. QED
    BY <1>2, <2>1, RecordingsAssumption DEF Restart, RecordingStatus, TERMINAL_RECORDINGS,
       SessionState, StarterState, FlusherState, PollState, Codes
<1>3. ASSUME NEW p \in Requests, Disconnect(p) PROVE TypeOK'
  <2>1. p \in Stoppers
    BY DEF Stoppers
  <2>2. stop' \in [Stoppers -> StopState]
    BY <1>3, <2>1, EndedTypes DEF Disconnect
  <2>3. QED
    BY <1>3, <2>2 DEF Disconnect
<1>4. QED
  BY <1>1, <1>2, <1>3

-----------------------------------------------------------------------------
(* Stages                                                                  *)

LEMMA StartKeepsStages ==
    ASSUME IndInv, NEW r \in Recordings, StartStep(r)
    PROVE  Stages' /\ Flushed' /\ NoSilentOrphan'
<1> USE DEF IndInv, TypeOK, Stages, Flushed, NoSilentOrphan, table, node, tasks
<1>1. CASE CountActive(r)
  BY <1>1 DEF CountActive
<1>2. CASE Create(r)
  BY <1>2 DEF Create, Store, Applied, CommitOutcome
<1>3. CASE Track(r)
  BY <1>3 DEF Track
<1>4. CASE StartCall(r)
  <2>1. /\ status' = status /\ flusher' = flusher /\ lost' = lost /\ counting' = counting
        /\ code' = code /\ written' = written /\ stop' = stop
        /\ starter[r] = "open"
        /\ starter' = [starter EXCEPT ![r] = "call"] \/ starter' = [starter EXCEPT ![r] = "fail"]
        /\ session' = session \/ session' = [session EXCEPT ![r] = "initializing"]
    BY <1>4 DEF StartCall
  <2>2. QED
    BY <2>1
<1>5. CASE StartTimesOut(r)
  BY <1>5 DEF StartTimesOut
<1>6. CASE StartPublish(r)
  BY <1>6 DEF StartPublish, Store, Applied, CommitOutcome
<1>7. CASE StartFail(r)
  BY <1>7 DEF StartFail, Store, Applied, CommitOutcome
<1>8. QED
  BY <1>1, <1>2, <1>3, <1>4, <1>5, <1>6, <1>7 DEF StartStep

\* Only a ready recording is given to a flush, which none has had before.
LEMMA FlushOrReturnMoves ==
    ASSUME IndInv, NEW p \in Stoppers, NEW r \in Recordings, NEW save \in BOOLEAN,
           FlushOrReturn(p, r, save)
    PROVE  \/ UNCHANGED <<status, flusher, lost>>
           \/ /\ status[r] = "ready" /\ flusher[r] = "none"
              /\ \/ UNCHANGED <<status, flusher, lost>>
                 \/ /\ status' = [status EXCEPT ![r] = "stopping"]
                    /\ flusher' = [flusher EXCEPT ![r] = "call"] /\ lost' = lost
                 \/ /\ status' = [status EXCEPT ![r] = "stopping"]
                    /\ flusher' = flusher /\ lost' = lost \cup {r}
                 \/ /\ status' = [status EXCEPT ![r] = "stopping"]
                    /\ flusher' = flusher /\ lost' = lost
                    /\ stop'[Sweeper] = DeadOn(r)
<1> USE DEF Stoppable, Store, Applied, CommitOutcome, IndInv, Stages
<1>1. CASE Stoppable(r)
  <2>1. PICK o \in CommitOutcome :
            /\ Store(r, o, "stopping")
            /\ flusher' = IF o = "ok" THEN [flusher EXCEPT ![r] = "call"] ELSE flusher
            /\ lost' = IF o = "unacknowledged" /\ p # Sweeper THEN lost \cup {r} ELSE lost
            /\ stop' = IF o = "ok" THEN [stop EXCEPT ![p] = [at |-> "flushing", on |-> r, save |-> save]]
                       ELSE Ended(p, r)
    BY <1>1 DEF FlushOrReturn
  <2>2. CASE o = "unacknowledged" /\ p = Sweeper
    <3>1. stop'[Sweeper] = DeadOn(r)
      BY <2>1, <2>2 DEF Ended, TypeOK
    <3>2. QED
      BY <1>1, <2>1, <2>2, <3>1
  <2>3. CASE ~(o = "unacknowledged" /\ p = Sweeper)
    BY <1>1, <2>1, <2>3
  <2>4. QED
    BY <2>2, <2>3
<1>2. CASE ~Stoppable(r)
  BY <1>2 DEF FlushOrReturn
<1>3. QED
  BY <1>1, <1>2

\* Only a restart of the process follows the end of the sweeper.
LEMMA SweeperStaysDead ==
    ASSUME TypeOK, NEW p \in Stoppers, NEW r \in Recordings, NEW save \in BOOLEAN,
           StopBegin(p, r, save) \/ Join(p, r, save) \/ Settle(p, r, save)
    PROVE  \A q \in Recordings : stop[Sweeper] = DeadOn(q) => stop'[Sweeper] = DeadOn(q)
<1> SUFFICES ASSUME NEW q \in Recordings, stop[Sweeper] = DeadOn(q)
             PROVE  stop'[Sweeper] = stop[Sweeper]
  OBVIOUS
<1>1. p # Sweeper
  BY DEF StopBegin, Join, Settle, DeadOn, Idle
<1>2. \E v : stop' = [stop EXCEPT ![p] = v]
  BY DEF StopBegin, Join, Settle, FlushOrReturn, Ended
<1>3. QED
  BY <1>1, <1>2 DEF TypeOK, Stoppers

LEMMA StopKeepsStages ==
    ASSUME IndInv, NEW r \in Recordings, StopStep(r)
    PROVE  Stages' /\ Flushed' /\ NoSilentOrphan'
<1> USE DEF IndInv, TypeOK, Stages, Flushed, NoSilentOrphan, table, node, tasks
<1>1. ASSUME NEW p \in Stoppers, NEW save \in BOOLEAN, StopBegin(p, r, save) \/ Join(p, r, save)
      PROVE  Stages' /\ Flushed' /\ NoSilentOrphan'
  <2>1. UNCHANGED <<status, flusher, lost>> \/ FlushOrReturn(p, r, save)
    BY <1>1 DEF StopBegin, Join
  <2>2. UNCHANGED <<code, counting, starter, session, written>>
    BY <1>1 DEF StopBegin, Join
  <2>6. \A q \in Recordings : stop[Sweeper] = DeadOn(q) => stop'[Sweeper] = DeadOn(q)
    BY <1>1, SweeperStaysDead
  <2>3. CASE UNCHANGED <<status, flusher, lost>>
    BY <2>2, <2>3, <2>6
  <2>4. CASE FlushOrReturn(p, r, save)
    BY <2>2, <2>4, <2>6, FlushOrReturnMoves
  <2>5. QED
    BY <2>1, <2>3, <2>4
<1>2. ASSUME NEW p \in Stoppers, NEW save \in BOOLEAN, Settle(p, r, save)
      PROVE  Stages' /\ Flushed' /\ NoSilentOrphan'
  BY <1>2, SweeperStaysDead DEF Settle
<1>3. CASE FlushReply(r)
  <2>1. stop' = stop
    BY <1>3 DEF FlushReply
  <2>2. /\ status' = status /\ lost' = lost /\ counting' = counting /\ starter' = starter
        /\ code' = code /\ written' = written
        /\ flusher[r] = "call"
        /\ session' = session
        /\ \/ flusher' = [flusher EXCEPT ![r] = "publish"] /\ session[r] = "stopped"
           \/ flusher' = [flusher EXCEPT ![r] = "fail"]
    BY <1>3 DEF FlushReply
  <2>3. QED
    BY <2>1, <2>2
<1>7. CASE FlushBegins(r)
  BY <1>7 DEF FlushBegins
<1>4. CASE FlushPublish(r)
  BY <1>4 DEF FlushPublish, FlushedStatus, Store, Applied, CommitOutcome
<1>5. Sweeper \in Stoppers /\ FALSE \in BOOLEAN /\ Requests \subseteq Stoppers
  BY DEF Stoppers
<1>6. QED
  BY <1>1, <1>2, <1>3, <1>4, <1>5, <1>7 DEF StopStep, Request, Continue, Sweep

LEMMA PollKeepsStages ==
    ASSUME IndInv, NEW r \in Recordings, NodeStep(r) \/ PollStep(r) \/ Expire(r)
    PROVE  Stages' /\ Flushed' /\ NoSilentOrphan'
<1> USE DEF IndInv, TypeOK, Stages, Flushed, NoSilentOrphan, table, node, tasks
<1>1. CASE NodeReady(r) \/ NodeStartFails(r)
  BY <1>1 DEF NodeReady, NodeStartFails, Replied
<1>2. CASE UserActs(r) \/ SessionEnds(r) \/ SessionFlushes(r)
  BY <1>2 DEF UserActs, SessionEnds, SessionFlushes
<1>3. CASE PollBegin(r) \/ PollRead(r) \/ PollTarget(r)
  BY <1>3 DEF PollBegin, PollRead, PollTarget
<1>4. CASE PollTargetMissing(r)
  BY <1>4 DEF PollTargetMissing, ControllerDies
<1>5. CASE PollApply(r)
  <2>1. UNCHANGED <<counting, starter, flusher, lost, stop, session, written>>
    BY <1>5 DEF PollApply
  <2>2. \/ UNCHANGED <<status, code>>
        \/ /\ status[r] = "ready"
           /\ status' = status \/ status' = [status EXCEPT ![r] = "error"]
           /\ code' = code \/ code' = [code EXCEPT ![r] = polled[r]]
    BY <1>5 DEF PollApply, StillReady, Store
  <2>3. QED
    BY <2>1, <2>2
<1>6. CASE Expire(r)
  BY <1>6 DEF Expire
<1>7. QED
  BY <1>1, <1>2, <1>3, <1>4, <1>5, <1>6 DEF NodeStep, PollStep

LEMMA ProcessKeepsStages ==
    ASSUME IndInv, ControllerLost \/ Restart \/ \E p \in Requests : Disconnect(p)
    PROVE  Stages' /\ Flushed' /\ NoSilentOrphan'
<1> USE DEF IndInv, TypeOK, Stages, Flushed, NoSilentOrphan, table, node, tasks
<1>1. CASE ControllerLost
  BY <1>1 DEF ControllerLost, ControllerDies
<1>2. CASE Restart
  BY <1>2 DEF Restart, Interrupted, Active
<1>3. ASSUME NEW p \in Requests, Disconnect(p) PROVE Stages' /\ Flushed' /\ NoSilentOrphan'
  <2>1. stop'[Sweeper] = stop[Sweeper]
    BY <1>3 DEF Disconnect, Stoppers
  <2>2. QED
    BY <1>3, <2>1 DEF Disconnect
<1>4. QED
  BY <1>1, <1>2, <1>3

LEMMA InitInd == Init => IndInv
BY RecordingsAssumption DEF Init, IndInv, TypeOK, Stages, Flushed, NoSilentOrphan,
   StarterState, FlusherState, PollState, SessionState, StopState, Idle, Codes

LEMMA StepInd == IndInv /\ [Next]_vars => IndInv'
<1> SUFFICES ASSUME IndInv, [Next]_vars PROVE IndInv'
  OBVIOUS
<1>1. TypeOK
  BY DEF IndInv
<1>2. ASSUME NEW r \in Recordings,
             StartStep(r) \/ StopStep(r) \/ NodeStep(r) \/ PollStep(r) \/ Expire(r)
      PROVE  IndInv'
  <2>1. TypeOK'
    BY <1>1, <1>2, StartKeepsTypes, StopKeepsTypes, PollKeepsTypes
  <2>2. Stages' /\ Flushed' /\ NoSilentOrphan'
    BY <1>2, StartKeepsStages, StopKeepsStages, PollKeepsStages
  <2>3. QED
    BY <2>1, <2>2 DEF IndInv
<1>3. CASE ControllerLost \/ Restart \/ \E p \in Requests : Disconnect(p)
  BY <1>1, <1>3, ProcessKeepsTypes, ProcessKeepsStages DEF IndInv
<1>4. CASE AtRest \/ UNCHANGED vars
  BY <1>4 DEF AtRest, vars, table, tasks, polls, node, budgets, IndInv, TypeOK, Stages, Flushed,
              NoSilentOrphan
<1>5. QED
  BY <1>2, <1>3, <1>4 DEF Next

\* The stages hold in every reachable state, and with them what follows.
THEOREM StagesHold == Spec => []IndInv
BY InitInd, StepInd, PTL DEF Spec

\* Every reachable state is well typed; FlushedStatus is a recording's status.
THEOREM RecordingTypesHold == Spec => []TypeOK
<1>1. IndInv => TypeOK
  BY DEF IndInv
<1>2. QED
  BY <1>1, StagesHold, PTL

\* No late poll overwrites the code of the flush.
THEOREM FinalCodeHolds == Spec => []StoppedHasFinalCode
<1>1. IndInv => StoppedHasFinalCode
  BY DEF IndInv, Flushed, StoppedHasFinalCode
<1>2. QED
  BY <1>1, StagesHold, PTL

\* A recording that is starting or stopping has a task, or a failure was
\* reported; except the one over which the sweeper died, which nobody reports.
THEOREM NoRecordingOrphans == Spec => []NoSilentOrphan
<1>1. IndInv => NoSilentOrphan
  BY DEF IndInv
<1>2. QED
  BY <1>1, StagesHold, PTL

\* start_recording's other branch is never taken.
THEOREM StartsFindStarting == Spec => []StartFindsStarting
<1>1. IndInv => StartFindsStarting
  BY DEF IndInv, Stages, StartFindsStarting
<1>2. QED
  BY <1>1, StagesHold, PTL

\* How a step may change the flush tasks: a new one only for a recording
\* that never had one.
LEMMA StepMovesFlushers ==
    ASSUME IndInv, Next
    PROVE  \A q \in Recordings : flusher[q] # "none" /\ flusher'[q] = "call" => flusher[q] = "call"
<1> USE DEF IndInv, TypeOK, tasks
<1> DEFINE Same == flusher' = flusher
           Moves == \A q \in Recordings : flusher[q] # "none" /\ flusher'[q] = "call" => flusher[q] = "call"
<1>1. ASSUME NEW r \in Recordings, StartStep(r) PROVE Same
  BY <1>1 DEF StartStep, CountActive, Create, Track, StartCall, StartTimesOut, StartPublish, StartFail
<1>2. ASSUME NEW r \in Recordings, StopStep(r) PROVE Moves
  <2>1. ASSUME NEW p \in Stoppers, NEW save \in BOOLEAN, StopBegin(p, r, save) \/ Join(p, r, save)
        PROVE  Moves
    <3>1. flusher' = flusher \/ FlushOrReturn(p, r, save)
      BY <2>1 DEF StopBegin, Join
    <3>2. QED
      BY <3>1, FlushOrReturnMoves
  <2>2. ASSUME NEW p \in Stoppers, NEW save \in BOOLEAN, Settle(p, r, save) PROVE Same
    BY <2>2 DEF Settle
  <2>3. CASE FlushBegins(r) \/ FlushReply(r)
    BY <2>3 DEF FlushBegins, FlushReply
  <2>4. CASE FlushPublish(r)
    BY <2>4 DEF FlushPublish
  <2>5. Sweeper \in Stoppers /\ FALSE \in BOOLEAN /\ Requests \subseteq Stoppers
    BY DEF Stoppers
  <2>6. QED
    BY <1>2, <2>1, <2>2, <2>3, <2>4, <2>5 DEF StopStep, Request, Continue, Sweep
<1>3. ASSUME NEW r \in Recordings, NodeStep(r) \/ Expire(r) PROVE Same
  BY <1>3 DEF NodeStep, NodeReady, NodeStartFails, UserActs, SessionEnds, SessionFlushes, Expire
<1>4. ASSUME NEW r \in Recordings, PollStep(r) PROVE Moves
  BY <1>4 DEF PollStep, PollBegin, PollRead, PollTarget, PollTargetMissing, PollApply, ControllerDies
<1>5. CASE ControllerLost \/ Restart \/ AtRest \/ \E p \in Requests : Disconnect(p)
  BY <1>5 DEF ControllerLost, ControllerDies, Restart, AtRest, Disconnect, vars
<1>6. QED
  BY <1>1, <1>2, <1>3, <1>4, <1>5 DEF Next

\* The controller is asked to stop a recording once only.
THEOREM FlushesOnce == Spec => SingleFlush
<1>1. IndInv /\ [Next]_vars =>
      [\A r \in Recordings : flusher[r] # "none" /\ flusher'[r] = "call" => flusher[r] = "call"]_vars
  BY StepMovesFlushers
<1>2. QED
  BY <1>1, StagesHold, PTL DEF Spec, SingleFlush

-----------------------------------------------------------------------------
(* The limit of active recordings                                          *)

LEMMA FlushOrReturnActives ==
    ASSUME TypeOK, NEW p \in Stoppers, NEW r \in Recordings, NEW save \in BOOLEAN,
           FlushOrReturn(p, r, save)
    PROVE  Actives' \subseteq Actives
BY DEF FlushOrReturn, Stoppable, Store, TypeOK, Actives, Active

\* Only the commit of a create request adds an active recording.
LEMMA StepMovesActives ==
    ASSUME IndInv, Next, \A r \in Recordings : ~CountActive(r) /\ ~Create(r)
    PROVE  Actives' \subseteq Actives /\ counting' \subseteq counting
<1> USE DEF IndInv, TypeOK, Actives, Active, table, tasks
<1> DEFINE Fewer == Actives' \subseteq Actives /\ counting' \subseteq counting
<1>1. ASSUME NEW r \in Recordings, StartStep(r) PROVE Fewer
  <2>1. CASE Track(r) \/ StartCall(r) \/ StartTimesOut(r)
    BY <2>1 DEF Track, StartCall, StartTimesOut
  <2>2. CASE StartPublish(r) \/ StartFail(r)
    BY <2>2 DEF StartPublish, StartFail, Store
  <2>3. QED
    BY <1>1, <2>1, <2>2 DEF StartStep
<1>2. ASSUME NEW r \in Recordings, StopStep(r) PROVE Fewer
  <2>1. ASSUME NEW p \in Stoppers, NEW save \in BOOLEAN, StopBegin(p, r, save) \/ Join(p, r, save)
        PROVE  Fewer
    <3>1. status' = status \/ FlushOrReturn(p, r, save)
      BY <2>1 DEF StopBegin, Join
    <3>2. counting' = counting
      BY <2>1 DEF StopBegin, Join
    <3>3. QED
      BY <3>1, <3>2, FlushOrReturnActives
  <2>2. ASSUME NEW p \in Stoppers, NEW save \in BOOLEAN, Settle(p, r, save) PROVE Fewer
    BY <2>2 DEF Settle
  <2>3. CASE FlushBegins(r) \/ FlushReply(r)
    BY <2>3 DEF FlushBegins, FlushReply
  <2>4. CASE FlushPublish(r)
    BY <2>4 DEF FlushPublish, FlushedStatus, Store
  <2>5. Sweeper \in Stoppers /\ FALSE \in BOOLEAN /\ Requests \subseteq Stoppers
    BY DEF Stoppers
  <2>6. QED
    BY <1>2, <2>1, <2>2, <2>3, <2>4, <2>5 DEF StopStep, Request, Continue, Sweep
<1>3. ASSUME NEW r \in Recordings, NodeStep(r) \/ Expire(r) PROVE Fewer
  BY <1>3 DEF NodeStep, NodeReady, NodeStartFails, UserActs, SessionEnds, SessionFlushes, Expire
<1>4. ASSUME NEW r \in Recordings, PollStep(r) PROVE Fewer
  BY <1>4 DEF PollStep, PollBegin, PollRead, PollTarget, PollTargetMissing, PollApply,
              ControllerDies, Store
<1>5. CASE ControllerLost \/ Restart \/ AtRest \/ \E p \in Requests : Disconnect(p)
  BY <1>5 DEF ControllerLost, ControllerDies, Restart, Interrupted, AtRest, Disconnect, vars
<1>6. QED
  BY <1>1, <1>2, <1>3, <1>4, <1>5 DEF Next

LEMMA StepKeepsLimit == IndInv /\ Limit /\ [Next]_vars => Limit'
<1> SUFFICES ASSUME IndInv, Limit, [Next]_vars PROVE Limit'
  OBVIOUS
<1> USE RecordingsAssumption DEF Limit, ActiveWithinLimit
<1>1. ActiveCount = Cardinality(Actives) /\ ActiveCount' = Cardinality(Actives')
  BY DEF ActiveCount, Actives
<1>2. Cardinality(Actives) \in Nat
  BY FS_CardinalityType
<1>3. ASSUME NEW r \in Recordings, CountActive(r) PROVE Limit'
  <2>1. Actives' = Actives /\ counting' = {r} /\ ActiveCount < MaxRecordingsPerUser
    BY <1>3 DEF CountActive, UserLockFree, Actives, Active, table
  <2>2. QED
    BY <1>1, <2>1
<1>4. ASSUME NEW r \in Recordings, Create(r) PROVE Limit'
  <2>1. counting' = {} /\ ActiveCount < MaxRecordingsPerUser
    BY <1>4 DEF Create
  <2>2. Actives' = Actives \/ Actives' = Actives \cup {r}
    BY <1>4 DEF Create, Store, Actives, Active, IndInv, TypeOK
  <2>3. IsFiniteSet(Actives') /\ Cardinality(Actives') <= Cardinality(Actives) + 1
    BY <1>2, <2>2, FS_AddElement
  <2>4. Cardinality(Actives') \in Nat
    BY <2>3, FS_CardinalityType
  <2>5. QED
    BY <1>1, <1>2, <2>1, <2>3, <2>4
<1>5. CASE Next /\ \A r \in Recordings : ~CountActive(r) /\ ~Create(r)
  <2>1. Actives' \subseteq Actives /\ counting' \subseteq counting
    BY <1>5, StepMovesActives
  <2>2. IsFiniteSet(Actives') /\ Cardinality(Actives') <= Cardinality(Actives)
    BY <2>1, FS_Subset
  <2>3. Cardinality(Actives') \in Nat
    BY <2>2, FS_CardinalityType
  <2>4. QED
    BY <1>1, <1>2, <2>1, <2>2, <2>3
<1>6. CASE UNCHANGED vars
  BY <1>1, <1>6 DEF vars, table, tasks, Actives, Active
<1>7. QED
  BY <1>3, <1>4, <1>5, <1>6

\* max_recordings_per_user is never exceeded.
THEOREM LimitHolds == Spec => []ActiveWithinLimit
<1>1. Init => Limit
  <2>1. Init => Actives = {} /\ counting = {}
    BY DEF Init, Actives, Active
  <2>2. Init => ActiveCount = 0 /\ IsFiniteSet(Actives)
    BY <2>1, FS_EmptySet DEF ActiveCount, Actives
  <2>3. QED
    BY <2>1, <2>2, RecordingsAssumption DEF Limit, ActiveWithinLimit
<1>2. Limit => ActiveWithinLimit
  BY DEF Limit
<1>3. QED
  BY <1>1, <1>2, StepKeepsLimit, StagesHold, PTL DEF Spec

-----------------------------------------------------------------------------
(* The refinement: every step moves each row as RecordingLifecycle allows. *)

Moves(r) == \/ Lifecycle!Creates(r) \/ Lifecycle!Proceeds(r)
            \/ Lifecycle!Saves(r) \/ Lifecycle!Rests(r)

\* RecordingLifecycle extends Domain on its own: the two copies agree.
LEMMA SameVocabulary ==
    /\ Lifecycle!RecordingStatus = RecordingStatus
    /\ Lifecycle!RECORDING_TRANSITIONS = RECORDING_TRANSITIONS
    /\ \A T, old, new : Lifecycle!Allowed(T, old, new) <=> Allowed(T, old, new)
BY DEF Lifecycle!TERMINAL_RECORDINGS, TERMINAL_RECORDINGS,
       Lifecycle!RecordingStatus, RecordingStatus,
       Lifecycle!RECORDING_TRANSITIONS, RECORDING_TRANSITIONS,
       Lifecycle!Allowed, Allowed

\* The moves of the table that the code makes.
LEMMA TableMoves ==
    /\ \A s \in RecordingStatus : Allowed(RECORDING_TRANSITIONS, s, s)
    /\ \A s \in {"starting", "ready", "stopping"} : Allowed(RECORDING_TRANSITIONS, s, "error")
    /\ Allowed(RECORDING_TRANSITIONS, "starting", "ready")
    /\ Allowed(RECORDING_TRANSITIONS, "ready", "stopping")
    /\ Allowed(RECORDING_TRANSITIONS, "stopping", "stopped")
BY DEF Allowed, RECORDING_TRANSITIONS, RecordingStatus, TERMINAL_RECORDINGS

\* Only one recording's row or versions change: every other one rests.
LEMMA OthersRest ==
    ASSUME TypeOK, NEW r \in Recordings, Moves(r), NEW s, NEW c, NEW S,
           status' = status \/ status' = [status EXCEPT ![r] = s],
           code' = code \/ code' = [code EXCEPT ![r] = c],
           saved' = saved \/ saved' = [saved EXCEPT ![r] = S]
    PROVE  \A q \in Recordings : Moves(q)
<1> SUFFICES ASSUME NEW q \in Recordings, q # r PROVE Lifecycle!Rests(q)
  BY DEF Moves
<1>1. QED
  BY DEF TypeOK, Lifecycle!Rests

\* A step of the row to s along the table, its code and versions at rest.
LEMMA StatusMoves ==
    ASSUME TypeOK, NEW r \in Recordings, NEW o \in CommitOutcome,
           NEW s \in RecordingStatus, Store(r, o, s),
           status[r] \in RecordingStatus, Allowed(RECORDING_TRANSITIONS, status[r], s),
           UNCHANGED <<code, saved>>
    PROVE  \A q \in Recordings : Moves(q)
<1>1. CASE Applied(o)
  <2>1. status' = [status EXCEPT ![r] = s] /\ status'[r] = s
    BY <1>1 DEF Store, TypeOK
  <2>2. Lifecycle!Proceeds(r)
    BY <2>1, SameVocabulary DEF Lifecycle!Proceeds
  <2>3. QED
    BY <2>1, <2>2, OthersRest DEF Moves
<1>2. CASE ~Applied(o)
  BY <1>2 DEF Store, Moves, Lifecycle!Rests
<1>3. QED
  BY <1>1, <1>2

\* A version is added only of a stopped recording, with its code.
LEMMA DeliversMoves ==
    ASSUME TypeOK, NEW r \in Recordings, NEW save, Delivers(r, save),
           UNCHANGED <<status, code>>
    PROVE  \A q \in Recordings : Moves(q)
<1>1. CASE saved' = saved
  BY <1>1 DEF Moves, Lifecycle!Rests
<1>2. CASE status[r] = "stopped" /\ saved' = [saved EXCEPT ![r] = @ \cup {code[r]}]
  <2>1. Lifecycle!Saves(r)
    BY <1>2 DEF Lifecycle!Saves, TypeOK
  <2>2. QED
    BY <1>2, <2>1, OthersRest DEF Moves
<1>3. QED
  BY <1>1, <1>2 DEF Delivers, Saveable

LEMMA FlushOrReturnMovesRow ==
    ASSUME TypeOK, NEW p \in Stoppers, NEW r \in Recordings, NEW save,
           FlushOrReturn(p, r, save), UNCHANGED code
    PROVE  \A q \in Recordings : Moves(q)
<1>1. CASE Stoppable(r)
  <2>1. PICK o \in CommitOutcome : Store(r, o, "stopping")
    BY <1>1 DEF FlushOrReturn
  <2>2. saved' = saved
    BY <1>1 DEF FlushOrReturn
  <2>3. "stopping" \in RecordingStatus /\ "ready" \in RecordingStatus /\ status[r] = "ready"
    BY <1>1 DEF RecordingStatus, Stoppable
  <2>4. QED
    BY <2>1, <2>2, <2>3, StatusMoves, TableMoves
<1>2. CASE ~Stoppable(r)
  BY <1>2, DeliversMoves DEF FlushOrReturn
<1>3. QED
  BY <1>1, <1>2

LEMMA StartMoves ==
    ASSUME IndInv, NEW r \in Recordings, StartStep(r)
    PROVE  \A q \in Recordings : Moves(q)
<1> USE DEF IndInv
<1>1. CASE Create(r)
  <2>1. PICK o \in CommitOutcome : Store(r, o, "starting")
    BY <1>1 DEF Create
  <2>2. status[r] = "absent" /\ UNCHANGED <<code, saved>>
    BY <1>1 DEF Create, Stages
  <2>3. CASE Applied(o)
    <3>1. status' = [status EXCEPT ![r] = "starting"] /\ status'[r] = "starting"
      BY <2>1, <2>3 DEF Store, TypeOK
    <3>2. code[r] = 0
      BY <2>2 DEF Stages
    <3>3. Lifecycle!Creates(r)
      BY <2>2, <3>1, <3>2 DEF Lifecycle!Creates
    <3>4. QED
      BY <2>2, <3>1, <3>3, OthersRest DEF Moves
  <2>4. CASE ~Applied(o)
    BY <2>1, <2>2, <2>4 DEF Store, Moves, Lifecycle!Rests
  <2>5. QED
    BY <2>3, <2>4
<1>2. CASE StartPublish(r)
  <2>1. PICK o \in CommitOutcome : Store(r, o, "ready")
    BY <1>2 DEF StartPublish
  <2>2. status[r] = "starting" /\ UNCHANGED <<code, saved>>
    BY <1>2 DEF StartPublish
  <2>3. "starting" \in RecordingStatus /\ "ready" \in RecordingStatus
    BY DEF RecordingStatus
  <2>4. QED
    BY <2>1, <2>2, <2>3, StatusMoves, TableMoves
<1>3. CASE StartFail(r)
  <2>1. UNCHANGED <<code, saved>>
    BY <1>3 DEF StartFail
  <2>2. CASE status[r] \in {"starting", "ready"}
    <3>1. PICK o \in CommitOutcome : Store(r, o, "error")
      BY <1>3, <2>2 DEF StartFail
    <3>2. status[r] \in RecordingStatus /\ "error" \in RecordingStatus
      BY <2>2 DEF RecordingStatus, TERMINAL_RECORDINGS
    <3>3. QED
      BY <2>1, <2>2, <3>1, <3>2, StatusMoves, TableMoves
  <2>3. CASE status[r] \notin {"starting", "ready"}
    BY <1>3, <2>1, <2>3 DEF StartFail, Moves, Lifecycle!Rests
  <2>4. QED
    BY <2>2, <2>3
<1>4. CASE CountActive(r) \/ Track(r) \/ StartCall(r) \/ StartTimesOut(r)
  BY <1>4 DEF CountActive, Track, StartCall, StartTimesOut, table, Moves, Lifecycle!Rests
<1>5. QED
  BY <1>1, <1>2, <1>3, <1>4 DEF StartStep

\* The flush publishes the code with the status, or the error without it.
LEMMA FlushMoves ==
    ASSUME IndInv, NEW r \in Recordings, FlushPublish(r)
    PROVE  \A q \in Recordings : Moves(q)
<1> USE DEF IndInv
<1>1. PICK o \in CommitOutcome :
          /\ Store(r, o, FlushedStatus(r))
          /\ code' = IF Applied(o) /\ flusher[r] = "publish" THEN [code EXCEPT ![r] = written[r]] ELSE code
  BY DEF FlushPublish
<1>2. status[r] = "stopping" /\ saved' = saved
  BY DEF FlushPublish
<1>3. "stopping" \in RecordingStatus /\ "stopped" \in RecordingStatus /\ "error" \in RecordingStatus
  BY DEF RecordingStatus, TERMINAL_RECORDINGS
<1>4. CASE Applied(o) /\ flusher[r] = "publish"
  <2>1. status' = [status EXCEPT ![r] = "stopped"] /\ status'[r] = "stopped"
    BY <1>1, <1>4 DEF Store, FlushedStatus, TypeOK
  <2>2. Lifecycle!Proceeds(r)
    BY <1>2, <1>3, <2>1, SameVocabulary, TableMoves DEF Lifecycle!Proceeds
  <2>3. QED
    BY <1>1, <1>2, <1>4, <2>1, <2>2, OthersRest DEF Moves
<1>5. CASE ~Applied(o)
  BY <1>1, <1>2, <1>5 DEF Store, Moves, Lifecycle!Rests
<1>6. CASE flusher[r] # "publish"
  <2>1. code' = code /\ FlushedStatus(r) = "error"
    BY <1>1, <1>6 DEF FlushedStatus
  <2>2. QED
    BY <1>1, <1>2, <1>3, <2>1, StatusMoves, TableMoves
<1>7. QED
  BY <1>4, <1>5, <1>6

LEMMA StopMoves ==
    ASSUME IndInv, NEW r \in Recordings, StopStep(r)
    PROVE  \A q \in Recordings : Moves(q)
<1> USE DEF IndInv
<1>1. ASSUME NEW p \in Stoppers, NEW save, StopBegin(p, r, save)
      PROVE  \A q \in Recordings : Moves(q)
  BY <1>1, FlushOrReturnMovesRow DEF StopBegin, Moves, Lifecycle!Rests
<1>2. ASSUME NEW p \in Stoppers, NEW save, Join(p, r, save)
      PROVE  \A q \in Recordings : Moves(q)
  BY <1>2, FlushOrReturnMovesRow DEF Join, Moves, Lifecycle!Rests
<1>3. ASSUME NEW p \in Stoppers, NEW save, Settle(p, r, save)
      PROVE  \A q \in Recordings : Moves(q)
  BY <1>3, DeliversMoves DEF Settle, Moves, Lifecycle!Rests
<1>4. CASE FlushBegins(r) \/ FlushReply(r)
  BY <1>4 DEF FlushBegins, FlushReply, table, Moves, Lifecycle!Rests
<1>5. CASE FlushPublish(r)
  BY <1>5, FlushMoves
<1>6. QED
  BY <1>1, <1>2, <1>3, <1>4, <1>5 DEF StopStep, Request, Continue, Sweep, Stoppers

LEMMA PollMoves ==
    ASSUME IndInv, NEW r \in Recordings, PollApply(r)
    PROVE  \A q \in Recordings : Moves(q)
<1> USE DEF IndInv
<1>1. CASE status[r] = "ready"
  <2>1. PICK o \in CommitOutcome :
            /\ IF poll[r] = "broken" THEN Store(r, o, "error") ELSE UNCHANGED status
            /\ code' = IF Applied(o) /\ poll[r] = "apply" THEN [code EXCEPT ![r] = polled[r]] ELSE code
    BY <1>1 DEF PollApply, StillReady
  <2>2. saved' = saved
    BY DEF PollApply
  <2>3. "ready" \in RecordingStatus /\ "error" \in RecordingStatus
    BY DEF RecordingStatus, TERMINAL_RECORDINGS
  <2>4. CASE poll[r] = "broken"
    BY <1>1, <2>1, <2>2, <2>3, <2>4, StatusMoves, TableMoves
  <2>5. CASE poll[r] = "apply"
    <3>1. status' = status /\ (code' = code \/ code' = [code EXCEPT ![r] = polled[r]])
      BY <2>1, <2>5
    <3>2. Lifecycle!Proceeds(r)
      BY <1>1, <2>2, <2>3, <3>1, SameVocabulary, TableMoves DEF Lifecycle!Proceeds
    <3>3. QED
      BY <2>2, <3>1, <3>2, OthersRest DEF Moves
  <2>6. QED
    BY <2>4, <2>5 DEF PollApply
<1>2. CASE status[r] # "ready"
  BY <1>2 DEF PollApply, StillReady, Moves, Lifecycle!Rests
<1>3. QED
  BY <1>1, <1>2

LEMMA RestartMoves ==
    ASSUME IndInv, Restart
    PROVE  \A q \in Recordings : Moves(q)
<1> SUFFICES ASSUME NEW q \in Recordings PROVE Moves(q)
  OBVIOUS
<1>1. code'[q] = code[q] /\ saved'[q] = saved[q]
  BY DEF Restart
<1>2. CASE q \in Interrupted
  <2>1. status[q] \in {"starting", "ready", "stopping"} /\ status'[q] = "error"
    BY <1>2 DEF Interrupted, Active, Restart
  <2>2. status[q] \in RecordingStatus /\ status'[q] \in RecordingStatus
    BY <2>1 DEF RecordingStatus, TERMINAL_RECORDINGS
  <2>3. QED
    BY <1>1, <2>1, <2>2, SameVocabulary, TableMoves DEF Moves, Lifecycle!Proceeds
<1>3. CASE q \notin Interrupted
  BY <1>1, <1>3 DEF Restart, Moves, Lifecycle!Rests
<1>4. QED
  BY <1>2, <1>3

LEMMA StepMovesRows ==
    ASSUME IndInv, [Next]_vars
    PROVE  \A q \in Recordings : Moves(q)
<1>1. ASSUME NEW r \in Recordings, NodeStep(r) PROVE \A q \in Recordings : Moves(q)
  BY <1>1 DEF NodeStep, NodeReady, NodeStartFails, UserActs, SessionEnds,
              SessionFlushes, table, Moves, Lifecycle!Rests
<1>2. ASSUME NEW r \in Recordings, PollStep(r) PROVE \A q \in Recordings : Moves(q)
  <2>1. CASE PollBegin(r) \/ PollRead(r) \/ PollTarget(r) \/ PollTargetMissing(r)
    BY <2>1 DEF PollBegin, PollRead, PollTarget, PollTargetMissing, ControllerDies, table,
                Moves, Lifecycle!Rests
  <2>2. QED
    BY <1>2, <2>1, PollMoves DEF PollStep
<1>3. ASSUME NEW r \in Recordings, Expire(r) PROVE \A q \in Recordings : Moves(q)
  BY <1>3 DEF Expire, Moves, Lifecycle!Rests
<1>4. CASE (\E p \in Requests : Disconnect(p)) \/ ControllerLost \/ AtRest \/ UNCHANGED vars
  BY <1>4 DEF Disconnect, ControllerLost, ControllerDies, AtRest, vars, table, Moves, Lifecycle!Rests
<1>5. QED
  BY <1>1, <1>2, <1>3, <1>4, StartMoves, StopMoves, RestartMoves DEF Next

\* The requests, tasks, polls and failures implement the lifecycle: an earlier
\* code never replaces the final one, and only that one is saved.
THEOREM RecordingsImplementLifecycle == Spec => ImplementsLifecycle
<1>1. Init => Lifecycle!Init
  BY DEF Init, Lifecycle!Init
<1>2. IndInv /\ IndInv' /\ [Next]_vars => [Lifecycle!Next]_(Lifecycle!recordingVars)
  <2> SUFFICES ASSUME IndInv, IndInv', [Next]_vars PROVE Lifecycle!Next
    OBVIOUS
  <2>1. \A q \in Recordings : Moves(q)
    BY StepMovesRows
  <2>2. QED
    BY <2>1, SameVocabulary DEF Moves, Lifecycle!Next, IndInv, TypeOK
<1>3. QED
  BY <1>1, <1>2, StagesHold, PTL DEF Spec, ImplementsLifecycle, Lifecycle!Spec

-----------------------------------------------------------------------------
(* What follows for the versions                                           *)

\* Only what a stopped recording has, and will keep, is saved from it.
SavedIsFinal == \A r \in Recordings : saved[r] # {} => status[r] = "stopped" /\ saved[r] = {code[r]}

\* A recording that is over stays as it is.
OverStays == [][\A r \in Recordings :
                   /\ status[r] \in TERMINAL_RECORDINGS => status'[r] = status[r]
                   /\ status[r] = "stopped" => code'[r] = code[r]]_vars

LEMMA OverMoves ==
    ASSUME NEW r, Moves(r)
    PROVE  /\ status[r] \in TERMINAL_RECORDINGS => status'[r] = status[r]
           /\ status[r] = "stopped" => code'[r] = code[r]
<1> USE SameVocabulary
<1>1. CASE Lifecycle!Proceeds(r)
  <2>1. status[r] \in TERMINAL_RECORDINGS => status'[r] = status[r]
    BY <1>1 DEF Lifecycle!Proceeds, Allowed, RECORDING_TRANSITIONS, RecordingStatus, TERMINAL_RECORDINGS
  <2>2. QED
    BY <1>1, <2>1 DEF Lifecycle!Proceeds
<1>2. CASE Lifecycle!Creates(r) \/ Lifecycle!Saves(r) \/ Lifecycle!Rests(r)
  BY <1>2 DEF Lifecycle!Creates, Lifecycle!Saves, Lifecycle!Rests, TERMINAL_RECORDINGS
<1>3. QED
  BY <1>1, <1>2 DEF Moves

\* A late poll or a second stop never changes the code a version was saved with.
THEOREM OverRecordingsStay == Spec => OverStays
<1>1. IndInv /\ [Next]_vars =>
        [\A r \in Recordings : /\ status[r] \in TERMINAL_RECORDINGS => status'[r] = status[r]
                               /\ status[r] = "stopped" => code'[r] = code[r]]_vars
  BY StepMovesRows, OverMoves
<1>2. QED
  BY <1>1, StagesHold, PTL DEF Spec, OverStays

\* However often a recording is saved and whatever polls it meanwhile, every
\* version saved from it has the one code it was stopped with.
THEOREM OneCodeIsSaved == Spec => []SavedIsFinal
<1>1. Init => SavedIsFinal
  BY DEF Init, SavedIsFinal
<1>2. IndInv /\ SavedIsFinal /\ [Next]_vars => SavedIsFinal'
  <2> SUFFICES ASSUME IndInv, SavedIsFinal, [Next]_vars, NEW r \in Recordings, saved'[r] # {}
               PROVE  status'[r] = "stopped" /\ saved'[r] = {code'[r]}
    BY DEF SavedIsFinal
  <2>1. Moves(r)
    BY StepMovesRows
  <2>2. CASE saved'[r] = saved[r]
    <3>1. status[r] = "stopped" /\ saved[r] = {code[r]}
      BY <2>2 DEF SavedIsFinal
    <3>2. QED
      BY <2>1, <2>2, <3>1, OverMoves DEF TERMINAL_RECORDINGS
  <2>3. CASE Lifecycle!Saves(r)
    BY <2>3 DEF Lifecycle!Saves, SavedIsFinal
  <2>4. QED
    BY <2>1, <2>2, <2>3 DEF Moves, Lifecycle!Creates, Lifecycle!Proceeds, Lifecycle!Rests
<1>3. QED
  BY <1>1, <1>2, StagesHold, PTL DEF Spec

=============================================================================
