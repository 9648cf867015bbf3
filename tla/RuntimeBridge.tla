---------------------------- MODULE RuntimeBridge ----------------------------
(***************************************************************************)
(* Runtime (app/runtime.py) and the Node controllers it starts: calls over *)
(* one controller's standard streams, its reader, the events of a run, the *)
(* loss of a controller, and the next call starting a fresh one.  The      *)
(* calls of RunJobs and Recordings go through it; what the operations do   *)
(* is modelled there.                                                      *)
(***************************************************************************)
EXTENDS Integers, Sequences, FiniteSets

CONSTANTS Calls,      \* calls, each with an id of its own (uuid4)
          MaxEvents,  \* bound: events of one call
          MaxLosses   \* bound: controllers that die or break their protocol

ASSUME BoundsAssumption == MaxEvents \in Nat /\ MaxLosses \in Nat

VARIABLES
    current,   \* the controller in self.process, 0 before the first
    process,   \* each controller's process
    reader,    \* the _read task of each controller
    storing,   \* the line of the event it is committing
    received,  \* the calls each controller is carrying out
    out,       \* the lines it has written and nobody has read
    call,      \* where each _call is
    sentTo,    \* the controller it was written to
    spawning,  \* the calls inside create_subprocess_exec, holding the lock
    outcome,   \* how each call ended
    executed,  \* the calls carried out
    stored,    \* the events of each call that are in the database
    written,   \* how many events of each call a controller wrote
    closing,   \* how far Runtime.close is
    losses     \* bound counter

controllerVars == <<process, reader, storing, received, out>>
callVars       == <<current, call, sentTo, spawning, outcome>>
worldVars      == <<executed, stored, written>>
vars == <<controllerVars, callVars, worldVars, closing, losses>>

\* One per loss, one after a close, and the first.
Controllers == 1..(MaxLosses + 2)

\* "dead": exited, but its return code is not known yet; "reaped": it is.
ProcessState == {"unborn", "up", "dead", "reaped"}
ReaderState  == {"none", "reading", "ended"}
\* The lines of a controller; a call's events are numbered from 1.
Line         == [call : Calls, kind : {"event", "answer", "broken"}, event : Nat]

Init ==
    /\ current = 0
    /\ process = [g \in Controllers |-> "unborn"]
    /\ reader = [g \in Controllers |-> "none"]
    /\ storing = [g \in Controllers |-> {}]
    /\ received = [g \in Controllers |-> {}]
    /\ out = [g \in Controllers |-> <<>>]
    /\ call = [c \in Calls |-> "idle"]
    /\ sentTo = [c \in Calls |-> 0]
    /\ spawning = {}
    /\ outcome = [c \in Calls |-> "none"]
    /\ executed = {}
    /\ stored = [c \in Calls |-> {}] /\ written = [c \in Calls |-> 0]
    /\ closing = "open" /\ losses = 0

\* self.process is set and its return code is not.
Running == current # 0 /\ process[current] # "reaped"

Waiting(c) == call[c] = "waiting"

\* The ends of calls: each leaves pending and events.
End(ended, how) ==
    /\ call' = [c \in Calls |-> IF c \in ended THEN "ended" ELSE call[c]]
    /\ outcome' = [c \in Calls |-> IF c \in ended THEN how ELSE outcome[c]]

-----------------------------------------------------------------------------
(* _call and _ensure                                                       *)

Begin(c) ==
    /\ call[c] = "idle" /\ call' = [call EXCEPT ![c] = "ensuring"]
    /\ UNCHANGED <<controllerVars, current, sentTo, spawning, outcome, worldVars, closing, losses>>

\* The future is registered and the line written, with no await in between.
Send(c, g) ==
    /\ call' = [call EXCEPT ![c] = "waiting"]
    /\ sentTo' = [sentTo EXCEPT ![c] = g]
    /\ UNCHANGED outcome

\* Mutant: _ensure without the lock around it.
NoLock == TRUE

LockFree == spawning = {}

\* Mutant: a call that ends inside _ensure keeps the lock.
Held(c) == spawning

\* async with: the lock is released however the call leaves _ensure.
Released(c) == spawning \ {c}

\* A controller that has exited unnoticed takes the line and loses it.
Reuse(c) ==
    /\ call[c] = "ensuring" /\ LockFree /\ Running
    /\ Send(c, current)
    /\ received' = [received EXCEPT ![current] = IF process[current] = "up" THEN @ \cup {c} ELSE @]
    /\ UNCHANGED <<process, reader, storing, out, current, spawning, worldVars, closing, losses>>

Spawn(c) ==
    /\ call[c] = "ensuring" /\ LockFree /\ ~Running /\ c \notin spawning
    /\ spawning' = spawning \cup {c}
    /\ UNCHANGED <<controllerVars, current, call, sentTo, outcome, worldVars, closing, losses>>

\* The fresh controller is self.process, and its reader starts.
Spawned(c) ==
    LET g == current + 1 IN
    /\ c \in spawning /\ spawning' = Released(c)
    /\ g \in Controllers /\ current' = g
    /\ process' = [process EXCEPT ![g] = "up"]
    /\ reader' = [reader EXCEPT ![g] = "reading"]
    /\ received' = [received EXCEPT ![g] = {c}]
    /\ Send(c, g)
    /\ UNCHANGED <<storing, out, worldVars, closing, losses>>

\* The timeout, the caller's cancellation, or an OSError of the spawn or of
\* drain: none of them tells the controller.
GiveUp(c) ==
    /\ call[c] \in {"ensuring", "waiting"} /\ End({c}, "failed")
    /\ spawning' = Released(c)
    /\ UNCHANGED <<controllerVars, current, sentTo, worldVars, closing, losses>>

-----------------------------------------------------------------------------
(* A controller (runtime/bridge.ts)                                        *)

Writes(g, line) == out' = [out EXCEPT ![g] = Append(@, line)]

WriteEvent(g, c) ==
    /\ process[g] = "up" /\ c \in received[g] /\ written[c] < MaxEvents
    /\ Writes(g, [call |-> c, kind |-> "event", event |-> written[c] + 1])
    /\ written' = [written EXCEPT ![c] = @ + 1]
    /\ UNCHANGED <<process, reader, storing, received, callVars, executed, stored, closing, losses>>

\* A result or an error; "broken" is a reply without either, as a target that
\* is undefined makes it.
Answer(g, c, kind) ==
    /\ process[g] = "up" /\ c \in received[g]
    /\ losses' = IF kind = "broken" THEN losses + 1 ELSE losses
    /\ losses' <= MaxLosses
    /\ received' = [received EXCEPT ![g] = @ \ {c}]
    /\ executed' = executed \cup {c}
    /\ Writes(g, [call |-> c, kind |-> kind, event |-> 0])
    /\ UNCHANGED <<process, reader, storing, callVars, stored, written, closing>>

Die(g) ==
    /\ process[g] = "up" /\ losses < MaxLosses
    /\ losses' = losses + 1
    /\ process' = [process EXCEPT ![g] = "dead"]
    /\ UNCHANGED <<reader, storing, received, out, callVars, worldVars, closing>>

\* The event loop learns the return code.
Reap(g) ==
    /\ process[g] = "dead" /\ process' = [process EXCEPT ![g] = "reaped"]
    /\ UNCHANGED <<reader, storing, received, out, callVars, worldVars, closing, losses>>

-----------------------------------------------------------------------------
(* _read                                                                   *)

\* Mutant: a reader that ends wakes nobody.
NobodyPending == {}

\* self.pending holds the calls of every controller.
Pending == {c \in Calls : Waiting(c)}

\* The finally block: every pending call fails, the process is killed.
ReaderEnds(g) ==
    /\ reader' = [reader EXCEPT ![g] = "ended"]
    /\ storing' = [storing EXCEPT ![g] = {}]
    /\ End(Pending, "failed")

\* Mutant: replies go to whoever waits, not by the id.
AnyWaiting(line) == Pending

\* The pending call the line is for, if it still waits.
Addressee(line) == {line.call} \cap Pending

\* Mutant: the reader hands the event over and reads on.
NeverAwaits(g) == TRUE

\* The reader awaits the commit of an event before it reads on.
Awaits(g) == storing[g] = {}

\* The next line.  An event goes to the call's emit, an answer ends the call;
\* a line for a call that no longer waits is dropped.
ReadLine(g) ==
    /\ reader[g] = "reading" /\ Awaits(g) /\ out[g] # <<>>
    /\ LET line == Head(out[g])
           to   == Addressee(line)
       IN  /\ line.kind = "broken" => to = {}
           /\ End(IF line.kind = "answer" THEN to ELSE {}, "answered")
           /\ storing' = IF line.kind = "event" /\ to # {}
                         THEN [storing EXCEPT ![g] = @ \cup {line}] ELSE storing
    /\ out' = [out EXCEPT ![g] = Tail(@)]
    /\ UNCHANGED <<process, reader, received, current, sentTo, spawning, worldVars, closing, losses>>

\* emit's commit.
StoreEvent(g) ==
    /\ \E line \in storing[g] :
          /\ storing' = [storing EXCEPT ![g] = @ \ {line}]
          /\ stored' = [stored EXCEPT ![line.call] = @ \cup {line.event}]
    /\ UNCHANGED <<process, reader, received, out, callVars, executed, written, closing, losses>>

\* A reply without a result, or an event that cannot be stored, ends the
\* reader, which kills a controller that may be in good health.
ReaderBreaks(g) ==
    /\ reader[g] = "reading"
    /\ \/ /\ Awaits(g) /\ out[g] # <<>> /\ UNCHANGED losses
          /\ Head(out[g]).kind = "broken" /\ Addressee(Head(out[g])) # {}
       \/ /\ storing[g] # {} /\ losses < MaxLosses /\ losses' = losses + 1
    /\ ReaderEnds(g)
    /\ process' = [process EXCEPT ![g] = IF @ = "up" THEN "dead" ELSE @]
    /\ UNCHANGED <<received, out, current, sentTo, spawning, worldVars, closing>>

\* The controller has exited and every line is read.
EndOfOutput(g) ==
    /\ reader[g] = "reading" /\ Awaits(g) /\ out[g] = <<>> /\ process[g] \in {"dead", "reaped"}
    /\ ReaderEnds(g)
    /\ UNCHANGED <<process, received, out, current, sentTo, spawning, worldVars, closing, losses>>

-----------------------------------------------------------------------------
(* close, at the end of the lifespan                                       *)

\* Its own "close" is a call like the others; then stdin is closed, and the
\* exit awaited or forced.
CloseStops ==
    /\ closing = "open" /\ Running
    /\ closing' = "stopped"
    /\ process' = [process EXCEPT ![current] = "reaped"]
    /\ UNCHANGED <<reader, storing, received, out, callVars, worldVars, losses>>

\* Of the readers the latest is cancelled.
CloseCancels ==
    /\ closing = "stopped" \/ (closing = "open" /\ ~Running)
    /\ closing' = "closed"
    /\ IF current # 0 /\ reader[current] = "reading"
       THEN ReaderEnds(current) ELSE UNCHANGED <<reader, storing, call, outcome>>
    /\ process' = [g \in Controllers |-> IF g = current /\ process[g] = "up" THEN "dead" ELSE process[g]]
    /\ UNCHANGED <<received, out, current, sentTo, spawning, worldVars, losses>>

AtRest == (\A c \in Calls : call[c] = "ended") /\ UNCHANGED vars

ReaderStep(g) == ReadLine(g) \/ ReaderBreaks(g) \/ EndOfOutput(g) \/ StoreEvent(g)

Next ==
    \/ \E c \in Calls : Begin(c) \/ Reuse(c) \/ Spawn(c) \/ Spawned(c) \/ GiveUp(c)
    \/ \E g \in Controllers, c \in Calls :
          WriteEvent(g, c) \/ \E kind \in {"answer", "broken"} : Answer(g, c, kind)
    \/ \E g \in Controllers : Die(g) \/ Reap(g) \/ ReaderStep(g)
    \/ CloseStops \/ CloseCancels
    \/ AtRest

Spec == Init /\ [][Next]_vars

\* The event loop runs a reader that has something to do.  Nothing obliges a
\* controller to answer, and no timeout to fire.
FairSpec == Spec /\ \A g \in Controllers : WF_vars(ReaderStep(g))

-----------------------------------------------------------------------------

\* The types; a call that waits has been written to a controller.
TypeOK ==
    /\ current \in {0} \cup Controllers
    /\ process \in [Controllers -> ProcessState] /\ reader \in [Controllers -> ReaderState]
    /\ storing \in [Controllers -> SUBSET Line] /\ received \in [Controllers -> SUBSET Calls]
    /\ out \in [Controllers -> Seq(Line)]
    /\ call \in [Calls -> {"idle", "ensuring", "waiting", "ended"}]
    /\ sentTo \in [Calls -> {0} \cup Controllers]
    /\ \A c \in Calls : Waiting(c) => sentTo[c] # 0
    /\ spawning \subseteq {c \in Calls : call[c] = "ensuring"}
    /\ outcome \in [Calls -> {"none", "answered", "failed"}]
    /\ executed \subseteq Calls
    /\ stored \in [Calls -> SUBSET Nat] /\ written \in [Calls -> Nat]
    /\ closing \in {"open", "stopped", "closed"} /\ losses \in 0..MaxLosses

\* However many callers find the controller gone at the same time, there is
\* only ever one that may still be running (_ensure's lock).
OneController ==
    \A g \in Controllers : process[g] \in {"up", "dead"} => g = current

\* When a run's call is answered, every event written for it is in the
\* database: run.finished, which comes next, is then the last (Jobs.finish).
EventsBeforeAnswer ==
    \A c \in Calls : outcome[c] = "answered" => stored[c] = 1..written[c]

\* Callers see calls executed at most once, never repeated on a fresh
\* controller, and ended once.
Promise == INSTANCE RuntimeCalls WITH outcome <- outcome, executed <- executed
ImplementsCalls == Promise!Spec

\* Whoever waits for a controller that has exited is told so, timeout or
\* not, as long as its reader is there to see the end.
LossWakesCallers ==
    \A c \in Calls : \A g \in Controllers :
       (Waiting(c) /\ sentTo[c] = g /\ process[g] \in {"dead", "reaped"} /\ reader[g] = "reading")
          ~> ~Waiting(c)

\* Whoever is left waiting although its controller's reader has ended, and
\* learns nothing before its timeout, was not carried out and will not be:
\* only a controller that has exited takes a line after that.
LeftBehindNotCarriedOut ==
    \A c \in Calls : Waiting(c) /\ reader[sentTo[c]] # "reading" =>
       c \notin executed /\ \A g \in Controllers : process[g] = "up" => c \notin received[g]

\* "Stop a broken protocol reader; subsequent operations need a fresh
\* controller" (runtime.py): nobody waits on a controller whose reader has
\* ended, since the end failed everyone there was.
FreshAfterBreak ==
    \A c \in Calls : Waiting(c) => reader[sentTo[c]] = "reading"

=============================================================================
