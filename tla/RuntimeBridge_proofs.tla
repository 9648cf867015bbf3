------------------------ MODULE RuntimeBridge_proofs ------------------------
(***************************************************************************)
(* Proofs about RuntimeBridge, for any calls and bounds.  The arguments: a *)
(* call spawns a controller only while it holds the lock and the last one  *)
(* has been reaped; and a controller answers a call it was sent, once.     *)
(***************************************************************************)
EXTENDS RuntimeBridge, TLAPS

\* The lock of _ensure, and what its holder found.
Locked ==
    /\ \A c, d \in spawning : c = d
    /\ spawning # {} => ~Running

\* The controllers before and after the current one.
Generations ==
    /\ \A g \in Controllers : g < current => process[g] = "reaped"
    /\ \A g \in Controllers : g > current => process[g] = "unborn"

\* A call is at one controller, until that has carried it out.
AtOneController ==
    /\ \A g \in Controllers : \A c \in received[g] :
          sentTo[c] = g /\ c \notin executed /\ call[c] \in {"waiting", "ended"}
    /\ \A c \in executed : call[c] \in {"waiting", "ended"}
    /\ \A c \in Calls : outcome[c] # "none" => call[c] = "ended"

AnswersAreExecuted ==
    \A g \in Controllers : \A i \in 1..Len(out[g]) :
       out[g][i].kind = "answer" => out[g][i].call \in executed

IInv == TypeOK /\ Locked /\ Generations /\ AtOneController /\ AnswersAreExecuted

-----------------------------------------------------------------------------

\* What ending some calls does.
LEMMA EndCalls ==
    ASSUME TypeOK, NEW ended \in SUBSET Calls, NEW how \in {"answered", "failed"}, End(ended, how)
    PROVE  /\ call' \in [Calls -> {"idle", "ensuring", "waiting", "ended"}]
           /\ outcome' \in [Calls -> {"none", "answered", "failed"}]
           /\ \A c \in Calls : /\ c \in ended => call'[c] = "ended" /\ outcome'[c] = how
                               /\ c \notin ended => call'[c] = call[c] /\ outcome'[c] = outcome[c]
BY DEF End, TypeOK

\* The head of a controller's lines is a line, the rest are lines.
LEMMA Lines ==
    ASSUME TypeOK, NEW g \in Controllers, out[g] # <<>>
    PROVE  /\ Head(out[g]) \in Line /\ Tail(out[g]) \in Seq(Line)
           /\ Head(out[g]) = out[g][1] /\ Len(out[g]) \in Nat /\ Len(out[g]) >= 1
           /\ Len(Tail(out[g])) = Len(out[g]) - 1
           /\ \A i \in 1..Len(Tail(out[g])) : Tail(out[g])[i] = out[g][i + 1]
<1>1. out[g] \in Seq(Line)
  BY DEF TypeOK
<1>2. QED
  BY <1>1

LEMMA InitHolds == Init => IInv
<1>1. SUFFICES ASSUME Init PROVE IInv
  OBVIOUS
<1>2. TypeOK
  BY <1>1, BoundsAssumption DEF Init, TypeOK, ProcessState, ReaderState, Waiting, Controllers
<1>3. Locked /\ Generations /\ AtOneController
  BY <1>1 DEF Init, Locked, Generations, AtOneController, Running
<1>4. AnswersAreExecuted
  BY <1>1 DEF Init, AnswersAreExecuted
<1>5. QED
  BY <1>2, <1>3, <1>4 DEF IInv

\* The steps of a caller up to its line being written.
LEMMA CallerKeeps ==
    ASSUME IInv, NEW c \in Calls, Begin(c) \/ Reuse(c) \/ Spawn(c) \/ Spawned(c)
    PROVE  IInv'
<1> USE DEF IInv
<1>1. CASE Begin(c)
  <2>1. UNCHANGED <<process, reader, storing, received, out, current, sentTo, spawning, outcome,
                    executed, stored, written, closing, losses>>
    BY <1>1 DEF Begin, controllerVars, worldVars
  <2>2. TypeOK'
    BY <1>1, <2>1 DEF Begin, TypeOK, Waiting
  <2>3. QED
    BY <1>1, <2>1, <2>2
    DEF Begin, TypeOK, Locked, Generations, AtOneController, AnswersAreExecuted, Running
<1>2. CASE Reuse(c)
  <2>1. UNCHANGED <<process, reader, storing, out, current, spawning, outcome,
                    executed, stored, written, closing, losses>>
        /\ spawning = {} /\ current # 0
    BY <1>2 DEF Reuse, Send, worldVars, LockFree, Running
  <2>2. current \in Controllers /\ call[c] = "ensuring"
    BY <1>2, <2>1 DEF TypeOK, Reuse
  <2>3. TypeOK'
    BY <1>2, <2>1, <2>2 DEF Reuse, Send, TypeOK, Waiting, Controllers
  <2>4. AtOneController'
    <3>1. \A g \in Controllers : \A d \in received'[g] : d \in received[g] \/ (d = c /\ g = current)
      BY <1>2, <2>2 DEF Reuse, TypeOK
    <3>2. /\ sentTo'[c] = current /\ call'[c] = "waiting" /\ c \notin executed /\ outcome[c] = "none"
          /\ \A d \in Calls \ {c} : sentTo'[d] = sentTo[d] /\ call'[d] = call[d]
      BY <1>2, <2>2 DEF Reuse, Send, TypeOK, AtOneController
    <3>3. \A g \in Controllers : received[g] \subseteq Calls /\ c \notin received[g]
      BY <2>2 DEF TypeOK, AtOneController
    <3>4. \A g \in Controllers : \A d \in received'[g] :
             sentTo'[d] = g /\ d \notin executed /\ call'[d] \in {"waiting", "ended"}
      BY <3>1, <3>2, <3>3 DEF AtOneController
    <3>5. (\A d \in executed : call'[d] \in {"waiting", "ended"})
          /\ \A d \in Calls : outcome[d] # "none" => call'[d] = "ended"
      BY <3>2 DEF AtOneController, TypeOK
    <3>6. QED
      BY <2>1, <3>4, <3>5 DEF AtOneController
  <2>5. QED
    BY <2>1, <2>3, <2>4 DEF Locked, Generations, AnswersAreExecuted, Running
<1>3. CASE Spawn(c)
  <2>1. /\ UNCHANGED <<process, reader, storing, received, out, current, call, sentTo, outcome,
                       executed, stored, written, closing, losses>>
        /\ spawning = {} /\ spawning' = spawning \cup {c} /\ ~Running /\ call[c] = "ensuring"
    BY <1>3 DEF Spawn, controllerVars, worldVars, LockFree
  <2>2. TypeOK'
    BY <2>1 DEF TypeOK, Waiting
  <2>3. QED
    BY <2>1, <2>2 DEF Locked, Generations, AtOneController, AnswersAreExecuted, Running
<1>4. CASE Spawned(c)
  <2> DEFINE g == current + 1
  <2>1. /\ UNCHANGED <<storing, out, outcome, executed, stored, written, closing, losses>>
        /\ c \in spawning /\ spawning' = spawning \ {c} /\ g \in Controllers /\ current' = g
        /\ process' = [process EXCEPT ![g] = "up"] /\ reader' = [reader EXCEPT ![g] = "reading"]
        /\ received' = [received EXCEPT ![g] = {c}]
        /\ call' = [call EXCEPT ![c] = "waiting"] /\ sentTo' = [sentTo EXCEPT ![c] = g]
    BY <1>4 DEF Spawned, Send, worldVars, Released
  <2>2. spawning = {c} /\ spawning' = {} /\ ~Running /\ call[c] = "ensuring"
    BY <2>1 DEF Locked, TypeOK
  <2>3. current \in Int /\ \A h \in Controllers : h \in Int
    BY DEF TypeOK, Controllers
  <2>4. TypeOK'
    <3>1. \A d \in Calls : Waiting(d)' => sentTo'[d] # 0
      BY <2>1, <2>3 DEF TypeOK, Waiting, Controllers
    <3>2. QED
      BY <2>1, <2>2, <3>1 DEF TypeOK, ProcessState, ReaderState
  <2>5. Generations'
    <3>1. current # 0 => current \in Controllers /\ process[current] = "reaped"
      BY <2>2 DEF Running, TypeOK
    <3>2. \A h \in Controllers : h < g => process[h] = "reaped"
      BY <2>3, <3>1 DEF Generations, Controllers
    <3>3. QED
      BY <2>1, <2>3, <3>2 DEF Generations, TypeOK
  <2>6. AtOneController'
    BY <2>1, <2>2 DEF AtOneController, TypeOK
  <2>7. QED
    BY <2>1, <2>2, <2>4, <2>5, <2>6 DEF Locked, AnswersAreExecuted
<1>5. QED
  BY <1>1, <1>2, <1>3, <1>4

\* A call may end at any time: only the lock depends on it.
LEMMA EndKeeps ==
    ASSUME IInv, NEW ended \in SUBSET Calls, NEW how \in {"answered", "failed"}, End(ended, how),
           spawning' = spawning \ ended, current' = current,
           UNCHANGED <<received, sentTo, executed>>
    PROVE  /\ call' \in [Calls -> {"idle", "ensuring", "waiting", "ended"}]
           /\ outcome' \in [Calls -> {"none", "answered", "failed"}]
           /\ \A c \in Calls : Waiting(c)' => sentTo'[c] # 0
           /\ spawning' \subseteq {c \in Calls : call'[c] = "ensuring"}
           /\ AtOneController'
<1>1. TypeOK /\ AtOneController
  BY DEF IInv
<1>2. /\ call' \in [Calls -> {"idle", "ensuring", "waiting", "ended"}]
      /\ outcome' \in [Calls -> {"none", "answered", "failed"}]
      /\ \A c \in Calls : /\ c \in ended => call'[c] = "ended" /\ outcome'[c] = how
                          /\ c \notin ended => call'[c] = call[c] /\ outcome'[c] = outcome[c]
  BY <1>1, EndCalls
<1>3. AtOneController'
  BY <1>1, <1>2 DEF AtOneController, TypeOK
<1>4. QED
  BY <1>1, <1>2, <1>3 DEF TypeOK, Waiting

\* Calls that wait are not inside _ensure.
LEMMA PendingNotSpawning ==
    ASSUME TypeOK, NEW ended \in SUBSET Pending
    PROVE  ended \in SUBSET Calls /\ spawning = spawning \ ended
BY DEF TypeOK, Pending, Waiting

LEMMA GiveUpKeeps ==
    ASSUME IInv, NEW c \in Calls, GiveUp(c)
    PROVE  IInv'
<1>1. /\ UNCHANGED <<process, reader, storing, received, out, current, sentTo,
                     executed, stored, written, closing, losses>>
      /\ spawning' = spawning \ {c} /\ End({c}, "failed")
  BY DEF GiveUp, controllerVars, worldVars, Released
<1>2. TypeOK' /\ AtOneController'
  BY <1>1, EndKeeps DEF IInv, TypeOK
<1>3. QED
  BY <1>1, <1>2 DEF IInv, Locked, Generations, AnswersAreExecuted, Running

-----------------------------------------------------------------------------

\* A controller appends a line, which if an answer is of a call carried out.
LEMMA LineKeeps ==
    ASSUME IInv, NEW g \in Controllers, NEW line \in Line, Writes(g, line),
           executed \subseteq executed', line.kind = "answer" => line.call \in executed'
    PROVE  out' \in [Controllers -> Seq(Line)] /\ AnswersAreExecuted'
<1>1. out \in [Controllers -> Seq(Line)] /\ out' = [out EXCEPT ![g] = Append(@, line)]
  BY DEF IInv, TypeOK, Writes
<1>2. /\ out'[g] = Append(out[g], line) /\ out[g] \in Seq(Line)
      /\ \A h \in Controllers \ {g} : out'[h] = out[h]
  BY <1>1
<1>3. out' \in [Controllers -> Seq(Line)]
  BY <1>1, <1>2
<1>4. ASSUME NEW i \in 1..Len(out'[g]), out'[g][i].kind = "answer" PROVE out'[g][i].call \in executed'
  <2>1. CASE i = Len(out[g]) + 1
    BY <1>2, <1>4, <2>1
  <2>2. CASE i # Len(out[g]) + 1
    <3>1. i \in 1..Len(out[g]) /\ out'[g][i] = out[g][i]
      BY <1>2, <1>4, <2>2
    <3>2. QED
      BY <1>4, <3>1 DEF IInv, AnswersAreExecuted
  <2>3. QED
    BY <2>1, <2>2
<1>5. AnswersAreExecuted'
  BY <1>2, <1>4 DEF IInv, AnswersAreExecuted
<1>6. QED
  BY <1>3, <1>5

LEMMA ControllerKeeps ==
    ASSUME IInv, NEW g \in Controllers,
           \/ \E c \in Calls : WriteEvent(g, c) \/ \E kind \in {"answer", "broken"} : Answer(g, c, kind)
           \/ Die(g) \/ Reap(g)
    PROVE  IInv'
<1> USE DEF IInv
<1>1. ASSUME NEW c \in Calls, WriteEvent(g, c) PROVE IInv'
  <2>1. UNCHANGED <<process, reader, storing, received, current, call, sentTo, spawning, outcome,
                    executed, stored, closing, losses>>
    BY <1>1 DEF WriteEvent, callVars
  <2>2. out' \in [Controllers -> Seq(Line)] /\ AnswersAreExecuted'
    <3>1. written[c] + 1 \in Nat
      BY DEF TypeOK
    <3>2. QED
      BY <1>1, <2>1, <3>1, LineKeeps DEF WriteEvent, Line
  <2>3. TypeOK'
    BY <1>1, <2>1, <2>2 DEF WriteEvent, TypeOK, Waiting
  <2>4. QED
    BY <2>1, <2>2, <2>3 DEF Locked, Generations, AtOneController, Running
<1>2. ASSUME NEW c \in Calls, NEW kind \in {"answer", "broken"}, Answer(g, c, kind) PROVE IInv'
  <2>1. /\ UNCHANGED <<process, reader, storing, current, call, sentTo, spawning, outcome,
                       stored, written, closing>>
        /\ c \in received[g] /\ received' = [received EXCEPT ![g] = @ \ {c}]
        /\ executed' = executed \cup {c} /\ Writes(g, [call |-> c, kind |-> kind, event |-> 0])
        /\ losses' \in 0..MaxLosses
    BY <1>2, BoundsAssumption DEF Answer, callVars, TypeOK
  <2>2. out' \in [Controllers -> Seq(Line)] /\ AnswersAreExecuted'
    BY <2>1, LineKeeps DEF Line
  <2>3. TypeOK'
    BY <2>1, <2>2 DEF TypeOK, Waiting
  <2>4. AtOneController'
    BY <2>1 DEF AtOneController, TypeOK
  <2>5. QED
    BY <2>1, <2>2, <2>3, <2>4 DEF Locked, Generations, Running
<1>3. CASE Die(g)
  <2>1. /\ UNCHANGED <<reader, storing, received, out, current, call, sentTo, spawning, outcome,
                       executed, stored, written, closing>>
        /\ process[g] = "up" /\ process' = [process EXCEPT ![g] = "dead"] /\ losses' \in 0..MaxLosses
    BY <1>3, BoundsAssumption DEF Die, callVars, worldVars, TypeOK
  <2>2. TypeOK'
    BY <2>1 DEF TypeOK, ProcessState, Waiting
  <2>3. QED
    BY <2>1, <2>2 DEF Locked, Generations, AtOneController, AnswersAreExecuted, Running, TypeOK
<1>4. CASE Reap(g)
  <2>1. /\ UNCHANGED <<reader, storing, received, out, current, call, sentTo, spawning, outcome,
                       executed, stored, written, closing, losses>>
        /\ process[g] = "dead" /\ process' = [process EXCEPT ![g] = "reaped"]
    BY <1>4 DEF Reap, callVars, worldVars
  <2>2. TypeOK'
    BY <2>1 DEF TypeOK, ProcessState, Waiting
  <2>3. Locked'
    BY <2>1 DEF Locked, Running, TypeOK
  <2>4. Generations'
    BY <2>1 DEF Generations, TypeOK
  <2>5. QED
    BY <2>1, <2>2, <2>3, <2>4 DEF AtOneController, AnswersAreExecuted
<1>5. QED
  BY <1>1, <1>2, <1>3, <1>4

-----------------------------------------------------------------------------

LEMMA ReadKeeps ==
    ASSUME IInv, NEW g \in Controllers, ReadLine(g)
    PROVE  IInv'
<1> DEFINE line == Head(out[g])
           to == Addressee(line)
           ended == IF line.kind = "answer" THEN to ELSE {}
<1>1. /\ UNCHANGED <<process, reader, received, current, sentTo, spawning,
                     executed, stored, written, closing, losses>>
      /\ out[g] # <<>> /\ out' = [out EXCEPT ![g] = Tail(@)]
      /\ End(ended, "answered")
      /\ storing' = IF line.kind = "event" /\ to # {}
                    THEN [storing EXCEPT ![g] = @ \cup {line}] ELSE storing
  BY DEF ReadLine, worldVars
<1>2. line \in Line /\ ended \in SUBSET Pending
  BY <1>1, Lines DEF Addressee, Pending, IInv
<1>3. ended \in SUBSET Calls /\ spawning' = spawning \ ended
  BY <1>1, <1>2, PendingNotSpawning DEF IInv
<1> HIDE DEF ended, to, line
<1>4. /\ Tail(out[g]) \in Seq(Line)
      /\ \A i \in 1..Len(Tail(out[g])) : i + 1 \in 1..Len(out[g]) /\ Tail(out[g])[i] = out[g][i + 1]
  BY <1>1, Lines DEF IInv
<1>5. TypeOK' /\ AtOneController'
  BY <1>1, <1>2, <1>3, <1>4, EndKeeps DEF IInv, TypeOK
<1>6. AnswersAreExecuted'
  BY <1>1, <1>4 DEF IInv, TypeOK, AnswersAreExecuted
<1>7. QED
  BY <1>1, <1>5, <1>6 DEF IInv, Locked, Generations, Running

\* A reader that ends fails whoever waits; its process runs no more.
LEMMA ReaderEndKeeps ==
    ASSUME IInv, NEW g \in Controllers, ReaderEnds(g),
           UNCHANGED <<received, out, current, sentTo, spawning, executed, stored, written>>,
           process' \in {process, [process EXCEPT ![g] = IF @ = "up" THEN "dead" ELSE @],
                         [h \in Controllers |-> IF h = current /\ process[h] = "up" THEN "dead" ELSE process[h]]},
           closing' \in {closing, "closed"}, losses' \in 0..MaxLosses
    PROVE  IInv'
<1>1. /\ reader' = [reader EXCEPT ![g] = "ended"] /\ storing' = [storing EXCEPT ![g] = {}]
      /\ End(Pending, "failed")
  BY DEF ReaderEnds
<1>2. Pending \in SUBSET Calls /\ spawning' = spawning \ Pending
  BY PendingNotSpawning DEF IInv
<1>3. /\ process' \in [Controllers -> ProcessState]
      /\ \A h \in Controllers : process'[h] = process[h] \/ (process[h] = "up" /\ process'[h] = "dead")
  BY DEF IInv, TypeOK, ProcessState
<1>4. TypeOK' /\ AtOneController'
  BY <1>1, <1>2, <1>3, EndKeeps DEF IInv, TypeOK, ReaderState
<1>5. Running' = Running
  BY <1>3 DEF IInv, TypeOK, Running
<1>6. QED
  BY <1>3, <1>4, <1>5 DEF IInv, Locked, Generations, AnswersAreExecuted

LEMMA ReaderKeeps ==
    ASSUME IInv, NEW g \in Controllers, ReaderStep(g)
    PROVE  IInv'
<1>1. CASE ReadLine(g)
  BY <1>1, ReadKeeps
<1>2. CASE ReaderBreaks(g)
  <2>1. losses' \in 0..MaxLosses
    BY <1>2, BoundsAssumption DEF ReaderBreaks, IInv, TypeOK
  <2>2. QED
    BY <1>2, <2>1, ReaderEndKeeps DEF ReaderBreaks, worldVars
<1>3. CASE EndOfOutput(g)
  <2>1. losses' \in 0..MaxLosses
    BY <1>3 DEF EndOfOutput, IInv, TypeOK
  <2>2. QED
    BY <1>3, <2>1, ReaderEndKeeps DEF EndOfOutput, worldVars
<1>4. CASE StoreEvent(g)
  <2>1. PICK line \in storing[g] :
           /\ UNCHANGED <<process, reader, received, out, current, call, sentTo, spawning, outcome,
                          executed, written, closing, losses>>
           /\ storing' = [storing EXCEPT ![g] = @ \ {line}]
           /\ stored' = [stored EXCEPT ![line.call] = @ \cup {line.event}]
    BY <1>4 DEF StoreEvent, callVars
  <2>2. TypeOK'
    BY <2>1 DEF IInv, TypeOK, Line, Waiting
  <2>3. QED
    BY <2>1, <2>2 DEF IInv, Locked, Generations, AtOneController, AnswersAreExecuted, Running
<1>5. QED
  BY <1>1, <1>2, <1>3, <1>4 DEF ReaderStep

LEMMA CloseKeeps ==
    ASSUME IInv, CloseStops \/ CloseCancels
    PROVE  IInv'
<1>1. CASE CloseStops
  <2>1. /\ UNCHANGED <<reader, storing, received, out, current, call, sentTo, spawning, outcome,
                       executed, stored, written, losses>>
        /\ Running /\ closing' = "stopped" /\ process' = [process EXCEPT ![current] = "reaped"]
    BY <1>1 DEF CloseStops, callVars, worldVars
  <2>2. TypeOK'
    BY <2>1 DEF IInv, TypeOK, ProcessState, Waiting
  <2>3. Generations' /\ Locked'
    BY <2>1 DEF IInv, TypeOK, Generations, Locked, Running, Controllers
  <2>4. QED
    BY <2>1, <2>2, <2>3 DEF IInv, AtOneController, AnswersAreExecuted
<1>2. CASE CloseCancels
  <2>1. /\ UNCHANGED <<received, out, current, sentTo, spawning, executed, stored, written, losses>>
        /\ closing' = "closed"
        /\ process' = [h \in Controllers |->
                         IF h = current /\ process[h] = "up" THEN "dead" ELSE process[h]]
    BY <1>2 DEF CloseCancels, worldVars
  <2>2. CASE current # 0 /\ reader[current] = "reading"
    <3>1. current \in Controllers /\ ReaderEnds(current) /\ losses' \in 0..MaxLosses
      BY <1>2, <2>1, <2>2 DEF CloseCancels, IInv, TypeOK
    <3>2. QED
      BY <2>1, <3>1, ReaderEndKeeps
  <2>3. CASE ~(current # 0 /\ reader[current] = "reading")
    <3>1. UNCHANGED <<reader, storing, call, outcome>>
      BY <1>2, <2>3 DEF CloseCancels
    <3>2. /\ process' \in [Controllers -> ProcessState]
          /\ \A h \in Controllers : process'[h] = process[h] \/ (process[h] = "up" /\ process'[h] = "dead")
      BY <2>1 DEF IInv, TypeOK, ProcessState
    <3>3. TypeOK' /\ Running' = Running
      BY <2>1, <3>1, <3>2 DEF IInv, TypeOK, Waiting, Running
    <3>4. QED
      BY <2>1, <3>1, <3>2, <3>3 DEF IInv, Locked, Generations, AtOneController, AnswersAreExecuted
  <2>4. QED
    BY <2>2, <2>3
<1>3. QED
  BY <1>1, <1>2

LEMMA NextKeeps == IInv /\ [Next]_vars => IInv'
<1>1. SUFFICES ASSUME IInv, [Next]_vars PROVE IInv'
  OBVIOUS
<1>2. CASE UNCHANGED vars
  BY <1>1, <1>2 DEF vars, controllerVars, callVars, worldVars, IInv, TypeOK, Locked, Generations,
                    AtOneController, AnswersAreExecuted, Running, Waiting
<1>3. CASE Next
  BY <1>1, <1>2, <1>3, CallerKeeps, GiveUpKeeps, ControllerKeeps, ReaderKeeps, CloseKeeps
  DEF Next, AtRest
<1>4. QED
  BY <1>1, <1>2, <1>3

\* The inductive invariant holds.
THEOREM Invariant == Spec => []IInv
<1>1. QED
  BY InitHolds, NextKeeps, PTL DEF Spec

\* The bridge's state keeps its types, and the lock of _ensure is held only by
\* a call inside it.
THEOREM TypeCorrect == Spec => []TypeOK
<1>1. IInv => TypeOK
  BY DEF IInv
<1>2. QED
  BY <1>1, Invariant, PTL

\* There is never a second controller that may be running (_ensure).
THEOREM NeverTwoControllers == Spec => []OneController
<1>1. IInv => OneController
  <2>1. SUFFICES ASSUME IInv, NEW g \in Controllers, process[g] \in {"up", "dead"} PROVE g = current
    BY DEF OneController
  <2>2. g \in Int /\ current \in Int
    BY <2>1 DEF IInv, TypeOK, Controllers
  <2>3. QED
    BY <2>1, <2>2 DEF IInv, Generations
<1>2. QED
  BY <1>1, Invariant, PTL

-----------------------------------------------------------------------------

\* What the callers' view sees of a step that ends calls.
LEMMA EndSeen ==
    ASSUME IInv, NEW ended \in SUBSET Calls, End(ended, "failed"), UNCHANGED executed,
           \A c \in ended : call[c] # "ended"
    PROVE  Promise!Fail(ended)
<1>1. \A c \in ended : outcome[c] = "none"
  BY DEF IInv, TypeOK, AtOneController
<1>2. QED
  BY <1>1 DEF End, Promise!Fail

LEMMA PendingNotEnded == \A c \in Pending : c \in Calls /\ call[c] # "ended"
BY DEF Pending, Waiting

LEMMA StepSeen == IInv /\ [Next]_vars => [Promise!Next]_<<outcome, executed>>
<1>1. SUFFICES ASSUME IInv, [Next]_vars PROVE [Promise!Next]_<<outcome, executed>>
  OBVIOUS
<1>2. CASE UNCHANGED vars
  BY <1>2 DEF vars, callVars, worldVars
<1>3. ASSUME NEW c \in Calls, Begin(c) \/ Reuse(c) \/ Spawn(c) \/ Spawned(c)
      PROVE  UNCHANGED <<outcome, executed>>
  BY <1>3 DEF Begin, Reuse, Spawn, Spawned, Send, worldVars
<1>4. ASSUME NEW c \in Calls, GiveUp(c) PROVE Promise!Next
  <2>1. Promise!Fail({c}) /\ {c} \in SUBSET Calls
    BY <1>1, <1>4, EndSeen DEF GiveUp, worldVars
  <2>2. QED
    BY <2>1 DEF Promise!Next
<1>5. ASSUME NEW g \in Controllers, NEW c \in Calls, WriteEvent(g, c)
      PROVE  UNCHANGED <<outcome, executed>>
  BY <1>5 DEF WriteEvent, callVars
<1>6. ASSUME NEW g \in Controllers, NEW c \in Calls, NEW kind \in {"answer", "broken"}, Answer(g, c, kind)
      PROVE  Promise!Next
  <2>1. Promise!Executes(c)
    BY <1>1, <1>6 DEF Answer, callVars, IInv, AtOneController, Promise!Executes
  <2>2. QED
    BY <2>1 DEF Promise!Next
<1>7. ASSUME NEW g \in Controllers, Die(g) \/ Reap(g) PROVE UNCHANGED <<outcome, executed>>
  BY <1>7 DEF Die, Reap, callVars, worldVars
<1>8. ASSUME NEW g \in Controllers, ReadLine(g) PROVE [Promise!Next]_<<outcome, executed>>
  <2> DEFINE line == Head(out[g])
             to == Addressee(line)
  <2>1. out[g] # <<>> /\ UNCHANGED executed
        /\ End(IF line.kind = "answer" THEN to ELSE {}, "answered")
    BY <1>8 DEF ReadLine, worldVars
  <2>2. CASE line.kind = "answer" /\ to # {}
    <3>1. to = {line.call} /\ line.call \in Calls /\ call[line.call] = "waiting"
      BY <2>2 DEF Addressee, Pending, Waiting
    <3>2. line = out[g][1] /\ 1 \in 1..Len(out[g])
      BY <1>1, <2>1, Lines DEF IInv
    <3>3. line.call \in executed
      BY <1>1, <2>2, <3>2 DEF IInv, AnswersAreExecuted
    <3>4. outcome[line.call] = "none"
      BY <1>1, <3>1 DEF IInv, TypeOK, AtOneController
    <3>5. outcome' = [outcome EXCEPT ![line.call] = "answered"]
      BY <1>1, <2>1, <2>2, <3>1 DEF End, IInv, TypeOK
    <3>6. Promise!Answers(line.call)
      BY <2>1, <3>3, <3>4, <3>5 DEF Promise!Answers
    <3>7. QED
      BY <3>1, <3>6 DEF Promise!Next
  <2>3. CASE ~(line.kind = "answer" /\ to # {})
    BY <1>1, <2>1, <2>3 DEF End, IInv, TypeOK
  <2>4. QED
    BY <2>2, <2>3
<1>9. ASSUME NEW g \in Controllers, ReaderEnds(g), UNCHANGED executed PROVE Promise!Next
  <2>1. Pending \in SUBSET Calls /\ Promise!Fail(Pending)
    BY <1>1, <1>9, EndSeen, PendingNotEnded DEF ReaderEnds
  <2>2. QED
    BY <2>1 DEF Promise!Next
<1>10. ASSUME NEW g \in Controllers, ReaderStep(g) PROVE [Promise!Next]_<<outcome, executed>>
  <2>1. CASE ReaderBreaks(g) \/ EndOfOutput(g)
    BY <1>9, <2>1 DEF ReaderBreaks, EndOfOutput, worldVars
  <2>2. CASE StoreEvent(g)
    BY <2>2 DEF StoreEvent, callVars
  <2>3. QED
    BY <1>8, <1>10, <2>1, <2>2 DEF ReaderStep
<1>11. ASSUME CloseStops PROVE UNCHANGED <<outcome, executed>>
  BY <1>11 DEF CloseStops, callVars, worldVars
<1>12. ASSUME CloseCancels PROVE [Promise!Next]_<<outcome, executed>>
  <2>1. CASE current # 0 /\ reader[current] = "reading"
    BY <1>1, <1>9, <1>12, <2>1 DEF CloseCancels, worldVars, IInv, TypeOK
  <2>2. CASE ~(current # 0 /\ reader[current] = "reading")
    BY <1>12, <2>2 DEF CloseCancels, worldVars
  <2>3. QED
    BY <2>1, <2>2
<1>13. QED
  BY <1>1, <1>2, <1>3, <1>4, <1>5, <1>6, <1>7, <1>10, <1>11, <1>12 DEF Next, AtRest

\* A call ends once, is executed at most once however controllers come and go,
\* and is answered only after it was executed.
THEOREM BridgeKeepsItsPromise == Spec => ImplementsCalls
<1>1. Init => Promise!Init
  BY DEF Init, Promise!Init
<1>2. QED
  BY <1>1, StepSeen, Invariant, PTL DEF Spec, ImplementsCalls, Promise!Spec

-----------------------------------------------------------------------------
(* Events before the answer                                                *)

IsEvent(line, c, n) == line.kind = "event" /\ line.call = c /\ line.event = n

\* The lines of a controller, or being stored, are of calls sent to it.
OwnLines ==
    \A g \in Controllers :
       /\ \A i \in 1..Len(out[g]) :
             LET line == out[g][i] IN
             /\ sentTo[line.call] = g /\ call[line.call] \in {"waiting", "ended"}
             /\ line.kind = "event" => line.event \in 1..written[line.call]
       /\ \A line \in storing[g] : line.event \in 1..written[line.call]

\* A controller writes no event of a call after its answer.
AnswerIsLast ==
    \A g \in Controllers : \A i, j \in 1..Len(out[g]) :
       i < j /\ out[g][i].kind = "answer" /\ out[g][j].kind = "event"
          => out[g][i].call # out[g][j].call

\* No event of a call that waits is lost.
EventsOnTheWay ==
    \A c \in Calls : Waiting(c) => \A n \in 1..written[c] :
       \/ n \in stored[c]
       \/ \E line \in storing[sentTo[c]] : IsEvent(line, c, n)
       \/ \E i \in 1..Len(out[sentTo[c]]) : IsEvent(out[sentTo[c]][i], c, n)

NoEventsEarly ==
    \A c \in Calls : call[c] \notin {"waiting", "ended"} => written[c] = 0

EInv ==
    /\ OwnLines /\ AnswerIsLast /\ EventsOnTheWay /\ NoEventsEarly /\ EventsBeforeAnswer
    /\ \A c \in Calls : stored[c] \subseteq 1..written[c]
    /\ \A c \in Calls : outcome[c] = "answered" => c \in executed

LEMMA EventsInit == Init => EInv
BY DEF Init, EInv, OwnLines, AnswerIsLast, EventsOnTheWay, NoEventsEarly, EventsBeforeAnswer, Waiting

\* Steps that touch neither lines nor events and end calls only as failed.
LEMMA EventsUntouched ==
    ASSUME IInv, EInv,
           UNCHANGED <<out, stored, written, executed>>,
           \A g \in Controllers : storing'[g] = storing[g]
                                  \/ (storing'[g] = {} /\ \A c \in Calls : call'[c] # "waiting"),
           \A c \in Calls : /\ outcome'[c] = outcome[c] \/ outcome'[c] = "failed"
                            /\ call[c] \in {"waiting", "ended"} => sentTo'[c] = sentTo[c]
                            /\ call[c] \in {"waiting", "ended"} => call'[c] \in {call[c], "ended"}
    PROVE  EInv'
<1>1. OwnLines'
  <2>1. SUFFICES ASSUME NEW g \in Controllers
        PROVE /\ \A i \in 1..Len(out[g]) :
                    /\ sentTo'[out[g][i].call] = g /\ call'[out[g][i].call] \in {"waiting", "ended"}
                    /\ out[g][i].kind = "event" => out[g][i].event \in 1..written[out[g][i].call]
              /\ \A line \in storing'[g] : line.event \in 1..written[line.call]
    BY DEF OwnLines
  <2>2. \A i \in 1..Len(out[g]) : out[g][i] \in Line
    BY DEF IInv, TypeOK
  <2>3. QED
    BY <2>2 DEF EInv, OwnLines, Line
<1>2. AnswerIsLast' /\ NoEventsEarly'
  BY DEF EInv, AnswerIsLast, NoEventsEarly
<1>3. EventsOnTheWay'
  <2>1. SUFFICES ASSUME NEW c \in Calls, call'[c] = "waiting", NEW n \in 1..written[c]
        PROVE  \/ n \in stored[c]
               \/ \E line \in storing'[sentTo'[c]] : IsEvent(line, c, n)
               \/ \E i \in 1..Len(out[sentTo'[c]]) : IsEvent(out[sentTo'[c]][i], c, n)
    BY DEF EventsOnTheWay, Waiting, IsEvent
  <2>2. Waiting(c) /\ sentTo'[c] = sentTo[c]
    BY <2>1 DEF EInv, NoEventsEarly, Waiting
  <2>3. sentTo[c] \in Controllers
    BY <2>2 DEF IInv, TypeOK
  <2>4. QED
    BY <2>1, <2>2, <2>3 DEF EInv, EventsOnTheWay
<1>4. EventsBeforeAnswer'
  BY DEF EInv, EventsBeforeAnswer
<1>5. QED
  BY <1>1, <1>2, <1>3, <1>4 DEF EInv

\* An event is written behind the lines that are there.
LEMMA WriteEventKeeps ==
    ASSUME IInv, EInv, NEW g \in Controllers, NEW c \in Calls, WriteEvent(g, c)
    PROVE  EInv'
<1> DEFINE line == [call |-> c, kind |-> "event", event |-> written[c] + 1]
<1>1. /\ UNCHANGED <<storing, call, sentTo, outcome, executed, stored>>
      /\ out' = [out EXCEPT ![g] = Append(@, line)] /\ written' = [written EXCEPT ![c] = @ + 1]
      /\ c \in received[g]
  BY DEF WriteEvent, Writes, callVars
<1>2. /\ c \notin executed /\ sentTo[c] = g /\ call[c] \in {"waiting", "ended"}
      /\ outcome[c] # "answered"
  BY <1>1 DEF IInv, AtOneController, EInv
<1>3. /\ out[g] \in Seq(Line) /\ out'[g] = Append(out[g], line)
      /\ \A h \in Controllers \ {g} : out'[h] = out[h]
  BY <1>1 DEF IInv, TypeOK
<1>4. /\ \A i \in 1..Len(out[g]) : out'[g][i] = out[g][i]
      /\ out'[g][Len(out[g]) + 1] = line /\ Len(out'[g]) = Len(out[g]) + 1 /\ Len(out[g]) \in Nat
  BY <1>3
<1>5. /\ written'[c] = written[c] + 1 /\ written[c] \in Nat
      /\ \A d \in Calls \ {c} : written'[d] = written[d]
  BY <1>1 DEF IInv, TypeOK
<1>6. \A h \in Controllers : /\ \A i \in 1..Len(out[h]) : out[h][i] \in Line
                             /\ \A l \in storing[h] : l \in Line
  BY DEF IInv, TypeOK
<1>7. \A d \in Calls : 1..written[d] \subseteq 1..written'[d]
  <2>1. SUFFICES ASSUME NEW d \in Calls, NEW n \in 1..written[d] PROVE n \in 1..written'[d]
    OBVIOUS
  <2>2. written[d] \in Nat /\ written'[d] \in Nat /\ written[d] <= written'[d]
    <3>1. written[d] \in Nat
      BY <2>1 DEF IInv, TypeOK
    <3>2. CASE d = c
      BY <1>5, <3>1, <3>2
    <3>3. CASE d # c
      BY <1>5, <2>1, <3>1, <3>3
    <3>4. QED
      BY <3>2, <3>3
  <2>3. QED
    BY <2>1, <2>2
<1>8. OwnLines'
  <2>1. SUFFICES ASSUME NEW h \in Controllers
        PROVE /\ \A i \in 1..Len(out'[h]) :
                    /\ sentTo[out'[h][i].call] = h /\ call[out'[h][i].call] \in {"waiting", "ended"}
                    /\ out'[h][i].kind = "event" => out'[h][i].event \in 1..written'[out'[h][i].call]
              /\ \A l \in storing[h] : l.event \in 1..written'[l.call]
    BY <1>1 DEF OwnLines
  <2>2. \A i \in 1..Len(out[h]) :
           /\ sentTo[out[h][i].call] = h /\ call[out[h][i].call] \in {"waiting", "ended"}
           /\ out[h][i].kind = "event" => out[h][i].event \in 1..written'[out[h][i].call]
    <3>1. SUFFICES ASSUME NEW i \in 1..Len(out[h])
          PROVE  /\ sentTo[out[h][i].call] = h /\ call[out[h][i].call] \in {"waiting", "ended"}
                 /\ out[h][i].kind = "event" => out[h][i].event \in 1..written'[out[h][i].call]
      OBVIOUS
    <3>2. out[h][i].call \in Calls
      BY <1>6 DEF Line
    <3>3. QED
      BY <1>7, <3>1, <3>2 DEF EInv, OwnLines
  <2>3. \A l \in storing[h] : l.event \in 1..written'[l.call]
    <3>1. SUFFICES ASSUME NEW l \in storing[h] PROVE l.event \in 1..written'[l.call]
      OBVIOUS
    <3>2. l.call \in Calls
      BY <1>6 DEF Line
    <3>3. QED
      BY <1>7, <3>1, <3>2 DEF EInv, OwnLines
  <2>4. CASE h # g
    BY <1>3, <2>2, <2>3, <2>4
  <2>5. CASE h = g
    <3>1. line.event \in 1..written'[line.call] /\ line.call = c
      BY <1>5
    <3>2. \A i \in 1..Len(out'[g]) : i \in 1..Len(out[g]) \/ i = Len(out[g]) + 1
      BY <1>4
    <3>3. ASSUME NEW i \in 1..Len(out'[g])
          PROVE  /\ sentTo[out'[g][i].call] = g /\ call[out'[g][i].call] \in {"waiting", "ended"}
                 /\ out'[g][i].kind = "event" => out'[g][i].event \in 1..written'[out'[g][i].call]
      <4>1. CASE i \in 1..Len(out[g])
        BY <1>4, <2>2, <2>5, <4>1
      <4>2. CASE i = Len(out[g]) + 1
        BY <1>2, <1>4, <3>1, <4>2
      <4>3. QED
        BY <3>2, <4>1, <4>2
    <3>4. QED
      BY <2>3, <2>5, <3>3
  <2>6. QED
    BY <2>4, <2>5
<1>9. AnswerIsLast'
  <2>1. SUFFICES ASSUME NEW h \in Controllers, NEW i \in 1..Len(out'[h]), NEW j \in 1..Len(out'[h]),
                        i < j, out'[h][i].kind = "answer", out'[h][j].kind = "event"
        PROVE  out'[h][i].call # out'[h][j].call
    BY DEF AnswerIsLast
  <2>2. CASE h # g
    BY <1>3, <2>1, <2>2 DEF EInv, AnswerIsLast
  <2>3. CASE h = g
    <3>1. i \in 1..Len(out[g]) /\ out'[g][i] = out[g][i]
      BY <1>4, <2>1, <2>3
    <3>2. CASE j \in 1..Len(out[g])
      BY <1>4, <2>1, <2>3, <3>1, <3>2 DEF EInv, AnswerIsLast
    <3>3. CASE j = Len(out[g]) + 1
      <4>1. out[g][i].call \in executed
        BY <2>1, <2>3, <3>1 DEF IInv, AnswersAreExecuted
      <4>2. QED
        BY <1>2, <1>4, <2>3, <3>1, <3>3, <4>1
    <3>4. QED
      BY <1>4, <2>1, <2>3, <3>2, <3>3
  <2>4. QED
    BY <2>2, <2>3
<1>10. EventsOnTheWay'
  <2>1. SUFFICES ASSUME NEW d \in Calls, call[d] = "waiting", NEW n \in 1..written'[d]
        PROVE  \/ n \in stored[d]
               \/ \E l \in storing[sentTo[d]] : IsEvent(l, d, n)
               \/ \E i \in 1..Len(out'[sentTo[d]]) : IsEvent(out'[sentTo[d]][i], d, n)
    BY <1>1 DEF EventsOnTheWay, Waiting, IsEvent
  <2>2. CASE d = c /\ n = written[c] + 1
    <3>1. Len(out[g]) + 1 \in 1..Len(out'[g]) /\ IsEvent(out'[g][Len(out[g]) + 1], d, n)
      BY <1>4, <2>2 DEF IsEvent
    <3>2. QED
      BY <1>2, <2>2, <3>1
  <2>3. CASE ~(d = c /\ n = written[c] + 1)
    <3>1. n \in 1..written[d] /\ sentTo[d] \in Controllers
      BY <1>5, <2>1, <2>3 DEF IInv, TypeOK, Waiting
    <3>2. \A i \in 1..Len(out[sentTo[d]]) :
             i \in 1..Len(out'[sentTo[d]]) /\ out'[sentTo[d]][i] = out[sentTo[d]][i]
      <4>1. CASE sentTo[d] = g
        BY <1>4, <4>1
      <4>2. CASE sentTo[d] # g
        BY <1>3, <3>1, <4>2
      <4>3. QED
        BY <4>1, <4>2
    <3>3. \/ n \in stored[d]
          \/ \E l \in storing[sentTo[d]] : IsEvent(l, d, n)
          \/ \E i \in 1..Len(out[sentTo[d]]) : IsEvent(out[sentTo[d]][i], d, n)
      BY <2>1, <3>1 DEF EInv, EventsOnTheWay, Waiting
    <3>4. QED
      BY <3>2, <3>3
  <2>4. QED
    BY <2>2, <2>3
<1>11. NoEventsEarly' /\ EventsBeforeAnswer'
  BY <1>1, <1>2, <1>5 DEF EInv, NoEventsEarly, EventsBeforeAnswer
<1>12. QED
  BY <1>1, <1>7, <1>8, <1>9, <1>10, <1>11 DEF EInv

\* The answer of a call is written behind all of its events.
LEMMA AnswerKeeps ==
    ASSUME IInv, EInv, NEW g \in Controllers, NEW c \in Calls, NEW kind \in {"answer", "broken"},
           Answer(g, c, kind)
    PROVE  EInv'
<1> DEFINE line == [call |-> c, kind |-> kind, event |-> 0]
<1>1. /\ UNCHANGED <<storing, call, sentTo, outcome, stored, written>>
      /\ out' = [out EXCEPT ![g] = Append(@, line)] /\ executed' = executed \cup {c}
      /\ c \in received[g]
  BY DEF Answer, Writes, callVars
<1>2. sentTo[c] = g /\ call[c] \in {"waiting", "ended"}
  BY <1>1 DEF IInv, AtOneController
<1>3. /\ out[g] \in Seq(Line) /\ out'[g] = Append(out[g], line)
      /\ \A h \in Controllers \ {g} : out'[h] = out[h]
  BY <1>1 DEF IInv, TypeOK
<1>4. /\ \A i \in 1..Len(out[g]) : i \in 1..Len(out'[g]) /\ out'[g][i] = out[g][i]
      /\ out'[g][Len(out[g]) + 1] = line
      /\ \A i \in 1..Len(out'[g]) : i \in 1..Len(out[g]) \/ i = Len(out[g]) + 1
      /\ Len(out[g]) \in Nat
  BY <1>3
<1>5. line.call = c /\ line.kind # "event"
  OBVIOUS
<1> HIDE DEF line
<1>6. OwnLines'
  <2>1. SUFFICES ASSUME NEW h \in Controllers, NEW i \in 1..Len(out'[h])
        PROVE /\ sentTo[out'[h][i].call] = h /\ call[out'[h][i].call] \in {"waiting", "ended"}
              /\ out'[h][i].kind = "event" => out'[h][i].event \in 1..written[out'[h][i].call]
    BY <1>1 DEF EInv, OwnLines
  <2>2. CASE h = g /\ i = Len(out[g]) + 1
    BY <1>2, <1>4, <1>5, <2>2
  <2>3. CASE ~(h = g /\ i = Len(out[g]) + 1)
    <3>1. i \in 1..Len(out[h]) /\ out'[h][i] = out[h][i]
      BY <1>3, <1>4, <2>1, <2>3
    <3>2. QED
      BY <3>1 DEF EInv, OwnLines
  <2>4. QED
    BY <2>2, <2>3
<1>7. AnswerIsLast'
  <2>1. SUFFICES ASSUME NEW h \in Controllers, NEW i \in 1..Len(out'[h]), NEW j \in 1..Len(out'[h]),
                        i < j, out'[h][i].kind = "answer", out'[h][j].kind = "event"
        PROVE  out'[h][i].call # out'[h][j].call
    BY DEF AnswerIsLast
  <2>2. CASE h # g
    BY <1>3, <2>1, <2>2 DEF EInv, AnswerIsLast
  <2>3. CASE h = g
    <3>1. j \in 1..Len(out[g])
      BY <1>4, <1>5, <2>1, <2>3
    <3>2. i \in 1..Len(out[g])
      BY <1>4, <2>1, <2>3, <3>1
    <3>3. QED
      BY <1>4, <2>1, <2>3, <3>1, <3>2 DEF EInv, AnswerIsLast
  <2>4. QED
    BY <2>2, <2>3
<1>8. EventsOnTheWay'
  <2>1. SUFFICES ASSUME NEW d \in Calls, call[d] = "waiting", NEW n \in 1..written[d]
        PROVE  \/ n \in stored[d]
               \/ \E l \in storing[sentTo[d]] : IsEvent(l, d, n)
               \/ \E i \in 1..Len(out'[sentTo[d]]) : IsEvent(out'[sentTo[d]][i], d, n)
    BY <1>1 DEF EventsOnTheWay, Waiting, IsEvent
  <2>2. sentTo[d] \in Controllers
    BY <2>1 DEF IInv, TypeOK, Waiting
  <2>3. \A i \in 1..Len(out[sentTo[d]]) :
           i \in 1..Len(out'[sentTo[d]]) /\ out'[sentTo[d]][i] = out[sentTo[d]][i]
    <3>1. CASE sentTo[d] = g
      BY <1>4, <3>1
    <3>2. CASE sentTo[d] # g
      BY <1>3, <2>2, <3>2
    <3>3. QED
      BY <3>1, <3>2
  <2>4. \/ n \in stored[d]
        \/ \E l \in storing[sentTo[d]] : IsEvent(l, d, n)
        \/ \E i \in 1..Len(out[sentTo[d]]) : IsEvent(out[sentTo[d]][i], d, n)
    BY <2>1 DEF EInv, EventsOnTheWay, Waiting
  <2>5. QED
    BY <2>3, <2>4
<1>9. QED
  BY <1>1, <1>6, <1>7, <1>8 DEF EInv, NoEventsEarly, EventsBeforeAnswer

\* An event is handed on, an answer ends its call, other lines are dropped.
LEMMA ReadLineKeeps ==
    ASSUME IInv, EInv, NEW g \in Controllers, ReadLine(g)
    PROVE  EInv'
<1> DEFINE line == Head(out[g])
           to == Addressee(line)
           ended == IF line.kind = "answer" THEN to ELSE {}
<1>1. /\ UNCHANGED <<sentTo, executed, stored, written>>
      /\ storing[g] = {} /\ out[g] # <<>> /\ out' = [out EXCEPT ![g] = Tail(@)]
      /\ End(ended, "answered")
      /\ storing' = IF line.kind = "event" /\ to # {}
                    THEN [storing EXCEPT ![g] = @ \cup {line}] ELSE storing
  BY DEF ReadLine, worldVars, Awaits
<1>2. /\ line \in Line /\ line = out[g][1] /\ 1 \in 1..Len(out[g])
      /\ \A i \in 1..Len(Tail(out[g])) : i + 1 \in 1..Len(out[g]) /\ Tail(out[g])[i] = out[g][i + 1]
      /\ Len(Tail(out[g])) = Len(out[g]) - 1 /\ Len(out[g]) \in Nat
  BY <1>1, Lines DEF IInv
<1>3. /\ ended \subseteq {line.call} /\ to = (IF Waiting(line.call) THEN {line.call} ELSE {})
      /\ ended \in SUBSET Calls
  BY <1>2 DEF Addressee, Pending, Line
<1>4. /\ sentTo[line.call] = g
      /\ line.kind = "event" => line.event \in 1..written[line.call]
  BY <1>2 DEF EInv, OwnLines
<1> HIDE DEF line, to, ended
<1>5. \A c \in Calls : /\ c \in ended => call'[c] = "ended" /\ outcome'[c] = "answered"
                       /\ c \notin ended => call'[c] = call[c] /\ outcome'[c] = outcome[c]
  BY <1>1, <1>3, EndCalls DEF IInv
<1>6. /\ out'[g] = Tail(out[g]) /\ \A h \in Controllers \ {g} : out'[h] = out[h] /\ storing'[h] = storing[h]
      /\ storing'[g] = IF line.kind = "event" /\ to # {} THEN {line} ELSE {}
  BY <1>1 DEF IInv, TypeOK
<1>7. OwnLines'
  <2>1. \A h \in Controllers : \A i \in 1..Len(out[h]) : out[h][i] \in Line
    BY DEF IInv, TypeOK
  <2>2. ASSUME NEW h \in Controllers, NEW i \in 1..Len(out'[h])
        PROVE /\ sentTo[out'[h][i].call] = h /\ call'[out'[h][i].call] \in {"waiting", "ended"}
              /\ out'[h][i].kind = "event" => out'[h][i].event \in 1..written[out'[h][i].call]
    <3>1. PICK k \in 1..Len(out[h]) : out'[h][i] = out[h][k]
      <4>1. CASE h = g
        BY <1>2, <1>6, <2>2, <4>1
      <4>2. CASE h # g
        BY <1>6, <2>2, <4>2
      <4>3. QED
        BY <4>1, <4>2
    <3>2. out[h][k].call \in Calls
      BY <2>1 DEF Line
    <3>3. QED
      BY <1>5, <3>1, <3>2 DEF EInv, OwnLines
  <2>3. ASSUME NEW h \in Controllers, NEW l \in storing'[h] PROVE l.event \in 1..written[l.call]
    <3>1. CASE h = g
      BY <1>4, <1>6, <2>3, <3>1
    <3>2. CASE h # g
      BY <1>6, <2>3, <3>2 DEF EInv, OwnLines
    <3>3. QED
      BY <3>1, <3>2
  <2>4. QED
    BY <1>1, <2>2, <2>3 DEF OwnLines
<1>8. AnswerIsLast'
  <2>1. SUFFICES ASSUME NEW h \in Controllers, NEW i \in 1..Len(out'[h]), NEW j \in 1..Len(out'[h]),
                        i < j, out'[h][i].kind = "answer", out'[h][j].kind = "event"
        PROVE  out'[h][i].call # out'[h][j].call
    BY DEF AnswerIsLast
  <2>2. CASE h # g
    BY <1>6, <2>1, <2>2 DEF EInv, AnswerIsLast
  <2>3. CASE h = g
    <3>1. /\ i + 1 \in 1..Len(out[g]) /\ out'[g][i] = out[g][i + 1]
          /\ j + 1 \in 1..Len(out[g]) /\ out'[g][j] = out[g][j + 1]
          /\ i + 1 < j + 1
      <4>1. /\ i \in 1..Len(Tail(out[g])) /\ j \in 1..Len(Tail(out[g])) /\ i < j
            /\ out'[g][i] = Tail(out[g])[i] /\ out'[g][j] = Tail(out[g])[j]
        BY <1>6, <2>1, <2>3
      <4>2. i + 1 < j + 1
        BY <4>1
      <4>3. QED
        BY <1>2, <4>1, <4>2
    <3>2. QED
      BY <2>1, <2>3, <3>1 DEF EInv, AnswerIsLast
  <2>4. QED
    BY <2>2, <2>3
<1>9. EventsOnTheWay'
  <2>1. SUFFICES ASSUME NEW d \in Calls, call'[d] = "waiting", NEW n \in 1..written[d]
        PROVE  \/ n \in stored[d]
               \/ \E l \in storing'[sentTo[d]] : IsEvent(l, d, n)
               \/ \E i \in 1..Len(out'[sentTo[d]]) : IsEvent(out'[sentTo[d]][i], d, n)
    BY <1>1 DEF EventsOnTheWay, Waiting, IsEvent
  <2>2. Waiting(d) /\ sentTo[d] \in Controllers
    BY <1>5, <2>1 DEF IInv, TypeOK, Waiting
  <2>3. \/ n \in stored[d]
        \/ \E l \in storing[sentTo[d]] : IsEvent(l, d, n)
        \/ \E i \in 1..Len(out[sentTo[d]]) : IsEvent(out[sentTo[d]][i], d, n)
    BY <2>1, <2>2 DEF EInv, EventsOnTheWay
  <2>4. CASE sentTo[d] # g
    BY <1>6, <2>2, <2>3, <2>4
  <2>5. CASE sentTo[d] = g /\ n \notin stored[d]
    <3>1. PICK i \in 1..Len(out[g]) : IsEvent(out[g][i], d, n)
      BY <1>1, <2>3, <2>5
    <3>2. CASE i = 1
      <4>1. IsEvent(line, d, n) /\ line.kind = "event" /\ line.call = d
        BY <1>2, <3>1, <3>2 DEF IsEvent
      <4>2. line \in storing'[g]
        BY <1>3, <1>6, <2>2, <4>1
      <4>3. QED
        BY <2>5, <4>1, <4>2
    <3>3. CASE i # 1
      <4>1. i - 1 \in 1..Len(out'[g]) /\ out'[g][i - 1] = out[g][i]
        BY <1>2, <1>6, <3>1, <3>3
      <4>2. QED
        BY <2>5, <3>1, <4>1
    <3>4. QED
      BY <3>2, <3>3
  <2>6. QED
    BY <2>4, <2>5
<1>10. ASSUME NEW c \in ended PROVE c \in executed /\ stored[c] = 1..written[c]
  <2>1. c = line.call /\ line.kind = "answer" /\ Waiting(c) /\ c \in Calls
    BY <1>3, <1>10 DEF ended
  <2>2. c \in executed
    BY <1>2, <2>1 DEF IInv, AnswersAreExecuted
  <2>3. ASSUME NEW n \in 1..written[c] PROVE n \in stored[c]
    <3>1. SUFFICES ASSUME n \notin stored[c] PROVE FALSE
      OBVIOUS
    <3>2. PICK i \in 1..Len(out[g]) : IsEvent(out[g][i], c, n)
      BY <1>1, <1>4, <2>1, <2>3, <3>1 DEF EInv, EventsOnTheWay
    <3>3. i # 1 /\ 1 < i
      BY <1>2, <2>1, <3>2 DEF IsEvent
    <3>4. QED
      BY <1>2, <2>1, <3>2, <3>3 DEF EInv, AnswerIsLast, IsEvent
  <2>4. stored[c] \subseteq 1..written[c]
    BY <2>1 DEF EInv
  <2>5. QED
    BY <2>2, <2>3, <2>4
<1>11. EventsBeforeAnswer' /\ \A c \in Calls : outcome'[c] = "answered" => c \in executed
  BY <1>1, <1>5, <1>10 DEF EInv, EventsBeforeAnswer
<1>12. NoEventsEarly'
  BY <1>1, <1>5 DEF EInv, NoEventsEarly
<1>13. QED
  BY <1>1, <1>7, <1>8, <1>9, <1>11, <1>12 DEF EInv

LEMMA StoreKeeps ==
    ASSUME IInv, EInv, NEW g \in Controllers, StoreEvent(g)
    PROVE  EInv'
<1>1. PICK line \in storing[g] :
         /\ UNCHANGED <<out, call, sentTo, outcome, executed, written>>
         /\ storing' = [storing EXCEPT ![g] = @ \ {line}]
         /\ stored' = [stored EXCEPT ![line.call] = @ \cup {line.event}]
  BY DEF StoreEvent, callVars
<1>2. line \in Line /\ line.call \in Calls /\ line.event \in 1..written[line.call]
  BY DEF IInv, TypeOK, Line, EInv, OwnLines
<1>3. /\ \A c \in Calls : stored[c] \subseteq stored'[c]
      /\ stored'[line.call] = stored[line.call] \cup {line.event}
      /\ \A c \in Calls \ {line.call} : stored'[c] = stored[c]
      /\ \A h \in Controllers : \A l \in storing[h] : l \in storing'[h] \/ l = line
      /\ \A h \in Controllers : storing'[h] \subseteq storing[h]
  BY <1>1, <1>2 DEF IInv, TypeOK
<1>4. OwnLines' /\ AnswerIsLast' /\ NoEventsEarly'
  BY <1>1, <1>3 DEF EInv, OwnLines, AnswerIsLast, NoEventsEarly
<1>5. EventsOnTheWay'
  <2>1. SUFFICES ASSUME NEW d \in Calls, call[d] = "waiting", NEW n \in 1..written[d]
        PROVE  \/ n \in stored'[d]
               \/ \E l \in storing'[sentTo[d]] : IsEvent(l, d, n)
               \/ \E i \in 1..Len(out[sentTo[d]]) : IsEvent(out[sentTo[d]][i], d, n)
    BY <1>1 DEF EventsOnTheWay, Waiting, IsEvent
  <2>2. sentTo[d] \in Controllers
    BY <2>1 DEF IInv, TypeOK, Waiting
  <2>3. \/ n \in stored[d]
        \/ \E l \in storing[sentTo[d]] : IsEvent(l, d, n)
        \/ \E i \in 1..Len(out[sentTo[d]]) : IsEvent(out[sentTo[d]][i], d, n)
    BY <2>1 DEF EInv, EventsOnTheWay, Waiting
  <2>4. CASE \E l \in storing[sentTo[d]] : IsEvent(l, d, n)
    BY <1>3, <2>2, <2>4 DEF IsEvent
  <2>5. QED
    BY <1>3, <2>3, <2>4
<1>6. (\A c \in Calls : stored'[c] \subseteq 1..written[c]) /\ EventsBeforeAnswer'
  <2>1. ASSUME NEW c \in Calls
        PROVE  /\ stored'[c] \subseteq 1..written[c]
               /\ outcome[c] = "answered" => stored'[c] = 1..written[c]
    <3>1. /\ stored[c] \subseteq 1..written[c]
          /\ outcome[c] = "answered" => stored[c] = 1..written[c]
      BY DEF EInv, EventsBeforeAnswer
    <3>2. CASE c = line.call
      BY <1>2, <1>3, <3>1, <3>2
    <3>3. CASE c # line.call
      BY <1>3, <3>1, <3>3
    <3>4. QED
      BY <3>2, <3>3
  <2>2. QED
    BY <1>1, <2>1 DEF EventsBeforeAnswer
<1>7. QED
  BY <1>1, <1>4, <1>5, <1>6 DEF EInv

\* Steps of callers, and those that lose or close a controller.
LEMMA OtherStepsKeep ==
    ASSUME IInv, EInv,
           \/ \E c \in Calls : Begin(c) \/ Reuse(c) \/ Spawn(c) \/ Spawned(c) \/ GiveUp(c)
           \/ \E g \in Controllers : Die(g) \/ Reap(g) \/ ReaderBreaks(g) \/ EndOfOutput(g)
           \/ CloseStops \/ CloseCancels
           \/ UNCHANGED vars
    PROVE  EInv'
<1>1. ASSUME NEW c \in Calls, Begin(c) \/ Reuse(c) \/ Spawn(c) \/ Spawned(c) PROVE EInv'
  <2>1. UNCHANGED <<out, stored, written, executed, storing, outcome>>
    BY <1>1 DEF Begin, Reuse, Spawn, Spawned, Send, controllerVars, worldVars
  <2>2. \A d \in Calls : call[d] \in {"waiting", "ended"} => sentTo'[d] = sentTo[d] /\ call'[d] = call[d]
    BY <1>1 DEF Begin, Reuse, Spawn, Spawned, Send, IInv, TypeOK
  <2>3. QED
    BY <2>1, <2>2, EventsUntouched
<1>2. ASSUME NEW c \in Calls, GiveUp(c) PROVE EInv'
  BY <1>2, EventsUntouched DEF GiveUp, End, controllerVars, worldVars
<1>3. ASSUME UNCHANGED <<out, stored, written, executed, storing, outcome, sentTo, call>> PROVE EInv'
  BY <1>3, EventsUntouched
<1>4. ASSUME NEW g \in Controllers, ReaderEnds(g), UNCHANGED <<out, stored, written, executed, sentTo>>
      PROVE  EInv'
  <2>1. \A h \in Controllers : storing'[h] \in {storing[h], {}}
    BY <1>4 DEF ReaderEnds, IInv, TypeOK
  <2>2. \A c \in Calls : /\ call'[c] # "waiting" /\ call'[c] \in {call[c], "ended"}
                         /\ outcome'[c] \in {outcome[c], "failed"}
    BY <1>4 DEF ReaderEnds, End, Pending, Waiting
  <2>3. QED
    BY <1>4, <2>1, <2>2, EventsUntouched
<1>5. ASSUME NEW g \in Controllers, Die(g) \/ Reap(g) PROVE EInv'
  BY <1>3, <1>5 DEF Die, Reap, callVars, worldVars
<1>6. ASSUME NEW g \in Controllers, ReaderBreaks(g) \/ EndOfOutput(g) PROVE EInv'
  BY <1>4, <1>6 DEF ReaderBreaks, EndOfOutput, worldVars
<1>7. ASSUME CloseStops PROVE EInv'
  BY <1>3, <1>7 DEF CloseStops, callVars, worldVars
<1>8. ASSUME CloseCancels PROVE EInv'
  <2>1. UNCHANGED <<out, stored, written, executed, sentTo>>
    BY <1>8 DEF CloseCancels, worldVars
  <2>2. CASE current # 0 /\ reader[current] = "reading"
    <3>1. current \in Controllers /\ ReaderEnds(current)
      BY <1>8, <2>2 DEF CloseCancels, IInv, TypeOK
    <3>2. QED
      BY <1>4, <2>1, <3>1
  <2>3. CASE ~(current # 0 /\ reader[current] = "reading")
    <3>1. UNCHANGED <<storing, call, outcome>>
      BY <1>8, <2>3 DEF CloseCancels
    <3>2. QED
      BY <1>3, <2>1, <3>1
  <2>4. QED
    BY <2>2, <2>3
<1>9. ASSUME UNCHANGED vars PROVE EInv'
  BY <1>3, <1>9 DEF vars, controllerVars, callVars, worldVars
<1>10. QED
  BY <1>1, <1>2, <1>5, <1>6, <1>7, <1>8, <1>9

LEMMA EventsNext == IInv /\ EInv /\ [Next]_vars => EInv'
BY WriteEventKeeps, AnswerKeeps, ReadLineKeeps, StoreKeeps, OtherStepsKeep DEF Next, ReaderStep, AtRest

\* An answered call has all of its events in the database: run.finished, which
\* Jobs.finish writes next, comes after every event of its run.
THEOREM EventsComeFirst == Spec => []EventsBeforeAnswer
<1>1. EInv => EventsBeforeAnswer
  BY DEF EInv
<1>2. QED
  BY <1>1, EventsInit, EventsNext, Invariant, PTL DEF Spec

-----------------------------------------------------------------------------
(* Calls that are left behind                                              *)

\* A controller that runs has its reader.
RunningIsRead == \A g \in Controllers : process[g] = "up" => reader[g] = "reading"

LeftInv == RunningIsRead /\ LeftBehindNotCarriedOut

\* No step of a caller starts or ends a reader but Spawned, which sends its
\* own call only; a line for a controller that has exited is lost.
LEMMA CallerLeaves ==
    ASSUME IInv, LeftInv, NEW c \in Calls,
           Begin(c) \/ Reuse(c) \/ Spawn(c) \/ Spawned(c) \/ GiveUp(c)
    PROVE  LeftInv'
<1> USE DEF LeftInv, RunningIsRead, LeftBehindNotCarriedOut, Waiting
<1>1. CASE Begin(c) \/ Spawn(c)
  BY <1>1 DEF Begin, Spawn, controllerVars, worldVars, IInv, TypeOK
<1>2. CASE GiveUp(c)
  <2>1. \A d \in Calls : call'[d] = "waiting" => call[d] = "waiting"
    BY <1>2 DEF GiveUp, End, IInv, TypeOK
  <2>2. QED
    BY <1>2, <2>1 DEF GiveUp, controllerVars, worldVars
<1>3. CASE Reuse(c)
  <2>1. /\ call[c] = "ensuring" /\ current \in Controllers
        /\ call' = [call EXCEPT ![c] = "waiting"] /\ sentTo' = [sentTo EXCEPT ![c] = current]
        /\ received' = [received EXCEPT ![current] = IF process[current] = "up" THEN @ \cup {c} ELSE @]
        /\ UNCHANGED <<process, reader, executed>>
    BY <1>3 DEF Reuse, Send, Running, worldVars, IInv, TypeOK
  <2>2. c \notin executed /\ \A g \in Controllers : c \notin received[g]
    BY <2>1 DEF IInv, AtOneController
  <2>3. ASSUME NEW d \in Calls, call'[d] = "waiting", reader[sentTo'[d]] # "reading"
        PROVE  d \notin executed /\ \A g \in Controllers : process[g] = "up" => d \notin received'[g]
    <3>1. CASE d = c
      <4>1. reader[current] # "reading" /\ process[current] # "up"
        BY <2>1, <2>3, <3>1 DEF IInv, TypeOK
      <4>2. received' = received
        BY <2>1, <4>1 DEF IInv, TypeOK
      <4>3. QED
        BY <2>2, <3>1, <4>2
    <3>2. CASE d # c
      <4>1. call[d] = "waiting" /\ sentTo'[d] = sentTo[d]
        BY <2>1, <2>3, <3>2 DEF IInv, TypeOK
      <4>2. \A g \in Controllers : d \in received'[g] => d \in received[g]
        BY <2>1, <3>2 DEF IInv, TypeOK
      <4>3. QED
        BY <2>3, <4>1, <4>2
    <3>3. QED
      BY <3>1, <3>2
  <2>4. QED
    BY <2>1, <2>3
<1>4. CASE Spawned(c)
  <2> DEFINE g == current + 1
  <2>1. /\ g \in Controllers /\ call' = [call EXCEPT ![c] = "waiting"] /\ sentTo' = [sentTo EXCEPT ![c] = g]
        /\ process' = [process EXCEPT ![g] = "up"] /\ reader' = [reader EXCEPT ![g] = "reading"]
        /\ received' = [received EXCEPT ![g] = {c}] /\ executed' = executed
    BY <1>4 DEF Spawned, Send, worldVars
  <2> HIDE DEF g
  <2>2. RunningIsRead'
    BY <2>1 DEF IInv, TypeOK
  <2>3. ASSUME NEW d \in Calls, call'[d] = "waiting", reader'[sentTo'[d]] # "reading"
        PROVE  d \notin executed /\ \A h \in Controllers : process'[h] = "up" => d \notin received'[h]
    <3>1. d # c
      BY <2>1, <2>3 DEF IInv, TypeOK
    <3>2. call[d] = "waiting" /\ sentTo'[d] = sentTo[d] /\ reader[sentTo[d]] # "reading"
      BY <2>1, <2>3, <3>1 DEF IInv, TypeOK
    <3>3. d \notin executed /\ \A h \in Controllers : process[h] = "up" => d \notin received[h]
      BY <3>2
    <3>4. ASSUME NEW h \in Controllers, process'[h] = "up" PROVE d \notin received'[h]
      <4>1. CASE h = g
        BY <2>1, <3>1, <4>1 DEF IInv, TypeOK
      <4>2. CASE h # g
        BY <2>1, <3>3, <3>4, <4>2 DEF IInv, TypeOK
      <4>3. QED
        BY <4>1, <4>2
    <3>5. QED
      BY <3>3, <3>4
  <2>4. QED
    BY <2>1, <2>2, <2>3
<1>5. QED
  BY <1>1, <1>2, <1>3, <1>4

\* The end of a reader leaves nobody waiting, and no controller running that
\* it read.
LEMMA ReaderEndLeaves ==
    ASSUME IInv, LeftInv, NEW g \in Controllers, ReaderEnds(g), process'[g] # "up",
           \A h \in Controllers : process'[h] = "up" => process[h] = "up"
    PROVE  LeftInv'
<1>1. \A c \in Calls : call'[c] # "waiting"
  BY DEF ReaderEnds, End, Pending, Waiting, IInv, TypeOK
<1>2. \A h \in Controllers : h # g => reader'[h] = reader[h]
  BY DEF ReaderEnds, IInv, TypeOK
<1>3. QED
  BY <1>1, <1>2 DEF LeftInv, RunningIsRead, LeftBehindNotCarriedOut, Waiting

\* A step that starts or ends no reader, sends no call and carries none out
\* but one whose controller is read.
LEMMA OthersLeave ==
    ASSUME IInv, LeftInv, UNCHANGED <<reader, sentTo>>,
           \A c \in Calls : Waiting(c)' => Waiting(c),
           \A g \in Controllers : /\ process'[g] = "up" => process[g] = "up"
                                  /\ received'[g] \subseteq received[g],
           \A c \in executed' \ executed : \E g \in Controllers : process[g] = "up" /\ c \in received[g]
    PROVE  LeftInv'
  BY DEF LeftInv, RunningIsRead, LeftBehindNotCarriedOut

LEMMA LeftNext == IInv /\ LeftInv /\ [Next]_vars => LeftInv'
<1> SUFFICES ASSUME IInv, LeftInv, [Next]_vars PROVE LeftInv'
  OBVIOUS
<1>1. CASE UNCHANGED vars
  BY <1>1, OthersLeave DEF vars, controllerVars, callVars, worldVars, Waiting
<1>2. ASSUME NEW g \in Controllers, NEW c \in Calls, WriteEvent(g, c) PROVE LeftInv'
  BY <1>2, OthersLeave DEF WriteEvent, callVars, Waiting
<1>3. ASSUME NEW g \in Controllers, NEW c \in Calls, NEW kind \in {"answer", "broken"}, Answer(g, c, kind)
      PROVE  LeftInv'
  <2>1. /\ process[g] = "up" /\ c \in received[g] /\ executed' = executed \cup {c}
        /\ received' = [received EXCEPT ![g] = @ \ {c}] /\ UNCHANGED <<process, reader, callVars>>
    BY <1>3 DEF Answer
  <2>2. \A h \in Controllers : received'[h] \subseteq received[h]
    BY <2>1 DEF IInv, TypeOK
  <2>3. QED
    BY <2>1, <2>2, OthersLeave DEF callVars, Waiting
<1>4. ASSUME NEW g \in Controllers, Die(g) \/ Reap(g) PROVE LeftInv'
  <2>1. \A h \in Controllers : process'[h] = "up" => process[h] = "up"
    BY <1>4 DEF Die, Reap, IInv, TypeOK
  <2>2. QED
    BY <1>4, <2>1, OthersLeave DEF Die, Reap, callVars, worldVars, Waiting
<1>5. ASSUME NEW g \in Controllers, ReadLine(g) PROVE LeftInv'
  <2>1. \A c \in Calls : call'[c] = "waiting" => call[c] = "waiting"
    BY <1>5 DEF ReadLine, End, IInv, TypeOK
  <2>2. UNCHANGED <<process, reader, received, sentTo, executed>>
    BY <1>5 DEF ReadLine, worldVars
  <2>3. QED
    BY <2>1, <2>2, OthersLeave DEF Waiting
<1>6. ASSUME NEW g \in Controllers, StoreEvent(g) PROVE LeftInv'
  BY <1>6, OthersLeave DEF StoreEvent, callVars, Waiting
<1>7. ASSUME NEW g \in Controllers, ReaderBreaks(g) \/ EndOfOutput(g) PROVE LeftInv'
  <2>1. ReaderEnds(g)
    BY <1>7 DEF ReaderBreaks, EndOfOutput
  <2>2. process'[g] # "up" /\ \A h \in Controllers : process'[h] = "up" => process[h] = "up"
    BY <1>7 DEF ReaderBreaks, EndOfOutput, IInv, TypeOK
  <2>3. QED
    BY <2>1, <2>2, ReaderEndLeaves
<1>8. CASE CloseStops
  <2>1. \A h \in Controllers : process'[h] = "up" => process[h] = "up"
    BY <1>8 DEF CloseStops, IInv, TypeOK
  <2>2. QED
    BY <1>8, <2>1, OthersLeave DEF CloseStops, callVars, worldVars, Waiting
<1>9. CASE CloseCancels
  <2>1. \A h \in Controllers : process'[h] = "up" => process[h] = "up" /\ h # current
    BY <1>9 DEF CloseCancels
  <2>2. CASE current # 0 /\ reader[current] = "reading"
    <3>1. current \in Controllers /\ ReaderEnds(current)
      BY <1>9, <2>2 DEF CloseCancels, IInv, TypeOK
    <3>2. QED
      BY <2>1, <3>1, ReaderEndLeaves
  <2>3. CASE ~(current # 0 /\ reader[current] = "reading")
    BY <1>9, <2>1, <2>3, OthersLeave DEF CloseCancels, worldVars, Waiting
  <2>4. QED
    BY <2>2, <2>3
<1>10. QED
  BY <1>1, <1>2, <1>3, <1>4, <1>5, <1>6, <1>7, <1>8, <1>9, CallerLeaves DEF Next, ReaderStep, AtRest

\* A call that is left to its timeout by a reader that ended was never carried
\* out and never will be, however many controllers come and go.
THEOREM LeftBehindIsSafe == Spec => []LeftBehindNotCarriedOut
<1>1. Init => LeftInv
  BY DEF Init, LeftInv, RunningIsRead, LeftBehindNotCarriedOut, Waiting
<1>2. LeftInv => LeftBehindNotCarriedOut
  BY DEF LeftInv
<1>3. QED
  BY <1>1, <1>2, LeftNext, Invariant, PTL DEF Spec

=============================================================================
