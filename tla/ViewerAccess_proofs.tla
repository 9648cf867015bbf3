------------------------- MODULE ViewerAccess_proofs -------------------------
(***************************************************************************)
(* Proofs about ViewerAccess, for any interval, lifetime and limit: the    *)
(* time a socket has been without access and the time to its next check    *)
(* add up to no more than the interval.  What sessions and the throttle    *)
(* keep comes from Auth_proofs, and the types come last.                   *)
(***************************************************************************)
EXTENDS ViewerAccess, Auth_proofs, TLAPS

ClocksOK == /\ socket \in [Clients -> SocketState]
            /\ recheckIn \in [Clients -> 0..CheckInterval]
            /\ lost \in [Clients -> Nat]

IInv == /\ ClocksOK
        /\ \A c \in Clients : socket[c] = "open" => lost[c] + recheckIn[c] <= CheckInterval

LEMMA SocketStepKeeps ==
    ASSUME IInv, NEW c \in Clients, SocketStep(c)
    PROVE  IInv'
<1> USE IntervalAssumption DEF IInv, ClocksOK, SocketState
<1>1. CASE Authorize(c)
  BY <1>1 DEF Authorize, Moves
<1>2. CASE FindTarget(c)
  BY <1>2 DEF FindTarget, Moves, Closes
<1>3. CASE Accepts(c)
  BY <1>3 DEF Accepts, Moves
<1>4. CASE Disconnects(c)
  BY <1>4 DEF Disconnects, Closes
<1>5. CASE Reauthorize(c)
  <2>1. socket[c] = "open" /\ recheckIn[c] = 0
    BY <1>5 DEF Reauthorize
  <2>2. CASE StaysAuthorized(c)
    <3>1. socket' = socket /\ recheckIn' = [recheckIn EXCEPT ![c] = CheckInterval]
          /\ lost' = [lost EXCEPT ![c] = 0]
      BY <1>5, <2>2 DEF Reauthorize, StaysAuthorized
    <3>2. QED
      BY <3>1
  <2>3. CASE ~StaysAuthorized(c)
    <3>1. socket' = [socket EXCEPT ![c] = "closed"] /\ recheckIn' = recheckIn /\ lost' = lost
      BY <1>5, <2>3 DEF Reauthorize, EndsConnection, Closes, StaysAuthorized
    <3>2. QED
      BY <3>1
  <2>4. QED
    BY <2>2, <2>3
<1>6. QED
  BY <1>1, <1>2, <1>3, <1>4, <1>5 DEF SocketStep

\* A tick is taken from the time to the check, and at most added to lost.
LEMMA TickKeeps == IInv /\ Tick => IInv'
<1> SUFFICES ASSUME IInv, Tick PROVE IInv'
  OBVIOUS
<1> USE IntervalAssumption DEF IInv, ClocksOK
<1>1. /\ socket' = socket
      /\ \A c \in Clients : socket[c] = "open" => recheckIn[c] > 0
      /\ recheckIn' = [c \in Clients |-> IF socket[c] = "open" THEN recheckIn[c] - 1 ELSE 0]
      /\ lost' = [c \in Clients |-> IF socket[c] = "open" /\ ~Access(c) THEN lost[c] + 1 ELSE 0]
  BY DEF Tick
<1>2. ClocksOK'
  BY <1>1
<1>3. ASSUME NEW c \in Clients, socket'[c] = "open" PROVE lost'[c] + recheckIn'[c] <= CheckInterval
  <2>1. socket[c] = "open" /\ recheckIn'[c] = recheckIn[c] - 1
    BY <1>1, <1>3
  <2>2. lost'[c] \in {lost[c] + 1, 0}
    BY <1>1
  <2>3. lost[c] + recheckIn[c] <= CheckInterval /\ recheckIn[c] \in 0..CheckInterval /\ lost[c] \in Nat
    BY <2>1
  <2>4. QED
    BY <2>1, <2>2, <2>3
<1>4. QED
  BY <1>2, <1>3

THEOREM Invariant == Spec => []IInv
<1>1. Init => IInv
  <2> SUFFICES ASSUME Init PROVE IInv
    OBVIOUS
  <2>1. /\ socket = [c \in Clients |-> "closed"] /\ lost = [c \in Clients |-> 0]
        /\ recheckIn = [c \in Clients |-> 0]
    BY DEF Init
  <2>2. QED
    BY <2>1, IntervalAssumption DEF IInv, ClocksOK, SocketState
<1>2. IInv /\ [Next]_vars => IInv'
  <2> SUFFICES ASSUME IInv, [Next]_vars PROVE IInv'
    OBVIOUS
  <2>1. ASSUME NEW c \in Clients, SessionStep(c) \/ RoleChanges(c) PROVE IInv'
    BY <2>1 DEF SessionStep, RoleChanges, IInv, ClocksOK
  <2>2. CASE RecordingEnds \/ TargetGone
    BY <2>2 DEF RecordingEnds, TargetGone, IInv, ClocksOK
  <2>3. CASE UNCHANGED vars
    BY <2>3 DEF vars, viewerVars, IInv, ClocksOK
  <2>4. QED
    BY <2>1, <2>2, <2>3, SocketStepKeeps, TickKeeps DEF Next
<1>3. QED
  BY <1>1, <1>2, PTL DEF Spec

\* Whatever the interval, an open viewer outlives the access that the token it
\* was opened with gives by at most one.
THEOREM AccessEndsInTime == Spec => []ClosedWithinInterval
<1>1. IInv => ClosedWithinInterval
  <2> SUFFICES ASSUME IInv, NEW c \in Clients, socket[c] = "open" PROVE lost[c] <= CheckInterval
    BY DEF ClosedWithinInterval
  <2>1. lost[c] \in Nat /\ recheckIn[c] \in 0..CheckInterval
        /\ lost[c] + recheckIn[c] <= CheckInterval
    BY DEF IInv, ClocksOK
  <2>2. QED
    BY <2>1, IntervalAssumption
<1>2. QED
  BY <1>1, Invariant, PTL

-----------------------------------------------------------------------------
(* The throttle                                                            *)

\* A viewer's socket and another request's change of role leave sessions and
\* the throttle alone.
LEMMA OthersKeepAuth ==
    ASSUME NEW c \in Clients, SocketStep(c) \/ RoleChanges(c)
    PROVE  UNCHANGED authVars
  BY DEF SocketStep, Authorize, FindTarget, Accepts, Disconnects, Reauthorize, RoleChanges

\* The admitted attempts of the span belong to two windows, one of which has
\* left the span before the other can be over.
THEOREM TwoWindows == Spec => []SpanInv
<1>1. Init => SpanInv
  BY AuthStarts DEF Init
<1>2. SpanInv /\ [Next]_vars => SpanInv'
  <2> SUFFICES ASSUME SpanInv, [Next]_vars PROVE SpanInv'
    OBVIOUS
  <2>1. ASSUME NEW c \in Clients, SessionStep(c) PROVE SpanInv'
    BY <2>1, AuthStepKeepsSpan DEF SessionStep, AuthStep
  <2>2. CASE Tick
    BY <2>2, AuthTickKeepsSpan DEF Tick
  <2>3. CASE UNCHANGED authVars
    BY <2>3 DEF authVars, SpanInv, AuthTypeOK, SignedIn, AdmittedOK
  <2>4. CASE UNCHANGED vars
    BY <2>3, <2>4 DEF vars
  <2>5. ASSUME NEW c \in Clients, SocketStep(c) \/ RoleChanges(c) PROVE SpanInv'
    BY <2>3, <2>5, OthersKeepAuth
  <2>6. CASE RecordingEnds \/ TargetGone
    BY <2>3, <2>6 DEF RecordingEnds, TargetGone
  <2>7. QED
    BY <2>1, <2>2, <2>4, <2>5, <2>6 DEF Next
<1>3. QED
  BY <1>1, <1>2, PTL DEF Spec

\* Whatever the window, the limit and the delays, the throttle never admits
\* more than twice the limit in a span that is shorter than the window by the
\* longest delay.
THEOREM ThrottleLimits == Spec => []SpanLimit
  BY SpanCounted, TwoWindows, PTL

-----------------------------------------------------------------------------
(* The types                                                               *)

Types == /\ role \in [Clients -> Role \cup {"none"}]
         /\ ready \in BOOLEAN /\ running \in BOOLEAN

\* The token of a socket, as long as no other has taken its place in the
\* browser, is the browser's.
TicketsOK == /\ ticket \in [Clients -> Ticket]
             /\ \A c \in Clients : ticket[c].current => ticket[c].age = tokenAge[c]

LEMMA TokenAges ==
    ASSUME AuthTypeOK
    PROVE  NoToken \in Nat /\ \A c \in Clients : tokenAge[c] \in 0..NoToken
BY TimesAssumption DEF AuthTypeOK, NoToken

\* A handshake takes the cookie's token, and whatever closes the socket drops it.
LEMMA SocketStepKeepsTickets ==
    ASSUME AuthTypeOK, TicketsOK, NEW c \in Clients, SocketStep(c)
    PROVE  TicketsOK'
<1> USE TokenAges DEF TicketsOK, Ticket
<1>1. UNCHANGED tokenAge
  BY OthersKeepAuth DEF authVars
<1>2. CASE Authorize(c)
  <2>1. ticket' = [ticket EXCEPT ![c] = [age |-> tokenAge[c], current |-> TRUE]]
    BY <1>2 DEF Authorize
  <2>2. QED
    BY <1>1, <2>1
<1>3. CASE ticket' = [ticket EXCEPT ![c] = NoTicket]
  BY <1>1, <1>3 DEF NoTicket
<1>4. CASE UNCHANGED ticket
  BY <1>1, <1>4
<1>5. QED
  BY <1>2, <1>3, <1>4
  DEF SocketStep, FindTarget, Accepts, Disconnects, Reauthorize, EndsConnection, Closes

\* A new cookie, a sign-out and the passing of time keep the two tokens equal
\* or part them for good.
LEMMA SessionStepKeepsTickets ==
    ASSUME AuthTypeOK, TicketsOK, NEW c \in Clients, SessionStep(c)
    PROVE  TicketsOK'
<1> USE TokenAges DEF TicketsOK, Ticket
<1>1. CASE SignIn(c) /\ ticket' = [ticket EXCEPT ![c].current = FALSE]
  <2>1. tokenAge' = [tokenAge EXCEPT ![c] = 0]
    BY <1>1 DEF SignIn
  <2>2. QED
    BY <1>1, <2>1 DEF AuthTypeOK
<1>2. CASE SignInRefused(c) /\ UNCHANGED ticket
  BY <1>2 DEF SignInRefused
<1>3. CASE /\ SignOut(c)
           /\ ticket' = IF ticket[c].current THEN [ticket EXCEPT ![c].age = NoToken] ELSE ticket
  <2>1. tokenAge' = [tokenAge EXCEPT ![c] = NoToken]
    BY <1>3 DEF SignOut
  <2>2. QED
    BY <1>3, <2>1 DEF AuthTypeOK
<1>4. QED
  BY <1>1, <1>2, <1>3 DEF SessionStep

LEMMA TickKeepsTickets ==
    ASSUME AuthTypeOK, TicketsOK, Tick
    PROVE  TicketsOK'
<1>1. /\ ticket' = [c \in Clients |-> [ticket[c] EXCEPT !.age = Min({@ + 1, NoToken})]]
      /\ tokenAge' = [c \in Clients |-> Min({tokenAge[c] + 1, NoToken})]
  BY DEF Tick, AuthTick
<1>2. ASSUME NEW c \in Clients
      PROVE  /\ ticket'[c] \in Ticket
             /\ ticket'[c].current => ticket'[c].age = tokenAge'[c]
  <2> DEFINE age == ticket[c].age
             next == Min({age + 1, NoToken})
  <2>1. ticket[c] \in Ticket /\ age \in 0..NoToken /\ NoToken \in Nat
    BY TokenAges DEF TicketsOK, Ticket
  <2>2. age + 1 \in Int /\ NoToken \in Int
    BY <2>1
  <2>3. next \in {age + 1, NoToken} /\ next <= NoToken
    BY ONLY <2>2, MinOfTwo, Zenon
  <2>4. next \in 0..NoToken
    BY <2>1, <2>3
  <2>5. ticket'[c] = [ticket[c] EXCEPT !.age = next]
    BY <1>1
  <2> HIDE DEF next
  <2>6. ticket'[c] \in Ticket /\ ticket'[c].age = next /\ ticket'[c].current = ticket[c].current
    BY <2>1, <2>4, <2>5 DEF Ticket
  <2>7. ticket[c].current => tokenAge'[c] = next
    BY <1>1 DEF TicketsOK, next
  <2>8. QED
    BY <2>6, <2>7
<1>3. ticket' \in [Clients -> Ticket]
  BY <1>1, <1>2
<1>4. QED
  BY <1>2, <1>3 DEF TicketsOK

\* A socket's token is the cookie's until the browser signs in again.
THEOREM TicketsHold == Spec => []TicketsOK
<1>1. Init => TicketsOK
  BY TimesAssumption DEF Init, TicketsOK, Ticket, NoTicket, NoToken
<1>2. SpanInv /\ TicketsOK /\ [Next]_vars => TicketsOK'
  <2> SUFFICES ASSUME SpanInv, TicketsOK, [Next]_vars PROVE TicketsOK'
    OBVIOUS
  <2>1. AuthTypeOK
    BY DEF SpanInv
  <2>2. ASSUME NEW c \in Clients, RoleChanges(c) PROVE TicketsOK'
    BY <2>2 DEF RoleChanges, authVars, TicketsOK
  <2>3. CASE RecordingEnds \/ TargetGone \/ UNCHANGED vars
    BY <2>3 DEF RecordingEnds, TargetGone, vars, viewerVars, authVars, TicketsOK
  <2>4. QED
    BY <2>1, <2>2, <2>3, SocketStepKeepsTickets, SessionStepKeepsTickets, TickKeepsTickets DEF Next
<1>3. QED
  BY <1>1, <1>2, TwoWindows, PTL DEF Spec

\* Every reachable state is well typed, and a token belongs to an account.
THEOREM TypeCorrect == Spec => []TypeOK
<1>1. Init => Types
  BY DEF Init, Types, Role
<1>2. Types /\ [Next]_vars => Types'
  <2> SUFFICES ASSUME Types, [Next]_vars PROVE Types'
    OBVIOUS
  <2>1. ASSUME NEW c \in Clients, SocketStep(c) PROVE Types'
    <3>1. UNCHANGED <<role, ready, running>>
      BY <2>1 DEF SocketStep, Authorize, FindTarget, Accepts, Disconnects, Reauthorize
    <3>2. QED
      BY <3>1 DEF Types
  <2>2. ASSUME NEW c \in Clients, SessionStep(c) PROVE Types'
    BY <2>2 DEF SessionStep, Types
  <2>3. ASSUME NEW c \in Clients, RoleChanges(c) PROVE Types'
    BY <2>3 DEF RoleChanges, Types, Role
  <2>4. CASE RecordingEnds \/ TargetGone
    BY <2>4 DEF RecordingEnds, TargetGone, Types
  <2>5. CASE Tick \/ UNCHANGED vars
    BY <2>5 DEF Tick, vars, viewerVars, Types
  <2>6. QED
    BY <2>1, <2>2, <2>3, <2>4, <2>5 DEF Next
<1>3. IInv /\ Types /\ SpanInv /\ TicketsOK => TypeOK
  BY DEF IInv, ClocksOK, Types, SpanInv, TicketsOK, TypeOK
<1>4. QED
  BY <1>1, <1>2, <1>3, Invariant, TwoWindows, TicketsHold, PTL DEF Spec

=============================================================================
