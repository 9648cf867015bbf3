----------------------------- MODULE ViewerAccess -----------------------------
(***************************************************************************)
(* The recording viewer's socket (app/routes/viewers.py), composed with    *)
(* the sessions of Auth and with what other requests do meanwhile: change  *)
(* the user's role, end the recording, take its container down.  Access    *)
(* is checked before the socket is opened and again every interval, each   *)
(* time with the token the handshake's cookie held: a socket never learns  *)
(* of a later cookie of its browser.                                       *)
(***************************************************************************)
EXTENDS Auth, Roles

CONSTANT CheckInterval  \* the five seconds of reauthorize, in ticks

ASSUME IntervalAssumption == CheckInterval \in Nat \ {0}

VARIABLES
    role,       \* each client's role in the project's organization
    ready,      \* the recording's row has the status "ready"
    running,    \* the runtime knows a target for the recording
    socket,     \* each client's viewer connection
    ticket,     \* the session token its handshake's cookie held
    recheckIn,  \* ticks until the socket's next reauthorize
    lost        \* history: ticks an open socket was without access at a stretch

viewerVars == <<role, ready, running, socket, ticket, recheckIn, lost>>
vars       == <<authVars, viewerVars>>

\* "authorized": the handshake's checks passed; "connecting": the target is
\* known and the upstream socket is being opened; "open": accepted.
SocketState == {"closed", "authorized", "connecting", "open"}

\* A token's age, and whether it is still the one in the browser's cookie.
Ticket   == [age : 0..NoToken, current : BOOLEAN]
NoTicket == [age |-> NoToken, current |-> FALSE]

\* read_token finds the handshake's token, no older than the lifetime.
TicketValid(c) == ticket[c].age # NoToken

MayEdit(c) == ready /\ Permitted(role[c], "edit")

\* What the handshake asks for: the session, the recording's status and the
\* permission.
MayWatch(c) == SignedIn(c) /\ MayEdit(c)

\* What the socket has from then on.
Access(c) == TicketValid(c) /\ MayEdit(c)

Init == /\ AuthInit
        /\ role \in [Clients -> {"member"}]
        /\ ready = TRUE /\ running = TRUE
        /\ socket = [c \in Clients |-> "closed"]
        /\ ticket = [c \in Clients |-> NoTicket]
        /\ recheckIn = [c \in Clients |-> 0]
        /\ lost = [c \in Clients |-> 0]

Moves(c, from, to) == socket[c] = from /\ socket' = [socket EXCEPT ![c] = to]

Closes(c) == /\ socket' = [socket EXCEPT ![c] = "closed"]
             /\ ticket' = [ticket EXCEPT ![c] = NoTicket]

-----------------------------------------------------------------------------
(* recording_socket                                                        *)

\* The origin is trusted and access is granted; refused, the socket is
\* closed before it was accepted.
Authorize(c) ==
    /\ MayWatch(c) /\ Moves(c, "closed", "authorized")
    /\ ticket' = [ticket EXCEPT ![c] = [age |-> tokenAge[c], current |-> TRUE]]
    /\ UNCHANGED <<authVars, role, ready, running, recheckIn, lost>>

\* recording_target asks the runtime: without a target the socket is closed.
FindTarget(c) ==
    /\ \/ running /\ Moves(c, "authorized", "connecting") /\ UNCHANGED ticket
       \/ ~running /\ socket[c] = "authorized" /\ Closes(c)
    /\ UNCHANGED <<authVars, role, ready, running, recheckIn, lost>>

\* The upstream connection stands: the browser's is accepted, whatever has
\* become of the access since, and the three tasks start.
Accepts(c) ==
    /\ running /\ Moves(c, "connecting", "open")
    /\ recheckIn' = [recheckIn EXCEPT ![c] = CheckInterval]
    /\ lost' = [lost EXCEPT ![c] = 0]
    /\ UNCHANGED <<authVars, role, ready, running, ticket>>

\* Either end disconnects or fails: the first task to end ends all three,
\* and the browser's socket is closed.
Disconnects(c) ==
    /\ socket[c] \in {"connecting", "open"} /\ Closes(c)
    /\ UNCHANGED <<authVars, role, ready, running, recheckIn, lost>>

\* Mutant: the permission is not looked at again, only session and status.
StaysAuthorizedByRow(c) == TicketValid(c) /\ ready

\* What reauthorize asks of the database, with the cookie of the handshake.
StaysAuthorized(c) == Access(c)

\* Mutant: a check that fails ends reauthorize but not the other two tasks.
EndsOnlyItself(c) == UNCHANGED <<socket, ticket>>

\* asyncio.wait(FIRST_COMPLETED): reauthorize returning ends the connection.
EndsConnection(c) == Closes(c)

\* reauthorize: it sleeps for the interval again after a check that passed.
Reauthorize(c) ==
    /\ socket[c] = "open" /\ recheckIn[c] = 0
    /\ IF StaysAuthorized(c)
       THEN recheckIn' = [recheckIn EXCEPT ![c] = CheckInterval] /\ UNCHANGED <<socket, ticket>>
       ELSE EndsConnection(c) /\ UNCHANGED recheckIn
    /\ lost' = IF Access(c) THEN [lost EXCEPT ![c] = 0] ELSE lost
    /\ UNCHANGED <<authVars, role, ready, running>>

-----------------------------------------------------------------------------
(* What happens elsewhere meanwhile                                        *)

\* Another request removes the member or changes the role (Tenants).
RoleChanges(c) ==
    /\ role' \in {[role EXCEPT ![c] = new] : new \in {"none", "viewer", "member"} \ {role[c]}}
    /\ UNCHANGED <<authVars, ready, running, socket, ticket, recheckIn, lost>>

\* The recording's row leaves "ready" (Recordings), or its container dies.
RecordingEnds ==
    /\ ready /\ ready' = FALSE
    /\ UNCHANGED <<authVars, role, running, socket, ticket, recheckIn, lost>>

TargetGone ==
    /\ running /\ running' = FALSE
    /\ UNCHANGED <<authVars, role, ready, socket, ticket, recheckIn, lost>>

\* A new cookie leaves the token of an open socket as it is; a sign-out
\* destroys the token of the cookie, which may be another.
SessionStep(c) ==
    /\ \/ SignIn(c) /\ ticket' = [ticket EXCEPT ![c].current = FALSE]
       \/ SignInRefused(c) /\ UNCHANGED ticket
       \/ SignOut(c) /\ ticket' = IF ticket[c].current THEN [ticket EXCEPT ![c].age = NoToken] ELSE ticket
    /\ UNCHANGED <<role, ready, running, socket, recheckIn, lost>>

\* A check that is due is made before the next tick: it takes a query, the
\* interval is seconds.
Tick ==
    /\ AuthTick
    /\ ticket' = [c \in Clients |-> [ticket[c] EXCEPT !.age = Min({@ + 1, NoToken})]]
    /\ \A c \in Clients : socket[c] = "open" => recheckIn[c] > 0
    /\ recheckIn' = [c \in Clients |-> IF socket[c] = "open" THEN recheckIn[c] - 1 ELSE 0]
    /\ lost' = [c \in Clients |->
                  IF socket[c] = "open" /\ ~Access(c) THEN lost[c] + 1 ELSE 0]
    /\ UNCHANGED <<role, ready, running, socket>>

SocketStep(c) == Authorize(c) \/ FindTarget(c) \/ Accepts(c) \/ Disconnects(c) \/ Reauthorize(c)

Next == \/ \E c \in Clients : SocketStep(c) \/ SessionStep(c) \/ RoleChanges(c)
        \/ RecordingEnds \/ TargetGone \/ Tick

\* Time passes, and a task whose sleep is over runs.
Fairness == WF_vars(Tick) /\ \A c \in Clients : WF_vars(Reauthorize(c))

Spec == Init /\ [][Next]_vars /\ Fairness

-----------------------------------------------------------------------------

\* The types; and a socket's token that is still the cookie's is as old as it.
TypeOK ==
    /\ AuthTypeOK
    /\ role \in [Clients -> Role \cup {"none"}]
    /\ ready \in BOOLEAN /\ running \in BOOLEAN
    /\ socket \in [Clients -> SocketState]
    /\ ticket \in [Clients -> Ticket]
    /\ \A c \in Clients : ticket[c].current => ticket[c].age = tokenAge[c]
    /\ recheckIn \in [Clients -> 0..CheckInterval]
    /\ lost \in [Clients -> Nat]

\* Whoever signs out of the session a viewer was opened in, whose session
\* expires, who is removed or demoted, or whose recording ends, keeps the open
\* viewer for at most one interval, even when access went while the socket was
\* still being connected (reauthorize, api-contract.md).  A sign-out after a
\* second sign-in ends the second session only: that viewer stays.
ClosedWithinInterval == \A c \in Clients : socket[c] = "open" => lost[c] <= CheckInterval

\* Without access a socket does not stay open: it closes, unless the access
\* comes back first.
LostAccessCloses ==
    \A c \in Clients :
       (socket[c] = "open" /\ ~Access(c)) ~> (socket[c] # "open" \/ Access(c))

=============================================================================
