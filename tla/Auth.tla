--------------------------------- MODULE Auth ---------------------------------
(***************************************************************************)
(* app/auth.py: accounts, the session token in a browser's cookie, and the *)
(* throttle in front of sign-up and sign-in.  Time advances in ticks; every *)
(* time is kept relative to the present, so the model has no horizon.      *)
(***************************************************************************)
EXTENDS Integers, FiniteSets, FiniteSetsExt

CONSTANTS Clients,          \* a browser, with the email its user signs in with
          SessionLifetime,  \* Settings.session_lifetime, in ticks
          Window,           \* the throttle's five minutes, in ticks
          RateLimit,        \* Settings.auth_rate_limit
          MaxDelay          \* bound: ticks between utcnow() and the upsert

ASSUME TimesAssumption == /\ SessionLifetime \in Nat /\ Window \in Nat \ {0}
                          /\ RateLimit \in Nat /\ MaxDelay \in 0..Window - 1

VARIABLES
    accounts,   \* the clients whose user is registered
    tokenAge,   \* ticks since the cookie's token was written; NoToken: none
    count,      \* auth_attempts.count, capped just above the limit
    expiresIn,  \* ticks until auth_attempts.expires_at, or Expired
    admitted    \* history: the attempts of the last Span ticks that passed the throttle

authVars == <<accounts, tokenAge, count, expiresIn, admitted>>

NoToken == SessionLifetime + 1
Expired == -(MaxDelay + 1)

\* A window may start as much before its first attempt is counted as an
\* attempt may be delayed.
Span == Window - MaxDelay

\* An attempt that passed: its age, the throttle's window it was counted in
\* (0 is the present one, 1 the one before it), and its number there.
Attempt == [age : 0..Span, window : Nat, number : Nat]

AuthInit == /\ accounts = {}
            /\ tokenAge = [c \in Clients |-> NoToken]
            /\ count = [c \in Clients |-> 0]
            /\ expiresIn = [c \in Clients |-> Expired]
            /\ admitted = [c \in Clients |-> {}]

\* resolve_user for a request of the browser: read_token finds the token of
\* its present cookie, no older than the lifetime.
SignedIn(c) == tokenAge[c] # NoToken

\* Mutant: the renewed window keeps the expiry it had.
AttemptedKeepingExpiry(c, renew, delay) ==
    [count |-> IF renew THEN 1 ELSE Min({count[c] + 1, RateLimit + 1}), expiresIn |-> expiresIn[c]]

\* The upsert of throttle: a window that was over at the attempt's own time,
\* read before the statement ran, starts again with a count of one.
Attempted(c, renew, delay) ==
    [count |-> IF renew THEN 1 ELSE Min({count[c] + 1, RateLimit + 1}),
     expiresIn |-> IF renew THEN Window - delay ELSE expiresIn[c]]

\* The attempts admitted so far, when the window is renewed or not.
Earlier(c, renew) ==
    IF renew THEN {[a EXCEPT !.window = @ + 1] : a \in admitted[c]} ELSE admitted[c]

\* throttle, and its outcome: the count is committed before it is compared.
Throttle(c, delay, passed) ==
    LET renew == expiresIn[c] < -delay
        row   == Attempted(c, renew, delay)
        new   == [age |-> 0, window |-> 0, number |-> row.count]
    IN  /\ count' = [count EXCEPT ![c] = row.count]
        /\ expiresIn' = [expiresIn EXCEPT ![c] = row.expiresIn]
        /\ passed = (row.count <= RateLimit)
        /\ admitted' = [admitted EXCEPT ![c] =
                          Earlier(c, renew) \cup (IF passed THEN {new} ELSE {})]

\* Mutant: whoever signs in is taken to have an account.
RegisteredAnyway(c, creates) == accounts' = accounts

\* Sign-up creates the account and refuses one that exists (UserAlreadyExists);
\* sign-in needs one.
Registered(c, creates) ==
    /\ creates <=> c \notin accounts
    /\ accounts' = accounts \cup {c}

\* register and login, as they succeed: a new token takes the place of the
\* cookie's, which is not destroyed: who still presents it is signed in until
\* it expires (ViewerAccess).
SignIn(c) ==
    \E delay \in 0..MaxDelay, creates \in BOOLEAN :
       /\ Throttle(c, delay, TRUE)
       /\ Registered(c, creates)
       /\ tokenAge' = [tokenAge EXCEPT ![c] = 0]

\* Refused by the throttle, by a wrong password, or by an account that exists.
SignInRefused(c) ==
    /\ \E delay \in 0..MaxDelay, passed \in BOOLEAN : Throttle(c, delay, passed)
    /\ UNCHANGED <<accounts, tokenAge>>

\* logout destroys the token the cookie holds, and no earlier one.
SignOut(c) ==
    /\ SignedIn(c)
    /\ tokenAge' = [tokenAge EXCEPT ![c] = NoToken]
    /\ UNCHANGED <<accounts, count, expiresIn, admitted>>

AuthTick ==
    /\ tokenAge' = [c \in Clients |-> Min({tokenAge[c] + 1, NoToken})]
    /\ expiresIn' = [c \in Clients |-> IF expiresIn[c] = Expired THEN Expired ELSE expiresIn[c] - 1]
    /\ admitted' = [c \in Clients |-> {[a EXCEPT !.age = @ + 1] :
                                         a \in {b \in admitted[c] : b.age < Span}}]
    /\ UNCHANGED <<accounts, count>>

AuthStep(c) == SignIn(c) \/ SignInRefused(c) \/ SignOut(c)

-----------------------------------------------------------------------------

\* The types, and a token only ever belongs to an account.
AuthTypeOK ==
    /\ accounts \subseteq Clients
    /\ tokenAge \in [Clients -> 0..NoToken]
    /\ count \in [Clients -> 0..RateLimit + 1]
    /\ expiresIn \in [Clients -> Expired..Window]
    /\ admitted \in [Clients -> SUBSET Attempt]
    /\ \A c \in Clients : SignedIn(c) => c \in accounts

\* The throttle of sign-in attempts (auth.py): a fixed window lets a burst at
\* its end meet a burst at the next one's start, but no more than these two:
\* no span that is shorter than the window by the delay of an attempt ever
\* admits more than twice the limit.
SpanLimit == \A c \in Clients : Cardinality(admitted[c]) <= 2 * RateLimit

=============================================================================
