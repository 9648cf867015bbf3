----------------------------- MODULE Auth_proofs -----------------------------
(***************************************************************************)
(* Proofs about the steps of Auth, for any clients, times and limits; the  *)
(* theorems about whole behaviours are in ViewerAccess_proofs, whose       *)
(* specification takes these steps.                                        *)
(***************************************************************************)
EXTENDS Auth, FiniteSetTheorems, TLAPS

LEMMA MinOfTwo ==
    ASSUME NEW a \in Int, NEW b \in Int
    PROVE  Min({a, b}) \in {a, b} /\ Min({a, b}) <= a /\ Min({a, b}) <= b
<1>1. \E x \in {a, b} : \A y \in {a, b} : x <= y
  BY a <= b \/ b <= a
<1>2. Min({a, b}) \in {a, b} /\ \A y \in {a, b} : Min({a, b}) <= y
  BY <1>1 DEF Min
<1>3. QED
  BY <1>2

\* An attempt leaves a count just above the limit at most, and a window that
\* ends within its length.
LEMMA ThrottleTyped ==
    ASSUME AuthTypeOK, NEW c \in Clients, NEW delay \in 0..MaxDelay, NEW passed, Throttle(c, delay, passed)
    PROVE  /\ count' \in [Clients -> 0..RateLimit + 1]
           /\ expiresIn' \in [Clients -> Expired..Window]
           /\ admitted' \in [Clients -> SUBSET Attempt]
<1> USE TimesAssumption
<1> DEFINE renew == expiresIn[c] < -delay
           row   == Attempted(c, renew, delay)
<1>1. count[c] \in 0..RateLimit + 1 /\ expiresIn[c] \in Expired..Window
  BY DEF AuthTypeOK
<1>2. row.count \in 0..RateLimit + 1
  <2>1. Min({count[c] + 1, RateLimit + 1}) \in {count[c] + 1, RateLimit + 1}
        /\ Min({count[c] + 1, RateLimit + 1}) <= RateLimit + 1
    BY <1>1, MinOfTwo
  <2>2. Min({count[c] + 1, RateLimit + 1}) \in 0..RateLimit + 1
    BY <1>1, <2>1
  <2>3. QED
    BY <2>2 DEF Attempted
<1>3. row.expiresIn \in Expired..Window
  <2>1. Window - delay \in Expired..Window
    BY DEF Expired
  <2>2. QED
    BY <1>1, <2>1 DEF Attempted
<1>4. count' = [count EXCEPT ![c] = row.count] /\ expiresIn' = [expiresIn EXCEPT ![c] = row.expiresIn]
  BY DEF Throttle
<1>5. Earlier(c, renew) \subseteq Attempt
  <2>1. admitted[c] \subseteq Attempt
    BY DEF AuthTypeOK
  <2>2. ASSUME NEW a \in Attempt PROVE [a EXCEPT !.window = @ + 1] \in Attempt
    BY DEF Attempt
  <2>3. QED
    BY <2>1, <2>2 DEF Earlier
<1>6. [age |-> 0, window |-> 0, number |-> row.count] \in Attempt
  BY <1>2 DEF Attempt, Span
<1>7. admitted' \in [Clients -> SUBSET Attempt]
  <2>1. admitted' = [admitted EXCEPT ![c] = Earlier(c, renew) \cup
                       (IF passed THEN {[age |-> 0, window |-> 0, number |-> row.count]} ELSE {})]
    BY DEF Throttle
  <2>2. QED
    BY <1>5, <1>6, <2>1 DEF AuthTypeOK
<1>8. QED
  BY <1>2, <1>3, <1>4, <1>7 DEF AuthTypeOK

LEMMA AuthStepTyped ==
    ASSUME AuthTypeOK, NEW c \in Clients, AuthStep(c)
    PROVE  AuthTypeOK'
<1> USE TimesAssumption DEF NoToken
<1>1. CASE SignIn(c)
  <2>1. PICK delay \in 0..MaxDelay, creates \in BOOLEAN :
           /\ Throttle(c, delay, TRUE) /\ Registered(c, creates)
           /\ tokenAge' = [tokenAge EXCEPT ![c] = 0]
    BY <1>1 DEF SignIn
  <2>2. count' \in [Clients -> 0..RateLimit + 1] /\ expiresIn' \in [Clients -> Expired..Window]
        /\ admitted' \in [Clients -> SUBSET Attempt]
    BY <2>1, ThrottleTyped
  <2>3. accounts' = accounts \cup {c}
    BY <2>1 DEF Registered
  <2>4. tokenAge' \in [Clients -> 0..NoToken]
    BY <2>1 DEF AuthTypeOK
  <2>5. \A d \in Clients : SignedIn(d)' => d \in accounts'
    BY <2>1, <2>3 DEF AuthTypeOK, SignedIn
  <2>6. QED
    BY <2>2, <2>3, <2>4, <2>5 DEF AuthTypeOK
<1>2. CASE SignInRefused(c)
  <2>1. PICK delay \in 0..MaxDelay, passed \in BOOLEAN : Throttle(c, delay, passed)
    BY <1>2 DEF SignInRefused
  <2>2. count' \in [Clients -> 0..RateLimit + 1] /\ expiresIn' \in [Clients -> Expired..Window]
        /\ admitted' \in [Clients -> SUBSET Attempt]
    BY <2>1, ThrottleTyped
  <2>3. UNCHANGED <<accounts, tokenAge>>
    BY <1>2 DEF SignInRefused
  <2>4. QED
    BY <2>2, <2>3 DEF AuthTypeOK, SignedIn
<1>3. CASE SignOut(c)
  BY <1>3 DEF SignOut, AuthTypeOK, SignedIn
<1>4. QED
  BY <1>1, <1>2, <1>3 DEF AuthStep

LEMMA AuthTickTyped == AuthTypeOK /\ AuthTick => AuthTypeOK'
<1> SUFFICES ASSUME AuthTypeOK, AuthTick PROVE AuthTypeOK'
  OBVIOUS
<1> USE TimesAssumption
<1>1. ASSUME NEW c \in Clients
      PROVE  /\ Min({tokenAge[c] + 1, NoToken}) \in 0..NoToken
             /\ tokenAge[c] = NoToken => Min({tokenAge[c] + 1, NoToken}) = NoToken
  <2>1. tokenAge[c] \in 0..NoToken /\ NoToken \in Nat
    BY DEF AuthTypeOK, NoToken
  <2>2. tokenAge[c] + 1 \in Int /\ NoToken \in Int
    BY <2>1
  <2>3. Min({tokenAge[c] + 1, NoToken}) \in {tokenAge[c] + 1, NoToken}
        /\ Min({tokenAge[c] + 1, NoToken}) <= NoToken
    BY ONLY <2>2, MinOfTwo, Zenon
  <2>4. QED
    BY <2>1, <2>2, <2>3
<1>2. tokenAge' = [c \in Clients |-> Min({tokenAge[c] + 1, NoToken})] /\ UNCHANGED <<accounts, count>>
  BY DEF AuthTick
<1>3. tokenAge' \in [Clients -> 0..NoToken]
  BY <1>1, <1>2
<1>4. \A c \in Clients : SignedIn(c)' => c \in accounts'
  BY <1>1, <1>2 DEF AuthTypeOK, SignedIn
<1>5. expiresIn' \in [Clients -> Expired..Window]
  <2>1. expiresIn' = [c \in Clients |-> IF expiresIn[c] = Expired THEN Expired ELSE expiresIn[c] - 1]
    BY DEF AuthTick
  <2>2. QED
    BY <2>1 DEF AuthTypeOK, Expired
<1>6. admitted' \in [Clients -> SUBSET Attempt]
  <2>1. ASSUME NEW a \in Attempt, a.age < Span PROVE [a EXCEPT !.age = @ + 1] \in Attempt
    BY <2>1 DEF Attempt, Span
  <2>2. admitted' = [c \in Clients |-> {[a EXCEPT !.age = @ + 1] :
                                         a \in {b \in admitted[c] : b.age < Span}}]
    BY DEF AuthTick
  <2>3. QED
    BY <2>1, <2>2 DEF AuthTypeOK
<1>7. QED
  BY <1>2, <1>3, <1>4, <1>5, <1>6 DEF AuthTypeOK

-----------------------------------------------------------------------------
(* What the throttle admits                                                *)

\* The admitted attempts S of the span are of two windows at most, numbered
\* within the limit and up to the count n, and those of the earlier window
\* will be out of the span before the present one, which ends in e ticks, is over.
Admissible(S, n, e) ==
    /\ S \subseteq Attempt
    /\ \A a \in S : a.window \in {0, 1} /\ a.number \in 1..RateLimit
    /\ \A a \in S : a.window = 0 => a.number <= n
    /\ \A a \in S : a.window = 1 => a.age + e >= Span
    /\ \A a, b \in S : a.window = b.window /\ a.number = b.number => a = b

AdmittedOK(c) == Admissible(admitted[c], count[c], expiresIn[c])

SpanInv == AuthTypeOK /\ \A c \in Clients : AdmittedOK(c)

\* Two windows of at most RateLimit attempts each.
LEMMA AdmissibleCount ==
    ASSUME NEW S, NEW n \in Nat, NEW e \in Int, Admissible(S, n, e)
    PROVE  Cardinality(S) <= 2 * RateLimit
<1> DEFINE place == [a \in S |-> IF a.window = 0 THEN a.number ELSE RateLimit + a.number]
           last  == 2 * RateLimit
<1> USE TimesAssumption
<1>1. place \in [S -> 1..last]
  BY DEF Admissible
<1>2. ASSUME NEW a \in S, NEW b \in S, place[a] = place[b]
      PROVE  a = b
  <2>1. /\ a.window \in {0, 1} /\ a.number \in 1..RateLimit
        /\ b.window \in {0, 1} /\ b.number \in 1..RateLimit
    BY DEF Admissible
  <2>2. a.window = b.window /\ a.number = b.number
    BY <1>2, <2>1
  <2>3. QED
    BY <2>2 DEF Admissible
<1>3. place \in Injection(S, 1..last)
  BY <1>1, <1>2 DEF Injection, IsInjective
<1>4. IsFiniteSet(1..last) /\ Cardinality(1..last) = last
  BY FS_Interval
<1>5. Cardinality(S) <= Cardinality(1..last)
  BY ONLY <1>3, <1>4, FS_Injection
<1>6. QED
  BY <1>4, <1>5

\* An attempt that is refused only adds to the count.
LEMMA CountMayGrow ==
    ASSUME NEW S, NEW n \in Nat, NEW m \in Nat, NEW e \in Int, Admissible(S, n, e), n <= m
    PROVE  Admissible(S, m, e)
<1>1. \A a \in S : a.window = 0 => a.number <= m
  BY DEF Admissible, Attempt
<1>2. QED
  BY <1>1 DEF Admissible

\* An attempt that passes takes the next number of the present window.
LEMMA JoinsWindow ==
    ASSUME NEW S, NEW n \in Nat, NEW e \in Int, Admissible(S, n, e), n < RateLimit
    PROVE  Admissible(S \cup {[age |-> 0, window |-> 0, number |-> n + 1]}, n + 1, e)
<1> DEFINE new == [age |-> 0, window |-> 0, number |-> n + 1]
<1>1. new \in Attempt /\ new.window = 0 /\ new.number = n + 1 /\ n + 1 \in 1..RateLimit
  BY TimesAssumption DEF Attempt, Span
<1>2. Admissible(S, n + 1, e)
  BY CountMayGrow
<1>3. \A a \in S : a.window = 0 => a.number # n + 1
  BY DEF Admissible, Attempt
<1> HIDE DEF new
<1>4. QED
  BY <1>1, <1>2, <1>3 DEF Admissible, new

\* The attempts of a window, one window back.
Back(S) == {[a EXCEPT !.window = @ + 1] : a \in S}

\* When a window that is over starts again, no attempt of the one before it
\* is left in the span.
LEMMA WindowRenewed ==
    ASSUME NEW S, NEW n \in Nat, NEW e \in Int, NEW delay \in 0..MaxDelay,
           Admissible(S, n, e), e < 0
    PROVE  Admissible(Back(S), 0, Window - delay)
<1> USE TimesAssumption
<1>1. ASSUME NEW a \in S
      PROVE  a \in Attempt /\ a.window = 0 /\ a.age \in 0..Span /\ a.number \in 1..RateLimit
  <2>1. a \in Attempt /\ a.age \in 0..Span /\ Span \in Int
    BY DEF Admissible, Attempt, Span
  <2>2. a.window # 1
    BY <2>1 DEF Admissible
  <2>3. QED
    BY <2>1, <2>2 DEF Admissible
<1>2. ASSUME NEW b \in Back(S)
      PROVE  /\ b \in Attempt /\ b.window = 1 /\ b.number \in 1..RateLimit
             /\ b.age + (Window - delay) >= Span
             /\ \E a \in S : b = [a EXCEPT !.window = 1] /\ b.number = a.number
  <2>1. PICK a \in S : b = [a EXCEPT !.window = @ + 1]
    BY DEF Back
  <2>2. /\ b \in Attempt /\ b.window = 1 /\ b.age = a.age /\ b.number = a.number
        /\ b = [a EXCEPT !.window = 1]
    BY <1>1, <2>1 DEF Attempt
  <2>3. b.age + (Window - delay) >= Span
    BY <1>1, <2>2 DEF Span
  <2>4. QED
    BY <1>1, <2>2, <2>3
<1>3. ASSUME NEW a \in Back(S), NEW b \in Back(S), a.number = b.number
      PROVE  a = b
  <2>1. PICK x \in S : a = [x EXCEPT !.window = 1] /\ a.number = x.number
    BY <1>2
  <2>2. PICK y \in S : b = [y EXCEPT !.window = 1] /\ b.number = y.number
    BY <1>2
  <2>3. x = y
    BY <1>1, <1>3, <2>1, <2>2 DEF Admissible
  <2>4. QED
    BY <2>1, <2>2, <2>3
<1>4. QED
  BY <1>2, <1>3 DEF Admissible

\* The attempts that are left in the span after a tick.
Aged(S) == {[a EXCEPT !.age = @ + 1] : a \in {b \in S : b.age < Span}}

LEMMA WindowAged ==
    ASSUME NEW S, NEW n \in Nat, NEW e \in Int, NEW later \in Int,
           Admissible(S, n, e), later >= e - 1
    PROVE  Admissible(Aged(S), n, later)
<1> USE TimesAssumption
<1>1. ASSUME NEW b \in Aged(S)
      PROVE  \E a \in S : /\ b \in Attempt /\ b = [a EXCEPT !.age = @ + 1] /\ b.age = a.age + 1
                          /\ b.window = a.window /\ b.number = a.number
                          /\ a.age \in Int
  <2>1. PICK a \in S : a.age < Span /\ b = [a EXCEPT !.age = @ + 1]
    BY DEF Aged
  <2>2. a \in Attempt
    BY DEF Admissible
  <2>3. b \in Attempt /\ b.age = a.age + 1 /\ b.window = a.window /\ b.number = a.number /\ a.age \in Int
    BY <2>1, <2>2 DEF Attempt, Span
  <2>4. QED
    BY <2>1, <2>3
<1>2. Aged(S) \subseteq Attempt
  BY <1>1
<1>3. ASSUME NEW b \in Aged(S)
      PROVE  /\ b.window \in {0, 1} /\ b.number \in 1..RateLimit
             /\ b.window = 0 => b.number <= n
             /\ b.window = 1 => b.age + later >= Span
  <2>1. PICK a \in S : /\ b.age = a.age + 1 /\ b.window = a.window /\ b.number = a.number
                       /\ a.age \in Int
    BY <1>1
  <2>2. /\ a.window \in {0, 1} /\ a.number \in 1..RateLimit
        /\ a.window = 0 => a.number <= n
        /\ a.window = 1 => a.age + e >= Span
    BY DEF Admissible
  <2>3. Span \in Int
    BY DEF Span
  <2>4. b.window = 1 => b.age + later >= Span
    BY <2>1, <2>2, <2>3
  <2>5. QED
    BY <2>1, <2>2, <2>4
<1>4. ASSUME NEW a \in Aged(S), NEW b \in Aged(S), a.window = b.window, a.number = b.number
      PROVE  a = b
  <2>1. PICK x \in S : a = [x EXCEPT !.age = @ + 1] /\ a.window = x.window /\ a.number = x.number
    BY <1>1
  <2>2. PICK y \in S : b = [y EXCEPT !.age = @ + 1] /\ b.window = y.window /\ b.number = y.number
    BY <1>1
  <2>3. x = y
    BY <1>4, <2>1, <2>2 DEF Admissible
  <2>4. QED
    BY <2>1, <2>2, <2>3
<1>5. QED
  BY <1>2, <1>3, <1>4 DEF Admissible

\* An attempt joins the present window, or starts one.
LEMMA ThrottleAdmits ==
    ASSUME SpanInv, NEW c \in Clients, NEW delay \in 0..MaxDelay, NEW passed \in BOOLEAN,
           Throttle(c, delay, passed)
    PROVE  \A d \in Clients : AdmittedOK(d)'
<1> USE TimesAssumption
<1> DEFINE renew == expiresIn[c] < -delay
           row   == Attempted(c, renew, delay)
           new   == [age |-> 0, window |-> 0, number |-> row.count]
           added == IF passed THEN {new} ELSE {}
<1>1. /\ count' = [count EXCEPT ![c] = row.count]
      /\ expiresIn' = [expiresIn EXCEPT ![c] = row.expiresIn]
      /\ passed <=> row.count <= RateLimit
      /\ admitted' = [admitted EXCEPT ![c] = Earlier(c, renew) \cup added]
  BY DEF Throttle
<1>2. count[c] \in 0..RateLimit + 1 /\ expiresIn[c] \in Expired..Window /\ AdmittedOK(c)
  BY DEF SpanInv, AuthTypeOK
<1>3. ASSUME NEW d \in Clients, d # c PROVE AdmittedOK(d)'
  <2>1. admitted'[d] = admitted[d] /\ count'[d] = count[d] /\ expiresIn'[d] = expiresIn[d]
    BY <1>1, <1>3 DEF SpanInv, AuthTypeOK
  <2>2. QED
    BY <2>1 DEF SpanInv, AdmittedOK
<1>4. PICK n \in Nat, e \in Int :
         /\ Admissible(Earlier(c, renew), n, e) /\ row.expiresIn = e
         /\ row.count \in Nat /\ n <= row.count
         /\ row.count <= RateLimit => row.count = n + 1
  <2>1. CASE renew
    <3>1. Earlier(c, renew) = Back(admitted[c]) /\ row.expiresIn = Window - delay /\ row.count = 1
      BY <2>1 DEF Earlier, Attempted, Back
    <3>2. expiresIn[c] < 0 /\ expiresIn[c] \in Int /\ count[c] \in Nat
      BY <1>2, <2>1 DEF Expired
    <3>3. Admissible(Back(admitted[c]), 0, Window - delay)
      BY <1>2, <3>2, WindowRenewed DEF AdmittedOK
    <3>4. Window - delay \in Int
      OBVIOUS
    <3> HIDE DEF renew, row
    <3>5. QED
      BY <3>1, <3>3, <3>4
  <2>2. CASE ~renew
    <3>1. Earlier(c, renew) = admitted[c] /\ row.expiresIn = expiresIn[c]
          /\ row.count = Min({count[c] + 1, RateLimit + 1})
      BY <2>2 DEF Earlier, Attempted
    <3>2. expiresIn[c] \in Int /\ count[c] \in Nat /\ count[c] <= RateLimit + 1
      BY <1>2 DEF Expired
    <3>3. count[c] + 1 \in Int /\ RateLimit + 1 \in Int
      BY <3>2
    <3>4. Admissible(admitted[c], count[c], expiresIn[c])
      BY <1>2 DEF AdmittedOK
    <3> HIDE DEF renew, row
    <3>5. row.count \in {count[c] + 1, RateLimit + 1}
          /\ row.count <= count[c] + 1 /\ row.count <= RateLimit + 1
      BY ONLY <3>1, <3>3, MinOfTwo, Zenon
    <3>6. row.count \in Nat /\ count[c] <= row.count
          /\ (row.count <= RateLimit => row.count = count[c] + 1)
      BY <3>2, <3>5
    <3>7. QED
      BY <3>1, <3>2, <3>4, <3>6
  <2>3. QED
    BY <2>1, <2>2
<1>5. admitted'[c] = Earlier(c, renew) \cup added /\ count'[c] = row.count /\ expiresIn'[c] = e
  BY <1>1, <1>4 DEF SpanInv, AuthTypeOK
<1> HIDE DEF renew, row
<1>6. Admissible(Earlier(c, renew) \cup added, row.count, e)
  <2>1. CASE passed
    <3>1. row.count = n + 1 /\ n < RateLimit
      BY <1>1, <1>4, <2>1
    <3>2. added = {[age |-> 0, window |-> 0, number |-> n + 1]}
      BY <2>1, <3>1
    <3>3. QED
      BY <1>4, <3>1, <3>2, JoinsWindow
  <2>2. CASE ~passed
    <3>1. Earlier(c, renew) \cup added = Earlier(c, renew)
      BY <2>2
    <3>2. Admissible(Earlier(c, renew), row.count, e)
      BY <1>4, CountMayGrow
    <3>3. QED
      BY <3>1, <3>2
  <2>3. QED
    BY <2>1, <2>2
<1>7. AdmittedOK(c)'
  BY <1>5, <1>6 DEF AdmittedOK
<1>8. QED
  BY <1>3, <1>7

\* A tick brings the end of the window as much nearer as it ages an attempt.
LEMMA TickAdmits ==
    ASSUME SpanInv, AuthTick
    PROVE  \A c \in Clients : AdmittedOK(c)'
<1> SUFFICES ASSUME NEW c \in Clients PROVE AdmittedOK(c)'
  OBVIOUS
<1> USE TimesAssumption
<1>1. /\ count' = count
      /\ expiresIn' = [d \in Clients |-> IF expiresIn[d] = Expired THEN Expired ELSE expiresIn[d] - 1]
      /\ admitted' = [d \in Clients |-> {[a EXCEPT !.age = @ + 1] :
                                           a \in {b \in admitted[d] : b.age < Span}}]
  BY DEF AuthTick
<1>2. count[c] \in Nat /\ expiresIn[c] \in Int /\ Admissible(admitted[c], count[c], expiresIn[c])
  BY DEF SpanInv, AuthTypeOK, AdmittedOK, Expired
<1>3. expiresIn'[c] \in Int /\ expiresIn'[c] >= expiresIn[c] - 1
  BY <1>1, <1>2 DEF Expired
<1>4. admitted'[c] = Aged(admitted[c])
  BY <1>1 DEF Aged
<1>5. Admissible(Aged(admitted[c]), count[c], expiresIn'[c])
  BY <1>2, <1>3, WindowAged
<1>6. QED
  BY <1>1, <1>4, <1>5 DEF AdmittedOK

LEMMA AuthStepKeepsSpan ==
    ASSUME SpanInv, NEW c \in Clients, AuthStep(c)
    PROVE  SpanInv'
<1>1. AuthTypeOK'
  BY AuthStepTyped DEF SpanInv
<1>2. CASE SignIn(c)
  <2>1. PICK delay \in 0..MaxDelay : Throttle(c, delay, TRUE)
    BY <1>2 DEF SignIn
  <2>2. QED
    BY <1>1, <2>1, ThrottleAdmits DEF SpanInv
<1>3. CASE SignInRefused(c)
  <2>1. PICK delay \in 0..MaxDelay, passed \in BOOLEAN : Throttle(c, delay, passed)
    BY <1>3 DEF SignInRefused
  <2>2. QED
    BY <1>1, <2>1, ThrottleAdmits DEF SpanInv
<1>4. CASE SignOut(c)
  BY <1>1, <1>4 DEF SignOut, SpanInv, AdmittedOK
<1>5. QED
  BY <1>2, <1>3, <1>4 DEF AuthStep

LEMMA AuthTickKeepsSpan == SpanInv /\ AuthTick => SpanInv'
  BY AuthTickTyped, TickAdmits DEF SpanInv

\* No attempt has been made yet.
LEMMA AuthStarts == AuthInit => SpanInv
<1> SUFFICES ASSUME AuthInit PROVE SpanInv
  OBVIOUS
<1> USE TimesAssumption DEF AuthInit
<1>1. AuthTypeOK
  BY DEF AuthTypeOK, NoToken, Expired, SignedIn
<1>2. ASSUME NEW c \in Clients PROVE AdmittedOK(c)
  <2>1. admitted[c] = {}
    OBVIOUS
  <2>2. QED
    BY <2>1 DEF AdmittedOK, Admissible
<1>3. QED
  BY <1>1, <1>2 DEF SpanInv

LEMMA SpanCounted == SpanInv => SpanLimit
<1> SUFFICES ASSUME SpanInv, NEW c \in Clients PROVE Cardinality(admitted[c]) <= 2 * RateLimit
  BY DEF SpanLimit
<1>1. count[c] \in Nat /\ expiresIn[c] \in Int /\ Admissible(admitted[c], count[c], expiresIn[c])
  BY TimesAssumption DEF SpanInv, AuthTypeOK, AdmittedOK, Expired
<1>2. QED
  BY <1>1, AdmissibleCount

=============================================================================
