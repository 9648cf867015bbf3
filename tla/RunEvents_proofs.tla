--------------------------- MODULE RunEvents_proofs ---------------------------
(***************************************************************************)
(* Proofs about RunEvents, for any number of events and any page size.  A  *)
(* client can miss an event (PagesMissNothing does not hold); these say    *)
(* how far that can go.  The argument: the only id that can still commit   *)
(* behind the cursor is the one emit holds, and only a closing event can   *)
(* have overtaken it.                                                      *)
(***************************************************************************)
EXTENDS RunEvents, FiniteSetTheorems, WellFoundedInduction, TLAPS

\* The events the client has paged past without being given them.
Missed == {e \in events : e <= after /\ e \notin seen}

\* The id emit holds is not the last one any more.
Overtaken == inserted # 0 /\ inserted # nextId - 1

\* The times the run's row was closed: by cancel_run, and by Jobs.finish.
Closings == (IF cancelled THEN 1 ELSE 0) + (IF finished THEN 1 ELSE 0)

TypeOK ==
    /\ nextId \in Nat /\ events \subseteq 1..nextId - 1
    /\ inserted \in 0..nextId - 1 /\ inserted \notin events
    /\ holder \in {"nobody", "cancel", "finish"}
    /\ cancelled \in BOOLEAN /\ finished \in BOOLEAN
    /\ holder = "cancel" => ~cancelled
    /\ holder = "finish" => ~finished
    /\ after \in events \cup {0} /\ seen \subseteq {e \in events : e <= after}

\* Of the events that were missed and the one that may yet be, there is no
\* more than one for each closing.
OneForEachClosing ==
    /\ IsFiniteSet(Missed)
    /\ Cardinality(Missed) + (IF Overtaken THEN 1 ELSE 0) <= Closings

IInv == TypeOK /\ OneForEachClosing

\* At most one event is missed for each time the run's row is closed, so two.
FewMissed == Cardinality(Missed) <= Closings /\ Closings <= 2

\* Only a commit of emit behind the cursor is ever missed, and it stays so:
\* not the events that close a run.
MissesOnlyLateCommits ==
    [][Missed' = Missed \/ (CommitEvent /\ Overtaken /\ Missed' = Missed \cup {inserted})]_vars

\* No page gives the client an event it was given before.
PagesRepeatNothing == [][seen' # seen => seen' \ seen = Page /\ Page \cap seen = {}]_vars

-----------------------------------------------------------------------------

\* A set of numbers with a bound has a maximum.
LEMMA MaxOfBounded ==
    ASSUME NEW n \in Nat, NEW S \in SUBSET (1..n), S # {}
    PROVE  Max(S) \in S /\ \A y \in S : Max(S) >= y
<1> DEFINE less  == OpToRel(<, Nat)
           below == {n - x : x \in S}
<1>1. below \subseteq Nat /\ below # {}
  OBVIOUS
<1>2. PICK d \in below : \A y \in below : <<y, d>> \notin less
  <2>1. IsWellFoundedOn(less, Nat)
    BY NatLessThanWellFounded
  <2> HIDE DEF less, below
  <2>2. QED
    BY ONLY <1>1, <2>1, WFMin
<1>3. PICK x \in S : d = n - x
  OBVIOUS
<1>4. ASSUME NEW y \in S PROVE x >= y
  <2>1. n - y \in below /\ n - y \in Nat /\ d \in Nat
    OBVIOUS
  <2>2. ~(n - y < d)
    BY <1>2, <2>1 DEF OpToRel
  <2>3. QED
    BY <1>3, <2>2
<1>5. \E z \in S : \A y \in S : z >= y
  BY <1>4
<1>6. QED
  BY <1>5 DEF Max

\* A page ends with its last event and leaves out none behind the cursor.
LEMMA PageIsNext ==
    ASSUME Limit \in Nat, TypeOK, Page # {}
    PROVE  /\ Page \subseteq {e \in events : e > after}
           /\ Max(Page) \in Page /\ \A e \in Page : e <= Max(Page)
           /\ \A e \in events : after < e /\ e <= Max(Page) => e \in Page
<1> DEFINE behind == {e \in events : e > after}
           upto(e) == {d \in behind : d <= e}
<1>1. Page = {e \in behind : Cardinality(upto(e)) <= Limit}
  BY DEF Page
<1>2. nextId - 1 \in Nat /\ events \subseteq 1..nextId - 1 /\ after \in Nat
  BY DEF TypeOK
<1>3. Page \subseteq 1..nextId - 1
  BY <1>1, <1>2
<1>4. Max(Page) \in Page /\ \A e \in Page : Max(Page) >= e
  BY <1>2, <1>3, MaxOfBounded
<1>5. ASSUME NEW e \in events, after < e, e <= Max(Page) PROVE e \in Page
  <2>1. IsFiniteSet(upto(Max(Page)))
    <3>1. IsFiniteSet(1..nextId - 1)
      BY <1>2, FS_Interval
    <3>2. upto(Max(Page)) \subseteq 1..nextId - 1
      BY <1>2
    <3> HIDE DEF upto
    <3>3. QED
      BY <3>1, <3>2, FS_Subset
  <2>2. upto(e) \subseteq upto(Max(Page))
    <3>1. SUFFICES ASSUME NEW d \in behind, d <= e PROVE d <= Max(Page)
      OBVIOUS
    <3>2. \A x \in 1..nextId - 1 : x \in Int
      OBVIOUS
    <3>3. d \in Int /\ e \in Int
      BY <1>2, <3>2
    <3>4. Max(Page) \in Int
      BY <1>3, <1>4, <3>2
    <3>5. QED
      BY <1>5, <3>1, <3>3, <3>4
  <2>3. Cardinality(upto(Max(Page))) <= Limit
    BY <1>1, <1>4
  <2>4. Cardinality(upto(e)) <= Cardinality(upto(Max(Page)))
        /\ Cardinality(upto(e)) \in Nat /\ Cardinality(upto(Max(Page))) \in Nat
    <3> HIDE DEF upto
    <3>1. IsFiniteSet(upto(e))
      BY <2>1, <2>2, FS_Subset
    <3>2. QED
      BY <2>1, <2>2, <3>1, FS_Subset, FS_CardinalityType
  <2>5. Cardinality(upto(e)) <= Limit
    BY <2>3, <2>4
  <2>6. QED
    BY <1>1, <1>5, <2>5
<1>6. QED
  BY <1>1, <1>2, <1>3, <1>4, <1>5

\* Every step keeps the types.
LEMMA TypesKept == Limit \in Nat /\ TypeOK /\ [Next]_vars => TypeOK'
<1> SUFFICES ASSUME Limit \in Nat, TypeOK, [Next]_vars PROVE TypeOK'
  OBVIOUS
<1>1. CASE Insert
  BY <1>1 DEF Insert, TypeOK
<1>2. CASE CommitEvent
  BY <1>2 DEF CommitEvent, TypeOK
<1>3. CASE LoseEvent
  BY <1>3 DEF LoseEvent, TypeOK
<1>4. ASSUME NEW who \in {"cancel", "finish"}, LockRow(who) PROVE TypeOK'
  <2>1. /\ ~finished /\ (who = "cancel" => ~cancelled) /\ holder' = who
        /\ UNCHANGED <<nextId, events, inserted, cancelled, finished, after, seen>>
    BY <1>4 DEF LockRow
  <2>2. holder' = "cancel" => ~cancelled
    BY <2>1
  <2>3. holder' = "finish" => ~finished
    BY <2>1
  <2>4. QED
    BY <2>1, <2>2, <2>3 DEF TypeOK
<1>5. CASE CloseRow
  BY <1>5 DEF CloseRow, TypeOK
<1>6. CASE ReadPage
  <2>1. seen' = seen \cup Page /\ after' = Max(Page)
        /\ UNCHANGED <<nextId, events, inserted, holder, cancelled, finished>>
    BY <1>6 DEF ReadPage
  <2>2. /\ Page \subseteq {e \in events : e > after} /\ Max(Page) \in Page
        /\ \A e \in Page : e <= Max(Page)
    BY <1>6, PageIsNext DEF ReadPage
  <2>3. after' \in events /\ after < after' /\ after \in Nat /\ events \subseteq Nat
    <3>1. events \subseteq Nat /\ after \in Nat
      BY DEF TypeOK
    <3>2. Max(Page) \in events /\ Max(Page) > after
      BY <2>2
    <3>3. QED
      BY <2>1, <3>1, <3>2
  <2>4. seen' \subseteq {e \in events : e <= after'}
    BY <2>1, <2>2, <2>3 DEF TypeOK
  <2>5. QED
    BY <2>1, <2>3, <2>4 DEF TypeOK
<1>7. CASE UNCHANGED vars
  BY <1>7 DEF vars, TypeOK
<1>8. QED
  BY <1>1, <1>2, <1>3, <1>4, <1>5, <1>6, <1>7 DEF Next, AtRest

\* What a step does to the events that were missed.
LEMMA StepMisses ==
    ASSUME Limit \in Nat, TypeOK, [Next]_vars
    PROVE  \/ Missed' = Missed
           \/ CommitEvent /\ Overtaken /\ Missed' = Missed \cup {inserted}
<1>1. CASE Insert \/ LoseEvent \/ LockRow("cancel") \/ LockRow("finish") \/ UNCHANGED vars
  BY <1>1 DEF Insert, LoseEvent, LockRow, vars, Missed
<1>2. CASE CloseRow
  <2>1. events' = events \cup {nextId} /\ after' = after /\ seen' = seen /\ after < nextId
    BY <1>2 DEF CloseRow, TypeOK
  <2>2. ~(nextId <= after)
    BY <2>1 DEF TypeOK
  <2>3. QED
    BY <2>1, <2>2 DEF Missed
<1>3. CASE CommitEvent
  <2>1. /\ inserted # 0 /\ events' = events \cup {inserted}
        /\ after' = after /\ seen' = seen
    BY <1>3 DEF CommitEvent
  <2>2. CASE inserted <= after
    <3>1. inserted # nextId - 1
      BY <2>1, <2>2 DEF TypeOK
    <3>2. Overtaken
      BY <2>1, <3>1 DEF Overtaken
    <3>3. inserted \notin seen
      BY DEF TypeOK
    <3>4. Missed' = Missed \cup {inserted}
      BY <2>1, <2>2, <3>3 DEF Missed
    <3>5. QED
      BY <1>3, <3>2, <3>4
  <2>3. CASE ~(inserted <= after)
    BY <2>1, <2>3 DEF Missed
  <2>4. QED
    BY <2>2, <2>3
<1>4. CASE ReadPage
  <2>1. seen' = seen \cup Page /\ after' = Max(Page) /\ events' = events
    BY <1>4 DEF ReadPage
  <2>2. /\ Page \subseteq {e \in events : e > after} /\ Max(Page) \in Page
        /\ \A e \in events : after < e /\ e <= Max(Page) => e \in Page
    BY <1>4, PageIsNext DEF ReadPage
  <2>3. \A e \in events : e \in Int /\ after \in Int
    BY DEF TypeOK
  <2>4. \A e \in events : e <= after => e <= Max(Page) /\ e \notin Page
    BY <2>2, <2>3
  <2>5. \A e \in events : (e <= Max(Page) /\ e \notin seen \cup Page) <=> (e <= after /\ e \notin seen)
    BY <2>2, <2>3, <2>4
  <2>6. QED
    BY <2>1, <2>5 DEF Missed
<1>5. QED
  BY <1>1, <1>2, <1>3, <1>4 DEF Next, AtRest

\* What a step does to the other side of the account.
LEMMA StepOvertakes ==
    ASSUME TypeOK, [Next]_vars
    PROVE  /\ CommitEvent => ~Overtaken' /\ Closings' = Closings
           /\ \/ (Overtaken' => Overtaken) /\ Closings' = Closings
              \/ Closings' = Closings + 1
<1>1. CASE Insert \/ CommitEvent \/ LoseEvent \/ LockRow("cancel") \/ LockRow("finish")
           \/ ReadPage \/ UNCHANGED vars
  BY <1>1 DEF Insert, CommitEvent, LoseEvent, LockRow, ReadPage, vars, Overtaken, Closings, TypeOK
<1>2. CASE CloseRow
  <2>1. Closings' = Closings + 1
    <3>1. CASE holder = "cancel"
      <4>1. ~cancelled /\ cancelled' /\ (finished' <=> finished)
        BY <1>2, <3>1, Zenon DEF CloseRow, TypeOK
      <4>2. QED
        BY <4>1 DEF Closings
    <3>2. CASE holder = "finish"
      <4>1. ~finished /\ finished' /\ (cancelled' <=> cancelled)
        BY <1>2, <3>2, Zenon DEF CloseRow, TypeOK
      <4>2. QED
        BY <4>1 DEF Closings
    <3>3. QED
      BY <1>2, <3>1, <3>2 DEF CloseRow, TypeOK
  <2>2. holder # "nobody"
    BY <1>2 DEF CloseRow
  <2>3. QED
    BY <2>1, <2>2 DEF CommitEvent
<1>3. QED
  BY <1>1, <1>2 DEF Next, AtRest

LEMMA NextKeeps == Limit \in Nat /\ IInv /\ [Next]_vars => IInv'
<1> SUFFICES ASSUME Limit \in Nat, IInv, [Next]_vars PROVE IInv'
  OBVIOUS
<1>1. TypeOK /\ TypeOK'
  BY TypesKept DEF IInv
<1>2. /\ IsFiniteSet(Missed) /\ Cardinality(Missed) \in Nat
      /\ Cardinality(Missed) + (IF Overtaken THEN 1 ELSE 0) <= Closings
  BY FS_CardinalityType DEF IInv, OneForEachClosing
<1>3. Closings \in 0..2
  BY <1>1 DEF Closings
<1>4. CASE Missed' = Missed
  <2>1. \/ (Overtaken' => Overtaken) /\ Closings' = Closings
        \/ Closings' = Closings + 1
    BY <1>1, StepOvertakes
  <2>2. Cardinality(Missed') = Cardinality(Missed) /\ IsFiniteSet(Missed')
    BY <1>2, <1>4
  <2>3. Cardinality(Missed') + (IF Overtaken' THEN 1 ELSE 0) <= Closings'
    BY <1>2, <1>3, <2>1, <2>2
  <2>4. QED
    BY <1>1, <2>2, <2>3 DEF IInv, OneForEachClosing
<1>5. CASE CommitEvent /\ Overtaken /\ Missed' = Missed \cup {inserted}
  <2>1. ~Overtaken' /\ Closings' = Closings
    BY <1>1, <1>5, StepOvertakes
  <2>2. IsFiniteSet(Missed') /\ Cardinality(Missed') <= Cardinality(Missed) + 1
        /\ Cardinality(Missed') \in Nat
    <3>1. IsFiniteSet(Missed \cup {inserted})
          /\ Cardinality(Missed \cup {inserted}) =
               IF inserted \in Missed THEN Cardinality(Missed) ELSE Cardinality(Missed) + 1
      BY <1>2, FS_AddElement
    <3>2. QED
      BY <1>2, <1>5, <3>1
  <2>3. Cardinality(Missed') + (IF Overtaken' THEN 1 ELSE 0) <= Closings'
    BY <1>2, <1>3, <1>5, <2>1, <2>2
  <2>4. QED
    BY <1>1, <2>2, <2>3 DEF IInv, OneForEachClosing
<1>6. QED
  BY <1>1, <1>4, <1>5, StepMisses

LEMMA InitHolds == Init => IInv
<1> SUFFICES ASSUME Init PROVE IInv
  OBVIOUS
<1>1. TypeOK
  <2>1. nextId = 2 /\ events = {1} /\ inserted = 0 /\ after = 0 /\ seen = {}
    BY DEF Init
  <2>2. holder = "nobody" /\ cancelled = FALSE /\ finished = FALSE
    BY DEF Init
  <2>3. events \subseteq 1..nextId - 1 /\ inserted \in 0..nextId - 1 /\ inserted \notin events
    BY <2>1
  <2>4. seen \subseteq {e \in events : e <= after}
    BY <2>1
  <2>5. QED
    BY <2>1, <2>2, <2>3, <2>4 DEF TypeOK
<1>2. Missed = {} /\ ~Overtaken /\ Closings = 0
  BY DEF Init, Missed, Overtaken, Closings
<1>3. QED
  BY <1>1, <1>2, FS_EmptySet DEF IInv, OneForEachClosing

\* The inductive invariant holds, for any page size.
THEOREM Invariant == ASSUME Limit \in Nat PROVE Spec => []IInv
  BY InitHolds, NextKeeps, PTL DEF Spec

\* A client that pages on misses no more than one event for each time the
\* run was closed, and nothing of a run that was not.
THEOREM MissesAreFew == ASSUME Limit \in Nat PROVE Spec => []FewMissed
<1>1. IInv => FewMissed
  <2> SUFFICES ASSUME IInv PROVE FewMissed
    OBVIOUS
  <2>1. Cardinality(Missed) \in Nat /\ Closings \in 0..2
        /\ Cardinality(Missed) + (IF Overtaken THEN 1 ELSE 0) <= Closings
    BY FS_CardinalityType DEF IInv, OneForEachClosing, Closings, TypeOK
  <2>2. QED
    BY <2>1 DEF FewMissed
<1>2. QED
  BY <1>1, Invariant, PTL

\* As long as a run is neither cancelled nor finished, paging misses nothing:
\* acceptance.md holds of it.
THEOREM OpenRunsMissNothing ==
    ASSUME Limit \in Nat PROVE Spec => [](~cancelled /\ ~finished => PagesMissNothing)
<1>1. IInv => (~cancelled /\ ~finished => PagesMissNothing)
  <2> SUFFICES ASSUME IInv, ~cancelled, ~finished PROVE PagesMissNothing
    OBVIOUS
  <2>1. IsFiniteSet(Missed) /\ Cardinality(Missed) \in Nat /\ Closings = 0
        /\ Cardinality(Missed) + (IF Overtaken THEN 1 ELSE 0) <= Closings
    BY FS_CardinalityType DEF IInv, OneForEachClosing, Closings
  <2>2. Cardinality(Missed) = 0
    BY <2>1
  <2>3. Missed = {}
    BY <2>1, <2>2, FS_EmptySet
  <2>4. QED
    BY <2>3 DEF Missed, PagesMissNothing
<1>2. QED
  BY <1>1, Invariant, PTL

\* What is missed was committed behind the cursor by emit: run.cancelled and
\* run.finished never are.
THEOREM ClosingEventsAreSeen == ASSUME Limit \in Nat PROVE Spec => MissesOnlyLateCommits
<1>1. IInv /\ [Next]_vars =>
        [Missed' = Missed \/ (CommitEvent /\ Overtaken /\ Missed' = Missed \cup {inserted})]_vars
  BY StepMisses DEF IInv
<1>2. QED
  BY <1>1, Invariant, PTL DEF Spec, MissesOnlyLateCommits

\* Paging never gives an event twice.
THEOREM NoEventTwice == ASSUME Limit \in Nat PROVE Spec => PagesRepeatNothing
<1>1. IInv /\ [Next]_vars => [seen' # seen => seen' \ seen = Page /\ Page \cap seen = {}]_vars
  <2> SUFFICES ASSUME IInv, [Next]_vars, seen' # seen
               PROVE  seen' \ seen = Page /\ Page \cap seen = {}
    OBVIOUS
  <2>1. ReadPage
    BY DEF Next, Insert, CommitEvent, LoseEvent, LockRow, CloseRow, AtRest, vars
  <2>2. seen' = seen \cup Page /\ Page \subseteq {e \in events : e > after}
    BY <2>1, PageIsNext DEF ReadPage, IInv
  <2>3. \A e \in seen : e \in Int /\ after \in Int /\ e <= after
    BY DEF IInv, TypeOK
  <2>4. Page \cap seen = {}
    BY <2>2, <2>3
  <2>5. QED
    BY <2>2, <2>4
<1>2. QED
  BY <1>1, Invariant, PTL DEF Spec, PagesRepeatNothing

=============================================================================
