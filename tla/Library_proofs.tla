--------------------------- MODULE Library_proofs ---------------------------
(***************************************************************************)
(* Proofs about Library, for any rows and requests.  The argument: a       *)
(* request that is about to write a locked row holds its lock, so what it  *)
(* read of the row is still what the row has.                              *)
(***************************************************************************)
EXTENDS Library, TLAPS

\* What a request that is about to write has read, and what it will change.
TxnTyped(q) ==
    /\ txn[q].row \in exist /\ txn[q].old \in Body
    /\ DOMAIN txn[q].changes \subseteq Keys
    /\ \A k \in {"name", "description"} \cap DOMAIN txn[q].changes : txn[q].changes[k] \in Writer
    /\ "group" \in DOMAIN txn[q].changes => txn[q].changes["group"] \in BOOLEAN
    /\ "current" \in DOMAIN txn[q].changes => /\ txn[q].row \in Scenarios
                                              /\ txn[q].changes["current"] \in Nat

\* What it read of a locked row still holds, and the row is its own.
Reserved(q) ==
    LET row == txn[q].row IN
    row \in LockedRows =>
       /\ lock[row] = q
       /\ txn[q].old = body[row]
       /\ "current" \in DOMAIN txn[q].changes => txn[q].changes["current"] = body[row].current + 1

Transactions ==
    /\ txn = [q \in Requests |-> txn[q]]
    /\ \A q \in Requests : /\ pc[q] = "writing" => TxnTyped(q) /\ Reserved(q)
                           /\ pc[q] = "flushing" => txn[q].row \in Scenarios

\* A scenario that is yet to be created has no versions.
NoVersionsYet == \A s \in Scenarios \ exist : versions[s] = {}

IInv == TypeOK /\ Transactions /\ NoVersionsYet /\ CurrentIsLatest /\ ChangesKept

-----------------------------------------------------------------------------

\* The maximum of the numbers without a gap is the current one.
LEMMA MaxIsCurrent ==
    ASSUME IInv, NEW s \in Scenarios
    PROVE  MaxNumber(s) = body[s].current /\ body[s].current \in Nat
<1> DEFINE n == body[s].current
<1>1. versions[s] = 1..n /\ n \in Nat
  BY DEF IInv, CurrentIsLatest, TypeOK, Body, Rows, LockedRows
<1>2. CASE n = 0
  BY <1>1, <1>2 DEF MaxNumber
<1>3. CASE n # 0
  <2>1. n \in 1..n /\ \A y \in 1..n : n >= y
    BY <1>1, <1>3
  <2>2. \A x \in 1..n : (\A y \in 1..n : x >= y) => x = n
    BY <1>1, <2>1
  <2>3. Max(1..n) = n
    BY <2>1, <2>2 DEF Max
  <2>4. QED
    BY <1>1, <2>1, <2>3 DEF MaxNumber
<1>4. QED
  BY <1>1, <1>2, <1>3

\* A body with some keys changed is a body, and each key is as asked.
LEMMA MergedBody ==
    ASSUME NEW old \in Body, NEW changes, DOMAIN changes \subseteq Keys,
           \A k \in {"name", "description"} \cap DOMAIN changes : changes[k] \in Writer,
           "group" \in DOMAIN changes => changes["group"] \in BOOLEAN,
           "current" \in DOMAIN changes => changes["current"] \in Nat
    PROVE  /\ Merged(changes, old) \in Body
           /\ Merged(changes, old).current =
                 IF "current" \in DOMAIN changes THEN changes["current"] ELSE old.current
           /\ Merged(changes, old) = [k \in Keys |-> IF k \in DOMAIN changes THEN changes[k] ELSE old[k]]
<1>1. DOMAIN old = Keys
  BY DEF Body, Keys
<1>2. Merged(changes, old) = [k \in Keys |-> IF k \in DOMAIN changes THEN changes[k] ELSE old[k]]
  BY <1>1 DEF Merged
<1>3. QED
  BY <1>2 DEF Body, Keys

\* What a patch may ask for.
LEMMA PatchTyped ==
    ASSUME NEW q \in Requests, NEW changes \in Patches(q)
    PROVE  /\ DOMAIN changes \subseteq {"name", "description"}
           /\ \A k \in {"name", "description"} \cap DOMAIN changes : changes[k] = q
<1> DEFINE A == {[keys -> {q}] : keys \in (SUBSET {"name", "description"}) \ {{}}}
<1>1. PICK f \in A : changes \in f
  BY Zenon DEF Patches
<1>2. PICK keys \in (SUBSET {"name", "description"}) \ {{}} : f = [keys -> {q}]
  BY <1>1, Zenon
<1>3. DOMAIN changes = keys /\ \A k \in keys : changes[k] = q
  BY <1>1, <1>2
<1>4. QED
  BY <1>2, <1>3

\* Reading a row under its lock reserves it.
LEMMA ReadKeeps ==
    ASSUME IInv, NEW q \in Requests, NEW row \in LockedRows, NEW changes,
           Locks(q, row), Reads(q, row, changes),
           pc' = [pc EXCEPT ![q] = "writing"], pc[q] # "writing",
           DOMAIN changes \subseteq Keys,
           \A k \in {"name", "description"} \cap DOMAIN changes : changes[k] \in Writer,
           "group" \in DOMAIN changes => changes["group"] \in BOOLEAN,
           "current" \in DOMAIN changes => /\ row \in Scenarios
                                           /\ changes["current"] = body[row].current + 1
    PROVE  IInv'
<1> DEFINE t == [row |-> row, old |-> body[row], changes |-> changes]
<1>1. /\ UNCHANGED <<exist, body, versions, wrote>> /\ row \in exist /\ lock[row] = "free"
      /\ txn' = [txn EXCEPT ![q] = t] /\ lock' = [lock EXCEPT ![row] = q]
  BY DEF Reads, Locks
<1>2. body[row] \in Body /\ body[row].current \in Nat
  BY DEF IInv, TypeOK, Body, Rows
<1>3. TypeOK'
  BY <1>1, RowsAssumption DEF IInv, TypeOK, Rows
<1>4. txn'[q] = t /\ \A p \in Requests \ {q} : txn'[p] = txn[p] /\ pc'[p] = pc[p]
  BY <1>1 DEF IInv, Transactions, TypeOK
<1>5. (TxnTyped(q) /\ Reserved(q))'
  BY <1>1, <1>2, <1>4 DEF TxnTyped, Reserved, IInv, TypeOK, Rows
<1>6. ASSUME NEW p \in Requests, p # q, pc'[p] = "writing"
      PROVE  (TxnTyped(p) /\ Reserved(p))'
  <2>1. TxnTyped(p) /\ Reserved(p) /\ txn'[p] = txn[p]
    BY <1>4, <1>6 DEF IInv, Transactions
  <2>2. TxnTyped(p)'
    BY <2>1, <1>1 DEF TxnTyped
  <2>3. txn[p].row \in LockedRows => txn[p].row # row
    BY <2>1, <1>1, <1>6, RowsAssumption DEF Reserved
  <2>4. Reserved(p)'
    BY <2>1, <2>3, <1>1 DEF Reserved, IInv, TypeOK, Rows
  <2>5. QED
    BY <2>2, <2>4
<1>7. Transactions'
  BY <1>1, <1>4, <1>5, <1>6 DEF Transactions, IInv, TypeOK
<1>8. NoVersionsYet' /\ CurrentIsLatest' /\ ChangesKept'
  BY <1>1 DEF IInv, NoVersionsYet, CurrentIsLatest, ChangesKept
<1>9. QED
  BY <1>3, <1>7, <1>8 DEF IInv

\* A new version is numbered one past the current one.
LEMMA NumberKeeps ==
    ASSUME IInv, NEW q \in Requests, NEW s \in Scenarios, Locks(q, s), NumbersVersion(q, s),
           pc' = [pc EXCEPT ![q] = "writing"], pc[q] # "writing"
    PROVE  IInv'
<1> DEFINE changes == [k \in {"current"} |-> MaxNumber(s) + 1]
<1>1. Reads(q, s, changes)
  BY DEF NumbersVersion
<1>2. DOMAIN changes = {"current"} /\ changes["current"] = body[s].current + 1
  BY MaxIsCurrent
<1>3. s \in LockedRows
  BY DEF LockedRows
<1> HIDE DEF changes
<1>4. QED
  BY <1>1, <1>2, <1>3, ReadKeeps DEF Keys

LEMMA CreateKeeps ==
    ASSUME IInv, NEW q \in Requests, NEW row \in Rows, NEW group \in BOOLEAN, Creates(q, row, group)
    PROVE  IInv'
<1> DEFINE new == [name |-> q, description |-> q, group |-> group, current |-> 0]
<1>1. body' = [body EXCEPT ![row] = new] /\ wrote' = [wrote EXCEPT ![row] = new]
  BY DEF Creates
<1>2. /\ row \notin exist /\ exist' = exist \cup {row} /\ UNCHANGED <<versions, lock, txn>>
      /\ pc[q] = "new" /\ pc' = [pc EXCEPT ![q] = "done"]
  BY DEF Creates, Goes
<1>3. new \in Body /\ new.current = 0
  BY DEF Body, Writer
<1> HIDE DEF new
<1>4. body' = [body EXCEPT ![row] = new] /\ wrote' = [wrote EXCEPT ![row] = new]
  BY <1>1 DEF new
<1>5. TypeOK'
  <2>1. \A r \in Rows : lock[r] # "free" => lock[r] # q
    BY <1>2 DEF IInv, TypeOK
  <2>2. QED
    BY <1>2, <1>3, <1>4, <2>1 DEF IInv, TypeOK
<1>6. ASSUME NEW p \in Requests, pc'[p] = "writing" PROVE (TxnTyped(p) /\ Reserved(p))'
  <2>1. TxnTyped(p) /\ Reserved(p)
    BY <1>2, <1>6 DEF IInv, Transactions, TypeOK
  <2>2. txn[p].row # row
    BY <2>1, <1>2 DEF TxnTyped
  <2>3. QED
    BY <2>1, <2>2, <1>2, <1>4 DEF TxnTyped, Reserved, IInv, TypeOK, Rows
<1>7. Transactions'
  BY <1>2, <1>6 DEF Transactions, IInv, TypeOK
<1>8. NoVersionsYet'
  BY <1>2 DEF IInv, NoVersionsYet
<1>9. CurrentIsLatest'
  <2>1. SUFFICES ASSUME NEW s \in Scenarios PROVE versions[s] = 1..body'[s].current
    BY <1>2 DEF CurrentIsLatest
  <2>2. s \in Rows /\ body \in [Rows -> Body]
    BY DEF Rows, LockedRows, IInv, TypeOK
  <2>3. CASE s = row
    <3>1. versions[s] = {} /\ body'[s].current = 0
      BY <1>2, <1>3, <1>4, <2>2, <2>3 DEF IInv, NoVersionsYet
    <3>2. QED
      BY <3>1
  <2>4. CASE s # row
    BY <1>4, <2>2, <2>4 DEF IInv, CurrentIsLatest
  <2>5. QED
    BY <2>3, <2>4
<1>10. ChangesKept'
  BY <1>4 DEF IInv, ChangesKept, TypeOK, Rows
<1>11. QED
  BY <1>5, <1>7, <1>8, <1>9, <1>10 DEF IInv

\* A patch of a locked row, of whichever kind.
LEMMA PatchKeeps ==
    ASSUME IInv, NEW q \in Requests, NEW row \in LockedRows, NEW changes \in Patches(q),
           Patch(q, row, changes)
    PROVE  IInv'
<1>1. /\ pc[q] = "new" /\ pc' = [pc EXCEPT ![q] = "writing"]
      /\ Locks(q, row) /\ Reads(q, row, changes)
  BY DEF Patch, Goes
<1>2. /\ DOMAIN changes \subseteq {"name", "description"}
      /\ \A k \in {"name", "description"} \cap DOMAIN changes : changes[k] = q
  BY PatchTyped
<1>3. QED
  BY <1>1, <1>2, ReadKeeps DEF Keys, Writer

LEMMA PatchScenarioKeeps ==
    ASSUME IInv, NEW q \in Requests, NEW s \in Scenarios, PatchScenario(q, s)
    PROVE  IInv'
<1>1. s \in LockedRows
  BY DEF LockedRows
<1>2. CASE \E changes \in Patches(q) : Patch(q, s, changes)
  BY <1>1, <1>2, PatchKeeps
<1>3. ASSUME NEW group \in BOOLEAN, Patch(q, s, [k \in {"group"} |-> group])
      PROVE  IInv'
  <2> DEFINE changes == [k \in {"group"} |-> group]
  <2>1. DOMAIN changes = {"group"} /\ changes["group"] = group
    OBVIOUS
  <2>2. /\ pc[q] = "new" /\ pc' = [pc EXCEPT ![q] = "writing"]
        /\ Locks(q, s) /\ Reads(q, s, changes)
    BY <1>3 DEF Patch, Goes
  <2> HIDE DEF changes
  <2>3. QED
    BY <1>1, <2>1, <2>2, ReadKeeps DEF Keys
<1>4. QED
  BY <1>2, <1>3 DEF PatchScenario

LEMMA PatchProjectKeeps ==
    ASSUME IInv, NEW q \in Requests, PatchProject(q)
    PROVE  IInv'
<1>1. PICK changes \in Patches(q) : Reads(q, Project, changes)
  BY DEF PatchProject
<1>2. /\ pc[q] = "new" /\ pc' = [pc EXCEPT ![q] = "writing"]
      /\ UNCHANGED <<exist, body, versions, lock, wrote>>
  BY <1>1 DEF PatchProject, Goes, Reads
<1> DEFINE t == [row |-> Project, old |-> body[Project], changes |-> changes]
<1>3. txn' = [txn EXCEPT ![q] = t] /\ Project \in exist
  BY <1>1 DEF Reads
<1>4. Project \notin LockedRows /\ Project \in Rows /\ body[Project] \in Body
  BY RowsAssumption DEF Rows, IInv, TypeOK
<1>5. /\ DOMAIN changes \subseteq {"name", "description"}
      /\ \A k \in {"name", "description"} \cap DOMAIN changes : changes[k] = q
  BY <1>1, PatchTyped
<1>6. txn'[q] = t /\ \A p \in Requests \ {q} : txn'[p] = txn[p] /\ pc'[p] = pc[p]
  BY <1>2, <1>3 DEF IInv, Transactions, TypeOK
<1>7. (TxnTyped(q) /\ Reserved(q))'
  BY <1>2, <1>3, <1>4, <1>5, <1>6 DEF TxnTyped, Reserved, Keys, Writer
<1>8. \A p \in Requests \ {q} : pc'[p] = "writing" => (TxnTyped(p) /\ Reserved(p))'
  BY <1>2, <1>6 DEF TxnTyped, Reserved, IInv, Transactions
<1>9. Transactions'
  BY <1>2, <1>3, <1>6, <1>7, <1>8 DEF Transactions, IInv, TypeOK
<1>10. TypeOK'
  BY <1>2 DEF IInv, TypeOK
<1>11. QED
  BY <1>2, <1>9, <1>10 DEF IInv, NoVersionsYet, CurrentIsLatest, ChangesKept

\* save_recording gives up its locks for the flush: it has read nothing yet.
LEMMA FlushKeeps ==
    ASSUME IInv, NEW q \in Requests, NEW s \in Scenarios, SaveFlushes(q, s)
    PROVE  IInv'
<1>1. /\ pc[q] = "new" /\ pc' = [pc EXCEPT ![q] = "flushing"]
      /\ UNCHANGED <<exist, body, versions, lock, wrote>>
      /\ txn' = [txn EXCEPT ![q] = [row |-> s]]
  BY DEF SaveFlushes, Goes
<1>2. txn'[q].row = s /\ \A p \in Requests \ {q} : txn'[p] = txn[p] /\ pc'[p] = pc[p]
  BY <1>1 DEF IInv, Transactions, TypeOK
<1>3. pc'[q] = "flushing"
  BY <1>1 DEF IInv, TypeOK
<1>4. \A p \in Requests \ {q} : pc'[p] = "writing" => (TxnTyped(p) /\ Reserved(p))'
  BY <1>1, <1>2 DEF TxnTyped, Reserved, IInv, Transactions
<1>5. Transactions'
  BY <1>1, <1>2, <1>3, <1>4 DEF Transactions, IInv
<1>6. TypeOK'
  BY <1>1 DEF IInv, TypeOK
<1>7. QED
  BY <1>1, <1>5, <1>6 DEF IInv, NoVersionsYet, CurrentIsLatest, ChangesKept

\* The end of a transaction touches only its own row.
LEMMA FreedKeeps ==
    ASSUME IInv, NEW q \in Requests, pc' = [pc EXCEPT ![q] = "done"], lock' = Freed(q),
           txn' = [txn EXCEPT ![q] = NoTxn], exist' = exist,
           \A row \in LockedRows : lock[row] # q \/ pc[q] # "writing" \/ row # txn[q].row
                                   => body'[row] = body[row]
    PROVE  /\ Transactions' /\ pc' \in [Requests -> {"new", "flushing", "writing", "done"}]
           /\ lock' \in [Rows -> Requests \cup {"free"}]
           /\ \A row \in Rows : lock'[row] = "free" \/ pc'[lock'[row]] = "writing"
<1>1. \A row \in Rows : lock'[row] = IF lock[row] = q THEN "free" ELSE lock[row]
  BY DEF Freed, IInv, TypeOK
<1>2. lock' \in [Rows -> Requests \cup {"free"}]
  BY <1>1 DEF Freed, IInv, TypeOK
<1>3. pc'[q] = "done" /\ \A p \in Requests \ {q} : txn'[p] = txn[p] /\ pc'[p] = pc[p]
  BY DEF IInv, Transactions, TypeOK
<1>4. ASSUME NEW p \in Requests, p # q, pc[p] = "writing" PROVE (TxnTyped(p) /\ Reserved(p))'
  <2>1. TxnTyped(p) /\ Reserved(p) /\ txn'[p] = txn[p]
    BY <1>3, <1>4 DEF IInv, Transactions
  <2>2. TxnTyped(p)'
    BY <2>1 DEF TxnTyped
  <2>3. txn[p].row \in LockedRows =>
            lock'[txn[p].row] = p /\ body'[txn[p].row] = body[txn[p].row]
    BY <2>1, <1>1, <1>4 DEF Reserved, Rows
  <2>4. Reserved(p)'
    BY <2>1, <2>3 DEF Reserved
  <2>5. QED
    BY <2>2, <2>4
<1>5. Transactions'
  BY <1>3, <1>4 DEF Transactions, IInv
<1>6. pc' \in [Requests -> {"new", "flushing", "writing", "done"}]
  BY DEF IInv, TypeOK
<1>7. ASSUME NEW row \in Rows PROVE lock'[row] = "free" \/ pc'[lock'[row]] = "writing"
  BY <1>1, <1>3, RowsAssumption DEF IInv, TypeOK
<1>8. QED
  BY <1>2, <1>5, <1>6, <1>7

LEMMA CommitKeeps ==
    ASSUME IInv, NEW q \in Requests, Commit(q)
    PROVE  IInv'
<1> DEFINE row == txn[q].row
           changes == txn[q].changes
           new == Merged(changes, txn[q].old)
<1>1. /\ pc[q] = "writing" /\ pc' = [pc EXCEPT ![q] = "done"] /\ lock' = Freed(q)
      /\ txn' = [txn EXCEPT ![q] = NoTxn] /\ exist' = exist
      /\ body' = [body EXCEPT ![row] = new]
      /\ wrote' = [wrote EXCEPT ![row] = [k \in Keys |-> IF k \in DOMAIN changes
                                                         THEN changes[k] ELSE @[k]]]
      /\ versions' = IF NewNumber(q) = 0 THEN versions
                     ELSE [versions EXCEPT ![row] = @ \cup {NewNumber(q)}]
  BY DEF Commit, Goes
<1>2. TxnTyped(q) /\ Reserved(q)
  BY <1>1 DEF IInv, Transactions
<1>3. row \in Rows /\ row \in exist /\ body \in [Rows -> Body] /\ wrote \in [Rows -> Body]
  BY <1>2 DEF TxnTyped, IInv, TypeOK
<1>4. /\ new \in Body
      /\ new.current = IF "current" \in DOMAIN changes THEN changes["current"] ELSE txn[q].old.current
      /\ new = [k \in Keys |-> IF k \in DOMAIN changes THEN changes[k] ELSE txn[q].old[k]]
  BY <1>2, MergedBody DEF TxnTyped
<1>5. /\ wrote'[row] \in Body
      /\ wrote'[row] = [k \in Keys |-> IF k \in DOMAIN changes THEN changes[k] ELSE wrote[row][k]]
  <2>1. Merged(changes, wrote[row]) \in Body
        /\ Merged(changes, wrote[row]) =
             [k \in Keys |-> IF k \in DOMAIN changes THEN changes[k] ELSE wrote[row][k]]
    <3>1. wrote[row] \in Body
      BY <1>3
    <3>2. QED
      BY <1>2, <3>1, MergedBody DEF TxnTyped
  <2>2. wrote'[row] = [k \in Keys |-> IF k \in DOMAIN changes THEN changes[k] ELSE wrote[row][k]]
    BY <1>1, <1>3
  <2>3. QED
    BY <2>1, <2>2
<1> HIDE DEF new
<1>6. /\ \A r \in Rows \ {row} : body'[r] = body[r] /\ wrote'[r] = wrote[r]
      /\ body'[row] = new
      /\ body' \in [Rows -> Body] /\ wrote' \in [Rows -> Body]
  BY <1>1, <1>3, <1>4, <1>5
<1>7. /\ Transactions' /\ pc' \in [Requests -> {"new", "flushing", "writing", "done"}]
      /\ lock' \in [Rows -> Requests \cup {"free"}]
      /\ \A r \in Rows : lock'[r] = "free" \/ pc'[lock'[r]] = "writing"
  <2>1. \A r \in LockedRows : lock[r] # q \/ r # row => body'[r] = body[r]
    BY <1>2, <1>6 DEF Reserved, Rows
  <2>2. QED
    BY <1>1, <2>1, FreedKeeps
<1>8. NewNumber(q) \in Nat /\ (NewNumber(q) # 0 => row \in Scenarios)
  BY <1>1, <1>2 DEF NewNumber, TxnTyped
<1>9. versions' \in [Scenarios -> SUBSET Nat]
  BY <1>1, <1>8 DEF IInv, TypeOK
<1>10. TypeOK'
  BY <1>1, <1>6, <1>7, <1>9 DEF IInv, TypeOK
<1>11. NoVersionsYet'
  BY <1>1, <1>3, <1>8 DEF IInv, NoVersionsYet, TypeOK
<1>12. ASSUME NEW s \in Scenarios PROVE versions'[s] = 1..body'[s].current
  <2>1. s \in LockedRows /\ s \in Rows /\ versions[s] = 1..body[s].current /\ body[s].current \in Nat
    BY <1>3 DEF LockedRows, Rows, IInv, CurrentIsLatest, Body
  <2>2. CASE s # row
    BY <1>1, <1>6, <1>8, <2>1, <2>2 DEF IInv, TypeOK
  <2>3. CASE s = row /\ "current" \in DOMAIN changes
    <3>1. NewNumber(q) = body[s].current + 1 /\ body'[s].current = body[s].current + 1
      BY <1>1, <1>2, <1>4, <1>6, <2>1, <2>3 DEF Reserved, NewNumber
    <3>2. versions'[s] = versions[s] \cup {body[s].current + 1}
      BY <1>1, <2>1, <2>3, <3>1 DEF IInv, TypeOK
    <3>3. QED
      BY <2>1, <3>1, <3>2
  <2>4. CASE s = row /\ "current" \notin DOMAIN changes
    <3>1. versions' = versions /\ body'[s].current = body[s].current
      BY <1>1, <1>2, <1>4, <1>6, <2>1, <2>4 DEF Reserved, NewNumber
    <3>2. QED
      BY <2>1, <3>1
  <2>5. QED
    BY <2>2, <2>3, <2>4
<1>13. ASSUME NEW r \in LockedRows PROVE body'[r] = wrote'[r]
  <2>1. r \in Rows /\ body[r] = wrote[r]
    BY DEF Rows, IInv, ChangesKept
  <2>2. CASE r # row
    BY <1>6, <2>1, <2>2
  <2>3. CASE r = row
    <3>1. txn[q].old = body[r]
      BY <1>2, <2>3 DEF Reserved
    <3>2. QED
      BY <1>4, <1>5, <1>6, <2>1, <2>3, <3>1
  <2>4. QED
    BY <2>2, <2>3
<1>14. QED
  BY <1>7, <1>10, <1>11, <1>12, <1>13 DEF IInv, CurrentIsLatest, ChangesKept

LEMMA RollbackKeeps ==
    ASSUME IInv, NEW q \in Requests, Rollback(q)
    PROVE  IInv'
<1>1. /\ pc' = [pc EXCEPT ![q] = "done"] /\ lock' = Freed(q) /\ txn' = [txn EXCEPT ![q] = NoTxn]
      /\ UNCHANGED <<exist, body, versions, wrote>>
  BY DEF Rollback
<1>2. /\ Transactions' /\ pc' \in [Requests -> {"new", "flushing", "writing", "done"}]
      /\ lock' \in [Rows -> Requests \cup {"free"}]
      /\ \A r \in Rows : lock'[r] = "free" \/ pc'[lock'[r]] = "writing"
  BY <1>1, FreedKeeps
<1>3. QED
  BY <1>1, <1>2 DEF IInv, TypeOK, NoVersionsYet, CurrentIsLatest, ChangesKept

-----------------------------------------------------------------------------

LEMMA InitHolds == Init => IInv
<1>1. SUFFICES ASSUME Init PROVE IInv
  OBVIOUS
<1>2. PICK n \in [Scenarios -> {0, 1}] :
         /\ \A s \in Scenarios \ exist : n[s] = 0
         /\ versions = [s \in Scenarios |-> 1..n[s]]
         /\ body = [row \in Rows |->
                      [name |-> "original", description |-> "original", group |-> FALSE,
                       current |-> IF row \in Scenarios THEN n[row] ELSE 0]]
  BY <1>1 DEF Init
<1>3. body \in [Rows -> Body] /\ wrote = body /\ exist \subseteq Rows
  BY <1>1, <1>2, RowsAssumption DEF Init, Body, Writer
<1>4. \A s \in Scenarios : versions[s] = 1..n[s] /\ body[s].current = n[s] /\ n[s] \in Nat
  BY <1>2 DEF Rows, LockedRows
<1>5. versions \in [Scenarios -> SUBSET Nat]
  <2>1. \A s \in Scenarios : versions[s] \in SUBSET Nat
    BY <1>4
  <2>2. QED
    BY <1>2, <2>1
<1>6. TypeOK /\ Transactions
  BY <1>1, <1>3, <1>5, RowsAssumption DEF Init, TypeOK, Transactions
<1>7. NoVersionsYet
  BY <1>2, <1>3, <1>4 DEF NoVersionsYet
<1>8. CurrentIsLatest /\ ChangesKept
  BY <1>3, <1>4 DEF CurrentIsLatest, ChangesKept
<1>9. QED
  BY <1>6, <1>7, <1>8 DEF IInv

LEMMA NextKeeps == IInv /\ [Next]_vars => IInv'
<1>1. SUFFICES ASSUME IInv, [Next]_vars PROVE IInv'
  OBVIOUS
<1>2. CASE UNCHANGED vars
  BY <1>1, <1>2 DEF vars, IInv, TypeOK, Transactions, TxnTyped, Reserved, NoVersionsYet,
                    CurrentIsLatest, ChangesKept
<1>3. ASSUME NEW q \in Requests, Step(q) PROVE IInv'
  <2>1. CASE \/ CreateProject(q)
             \/ \E g \in Groups : CreateGroup(q, g)
             \/ \E e \in Environments : CreateEnvironment(q, e)
             \/ \E s \in Scenarios : CreateScenario(q, s)
    <3>1. PICK row \in Rows, group \in BOOLEAN : Creates(q, row, group)
      BY <2>1 DEF CreateProject, CreateGroup, CreateEnvironment, CreateScenario, Rows, LockedRows
    <3>2. QED
      BY <1>1, <3>1, CreateKeeps
  <2>2. CASE \/ \E g \in Groups : PatchGroup(q, g)
             \/ \E e \in Environments : PatchEnvironment(q, e)
    <3>1. PICK row \in LockedRows, changes \in Patches(q) : Patch(q, row, changes)
      BY <2>2 DEF PatchGroup, PatchEnvironment, LockedRows
    <3>2. QED
      BY <1>1, <3>1, PatchKeeps
  <2>3. CASE PatchProject(q) \/ \E s \in Scenarios : PatchScenario(q, s)
    BY <1>1, <2>3, PatchProjectKeeps, PatchScenarioKeeps
  <2>4. CASE \E s \in Scenarios : CreateVersion(q, s)
    <3>1. PICK s \in Scenarios : CreateVersion(q, s)
      BY <2>4
    <3>2. QED
      BY <1>1, <3>1, NumberKeeps DEF CreateVersion, Goes
  <2>5. CASE \E s \in Scenarios : SaveFlushes(q, s)
    BY <1>1, <2>5, FlushKeeps
  <2>6. CASE \E s \in Scenarios : SaveVersion(q, s)
    <3>1. PICK s \in Scenarios : SaveVersion(q, s)
      BY <2>6
    <3>2. QED
      BY <1>1, <3>1, NumberKeeps DEF SaveVersion, RelocksForSave, Goes
  <2>7. CASE Commit(q) \/ Rollback(q)
    BY <1>1, <2>7, CommitKeeps, RollbackKeeps
  <2>8. QED
    BY <1>3, <2>1, <2>2, <2>3, <2>4, <2>5, <2>6, <2>7 DEF Step
<1>4. QED
  BY <1>1, <1>2, <1>3 DEF Next, AtRest

\* The inductive invariant holds.
THEOREM Invariant == Spec => []IInv
<1>1. QED
  BY InitHolds, NextKeeps, PTL DEF Spec

\* Whatever is created, patched, versioned and recorded concurrently, the rows
\* keep their types and locks belong to transactions (store.py).
THEOREM TypeCorrect == Spec => []TypeOK
<1>1. IInv => TypeOK
  BY DEF IInv
<1>2. QED
  BY <1>1, Invariant, PTL

\* A scenario's versions are numbered without a gap and the newest is current.
THEOREM NewestIsCurrent == Spec => []CurrentIsLatest
<1>1. IInv => CurrentIsLatest
  BY DEF IInv
<1>2. QED
  BY <1>1, Invariant, PTL

\* The unique constraint never refuses a version: the lock already prevents it.
THEOREM NoVersionConflict == Spec => []NumbersNeverConflict
<1>1. IInv => NumbersNeverConflict
  <2>1. SUFFICES ASSUME IInv, NEW q \in Requests PROVE ~Conflicts(q)
    BY DEF NumbersNeverConflict
  <2>2. CASE pc[q] = "writing" /\ "current" \in DOMAIN txn[q].changes
    <3>1. txn[q].row \in Scenarios /\ NewNumber(q) = body[txn[q].row].current + 1
      BY <2>1, <2>2 DEF IInv, Transactions, TxnTyped, Reserved, NewNumber, LockedRows
    <3>2. versions[txn[q].row] = 1..body[txn[q].row].current /\ body[txn[q].row].current \in Nat
      BY <2>1, <3>1 DEF IInv, CurrentIsLatest, TypeOK, Body, Rows, LockedRows
    <3>3. QED
      BY <3>1, <3>2 DEF Conflicts
  <2>3. CASE ~(pc[q] = "writing" /\ "current" \in DOMAIN txn[q].changes)
    BY <2>3 DEF Conflicts, NewNumber
  <2>4. QED
    BY <2>2, <2>3
<1>2. QED
  BY <1>1, Invariant, PTL

\* No committed change of a locked row is ever taken back by another's.
THEOREM NoLostUpdate == Spec => []ChangesKept
<1>1. IInv => ChangesKept
  BY DEF IInv
<1>2. QED
  BY <1>1, Invariant, PTL

-----------------------------------------------------------------------------
(* The promise of ProjectContent                                           *)

\* What a request that is about to write a locked row was asked: name and
\* description, the group of a scenario, or its next version; the rows there
\* are hold the group it names.
Asked(q, row, changes, there) ==
    \/ /\ DOMAIN changes \subseteq {"name", "description"}
       /\ \A k \in DOMAIN changes : changes[k] = q
    \/ /\ row \in Scenarios /\ DOMAIN changes = {"group"}
       /\ changes["group"] \in BOOLEAN
       /\ changes["group"] => Groups \cap there # {}
    \/ row \in Scenarios /\ DOMAIN changes = {"current"}

AllAsked == \A q \in Requests :
    pc[q] = "writing" /\ txn[q].row \in LockedRows => Asked(q, txn[q].row, txn[q].changes, exist)

\* A request moves on; no group is ever taken away.
LEMMA MoveKeepsAsked ==
    ASSUME IInv, AllAsked, NEW q \in Requests, NEW t, NEW to,
           txn' = [txn EXCEPT ![q] = t], pc' = [pc EXCEPT ![q] = to], exist \subseteq exist',
           to = "writing" /\ t.row \in LockedRows => Asked(q, t.row, t.changes, exist)
    PROVE  AllAsked'
<1> SUFFICES ASSUME NEW p \in Requests, pc'[p] = "writing", txn'[p].row \in LockedRows
             PROVE  Asked(p, txn'[p].row, txn'[p].changes, exist')
  BY DEF AllAsked
<1>1. ASSUME NEW r, NEW row, NEW changes, Asked(r, row, changes, exist)
      PROVE  Asked(r, row, changes, exist')
  BY <1>1 DEF Asked
<1>2. CASE p = q
  <2>1. txn'[p] = t /\ to = "writing"
    BY <1>2 DEF IInv, TypeOK, Transactions
  <2>2. Asked(q, t.row, t.changes, exist)
    BY <2>1
  <2>3. QED
    BY <1>1, <1>2, <2>1, <2>2
<1>3. CASE p # q
  <2>1. txn'[p] = txn[p] /\ pc[p] = "writing"
    BY <1>3 DEF IInv, TypeOK, Transactions
  <2>2. Asked(p, txn[p].row, txn[p].changes, exist)
    BY <2>1 DEF AllAsked
  <2>3. QED
    BY <1>1, <2>1, <2>2
<1>4. QED
  BY <1>2, <1>3

LEMMA ReadIsAsked ==
    ASSUME IInv, AllAsked, NEW q \in Requests, NEW row, NEW changes, Reads(q, row, changes),
           pc' = [pc EXCEPT ![q] = "writing"], row \in LockedRows => Asked(q, row, changes, exist)
    PROVE  AllAsked'
<1> DEFINE t == [row |-> row, old |-> body[row], changes |-> changes]
<1>1. txn' = [txn EXCEPT ![q] = t] /\ exist' = exist /\ t.row = row /\ t.changes = changes
  BY DEF Reads
<1> HIDE DEF t
<1>2. QED
  BY <1>1, MoveKeepsAsked

LEMMA NextAsked == IInv /\ AllAsked /\ [Next]_vars => AllAsked'
<1> SUFFICES ASSUME IInv, AllAsked, [Next]_vars PROVE AllAsked'
  OBVIOUS
<1>1. CASE UNCHANGED vars
  BY <1>1 DEF vars, AllAsked, Asked
<1>2. ASSUME NEW q \in Requests, NEW row, NEW changes \in Patches(q), Patch(q, row, changes) PROVE AllAsked'
  <2>1. DOMAIN changes \subseteq {"name", "description"} /\ \A k \in DOMAIN changes : changes[k] = q
    BY PatchTyped
  <2>2. Asked(q, row, changes, exist)
    BY <2>1 DEF Asked
  <2>3. QED
    BY <1>2, <2>2, ReadIsAsked DEF Patch, Goes
<1>3. ASSUME NEW q \in Requests, NEW s \in Scenarios, NEW group \in BOOLEAN, GroupFound(group),
             Patch(q, s, [k \in {"group"} |-> group])
      PROVE  AllAsked'
  <2> DEFINE changes == [k \in {"group"} |-> group]
  <2>1. DOMAIN changes = {"group"} /\ changes["group"] = group
    OBVIOUS
  <2>2. pc' = [pc EXCEPT ![q] = "writing"] /\ Reads(q, s, changes)
    BY <1>3 DEF Patch, Goes
  <2> HIDE DEF changes
  <2>3. Asked(q, s, changes, exist)
    BY <1>3, <2>1 DEF Asked, GroupFound
  <2>4. QED
    BY <2>2, <2>3, ReadIsAsked
<1>4. ASSUME NEW q \in Requests, NEW s \in Scenarios, NumbersVersion(q, s),
             pc' = [pc EXCEPT ![q] = "writing"]
      PROVE  AllAsked'
  <2> DEFINE changes == [k \in {"current"} |-> MaxNumber(s) + 1]
  <2>1. Reads(q, s, changes) /\ DOMAIN changes = {"current"}
    BY <1>4 DEF NumbersVersion
  <2> HIDE DEF changes
  <2>2. Asked(q, s, changes, exist)
    BY <2>1 DEF Asked
  <2>3. QED
    BY <1>4, <2>1, <2>2, ReadIsAsked
<1>5. ASSUME NEW q \in Requests, PatchProject(q) PROVE AllAsked'
  <2>1. PICK changes \in Patches(q) : Reads(q, Project, changes)
    BY <1>5 DEF PatchProject
  <2>2. QED
    BY <1>5, <2>1, ReadIsAsked, RowsAssumption DEF PatchProject, Goes
<1>6. ASSUME NEW q \in Requests, NEW t, NEW to, to # "writing", txn' = [txn EXCEPT ![q] = t],
             pc' = [pc EXCEPT ![q] = to], exist \subseteq exist'
      PROVE  AllAsked'
  BY <1>6, MoveKeepsAsked
<1>7. ASSUME NEW q \in Requests, NEW s \in Scenarios, SaveFlushes(q, s) PROVE AllAsked'
  BY <1>6, <1>7 DEF SaveFlushes, Goes
<1>8. ASSUME NEW q \in Requests, Commit(q) \/ Rollback(q) PROVE AllAsked'
  BY <1>6, <1>8 DEF Commit, Rollback, Goes
<1>9. ASSUME NEW q \in Requests, NEW row, NEW group, Creates(q, row, group) PROVE AllAsked'
  <2>1. txn' = [txn EXCEPT ![q] = txn[q]]
    BY <1>9 DEF Creates, IInv, Transactions
  <2>2. QED
    BY <1>6, <1>9, <2>1 DEF Creates, Goes
<1>10. QED
  <2>1. ASSUME NEW q \in Requests, Step(q) PROVE AllAsked'
    BY <2>1, <1>2, <1>3, <1>4, <1>5, <1>7, <1>8, <1>9
       DEF Step, CreateProject, CreateGroup, CreateEnvironment, CreateScenario, PatchGroup,
           PatchEnvironment, PatchScenario, CreateVersion, SaveVersion, Goes
  <2>2. QED
    BY <1>1, <2>1 DEF Next, AtRest

Entry == [row \in LockedRows |-> body[row]]

\* The entries are the locked rows, and keys are named alike.
LEMMA SameEntries ==
    /\ Content!Entries = LockedRows /\ Content!Keys = Keys
    /\ LockedRows \subseteq Rows /\ Project \notin LockedRows /\ Scenarios \subseteq LockedRows
  BY RowsAssumption DEF Content!Entries, Content!Keys, Keys, LockedRows, Rows

\* A step that leaves the rows and the content alone.
LEMMA RestOfContent == UNCHANGED <<exist, body, versions>> => UNCHANGED Content!contentVars
  BY DEF Content!contentVars

LEMMA CreateIsCreate ==
    ASSUME IInv, NEW q \in Requests, NEW row \in Rows, NEW group \in BOOLEAN, Creates(q, row, group),
           row = Project \/ ProjectFound, group => row \in Scenarios /\ GroupFound(group)
    PROVE  Content!Next
<1> DEFINE new == [name |-> q, description |-> q, group |-> group, current |-> 0]
<1>1. /\ row \notin exist /\ exist' = exist \cup {row} /\ versions' = versions
      /\ body' = [body EXCEPT ![row] = new]
  BY DEF Creates
<1>2. body \in [Rows -> Body]
  BY DEF IInv, TypeOK
<1>3. CASE row = Project
  <2>1. Entry' = Entry
    BY <1>1, <1>2, <1>3, SameEntries DEF Entry
  <2>2. Content!Found
    BY <1>1, <1>3, <2>1 DEF Content!Found, Content!Appears, Entry
  <2>3. QED
    BY <2>2 DEF Content!Next
<1>4. CASE row # Project
  <2>1. row \in LockedRows /\ q \in Writer
    BY <1>4 DEF Rows, Writer
  <2>2. Entry' = [Entry EXCEPT ![row] = new]
    BY <1>1, <1>2, <2>1, SameEntries DEF Entry
  <2>3. Content!Create(row, q, group)
    BY <1>1, <1>4, <2>2 DEF Content!Create, Content!Appears, Content!GroupExists, Entry,
                            ProjectFound, GroupFound
  <2>4. QED
    BY <2>1, <2>3, SameEntries DEF Content!Next
<1>5. QED
  BY <1>3, <1>4

\* A commit writes what the row has now, with the keys asked for replaced.
LEMMA CommitIsOneStep ==
    ASSUME IInv, AllAsked, NEW q \in Requests, Commit(q)
    PROVE  Content!Next \/ UNCHANGED Content!contentVars
<1> DEFINE row     == txn[q].row
           changes == txn[q].changes
           new     == Merged(changes, txn[q].old)
<1>1. /\ pc[q] = "writing" /\ exist' = exist /\ body' = [body EXCEPT ![row] = new]
      /\ versions' = IF NewNumber(q) = 0 THEN versions
                     ELSE [versions EXCEPT ![row] = @ \cup {NewNumber(q)}]
  BY DEF Commit, Goes
<1>2. TxnTyped(q) /\ Reserved(q)
  BY <1>1 DEF IInv, Transactions
<1>3. row \in Rows /\ row \in exist /\ body \in [Rows -> Body] /\ versions \in [Scenarios -> SUBSET Nat]
  BY <1>2 DEF TxnTyped, IInv, TypeOK
<1>4. new = [k \in Keys |-> IF k \in DOMAIN changes THEN changes[k] ELSE txn[q].old[k]]
  BY <1>2, MergedBody DEF TxnTyped
<1>5. CASE row \notin LockedRows
  <2>1. row \notin Scenarios /\ NewNumber(q) = 0
    BY <1>2, <1>5, SameEntries DEF TxnTyped, NewNumber
  <2>2. Entry' = Entry
    BY <1>1, <1>3, <1>5, SameEntries DEF Entry
  <2>3. QED
    BY <1>1, <2>1, <2>2 DEF Content!contentVars, Entry
<1>6. CASE row \in LockedRows
  <2>1. Asked(q, row, changes, exist) /\ txn[q].old = body[row] /\ Entry[row] = body[row]
    BY <1>1, <1>2, <1>6 DEF AllAsked, Reserved, Entry
  <2>2. /\ Entry' = [Entry EXCEPT ![row] = new]
        /\ new = [k \in Keys |-> IF k \in DOMAIN changes THEN changes[k] ELSE Entry[row][k]]
    BY <1>1, <1>3, <1>4, <1>6, <2>1, SameEntries DEF Entry
  <2> HIDE DEF new
  <2>3. CASE DOMAIN changes \subseteq {"name", "description"} /\ \A k \in DOMAIN changes : changes[k] = q
    <3>1. NewNumber(q) = 0
      BY <2>3 DEF NewNumber
    <3>2. new = Content!With(DOMAIN changes, q, Entry[row])
      BY <2>2, <2>3, SameEntries DEF Content!With
    <3>3. Content!Describe(row, DOMAIN changes, q)
      BY <1>1, <1>3, <2>2, <3>1, <3>2 DEF Content!Describe, Entry
    <3>4. q \in Writer
      BY DEF Writer
    <3>5. QED
      BY <1>6, <2>3, <3>3, <3>4, SameEntries DEF Content!Next
  <2>4. CASE /\ row \in Scenarios /\ DOMAIN changes = {"group"}
             /\ changes["group"] \in BOOLEAN /\ (changes["group"] => Groups \cap exist # {})
    <3>1. NewNumber(q) = 0
      BY <2>4 DEF NewNumber
    <3>2. PICK group \in BOOLEAN : group = changes["group"]
      BY <2>4
    <3>3. new = Content!With({"group"}, group, Entry[row])
      BY <2>2, <2>4, <3>2, SameEntries DEF Content!With
    <3>4. Content!Regroup(row, group)
      BY <1>1, <1>3, <2>2, <2>4, <3>1, <3>2, <3>3 DEF Content!Regroup, Content!GroupExists, Entry
    <3>5. \E s \in Scenarios : Content!Regroup(s, group)
      BY <2>4, <3>4
    <3>6. QED
      BY <3>5 DEF Content!Next
  <2>5. CASE row \in Scenarios /\ DOMAIN changes = {"current"}
    <3>1. PICK s \in Scenarios : s = row
      BY <2>5
    <3>2. /\ changes["current"] = Entry[s].current + 1 /\ NewNumber(q) = Entry[s].current + 1
          /\ NewNumber(q) # 0
      BY <1>1, <1>2, <1>3, <1>6, <2>1, <2>5, <3>1 DEF Reserved, NewNumber, Body
    <3>3. versions' = [versions EXCEPT ![s] = versions[s] \cup {Entry[s].current + 1}]
      BY <1>1, <2>1, <3>1, <3>2
    <3>4. new = Content!With({"current"}, Entry[s].current + 1, Entry[s])
      BY <2>2, <2>5, <3>1, <3>2, SameEntries DEF Content!With
    <3>5. Content!AddVersion(s)
      BY <1>1, <1>3, <2>2, <3>1, <3>3, <3>4 DEF Content!AddVersion, Content!NextNumber, Entry
    <3>6. QED
      BY <3>5 DEF Content!Next
  <2>6. QED
    BY <2>1, <2>3, <2>4, <2>5 DEF Asked
<1>7. QED
  BY <1>5, <1>6

LEMMA StepIsContentStep ==
    ASSUME IInv, AllAsked, [Next]_vars
    PROVE  [Content!Next]_(Content!contentVars)
<1>1. CASE UNCHANGED vars
  BY <1>1, RestOfContent DEF vars
<1>2. ASSUME NEW q \in Requests, Step(q) PROVE Content!Next \/ UNCHANGED Content!contentVars
  <2>1. CASE \/ CreateProject(q)
             \/ \E g \in Groups : CreateGroup(q, g)
             \/ \E e \in Environments : CreateEnvironment(q, e)
             \/ \E s \in Scenarios : CreateScenario(q, s)
    <3>1. PICK row \in Rows, group \in BOOLEAN :
             /\ Creates(q, row, group) /\ (row = Project \/ ProjectFound)
             /\ group => row \in Scenarios /\ GroupFound(group)
      BY <2>1 DEF CreateProject, CreateGroup, CreateEnvironment, CreateScenario, Rows, LockedRows
    <3>2. QED
      BY <3>1, CreateIsCreate
  <2>2. CASE Commit(q)
    BY <2>2, CommitIsOneStep
  <2>3. CASE Rollback(q)
    BY <2>3, RestOfContent DEF Rollback
  <2>4. ASSUME NEW row, NEW changes, Reads(q, row, changes) PROVE UNCHANGED Content!contentVars
    BY <2>4, RestOfContent DEF Reads
  <2>5. ASSUME NEW s, SaveFlushes(q, s) PROVE UNCHANGED Content!contentVars
    BY <2>5, RestOfContent DEF SaveFlushes
  <2>6. QED
    BY <1>2, <2>1, <2>2, <2>3, <2>4, <2>5
       DEF Step, PatchProject, PatchGroup, PatchEnvironment, PatchScenario, Patch,
           CreateVersion, SaveVersion, NumbersVersion
<1>3. QED
  BY <1>1, <1>2 DEF Next, AtRest

LEMMA InitIsContentInit == Init => Content!Init
<1> SUFFICES ASSUME Init PROVE Content!Init
  OBVIOUS
<1>1. IInv
  BY InitHolds
<1>2. exist = {} \/ Project \in exist
  BY RowsAssumption DEF Init
<1>3. \A e \in LockedRows : Entry[e].group = FALSE
  <2>1. \A e \in Rows : body[e].group = FALSE
    BY DEF Init
  <2>2. QED
    BY <2>1, SameEntries DEF Entry
<1>4. \A s \in Scenarios : versions[s] = 1..Entry[s].current /\ (s \notin exist => versions[s] = {})
  BY <1>1, SameEntries DEF IInv, CurrentIsLatest, NoVersionsYet, Entry
<1>5. QED
  BY <1>2, <1>3, <1>4, SameEntries DEF Content!Init, Entry

\* Whatever the rows and requests, concurrent requests on the entries of a
\* project have the effect of single steps, one after the other.
THEOREM LibraryImplementsContent == Spec => ImplementsContent
<1>1. Init => AllAsked
  BY DEF Init, AllAsked
<1>2. Spec => []AllAsked
  BY <1>1, NextAsked, Invariant, PTL DEF Spec
<1>3. QED
  BY <1>2, InitIsContentInit, StepIsContentStep, Invariant, PTL
     DEF Spec, ImplementsContent, Content!Spec

=============================================================================
