------------------------------- MODULE Library -------------------------------
(***************************************************************************)
(* The content of a project: its own row, and the rows of its groups,      *)
(* environments and scenarios with their versions.  Every change reads a   *)
(* row's whole body, changes some keys and writes the body back, in two    *)
(* steps here; all routes but patch_project hold the row FOR UPDATE in     *)
(* between.  A request is refused, and is no step, when the row is missing *)
(* or the user may not edit the project.                                   *)
(***************************************************************************)
EXTENDS Integers, FiniteSetsExt

CONSTANTS Scenarios,   \* rows of kind "scenario"
          Groups,      \* rows of kind "group"
          Environments,\* rows of kind "environment"
          Present,     \* the rows of a project that is there at the start
          Requests     \* bound: each request is one call

Project    == "project"
LockedRows == Scenarios \cup Groups \cup Environments
Rows       == LockedRows \cup {Project}

ASSUME RowsAssumption == /\ Project \in Present /\ Present \subseteq Rows
                         /\ Scenarios \cap (Groups \cup Environments) = {}
                         /\ Groups \cap Environments = {}
                         /\ Project \notin LockedRows
                         /\ "free" \notin Requests

VARIABLES
    exist,     \* the rows created so far
    body,      \* the body of each row
    versions,  \* the version numbers of each scenario
    lock,      \* the request that holds each row FOR UPDATE
    pc,        \* how far each request is
    txn,       \* what its transaction has read and is about to write
    wrote      \* history: each row with every committed change applied in turn

vars == <<exist, body, versions, lock, pc, txn, wrote>>

\* A name or description is known by the request that gave it; an
\* environment's variables, secrets and roles are keys like these two.
Writer == Requests \cup {"original"}
Body   == [name : Writer, description : Writer, group : BOOLEAN, current : Nat]
Keys   == {"name", "description", "group", "current"}

\* Mutant: keys the patch does not name fall back to the defaults.
MergedWithDefaults(changes, old) ==
    [k \in DOMAIN old |-> IF k \in DOMAIN changes THEN changes[k]
                          ELSE IF k \in {"name", "description"} THEN "original" ELSE old[k]]

\* {**value.body, **changes}: a key that is not named keeps its value; the
\* same holds inside an environment for each secret and role credential.
Merged(changes, old) ==
    [k \in DOMAIN old |-> IF k \in DOMAIN changes THEN changes[k] ELSE old[k]]

NoTxn == [row |-> "none"]

Init ==
    /\ exist \in {{}, Present}
    /\ \E n \in [Scenarios -> {0, 1}] :
          /\ \A s \in Scenarios \ exist : n[s] = 0
          /\ versions = [s \in Scenarios |-> 1..n[s]]
          /\ body = [row \in Rows |->
                       [name |-> "original", description |-> "original", group |-> FALSE,
                        current |-> IF row \in Scenarios THEN n[row] ELSE 0]]
    /\ lock = [row \in Rows |-> "free"]
    /\ pc = [q \in Requests |-> "new"]
    /\ txn = [q \in Requests |-> NoTxn]
    /\ wrote = body

Goes(q, from, to) == pc[q] = from /\ pc' = [pc EXCEPT ![q] = to]

\* Mutant: resource_for is called without lock=True.
LocksNothing(q, row) == UNCHANGED lock

\* SELECT ... FOR UPDATE
Locks(q, row) == lock[row] = "free" /\ lock' = [lock EXCEPT ![row] = q]

-----------------------------------------------------------------------------

\* create_resource
Creates(q, row, group) ==
    LET new == [name |-> q, description |-> q, group |-> group, current |-> 0] IN
    /\ row \notin exist /\ exist' = exist \cup {row}
    /\ Goes(q, "new", "done")
    /\ body' = [body EXCEPT ![row] = new] /\ wrote' = [wrote EXCEPT ![row] = new]
    /\ UNCHANGED <<versions, lock, txn>>

\* project_for, which every other route goes through.
ProjectFound == Project \in exist

\* Mutant: the group a scenario names is not looked up.
GroupNotLookedUp(group) == TRUE

\* resource_for("group"), for a scenario that names its group.
GroupFound(group) == group => Groups \cap exist # {}

CreateProject(q) == Creates(q, Project, FALSE)

CreateGroup(q, g) == ProjectFound /\ Creates(q, g, FALSE)

CreateEnvironment(q, e) == ProjectFound /\ Creates(q, e, FALSE)

CreateScenario(q, s) ==
    /\ ProjectFound
    /\ \E group \in BOOLEAN : GroupFound(group) /\ Creates(q, s, group)

Reads(q, row, changes) ==
    /\ row \in exist
    /\ txn' = [txn EXCEPT ![q] = [row |-> row, old |-> body[row], changes |-> changes]]
    /\ UNCHANGED <<exist, body, versions, wrote>>

\* What a patch may ask for: any of a row's name and description.
Patches(q) == UNION {[keys -> {q}] : keys \in (SUBSET {"name", "description"}) \ {{}}}

\* The row is locked, its body read and merged with the changes.
Patch(q, row, changes) ==
    /\ ProjectFound /\ Goes(q, "new", "writing")
    /\ Locks(q, row) /\ Reads(q, row, changes)

PatchGroup(q, g) == \E changes \in Patches(q) : Patch(q, g, changes)

\* The merged environment may turn out invalid: then it is rolled back.
PatchEnvironment(q, e) == \E changes \in Patches(q) : Patch(q, e, changes)

\* groupId moves the scenario to a group that exists, or out of its group.
PatchScenario(q, s) ==
    \/ \E changes \in Patches(q) : Patch(q, s, changes)
    \/ \E group \in BOOLEAN : GroupFound(group) /\ Patch(q, s, [k \in {"group"} |-> group])

\* patch_project reads the project without locking it.
PatchProject(q) ==
    /\ Goes(q, "new", "writing")
    /\ \E changes \in Patches(q) : Reads(q, Project, changes)
    /\ UNCHANGED lock

\* SELECT max(version_number)
MaxNumber(s) == IF versions[s] = {} THEN 0 ELSE Max(versions[s])

\* add_version, its caller having locked the scenario: it reads the highest
\* number, inserts the next one and makes it the current version.
NumbersVersion(q, s) ==
    Reads(q, s, [k \in {"current"} |-> MaxNumber(s) + 1])

\* create_version
CreateVersion(q, s) ==
    /\ Goes(q, "new", "writing") /\ Locks(q, s) /\ NumbersVersion(q, s)

\* save_recording: both rows are locked, and finish_recording's commit frees
\* them before it waits for the flush.
SaveFlushes(q, s) ==
    /\ Goes(q, "new", "flushing")
    /\ s \in exist /\ lock[s] = "free"
    /\ txn' = [txn EXCEPT ![q] = [row |-> s]]
    /\ UNCHANGED <<exist, body, versions, lock, wrote>>

\* Mutant: the scenario is not locked again after the flush.
SavesUnlocked(q, s) == UNCHANGED lock

RelocksForSave(q, s) == Locks(q, s)

\* The recording is stopped: the scenario is locked again for the version.
SaveVersion(q, s) ==
    /\ Goes(q, "flushing", "writing") /\ s = txn[q].row
    /\ RelocksForSave(q, s) /\ NumbersVersion(q, s)

\* Mutant: the lock outlives the transaction.
KeepsLocks(q) == lock

\* The end of a transaction frees the rows it locked.
Freed(q) == [row \in DOMAIN lock |-> IF lock[row] = q THEN "free" ELSE lock[row]]

\* The number a version about to be committed has; 0 for other writes.
NewNumber(q) ==
    IF pc[q] = "writing" /\ "current" \in DOMAIN txn[q].changes THEN txn[q].changes["current"] ELSE 0

\* uq_scenario_version refuses a number the scenario has already.
Conflicts(q) == NewNumber(q) # 0 /\ NewNumber(q) \in versions[txn[q].row]

Commit(q) ==
    LET row == txn[q].row IN
    /\ Goes(q, "writing", "done") /\ ~Conflicts(q)
    /\ body' = [body EXCEPT ![row] = Merged(txn[q].changes, txn[q].old)]
    /\ wrote' = [wrote EXCEPT ![row] = [k \in Keys |-> IF k \in DOMAIN txn[q].changes
                                                       THEN txn[q].changes[k] ELSE @[k]]]
    /\ versions' = IF NewNumber(q) = 0 THEN versions
                   ELSE [versions EXCEPT ![row] = @ \cup {NewNumber(q)}]
    /\ lock' = Freed(q)
    /\ txn' = [txn EXCEPT ![q] = NoTxn]
    /\ UNCHANGED exist

\* The commit fails, the flush failed or recorded nothing, or the request is
\* cancelled.
Rollback(q) ==
    /\ pc[q] \in {"flushing", "writing"} /\ pc' = [pc EXCEPT ![q] = "done"]
    /\ lock' = Freed(q)
    /\ txn' = [txn EXCEPT ![q] = NoTxn]
    /\ UNCHANGED <<exist, body, versions, wrote>>

AtRest == (\A q \in Requests : pc[q] = "done") /\ UNCHANGED vars

Step(q) == \/ CreateProject(q) \/ PatchProject(q)
           \/ \E g \in Groups : CreateGroup(q, g) \/ PatchGroup(q, g)
           \/ \E e \in Environments : CreateEnvironment(q, e) \/ PatchEnvironment(q, e)
           \/ \E s \in Scenarios : CreateScenario(q, s) \/ PatchScenario(q, s)
           \/ \E s \in Scenarios : CreateVersion(q, s) \/ SaveFlushes(q, s) \/ SaveVersion(q, s)
           \/ Commit(q) \/ Rollback(q)

Next == AtRest \/ \E q \in Requests : Step(q)

Spec == Init /\ [][Next]_vars

-----------------------------------------------------------------------------

\* The types; a lock is held only by a request in a transaction.
TypeOK ==
    /\ exist \subseteq Rows
    /\ body \in [Rows -> Body] /\ wrote \in [Rows -> Body]
    /\ versions \in [Scenarios -> SUBSET Nat]
    /\ lock \in [Rows -> Requests \cup {"free"}]
    /\ pc \in [Requests -> {"new", "flushing", "writing", "done"}]
    /\ \A row \in Rows : lock[row] = "free" \/ pc[lock[row]] = "writing"

\* A scenario's versions are numbered without a gap, and the newest is the
\* current one, whoever saves, records or renames meanwhile (add_version).
CurrentIsLatest ==
    \A s \in Scenarios : versions[s] = 1..body[s].current

\* The unique constraint on version numbers never has to refuse a save: the
\* maximum was read under the lock (versions.py).
NumbersNeverConflict == \A q \in Requests : ~Conflicts(q)

\* A patch of a group, environment or scenario, or a new version, never takes
\* back what another request has committed to the row in the meantime.
ChangesKept == \A row \in LockedRows : body[row] = wrote[row]

Content == INSTANCE ProjectContent
           WITH Names <- Writer, body <- [row \in LockedRows |-> body[row]]

\* Concurrent requests on groups, environments and scenarios have the effect
\* of single steps, one after the other: none works from a row that has
\* changed since it read it, or from a group that is not there (resource_for).
ImplementsContent == Content!Spec

=============================================================================
