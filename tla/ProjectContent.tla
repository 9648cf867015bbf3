---------------------------- MODULE ProjectContent ----------------------------
(***************************************************************************)
(* What a project promises of its content: every request takes effect at   *)
(* one moment, on the row as it is then, and touches only the keys it      *)
(* names.  A scenario is only ever put into a group that exists, and a new *)
(* version is the next one and the current one.  The project's own row is  *)
(* there or not; its name is no part of the promise.                       *)
(***************************************************************************)
EXTENDS Integers

CONSTANTS Project,       \* the project's own row
          Scenarios, Groups, Environments,
          Names          \* whom a name or description may be from

Entries == Scenarios \cup Groups \cup Environments
Keys    == {"name", "description", "group", "current"}

VARIABLES exist,     \* the rows created so far
          body,      \* the body of each entry
          versions   \* the version numbers of each scenario

contentVars == <<exist, body, versions>>

GroupExists == Groups \cap exist # {}

\* A body after the keys of a request were given one value.
With(keys, value, old) == [k \in Keys |-> IF k \in keys THEN value ELSE old[k]]

Init == /\ exist = {} \/ Project \in exist
        /\ \A e \in Entries : body[e].group = FALSE
        /\ \A s \in Scenarios : /\ versions[s] = 1..body[s].current
                                /\ s \notin exist => versions[s] = {}

Appears(row) == row \notin exist /\ exist' = exist \cup {row}

Found == Appears(Project) /\ UNCHANGED <<body, versions>>

Create(e, name, group) ==
    /\ Project \in exist /\ Appears(e)
    /\ group => e \in Scenarios /\ GroupExists
    /\ body' = [body EXCEPT ![e] = [name |-> name, description |-> name, group |-> group, current |-> 0]]
    /\ UNCHANGED versions

Describe(e, keys, name) ==
    /\ e \in exist
    /\ body' = [body EXCEPT ![e] = With(keys, name, body[e])]
    /\ UNCHANGED <<exist, versions>>

Regroup(s, group) ==
    /\ s \in exist /\ (group => GroupExists)
    /\ body' = [body EXCEPT ![s] = With({"group"}, group, body[s])]
    /\ UNCHANGED <<exist, versions>>

NextNumber(s) == body[s].current + 1

AddVersion(s) ==
    /\ s \in exist
    /\ versions' = [versions EXCEPT ![s] = versions[s] \cup {NextNumber(s)}]
    /\ body' = [body EXCEPT ![s] = With({"current"}, NextNumber(s), body[s])]
    /\ UNCHANGED exist

Next == \/ Found
        \/ \E e \in Entries, name \in Names, group \in BOOLEAN : Create(e, name, group)
        \/ \E e \in Entries, keys \in SUBSET {"name", "description"}, name \in Names :
              Describe(e, keys, name)
        \/ \E s \in Scenarios, group \in BOOLEAN : Regroup(s, group)
        \/ \E s \in Scenarios : AddVersion(s)

Spec == Init /\ [][Next]_contentVars

=============================================================================
