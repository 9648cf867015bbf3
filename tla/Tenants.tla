------------------------------- MODULE Tenants -------------------------------
(***************************************************************************)
(* The operations of services/tenants.py on one organization.  Every one   *)
(* that changes the organization takes the lock of its row, reads what it  *)
(* decides from, and commits; the lock is what keeps the two apart from    *)
(* another request's.  An operation is therefore two steps here: the first *)
(* locks, reads, checks and stages the writes of the transaction, the      *)
(* second commits them (or the transaction is lost) and frees the lock.  A *)
(* request whose checks refuse it changes nothing and is not a step.       *)
(***************************************************************************)
EXTENDS Roles, FiniteSets, Naturals

CONSTANTS Users,         \* the users, each with an email of their own
          Emails,        \* addresses, as lower() or casefold() writes them
          Lowered,       \* each user's address after PostgreSQL's lower()
          Folded,        \* and after Python's casefold(),
          Invitations,   \* bound: the invitation rows that may be created
          InvitedRoles,  \* the roles an invitation may carry
          Requests       \* bound: the requests in progress at one time

ASSUME RolesAssumption == InvitedRoles \subseteq {"admin", "member", "viewer"}

\* The two conversions differ for some addresses (sharp s becomes "ss" in one
\* of them only), and casefold() may write the addresses of two users alike.
ASSUME EmailsAssumption == /\ Lowered \in [Users -> Emails]
                           /\ Folded \in [Users -> Emails]

VARIABLES
    founded,      \* the organization's row exists
    members,      \* the role in each user's membership row, or "none"
    invitations,  \* the rows of the invitations table
    names,        \* who last wrote the organization's name, or a workspace's
    lock,         \* the request that holds the organization's row, if any
    staged        \* what each request's transaction is about to commit

vars == <<founded, members, invitations, names, lock, staged>>

Unused     == [status |-> "unused"]
Invitation == [status : {"pending", "accepted", "revoked"}, email : Emails,
               role : InvitedRoles, expired : BOOLEAN]

\* What a transaction is about to write, for whom.
NoWrite       == [op |-> "none"]
MemberWrite   == [op : {"member"}, by : Users, user : Users, role : Role \cup {"none"}]
InviteWrite   == [op : {"invite"}, by : Users, email : Emails, role : InvitedRoles,
                  invitation : Invitations, previous : SUBSET Invitations]
StatusWrite   == [op : {"revoke", "accept"}, by : Users, invitation : Invitations]
NameWrite     == [op : {"name"}, by : Users, permission : {"manage", "own"}]
Write         == MemberWrite \cup InviteWrite \cup StatusWrite \cup NameWrite

Owners     == {u \in Users : members[u] = "owner"}
Pending(i) == invitations[i].status = "pending"

Known(i) == invitations[i] # Unused

\* What the migration to organizations leaves of each owner of a project.
Migrated(u) == founded = TRUE /\ members = [v \in Users |-> IF v = u THEN "owner" ELSE "none"]

Init == /\ \/ founded = FALSE /\ members = [u \in Users |-> "none"]
           \/ \E u \in Users : Migrated(u)
        /\ invitations = [i \in Invitations |-> Unused]
        /\ names = {}
        /\ lock = {}
        /\ staged = [q \in Requests |-> NoWrite]

-----------------------------------------------------------------------------

\* create_organization: the row and its owner's membership in one commit.
CreateOrganization(u) ==
    /\ ~founded
    /\ founded' = TRUE
    /\ members' = [members EXCEPT ![u] = "owner"]
    /\ UNCHANGED <<invitations, names, lock, staged>>

\* Mutant: the organization is selected without FOR UPDATE.
TakesNoLock(q) == staged[q] = NoWrite /\ UNCHANGED lock

\* The organization's row, FOR UPDATE.
Locks(q) == staged[q] = NoWrite /\ lock = {} /\ lock' = {q}

\* Mutant: any member passes, whatever the permission asked for.
AuthorizedAsMember(q, a, permission) ==
    founded /\ Locks(q) /\ members[a] # "none"

\* organization_for(lock=True): the membership is read after the lock.
Authorized(q, a, permission) ==
    founded /\ Locks(q) /\ Permitted(members[a], permission)

Stages(q, write) ==
    /\ staged' = [staged EXCEPT ![q] = write]
    /\ UNCHANGED <<founded, members, invitations, names>>

\* change_member's LAST_OWNER check.
LeavesAnOwner(u, role) ==
    (members[u] = "owner" /\ role # "owner") => Cardinality(Owners) # 1

\* change_member: a role changes, a member is removed (role "none"), or a
\* member leaves, the one case that needs no power over the role.
ChangeMember(q, a, u, role) ==
    /\ Authorized(q, a, "read")
    /\ members[u] # "none"
    /\ (role # "none" \/ u # a) => /\ MayManage(members[a], members[u])
                                   /\ role # "none" => MayManage(members[a], role)
    /\ LeavesAnOwner(u, role)
    /\ Stages(q, [op |-> "member", by |-> a, user |-> u, role |-> role])

\* Mutant: the invitation it replaces is left pending.
ReplacesNothing(e) == {}

\* The pending invitation to the same email, which the new one replaces.
Replaced(e) == {p \in Invitations : Pending(p) /\ invitations[p].email = e}

\* invite's ALREADY_MEMBER check: lower() in the query, against an address
\* that casefold() wrote.  It passes over a member whose address they write
\* differently.
NoMemberAt(e) == \A u \in Users : Lowered[u] = e => members[u] = "none"

\* invite
Invite(q, a, i, e, role) ==
    /\ Authorized(q, a, "manage")
    /\ MayManage(members[a], role)
    /\ NoMemberAt(e)
    /\ \A p \in Replaced(e) : MayManage(members[a], invitations[p].role)
    /\ ~Known(i)
    /\ Stages(q, [op |-> "invite", by |-> a, email |-> e, role |-> role,
                  invitation |-> i, previous |-> Replaced(e)])

\* revoke: an invitation already revoked is left alone, an accepted one refused.
Revoke(q, a, i) ==
    /\ Authorized(q, a, "manage")
    /\ Known(i) /\ invitations[i].status \notin {"accepted", "revoked"}
    /\ MayManage(members[a], invitations[i].role)
    /\ Stages(q, [op |-> "revoke", by |-> a, invitation |-> i])

\* accept: the token finds the row, the row is read again under the lock.
\* Whoever accepted it already and is still a member is answered again.
Accept(q, u, i) ==
    /\ Known(i) /\ Locks(q)
    /\ Folded[u] = invitations[i].email
    /\ Pending(i) /\ ~invitations[i].expired
    /\ members[u] = "none"
    /\ Stages(q, [op |-> "accept", by |-> u, invitation |-> i])

\* rename_organization needs "own"; create_workspace and rename_workspace
\* need "manage".
Rename(q, a, permission) ==
    /\ Authorized(q, a, permission)
    /\ Stages(q, [op |-> "name", by |-> a, permission |-> permission])

\* The invitation's seven days pass; its status stays pending.
Expires(i) ==
    /\ Pending(i) /\ ~invitations[i].expired
    /\ invitations' = [invitations EXCEPT ![i].expired = TRUE]
    /\ UNCHANGED <<founded, members, names, lock, staged>>

\* The constraints the tables put on a write: one row per member, one pending
\* invitation per email.  The commit fails if it would break one.
Conflicts(w) ==
    \/ w.op = "accept" /\ members[w.by] # "none"
    \/ w.op = "invite" /\ \E p \in Invitations \ w.previous :
                             Pending(p) /\ invitations[p].email = w.email

\* Mutant: the row takes the inviter's role instead of the offered one.
NewRowOfInviter(w) ==
    [status |-> "pending", email |-> w.email, role |-> members[w.by], expired |-> FALSE]

NewRow(w) == [status |-> "pending", email |-> w.email, role |-> w.role, expired |-> FALSE]

Commits(w) ==
    /\ members' = CASE w.op = "member" -> [members EXCEPT ![w.user] = w.role]
                    [] w.op = "accept" -> [members EXCEPT ![w.by] = invitations[w.invitation].role]
                    [] OTHER -> members
    /\ invitations' =
         CASE w.op = "invite" ->
                [i \in Invitations |->
                    IF i = w.invitation THEN NewRow(w)
                    ELSE IF i \in w.previous THEN [invitations[i] EXCEPT !.status = "revoked"]
                    ELSE invitations[i]]
           [] w.op = "revoke" -> [invitations EXCEPT ![w.invitation].status = "revoked"]
           [] w.op = "accept" -> [invitations EXCEPT ![w.invitation].status = "accepted"]
           [] OTHER -> invitations
    /\ names' = IF w.op = "name"
                THEN {n \in names : n[1] # w.permission} \cup {<<w.permission, w.by>>} ELSE names

Commit(q) ==
    /\ staged[q] # NoWrite /\ ~Conflicts(staged[q])
    /\ Commits(staged[q])
    /\ staged' = [staged EXCEPT ![q] = NoWrite] /\ lock' = lock \ {q}
    /\ UNCHANGED founded

\* The commit fails, or the request is cancelled: the transaction is rolled
\* back and its lock goes with it.
Rollback(q) ==
    /\ staged[q] # NoWrite
    /\ staged' = [staged EXCEPT ![q] = NoWrite] /\ lock' = lock \ {q}
    /\ UNCHANGED <<founded, members, invitations, names>>

Begin(q) ==
    \E a \in Users :
       \/ \E u \in Users, role \in Role \cup {"none"} : ChangeMember(q, a, u, role)
       \/ \E u \in Users, role \in InvitedRoles, i \in Invitations : Invite(q, a, i, Folded[u], role)
       \/ \E i \in Invitations : Revoke(q, a, i) \/ Accept(q, a, i)
       \/ \E permission \in {"manage", "own"} : Rename(q, a, permission)

Next == \/ \E u \in Users : CreateOrganization(u)
        \/ \E i \in Invitations : Expires(i)
        \/ \E q \in Requests : Begin(q) \/ Commit(q) \/ Rollback(q)

Spec == Init /\ [][Next]_vars

-----------------------------------------------------------------------------

\* The types: a row of invitations is complete or does not exist, and a
\* request works on rows that exist.
TypeOK ==
    /\ founded \in BOOLEAN
    /\ members \in [Users -> Role \cup {"none"}]
    /\ invitations \in [Invitations -> Invitation \cup {Unused}]
    /\ names \subseteq {"manage", "own"} \X Users
    /\ lock \subseteq Requests
    /\ staged \in [Requests -> Write \cup {NoWrite}]

\* An organization that exists always has an owner, whatever members change,
\* remove or leave at the same time (change_member's LAST_OWNER check).
AlwaysAnOwner == founded => Owners # {}

\* No address has two invitations waiting, and no member has one whose address
\* both conversions write alike: whoever of them leaves or is removed can only
\* come back through an invitation made afterwards (invite, revoke, accept).
\* A member with another address may have one waiting, through invite's check.
PendingNotMember ==
    \A i \in Invitations : Pending(i) =>
       /\ \A u \in Users : Folded[u] = invitations[i].email /\ members[u] # "none"
                             => Lowered[u] # Folded[u]
       /\ \A j \in Invitations \ {i} :
             Pending(j) => invitations[j].email # invitations[i].email

\* The tables' unique constraints are never what stops a request: the checks
\* made under the lock still hold when the transaction commits.
NoConflictAtCommit == \A q \in Requests : staged[q] # NoWrite => ~Conflicts(staged[q])

\* The open offers an observer sees in the invitations table.
OfferOf(i) == [id |-> i, email |-> invitations[i].email, role |-> invitations[i].role]
Offers == {OfferOf(i) : i \in {j \in Invitations : Pending(j)}}

M == INSTANCE Membership WITH roleOf <- members, offers <- Offers,
                              spent <- {i \in Invitations : Known(i)}, setBy <- names

\* Every commit is one act of Membership: whoever caused it still has, at the
\* moment it commits, the role that allows it.
ImplementsMembership == M!Spec

=============================================================================
