--------------------------- MODULE Tenants_proofs ---------------------------
(***************************************************************************)
(* Proofs about Tenants, for any users, invitations and requests.  The     *)
(* argument: only the request that holds the lock has a staged write, so   *)
(* what it read when it staged the write is still true when it commits.    *)
(***************************************************************************)
EXTENDS Tenants, FiniteSetTheorems, TLAPS

OneWriter == \A q \in Requests : staged[q] # NoWrite => lock = {q}

\* The checks behind a staged write hold in the present state.
ValidMember(w) ==
    /\ members[w.by] \in Role /\ members[w.user] \in Role
    /\ \/ w.by = w.user /\ w.role = "none"
       \/ MayManage(members[w.by], members[w.user])
          /\ (w.role = "none" \/ MayManage(members[w.by], w.role))
    /\ (members[w.user] = "owner" /\ w.role # "owner") => \E o \in Owners : o # w.user

ValidInvite(w) ==
    /\ Permitted(members[w.by], "manage") /\ MayManage(members[w.by], w.role)
    /\ NoMemberAt(w.email)
    /\ ~Known(w.invitation)
    /\ w.previous = Replaced(w.email)
    /\ \A p \in Replaced(w.email) : MayManage(members[w.by], invitations[p].role)

ValidRevoke(w) ==
    /\ Permitted(members[w.by], "manage") /\ Pending(w.invitation)
    /\ MayManage(members[w.by], invitations[w.invitation].role)

ValidAccept(w) ==
    /\ Pending(w.invitation) /\ invitations[w.invitation].email = Folded[w.by]
    /\ members[w.by] = "none"

Valid(w) ==
    /\ founded
    /\ w.op = "member" => ValidMember(w)
    /\ w.op = "invite" => ValidInvite(w)
    /\ w.op = "revoke" => ValidRevoke(w)
    /\ w.op = "accept" => ValidAccept(w)
    /\ w.op = "name"   => Permitted(members[w.by], w.permission)

StagedValid == \A q \in Requests : staged[q] # NoWrite => Valid(staged[q])

\* The foreign key of invitations and memberships.
RowsNeedOrganization ==
    ~founded => /\ \A i \in Invitations : ~Known(i)
                /\ members = [u \in Users |-> "none"]

IInv == TypeOK /\ RowsNeedOrganization /\ OneWriter /\ StagedValid /\ AlwaysAnOwner /\ PendingNotMember

-----------------------------------------------------------------------------

\* The fields of a staged write, by its kind.
LEMMA WriteFields ==
    ASSUME TypeOK, NEW q \in Requests
    PROVE  /\ staged[q].op = "member" => staged[q] \in MemberWrite
           /\ staged[q].op = "invite" => staged[q] \in InviteWrite
           /\ staged[q].op \in {"revoke", "accept"} => staged[q] \in StatusWrite
           /\ staged[q].op = "name" => staged[q] \in NameWrite
           /\ staged[q] # NoWrite => staged[q].op \in {"member", "invite", "revoke", "accept", "name"}
<1>1. staged[q] \in Write \cup {NoWrite}
  BY DEF TypeOK
<1>2. CASE staged[q] \in MemberWrite
  BY <1>2 DEF MemberWrite
<1>3. CASE staged[q] \in InviteWrite
  BY <1>3 DEF InviteWrite
<1>4. CASE staged[q] \in StatusWrite
  BY <1>4 DEF StatusWrite
<1>5. CASE staged[q] \in NameWrite
  BY <1>5 DEF NameWrite
<1>6. CASE staged[q] = NoWrite
  BY <1>6 DEF NoWrite
<1>7. QED
  BY <1>1, <1>2, <1>3, <1>4, <1>5, <1>6 DEF Write

\* A row that is pending is complete.
LEMMA PendingIsRow ==
    ASSUME TypeOK, NEW i \in Invitations
    PROVE  /\ Known(i) => invitations[i] \in Invitation
           /\ Pending(i) => Known(i)
           /\ Known(i) /\ invitations[i].status \notin {"accepted", "revoked"} => Pending(i)
<1>1. invitations[i] \in Invitation \cup {Unused}
  BY DEF TypeOK
<1>2. QED
  BY <1>1 DEF Known, Unused, Invitation, Pending

\* Staging a write: the lock was free, so nobody else has one.
LEMMA StageKeeps ==
    ASSUME IInv, NEW q \in Requests, NEW w \in Write, Locks(q), Stages(q, w), w # NoWrite,
           Valid(w)
    PROVE  IInv'
<1>1. UNCHANGED <<founded, members, invitations, names>> /\ staged' = [staged EXCEPT ![q] = w]
      /\ lock = {} /\ lock' = {q}
  BY DEF Stages, Locks
<1>2. \A p \in Requests : staged[p] = NoWrite
  BY <1>1 DEF IInv, OneWriter
<1>3. TypeOK'
  BY <1>1 DEF IInv, TypeOK
<1>4. staged'[q] = w /\ \A p \in Requests \ {q} : staged'[p] = NoWrite
  BY <1>1, <1>2 DEF IInv, TypeOK
<1>5. OneWriter'
  BY <1>1, <1>4 DEF OneWriter
<1>6. \A p \in Requests : staged'[p] # NoWrite => Valid(staged[p])'
  <2>1. SUFFICES ASSUME NEW p \in Requests, staged'[p] # NoWrite PROVE Valid(staged[p])'
    OBVIOUS
  <2>2. staged'[p] = w
    BY <2>1, <1>4
  <2>3. QED
    BY <2>2, <1>1
    DEF Valid, ValidMember, ValidInvite, ValidRevoke, ValidAccept, Owners, Known, Replaced, NoMemberAt, Pending
<1>7. StagedValid'
  BY <1>6 DEF StagedValid
<1>8. AlwaysAnOwner' /\ PendingNotMember' /\ RowsNeedOrganization'
  BY <1>1 DEF IInv, AlwaysAnOwner, PendingNotMember, Owners, Pending, RowsNeedOrganization, Known
<1>9. QED
  BY <1>3, <1>5, <1>7, <1>8 DEF IInv

\* Each operation stages a write whose checks hold.
LEMMA BeginKeeps ==
    ASSUME IInv, NEW q \in Requests, Begin(q)
    PROVE  IInv'
<1> USE DEF Authorized
<1>1. ASSUME NEW a \in Users, NEW u \in Users, NEW role \in Role \cup {"none"},
             ChangeMember(q, a, u, role)
      PROVE  IInv'
  <2> DEFINE w == [op |-> "member", by |-> a, user |-> u, role |-> role]
  <2>1. w \in Write /\ w # NoWrite
    BY DEF Write, MemberWrite, NoWrite
  <2>2. members[a] \in Role /\ members[u] \in Role /\ founded
    BY <1>1 DEF ChangeMember, Permitted, IInv, TypeOK
  <2>3. (members[u] = "owner" /\ role # "owner") => \E o \in Owners : o # u
    <3>1. SUFFICES ASSUME members[u] = "owner", role # "owner", Owners = {u} PROVE FALSE
      BY DEF Owners
    <3>2. Cardinality({u}) = 1
      BY FS_Singleton
    <3>3. QED
      BY <1>1, <3>1, <3>2 DEF ChangeMember, LeavesAnOwner
  <2>4. ValidMember(w)
    BY <1>1, <2>2, <2>3 DEF ChangeMember, ValidMember
  <2>5. QED
    BY <1>1, <2>1, <2>2, <2>4, StageKeeps DEF Valid, ChangeMember
<1>2. ASSUME NEW a \in Users, NEW u \in Users, NEW role \in InvitedRoles, NEW i \in Invitations,
             Invite(q, a, i, Folded[u], role)
      PROVE  IInv'
  <2> DEFINE w == [op |-> "invite", by |-> a, email |-> Folded[u], role |-> role,
                   invitation |-> i, previous |-> Replaced(Folded[u])]
  <2>1. w \in Write /\ w # NoWrite
    BY EmailsAssumption DEF Write, InviteWrite, NoWrite, Replaced
  <2>2. ValidInvite(w) /\ founded
    BY <1>2 DEF Invite, ValidInvite
  <2>3. QED
    BY <1>2, <2>1, <2>2, StageKeeps DEF Valid, Invite
<1>3. ASSUME NEW a \in Users, NEW i \in Invitations, Revoke(q, a, i)
      PROVE  IInv'
  <2> DEFINE w == [op |-> "revoke", by |-> a, invitation |-> i]
  <2>1. w \in Write /\ w # NoWrite
    BY DEF Write, StatusWrite, NoWrite
  <2>2. ValidRevoke(w) /\ founded
    BY <1>3, PendingIsRow DEF Revoke, ValidRevoke, IInv
  <2>3. QED
    BY <1>3, <2>1, <2>2, StageKeeps DEF Valid, Revoke
<1>4. ASSUME NEW a \in Users, NEW i \in Invitations, Accept(q, a, i)
      PROVE  IInv'
  <2> DEFINE w == [op |-> "accept", by |-> a, invitation |-> i]
  <2>1. w \in Write /\ w # NoWrite
    BY DEF Write, StatusWrite, NoWrite
  <2>2. ValidAccept(w) /\ founded
    BY <1>4 DEF Accept, ValidAccept, IInv, RowsNeedOrganization
  <2>3. QED
    BY <1>4, <2>1, <2>2, StageKeeps DEF Valid, Accept
<1>5. ASSUME NEW a \in Users, NEW permission \in {"manage", "own"}, Rename(q, a, permission)
      PROVE  IInv'
  <2> DEFINE w == [op |-> "name", by |-> a, permission |-> permission]
  <2>1. w \in Write /\ w # NoWrite
    BY DEF Write, NameWrite, NoWrite
  <2>2. QED
    BY <1>5, <2>1, StageKeeps DEF Valid, Rename
<1>6. QED
  BY <1>1, <1>2, <1>3, <1>4, <1>5 DEF Begin

\* After a transaction ends nobody has a staged write: the one that ended
\* held the lock.
LEMMA EndFreesLock ==
    ASSUME IInv, NEW q \in Requests, staged[q] # NoWrite,
           staged' = [staged EXCEPT ![q] = NoWrite], lock' = lock \ {q}
    PROVE  /\ \A p \in Requests : staged'[p] = NoWrite
           /\ OneWriter' /\ StagedValid'
<1>1. \A p \in Requests \ {q} : staged[p] = NoWrite
  BY DEF IInv, OneWriter
<1>2. \A p \in Requests : staged'[p] = NoWrite
  BY <1>1 DEF IInv, TypeOK
<1>3. QED
  BY <1>2 DEF OneWriter, StagedValid

LEMMA RollbackKeeps ==
    ASSUME IInv, NEW q \in Requests, Rollback(q)
    PROVE  IInv'
<1>1. OneWriter' /\ StagedValid'
  BY EndFreesLock DEF Rollback
<1>2. TypeOK'
  BY DEF Rollback, IInv, TypeOK, NoWrite
<1>3. AlwaysAnOwner' /\ PendingNotMember' /\ RowsNeedOrganization'
  BY DEF Rollback, IInv, AlwaysAnOwner, PendingNotMember, Owners, Pending, RowsNeedOrganization, Known
<1>4. QED
  BY <1>1, <1>2, <1>3 DEF IInv

LEMMA CreateKeeps ==
    ASSUME IInv, NEW u \in Users, CreateOrganization(u)
    PROVE  IInv'
<1>1. TypeOK'
  BY DEF CreateOrganization, IInv, TypeOK, Role
<1>2. \A q \in Requests : staged[q] = NoWrite
  BY DEF CreateOrganization, IInv, StagedValid, Valid
<1>3. OneWriter' /\ StagedValid'
  BY <1>2 DEF CreateOrganization, OneWriter, StagedValid
<1>4. AlwaysAnOwner' /\ RowsNeedOrganization'
  BY DEF CreateOrganization, IInv, TypeOK, AlwaysAnOwner, Owners, RowsNeedOrganization
<1>5. PendingNotMember'
  BY PendingIsRow DEF CreateOrganization, IInv, PendingNotMember, RowsNeedOrganization, Pending
<1>6. QED
  BY <1>1, <1>3, <1>4, <1>5 DEF IInv

\* An expired invitation is still a pending row.
LEMMA ExpiryKeeps ==
    ASSUME IInv, NEW i \in Invitations, Expires(i)
    PROVE  IInv'
<1> DEFINE row == [invitations[i] EXCEPT !.expired = TRUE]
<1>1. invitations[i] \in Invitation /\ row \in Invitation
  BY PendingIsRow DEF Expires, IInv, Invitation
<1>2. row.status = invitations[i].status /\ row.email = invitations[i].email
      /\ row.role = invitations[i].role
  BY <1>1 DEF Invitation
<1>3. invitations' = [invitations EXCEPT ![i] = row]
  BY DEF Expires
<1>4. TypeOK'
  BY <1>1, <1>3 DEF Expires, IInv, TypeOK
<1>5. \A j \in Invitations : /\ Pending(j)' <=> Pending(j)
                             /\ Known(j)' <=> Known(j)
                             /\ Pending(j) => /\ invitations'[j].email = invitations[j].email
                                              /\ invitations'[j].role = invitations[j].role
  <2>1. row # Unused
    BY <1>1 DEF Invitation, Unused
  <2>2. invitations[i] # Unused
    BY <1>1 DEF Invitation, Unused
  <2>3. QED
    BY <1>2, <1>3, <2>1, <2>2 DEF IInv, TypeOK, Pending, Known
<1>6. PendingNotMember'
  BY <1>5 DEF Expires, IInv, PendingNotMember
<1>7. AlwaysAnOwner' /\ OneWriter' /\ RowsNeedOrganization'
  BY <1>5 DEF Expires, IInv, AlwaysAnOwner, Owners, OneWriter, RowsNeedOrganization
<1>8. \A e \in Emails : Replaced(e)' = Replaced(e)
  BY <1>5 DEF Replaced
<1>9. ASSUME NEW q \in Requests, staged[q] # NoWrite PROVE Valid(staged[q])'
  <2>1. Valid(staged[q])
    BY <1>9 DEF IInv, StagedValid
  <2>2. UNCHANGED <<founded, members, staged>>
    BY DEF Expires
  <2>3. CASE staged[q].op = "member"
    BY <2>1, <2>2, <2>3 DEF Valid, ValidMember, Owners
  <2>4. CASE staged[q].op = "invite"
    <3>1. staged[q] \in InviteWrite
      BY <2>4, WriteFields DEF IInv
    <3>2. ValidInvite(staged[q])
      BY <2>1, <2>4 DEF Valid
    <3>3. Replaced(staged[q].email)' = Replaced(staged[q].email)
      BY <1>8, <2>2, <3>1 DEF InviteWrite
    <3>4. ValidInvite(staged[q])'
      BY <1>5, <2>2, <3>1, <3>2, <3>3 DEF ValidInvite, InviteWrite, Replaced, NoMemberAt
    <3>5. QED
      BY <2>1, <2>2, <2>4, <3>4 DEF Valid
  <2>5. CASE staged[q].op \in {"revoke", "accept"}
    <3>1. staged[q] \in StatusWrite
      BY <2>5, WriteFields DEF IInv
    <3>2. QED
      BY <1>5, <2>1, <2>2, <2>5, <3>1 DEF Valid, ValidRevoke, ValidAccept, StatusWrite
  <2>6. CASE staged[q].op = "name"
    BY <2>1, <2>2, <2>6 DEF Valid
  <2>7. QED
    BY <1>9, <2>3, <2>4, <2>5, <2>6, WriteFields DEF IInv
<1>10. StagedValid'
  BY <1>9 DEF Expires, StagedValid
<1>11. QED
  BY <1>4, <1>6, <1>7, <1>10 DEF IInv

\* What the commit does, by the kind of write.
LEMMA MemberCommitKeeps ==
    ASSUME IInv, NEW w \in MemberWrite, ValidMember(w), founded, Commits(w), UNCHANGED founded
    PROVE  /\ members' \in [Users -> Role \cup {"none"}] /\ UNCHANGED <<invitations, names>>
           /\ AlwaysAnOwner' /\ PendingNotMember' /\ RowsNeedOrganization'
<1>1. w.op = "member" /\ w.user \in Users /\ w.role \in Role \cup {"none"}
  BY DEF MemberWrite
<1>2. members' = [members EXCEPT ![w.user] = w.role] /\ UNCHANGED <<invitations, names>>
  BY <1>1 DEF Commits
<1>3. members \in [Users -> Role \cup {"none"}]
  BY DEF IInv, TypeOK
<1>4. AlwaysAnOwner'
  BY <1>1, <1>2, <1>3 DEF ValidMember, AlwaysAnOwner, Owners, IInv
<1>5. members[w.user] # "none"
  BY DEF ValidMember, Role
<1>6. PendingNotMember'
  BY <1>1, <1>2, <1>3, <1>5 DEF IInv, PendingNotMember, Pending
<1>7. QED
  BY <1>1, <1>2, <1>3, <1>4, <1>6 DEF RowsNeedOrganization

LEMMA InviteCommitKeeps ==
    ASSUME IInv, NEW w \in InviteWrite, ValidInvite(w), founded, Commits(w), UNCHANGED founded
    PROVE  /\ invitations' \in [Invitations -> Invitation \cup {Unused}] /\ UNCHANGED <<members, names>>
           /\ AlwaysAnOwner' /\ PendingNotMember' /\ RowsNeedOrganization'
<1> DEFINE replaced(i) == [invitations[i] EXCEPT !.status = "revoked"]
<1>1. w.op = "invite" /\ w.email \in Emails /\ w.role \in InvitedRoles /\ w.invitation \in Invitations
  BY DEF InviteWrite
<1>2. /\ invitations' = [i \in Invitations |->
            IF i = w.invitation THEN NewRow(w)
            ELSE IF i \in w.previous THEN replaced(i) ELSE invitations[i]]
      /\ UNCHANGED <<members, names>>
  BY <1>1 DEF Commits
<1>3. NewRow(w) \in Invitation /\ NewRow(w).status = "pending" /\ NewRow(w).email = w.email
  BY <1>1 DEF NewRow, Invitation
<1>4. w.previous = {p \in Invitations : Pending(p) /\ invitations[p].email = w.email}
  BY DEF ValidInvite, Replaced
<1>5. \A i \in w.previous : replaced(i) \in Invitation /\ replaced(i).status = "revoked"
  BY <1>4, PendingIsRow DEF IInv, Invitation
<1>6. invitations' \in [Invitations -> Invitation \cup {Unused}]
  BY <1>2, <1>3, <1>5 DEF IInv, TypeOK
<1>7. \A i \in Invitations \ {w.invitation} : Pending(i)' =>
         Pending(i) /\ invitations'[i] = invitations[i] /\ invitations[i].email # w.email
  BY <1>2, <1>4, <1>5 DEF Pending
<1>8. invitations'[w.invitation].email = w.email /\ NoMemberAt(w.email)
  BY <1>1, <1>2, <1>3 DEF ValidInvite
<1>9. PendingNotMember'
  <2>1. SUFFICES ASSUME NEW i \in Invitations, Pending(i)'
                 PROVE  /\ \A u \in Users : Folded[u] = invitations'[i].email /\ members'[u] # "none"
                                               => Lowered[u] # Folded[u]
                        /\ \A j \in Invitations \ {i} :
                              Pending(j)' => invitations'[j].email # invitations'[i].email
    BY DEF PendingNotMember
  <2>2. CASE i = w.invitation
    BY <1>2, <1>7, <1>8, <2>2 DEF NoMemberAt
  <2>3. CASE i # w.invitation
    <3>1. Pending(i) /\ invitations'[i] = invitations[i] /\ invitations[i].email # w.email
      BY <1>7, <2>1, <2>3
    <3>2. \A u \in Users : Folded[u] = invitations[i].email /\ members[u] # "none"
                               => Lowered[u] # Folded[u]
      BY <3>1 DEF IInv, PendingNotMember
    <3>3. ASSUME NEW j \in Invitations \ {i}, Pending(j)'
          PROVE  invitations'[j].email # invitations'[i].email
      <4>1. CASE j = w.invitation
        BY <1>8, <3>1, <4>1
      <4>2. CASE j # w.invitation
        BY <1>7, <3>1, <3>3, <4>2 DEF IInv, PendingNotMember
      <4>3. QED
        BY <4>1, <4>2
    <3>4. QED
      BY <1>2, <3>1, <3>2, <3>3
  <2>4. QED
    BY <2>2, <2>3
<1>10. QED
  BY <1>2, <1>6, <1>9 DEF IInv, AlwaysAnOwner, Owners, RowsNeedOrganization

\* Revoke and accept change the status of one pending row.
LEMMA StatusCommit ==
    ASSUME IInv, NEW w \in StatusWrite, Pending(w.invitation), Commits(w)
    PROVE  /\ invitations' \in [Invitations -> Invitation \cup {Unused}]
           /\ \A i \in Invitations \ {w.invitation} : invitations'[i] = invitations[i]
           /\ ~Pending(w.invitation)' /\ Known(w.invitation)' /\ UNCHANGED names
<1> DEFINE i == w.invitation
           as == IF w.op = "revoke" THEN "revoked" ELSE "accepted"
           row == [invitations[i] EXCEPT !.status = as]
<1>1. w.op \in {"revoke", "accept"} /\ w.invitation \in Invitations
  BY DEF StatusWrite
<1>2. invitations' = [invitations EXCEPT ![i] = row] /\ UNCHANGED names
  BY <1>1 DEF Commits
<1>3. row \in Invitation /\ row.status = as
  BY <1>1, PendingIsRow DEF IInv, Invitation
<1>4. row # Unused
  BY <1>3 DEF Unused
<1>5. QED
  BY <1>1, <1>2, <1>3, <1>4 DEF IInv, TypeOK, Pending, Known

LEMMA RevokeCommitKeeps ==
    ASSUME IInv, NEW w \in StatusWrite, w.op = "revoke", ValidRevoke(w), founded, Commits(w),
           UNCHANGED founded
    PROVE  /\ members' = members
           /\ AlwaysAnOwner' /\ PendingNotMember' /\ RowsNeedOrganization'
<1>1. members' = members
  BY DEF Commits
<1>2. Pending(w.invitation)
  BY DEF ValidRevoke
<1>3. PendingNotMember'
  BY <1>1, <1>2, StatusCommit DEF IInv, PendingNotMember, Pending
<1>4. QED
  BY <1>1, <1>3 DEF IInv, AlwaysAnOwner, Owners, RowsNeedOrganization

LEMMA AcceptCommitKeeps ==
    ASSUME IInv, NEW w \in StatusWrite, w.op = "accept", ValidAccept(w), founded, Commits(w),
           UNCHANGED founded
    PROVE  /\ members' = [members EXCEPT ![w.by] = invitations[w.invitation].role]
           /\ invitations[w.invitation].role \in Role /\ w.by \in Users
           /\ AlwaysAnOwner' /\ PendingNotMember' /\ RowsNeedOrganization'
<1> DEFINE role == invitations[w.invitation].role
<1>1. w.by \in Users /\ w.invitation \in Invitations
  BY DEF StatusWrite
<1>2. members' = [members EXCEPT ![w.by] = role]
  BY DEF Commits
<1>3. Pending(w.invitation) /\ invitations[w.invitation].email = Folded[w.by] /\ members[w.by] = "none"
  BY DEF ValidAccept
<1>4. role \in Role
  BY <1>1, <1>3, PendingIsRow, RolesAssumption DEF IInv, Invitation, Role
<1>5. members \in [Users -> Role \cup {"none"}]
  BY DEF IInv, TypeOK
<1>6. AlwaysAnOwner'
  BY <1>1, <1>2, <1>3, <1>5 DEF IInv, AlwaysAnOwner, Owners
<1>7. PendingNotMember'
  BY <1>1, <1>2, <1>3, <1>5, StatusCommit DEF IInv, PendingNotMember, Pending
<1>8. QED
  BY <1>1, <1>2, <1>4, <1>6, <1>7 DEF RowsNeedOrganization

LEMMA CommitKeeps ==
    ASSUME IInv, NEW q \in Requests, Commit(q)
    PROVE  IInv'
<1> DEFINE w == staged[q]
<1>1. /\ w # NoWrite /\ Commits(w) /\ UNCHANGED founded
      /\ staged' = [staged EXCEPT ![q] = NoWrite] /\ lock' = lock \ {q}
  BY DEF Commit
<1>2. Valid(w) /\ founded
  BY <1>1 DEF IInv, StagedValid, Valid
<1>3. OneWriter' /\ StagedValid'
  BY <1>1, EndFreesLock
<1>4. staged' \in [Requests -> Write \cup {NoWrite}] /\ lock' \subseteq Requests /\ founded' \in BOOLEAN
  BY <1>1 DEF IInv, TypeOK
<1>5. CASE w.op = "member"
  <2>1. w \in MemberWrite /\ ValidMember(w)
    BY <1>2, <1>5, WriteFields DEF IInv, Valid
  <2>2. QED
    BY <1>1, <1>2, <1>3, <1>4, <2>1, MemberCommitKeeps DEF IInv, TypeOK
<1>6. CASE w.op = "invite"
  <2>1. w \in InviteWrite /\ ValidInvite(w)
    BY <1>2, <1>6, WriteFields DEF IInv, Valid
  <2>2. QED
    BY <1>1, <1>2, <1>3, <1>4, <2>1, InviteCommitKeeps DEF IInv, TypeOK
<1>7. CASE w.op = "revoke"
  <2>1. w \in StatusWrite /\ ValidRevoke(w) /\ Pending(w.invitation)
    BY <1>2, <1>7, WriteFields DEF IInv, Valid, ValidRevoke
  <2>2. QED
    BY <1>1, <1>2, <1>3, <1>4, <1>7, <2>1, RevokeCommitKeeps, StatusCommit DEF IInv, TypeOK
<1>8. CASE w.op = "accept"
  <2>1. w \in StatusWrite /\ ValidAccept(w) /\ Pending(w.invitation)
    BY <1>2, <1>8, WriteFields DEF IInv, Valid, ValidAccept
  <2>2. members' \in [Users -> Role \cup {"none"}] /\ AlwaysAnOwner' /\ PendingNotMember'
        /\ RowsNeedOrganization'
    BY <1>1, <1>2, <1>8, <2>1, AcceptCommitKeeps DEF IInv, TypeOK
  <2>3. QED
    BY <1>1, <1>3, <1>4, <2>1, <2>2, StatusCommit DEF IInv, TypeOK
<1>9. CASE w.op = "name"
  <2>1. w.permission \in {"manage", "own"} /\ w.by \in Users
    BY <1>9, WriteFields DEF IInv, NameWrite
  <2>2. UNCHANGED <<members, invitations>> /\ names' \subseteq {"manage", "own"} \X Users
    BY <1>1, <1>9, <2>1 DEF Commits, IInv, TypeOK
  <2>3. QED
    BY <1>1, <1>3, <1>4, <2>2
    DEF IInv, TypeOK, AlwaysAnOwner, Owners, PendingNotMember, Pending, RowsNeedOrganization, Known
<1>10. QED
  BY <1>1, <1>5, <1>6, <1>7, <1>8, <1>9, WriteFields DEF IInv

-----------------------------------------------------------------------------

LEMMA InitHolds == Init => IInv
<1> SUFFICES ASSUME Init PROVE IInv
  OBVIOUS
<1>1. TypeOK
  <2>1. members \in [Users -> Role \cup {"none"}] /\ founded \in BOOLEAN
    BY DEF Init, Migrated, Role
  <2>2. QED
    BY <2>1 DEF Init, TypeOK
<1>2. AlwaysAnOwner
  <2>1. CASE founded = FALSE
    BY <2>1 DEF AlwaysAnOwner
  <2>2. CASE \E u \in Users : Migrated(u)
    <3>1. PICK u \in Users : Migrated(u)
      BY <2>2
    <3>2. u \in Owners
      BY <3>1 DEF Migrated, Owners
    <3>3. QED
      BY <3>2 DEF AlwaysAnOwner
  <2>3. QED
    BY <2>1, <2>2 DEF Init
<1>3. OneWriter /\ StagedValid
  BY DEF Init, OneWriter, StagedValid
<1>4. RowsNeedOrganization /\ PendingNotMember
  BY DEF Init, Migrated, RowsNeedOrganization, PendingNotMember, Known, Pending, Unused
<1>5. QED
  BY <1>1, <1>2, <1>3, <1>4 DEF IInv

LEMMA StutterKeeps == IInv /\ UNCHANGED vars => IInv'
<1> SUFFICES ASSUME IInv, UNCHANGED vars PROVE IInv'
  OBVIOUS
<1>1. TypeOK' /\ OneWriter' /\ AlwaysAnOwner' /\ PendingNotMember' /\ RowsNeedOrganization'
  BY DEF vars, IInv, TypeOK, OneWriter, AlwaysAnOwner, Owners, PendingNotMember, Pending,
         RowsNeedOrganization, Known
<1>2. StagedValid'
  BY DEF vars, IInv, StagedValid, Valid, ValidMember, ValidInvite, ValidRevoke, ValidAccept,
         Owners, Known, Replaced, NoMemberAt, Pending
<1>3. QED
  BY <1>1, <1>2 DEF IInv

\* What the lock protects, in every reachable state: the invariant every
\* theorem below rests on.
THEOREM Invariant == Spec => []IInv
<1>1. IInv /\ [Next]_vars => IInv'
  <2> SUFFICES ASSUME IInv, [Next]_vars PROVE IInv'
    OBVIOUS
  <2>1. ASSUME NEW u \in Users, CreateOrganization(u) PROVE IInv'
    BY <2>1, CreateKeeps
  <2>2. ASSUME NEW i \in Invitations, Expires(i) PROVE IInv'
    BY <2>2, ExpiryKeeps
  <2>3. ASSUME NEW q \in Requests, Begin(q) \/ Commit(q) \/ Rollback(q) PROVE IInv'
    BY <2>3, BeginKeeps, CommitKeeps, RollbackKeeps
  <2>4. CASE UNCHANGED vars
    BY <2>4, StutterKeeps
  <2>5. QED
    BY <2>1, <2>2, <2>3, <2>4 DEF Next
<1>2. QED
  BY <1>1, InitHolds, PTL DEF Spec

\* Rows of invitations are complete and requests work on rows that exist.
THEOREM TypeCorrect == Spec => []TypeOK
BY Invariant, PTL DEF IInv

\* However many members leave, are removed or demoted at once, an owner stays.
THEOREM OwnerStays == Spec => []AlwaysAnOwner
BY Invariant, PTL DEF IInv

\* No address has two invitations waiting, and no member whose address both
\* conversions write alike has one.
THEOREM NobodyInvitedTwice == Spec => []PendingNotMember
BY Invariant, PTL DEF IInv

\* No transaction is refused by a unique constraint of the tables.
THEOREM CommitsNeverConflict == Spec => []NoConflictAtCommit
<1>1. IInv => NoConflictAtCommit
  <2> SUFFICES ASSUME IInv, NEW q \in Requests, staged[q] # NoWrite
               PROVE  ~Conflicts(staged[q])
    BY DEF NoConflictAtCommit
  <2>1. Valid(staged[q])
    BY DEF IInv, StagedValid
  <2>2. QED
    BY <2>1 DEF Conflicts, Valid, ValidAccept, ValidInvite, Replaced
<1>2. QED
  BY <1>1, Invariant, PTL

-----------------------------------------------------------------------------
(* Tenants implements Membership.                                          *)

\* The abstract specification brings its own copy of the role vocabulary.
LEMMA SameRoles ==
    /\ M!Role = Role
    /\ \A a, b : (M!MayManage(a, b) <=> MayManage(a, b)) /\ (M!Permitted(a, b) <=> Permitted(a, b))
BY DEF M!Role, Role, M!MayManage, MayManage, M!Permitted, Permitted,
       M!ROLE_PERMISSIONS, ROLE_PERMISSIONS

LEMMA OfferIn ==
    ASSUME TypeOK, NEW i \in Invitations, Pending(i)
    PROVE  OfferOf(i) \in Offers /\ OfferOf(i) \in M!Offer
<1>1. invitations[i] \in Invitation
  BY PendingIsRow
<1>2. QED
  BY <1>1 DEF Offers, OfferOf, M!Offer, Invitation

LEMMA MemberCommitImplements ==
    ASSUME IInv, IInv', NEW w \in MemberWrite, ValidMember(w), founded, Commits(w), UNCHANGED founded
    PROVE  M!Next
<1>1. w.op = "member" /\ w.by \in Users /\ w.user \in Users /\ w.role \in Role \cup {"none"}
  BY DEF MemberWrite
<1>2. members' = [members EXCEPT ![w.user] = w.role] /\ UNCHANGED <<founded, invitations, names>>
  BY <1>1 DEF Commits
<1>3. M!HasOwner(members')
  BY DEF IInv, AlwaysAnOwner, Owners, M!HasOwner, MemberCommitKeeps
<1>4. M!Change(w.by, w.user, w.role)
  BY <1>2, <1>3, SameRoles DEF M!Change, ValidMember, Offers, OfferOf, Pending, Known
<1>5. QED
  BY <1>1, <1>4, SameRoles DEF M!Next

LEMMA InviteCommitImplements ==
    ASSUME IInv, NEW w \in InviteWrite, ValidInvite(w), Commits(w), UNCHANGED founded
    PROVE  M!Next
<1> DEFINE o == [id |-> w.invitation, email |-> w.email, role |-> w.role]
           replaced(i) == [invitations[i] EXCEPT !.status = "revoked"]
<1>1. /\ w.op = "invite" /\ w.by \in Users /\ w.email \in Emails /\ w.role \in InvitedRoles
      /\ w.invitation \in Invitations
  BY DEF InviteWrite
<1>2. /\ invitations' = [i \in Invitations |->
            IF i = w.invitation THEN NewRow(w)
            ELSE IF i \in w.previous THEN replaced(i) ELSE invitations[i]]
      /\ UNCHANGED <<founded, members, names>>
  BY <1>1 DEF Commits
<1>3. /\ NewRow(w).status = "pending" /\ NewRow(w).email = w.email /\ NewRow(w).role = w.role
      /\ NewRow(w) # Unused
  BY DEF NewRow, Unused
<1>4. w.previous = {p \in Invitations : Pending(p) /\ invitations[p].email = w.email}
      /\ ~Pending(w.invitation)
  BY <1>1, PendingIsRow DEF ValidInvite, Replaced, IInv
<1>5. \A i \in w.previous : replaced(i).status = "revoked" /\ Known(i) /\ replaced(i) # Unused
  <2>1. SUFFICES ASSUME NEW i \in w.previous
                 PROVE  replaced(i).status = "revoked" /\ Known(i) /\ replaced(i) # Unused
    OBVIOUS
  <2>2. invitations[i] \in Invitation /\ Known(i)
    BY <1>4, PendingIsRow DEF IInv
  <2>3. replaced(i) \in Invitation /\ replaced(i).status = "revoked"
    BY <2>2 DEF Invitation
  <2>4. QED
    BY <2>2, <2>3 DEF Unused
<1>6. /\ OfferOf(w.invitation)' = o /\ Pending(w.invitation)'
      /\ \A i \in Invitations \ {w.invitation} :
            Pending(i)' => Pending(i) /\ invitations[i].email # w.email /\ OfferOf(i)' = OfferOf(i)
  BY <1>1, <1>2, <1>3, <1>4, <1>5 DEF OfferOf, Pending
<1>7. Offers' = {p \in Offers : p.email # w.email} \cup {o}
  <2>1. \A i \in Invitations : OfferOf(i).email = invitations[i].email
    BY DEF OfferOf
  <2>2. ASSUME NEW x \in Offers' PROVE x = o \/ (x \in Offers /\ x.email # w.email)
    <3>1. PICK i \in Invitations : Pending(i)' /\ x = OfferOf(i)'
      BY <2>2 DEF Offers
    <3>2. CASE i = w.invitation
      BY <1>6, <3>1, <3>2
    <3>3. CASE i # w.invitation
      BY <1>6, <2>1, <3>1, <3>3 DEF Offers
    <3>4. QED
      BY <3>2, <3>3
  <2>3. ASSUME NEW x \in Offers, x.email # w.email PROVE x \in Offers'
    <3>1. PICK i \in Invitations : Pending(i) /\ x = OfferOf(i)
      BY DEF Offers
    <3>2. i # w.invitation /\ invitations[i].email # w.email
      BY <1>4, <2>1, <2>3, <3>1
    <3>3. Pending(i)' /\ OfferOf(i)' = x
      BY <1>2, <1>4, <1>6, <3>1, <3>2 DEF Pending
    <3>4. QED
      BY <3>3 DEF Offers
  <2>4. o \in Offers'
    BY <1>1, <1>6 DEF Offers
  <2>5. QED
    BY <2>2, <2>3, <2>4
<1>8. {i \in Invitations : Known(i)}' = {i \in Invitations : Known(i)} \cup {w.invitation}
  BY <1>1, <1>2, <1>3, <1>5 DEF Known
<1>9. \A p \in Offers : p.email = w.email => MayManage(members[w.by], p.role)
  BY DEF Offers, OfferOf, ValidInvite, Replaced
<1>10. M!Make(w.by, o)
  BY <1>2, <1>7, <1>8, <1>9, SameRoles DEF M!Make, ValidInvite, NoMemberAt
<1>11. o \in M!Offer
  BY <1>1 DEF M!Offer
<1>12. QED
  BY <1>1, <1>10, <1>11 DEF M!Next

\* The offer of a row that is no longer pending is gone, the others stay.
LEMMA StatusCommitCloses ==
    ASSUME IInv, NEW w \in StatusWrite, Pending(w.invitation), Commits(w)
    PROVE  /\ Offers' = Offers \ {OfferOf(w.invitation)}
           /\ {i \in Invitations : Known(i)}' = {i \in Invitations : Known(i)}
<1>1. w.invitation \in Invitations
  BY DEF StatusWrite
<1>2. Known(w.invitation)
  BY <1>1, PendingIsRow DEF IInv
<1>3. \A i \in Invitations \ {w.invitation} :
         (Pending(i)' <=> Pending(i)) /\ (Known(i)' <=> Known(i)) /\ OfferOf(i)' = OfferOf(i)
  BY StatusCommit DEF Pending, Known, OfferOf
<1>4. \A i \in Invitations \ {w.invitation} : OfferOf(i) # OfferOf(w.invitation)
  <2>1. \A i \in Invitations : OfferOf(i).id = i
    BY DEF OfferOf
  <2>2. QED
    BY <1>1, <2>1
<1>5. Offers' = Offers \ {OfferOf(w.invitation)}
  BY <1>1, <1>3, <1>4, StatusCommit DEF Offers
<1>6. QED
  BY <1>1, <1>2, <1>3, <1>5, StatusCommit

LEMMA CommitImplements ==
    ASSUME IInv, NEW q \in Requests, Commit(q)
    PROVE  M!Next
<1> DEFINE w == staged[q]
<1>1. w # NoWrite /\ Commits(w) /\ UNCHANGED founded
  BY DEF Commit
<1>2. Valid(w) /\ founded
  BY <1>1 DEF IInv, StagedValid, Valid
<1>3. IInv'
  BY CommitKeeps
<1>4. CASE w.op = "member"
  BY <1>1, <1>2, <1>3, <1>4, WriteFields, MemberCommitImplements DEF IInv, Valid
<1>5. CASE w.op = "invite"
  BY <1>1, <1>2, <1>5, WriteFields, InviteCommitImplements DEF IInv, Valid
<1>6. CASE w.op = "revoke"
  <2>1. w \in StatusWrite /\ ValidRevoke(w) /\ Pending(w.invitation)
    BY <1>2, <1>6, WriteFields DEF IInv, Valid, ValidRevoke
  <2>2. w.by \in Users /\ w.invitation \in Invitations
    BY <2>1 DEF StatusWrite
  <2>3. members' = members /\ names' = names
    BY <1>1, <1>6 DEF Commits
  <2>4. M!Withdraw(w.by, OfferOf(w.invitation))
    BY <1>1, <2>1, <2>3, StatusCommitCloses, SameRoles DEF M!Withdraw, ValidRevoke, OfferOf
  <2>5. QED
    BY <2>1, <2>2, <2>4, OfferIn DEF M!Next, IInv
<1>7. CASE w.op = "accept"
  <2>1. w \in StatusWrite /\ ValidAccept(w) /\ Pending(w.invitation)
    BY <1>2, <1>7, WriteFields DEF IInv, Valid, ValidAccept
  <2>2. w.invitation \in Invitations
    BY <2>1 DEF StatusWrite
  <2>3. members' = [members EXCEPT ![w.by] = invitations[w.invitation].role] /\ names' = names
    BY <1>1, <1>7 DEF Commits
  <2>4. OfferOf(w.invitation) \in Offers
    BY <2>1, <2>2, OfferIn DEF IInv
  <2>5. M!Join(w.by, OfferOf(w.invitation))
    BY <1>1, <2>1, <2>3, <2>4, StatusCommitCloses DEF M!Join, ValidAccept, OfferOf
  <2>6. w.by \in Users
    BY <2>1 DEF StatusWrite
  <2>7. QED
    BY <2>4, <2>5, <2>6 DEF M!Next
<1>8. CASE w.op = "name"
  <2>1. w.permission \in {"manage", "own"} /\ w.by \in Users
    BY <1>8, WriteFields DEF IInv, NameWrite
  <2>2. Permitted(members[w.by], w.permission)
    BY <1>2, <1>8 DEF Valid
  <2>3. UNCHANGED <<members, invitations>>
        /\ names' = {n \in names : n[1] # w.permission} \cup {<<w.permission, w.by>>}
    BY <1>1, <1>8 DEF Commits
  <2>4. M!Configure(w.by, w.permission)
    BY <1>1, <2>2, <2>3, SameRoles DEF M!Configure, Offers, OfferOf, Pending, Known
  <2>5. QED
    BY <2>1, <2>4 DEF M!Next
<1>9. QED
  BY <1>1, <1>4, <1>5, <1>6, <1>7, <1>8, WriteFields DEF IInv

\* Every act on an organization is authorised at the moment it commits.
THEOREM TenantsImplementMembership == Spec => ImplementsMembership
<1>1. Init => M!Init
  BY DEF Init, Migrated, M!Init, Offers, Pending, Known, Unused
<1>2. IInv /\ [Next]_vars => [M!Next]_(M!membershipVars)
  <2> SUFFICES ASSUME IInv, [Next]_vars PROVE [M!Next]_(M!membershipVars)
    OBVIOUS
  <2>1. ASSUME NEW u \in Users, CreateOrganization(u) PROVE M!Next
    <3>1. M!Found(u)
      BY <2>1 DEF CreateOrganization, M!Found, Offers, OfferOf, Pending, Known
    <3>2. QED
      BY <3>1 DEF M!Next
  <2>2. ASSUME NEW i \in Invitations, Expires(i) PROVE UNCHANGED M!membershipVars
    <3> DEFINE row == [invitations[i] EXCEPT !.expired = TRUE]
    <3>1. invitations[i] \in Invitation /\ row \in Invitation
      BY <2>2, PendingIsRow DEF Expires, IInv, Invitation
    <3>2. invitations' = [invitations EXCEPT ![i] = row]
      BY <2>2 DEF Expires
    <3>3. /\ row.status = invitations[i].status /\ row.email = invitations[i].email
          /\ row.role = invitations[i].role /\ row # Unused /\ invitations[i] # Unused
      BY <3>1 DEF Invitation, Unused
    <3>4. ASSUME NEW j \in Invitations
          PROVE  (Pending(j)' <=> Pending(j)) /\ (Known(j)' <=> Known(j)) /\ OfferOf(j)' = OfferOf(j)
      <4>1. CASE j = i
        BY <3>2, <3>3, <4>1 DEF IInv, TypeOK, Pending, Known, OfferOf
      <4>2. CASE j # i
        BY <3>2, <4>2 DEF IInv, TypeOK, Pending, Known, OfferOf
      <4>3. QED
        BY <4>1, <4>2
    <3>5. Offers' = Offers /\ {j \in Invitations : Known(j)}' = {j \in Invitations : Known(j)}
      BY <3>4 DEF Offers
    <3>6. QED
      BY <2>2, <3>5 DEF Expires, M!membershipVars
  <2>3. ASSUME NEW q \in Requests, Begin(q) \/ Rollback(q) PROVE UNCHANGED M!membershipVars
    BY <2>3 DEF Begin, ChangeMember, Invite, Revoke, Accept, Rename, Stages, Rollback,
                M!membershipVars, Offers, OfferOf, Pending, Known
  <2>4. CASE UNCHANGED vars
    BY <2>4 DEF vars, M!membershipVars, Offers, OfferOf, Pending, Known
  <2>5. QED
    BY <2>1, <2>2, <2>3, <2>4, CommitImplements DEF Next
<1>3. QED
  BY <1>1, <1>2, Invariant, PTL DEF Spec, ImplementsMembership, M!Spec

=============================================================================
