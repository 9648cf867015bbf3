\* Three users, two of them with addresses casefold() writes alike, two
\* invitations, two concurrent requests.
SPECIFICATION Spec
CONSTANTS
    Users <- MCUsers
    Emails <- MCEmails
    Lowered <- MCLowered
    Folded <- MCFolded
    Invitations = {i1, i2}
    InvitedRoles = {"admin", "member"}
    Requests = {q1, q2}
SYMMETRY TenantSymmetry
INVARIANTS
    TypeOK
    AlwaysAnOwner
    PendingNotMember
    NoConflictAtCommit
PROPERTIES
    ImplementsMembership
