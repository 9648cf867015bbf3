-------------------------------- MODULE Roles --------------------------------
(***************************************************************************)
(* The role vocabulary of app/domain.py and the two role checks every      *)
(* operation on an organization goes through.  A user who is not a member  *)
(* has the role "none".                                                    *)
(***************************************************************************)

Role == {"owner", "admin", "member", "viewer"}

ROLE_PERMISSIONS ==
    [role \in Role |->
        CASE role = "owner"  -> {"read", "edit", "manage", "own"}
          [] role = "admin"  -> {"read", "edit", "manage"}
          [] role = "member" -> {"read", "edit"}
          [] role = "viewer" -> {"read"}]

\* require_role for a membership that exists; without one organization_for
\* answers as if the organization did not exist.
Permitted(role, permission) ==
    role \in Role /\ permission \in ROLE_PERMISSIONS[role]

\* require_manage_role: an owner manages every role, an admin only the
\* members and viewers.
MayManage(actor, role) ==
    actor = "owner" \/ (actor = "admin" /\ role \notin {"owner", "admin"})

=============================================================================
