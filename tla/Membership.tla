------------------------------ MODULE Membership ------------------------------
(***************************************************************************)
(* What an organization promises its members: nobody gains, loses or       *)
(* changes a role but by the act of someone whose role, at that moment,    *)
(* allows it, or by taking up an offer that is still open; every offer is  *)
(* taken up or withdrawn once; and there is always an owner.  Here every   *)
(* act is a single step.                                                   *)
(***************************************************************************)
EXTENDS Roles

CONSTANTS Users, Invitations, InvitedRoles,
          Emails,    \* the addresses
          Lowered,   \* the address each user counts as a member under
          Folded     \* the address each user may take up an offer under

VARIABLES founded,   \* the organization exists
          roleOf,    \* the role of each user, or "none"
          offers,    \* the open invitations
          spent,     \* the invitations that were ever made
          setBy      \* who last changed each of the organization's settings

membershipVars == <<founded, roleOf, offers, spent, setBy>>

Offer == [id : Invitations, email : Emails, role : InvitedRoles]

HasOwner(roles) == \E u \in Users : roles[u] = "owner"

Init == /\ \/ founded = FALSE /\ roleOf = [u \in Users |-> "none"]
           \/ /\ founded = TRUE
              /\ \E u \in Users : roleOf = [v \in Users |-> IF v = u THEN "owner" ELSE "none"]
        /\ offers = {} /\ spent = {} /\ setBy = {}

Found(u) == /\ ~founded /\ founded'
            /\ roleOf' = [roleOf EXCEPT ![u] = "owner"]
            /\ UNCHANGED <<offers, spent, setBy>>

\* A member leaves, or someone with the power over both roles changes one.
Change(a, u, role) ==
    /\ roleOf[a] \in Role /\ roleOf[u] \in Role
    /\ \/ a = u /\ role = "none"
       \/ MayManage(roleOf[a], roleOf[u]) /\ (role = "none" \/ MayManage(roleOf[a], role))
    /\ roleOf' = [roleOf EXCEPT ![u] = role]
    /\ HasOwner(roleOf')
    /\ UNCHANGED <<founded, offers, spent, setBy>>

\* A new offer takes the place of the open offer to the same address; one to
\* an address under which someone counts as a member is refused.
Make(a, o) ==
    /\ Permitted(roleOf[a], "manage") /\ MayManage(roleOf[a], o.role)
    /\ (\A u \in Users : Lowered[u] = o.email => roleOf[u] = "none")
    /\ o.id \notin spent
    /\ \A p \in offers : p.email = o.email => MayManage(roleOf[a], p.role)
    /\ offers' = {p \in offers : p.email # o.email} \cup {o}
    /\ spent' = spent \cup {o.id}
    /\ UNCHANGED <<founded, roleOf, setBy>>

Withdraw(a, o) ==
    /\ Permitted(roleOf[a], "manage") /\ MayManage(roleOf[a], o.role)
    /\ offers' = offers \ {o}
    /\ UNCHANGED <<founded, roleOf, spent, setBy>>

Join(u, o) == /\ o \in offers /\ Folded[u] = o.email /\ roleOf[u] = "none"
              /\ roleOf' = [roleOf EXCEPT ![u] = o.role]
              /\ offers' = offers \ {o}
              /\ UNCHANGED <<founded, spent, setBy>>

Configure(a, permission) ==
    /\ Permitted(roleOf[a], permission)
    /\ setBy' = {s \in setBy : s[1] # permission} \cup {<<permission, a>>}
    /\ UNCHANGED <<founded, roleOf, offers, spent>>

Next == \/ \E u \in Users : Found(u)
        \/ \E a, u \in Users, role \in Role \cup {"none"} : Change(a, u, role)
        \/ \E a \in Users, o \in Offer : Make(a, o) \/ Withdraw(a, o)
        \/ \E u \in Users, o \in offers : Join(u, o)
        \/ \E a \in Users, permission \in {"manage", "own"} : Configure(a, permission)

Spec == Init /\ [][Next]_membershipVars

=============================================================================
