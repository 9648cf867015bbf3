----------------------------- MODULE MCTenants -----------------------------
(* Small instances of Tenants for TLC: the address of "sharp" has a sharp s, *)
(* which casefold() writes as the "ss" in the address of "plain".            *)
EXTENDS Tenants, TLC

MCUsers   == {"ann", "plain", "sharp"}
MCEmails  == {"ann@x", "strasse@x", "sharp-s@x"}
MCLowered == "ann" :> "ann@x" @@ "plain" :> "strasse@x" @@ "sharp" :> "sharp-s@x"
MCFolded  == [MCLowered EXCEPT !["sharp"] = "strasse@x"]

TenantSymmetry == Permutations(Requests) \cup Permutations(Invitations)

=============================================================================
