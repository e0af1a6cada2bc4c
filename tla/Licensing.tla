------------------------------ MODULE Licensing ------------------------------
(***************************************************************************)
(* The tables of pkg/connector/site.go and license.go: which site roles    *)
(* consume which license, which of them Tableau lets nobody assign, which  *)
(* of them its user filter cannot name; and what the two kinds of          *)
(* entitlements mean for a user's role.                                    *)
(***************************************************************************)

licenses == {"Creator", "Explorer", "Viewer", "Unlicensed"}

RolesPerLicense ==
  [Creator    |-> {"Creator", "SiteAdministratorCreator", "ServerAdministrator"},
   Explorer   |-> {"Explorer", "SiteAdministratorExplorer", "ExplorerCanPublish",
                   "SiteAdministrator"},
   Viewer     |-> {"Viewer"},
   Unlicensed |-> {"Unlicensed"}]

roles == UNION {RolesPerLicense[l] : l \in licenses}

nonGrantableRoles == {"ServerAdministrator"}

unsupportedFilterRoles == {"SiteAdministrator"}

\* What a filter for the users of license l names.
filterableRoles(l) == RolesPerLicense[l] \ unsupportedFilterRoles

\* Tableau keeps the legacy role or replaces it by its successor.
Stored(r) == IF r = "SiteAdministrator" THEN {r, "SiteAdministratorExplorer"} ELSE {r}

\* The roles that show a sync the entitlement job j is about.
Showing(j) == IF j.kind = "license" THEN RolesPerLicense[j.what] ELSE Stored(j.what)

\* The roles with which job j has done what it was asked for.
Goal(j) == IF j.verb = "grant" THEN Showing(j) ELSE (roles \cup {"none"}) \ Showing(j)

\* Taking away Unlicensed is asked for in vain: Revoke sets Unlicensed.
InVain(j) == j.verb = "revoke" /\ j.what = "Unlicensed"
=============================================================================
