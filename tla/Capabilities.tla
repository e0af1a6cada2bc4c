---------------------------- MODULE Capabilities ----------------------------
(***************************************************************************)
(* The names of permissions. Tableau knows capabilities, the platform      *)
(* knows the slugs of entitlements; every type of resource has a table     *)
(* that leads from the one to the other, and Grant and Revoke lead back.   *)
(* A slug is a tuple: "Workbook / View" is <<"Workbook", "View">>, "View"  *)
(* is <<"View">>.                                                          *)
(***************************************************************************)
EXTENDS Functions, Sequences

allCapabilitiesMap ==
  [Read               |-> <<"View">>,
   Write              |-> <<"Overwrite">>,
   Delete             |-> <<"Delete">>,
   Filter             |-> <<"Filter">>,
   ViewComments       |-> <<"View Comments">>,
   AddComment         |-> <<"Add Comments">>,
   ExportImage        |-> <<"Download Image/PDF">>,
   ExportData         |-> <<"Download Summary Data">>,
   ShareView          |-> <<"Share Customized">>,
   ViewUnderlyingData |-> <<"Download Full Data">>,
   WebAuthoring       |-> <<"Web Edit">>,
   RunExplainData     |-> <<"Run Explain Data">>,
   ExportXml          |-> <<"Download/Save A Copy">>,
   ExtractRefresh     |-> <<"Extract Refresh">>,
   ChangeHierarchy    |-> <<"Move">>,
   ChangePermissions  |-> <<"Set Permissions">>]

projectCapabilitiesMap == [Write |-> <<"Publish">>]

\* Table f, and where it has no entry table g.
Over(f, g) == [k \in DOMAIN f \cup DOMAIN g |-> IF k \in DOMAIN f THEN f[k] ELSE g[k]]

pickCapabilities(keys) == [k \in keys |-> allCapabilitiesMap[k]]

pickProjectCapabilities(keys) ==
  [k \in keys |-> Over(projectCapabilitiesMap, allCapabilitiesMap)[k]]

projectCapabilities == pickProjectCapabilities({"Read", "Write"})

workbookCapabilities == pickCapabilities(DOMAIN allCapabilitiesMap)

viewCapabilities ==
  pickCapabilities({"Read", "Filter", "ViewComments", "AddComment", "ExportImage",
                    "ExportData", "ShareView", "ViewUnderlyingData", "WebAuthoring",
                    "Delete", "ChangePermissions"})

projectDefaultWorkbookCapabilities ==
  [c \in DOMAIN workbookCapabilities |-> <<"Workbook">> \o workbookCapabilities[c]]

(***************************************************************************)
(* The table of a place where Tableau keeps permissions. A project is two  *)
(* places: its own permissions and the default ones of its workbooks.      *)
(***************************************************************************)
SlugsOf ==
  [project  |-> projectCapabilities,
   default  |-> projectDefaultWorkbookCapabilities,
   workbook |-> workbookCapabilities,
   view     |-> viewCapabilities]

-----------------------------------------------------------------------------
(* The way back. *)

\* A slug of a project stands before one of the same name in the general table.
capabilityByDisplaySlug ==
  Over(AntiFunction(projectCapabilitiesMap), AntiFunction(allCapabilitiesMap))

capabilityByWorkbookDefaultSlug == AntiFunction(projectDefaultWorkbookCapabilities)

isDefaultWorkbookSlug(slug) == slug \in DOMAIN capabilityByWorkbookDefaultSlug

\* What grantPermission and revokePermission ask Tableau for: a slug that no
\* table knows goes out as it is.
CapabilityOf(slug) ==
  IF isDefaultWorkbookSlug(slug) THEN capabilityByWorkbookDefaultSlug[slug]
  ELSE IF slug \in DOMAIN capabilityByDisplaySlug THEN capabilityByDisplaySlug[slug]
  ELSE slug

(* Every entitlement of a permission is a way back to the capability it was made
   for, and to the right one of a project's two places: a slug that two tables share
   must mean the same in both, for Grant and Revoke do not know which it is from. *)
EverySlugLeadsBack ==
  \A place \in DOMAIN SlugsOf : \A cap \in DOMAIN SlugsOf[place] :
    LET slug == SlugsOf[place][cap]
    IN  CapabilityOf(slug) = cap /\ (isDefaultWorkbookSlug(slug) <=> place = "default")
=============================================================================
