--------------------------- MODULE MCProvisioning ---------------------------
(***************************************************************************)
(* Small instances of Provisioning for TLC.                                *)
(***************************************************************************)
EXTENDS Provisioning, TLC

CONSTANTS perm, sheet, team, everyone,  \* entitlements
          alice, crew, robot            \* principals

MCKind == [e \in Entitlements |-> CASE e = perm     -> "content"
                                    [] e = sheet    -> "view"
                                    [] e = team     -> "membership"
                                    [] e = everyone -> "allUsers"]

MCPrincipalType == [p \in Principals |-> CASE p = alice -> "user"
                                           [] p = crew  -> "group"
                                           [] p = robot -> "other"]

\* Tasks are interchangeable: no action tells them apart.
MCSymmetry == Permutations(Tasks)
=============================================================================
