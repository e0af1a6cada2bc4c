----------------------------- MODULE MCSiteRoles -----------------------------
(***************************************************************************)
(* Small instances of SiteRoles for TLC.                                   *)
(***************************************************************************)
EXTENDS SiteRoles, TLC

\* Tasks are interchangeable.
MCSymmetry == Permutations(Tasks)
=============================================================================
