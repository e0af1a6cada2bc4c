---------------------------- MODULE MCLicenseSync ----------------------------
(***************************************************************************)
(* Small instances of LicenseSync for TLC.                                 *)
(***************************************************************************)
EXTENDS LicenseSync, TLC

\* Users are interchangeable.
MCSymmetry == Permutations(Users)
=============================================================================
