----------------------------- MODULE MCAccounts -----------------------------
(***************************************************************************)
(* Small instances of Accounts for TLC.                                    *)
(***************************************************************************)
EXTENDS Accounts, TLC

TaskSymmetry == Permutations(Tasks) \cup Permutations(Configs)
=============================================================================
