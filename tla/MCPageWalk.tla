----------------------------- MODULE MCPageWalk -----------------------------
(***************************************************************************)
(* A small instance of PageWalk for TLC: up to three items, two a page, so *)
(* that the last page is full or partly full.                              *)
(***************************************************************************)
EXTENDS PageWalk

MCPageSize == 2
=============================================================================
