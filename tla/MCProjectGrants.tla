--------------------------- MODULE MCProjectGrants ---------------------------
(***************************************************************************)
(* Small instances of ProjectGrants for TLC.                               *)
(***************************************************************************)
EXTENDS ProjectGrants

MCWorkbooks == 1 .. 2

\* One project in the other: a cycle then takes two moves.
MCInitialNestings == {[p \in Projects |-> IF p = "inner" THEN "outer" ELSE "none"]}

\* The changes of a behavior: one that is not of the nesting, or two that are.
MCBudgets == {<<1, 0>>, <<0, 2>>}

\* Bound: projects are moved where none is locked, for what is stored of the nesting and
\* handed down with it does not depend on locks, nor the walks of workbooks on the nesting.
Apart == moves' # moves => \A p \in Projects : ~project[p].locked
=============================================================================
