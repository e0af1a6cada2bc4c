---------------------------- MODULE MCAccessSync ----------------------------
(***************************************************************************)
(* Small instances of AccessSync for TLC: a project within a project, and  *)
(* in it a workbook with a view.                                           *)
(***************************************************************************)
EXTENDS AccessSync

\* All the tables lead back, not just what an instance takes of them.
ASSUME TablesLeadBack == EverySlugLeadsBack

MCParent == [p \in Projects |-> IF p = "inner" THEN "outer" ELSE "none"]
MCHome   == [w \in Workbooks |-> "inner"]
MCBook   == [v \in Views |-> CHOOSE w \in Workbooks : TRUE]

\* Read is a capability of every place; Write has two names, and is none of a
\* view's; RunExplainData is one of workbooks only.
MCCaps == {"Read", "Write", "RunExplainData"}

\* What is not a permission, but for the lock of the outer project, which holds no workbook.
MCOthers == Others \ {LockFact("outer")}

\* What concerns the inner project, and the Read permissions of the group on it.
Inner == {<<"project", "inner">>, <<"default", "inner">>} \cup ({"workbook"} \X Workbooks)
           \cup ({"view"} \X Views)

Read(type) == {r \in Rules : r.cap = "Read" /\ r.mode = "Allow" /\ r.to[1] = type}

MCVolatile == {r \in Read("group") : r.at \in Inner} \cup MCOthers

\* A capability for each table.
MCAsked ==
  {<<EntitlementOf(r.at, r.cap), r.to>> :
     r \in {q \in Rules : /\ q.at \in Inner /\ q.to[1] = "user"
                          /\ <<q.at[1], q.cap>> \in {<<"project", "Write">>, <<"default", "Read">>,
                                    <<"workbook", "RunExplainData">>, <<"view", "Read">>}}}

\* One permission at most: of the group to Read, under any membership (a user has one
\* role), lock and tabs, or of the user, under the fullest of these or all but one.
MCInitialFacts ==
  LET memberships == {S \in SUBSET MCOthers : \A f, g \in S : f.at = g.at => f = g}
      fullest     == {S \in memberships : Cardinality(S) >= 2}
  IN  {R \cup S : R \in {{}} \cup {{r} : r \in Read("group")}, S \in memberships}
        \cup {{r} \cup S : r \in {q \in Rules : q.to[1] = "user"}, S \in fullest}

\* Bound: reads are made in one order when the order is all the same, for their responses
\* are cached or nothing changes any more, and in the sync that follows a failed one.
InTurn ==
  LET ready == {u \in todo : u[1] = "view" => Details(Book[u[2]]) \in DOMAIN cache}
      sure  == {u \in ready : u \in DOMAIN cache \/ changes = MaxChanges \/ fails > 0}
  IN  phase = "grants" /\ phase' = "grants" /\ todo' # todo /\ sure # {}
        => (CHOOSE u \in sure : TRUE) \notin todo'
=============================================================================
