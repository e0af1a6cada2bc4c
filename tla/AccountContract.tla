--------------------------- MODULE AccountContract ---------------------------
(***************************************************************************)
(* What the connector promises the platform about one task that creates or *)
(* deletes an account, without requests, answers or the choice of a        *)
(* sign-in.                                                                *)
(*                                                                         *)
(*  - A task acts at most once, in one step: it adds a user of the e-mail  *)
(*    it was given, or removes the user it was given.                      *)
(*  - It reports success only after it has acted, and failure only if it   *)
(*    has not acted and never will.                                        *)
(*  - It may also end unsure.  That alone leaves it open whether it has    *)
(*    acted or will, and it may then act at any time.                      *)
(***************************************************************************)
EXTENDS Naturals, FiniteSets

CONSTANTS Tasks, Emails,
          Auths    \* the ways to sign in

VARIABLES users,   \* Tableau: the users of the site, [id, email, auth]
          ever,    \* history: the users there ever were
          job,     \* what every task is to do
          acted,   \* tasks that have acted
          result   \* "none", "success", "failure" or "unsure"

vars == <<users, ever, job, acted, result>>

NoJob == [verb |-> "none"]

\* A user of e-mail e who has not been there before.
Add(e) ==
  \E a \in Auths :
    LET u == [id |-> Cardinality(ever) + 1, email |-> e, auth |-> a] IN
    /\ \A v \in users : v.email # e
    /\ users' = users \cup {u}
    /\ ever' = ever \cup {u}

Remove(u) ==
  /\ u \in users
  /\ users' = users \ {u}
  /\ UNCHANGED ever
-----------------------------------------------------------------------------
Init ==
  /\ users = {} /\ ever = {}
  /\ job = [t \in Tasks |-> NoJob]
  /\ acted = {}
  /\ result = [t \in Tasks |-> "none"]

\* The platform sends task t to add a user, or to remove one it has heard of.
Start(t) ==
  /\ job[t] = NoJob
  /\ \/ \E e \in Emails : job' = [job EXCEPT ![t] = [verb |-> "create", email |-> e]]
     \/ \E u \in ever : job' = [job EXCEPT ![t] = [verb |-> "delete", user |-> u]]
  /\ UNCHANGED <<users, ever, acted, result>>

\* The one effect of task t.
Act(t) ==
  /\ t \notin acted
  /\ result[t] \in {"none", "unsure"}
  /\ \/ job[t].verb = "create" /\ Add(job[t].email)
     \/ job[t].verb = "delete" /\ Remove(job[t].user)
  /\ acted' = acted \cup {t}
  /\ UNCHANGED <<job, result>>

Finish(t, r) ==
  /\ job[t] # NoJob
  /\ result[t] = "none"
  /\ r = "success" => t \in acted
  /\ r = "failure" => t \notin acted
  /\ result' = [result EXCEPT ![t] = r]
  /\ UNCHANGED <<users, ever, job, acted>>

\* Somebody else adds or removes a user.
Outside ==
  /\ (\E e \in Emails : Add(e)) \/ (\E u \in users : Remove(u))
  /\ UNCHANGED <<job, acted, result>>

Next ==
  \/ \E t \in Tasks : Start(t) \/ Act(t)
  \/ \E t \in Tasks, r \in {"success", "failure", "unsure"} : Finish(t, r)
  \/ Outside

Spec == Init /\ [][Next]_vars
=============================================================================
