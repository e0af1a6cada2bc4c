---------------------------- MODULE RoleContract ----------------------------
(***************************************************************************)
(* What the connector promises the platform about one task on a site role  *)
(* or a license, without requests, answers or retries.  Two kinds of       *)
(* entitlements stand before one register per user, so TaskContract cannot *)
(* be kept: a task that is given one entitlement takes another away.       *)
(*                                                                         *)
(*  - A task changes nothing but the site role of its user, and that only  *)
(*    to one with which it has reached its goal.  It may do so again after *)
(*    it has ended, unless it is over: then it never does.                 *)
(*  - It reports success only if its goal held at some instant between its *)
(*    start and its report.                                                *)
(*                                                                         *)
(* A revoke of Unlicensed is excepted by name: it is asked for in vain.    *)
(***************************************************************************)
EXTENDS Licensing

CONSTANTS Tasks, Users,
          Jobs     \* what the platform may ask for: [verb, kind, user, what]

VARIABLES role,    \* Tableau: every user's site role, "none" for who is not on the site
          job,     \* the job of every task
          met,     \* history: tasks whose goal held at some instant since they started
          alone,   \* history: started tasks whose user's role only they have set since
          over,    \* tasks that have ended and will not write any more
          result   \* "none", "success" or "failure"

vars == <<role, job, met, alone, over, result>>

\* The job of a task the platform has not sent yet.
NoJob == [verb |-> "none"]

Started == {t \in Tasks : job[t] # NoJob}

\* User u gets one of the roles in S.
Set(u, S) == \E s \in S : role' = [role EXCEPT ![u] = s]

\* The roles a task may set.
Aim(j) == IF InVain(j) THEN {"Unlicensed"} ELSE Goal(j) \cap roles

\* History of a step that leaves user u with role'[u], set by the tasks in writers.
Observe(u, writers) ==
  /\ met' = met \cup {t \in Started : job[t].user = u /\ role'[u] \in Goal(job[t])}
  /\ alone' = {t \in alone : job[t].user # u \/ role'[u] = role[u] \/ t \in writers}
-----------------------------------------------------------------------------
Init ==
  /\ role \in [Users -> roles \cup {"none"}]
  /\ job = [t \in Tasks |-> NoJob]
  /\ met = {} /\ alone = {} /\ over = {}
  /\ result = [t \in Tasks |-> "none"]

\* The platform hands task t the job j.
Start(t, j) ==
  /\ job[t] = NoJob
  /\ job' = [job EXCEPT ![t] = j]
  /\ met' = IF role[j.user] \in Goal(j) THEN met \cup {t} ELSE met
  /\ alone' = alone \cup {t}
  /\ UNCHANGED <<role, over, result>>

\* Task t sets the role of its user, also after it has ended.
Write(t) ==
  /\ t \in Started \ over
  /\ Set(job[t].user, Aim(job[t]))
  /\ Observe(job[t].user, {t})
  /\ UNCHANGED <<job, over, result>>

\* Task t reports to the platform, and may be through with writing then.
Finish(t, r) ==
  /\ t \in Started
  /\ result[t] = "none"
  /\ r = "success" => t \in met \/ InVain(job[t])
  /\ result' = [result EXCEPT ![t] = r]
  /\ over' \in {over, over \cup {t}}
  /\ UNCHANGED <<role, job, met, alone>>

\* Anybody else sets a user's role, adds the user or removes her.
Outside(u) ==
  /\ UNCHANGED <<job, over, result>>
  /\ Set(u, roles \cup {"none"})
  /\ Observe(u, {})

Next ==
  \/ \E u \in Users : Outside(u)
  \/ \E t \in Tasks : Write(t)
  \/ \E t \in Tasks, r \in {"success", "failure"} : Finish(t, r)
  \/ \E t \in Tasks, j \in Jobs : Start(t, j)

Spec == Init /\ [][Next]_vars
=============================================================================
