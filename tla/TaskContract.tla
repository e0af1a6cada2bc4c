---------------------------- MODULE TaskContract ----------------------------
(***************************************************************************)
(* What the connector promises the platform about one provisioning task,   *)
(* a Grant or a Revoke of one permission assignment or group membership,   *)
(* without saying how: no requests, answers, retries or caches.            *)
(*                                                                         *)
(*  - a task changes nothing but the key it was given, and only towards    *)
(*    its goal; it may do so again after it has ended, because a request   *)
(*    whose answer was given up on can be carried out late;                *)
(*  - a task reports success only if its goal held at some instant between *)
(*    its start and its report: README.md's "Granting a permission that    *)
(*    already exists returns success", without ever turning a write that   *)
(*    was refused into a success.                                          *)
(*                                                                         *)
(* Everybody else (Tableau's own users, other connectors, a deletion) may  *)
(* change any key at any time.                                             *)
(***************************************************************************)

CONSTANTS Tasks,   \* the provisioning tasks the platform sends
          Keys     \* <<entitlement, principal>>: what can be assigned

VARIABLES assigned,  \* the keys Tableau holds an assignment for
          job,       \* the job of every task
          met,       \* history: tasks whose goal held at some instant since they started
          alone,     \* history: started tasks whose key nobody else has changed since
          result     \* "none", "success" or "failure"

vars == <<assigned, job, met, alone, result>>

\* The job of a task the platform has not sent yet.
NoJob == [verb |-> "none"]

Jobs == [verb : {"grant", "revoke"}, key : Keys]

Results == {"none", "success", "failure"}

\* The goal of job j holds when A is what Tableau holds.
Achieved(j, A) == (j.key \in A) <=> (j.verb = "grant")

Started == {t \in Tasks : job[t] # NoJob}

\* What the history variables record of a step that leaves Tableau with
\* assigned', made by the tasks in writers: by one, or by none of them.
Observe(writers) ==
  /\ met' = met \cup {t \in Started : Achieved(job[t], assigned')}
  /\ alone' = {t \in alone : \/ t \in writers
                             \/ (job[t].key \in assigned') <=> (job[t].key \in assigned)}
-----------------------------------------------------------------------------
Init ==
  /\ assigned \in SUBSET Keys
  /\ job = [t \in Tasks |-> NoJob]
  /\ met = {}
  /\ alone = {}
  /\ result = [t \in Tasks |-> "none"]

\* The platform hands task t the job j.
Start(t, j) ==
  /\ job[t] = NoJob
  /\ job' = [job EXCEPT ![t] = j]
  /\ met' = IF Achieved(j, assigned) THEN met \cup {t} ELSE met
  /\ alone' = alone \cup {t}
  /\ UNCHANGED <<assigned, result>>

\* A request of task t is carried out, also one that outlived the task.
Write(t) ==
  /\ t \in Started
  /\ assigned' = IF job[t].verb = "grant" THEN assigned \cup {job[t].key}
                                          ELSE assigned \ {job[t].key}
  /\ Observe({t})
  /\ UNCHANGED <<job, result>>

\* Task t reports to the platform; a success only when its goal was met.
Finish(t, r) ==
  /\ t \in Started
  /\ result[t] = "none"
  /\ r = "success" => t \in met
  /\ result' = [result EXCEPT ![t] = r]
  /\ UNCHANGED <<assigned, job, met, alone>>

\* Anything else happens to Tableau.
Outside ==
  /\ assigned' \in SUBSET Keys
  /\ Observe({})
  /\ UNCHANGED <<job, result>>

Next ==
  \/ \E t \in Tasks, j \in Jobs : Start(t, j)
  \/ \E t \in Tasks : Write(t)
  \/ \E t \in Tasks, r \in {"success", "failure"} : Finish(t, r)
  \/ Outside

Spec == Init /\ [][Next]_vars
-----------------------------------------------------------------------------
TypeOK ==
  /\ assigned \subseteq Keys
  /\ job \in [Tasks -> Jobs \cup {NoJob}]
  /\ met \subseteq Started
  /\ alone \subseteq Started
  /\ result \in [Tasks -> Results]

\* A task that reports success had its goal at some instant since it started.
OutcomeIsTrue == \A t \in Tasks : result[t] = "success" => t \in met

\* The goal of a task that met it still holds as long as nobody else touched
\* its key: late duplicates of its own requests cannot undo it.
MetLasts == \A t \in met \cap alone : Achieved(job[t], assigned)

\* So the goal of a task that reported success holds, now and for as long as
\* nobody else touches its key.
Effective ==
  \A t \in alone : result[t] = "success" => Achieved(job[t], assigned)
=============================================================================
