------------------------------ MODULE SiteRoles ------------------------------
(***************************************************************************)
(* The Grant and Revoke tasks of site roles and licenses (site.go,         *)
(* license.go): two kinds of entitlements in front of one register per     *)
(* user, the site role.  A license is granted by setting the role of its   *)
(* name and both kinds are revoked by setting Unlicensed, whatever role    *)
(* the user has by then.                                                   *)
(*                                                                         *)
(* Tasks run as in Provisioning: several at once, retried after a          *)
(* retryable error, and a request given up on may be carried out late or   *)
(* never.                                                                  *)
(***************************************************************************)
EXTENDS Naturals, Licensing

CONSTANTS Tasks,      \* provisioning tasks the platform sends
          Users,      \* users of the site, now or at some time
          InPlay,     \* the site roles an instance starts with and asks for
          MaxRetries  \* retry.RetryConfig.MaxAttempts, 3 in the SDK

ASSUME SiteRolesAssumption == MaxRetries \in Nat /\ InPlay \subseteq roles

VARIABLES
  role,    \* Tableau: every user's site role, "none" for who is not on the site
  job,     \* what each task is to do
  phase,   \* "idle", "ready", "waiting" or "done"
  tries,   \* retryable errors so far: Retryer.attempts
  answer,  \* Tableau's answer to the request the task waits on
  outcome, \* what the task reported
  wire,    \* requests that may yet be carried out: [task, try]
  \* history
  met,     \* tasks whose goal held at some instant since they started
  alone,   \* tasks whose user's role only they and tasks before them have set
           \* since they started
  before   \* <<s, t>>: s was over, at its first try, when t started

tasks   == <<job, phase, tries, answer, outcome>>
history == <<met, alone, before>>
vars    == <<role, tasks, wire, history>>

\* What the platform may ask for.  Both kinds are grantable to users only.
Jobs == {j \in [verb : {"grant", "revoke"}, kind : {"site", "license"},
                user : Users, what : InPlay] :
           j.kind = "license" => j.what \in licenses}

NoJob == [verb |-> "none"]

Started == {t \in Tasks : job[t] # NoJob}

\* MUTANT: Revoke sets the role it was given, too.
TargetOfEntitlement(j) == j.what

\* The role a task asks Tableau to set.
Target(j) == IF j.verb = "grant" THEN j.what ELSE "Unlicensed"

\* The task is over, its only request answered.
Answered(t) == phase[t] = "done" /\ tries[t] = 0 /\ outcome[t] # "failed"
-----------------------------------------------------------------------------
Init ==
  /\ role \in [Users -> InPlay \cup {"none"}]
  /\ job = [t \in Tasks |-> NoJob]
  /\ phase = [t \in Tasks |-> "idle"]
  /\ tries = [t \in Tasks |-> 0]
  /\ answer = [t \in Tasks |-> "none"]
  /\ outcome = [t \in Tasks |-> "none"]
  /\ wire = {}
  /\ met = {} /\ alone = {} /\ before = {}

\* History of a step that leaves user u with role'[u], made by a request of a
\* task in writers (nobody's: {}).
Observe(u, writers) ==
  /\ met' = met \cup {t \in Started : job[t].user = u /\ role'[u] \in Goal(job[t])}
  /\ alone' = {t \in alone : \/ job[t].user # u \/ role'[u] = role[u]
                             \/ \E s \in writers : s = t \/ <<s, t>> \in before}
  /\ UNCHANGED before

\* The platform sends task t.
Start(t, j) ==
  /\ phase[t] = "idle"
  /\ job' = [job EXCEPT ![t] = j]
  /\ phase' = [phase EXCEPT ![t] = "ready"]
  /\ met' = IF role[j.user] \in Goal(j) THEN met \cup {t} ELSE met
  /\ alone' = alone \cup {t}
  /\ before' = before \cup ({s \in Tasks : Answered(s)} \X {t})
  /\ UNCHANGED <<role, tries, answer, outcome, wire>>

\* The task reports outcome o and ends.
End(t, o) ==
  /\ phase' = [phase EXCEPT ![t] = "done"]
  /\ outcome' = [outcome EXCEPT ![t] = o]
  /\ answer' = [answer EXCEPT ![t] = "none"]
  /\ UNCHANGED <<role, job, wire, history>>

Grantable(j) == ~(j.kind = "site" /\ j.verb = "grant" /\ j.what \in nonGrantableRoles)

\* siteBuilder.Grant refuses the server-level role.
Reject(t) ==
  /\ phase[t] = "ready"
  /\ ~Grantable(job[t])
  /\ End(t, "rejected")
  /\ UNCHANGED tries

\* UpdateUserSiteRole: the PUT goes out.
Send(t) ==
  /\ phase[t] = "ready"
  /\ Grantable(job[t])
  /\ phase' = [phase EXCEPT ![t] = "waiting"]
  /\ wire' = wire \cup {[task |-> t, try |-> tries[t]]}
  /\ UNCHANGED <<role, job, tries, answer, outcome, history>>

\* An answer that is not retryable.  Unlike the other builders, site and
\* license know no error that is a success.
Receive(t) ==
  /\ phase[t] = "waiting"
  /\ answer[t] # "none"
  /\ End(t, IF answer[t] = "ok" THEN "applied" ELSE "failed")
  /\ UNCHANGED tries

\* MUTANT: a request that was sent is taken to be carried out.
TimeoutAsSuccess(t) == phase[t] = "waiting" /\ End(t, "applied") /\ UNCHANGED tries

\* MUTANT: attempts > maxAttempts is asked before attempts++.
TimeoutOnceMore(t) ==
  /\ phase[t] = "waiting"
  /\ tries' = [tries EXCEPT ![t] = @ + 1]
  /\ \/ tries[t] > MaxRetries /\ End(t, "failed")
     \/ /\ tries[t] <= MaxRetries
        /\ phase' = [phase EXCEPT ![t] = "ready"]
        /\ answer' = [answer EXCEPT ![t] = "none"]
        /\ UNCHANGED <<role, job, outcome, wire, history>>

\* A retryable error: the task starts over, at most MaxRetries times.
Timeout(t) ==
  /\ phase[t] = "waiting"
  /\ tries' = [tries EXCEPT ![t] = @ + 1]
  /\ \/ tries[t] >= MaxRetries /\ End(t, "failed")
     \/ /\ tries[t] < MaxRetries
        /\ phase' = [phase EXCEPT ![t] = "ready"]
        /\ answer' = [answer EXCEPT ![t] = "none"]
        /\ UNCHANGED <<role, job, outcome, wire, history>>

\* The connection breaks in a way the SDK does not retry.
Break(t) == phase[t] = "waiting" /\ End(t, "failed") /\ UNCHANGED tries

\* Tableau's answers: it may refuse, a minimum site role of a group being one
\* reason, and it knows only users of the site.
Replies(u) == {"denied"} \cup (IF role[u] = "none" THEN {"missing"} ELSE {"ok"})

\* Tableau carries out a request, however old.
Serve(r) ==
  LET j == job[r.task] IN
  \E a \in Replies(j.user), s \in Stored(Target(j)) :
    /\ wire' = wire \ {r}
    /\ role' = IF a = "ok" THEN [role EXCEPT ![j.user] = s] ELSE role
    /\ answer' = IF phase[r.task] = "waiting" /\ tries[r.task] = r.try
                 THEN [answer EXCEPT ![r.task] = a] ELSE answer
    /\ Observe(j.user, {r.task})
    /\ UNCHANGED <<job, phase, tries, outcome>>

\* A request is lost before Tableau sees it.
Drop(r) ==
  /\ wire' = wire \ {r}
  /\ UNCHANGED <<role, tasks, history>>

\* Somebody else sets a role, adds a user or removes one.
OutsideChange(u, r) ==
  /\ role' = [role EXCEPT ![u] = r]
  /\ Observe(u, {})
  /\ UNCHANGED <<tasks, wire>>

Task(t) == Reject(t) \/ Send(t) \/ Receive(t) \/ Timeout(t) \/ Break(t)

Next ==
  \/ \E t \in Tasks, j \in Jobs : Start(t, j)
  \/ \E t \in Tasks : Task(t)
  \/ \E r \in wire : Serve(r) \/ Drop(r)
  \/ \E u \in Users, r \in InPlay \cup {"none"} : OutsideChange(u, r)

Spec == Init /\ [][Next]_vars
-----------------------------------------------------------------------------
\* Every variable keeps its type, and a task is retried at most MaxRetries times.
TypeOK ==
  /\ role \in [Users -> roles \cup {"none"}]
  /\ job \in [Tasks -> Jobs \cup {NoJob}]
  /\ phase \in [Tasks -> {"idle", "ready", "waiting", "done"}]
  /\ \A t \in Tasks : phase[t] = "idle" <=> job[t] = NoJob
  /\ tries \in [Tasks -> 0 .. MaxRetries + 1]
  /\ answer \in [Tasks -> {"none", "ok", "missing", "denied"}]
  /\ outcome \in [Tasks -> {"none", "applied", "rejected", "failed"}]
  /\ wire \subseteq [task : Started, try : 0 .. MaxRetries]
  /\ met \subseteq Started /\ alone \subseteq Started
  /\ before \subseteq Started \X Started

\* A site role or license task that reports success was at its goal at some
\* instant since it started.
OutcomeIsTrue ==
  \A t \in Tasks : outcome[t] = "applied" /\ ~InVain(job[t]) => t \in met

\* And it stays there, although requests are repeated and carried out late,
\* and although site roles and licenses share the register, until the user's
\* role is set by somebody else or by a task that was not over, at its first
\* try, when this one started.  (A task that was retried, or that failed, may
\* still undo what a later task did.)
LastTaskWins ==
  \A t \in alone :
    outcome[t] = "applied" /\ ~InVain(job[t]) => role[job[t].user] \in Goal(job[t])

\* What the contract of a task sees of its outcome, and which tasks it knows to
\* be through with writing.
ResultOf(o) ==
  CASE o = "none" -> "none" [] o = "applied" -> "success" [] OTHER -> "failure"

Contract == INSTANCE RoleContract
              WITH result <- [t \in Tasks |-> ResultOf(outcome[t])],
                   over   <- {t \in Tasks : Answered(t)}

\* Retries, late requests and lost answers included, site and license keep the
\* contract of tasks about site roles.
KeepsContract == Contract!Spec

\* docs-info.md lists ServerAdministrator as "Sync only" under "Grant/Revoke"
\* and calls it "Read-only": no task about it makes the connector set the role
\* of a server administrator.
ServerAdministratorIsSyncOnly ==
  \A t \in Started :
    job[t].kind = "site" /\ job[t].what \in nonGrantableRoles
      /\ role[job[t].user] \in nonGrantableRoles => phase[t] # "waiting"
=============================================================================
