---------------------------- MODULE Provisioning ----------------------------
(***************************************************************************)
(* The Grant and Revoke tasks of groups, projects, workbooks and views,    *)
(* from the builder that receives them to the Tableau server, several      *)
(* tasks at once (pkg/connector/{group,project,workbook,view,helpers}.go,  *)
(* pkg/client/client.go).  The SDK's retry loop, its HTTP client and its   *)
(* response cache, and Tableau itself, are outside src/pkg and modelled    *)
(* from how the connector uses them.                                       *)
(*                                                                         *)
(* One attempt of a task is: the early returns, for a view the lookup of   *)
(* its workbook's showTabs, the principal type check, one PUT/POST/DELETE, *)
(* and the translation of its answer.  An attempt that ends in a retryable *)
(* error starts over, at most MaxRetries times.  A request given up on may *)
(* still reach Tableau, at any later time, or never.                       *)
(***************************************************************************)
EXTENDS Naturals

CONSTANTS Tasks,          \* provisioning tasks the platform sends
          Entitlements,   \* each on a resource of its own
          Principals,     \* users, groups, and resources of other types
          Kind,           \* what an entitlement is on, see Kinds
          PrincipalType,  \* "user", "group" or "other"
          MaxRetries      \* retry.RetryConfig.MaxAttempts, 3 in the SDK

\* content: a project, a project's default workbook permissions, a workbook,
\* or a view without a parent workbook; view: a view of the one workbook;
\* membership: a group; allUsers: the built-in group of that name.
Kinds == {"content", "view", "membership", "allUsers"}

ASSUME ProvisioningAssumption ==
  /\ MaxRetries \in Nat
  /\ Kind \in [Entitlements -> Kinds]
  /\ PrincipalType \in [Principals -> {"user", "group", "other"}]

VARIABLES
  \* Tableau
  assigned,  \* the <<entitlement, principal>> pairs it holds in mode Allow
  gone,      \* entitlements whose resource has been deleted
  tabs,      \* the workbook's showTabs: "on", "off", or "gone" with the workbook
  \* the connector process
  job,       \* what each task is to do
  phase,     \* "idle", "ready", "checked", "waiting" or "done"
  tries,     \* retryable errors so far: Retryer.attempts
  answer,    \* Tableau's answer to the request the task waits on
  outcome,   \* what the task reported
  tabsCache, \* showTabs in the cached GET of the workbook, or "none"
  \* in between
  wire,      \* requests that may yet be carried out: [task, try]
  \* history
  met,       \* tasks whose goal held at some instant since they started
  alone,     \* started tasks whose key nobody else has changed since
  wrote,     \* tasks one of whose requests changed what Tableau holds
  tabsOff,   \* tasks whose workbook had its tabs off at some instant of the attempt
  live       \* tasks whose attempt looked showTabs up in Tableau, not in the cache

tableau == <<assigned, gone, tabs>>
tasks   == <<job, phase, tries, answer, outcome>>
history == <<met, alone, wrote, tabsOff, live>>
vars    == <<tableau, tasks, tabsCache, wire, history>>

Keys == Entitlements \X Principals

Views == {e \in Entitlements : Kind[e] = "view"}

\* What Tableau can hold: users are members of groups, users and groups hold
\* permissions.
Holdable == {k \in Keys : PrincipalType[k[2]] \in
                             IF Kind[k[1]] \in {"membership", "allUsers"}
                             THEN {"user"} ELSE {"user", "group"}}

\* Tableau keeps every user in its All Users group.
ManagedKeys == {k \in Holdable : Kind[k[1]] = "allUsers"}

\* What the platform may ask for.  group.go declares membership grantable to
\* users only; for All Users nothing behind that declaration checks it again.
Jobs == [verb : {"grant", "revoke"},
         key  : {k \in Keys : Kind[k[1]] = "allUsers" => k \in Holdable}]

NoJob == [verb |-> "none"]

Answers == {"none", "ok", "conflict", "missing", "denied"}

Successes == {"applied", "alreadyExists", "alreadyRevoked"}

Outcomes == Successes \cup {"none", "rejected", "blocked", "notFound", "failed"}

\* The goal of job j holds when A is what Tableau holds.
Achieved(j, A) == (j.key \in A) <=> (j.verb = "grant")

Started == {t \in Tasks : job[t] # NoJob}

KindOf(t) == Kind[job[t].key[1]]
-----------------------------------------------------------------------------
Init ==
  /\ assigned \in {A \in SUBSET Holdable : ManagedKeys \subseteq A}
  /\ gone = {}
  /\ tabs \in IF Views = {} THEN {"gone"} ELSE {"on", "off"}
  /\ job = [t \in Tasks |-> NoJob]
  /\ phase = [t \in Tasks |-> "idle"]
  /\ tries = [t \in Tasks |-> 0]
  /\ answer = [t \in Tasks |-> "none"]
  /\ outcome = [t \in Tasks |-> "none"]
  /\ tabsCache = "none"
  /\ wire = {}
  /\ met = {} /\ alone = {} /\ wrote = {} /\ tabsOff = {} /\ live = {}

\* History of a step that leaves Tableau with assigned', made by a request of
\* a task in writers (nobody's: {}).
Observe(writers) ==
  /\ met' = met \cup {t \in Started : Achieved(job[t], assigned')}
  /\ alone' = {t \in alone : \/ t \in writers
                             \/ (job[t].key \in assigned') <=> (job[t].key \in assigned)}
  /\ wrote' = wrote \cup {t \in writers : assigned' # assigned}

\* History of the start of an attempt of task t.
BeginAttempt(t) ==
  /\ tabsOff' = IF tabs = "off" THEN tabsOff \cup {t} ELSE tabsOff \ {t}
  /\ live' = live \ {t}

\* The platform sends task t.
Start(t, j) ==
  /\ phase[t] = "idle"
  /\ job' = [job EXCEPT ![t] = j]
  /\ phase' = [phase EXCEPT ![t] = "ready"]
  /\ met' = IF Achieved(j, assigned) THEN met \cup {t} ELSE met
  /\ alone' = alone \cup {t}
  /\ BeginAttempt(t)
  /\ UNCHANGED <<tableau, tries, answer, outcome, tabsCache, wire, wrote>>

\* The task reports outcome o and ends.
End(t, o) ==
  /\ phase' = [phase EXCEPT ![t] = "done"]
  /\ outcome' = [outcome EXCEPT ![t] = o]
  /\ answer' = [answer EXCEPT ![t] = "none"]
  /\ tabsOff' = tabsOff \ {t}
  /\ live' = live \ {t}
  /\ UNCHANGED job

\* MUTANT: attempts >= maxAttempts is taken for attempts > maxAttempts once more.
MayRetryOnceMore(t) == tries[t] <= MaxRetries

\* ShouldWaitAndRetry: attempts++, then attempts > maxAttempts gives up.
MayRetry(t) == tries[t] < MaxRetries

\* MUTANT: every attempt gets a Retryer of its own.
EndAttemptUncounted(t) ==
  /\ phase' = [phase EXCEPT ![t] = "ready"]
  /\ answer' = [answer EXCEPT ![t] = "none"]
  /\ BeginAttempt(t)
  /\ UNCHANGED <<job, tries, outcome>>

\* The attempt ends in a retryable error (Unavailable, DeadlineExceeded).
EndAttempt(t) ==
  /\ tries' = [tries EXCEPT ![t] = @ + 1]
  /\ \/ /\ MayRetry(t)
        /\ phase' = [phase EXCEPT ![t] = "ready"]
        /\ answer' = [answer EXCEPT ![t] = "none"]
        /\ BeginAttempt(t)
        /\ UNCHANGED <<job, outcome>>
     \/ ~MayRetry(t) /\ End(t, "failed")

\* Grant and Revoke on the All Users group return before any request.
AnswerForAllUsers(t) ==
  /\ phase[t] = "ready"
  /\ KindOf(t) = "allUsers"
  /\ End(t, IF job[t].verb = "grant" THEN "alreadyExists" ELSE "rejected")
  /\ UNCHANGED <<tableau, tries, tabsCache, wire, met, alone, wrote>>

\* MUTANT: the showTabs flag is looked up and then ignored.
CheckTabsUnheeded(t) ==
  /\ phase[t] = "ready"
  /\ KindOf(t) = "view"
  /\ tabsCache = "none" /\ tabs # "gone"
  /\ tabsCache' = tabs
  /\ phase' = [phase EXCEPT ![t] = "checked"]
  /\ live' = live \cup {t}
  /\ UNCHANGED <<tableau, job, tries, answer, outcome, wire, met, alone, wrote, tabsOff>>

\* viewBuilder.getShowTabs: the workbook is read from the response cache if a
\* GET of it is there, and from Tableau, filling the cache, if not.
CheckTabs(t) ==
  /\ phase[t] = "ready"
  /\ KindOf(t) = "view"
  /\ \/ tabsCache # "none" /\ UNCHANGED tabsCache
     \/ tabsCache = "none" /\ tabs # "gone" /\ tabsCache' = tabs
  /\ \/ tabsCache' = "on" /\ End(t, "blocked")
     \/ /\ tabsCache' = "off"
        /\ phase' = [phase EXCEPT ![t] = "checked"]
        /\ live' = IF tabsCache = "none" THEN live \cup {t} ELSE live
        /\ UNCHANGED <<job, answer, outcome, tabsOff>>
  /\ UNCHANGED <<tableau, tries, wire, met, alone, wrote>>

\* The lookup finds no workbook, or Tableau refuses it, or it should be retried.
TabsLookupFails(t) ==
  /\ phase[t] = "ready"
  /\ KindOf(t) = "view"
  /\ tabsCache = "none"
  /\ \/ tabs = "gone" /\ End(t, "notFound") /\ UNCHANGED tries
     \/ End(t, "failed") /\ UNCHANGED tries
     \/ EndAttempt(t)
  /\ UNCHANGED <<tableau, tabsCache, wire, met, alone, wrote>>

\* The early returns before the type check are behind task t.
Cleared(t) ==
  \/ phase[t] = "checked"
  \/ phase[t] = "ready" /\ KindOf(t) \in {"content", "membership"}

\* The principal type checks of the builders.
Eligible(j) ==
  PrincipalType[j.key[2]] \in IF Kind[j.key[1]] = "membership" THEN {"user"}
                                                             ELSE {"user", "group"}

RejectPrincipal(t) ==
  /\ Cleared(t)
  /\ ~Eligible(job[t])
  /\ End(t, "rejected")
  /\ UNCHANGED <<tableau, tries, tabsCache, wire, met, alone, wrote>>

\* The PUT, POST or DELETE goes out.
Send(t) ==
  /\ Cleared(t)
  /\ Eligible(job[t])
  /\ phase' = [phase EXCEPT ![t] = "waiting"]
  /\ wire' = wire \cup {[task |-> t, try |-> tries[t]]}
  /\ UNCHANGED <<tableau, job, tries, answer, outcome, tabsCache, history>>

\* MUTANT: a 404 or 409 is a success whatever was asked.
ReportLoose(verb, a) ==
  CASE a = "ok" -> "applied"
    [] a = "conflict" -> "alreadyExists"
    [] a = "missing" -> "alreadyRevoked"
    [] OTHER -> "failed"

\* What a Grant or Revoke reports of Tableau's answer: a 409 on a grant and a
\* 404 on a revoke are successes (isAlreadyExistsError, isNotFoundError).
Report(verb, a) ==
  CASE a = "ok" -> "applied"
    [] a = "conflict" /\ verb = "grant" -> "alreadyExists"
    [] a = "missing" /\ verb = "revoke" -> "alreadyRevoked"
    [] a = "missing" /\ verb = "grant" -> "notFound"
    [] OTHER -> "failed"

\* An answer that is not retryable reaches the task.
Receive(t) ==
  /\ phase[t] = "waiting"
  /\ answer[t] # "none"
  /\ End(t, Report(job[t].verb, answer[t]))
  /\ UNCHANGED <<tableau, tries, tabsCache, wire, met, alone, wrote>>

\* MUTANT: a request that was sent is taken to be carried out.
TimeoutAsSuccess(t) ==
  /\ phase[t] = "waiting"
  /\ End(t, "applied")
  /\ UNCHANGED <<tableau, tries, tabsCache, wire, met, alone, wrote>>

\* No answer in time, or a retryable one; the request may be on its way still.
Timeout(t) ==
  /\ phase[t] = "waiting"
  /\ EndAttempt(t)
  /\ UNCHANGED <<tableau, tabsCache, wire, met, alone, wrote>>

\* The connection breaks in a way the SDK does not retry.
Break(t) ==
  /\ phase[t] = "waiting"
  /\ End(t, "failed")
  /\ UNCHANGED <<tableau, tries, tabsCache, wire, met, alone, wrote>>
-----------------------------------------------------------------------------
\* Tableau's answers to job j: it may always refuse; it finds nothing to grant
\* on a deleted resource, nothing to revoke where nothing is assigned, and may
\* or may not object to what is there already.
Replies(j) ==
  {"denied"} \cup
    (IF j.key[1] \in gone THEN {"missing"}
     ELSE IF j.verb = "grant"
          THEN {"ok"} \cup (IF j.key \in assigned THEN {"conflict"} ELSE {})
          ELSE IF j.key \in assigned THEN {"ok"} ELSE {"ok", "missing"})

\* Tableau carries out a request, however old; its answer counts only for a
\* task that waits for just this request.
Serve(r) ==
  \E a \in Replies(job[r.task]) :
    LET j == job[r.task] IN
    /\ r \in wire
    /\ wire' = wire \ {r}
    /\ assigned' = IF a # "ok" THEN assigned
                   ELSE IF j.verb = "grant" THEN assigned \cup {j.key}
                                            ELSE assigned \ {j.key}
    /\ answer' = IF phase[r.task] = "waiting" /\ tries[r.task] = r.try
                 THEN [answer EXCEPT ![r.task] = a] ELSE answer
    /\ Observe({r.task})
    /\ UNCHANGED <<gone, tabs, job, phase, tries, outcome, tabsCache, tabsOff, live>>

\* A request is lost before Tableau sees it.
Drop(r) ==
  /\ r \in wire
  /\ wire' = wire \ {r}
  /\ UNCHANGED <<tableau, tasks, tabsCache, history>>

\* Somebody else grants or revokes, in Tableau.
OutsideChange(k) ==
  /\ Kind[k[1]] # "allUsers"
  /\ k[1] \notin gone
  /\ assigned' = IF k \in assigned THEN assigned \ {k} ELSE assigned \cup {k}
  /\ Observe({})
  /\ UNCHANGED <<gone, tabs, tasks, tabsCache, wire, tabsOff, live>>

\* Somebody deletes the resource of entitlement e, and its assignments with it.
DeleteResource(e) ==
  /\ Kind[e] # "allUsers"
  /\ e \notin gone
  /\ gone' = gone \cup {e}
  /\ assigned' = {k \in assigned : k[1] # e}
  /\ Observe({})
  /\ UNCHANGED <<tabs, tasks, tabsCache, wire, tabsOff, live>>

\* Somebody deletes the workbook, and its views with it.
DeleteWorkbook ==
  /\ tabs # "gone"
  /\ tabs' = "gone"
  /\ gone' = gone \cup Views
  /\ assigned' = {k \in assigned : k[1] \notin Views}
  /\ Observe({})
  /\ UNCHANGED <<tasks, tabsCache, wire, tabsOff, live>>

\* Show Tabs puts the workbook's permissions, whatever they are, on its views.
ShowTabs ==
  /\ tabs = "off"
  /\ tabs' = "on"
  /\ \E K \in SUBSET {k \in Holdable : k[1] \in Views \ gone} :
       assigned' = {k \in assigned : k[1] \notin Views} \cup K
  /\ Observe({})
  /\ UNCHANGED <<gone, tasks, tabsCache, wire, tabsOff, live>>

\* Hide Tabs lets view permissions diverge from there on.
HideTabs ==
  /\ tabs = "on"
  /\ tabs' = "off"
  /\ tabsOff' = tabsOff \cup {t \in Tasks : phase[t] \in {"ready", "checked", "waiting"}}
  /\ UNCHANGED <<assigned, gone, tasks, tabsCache, wire, met, alone, wrote, live>>

\* The cached GET expires, or a successful sync ends with its Cleanup.
ForgetTabs ==
  /\ tabsCache # "none"
  /\ tabsCache' = "none"
  /\ UNCHANGED <<tableau, tasks, wire, history>>

\* A sync that reads a view's grants reads the workbook, too.
SyncReadsTabs ==
  /\ tabsCache = "none"
  /\ tabs # "gone"
  /\ tabsCache' = tabs
  /\ UNCHANGED <<tableau, tasks, wire, history>>
-----------------------------------------------------------------------------
\* A step of the connector on task t.
Client(t) ==
  \/ AnswerForAllUsers(t) \/ CheckTabs(t) \/ TabsLookupFails(t)
  \/ RejectPrincipal(t) \/ Send(t) \/ Receive(t) \/ Timeout(t) \/ Break(t)

Next ==
  \/ \E t \in Tasks, j \in Jobs : Start(t, j)
  \/ \E t \in Tasks : Client(t)
  \/ \E r \in wire : Serve(r) \/ Drop(r)
  \/ \E k \in Holdable : OutsideChange(k)
  \/ \E e \in Entitlements : DeleteResource(e)
  \/ DeleteWorkbook \/ ShowTabs \/ HideTabs \/ ForgetTabs \/ SyncReadsTabs

Spec == Init /\ [][Next]_vars

\* A started task keeps running: the HTTP client gives up on a request after
\* its timeout (300 s by default), so some step of the task is always enabled,
\* and no other task holds a lock it needs.  Tableau and everybody else are
\* under no fairness: a request may stay on the wire for ever.
FairSpec == Spec /\ \A t \in Tasks : WF_vars(Client(t))
-----------------------------------------------------------------------------
\* Every variable keeps its type; a task is retried at most MaxRetries times.
TypeOK ==
  /\ assigned \subseteq Holdable
  /\ gone \subseteq Entitlements
  /\ tabs \in {"on", "off", "gone"}
  /\ job \in [Tasks -> Jobs \cup {NoJob}]
  /\ phase \in [Tasks -> {"idle", "ready", "checked", "waiting", "done"}]
  /\ \A t \in Tasks : phase[t] = "idle" <=> job[t] = NoJob
  /\ tries \in [Tasks -> 0 .. MaxRetries + 1]
  /\ answer \in [Tasks -> Answers]
  /\ outcome \in [Tasks -> Outcomes]
  /\ tabsCache \in {"none", "on", "off"}
  /\ wire \subseteq [task : Tasks, try : 0 .. MaxRetries]
  /\ met \subseteq Started
  /\ alone \subseteq Started
  /\ wrote \subseteq Started
  /\ tabsOff \subseteq Started
  /\ live \subseteq Started

\* What the contract of a task sees of its outcome.
ResultOf(o) == IF o = "none" THEN "none"
               ELSE IF o \in Successes THEN "success" ELSE "failure"

Contract == INSTANCE TaskContract
              WITH result <- [t \in Tasks |-> ResultOf(outcome[t])]

\* Retries, late requests, stale lookups and translated errors included, the
\* connector keeps the contract of provisioning tasks.
KeepsContract == Contract!Spec

\* A Grant or Revoke that reports success, "already exists" and "already
\* revoked" included, had its goal at some instant since it started
\* (grantPermission, revokePermission, groupBuilder.Grant and Revoke).
OutcomeIsTrue ==
  \A t \in Tasks : outcome[t] \in Successes => t \in met

\* What a successful task was asked for stays in place until somebody else
\* changes it: requests the task gave up on earlier, which Tableau carries out
\* after the task reported, do not undo it.
Effective ==
  \A t \in alone : outcome[t] \in Successes => Achieved(job[t], assigned)

\* A task that reports anything but a failure at its first attempt leaves no
\* request behind, and one that reports "already exists", "already revoked", a
\* rejection or a block there has changed nothing.  (After a retry neither is
\* so: a 409 may answer the task's own first request.)
FirstTryTellsAll ==
  \A t \in Tasks :
    phase[t] = "done" /\ tries[t] = 0 /\ outcome[t] # "failed" =>
      /\ \A r \in wire : r.task # t
      /\ outcome[t] # "applied" => t \notin wrote

\* A request for a view goes out only if the tabs of its workbook were off at
\* some instant of the attempt, when the attempt looked them up in Tableau.
LiveLookupGuards ==
  \A t \in live : phase[t] = "waiting" /\ KindOf(t) = "view" => t \in tabsOff

\* README.md, "When a workbook has showTabs=true ... Grant/Revoke on those views
\* are blocked"; view.go, "by calling the Tableau API directly": no request goes
\* out when the tabs have been on since the attempt began.
TabsAlwaysGuard ==
  \A t \in Tasks :
    phase[t] = "waiting" /\ KindOf(t) = "view" /\ tabs = "on" => t \in tabsOff

\* README.md: "Revoking a permission that is already removed also returns
\* success": a revoke of what Tableau held when the task was under way, until
\* somebody else removed it, is not an error.
RevokeOfNothingSucceeds ==
  \A t \in Started \ alone :
    job[t].verb = "revoke" /\ job[t].key \notin assigned => outcome[t] # "notFound"

\* Every task the platform sends is answered, whatever Tableau and the network
\* do: Retryer.ShouldWaitAndRetry bounds the attempts.
TasksEnd == \A t \in Tasks : (phase[t] # "idle") ~> (phase[t] = "done")
=============================================================================
