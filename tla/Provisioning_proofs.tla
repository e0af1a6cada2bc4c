------------------------ MODULE Provisioning_proofs ------------------------
(***************************************************************************)
(* TLAPS proofs about Provisioning, for every set of tasks, entitlements   *)
(* and principals and every retry limit.                                   *)
(***************************************************************************)
EXTENDS Provisioning, TLAPS

Requests == [task : Tasks, try : 0 .. MaxRetries]

\* A task that has not ended has not reported, and is within its retries.
Underway ==
  \A t \in Tasks : phase[t] # "done" => tries[t] \in 0 .. MaxRetries /\ outcome[t] = "none"

\* Only view tasks look tabs up, and no task waits for an ineligible request.
PhaseFits ==
  /\ \A t \in Tasks : phase[t] = "checked" => KindOf(t) = "view"
  /\ \A r \in wire : /\ job[r.task] \in Jobs
                     /\ job[r.task].key \in Holdable \ ManagedKeys

TypeInv == TypeOK /\ Underway /\ PhaseFits

-----------------------------------------------------------------------------
\* A task that is past "idle" has a job.
LEMMA StartedTasks ==
  ASSUME TypeOK, NEW t \in Tasks, phase[t] # "idle"
  PROVE  t \in Started /\ job[t] \in Jobs /\ job[t].key \in Keys
                       /\ job[t].verb \in {"grant", "revoke"}
  BY DEF TypeOK, Started, Jobs

\* A job is not the absence of one.
LEMMA JobIsNotNone == \A j \in Jobs : j # NoJob
  BY DEF Jobs, NoJob

\* Ending a task keeps the types.
LEMMA EndTypes ==
  ASSUME TypeInv, NEW t \in Tasks, phase[t] # "idle", NEW o \in Outcomes, End(t, o),
         UNCHANGED <<tableau, tabsCache, wire, met, alone, wrote>>,
         tries' \in [Tasks -> 0 .. MaxRetries + 1],
         \A u \in Tasks \ {t} : tries'[u] = tries[u]
  PROVE  TypeInv'
<1> USE DEF End, tableau
<1>1. TypeOK'
  BY DEF TypeInv, TypeOK, Started, Answers
<1>2. Underway'
  BY DEF TypeInv, TypeOK, Underway
<1>3. PhaseFits'
  BY DEF TypeInv, TypeOK, PhaseFits, KindOf
<1> QED
  BY <1>1, <1>2, <1>3 DEF TypeInv

\* Starting over, or giving up, after a retryable error keeps the types.
LEMMA EndAttemptTypes ==
  ASSUME TypeInv, NEW t \in Tasks, EndAttempt(t),
         phase[t] \in {"ready", "waiting"},
         UNCHANGED <<tableau, tabsCache, wire, met, alone, wrote>>
  PROVE  TypeInv'
<1>1. tries[t] \in 0 .. MaxRetries
  BY DEF TypeInv, Underway
<1>2. tries' \in [Tasks -> 0 .. MaxRetries + 1] /\ \A u \in Tasks \ {t} : tries'[u] = tries[u]
  BY <1>1, ProvisioningAssumption DEF EndAttempt, TypeInv, TypeOK
<1>3. CASE MayRetry(t)
  <2>1. TypeOK'
    BY <1>2, <1>3, StartedTasks
       DEF EndAttempt, BeginAttempt, MayRetry, TypeInv, TypeOK, Started, Answers, tableau, End
  <2>2. tries'[t] = tries[t] + 1 /\ tries'[t] \in 0 .. MaxRetries
    BY <1>1, <1>3, ProvisioningAssumption
       DEF EndAttempt, MayRetry, TypeInv, TypeOK
  <2>3. Underway'
    BY <1>2, <1>3, <2>2 DEF EndAttempt, BeginAttempt, TypeInv, TypeOK, Underway
  <2>4. PhaseFits'
    BY <1>3 DEF EndAttempt, BeginAttempt, TypeInv, TypeOK, PhaseFits, KindOf
  <2> QED
    BY <2>1, <2>3, <2>4 DEF TypeInv
<1>4. CASE ~MayRetry(t)
  BY <1>2, <1>4, EndTypes DEF EndAttempt, Outcomes
<1> QED
  BY <1>3, <1>4

\* The steps of the connector keep the types.
LEMMA ClientTypes ==
  ASSUME TypeInv, NEW t \in Tasks, Client(t)
  PROVE  TypeInv'
<1>1. CASE AnswerForAllUsers(t)
  BY <1>1, EndTypes DEF AnswerForAllUsers, TypeInv, TypeOK, Outcomes, Successes
<1>2. CASE CheckTabs(t)
  <2>1. TypeOK'
    BY <1>2, StartedTasks DEF CheckTabs, End, TypeInv, TypeOK, Started, Answers, Outcomes, tableau
  <2>2. Underway'
    BY <1>2 DEF CheckTabs, End, TypeInv, TypeOK, Underway
  <2>3. PhaseFits'
    BY <1>2 DEF CheckTabs, End, TypeInv, TypeOK, PhaseFits, KindOf
  <2> QED
    BY <2>1, <2>2, <2>3 DEF TypeInv
<1>3. CASE TabsLookupFails(t)
  <2>1. CASE EndAttempt(t)
    BY <1>3, <2>1, EndAttemptTypes DEF TabsLookupFails
  <2>2. CASE UNCHANGED tries /\ \E o \in {"notFound", "failed"} : End(t, o)
    BY <1>3, <2>2, EndTypes DEF TabsLookupFails, TypeInv, TypeOK, Outcomes
  <2> QED
    BY <1>3, <2>1, <2>2 DEF TabsLookupFails
<1>4. CASE RejectPrincipal(t)
  BY <1>4, EndTypes DEF RejectPrincipal, Cleared, TypeInv, TypeOK, Outcomes
<1>5. CASE Send(t)
  <2> DEFINE r == [task |-> t, try |-> tries[t]]
  <2>1. phase[t] # "idle" /\ phase[t] # "done" /\ KindOf(t) # "allUsers"
    BY <1>5 DEF Send, Cleared, TypeInv, PhaseFits
  <2>2. r \in Requests /\ wire' = wire \cup {r}
    BY <1>5, <2>1 DEF Send, Requests, TypeInv, Underway
  <2>3. job[t] \in Jobs /\ job[t].key \in Holdable \ ManagedKeys
    BY <1>5, <2>1, StartedTasks, ProvisioningAssumption
       DEF Send, Eligible, KindOf, Holdable, ManagedKeys, TypeInv, Keys, Kinds
  <2>4. TypeOK'
    BY <1>5, <2>1, <2>2, StartedTasks DEF Send, TypeInv, TypeOK, Started, tableau, history, Requests
  <2>5. Underway'
    BY <1>5, <2>1 DEF Send, TypeInv, TypeOK, Underway
  <2>6. PhaseFits'
    BY <1>5, <2>2, <2>3 DEF Send, TypeInv, TypeOK, PhaseFits, KindOf
  <2> QED
    BY <2>4, <2>5, <2>6 DEF TypeInv
<1>6. CASE Receive(t)
  <2>1. Report(job[t].verb, answer[t]) \in Outcomes
    BY DEF Report, Outcomes, Successes
  <2> QED
    BY <1>6, <2>1, EndTypes DEF Receive, TypeInv, TypeOK
<1>7. CASE Timeout(t)
  BY <1>7, EndAttemptTypes DEF Timeout
<1>8. CASE Break(t)
  BY <1>8, EndTypes DEF Break, TypeInv, TypeOK, Outcomes
<1> QED
  BY <1>1, <1>2, <1>3, <1>4, <1>5, <1>6, <1>7, <1>8 DEF Client

\* A request that is carried out keeps the types.
LEMMA ServeTypes ==
  ASSUME TypeInv, NEW r \in wire, Serve(r)
  PROVE  TypeInv'
<1>1. r.task \in Started /\ job[r.task].key \in Holdable
  BY JobIsNotNone DEF TypeInv, TypeOK, PhaseFits, Started
<1>2. PICK a \in Replies(job[r.task]) :
        /\ assigned' = IF a # "ok" THEN assigned
                       ELSE IF job[r.task].verb = "grant" THEN assigned \cup {job[r.task].key}
                                                          ELSE assigned \ {job[r.task].key}
        /\ answer' = IF phase[r.task] = "waiting" /\ tries[r.task] = r.try
                     THEN [answer EXCEPT ![r.task] = a] ELSE answer
  BY DEF Serve
<1>3. a \in Answers
  BY DEF Replies, Answers
<1>4. TypeOK'
  BY <1>1, <1>2, <1>3 DEF Serve, Observe, TypeInv, TypeOK, Started
<1>5. Underway'
  BY DEF Serve, TypeInv, Underway
<1>6. PhaseFits'
  BY DEF Serve, TypeInv, PhaseFits, KindOf
<1> QED
  BY <1>4, <1>5, <1>6 DEF TypeInv

\* What happens outside the connector keeps the types.
OutsideStep ==
  \/ \E k \in Holdable : OutsideChange(k)
  \/ \E e \in Entitlements : DeleteResource(e)
  \/ DeleteWorkbook \/ ShowTabs \/ HideTabs \/ ForgetTabs \/ SyncReadsTabs

LEMMA OutsideTypes ==
  ASSUME TypeInv, OutsideStep
  PROVE  TypeInv'
<1>1. CASE HideTabs
  BY <1>1, StartedTasks DEF HideTabs, TypeInv, TypeOK, Underway, PhaseFits, KindOf, tasks, Started
<1>2. CASE ForgetTabs \/ SyncReadsTabs
  BY <1>2 DEF ForgetTabs, SyncReadsTabs, TypeInv, TypeOK, Underway, PhaseFits, KindOf,
              tableau, tasks, history, Started
<1>3. CASE \/ \E k \in Holdable : OutsideChange(k)
           \/ \E e \in Entitlements : DeleteResource(e)
           \/ DeleteWorkbook
           \/ ShowTabs
  <2>1. /\ assigned' \subseteq Holdable
        /\ gone' \subseteq Entitlements
        /\ tabs' \in {"on", "off", "gone"}
        /\ UNCHANGED <<tasks, tabsCache, wire, tabsOff, live>>
        /\ Observe({})
    BY <1>3 DEF OutsideChange, DeleteResource, DeleteWorkbook, ShowTabs, TypeInv, TypeOK, Views, tasks
  <2> QED
    BY <2>1 DEF Observe, TypeInv, TypeOK, Underway, PhaseFits, KindOf, tasks, Started
<1> QED
  BY <1>1, <1>2, <1>3 DEF OutsideStep

\* Every step keeps the types.
LEMMA TypingStep == ASSUME TypeInv, [Next]_vars PROVE TypeInv'
<1>1. ASSUME NEW t \in Tasks, NEW j \in Jobs, Start(t, j) PROVE TypeInv'
  BY <1>1, JobIsNotNone
     DEF Start, BeginAttempt, TypeInv, TypeOK, Underway, PhaseFits, KindOf, Started, tableau
<1>2. ASSUME NEW r \in wire, Drop(r) PROVE TypeInv'
  BY <1>2 DEF Drop, TypeInv, TypeOK, Underway, PhaseFits, KindOf, tableau, tasks, history, Started
<1>3. CASE UNCHANGED vars
  BY <1>3 DEF vars, TypeInv, TypeOK, Underway, PhaseFits, KindOf, tableau, tasks, history, Started
<1> QED
  BY <1>1, <1>2, <1>3, ClientTypes, ServeTypes, OutsideTypes DEF Next, OutsideStep

\* Every variable keeps its type, a request is only ever made for a principal
\* that can hold what it asks for and never for the All Users group, and a
\* task is retried at most MaxRetries times.
THEOREM Typing == Spec => []TypeInv
<1>1. Init => TypeInv
  BY ProvisioningAssumption
     DEF Init, TypeInv, TypeOK, Underway, PhaseFits, Started, Outcomes, Successes, Answers, NoJob,
         ManagedKeys, Requests
<1>2. TypeInv /\ [Next]_vars => TypeInv'
  BY TypingStep
<1> QED
  BY <1>1, <1>2, PTL DEF Spec

\* The type invariant that the runs check.
THEOREM Types == Spec => []TypeOK
  BY Typing, PTL DEF TypeInv

-----------------------------------------------------------------------------
(***************************************************************************)
(* The connector keeps the contract.  Every step maps to a step of         *)
(* TaskContract or to none: a request that Tableau carries out is a Write  *)
(* of its task, the end of a task is its Finish, and everything else is    *)
(* Outside or invisible.  What has to be known on the way is that a task   *)
(* about to report a success has met its goal, the reason being in the     *)
(* answer it received.                                                     *)
(***************************************************************************)

\* Tableau keeps users in All Users, and nothing is assigned on what is gone.
TableauSound ==
  /\ ManagedKeys \subseteq assigned
  /\ \A k \in assigned : k[1] \notin gone

\* A goal that holds now has been recorded.
MetNow == \A t \in Started : Achieved(job[t], assigned) => t \in met

\* An answer that a task will report as a success vouches for the goal.
AnswerVouches ==
  \A t \in Tasks :
    phase[t] = "waiting" /\ Report(job[t].verb, answer[t]) \in Successes => t \in met

\* No answer is kept from one attempt to the next.
NoStaleAnswer == \A t \in Tasks : phase[t] # "waiting" => answer[t] = "none"

SafetyInv == TableauSound /\ MetNow /\ AnswerVouches /\ NoStaleAnswer /\ OutcomeIsTrue

\* The answers of Tableau that count as successes leave the goal achieved.
LEMMA SuccessfulReply ==
  ASSUME TypeInv, TableauSound, NEW r \in wire, NEW a \in Replies(job[r.task]), NEW A,
         A = IF a # "ok" THEN assigned
             ELSE IF job[r.task].verb = "grant" THEN assigned \cup {job[r.task].key}
                                                ELSE assigned \ {job[r.task].key},
         Report(job[r.task].verb, a) \in Successes
  PROVE  Achieved(job[r.task], A)
<1> DEFINE j == job[r.task]
<1>1. j \in Jobs
  BY DEF TypeInv, PhaseFits
<1>2. j.verb = "grant" \/ j.verb = "revoke"
  BY <1>1 DEF Jobs
<1>3. CASE a = "ok"
  BY <1>2, <1>3 DEF Achieved
<1>4. CASE a = "conflict"
  <2>1. j.verb = "grant"
    BY <1>2, <1>4 DEF Replies
  <2> QED
    BY <1>4, <2>1 DEF Replies, Achieved
<1>5. CASE a = "missing"
  <2>1. j.verb = "revoke"
    BY <1>2, <1>5 DEF Report, Successes
  <2> QED
    BY <1>5, <2>1 DEF Replies, Achieved, TableauSound
<1>6. CASE a = "denied"
  BY <1>6 DEF Report, Successes
<1> QED
  BY <1>3, <1>4, <1>5, <1>6 DEF Replies

\* The steps of the connector leave Tableau and the history of goals alone.
LEMMA ClientFrame ==
  ASSUME NEW t \in Tasks, Client(t)
  PROVE  UNCHANGED <<assigned, gone, tabs, job, met, alone, wrote>>
  BY DEF Client, AnswerForAllUsers, CheckTabs, TabsLookupFails, RejectPrincipal, Send, Receive,
         Timeout, Break, EndAttempt, End, BeginAttempt, tableau, history

\* A step of a task other than t leaves the state of t alone.
LEMMA ClientOfOther ==
  ASSUME TypeInv, NEW t \in Tasks, NEW u \in Tasks \ {t}, Client(t)
  PROVE  UNCHANGED <<phase[u], tries[u], answer[u], outcome[u]>>
  BY DEF Client, AnswerForAllUsers, CheckTabs, TabsLookupFails, RejectPrincipal, Send, Receive,
         Timeout, Break, EndAttempt, End, TypeInv, TypeOK

\* How a step of the connector can change the outcome of its task: by ending
\* it, with a success only if its goal has been met.
LEMMA ClientOutcome ==
  ASSUME TypeInv, SafetyInv, NEW t \in Tasks, Client(t)
  PROVE  \/ outcome'[t] = outcome[t]
         \/ /\ phase[t] \in {"ready", "checked", "waiting"}
            /\ outcome'[t] \in Outcomes
            /\ outcome'[t] \in Successes => t \in met
<1>1. CASE AnswerForAllUsers(t)
  <2>1. job[t] \in Jobs /\ t \in Started
    BY <1>1, StartedTasks DEF AnswerForAllUsers, TypeInv
  <2>2. job[t].verb = "grant" => t \in met
    BY <1>1, <2>1 DEF AnswerForAllUsers, KindOf, Jobs, ManagedKeys, SafetyInv, TableauSound, MetNow,
                      Achieved
  <2> QED
    BY <1>1, <2>2 DEF AnswerForAllUsers, End, TypeInv, TypeOK, Outcomes, Successes
<1>2. CASE CheckTabs(t)
  BY <1>2 DEF CheckTabs, End, TypeInv, TypeOK, Outcomes, Successes
<1>3. CASE TabsLookupFails(t)
  BY <1>3 DEF TabsLookupFails, EndAttempt, End, TypeInv, TypeOK, Outcomes, Successes
<1>4. CASE RejectPrincipal(t)
  BY <1>4 DEF RejectPrincipal, Cleared, End, TypeInv, TypeOK, Outcomes, Successes
<1>5. CASE Send(t)
  BY <1>5 DEF Send
<1>6. CASE Receive(t)
  <2>1. outcome'[t] = Report(job[t].verb, answer[t]) /\ phase[t] = "waiting"
    BY <1>6 DEF Receive, End, TypeInv, TypeOK
  <2>2. Report(job[t].verb, answer[t]) \in Outcomes
    BY DEF Report, Outcomes, Successes
  <2> QED
    BY <2>1, <2>2 DEF SafetyInv, AnswerVouches
<1>7. CASE Timeout(t)
  BY <1>7 DEF Timeout, EndAttempt, End, TypeInv, TypeOK, Outcomes, Successes
<1>8. CASE Break(t)
  BY <1>8 DEF Break, End, TypeInv, TypeOK, Outcomes, Successes
<1> QED
  BY <1>1, <1>2, <1>3, <1>4, <1>5, <1>6, <1>7, <1>8 DEF Client

\* A task that waits after a step of its own has received no answer yet.
LEMMA ClientAnswer ==
  ASSUME TypeInv, NEW t \in Tasks, Client(t), phase'[t] = "waiting"
  PROVE  Send(t)
  BY DEF Client, AnswerForAllUsers, CheckTabs, TabsLookupFails, RejectPrincipal, Receive,
         Timeout, Break, EndAttempt, End, TypeInv, TypeOK

LEMMA ClientSafety ==
  ASSUME TypeInv, SafetyInv, NEW t \in Tasks, Client(t)
  PROVE  SafetyInv'
<1>1. UNCHANGED <<assigned, gone, tabs, job, met, alone, wrote>>
  BY ClientFrame
<1>2. TableauSound' /\ MetNow'
  BY <1>1 DEF SafetyInv, TableauSound, MetNow, Started, Achieved
<1>3. OutcomeIsTrue'
  BY <1>1, ClientOutcome, ClientOfOther DEF SafetyInv, OutcomeIsTrue
<1>4. AnswerVouches'
  <2> SUFFICES ASSUME NEW u \in Tasks, phase'[u] = "waiting",
                      Report(job[u].verb, answer'[u]) \in Successes
               PROVE  u \in met
    BY <1>1 DEF AnswerVouches
  <2>1. CASE u = t
    <3>1. answer'[t] = "none"
      BY <2>1, ClientAnswer DEF Send, Cleared, SafetyInv, NoStaleAnswer
    <3> QED
      BY <2>1, <3>1 DEF Report, Successes
  <2>2. CASE u # t
    BY <2>2, ClientOfOther DEF SafetyInv, AnswerVouches
  <2> QED
    BY <2>1, <2>2
<1>5. NoStaleAnswer'
  <2> SUFFICES ASSUME NEW u \in Tasks, phase'[u] # "waiting" PROVE answer'[u] = "none"
    BY DEF NoStaleAnswer
  <2>1. CASE u # t
    BY <2>1, ClientOfOther DEF SafetyInv, NoStaleAnswer
  <2>2. CASE u = t
    BY <2>2 DEF Client, AnswerForAllUsers, CheckTabs, TabsLookupFails, RejectPrincipal, Send,
                Receive, Timeout, Break, EndAttempt, End, TypeInv, TypeOK, SafetyInv, NoStaleAnswer
  <2> QED
    BY <2>1, <2>2
<1> QED
  BY <1>2, <1>3, <1>4, <1>5 DEF SafetyInv

LEMMA ServeSafety ==
  ASSUME TypeInv, SafetyInv, NEW r \in wire, Serve(r)
  PROVE  SafetyInv'
<1> DEFINE j == job[r.task]
<1>1. /\ r.task \in Started
      /\ j.key \in Holdable \ ManagedKeys
      /\ j.verb = "grant" \/ j.verb = "revoke"
  BY JobIsNotNone DEF TypeInv, TypeOK, PhaseFits, Started, Jobs
<1>2. PICK a \in Replies(j) :
        /\ assigned' = IF a # "ok" THEN assigned
                       ELSE IF j.verb = "grant" THEN assigned \cup {j.key} ELSE assigned \ {j.key}
        /\ answer' = IF phase[r.task] = "waiting" /\ tries[r.task] = r.try
                     THEN [answer EXCEPT ![r.task] = a] ELSE answer
        /\ Observe({r.task})
        /\ UNCHANGED <<gone, job, phase, outcome>>
  BY DEF Serve
<1>3. TableauSound'
  BY <1>1, <1>2 DEF SafetyInv, TableauSound, Replies
<1>4. MetNow'
  BY <1>2 DEF Observe, MetNow, Started
<1>5. met \subseteq met'
  BY <1>2 DEF Observe
<1>6. AnswerVouches'
  <2> SUFFICES ASSUME NEW u \in Tasks, phase[u] = "waiting",
                      Report(job[u].verb, answer'[u]) \in Successes
               PROVE  u \in met'
    BY <1>2 DEF AnswerVouches
  <2>1. CASE answer'[u] = answer[u]
    BY <1>5, <2>1 DEF SafetyInv, AnswerVouches
  <2>2. CASE answer'[u] # answer[u]
    <3>1. u = r.task /\ answer'[u] = a
      BY <1>2, <2>2 DEF TypeInv, TypeOK
    <3>2. Achieved(j, assigned')
      BY <1>2, <3>1, SuccessfulReply DEF SafetyInv
    <3> QED
      BY <1>1, <1>2, <3>1, <3>2 DEF Observe
  <2> QED
    BY <2>1, <2>2
<1>7. NoStaleAnswer'
  BY <1>2 DEF SafetyInv, NoStaleAnswer, TypeInv, TypeOK
<1>8. OutcomeIsTrue'
  BY <1>2, <1>5 DEF SafetyInv, OutcomeIsTrue
<1> QED
  BY <1>3, <1>4, <1>6, <1>7, <1>8 DEF SafetyInv

LEMMA OutsideSafety ==
  ASSUME TypeInv, SafetyInv, OutsideStep
  PROVE  SafetyInv'
<1>1. /\ UNCHANGED <<job, phase, answer, outcome>>
      /\ \/ UNCHANGED <<assigned, met, gone>>
         \/ Observe({})
  BY DEF OutsideStep, OutsideChange, DeleteResource, DeleteWorkbook, ShowTabs, HideTabs, ForgetTabs,
         SyncReadsTabs, tasks, tableau, history
<1>2. TableauSound'
  <2>1. CASE UNCHANGED <<assigned, gone>>
    BY <2>1 DEF SafetyInv, TableauSound
  <2>2. CASE \E k \in Holdable : OutsideChange(k)
    BY <2>2 DEF OutsideChange, SafetyInv, TableauSound, ManagedKeys
  <2>3. CASE \E e \in Entitlements : DeleteResource(e)
    BY <2>3 DEF DeleteResource, SafetyInv, TableauSound, ManagedKeys
  <2>4. CASE DeleteWorkbook
    BY <2>4 DEF DeleteWorkbook, SafetyInv, TableauSound, ManagedKeys, Views
  <2>5. CASE ShowTabs
    BY <2>5 DEF ShowTabs, SafetyInv, TableauSound, ManagedKeys, Views
  <2> QED
    BY <2>1, <2>2, <2>3, <2>4, <2>5 DEF OutsideStep, HideTabs, ForgetTabs, SyncReadsTabs, tableau
<1>3. MetNow'
  BY <1>1 DEF Observe, SafetyInv, MetNow, Started, Achieved
<1>4. met \subseteq met'
  BY <1>1 DEF Observe
<1>5. AnswerVouches' /\ NoStaleAnswer' /\ OutcomeIsTrue'
  BY <1>1, <1>4 DEF SafetyInv, AnswerVouches, NoStaleAnswer, OutcomeIsTrue
<1> QED
  BY <1>2, <1>3, <1>5 DEF SafetyInv

LEMMA StartSafety ==
  ASSUME TypeInv, SafetyInv, NEW t \in Tasks, NEW j \in Jobs, Start(t, j)
  PROVE  SafetyInv'
<1>1. t \notin Started /\ phase[t] = "idle"
  BY DEF Start, TypeInv, TypeOK, Started
<1>2. TableauSound' /\ OutcomeIsTrue'
  BY DEF Start, SafetyInv, TableauSound, OutcomeIsTrue, tableau
<1>3. MetNow'
  BY <1>1 DEF Start, SafetyInv, MetNow, Started, Achieved, tableau, TypeInv, TypeOK
<1>4. AnswerVouches' /\ NoStaleAnswer'
  BY <1>1 DEF Start, SafetyInv, AnswerVouches, NoStaleAnswer, TypeInv, TypeOK
<1> QED
  BY <1>2, <1>3, <1>4 DEF SafetyInv

\* The strengthened invariant behind the contract.
THEOREM Safety == Spec => []SafetyInv
<1>1. Init => SafetyInv
  BY DEF Init, SafetyInv, TableauSound, MetNow, AnswerVouches, NoStaleAnswer, OutcomeIsTrue, Started,
         Successes, NoJob
<1>2. TypeInv /\ SafetyInv /\ [Next]_vars => SafetyInv'
  <2> SUFFICES ASSUME TypeInv, SafetyInv, [Next]_vars PROVE SafetyInv'
    OBVIOUS
  <2>1. ASSUME NEW r \in wire, Drop(r) PROVE SafetyInv'
    BY <2>1 DEF Drop, SafetyInv, TableauSound, MetNow, AnswerVouches, NoStaleAnswer, OutcomeIsTrue,
                tableau, tasks, history, Started, Achieved
  <2>2. CASE UNCHANGED vars
    BY <2>2 DEF vars, SafetyInv, TableauSound, MetNow, AnswerVouches, NoStaleAnswer, OutcomeIsTrue,
                tableau, tasks, history, Started, Achieved
  <2> QED
    BY <2>1, <2>2, StartSafety, ClientSafety, ServeSafety, OutsideSafety DEF Next, OutsideStep
<1> QED
  BY <1>1, <1>2, Typing, PTL DEF Spec

\* A Grant or Revoke that reports success had its goal at some instant since
\* it started, whatever was lost, late, retried, cached or changed meanwhile.
THEOREM Truth == Spec => []OutcomeIsTrue
  BY Safety, PTL DEF SafetyInv

-----------------------------------------------------------------------------
LEMMA ContractInit == Init => Contract!Init
  BY DEF Init, Contract!Init, Contract!NoJob, NoJob, ResultOf, Holdable

\* A step of the connector is the Finish of its task, or invisible.
LEMMA ClientKeepsContract ==
  ASSUME TypeInv, SafetyInv, NEW t \in Tasks, Client(t)
  PROVE  Contract!Next \/ UNCHANGED Contract!vars
<1> DEFINE res(o) == [u \in Tasks |-> ResultOf(o[u])]
<1>1. UNCHANGED <<assigned, job, met, alone>>
  BY ClientFrame
<1>2. outcome \in [Tasks -> Outcomes] /\ \A u \in Tasks \ {t} : outcome'[u] = outcome[u]
  BY ClientOfOther DEF TypeInv, TypeOK
<1>3. CASE outcome'[t] = outcome[t]
  <2>1. res(outcome') = res(outcome)
    BY <1>2, <1>3
  <2> QED
    BY <1>1, <2>1 DEF Contract!vars
<1>4. CASE outcome'[t] # outcome[t]
  <2>1. /\ phase[t] \in {"ready", "checked", "waiting"}
        /\ outcome'[t] \in Outcomes
        /\ outcome'[t] \in Successes => t \in met
    BY <1>4, ClientOutcome
  <2>2. outcome[t] = "none" /\ outcome'[t] # "none"
    BY <1>4, <2>1 DEF TypeInv, Underway
  <2>3. t \in Contract!Started
    BY <2>1, StartedTasks DEF TypeInv, Contract!Started, Started, Contract!NoJob, NoJob
  <2>4. res(outcome)[t] = "none" /\ res(outcome') = [res(outcome) EXCEPT ![t] = ResultOf(outcome'[t])]
    BY <1>2, <2>2 DEF ResultOf
  <2>5. ResultOf(outcome'[t]) \in {"success", "failure"}
        /\ (ResultOf(outcome'[t]) = "success" => t \in met)
    BY <2>1, <2>2 DEF ResultOf
  <2>6. Contract!Finish(t, ResultOf(outcome'[t]))
    BY <1>1, <2>3, <2>4, <2>5 DEF Contract!Finish
  <2> QED
    BY <2>5, <2>6 DEF Contract!Next
<1> QED
  BY <1>3, <1>4

\* A request that is carried out is a Write of its task, or invisible.
LEMMA ServeKeepsContract ==
  ASSUME TypeInv, SafetyInv, NEW r \in wire, Serve(r)
  PROVE  Contract!Next \/ UNCHANGED Contract!vars
<1> DEFINE t == r.task
<1>1. t \in Tasks /\ t \in Started /\ job[t] \in Jobs
  BY JobIsNotNone DEF TypeInv, TypeOK, PhaseFits, Started
<1>2. Observe({t}) /\ UNCHANGED <<job, outcome>>
  BY DEF Serve
<1>3. CASE assigned' = assigned
  <2>1. met' = met /\ alone' = alone
    BY <1>2, <1>3 DEF Observe, SafetyInv, MetNow
  <2> QED
    BY <1>2, <1>3, <2>1 DEF Contract!vars
<1>4. CASE assigned' # assigned
  <2>1. assigned' = IF job[t].verb = "grant" THEN assigned \cup {job[t].key}
                                             ELSE assigned \ {job[t].key}
    BY <1>4 DEF Serve
  <2>2. Contract!Observe({t})
    BY <1>2 DEF Observe, Contract!Observe, Contract!Started, Started, Contract!NoJob, NoJob,
                Achieved, Contract!Achieved
  <2>3. Contract!Write(t)
    BY <1>1, <1>2, <2>1, <2>2 DEF Contract!Write, Contract!Started, Started, Contract!NoJob, NoJob
  <2> QED
    BY <1>1, <2>3 DEF Contract!Next
<1> QED
  BY <1>3, <1>4

\* What happens outside the connector is Outside, or invisible.
LEMMA OutsideKeepsContract ==
  ASSUME TypeInv, OutsideStep
  PROVE  Contract!Next \/ UNCHANGED Contract!vars
<1>1. UNCHANGED <<job, outcome>>
  BY DEF OutsideStep, OutsideChange, DeleteResource, DeleteWorkbook, ShowTabs, HideTabs, ForgetTabs,
         SyncReadsTabs, tasks
<1>2. CASE UNCHANGED <<assigned, met, alone>>
  BY <1>1, <1>2 DEF Contract!vars
<1>3. CASE Observe({})
  <2>1. assigned' \in SUBSET Keys
    BY OutsideTypes DEF TypeInv, TypeOK, Holdable
  <2>2. Contract!Observe({})
    BY <1>1, <1>3 DEF Observe, Contract!Observe, Contract!Started, Started, Contract!NoJob, NoJob,
                      Achieved, Contract!Achieved
  <2> QED
    BY <1>1, <2>1, <2>2 DEF Contract!Next, Contract!Outside
<1> QED
  BY <1>2, <1>3
     DEF OutsideStep, OutsideChange, DeleteResource, DeleteWorkbook, ShowTabs, HideTabs, ForgetTabs,
         SyncReadsTabs, tableau, history

\* The connector, with its retries, late requests, cached lookups and
\* translated errors, implements the contract of provisioning tasks.
THEOREM Refinement == Spec => KeepsContract
<1>1. TypeInv /\ SafetyInv /\ [Next]_vars => [Contract!Next]_(Contract!vars)
  <2> SUFFICES ASSUME TypeInv, SafetyInv, [Next]_vars
               PROVE  Contract!Next \/ UNCHANGED Contract!vars
    OBVIOUS
  <2>1. ASSUME NEW t \in Tasks, NEW j \in Jobs, Start(t, j) PROVE Contract!Next
    <3>1. job[t] = Contract!NoJob
      BY <2>1 DEF Start, TypeInv, TypeOK, Contract!NoJob, NoJob
    <3>2. Contract!Start(t, j) /\ j \in Contract!Jobs
      BY <2>1, <3>1 DEF Start, tableau, Contract!Start, Contract!Jobs, Jobs, Achieved, Contract!Achieved
    <3> QED
      BY <3>2 DEF Contract!Next
  <2>2. ASSUME NEW r \in wire, Drop(r) PROVE UNCHANGED Contract!vars
    BY <2>2 DEF Drop, tableau, tasks, history, Contract!vars
  <2>3. CASE UNCHANGED vars
    BY <2>3 DEF vars, tableau, tasks, history, Contract!vars
  <2> QED
    BY <2>1, <2>2, <2>3, ClientKeepsContract, ServeKeepsContract, OutsideKeepsContract
       DEF Next, OutsideStep
<1> QED
  BY <1>1, ContractInit, Typing, Safety, PTL DEF Spec, KeepsContract, Contract!Spec

\* What is proved of the contract holds of the connector.
Proved == INSTANCE TaskContract_proofs
            WITH result <- [t \in Tasks |-> ResultOf(outcome[t])]

LEMMA SameContract == Contract!Spec => Proved!Spec
<1>1. Contract!Init => Proved!Init
  BY DEF Contract!Init, Proved!Init, Contract!NoJob, Proved!NoJob
<1>2. [Contract!Next]_(Contract!vars) => [Proved!Next]_(Proved!vars)
  BY DEF Contract!Next, Proved!Next, Contract!vars, Proved!vars, Contract!Start, Proved!Start,
         Contract!Write, Proved!Write, Contract!Finish, Proved!Finish, Contract!Outside,
         Proved!Outside, Contract!Observe, Proved!Observe, Contract!Started, Proved!Started,
         Contract!Jobs, Proved!Jobs, Contract!NoJob, Proved!NoJob, Contract!Achieved, Proved!Achieved
<1> QED
  BY <1>1, <1>2, PTL DEF Contract!Spec, Proved!Spec

\* What a successful task was asked for stays until somebody else changes it:
\* the contract's efficacy, carried over by the refinement.
THEOREM Efficacy == Spec => []Effective
<1>1. TypeInv /\ Proved!Effective => Effective
  BY DEF TypeInv, TypeOK, Started, Proved!Effective, Effective, Proved!Achieved, Achieved, ResultOf,
         Successes
<1> QED
  BY <1>1, Refinement, SameContract, Typing, Proved!Efficacy, PTL DEF KeepsContract

-----------------------------------------------------------------------------
(***************************************************************************)
(* What the outcome of a first attempt tells.  While a task has not been   *)
(* retried it has made one request at most, which is on the wire, lost, or *)
(* answered; only an "ok" that was received can have changed anything.     *)
(***************************************************************************)

OnWire(t) == \E r \in wire : r.task = t

FirstTry ==
  \A t \in Tasks : tries[t] = 0 =>
    /\ phase[t] \in {"idle", "ready", "checked"} => ~OnWire(t) /\ t \notin wrote
    /\ phase[t] = "waiting" /\ answer[t] # "none" => ~OnWire(t)
    /\ phase[t] = "waiting" /\ answer[t] # "ok" => t \notin wrote

\* A request was made at an attempt the task has begun.
WireTries == \A r \in wire : r.try <= tries[r.task]

FirstTryInv == FirstTry /\ WireTries /\ FirstTryTellsAll

LEMMA ClientFirstTry ==
  ASSUME TypeInv, SafetyInv, FirstTryInv, NEW t \in Tasks, Client(t)
  PROVE  FirstTryInv'
<1>1. UNCHANGED <<assigned, gone, tabs, job, met, alone, wrote>>
  BY ClientFrame
<1>2. \A u \in Tasks \ {t} : UNCHANGED <<phase[u], tries[u], answer[u], outcome[u]>>
  BY ClientOfOther
<1>3. CASE Send(t)
  <2> DEFINE r == [task |-> t, try |-> tries[t]]
  <2>1. /\ wire' = wire \cup {r}
        /\ UNCHANGED <<tries, answer, outcome>>
        /\ phase' = [phase EXCEPT ![t] = "waiting"]
        /\ phase[t] \in {"ready", "checked"}
    BY <1>3 DEF Send, Cleared
  <2>2. WireTries'
    BY <2>1 DEF FirstTryInv, WireTries, TypeInv, TypeOK
  <2>3. answer[t] = "none"
    BY <2>1 DEF SafetyInv, NoStaleAnswer
  <2>4. FirstTry' /\ FirstTryTellsAll'
    BY <1>1, <2>1, <2>3 DEF FirstTryInv, FirstTry, FirstTryTellsAll, OnWire, TypeInv, TypeOK
  <2> QED
    BY <2>2, <2>4 DEF FirstTryInv
<1>4. CASE ~Send(t)
  <2>1. UNCHANGED wire /\ phase'[t] # "waiting"
    BY <1>4, ClientAnswer DEF Client, AnswerForAllUsers, CheckTabs, TabsLookupFails,
         RejectPrincipal, Receive, Timeout, Break
  <2>2. tries'[t] = tries[t] \/ tries'[t] = tries[t] + 1
    BY <1>4 DEF Client, AnswerForAllUsers, CheckTabs, TabsLookupFails, RejectPrincipal, Receive,
         Timeout, Break, EndAttempt, TypeInv, TypeOK
  <2>3. WireTries'
    BY <1>2, <2>1, <2>2 DEF FirstTryInv, WireTries, TypeInv, TypeOK
  <2>4. ASSUME tries'[t] = 0
        PROVE  /\ tries[t] = 0
               /\ \/ phase'[t] = "checked" /\ phase[t] = "ready"
                  \/ phase'[t] = "done" /\ outcome'[t] = "failed"
                  \/ phase'[t] = "done" /\ phase[t] \in {"ready", "checked"}
                  \/ /\ phase'[t] = "done" /\ phase[t] = "waiting" /\ answer[t] # "none"
                     /\ outcome'[t] = Report(job[t].verb, answer[t])
    BY <1>4, <2>2, <2>4 DEF Client, AnswerForAllUsers, CheckTabs, TabsLookupFails,
         RejectPrincipal, Cleared, Receive, Timeout, Break, EndAttempt, End, TypeInv, TypeOK
  <2>5. answer[t] = "ok" => Report(job[t].verb, answer[t]) = "applied"
    BY DEF Report
  <2>6. OnWire(t)' = OnWire(t) /\ \A u \in Tasks : OnWire(u)' = OnWire(u)
    BY <2>1 DEF OnWire
  <2>7. FirstTry'
    <3> SUFFICES ASSUME NEW u \in Tasks, tries'[u] = 0
                 PROVE  /\ phase'[u] \in {"idle", "ready", "checked"} => ~OnWire(u) /\ u \notin wrote
                        /\ phase'[u] = "waiting" /\ answer'[u] # "none" => ~OnWire(u)
                        /\ phase'[u] = "waiting" /\ answer'[u] # "ok" => u \notin wrote
      BY <1>1, <2>6 DEF FirstTry
    <3>1. CASE u = t
      BY <2>1, <2>4, <3>1 DEF FirstTryInv, FirstTry
    <3>2. CASE u # t
      BY <1>2, <3>2 DEF FirstTryInv, FirstTry
    <3> QED
      BY <3>1, <3>2
  <2>8. FirstTryTellsAll'
    <3> SUFFICES ASSUME NEW u \in Tasks, phase'[u] = "done", tries'[u] = 0, outcome'[u] # "failed"
                 PROVE  ~OnWire(u) /\ (outcome'[u] # "applied" => u \notin wrote)
      BY <1>1, <2>1 DEF FirstTryTellsAll, OnWire
    <3>1. CASE u = t
      BY <2>4, <2>5, <3>1 DEF FirstTryInv, FirstTry
    <3>2. CASE u # t
      BY <1>2, <3>2 DEF FirstTryInv, FirstTryTellsAll, OnWire
    <3> QED
      BY <3>1, <3>2
  <2> QED
    BY <2>3, <2>7, <2>8 DEF FirstTryInv
<1> QED
  BY <1>3, <1>4

LEMMA ServeFirstTry ==
  ASSUME TypeInv, FirstTryInv, NEW r \in wire, Serve(r)
  PROVE  FirstTryInv'
<1> DEFINE t == r.task
<1>1. PICK a \in Replies(job[t]) :
        /\ a # "ok" => assigned' = assigned
        /\ answer' = IF phase[t] = "waiting" /\ tries[t] = r.try
                     THEN [answer EXCEPT ![t] = a] ELSE answer
  BY DEF Serve
<1>2. /\ wire' = wire \ {r}
      /\ wrote' = wrote \cup {u \in {t} : assigned' # assigned}
      /\ UNCHANGED <<phase, tries, outcome>>
  BY DEF Serve, Observe
<1>3. t \in Tasks /\ OnWire(t) /\ a # "none"
  BY DEF TypeInv, TypeOK, OnWire, Replies
<1>4. WireTries'
  BY <1>2 DEF FirstTryInv, WireTries
<1>5. tries[t] = 0 => r.try = 0 /\ ~OnWire(t)'
  BY <1>2, <1>3 DEF FirstTryInv, WireTries, TypeInv, TypeOK, OnWire
<1>6. \A u \in Tasks : OnWire(u)' => OnWire(u)
  BY <1>2 DEF OnWire
<1>7. \A u \in Tasks \ {t} : (u \in wrote' <=> u \in wrote) /\ answer'[u] = answer[u]
  BY <1>1, <1>2, <1>3 DEF TypeInv, TypeOK
<1>8. phase[t] = "waiting" /\ tries[t] = 0 => answer'[t] = a
  BY <1>1, <1>3, <1>5 DEF TypeInv, TypeOK
<1>9. FirstTry'
  <2> SUFFICES ASSUME NEW u \in Tasks, tries[u] = 0
               PROVE  /\ phase[u] \in {"idle", "ready", "checked"} => ~OnWire(u)' /\ u \notin wrote'
                      /\ phase[u] = "waiting" /\ answer'[u] # "none" => ~OnWire(u)'
                      /\ phase[u] = "waiting" /\ answer'[u] # "ok" => u \notin wrote'
    BY <1>2 DEF FirstTry
  <2>1. CASE u = t
    BY <1>1, <1>2, <1>3, <1>5, <1>8, <2>1 DEF FirstTryInv, FirstTry
  <2>2. CASE u # t
    BY <1>6, <1>7, <2>2 DEF FirstTryInv, FirstTry
  <2> QED
    BY <2>1, <2>2
<1>10. FirstTryTellsAll'
  <2> SUFFICES ASSUME NEW u \in Tasks, phase[u] = "done", tries[u] = 0, outcome[u] # "failed"
               PROVE  ~OnWire(u)' /\ (outcome[u] # "applied" => u \notin wrote')
    BY <1>2 DEF FirstTryTellsAll, OnWire
  <2>1. u # t
    BY <1>3 DEF FirstTryInv, FirstTryTellsAll, OnWire
  <2> QED
    BY <1>6, <1>7, <2>1 DEF FirstTryInv, FirstTryTellsAll, OnWire
<1> QED
  BY <1>4, <1>9, <1>10 DEF FirstTryInv

\* At its first attempt a task's report tells all it did.
THEOREM FirstTryTells == Spec => []FirstTryTellsAll
<1>1. Init => FirstTryInv
  BY DEF Init, FirstTryInv, FirstTry, WireTries, FirstTryTellsAll, OnWire
<1>2. TypeInv /\ SafetyInv /\ FirstTryInv /\ [Next]_vars => FirstTryInv'
  <2> SUFFICES ASSUME TypeInv, SafetyInv, FirstTryInv, [Next]_vars PROVE FirstTryInv'
    OBVIOUS
  <2>1. ASSUME NEW t \in Tasks, NEW j \in Jobs, Start(t, j) PROVE FirstTryInv'
    BY <2>1 DEF Start, FirstTryInv, FirstTry, WireTries, FirstTryTellsAll, OnWire, TypeInv, TypeOK
  <2>2. ASSUME NEW r \in wire, Drop(r) PROVE FirstTryInv'
    BY <2>2 DEF Drop, FirstTryInv, FirstTry, WireTries, FirstTryTellsAll, OnWire, tasks, history
  <2>3. CASE OutsideStep \/ UNCHANGED vars
    <3>1. UNCHANGED <<phase, tries, answer, outcome, wire, wrote>>
      BY <2>3 DEF OutsideStep, OutsideChange, DeleteResource, DeleteWorkbook, ShowTabs, HideTabs,
                  ForgetTabs, SyncReadsTabs, Observe, tasks, history, vars
    <3> QED
      BY <3>1 DEF FirstTryInv, FirstTry, WireTries, FirstTryTellsAll, OnWire
  <2> QED
    BY <2>1, <2>2, <2>3, ClientFirstTry, ServeFirstTry DEF Next, OutsideStep
<1>3. FirstTryInv => FirstTryTellsAll
  BY DEF FirstTryInv
<1> QED
  BY <1>1, <1>2, <1>3, Typing, Safety, PTL DEF Spec

-----------------------------------------------------------------------------
\* The tabs that are off now have been seen off by every attempt under way,
\* and an attempt past its own lookup has seen them off.
LiveInv ==
  /\ \A t \in Tasks :
       tabs = "off" /\ phase[t] \in {"ready", "checked", "waiting"} => t \in tabsOff
  /\ \A t \in live : phase[t] \in {"checked", "waiting"} /\ t \in tabsOff

\* A request for a view that follows a lookup in Tableau was preceded by an
\* instant of the same attempt at which the tabs were off: the check and the
\* act are two steps, and this much survives between them.
THEOREM LiveLookup == Spec => []LiveLookupGuards
<1>1. Init => LiveInv
  BY DEF Init, LiveInv
<1>2. TypeInv /\ LiveInv /\ [Next]_vars => LiveInv'
  <2> SUFFICES ASSUME TypeInv, LiveInv, [Next]_vars PROVE LiveInv'
    OBVIOUS
  <2>1. ASSUME NEW t \in Tasks, NEW j \in Jobs, Start(t, j) PROVE LiveInv'
    BY <2>1 DEF Start, BeginAttempt, LiveInv, TypeInv, TypeOK, Started, tableau
  <2>2. ASSUME NEW t \in Tasks, EndAttempt(t), UNCHANGED tabs,
               phase[t] \in {"ready", "waiting"}
        PROVE  LiveInv'
    BY <2>2 DEF EndAttempt, BeginAttempt, End, LiveInv, TypeInv, TypeOK, Started
  <2>3. ASSUME NEW t \in Tasks, NEW o, End(t, o), UNCHANGED tabs PROVE LiveInv'
    BY <2>3 DEF End, LiveInv, TypeInv, TypeOK, Started
  <2>4. ASSUME NEW t \in Tasks, CheckTabs(t) PROVE LiveInv'
    <3>1. CASE tabsCache' = "on"
      BY <2>3, <2>4, <3>1 DEF CheckTabs, tableau
    <3>2. CASE tabsCache' = "off"
      BY <2>4, <3>2 DEF CheckTabs, LiveInv, TypeInv, TypeOK, Started, tableau
    <3> QED
      BY <2>4, <3>1, <3>2 DEF CheckTabs
  <2>5. ASSUME NEW t \in Tasks, Send(t) PROVE LiveInv'
    BY <2>5 DEF Send, Cleared, LiveInv, TypeInv, TypeOK, Started, tableau, history
  <2>6. ASSUME NEW t \in Tasks, Client(t) PROVE LiveInv'
    BY <2>2, <2>3, <2>4, <2>5, <2>6
       DEF Client, AnswerForAllUsers, TabsLookupFails, RejectPrincipal, Receive, Timeout, Break, tableau
  <2>7. ASSUME UNCHANGED <<phase, tabsOff, live>>, tabs' = "off" => tabs = "off" PROVE LiveInv'
    BY <2>7 DEF LiveInv
  <2>8. ASSUME NEW r \in wire, Serve(r) \/ Drop(r) PROVE LiveInv'
    BY <2>7, <2>8 DEF Serve, Drop, tableau, tasks, history
  <2>9. CASE OutsideStep \/ UNCHANGED vars
    <3>1. CASE HideTabs
      BY <3>1 DEF HideTabs, LiveInv, TypeInv, TypeOK, Started, tasks
    <3>2. CASE ~HideTabs
      BY <2>7, <2>9, <3>2
         DEF OutsideStep, OutsideChange, DeleteResource, DeleteWorkbook, ShowTabs, ForgetTabs,
             SyncReadsTabs, tableau, tasks, history, vars
    <3> QED
      BY <3>1, <3>2
  <2> QED
    BY <2>1, <2>6, <2>8, <2>9 DEF Next, OutsideStep
<1>3. LiveInv => LiveLookupGuards
  BY DEF LiveInv, LiveLookupGuards
<1> QED
  BY <1>1, <1>2, <1>3, Typing, PTL DEF Spec

-----------------------------------------------------------------------------
\* How many more steps a task can take that is in phase ph of its attempt n: three for
\* every attempt that is left, the one under way by its phase, and one to start.
StepsAt(ph, n) ==
  3 * (MaxRetries + 1 - n) + (IF ph = "idle" THEN 4 ELSE IF ph = "ready" THEN 3
                              ELSE IF ph = "checked" THEN 2 ELSE IF ph = "waiting" THEN 1 ELSE 0)

StepsLeft(t) == StepsAt(phase[t], tries[t])

LEMMA StepsAtType ==
  ASSUME NEW n \in 0 .. MaxRetries + 1, NEW ph PROVE StepsAt(ph, n) \in Nat
<1>1. MaxRetries + 1 - n \in Nat
  BY ProvisioningAssumption
<1>2. 3 * (MaxRetries + 1 - n) \in Nat
  BY <1>1
<1> QED
  BY <1>2 DEF StepsAt

\* A retryable error costs an attempt.
LEMMA EndAttemptCosts ==
  ASSUME TypeInv, NEW t \in Tasks, EndAttempt(t), phase[t] \in {"ready", "waiting"}
  PROVE  StepsLeft(t)' < StepsLeft(t)
<1>1. tries[t] \in Nat /\ tries'[t] = tries[t] + 1
  BY DEF EndAttempt, TypeInv, TypeOK
<1>2. phase'[t] \in {"ready", "done"}
  BY DEF EndAttempt, End, TypeInv, TypeOK
<1> QED
  BY <1>1, <1>2, ProvisioningAssumption DEF StepsLeft, StepsAt

\* Any other step of the task leads to a later phase of the attempt.
LEMMA ClientCosts ==
  ASSUME TypeInv, NEW t \in Tasks, Client(t)
  PROVE  StepsLeft(t)' < StepsLeft(t)
<1>1. ASSUME tries'[t] = tries[t], phase'[t] = "done",
             phase[t] \in {"ready", "checked", "waiting"}
      PROVE  StepsLeft(t)' < StepsLeft(t)
  BY <1>1, ProvisioningAssumption DEF TypeInv, TypeOK, StepsLeft, StepsAt
<1>2. CASE AnswerForAllUsers(t) \/ RejectPrincipal(t) \/ Receive(t) \/ Break(t)
  BY <1>1, <1>2
     DEF AnswerForAllUsers, RejectPrincipal, Cleared, Receive, Break, End, TypeInv, TypeOK
<1>3. CASE CheckTabs(t)
  <2>1. tries'[t] = tries[t] /\ phase[t] = "ready" /\ phase'[t] \in {"checked", "done"}
    BY <1>3 DEF CheckTabs, End, TypeInv, TypeOK
  <2> QED
    BY <2>1, ProvisioningAssumption DEF TypeInv, TypeOK, StepsLeft, StepsAt
<1>4. CASE Send(t)
  <2>1. tries'[t] = tries[t] /\ phase[t] \in {"ready", "checked"} /\ phase'[t] = "waiting"
    BY <1>4 DEF Send, Cleared, TypeInv, TypeOK
  <2> QED
    BY <2>1, ProvisioningAssumption DEF TypeInv, TypeOK, StepsLeft, StepsAt
<1>5. CASE TabsLookupFails(t)
  <2>1. CASE EndAttempt(t)
    BY <1>5, <2>1, EndAttemptCosts DEF TabsLookupFails
  <2>2. CASE UNCHANGED tries /\ \E o \in {"notFound", "failed"} : End(t, o)
    BY <1>1, <1>5, <2>2 DEF TabsLookupFails, End, TypeInv, TypeOK
  <2> QED
    BY <1>5, <2>1, <2>2 DEF TabsLookupFails
<1>6. CASE Timeout(t)
  BY <1>6, EndAttemptCosts DEF Timeout
<1> QED
  BY <1>2, <1>3, <1>4, <1>5, <1>6 DEF Client

\* A step uses up one of the steps that its task has left, and gives none back to any.
UsesUp ==
  \A t \in Tasks : /\ StepsLeft(t) \in Nat
                   /\ StepsLeft(t)' <= StepsLeft(t)
                   /\ Client(t) => StepsLeft(t)' < StepsLeft(t)

\* Every step of a task uses up one of finitely many, and nothing that other tasks,
\* Tableau, the cache or the network do gives one back: no interleaving keeps a task
\* retrying for ever (Retryer.attempts; the safety half of TasksEnd).
THEOREM StepsRunOut == Spec => [][UsesUp]_vars
<1>1. ASSUME TypeInv, [Next]_vars, NEW t \in Tasks
      PROVE  /\ StepsLeft(t) \in Nat
             /\ StepsLeft(t)' <= StepsLeft(t)
             /\ Client(t) => StepsLeft(t)' < StepsLeft(t)
  <2>1. StepsLeft(t) \in Nat /\ StepsLeft(t)' \in Nat
    <3>1. TypeInv'
      BY <1>1, TypingStep
    <3>2. /\ tries[t] \in 0 .. MaxRetries + 1
          /\ tries'[t] \in 0 .. MaxRetries + 1
      BY <1>1, <3>1 DEF TypeInv, TypeOK
    <3> QED
      BY <3>2, StepsAtType DEF StepsLeft
  <2>2. ASSUME phase'[t] = phase[t], tries'[t] = tries[t] PROVE StepsLeft(t)' = StepsLeft(t)
    BY <2>2 DEF StepsLeft
  <2>3. ASSUME NEW u \in Tasks, NEW j \in Jobs, Start(u, j)
        PROVE  StepsLeft(t)' <= StepsLeft(t)
    <3>1. CASE u # t
      BY <1>1, <2>1, <2>2, <2>3, <3>1 DEF Start, TypeInv, TypeOK
    <3>2. CASE u = t
      <4>1. phase[t] = "idle" /\ phase'[t] = "ready" /\ tries'[t] = tries[t]
        BY <1>1, <2>3, <3>2 DEF Start, TypeInv, TypeOK
      <4> QED
        BY <1>1, <4>1, ProvisioningAssumption DEF TypeInv, TypeOK, StepsLeft, StepsAt
    <3> QED
      BY <3>1, <3>2
  <2>4. ASSUME NEW u \in Tasks, Client(u) PROVE StepsLeft(t)' <= StepsLeft(t)
    <3>1. CASE u # t
      BY <1>1, <2>1, <2>2, <2>4, <3>1, ClientOfOther
    <3>2. CASE u = t
      BY <1>1, <2>1, <2>4, <3>2, ClientCosts
    <3> QED
      BY <3>1, <3>2
  <2>5. ASSUME \/ \E r \in wire : Serve(r) \/ Drop(r)
               \/ OutsideStep
               \/ UNCHANGED vars
        PROVE  StepsLeft(t)' <= StepsLeft(t)
    <3>1. UNCHANGED <<phase, tries>>
      BY <2>5 DEF Serve, Drop, OutsideStep, OutsideChange, DeleteResource, DeleteWorkbook, ShowTabs,
                  HideTabs, ForgetTabs, SyncReadsTabs, tasks, vars
    <3>2. phase'[t] = phase[t] /\ tries'[t] = tries[t]
      BY <3>1
    <3> QED
      BY <2>1, <2>2, <3>2
  <2>6. StepsLeft(t)' <= StepsLeft(t)
    BY <1>1, <2>3, <2>4, <2>5 DEF Next, OutsideStep
  <2> QED
    BY <1>1, <2>1, <2>6, ClientCosts
<1>2. TypeInv /\ [Next]_vars => UsesUp
  BY <1>1 DEF UsesUp
<1> QED
  BY <1>2, Typing, PTL DEF Spec
=============================================================================
