--------------------------- MODULE Accounts_proofs ---------------------------
(***************************************************************************)
(* Proofs about Accounts, for any tasks, e-mails and configurations.  The  *)
(* inductive invariant ties a task's phase, its request, the answer and    *)
(* what the request has done to each other: a request acts once, between   *)
(* leaving and being answered or lost.                                     *)
(***************************************************************************)
EXTENDS Accounts, FiniteSetTheorems, TLAPS

\* IDs are given once.
Ids == IsFiniteSet(ever) /\ \A u \in ever : u.id <= Cardinality(ever)

\* A task has a job from the time it starts, and only a user there ever was is to
\* be deleted.
Jobs ==
  \A t \in Tasks :
    /\ phase[t] = "idle" => job[t] = NoJob
    /\ phase[t] # "idle" => job[t] \in Creations \cup [verb : {"delete"}, user : ever]
    /\ phase[t] = "ready" => job[t] \in Creations

\* Whatever a task may read now is in its span.
Spans ==
  /\ site \in seen /\ listed \subseteq seen
  /\ \A t \in Tasks : phase[t] # "idle" => seen \subseteq span[t]

\* A sign-in is chosen once, and the request goes out with it.
Chosen ==
  \A t \in Tasks :
    /\ phase[t] \in {"idle", "ready"} => auth[t] = "none"
    /\ job[t] \in Creations =>
         /\ phase[t] \in {"chosen", "waiting"} => auth[t] # "none"
         /\ auth[t] # "none" => Justified(job[t].wants, endpoint, span[t], auth[t])

Undone(t) == \A d \in deeds : d.task # t

\* Before its request leaves, a task has done nothing; after that nothing is
\* known of it before it is answered.
Requests ==
  \A t \in Tasks :
    /\ phase[t] \in {"idle", "ready", "chosen"} => t \notin wire /\ answer[t] = "none" /\ Undone(t)
    /\ t \in wire => /\ answer[t] = "none" /\ Undone(t)
                     /\ outcome[t] \in {"none", "unsure"}
    /\ answer[t] = "ok" => ~Undone(t)
    /\ answer[t] \in {"conflict", "missing", "denied"} => Undone(t)

Outcomes ==
  \A t \in Tasks :
    /\ phase[t] # "done" => outcome[t] = "none"
    /\ outcome[t] = "created" => job[t].verb = "create" /\ ~Undone(t)
    /\ outcome[t] = "deleted" => job[t].verb = "delete" /\ ~Undone(t)
    /\ outcome[t] = "failed" => t \notin wire /\ Undone(t)

\* What a request has done is what its task wanted, and is not undone.
Deeds ==
  \A d \in deeds :
    LET j == job[d.task] IN
    /\ phase[d.task] \in {"waiting", "done"}
    /\ j.verb = "create" => d.user.email = j.email /\ d.user.auth = auth[d.task]
                            /\ auth[d.task] # "none"
    /\ j.verb = "delete" => d.user = j.user /\ d.user \notin users

IInv == TypeOK /\ Ids /\ Jobs /\ Spans /\ Chosen /\ Requests /\ Outcomes /\ Deeds
-----------------------------------------------------------------------------
\* A justification is not lost when more is known of the past.
LEMMA JustifiedLasts ==
  ASSUME NEW q, NEW l, NEW S, NEW T, S \subseteq T, NEW a, Justified(q, l, S, a)
  PROVE  Justified(q, l, T, a)
BY DEF Justified

\* selectIDPConfiguration chooses a sign-in that the listing justifies.
LEMMA ChoiceIsJustified ==
  ASSUME NEW q \in {"any"} \cup Configs, NEW S, NEW s \in S, s \in Settings,
         NEW a \in Choices(q, s)
  PROVE  a \in {"default"} \cup Configs /\ Justified(q, TRUE, S, a)
<1>1. CASE q \in Configs
  <2>1. a = q /\ s[a] # "off"
    BY <1>1 DEF Choices, Enabled
  <2> QED
    BY <1>1, <2>1, AccountsAssumption DEF Justified
<1>2. CASE q \notin Configs
  <2>1. q = "any"
    BY <1>2
  <2>2. CASE Allowed(s) = {}
    BY <1>2, <2>1, <2>2, AccountsAssumption DEF Choices, Allowed, Justified
  <2>3. CASE Allowed(s) # {}
    <3>1. a \in Configs /\ s[a] # "off" /\ Allowed(s) = {a}
      BY <1>2, <2>3 DEF Choices, Allowed
    <3> QED
      BY <2>1, <3>1, AccountsAssumption DEF Allowed, Justified
  <2> QED
    BY <2>2, <2>3
<1> QED
  BY <1>1, <1>2
-----------------------------------------------------------------------------
\* A task is sent.
LEMMA StartStep ==
  ASSUME IInv, NEW t \in Tasks, NEW j \in Creations \cup [verb : {"delete"}, user : ever],
         NEW ph \in {"ready", "chosen"}, (ph = "ready" <=> j \in Creations), Start(t, j, ph)
  PROVE  IInv'
<1>1. TypeOK'
  <2>1. t \notin wire
    BY DEF IInv, Requests, Start
  <2>2. j \in Creations \cup Deletions
    BY DEF IInv, TypeOK, Deletions
  <2>3. job' \in [Tasks -> Creations \cup Deletions \cup {NoJob}]
    BY <2>2 DEF IInv, TypeOK, Start
  <2>4. phase' \in [Tasks -> {"idle", "ready", "chosen", "waiting", "done"}]
    BY DEF IInv, TypeOK, Start
  <2>5. span' \in [Tasks -> SUBSET Settings]
    BY DEF IInv, TypeOK, Start
  <2>6. \A s \in wire : job'[s] = job[s]
    BY <2>1 DEF IInv, TypeOK, Start
  <2> QED
    BY <2>3, <2>4, <2>5, <2>6 DEF IInv, TypeOK, Start, tableau
<1>2. Ids'
  BY DEF IInv, Ids, Start, tableau
<1>3. Jobs'
  BY DEF IInv, TypeOK, Jobs, Start, tableau
<1>4. Spans'
  BY DEF IInv, TypeOK, Spans, Start, tableau
<1>5. Chosen'
  BY DEF IInv, TypeOK, Chosen, Jobs, Start, tableau, Creations
<1>6. Requests'
  BY DEF IInv, TypeOK, Requests, Undone, Start, tableau
<1>7. Outcomes'
  BY DEF IInv, TypeOK, Outcomes, Requests, Undone, Start, tableau
<1>8. Deeds'
  BY DEF IInv, TypeOK, Deeds, Start, tableau, Requests, Undone
<1> QED
  BY <1>1, <1>2, <1>3, <1>4, <1>5, <1>6, <1>7, <1>8 DEF IInv

\* The sign-in is chosen, or the task fails before it has sent anything.
LEMMA SelectStep ==
  ASSUME IInv, NEW t \in Tasks, Select(t)
  PROVE  IInv'
<1> DEFINE q == job[t].wants
<1>a. job[t] \in Creations /\ phase[t] = "ready" /\ auth[t] = "none"
  BY DEF IInv, Jobs, Chosen, Select
<1>b. listed' \subseteq seen /\ UNCHANGED <<tableau, job, answer, wire, ever, deeds, seen, span, changes>>
  BY DEF IInv, Spans, Select, Look
<1>c. \/ End(t, "failed")
      \/ \E a \in Auths : Choose(t, a) /\ Justified(q, endpoint, span[t], a)
  <2>1. CASE q = "mfa" /\ Choose(t, "mfa")
    BY <2>1, AccountsAssumption DEF Auths, Justified
  <2>2. CASE q # "mfa" /\ endpoint /\ Look(t)
    <3>1. PICK s \in IF listed = {} THEN {site} ELSE listed :
               IF Choices(q, s) = {} THEN End(t, "failed")
               ELSE \E a \in Choices(q, s) : Choose(t, a)
      BY <2>2 DEF Look
    <3>2. s \in span[t] /\ s \in Settings
      BY <1>a, <3>1 DEF IInv, TypeOK, Spans
    <3>3. q \in {"any"} \cup Configs /\ endpoint = TRUE
      BY <1>a, <2>2 DEF IInv, TypeOK, Creations
    <3>4. \A a \in Choices(q, s) : a \in Auths /\ Justified(q, endpoint, span[t], a)
      BY <3>2, <3>3, ChoiceIsJustified DEF Auths
    <3> QED
      BY <3>1, <3>4
  <2>3. CASE q = "any" /\ ~endpoint /\ Choose(t, "default")
    BY <2>3, AccountsAssumption DEF Auths, Justified
  <2> QED
    BY <2>1, <2>2, <2>3 DEF Select
<1>1. TypeOK'
  <2>1. listed' \subseteq Settings
    BY <1>b DEF IInv, TypeOK
  <2>2. phase' \in [Tasks -> {"idle", "ready", "chosen", "waiting", "done"}]
    BY <1>c DEF IInv, TypeOK, End, Choose
  <2>3. auth' \in [Tasks -> Auths \cup {"none"}]
    BY <1>c DEF IInv, TypeOK, End, Choose
  <2>4. outcome' \in [Tasks -> {"none", "created", "deleted", "failed", "unsure"}]
    BY <1>c DEF IInv, TypeOK, End, Choose
  <2>5. t \notin wire /\ \A s \in wire : auth'[s] = auth[s]
    BY <1>a, <1>c DEF IInv, TypeOK, Requests, End, Choose
  <2> QED
    BY <1>b, <2>1, <2>2, <2>3, <2>4, <2>5 DEF IInv, TypeOK, tableau
<1>2. Ids'
  BY DEF IInv, Ids, Select, Look, Choose, End, tableau
<1>3. Jobs'
  BY DEF IInv, TypeOK, Jobs, Select, Look, Choose, End, tableau
<1>4. Spans'
  BY DEF IInv, TypeOK, Spans, Select, Look, Choose, End, tableau
<1>5. Chosen'
  <2>1. \A s \in Tasks \ {t} : UNCHANGED <<phase[s], auth[s]>>
    BY <1>c DEF IInv, TypeOK, End, Choose
  <2>2. CASE End(t, "failed")
    BY <1>a, <1>b, <2>1, <2>2 DEF IInv, TypeOK, Chosen, End, tableau
  <2>3. CASE \E a \in Auths : Choose(t, a) /\ Justified(q, endpoint, span[t], a)
    <3>1. auth'[t] # "none" /\ phase'[t] = "chosen" /\ Justified(q, endpoint, span[t], auth'[t])
      BY <2>3, AccountsAssumption DEF IInv, TypeOK, Choose, Auths
    <3> QED
      BY <1>a, <1>b, <2>1, <3>1 DEF IInv, Chosen, tableau
  <2> QED
    BY <1>c, <2>2, <2>3
<1>6. Requests'
  BY DEF IInv, TypeOK, Requests, Undone, Select, Look, Choose, End, tableau
<1>7. Outcomes'
  BY DEF IInv, TypeOK, Outcomes, Requests, Undone, Select, Look, Choose, End, tableau
<1>8. Deeds'
  BY DEF IInv, TypeOK, Deeds, Select, Look, Choose, End, tableau, Requests, Undone
<1> QED
  BY <1>1, <1>2, <1>3, <1>4, <1>5, <1>6, <1>7, <1>8 DEF IInv

\* The request goes out.
LEMMA SendStep ==
  ASSUME IInv, NEW t \in Tasks, Send(t)
  PROVE  IInv'
<1>1. TypeOK'
  BY DEF IInv, TypeOK, Send, tableau, Jobs, Chosen, Auths, Creations
<1>2. Ids'
  BY DEF IInv, Ids, Send, tableau
<1>3. Jobs'
  BY DEF IInv, TypeOK, Jobs, Send, tableau
<1>4. Spans'
  BY DEF IInv, TypeOK, Spans, Send, tableau
<1>5. Chosen'
  BY DEF IInv, TypeOK, Chosen, Jobs, Send, tableau
<1>6. Requests'
  BY DEF IInv, TypeOK, Requests, Undone, Send, tableau, Outcomes
<1>7. Outcomes'
  BY DEF IInv, TypeOK, Outcomes, Requests, Undone, Send, tableau, Requests
<1>8. Deeds'
  BY DEF IInv, TypeOK, Deeds, Send, tableau
<1> QED
  BY <1>1, <1>2, <1>3, <1>4, <1>5, <1>6, <1>7, <1>8 DEF IInv

\* The task makes something of its answer.
LEMMA ReceiveStep ==
  ASSUME IInv, NEW t \in Tasks, Receive(t)
  PROVE  IInv'
<1>1. TypeOK'
  BY DEF IInv, TypeOK, Receive, End, tableau, Verdict, Success
<1>2. Ids'
  BY DEF IInv, Ids, Receive, End, tableau
<1>3. Jobs'
  BY DEF IInv, TypeOK, Jobs, Receive, End, tableau
<1>4. Spans'
  BY DEF IInv, TypeOK, Spans, Receive, End, tableau
<1>5. Chosen'
  BY DEF IInv, TypeOK, Chosen, Jobs, Receive, End, tableau
<1>6. Requests'
  BY DEF IInv, TypeOK, Requests, Undone, Receive, End, tableau, Verdict, Success
<1>7. Outcomes'
  BY DEF IInv, TypeOK, Outcomes, Requests, Undone, Receive, End, tableau, Verdict, Success, Jobs, Creations
<1>8. Deeds'
  BY DEF IInv, TypeOK, Deeds, Receive, End, tableau
<1> QED
  BY <1>1, <1>2, <1>3, <1>4, <1>5, <1>6, <1>7, <1>8 DEF IInv

\* The task ends with its request possibly under way.
LEMMA TimeoutStep ==
  ASSUME IInv, NEW t \in Tasks, Timeout(t)
  PROVE  IInv'
<1>1. TypeOK'
  BY DEF IInv, TypeOK, Timeout, End, tableau
<1>2. Ids'
  BY DEF IInv, Ids, Timeout, End, tableau
<1>3. Jobs'
  BY DEF IInv, TypeOK, Jobs, Timeout, End, tableau
<1>4. Spans'
  BY DEF IInv, TypeOK, Spans, Timeout, End, tableau
<1>5. Chosen'
  BY DEF IInv, TypeOK, Chosen, Jobs, Timeout, End, tableau
<1>6. Requests'
  BY DEF IInv, TypeOK, Requests, Undone, Timeout, End, tableau
<1>7. Outcomes'
  BY DEF IInv, TypeOK, Outcomes, Requests, Undone, Timeout, End, tableau
<1>8. Deeds'
  BY DEF IInv, TypeOK, Deeds, Timeout, End, tableau
<1> QED
  BY <1>1, <1>2, <1>3, <1>4, <1>5, <1>6, <1>7, <1>8 DEF IInv

\* A request is lost.
LEMMA DropStep ==
  ASSUME IInv, NEW t \in Tasks, Drop(t)
  PROVE  IInv'
<1>1. TypeOK'
  BY DEF IInv, TypeOK, Drop, tableau, tasks
<1>2. Ids'
  BY DEF IInv, Ids, Drop, tableau, tasks
<1>3. Jobs'
  BY DEF IInv, TypeOK, Jobs, Drop, tableau, tasks
<1>4. Spans'
  BY DEF IInv, TypeOK, Spans, Drop, tableau, tasks
<1>5. Chosen'
  BY DEF IInv, TypeOK, Chosen, Jobs, Drop, tableau, tasks
<1>6. Requests'
  BY DEF IInv, TypeOK, Requests, Undone, Drop, tableau, tasks
<1>7. Outcomes'
  BY DEF IInv, TypeOK, Outcomes, Requests, Undone, Drop, tableau, tasks
<1>8. Deeds'
  BY DEF IInv, TypeOK, Deeds, Drop, tableau, tasks
<1> QED
  BY <1>1, <1>2, <1>3, <1>4, <1>5, <1>6, <1>7, <1>8 DEF IInv

\* A user is added.
LEMMA AddStep ==
  ASSUME IInv, NEW t \in Tasks, t \in wire, Add(t)
  PROVE  IInv'
<1>1. TypeOK'
  <2>1. NewUser(job[t].email, auth[t]) \in SiteUsers
    <3>1. job[t] \in Creations /\ auth[t] \in Auths
      BY DEF IInv, TypeOK, Add, Jobs, Requests, Deletions, NoJob
    <3>2. Cardinality(ever) \in Nat
      BY FS_CardinalityType DEF IInv, Ids
    <3> QED
      BY <3>1, <3>2 DEF NewUser, SiteUsers, Creations
  <2>2. answer' \in [Tasks -> {"none", "ok", "empty", "conflict", "missing", "denied"}]
    BY DEF IInv, TypeOK, Add, Answer
  <2>3. wire' \subseteq wire /\ UNCHANGED <<job, auth>>
    BY DEF Add, Answer
  <2>4. /\ users' = users \cup {NewUser(job[t].email, auth[t])}
       /\ ever' = ever \cup {NewUser(job[t].email, auth[t])}
       /\ deeds' = deeds \cup {[task |-> t, user |-> NewUser(job[t].email, auth[t])]}
    BY DEF Add
  <2>5. UNCHANGED <<site, endpoint, listed, phase, outcome, seen, span, changes>>
    BY DEF Add, Answer
  <2> QED
    BY <2>1, <2>2, <2>3, <2>4, <2>5 DEF IInv, TypeOK
<1>2. Ids'
  <2>1. ever' = ever \cup {NewUser(job[t].email, auth[t])} /\ NewUser(job[t].email, auth[t]) \notin ever
    BY FS_CardinalityType DEF IInv, Ids, Add, NewUser
  <2>2. IsFiniteSet(ever') /\ Cardinality(ever') = Cardinality(ever) + 1
    BY <2>1, FS_AddElement DEF IInv, Ids
  <2>3. Cardinality(ever) \in Nat /\ \A u \in ever : u.id \in Nat
    BY FS_CardinalityType DEF IInv, Ids, TypeOK, SiteUsers
  <2>4. NewUser(job[t].email, auth[t]).id = Cardinality(ever) + 1
    BY DEF NewUser
  <2>5. ASSUME NEW u \in ever' PROVE u.id <= Cardinality(ever')
    <3>1. CASE u \in ever
      <4>1. u.id <= Cardinality(ever)
        BY <3>1 DEF IInv, Ids
      <4> QED
        BY <2>2, <2>3, <3>1, <4>1
    <3>2. CASE u = NewUser(job[t].email, auth[t])
      BY <2>2, <2>3, <2>4, <3>2
    <3> QED
      BY <2>1, <3>1, <3>2
  <2> QED
    BY <2>2, <2>5 DEF Ids
<1>3. Jobs'
  BY DEF IInv, TypeOK, Jobs, Add, Answer, NewUser
<1>4. Spans'
  BY DEF IInv, TypeOK, Spans, Add, Answer, NewUser
<1>5. Chosen'
  BY DEF IInv, TypeOK, Chosen, Jobs, Add, Answer, NewUser, Creations
<1>6. Requests'
  <2>1. \A s \in Tasks : Undone(s)' <=> Undone(s) /\ s # t
    <3>1. PICK u : deeds' = deeds \cup {[task |-> t, user |-> u]}
      BY DEF Add
    <3>2. [task |-> t, user |-> u] \in deeds' /\ [task |-> t, user |-> u].task = t
      BY <3>1
    <3>3. \A d \in deeds' : d \in deeds \/ d.task = t
      BY <3>1
    <3> QED
      BY <3>1, <3>2, <3>3 DEF Undone
  <2>2. \A s \in Tasks \ {t} : UNCHANGED <<phase[s], answer[s], outcome[s]>> /\ (s \in wire' <=> s \in wire)
    BY DEF IInv, TypeOK, Add, Answer
  <2>3. t \notin wire' /\ answer'[t] \in {"none", "ok", "empty"} /\ phase'[t] \notin {"idle", "ready", "chosen"}
    BY DEF IInv, TypeOK, Requests, Add, Answer
  <2> QED
    BY <2>1, <2>2, <2>3 DEF IInv, Requests
<1>7. Outcomes'
  BY DEF IInv, TypeOK, Outcomes, Requests, Undone, Add, Answer, NewUser, Requests
<1>8. Deeds'
  <2> DEFINE u == NewUser(job[t].email, auth[t])
  <2>1. deeds' = deeds \cup {[task |-> t, user |-> u]} /\ users' = users \cup {u}
    BY DEF Add
  <2>2. UNCHANGED <<job, phase, auth>>
    BY DEF Add, Answer
  <2>3. u \notin ever
    BY FS_CardinalityType DEF IInv, Ids, NewUser
  <2>4. phase[t] \in {"waiting", "done"} /\ job[t].verb = "create" /\ auth[t] # "none"
    BY AccountsAssumption DEF IInv, TypeOK, Requests, Add, Auths
  <2>5. u.email = job[t].email /\ u.auth = auth[t]
    BY DEF NewUser
  <2>6. \A d \in deeds : d.user # u
    BY <2>3 DEF IInv, TypeOK
  <2> QED
    BY <2>1, <2>2, <2>4, <2>5, <2>6 DEF IInv, Deeds
<1> QED
  BY <1>1, <1>2, <1>3, <1>4, <1>5, <1>6, <1>7, <1>8 DEF IInv

\* A user is removed.
LEMMA RemoveStep ==
  ASSUME IInv, NEW t \in Tasks, t \in wire, Remove(t)
  PROVE  IInv'
<1>1. TypeOK'
  BY DEF IInv, TypeOK, Remove, Answer, SiteUsers
<1>2. Ids'
  BY DEF IInv, Ids, Remove, Answer
<1>3. Jobs'
  BY DEF IInv, TypeOK, Jobs, Remove, Answer
<1>4. Spans'
  BY DEF IInv, TypeOK, Spans, Remove, Answer
<1>5. Chosen'
  BY DEF IInv, TypeOK, Chosen, Jobs, Remove, Answer
<1>6. Requests'
  <2>1. \A s \in Tasks : Undone(s)' <=> Undone(s) /\ s # t
    <3>1. PICK u : deeds' = deeds \cup {[task |-> t, user |-> u]}
      BY DEF Remove
    <3>2. [task |-> t, user |-> u] \in deeds' /\ [task |-> t, user |-> u].task = t
      BY <3>1
    <3>3. \A d \in deeds' : d \in deeds \/ d.task = t
      BY <3>1
    <3> QED
      BY <3>1, <3>2, <3>3 DEF Undone
  <2>2. \A s \in Tasks \ {t} : UNCHANGED <<phase[s], answer[s], outcome[s]>> /\ (s \in wire' <=> s \in wire)
    BY DEF IInv, TypeOK, Remove, Answer
  <2>3. t \notin wire' /\ answer'[t] \in {"none", "ok", "empty"} /\ phase'[t] \notin {"idle", "ready", "chosen"}
    BY DEF IInv, TypeOK, Requests, Remove, Answer
  <2> QED
    BY <2>1, <2>2, <2>3 DEF IInv, Requests
<1>7. Outcomes'
  BY DEF IInv, TypeOK, Outcomes, Requests, Undone, Remove, Answer
<1>8. Deeds'
  BY DEF IInv, TypeOK, Deeds, Remove, Answer, Requests, Undone
<1> QED
  BY <1>1, <1>2, <1>3, <1>4, <1>5, <1>6, <1>7, <1>8 DEF IInv

\* A request is refused.
LEMMA RefuseStep ==
  ASSUME IInv, NEW t \in Tasks, t \in wire, Refuse(t)
  PROVE  IInv'
<1>1. TypeOK'
  BY DEF IInv, TypeOK, Refuse, Answer
<1>2. Ids'
  BY DEF IInv, Ids, Refuse, Answer
<1>3. Jobs'
  BY DEF IInv, TypeOK, Jobs, Refuse, Answer
<1>4. Spans'
  BY DEF IInv, TypeOK, Spans, Refuse, Answer
<1>5. Chosen'
  BY DEF IInv, TypeOK, Chosen, Jobs, Refuse, Answer
<1>6. Requests'
  BY DEF IInv, TypeOK, Requests, Undone, Refuse, Answer
<1>7. Outcomes'
  BY DEF IInv, TypeOK, Outcomes, Requests, Undone, Refuse, Answer
<1>8. Deeds'
  BY DEF IInv, TypeOK, Deeds, Refuse, Answer
<1> QED
  BY <1>1, <1>2, <1>3, <1>4, <1>5, <1>6, <1>7, <1>8 DEF IInv

\* The listing is forgotten.
LEMMA ForgetStep ==
  ASSUME IInv, Forget
  PROVE  IInv'
<1>1. TypeOK'
  BY DEF IInv, TypeOK, Forget, tableau, tasks
<1>2. Ids'
  BY DEF IInv, Ids, Forget, tableau, tasks
<1>3. Jobs'
  BY DEF IInv, TypeOK, Jobs, Forget, tableau, tasks
<1>4. Spans'
  BY DEF IInv, TypeOK, Spans, Forget, tableau, tasks
<1>5. Chosen'
  BY DEF IInv, TypeOK, Chosen, Jobs, Forget, tableau, tasks
<1>6. Requests'
  BY DEF IInv, TypeOK, Requests, Undone, Forget, tableau, tasks
<1>7. Outcomes'
  BY DEF IInv, TypeOK, Outcomes, Requests, Undone, Forget, tableau, tasks
<1>8. Deeds'
  BY DEF IInv, TypeOK, Deeds, Forget, tableau, tasks
<1> QED
  BY <1>1, <1>2, <1>3, <1>4, <1>5, <1>6, <1>7, <1>8 DEF IInv

\* Somebody adds a user.
LEMMA JoinStep ==
  ASSUME IInv, NEW e \in Emails, Join(e)
  PROVE  IInv'
<1>1. TypeOK'
  <2>1. changes' \in 0 .. MaxChanges
    BY AccountsAssumption DEF IInv, TypeOK, Join, Change
  <2>2. NewUser(e, "default") \in SiteUsers
    BY FS_CardinalityType DEF IInv, Ids, NewUser, SiteUsers, Auths
  <2> QED
    BY <2>1, <2>2 DEF IInv, TypeOK, Join, Change, tasks
<1>2. Ids'
  <2>1. ever' = ever \cup {NewUser(e, "default")} /\ NewUser(e, "default") \notin ever
    BY FS_CardinalityType DEF IInv, Ids, Join, NewUser
  <2>2. IsFiniteSet(ever') /\ Cardinality(ever') = Cardinality(ever) + 1
    BY <2>1, FS_AddElement DEF IInv, Ids
  <2>3. Cardinality(ever) \in Nat /\ \A u \in ever : u.id \in Nat
    BY FS_CardinalityType DEF IInv, Ids, TypeOK, SiteUsers
  <2>4. NewUser(e, "default").id = Cardinality(ever) + 1
    BY DEF NewUser
  <2>5. ASSUME NEW u \in ever' PROVE u.id <= Cardinality(ever')
    <3>1. CASE u \in ever
      <4>1. u.id <= Cardinality(ever)
        BY <3>1 DEF IInv, Ids
      <4> QED
        BY <2>2, <2>3, <3>1, <4>1
    <3>2. CASE u = NewUser(e, "default")
      BY <2>2, <2>3, <2>4, <3>2
    <3> QED
      BY <2>1, <3>1, <3>2
  <2> QED
    BY <2>2, <2>5 DEF Ids
<1>3. Jobs'
  BY DEF IInv, TypeOK, Jobs, Join, Change, NewUser, tasks
<1>4. Spans'
  BY DEF IInv, TypeOK, Spans, Join, Change, NewUser, tasks
<1>5. Chosen'
  BY DEF IInv, TypeOK, Chosen, Jobs, Join, Change, NewUser, tasks
<1>6. Requests'
  BY DEF IInv, TypeOK, Requests, Undone, Join, Change, NewUser, tasks
<1>7. Outcomes'
  BY DEF IInv, TypeOK, Outcomes, Requests, Undone, Join, Change, NewUser, tasks
<1>8. Deeds'
  <2>1. NewUser(e, "default") \notin ever
    BY FS_CardinalityType DEF IInv, Ids, NewUser
  <2>2. \A d \in deeds : d.user # NewUser(e, "default")
    BY <2>1 DEF IInv, TypeOK
  <2> QED
    BY <2>2 DEF IInv, Deeds, Join, Change, tasks
<1> QED
  BY <1>1, <1>2, <1>3, <1>4, <1>5, <1>6, <1>7, <1>8 DEF IInv

\* Somebody removes one.
LEMMA LeaveStep ==
  ASSUME IInv, NEW u \in users, Leave(u)
  PROVE  IInv'
<1>1. TypeOK'
  <2>1. changes' \in 0 .. MaxChanges
    BY AccountsAssumption DEF IInv, TypeOK, Leave, Change
  <2> QED
    BY <2>1 DEF IInv, TypeOK, Leave, Change, tasks
<1>2. Ids'
  BY DEF IInv, Ids, Leave, Change, tasks
<1>3. Jobs'
  BY DEF IInv, TypeOK, Jobs, Leave, Change, tasks
<1>4. Spans'
  BY DEF IInv, TypeOK, Spans, Leave, Change, tasks
<1>5. Chosen'
  BY DEF IInv, TypeOK, Chosen, Jobs, Leave, Change, tasks
<1>6. Requests'
  BY DEF IInv, TypeOK, Requests, Undone, Leave, Change, tasks
<1>7. Outcomes'
  BY DEF IInv, TypeOK, Outcomes, Requests, Undone, Leave, Change, tasks
<1>8. Deeds'
  BY DEF IInv, TypeOK, Deeds, Leave, Change, tasks
<1> QED
  BY <1>1, <1>2, <1>3, <1>4, <1>5, <1>6, <1>7, <1>8 DEF IInv

\* Somebody changes a configuration.
LEMMA ConfigureStep ==
  ASSUME IInv, NEW c \in Configs, NEW k \in Kinds \cup {"off"}, Configure(c, k)
  PROVE  IInv'
<1>1. TypeOK'
  <2>1. changes' \in 0 .. MaxChanges
    BY AccountsAssumption DEF IInv, TypeOK, Configure, Change
  <2>2. site' \in Settings
    BY DEF IInv, TypeOK, Configure, Settings
  <2>3. seen' \subseteq Settings /\ span' \in [Tasks -> SUBSET Settings]
    BY <2>2 DEF IInv, TypeOK, Configure
  <2> QED
    BY <2>1, <2>2, <2>3 DEF IInv, TypeOK, Configure, Change, tasks
<1>2. Ids'
  BY DEF IInv, Ids, Configure, Change, tasks
<1>3. Jobs'
  BY DEF IInv, TypeOK, Jobs, Configure, Change, tasks
<1>4. Spans'
  BY DEF IInv, TypeOK, Spans, Configure, Change, tasks
<1>5. Chosen'
  BY JustifiedLasts DEF IInv, TypeOK, Chosen, Jobs, Configure, Change, tasks
<1>6. Requests'
  BY DEF IInv, TypeOK, Requests, Undone, Configure, Change, tasks
<1>7. Outcomes'
  BY DEF IInv, TypeOK, Outcomes, Requests, Undone, Configure, Change, tasks
<1>8. Deeds'
  BY DEF IInv, TypeOK, Deeds, Configure, Change, tasks
<1> QED
  BY <1>1, <1>2, <1>3, <1>4, <1>5, <1>6, <1>7, <1>8 DEF IInv
-----------------------------------------------------------------------------
LEMMA InitIInv == Init => IInv
<1> SUFFICES ASSUME Init PROVE IInv
  OBVIOUS
<1>1. TypeOK
  BY AccountsAssumption DEF Init, TypeOK, Settings
<1>2. Ids
  BY FS_EmptySet DEF Init, Ids
<1>3. Jobs /\ Spans /\ Chosen
  BY DEF Init, Jobs, Spans, Chosen
<1>4. Requests /\ Outcomes /\ Deeds
  BY DEF Init, Requests, Outcomes, Deeds, Undone
<1> QED
  BY <1>1, <1>2, <1>3, <1>4 DEF IInv

LEMMA NextIInv == IInv /\ [Next]_vars => IInv'
<1> SUFFICES ASSUME IInv, [Next]_vars PROVE IInv'
  OBVIOUS
<1>1. ASSUME NEW t \in Tasks, StartCreate(t) PROVE IInv'
  BY <1>1, StartStep DEF StartCreate
<1>2. ASSUME NEW t \in Tasks, StartDelete(t) PROVE IInv'
  <2>1. PICK u \in ever : Start(t, [verb |-> "delete", user |-> u], "chosen")
    BY <1>2 DEF StartDelete
  <2> DEFINE j == [verb |-> "delete", user |-> u]
  <2>2. j \in [verb : {"delete"}, user : ever] /\ j \notin Creations
    BY DEF Creations
  <2> HIDE DEF j
  <2> QED
    BY <2>1, <2>2, StartStep DEF j
<1>3. ASSUME NEW t \in Tasks, Task(t) PROVE IInv'
  BY <1>3, SelectStep, SendStep, ReceiveStep, TimeoutStep DEF Task
<1>4. ASSUME NEW t \in Tasks, Serve(t) PROVE IInv'
  BY <1>4, AddStep, RemoveStep, RefuseStep DEF Serve
<1>5. ASSUME NEW t \in Tasks, Drop(t) PROVE IInv'
  BY <1>5, DropStep
<1>6. CASE UNCHANGED vars
  <2>1. UNCHANGED <<users, site, endpoint, listed, job, phase, auth, answer, outcome,
                    wire, ever, deeds, seen, span, changes>>
    BY <1>6 DEF vars, tableau, tasks
  <2>2. TypeOK' /\ Ids' /\ Jobs' /\ Spans'
    BY <2>1 DEF IInv, TypeOK, Ids, Jobs, Spans
  <2>3. Chosen' /\ Requests' /\ Outcomes' /\ Deeds'
    BY <2>1 DEF IInv, Chosen, Requests, Outcomes, Deeds, Undone
  <2> QED
    BY <2>2, <2>3 DEF IInv
<1> QED
  BY <1>1, <1>2, <1>3, <1>4, <1>5, <1>6, ForgetStep, JoinStep, LeaveStep, ConfigureStep DEF Next

LEMMA Inductive == Spec => []IInv
BY InitIInv, NextIInv, PTL DEF Spec

\* Every variable keeps its type, and no user is asked for without a sign-in
\* (CreateAccount, Delete).
THEOREM Types == Spec => []TypeOK
<1>1. IInv => TypeOK
  BY DEF IInv
<1> QED
  BY <1>1, Inductive, PTL

\* No user is ever added with a sign-in that was not justified
\* (selectIDPConfiguration).
THEOREM SignIn == Spec => []SignInIsJustified
<1>1. IInv => SignInIsJustified
  <2> SUFFICES ASSUME IInv, NEW d \in deeds, job[d.task].verb = "create"
               PROVE  Justified(job[d.task].wants, endpoint, span[d.task], d.user.auth)
    BY DEF SignInIsJustified
  <2>1. d.task \in Tasks
    BY DEF IInv, TypeOK
  <2>2. d.user.auth = auth[d.task] /\ auth[d.task] # "none" /\ phase[d.task] # "idle"
    BY DEF IInv, Deeds
  <2>3. job[d.task] \in Creations
    BY <2>1, <2>2 DEF IInv, Jobs
  <2> QED
    BY <2>1, <2>2, <2>3 DEF IInv, Chosen
<1> QED
  BY <1>1, Inductive, PTL

\* A reported success is the task's own, and a user reported as deleted is
\* gone for good (CreateAccount, Delete).
THEOREM Truth == Spec => []ReportIsTrue
<1>1. IInv => ReportIsTrue
  <2> SUFFICES ASSUME IInv, NEW t \in Tasks
               PROVE  /\ outcome[t] = "created" =>
                           \E d \in deeds :
                             /\ d.task = t
                             /\ d.user.email = job[t].email /\ d.user.auth = auth[t]
                      /\ outcome[t] = "deleted" =>
                           /\ \E d \in deeds : d.task = t /\ d.user = job[t].user
                           /\ job[t].user \notin users
    BY DEF ReportIsTrue
  <2> QED
    BY DEF IInv, Outcomes, Undone, Deeds
<1> QED
  BY <1>1, Inductive, PTL

\* A task that failed for a reason Tableau gave has changed nothing and never
\* will (CreateAccount, Delete).
THEOREM Harmless == Spec => []FailureChangesNothing
<1>1. IInv => FailureChangesNothing
  BY DEF IInv, Outcomes, Undone, FailureChangesNothing
<1> QED
  BY <1>1, Inductive, PTL
-----------------------------------------------------------------------------
(***************************************************************************)
(* The refinement of AccountContract.  The one step of a task that the     *)
(* contract calls Act is Tableau's, when it carries out the request, which *)
(* may be after the task has ended; the choice of a sign-in, the sending   *)
(* and the losing of requests it does not see.                             *)
(***************************************************************************)

Acted == {d.task : d \in deeds}

JobsSeen == [t \in Tasks |-> JobOf(job[t])]

Results == [t \in Tasks |-> ResultOf(outcome[t])]

\* What the contract sees of a task that does not change.
LEMMA Unseen ==
  ASSUME UNCHANGED <<users, ever, job, deeds, outcome>>
  PROVE  UNCHANGED Contract!vars
BY DEF Contract!vars

LEMMA ActedOrNot == \A t \in Tasks : t \notin Acted <=> Undone(t)
BY DEF Acted, Undone

LEMMA ContractInit == Init => Contract!Init
<1> SUFFICES ASSUME Init PROVE Contract!Init
  OBVIOUS
<1>1. JobsSeen = [t \in Tasks |-> NoJob] /\ Results = [t \in Tasks |-> "none"] /\ Acted = {}
  BY DEF Init, JobsSeen, JobOf, NoJob, Results, ResultOf, Acted
<1> QED
  BY <1>1 DEF Init, Contract!Init, Contract!NoJob, NoJob, JobsSeen, Results, Acted

\* The platform sends a task.
LEMMA StartKeepsContract ==
  ASSUME IInv, NEW t \in Tasks, StartCreate(t) \/ StartDelete(t)
  PROVE  Contract!Start(t)
<1>1. PICK j \in Creations \cup [verb : {"delete"}, user : ever], ph \in {"ready", "chosen"} :
        Start(t, j, ph)
  BY DEF StartCreate, StartDelete
<1>2. /\ job[t] = NoJob /\ job' = [job EXCEPT ![t] = j]
      /\ UNCHANGED <<users, ever, deeds, outcome>>
  BY <1>1 DEF IInv, Jobs, Start, tableau
<1>3. JobsSeen[t] = NoJob
  BY <1>2 DEF JobsSeen, JobOf, NoJob
<1>4. JobsSeen' = [JobsSeen EXCEPT ![t] = JobOf(j)]
  <2>1. job \in [Tasks -> Creations \cup Deletions \cup {NoJob}]
    BY DEF IInv, TypeOK
  <2> QED
    BY <1>2, <2>1 DEF JobsSeen
<1>5. CASE j \in Creations
  <2>1. JobOf(j) = [verb |-> "create", email |-> j.email] /\ j.email \in Emails
    BY <1>5 DEF JobOf, Creations
  <2> QED
    BY <1>2, <1>3, <1>4, <2>1 DEF Contract!Start, Contract!NoJob, NoJob, JobsSeen
<1>6. CASE j \in [verb : {"delete"}, user : ever]
  <2>1. JobOf(j) = [verb |-> "delete", user |-> j.user] /\ j.user \in ever
    BY <1>6 DEF JobOf
  <2> QED
    BY <1>2, <1>3, <1>4, <2>1 DEF Contract!Start, Contract!NoJob, NoJob, JobsSeen
<1> QED
  BY <1>5, <1>6

\* A task ends, with an outcome that is true of what it has done.
LEMMA EndKeepsContract ==
  ASSUME IInv, NEW t \in Tasks, NEW o \in {"created", "deleted", "failed", "unsure"},
         End(t, o), phase[t] \in {"ready", "waiting"},
         UNCHANGED <<users, ever, job, deeds>>,
         o \in {"created", "deleted"} => ~Undone(t),
         o = "failed" => Undone(t)
  PROVE  \E r \in {"success", "failure", "unsure"} : Contract!Finish(t, r)
<1> DEFINE r == ResultOf(o)
<1>1. JobsSeen[t] # Contract!NoJob
  <2>1. job[t] \in Creations \cup [verb : {"delete"}, user : ever]
    BY DEF IInv, Jobs
  <2>2. job[t].verb \in {"create", "delete"}
    BY <2>1 DEF Creations
  <2>3. JobsSeen[t].verb \in {"create", "delete"}
    BY <2>2 DEF JobsSeen, JobOf
  <2>4. Contract!NoJob.verb = "none"
    BY DEF Contract!NoJob
  <2> QED
    BY <2>3, <2>4
<1>2. Results[t] = "none"
  BY DEF IInv, Outcomes, Results, ResultOf
<1>3. Results' = [Results EXCEPT ![t] = r]
  <2>1. outcome' = [outcome EXCEPT ![t] = o]
    BY DEF End
  <2>2. outcome \in [Tasks -> {"none", "created", "deleted", "failed", "unsure"}]
    BY DEF IInv, TypeOK
  <2> QED
    BY <2>1, <2>2 DEF Results
<1>4. r \in {"success", "failure", "unsure"}
  BY DEF ResultOf
<1>5. (r = "success" => t \in Acted) /\ (r = "failure" => t \notin Acted)
  BY ActedOrNot DEF ResultOf
<1> HIDE DEF r
<1>6. UNCHANGED <<users, ever, JobsSeen, Acted>>
  BY DEF JobsSeen, Acted
<1> QED
  BY <1>1, <1>2, <1>3, <1>4, <1>5, <1>6 DEF Contract!Finish, JobsSeen, Results, Acted

\* A step of a task: it ends, or the contract does not see it.
LEMMA TaskKeepsContract ==
  ASSUME IInv, NEW t \in Tasks, Task(t)
  PROVE  \/ \E r \in {"success", "failure", "unsure"} : Contract!Finish(t, r)
         \/ UNCHANGED Contract!vars
<1>1. CASE Select(t)
  <2>1. UNCHANGED <<users, ever, job, deeds>> /\ phase[t] = "ready"
    BY <1>1 DEF Select, tableau
  <2>2. Undone(t)
    BY <2>1 DEF IInv, Requests
  <2>3. End(t, "failed") \/ UNCHANGED outcome
    BY <1>1 DEF Select, Look, Choose
  <2> QED
    BY <2>1, <2>2, <2>3, EndKeepsContract, Unseen
<1>2. CASE Send(t)
  BY <1>2, Unseen DEF Send, tableau
<1>3. CASE Receive(t)
  <2> DEFINE o == Verdict(job[t].verb, answer[t])
  <2>1. /\ UNCHANGED <<users, ever, job, deeds>> /\ phase[t] = "waiting"
        /\ answer[t] # "none" /\ End(t, o)
    BY <1>3 DEF Receive, tableau
  <2>2. answer[t] \in {"ok", "empty", "conflict", "missing", "denied"}
    BY <2>1 DEF IInv, TypeOK
  <2>3. o \in {"created", "deleted", "failed", "unsure"}
    BY DEF Verdict, Success
  <2>4. o \in {"created", "deleted"} => ~Undone(t)
    BY DEF IInv, Requests, Verdict, Success
  <2>5. o = "failed" => Undone(t)
    BY <2>2 DEF IInv, Requests, Verdict, Success
  <2> HIDE DEF o
  <2> QED
    BY <2>1, <2>3, <2>4, <2>5, EndKeepsContract
<1>4. CASE Timeout(t)
  BY <1>4, EndKeepsContract DEF Timeout, tableau
<1> QED
  BY <1>1, <1>2, <1>3, <1>4 DEF Task

\* A user is added.
LEMMA AddKeepsContract ==
  ASSUME NEW e, NEW a \in Auths, NEW u,
         u = [id |-> Cardinality(ever) + 1, email |-> e, auth |-> a],
         \A v \in users : v.email # e,
         users' = users \cup {u}, ever' = ever \cup {u}
  PROVE  Contract!Add(e)
<1>1. /\ users' = users \cup {[id |-> Cardinality(ever) + 1, email |-> e, auth |-> a]}
      /\ ever' = ever \cup {[id |-> Cardinality(ever) + 1, email |-> e, auth |-> a]}
  OBVIOUS
<1>2. Contract!Cardinality(ever) = Cardinality(ever)
  BY DEF Contract!Cardinality, Cardinality
<1> QED
  BY <1>1, <1>2 DEF Contract!Add

\* Tableau carries out a request, the only one of its task, or refuses it.
LEMMA ServeKeepsContract ==
  ASSUME IInv, NEW t \in Tasks, Serve(t)
  PROVE  Contract!Act(t) \/ UNCHANGED Contract!vars
<1>1. t \in wire
  BY DEF Serve
<1>2. t \notin Acted /\ Results[t] \in {"none", "unsure"}
  <2>1. Undone(t) /\ outcome[t] \in {"none", "unsure"}
    BY <1>1 DEF IInv, Requests
  <2> QED
    BY <2>1, ActedOrNot DEF Results, ResultOf
<1>3. CASE Add(t)
  <2> DEFINE u == NewUser(job[t].email, auth[t])
  <2>1. /\ users' = users \cup {u} /\ ever' = ever \cup {u}
        /\ deeds' = deeds \cup {[task |-> t, user |-> u]}
        /\ \A v \in users : v.email # u.email
        /\ job[t].verb = "create" /\ UNCHANGED <<job, outcome>>
    BY <1>3 DEF Add, Answer
  <2>2. JobsSeen[t] = [verb |-> "create", email |-> job[t].email]
    BY <2>1 DEF JobsSeen, JobOf
  <2>3. auth[t] \in Auths
    BY <1>1, <2>1 DEF IInv, TypeOK
  <2>4. u = [id |-> Cardinality(ever) + 1, email |-> job[t].email, auth |-> auth[t]]
    BY DEF NewUser
  <2>5. Acted' = Acted \cup {t}
    <3>1. \A d \in deeds' : d \in deeds \/ d = [task |-> t, user |-> u]
      BY <2>1
    <3>2. deeds \subseteq deeds' /\ [task |-> t, user |-> u] \in deeds'
      BY <2>1
    <3>3. [task |-> t, user |-> u].task = t
      OBVIOUS
    <3> QED
      BY <3>1, <3>2, <3>3 DEF Acted
  <2> HIDE DEF u
  <2>6. Contract!Add(job[t].email)
    <3>1. u.email = job[t].email
      BY <2>4
    <3> QED
      BY <2>1, <2>3, <2>4, <3>1, AddKeepsContract
  <2>7. UNCHANGED <<JobsSeen, Results>>
    BY <2>1 DEF JobsSeen, Results
  <2>8. JobsSeen[t].verb = "create" /\ JobsSeen[t].email = job[t].email
    BY <2>2
  <2> QED
    BY <1>2, <2>5, <2>6, <2>7, <2>8 DEF Contract!Act, JobsSeen, Results, Acted
<1>4. CASE Remove(t)
  <2>1. /\ job[t].user \in users /\ users' = users \ {job[t].user} /\ ever' = ever
        /\ deeds' = deeds \cup {[task |-> t, user |-> job[t].user]}
        /\ job[t].verb = "delete" /\ UNCHANGED <<job, outcome>>
    BY <1>4 DEF Remove, Answer
  <2>2. JobsSeen[t] = job[t]
    BY <2>1 DEF JobsSeen, JobOf
  <2>3. Acted' = Acted \cup {t}
    <3>1. \A d \in deeds' : d \in deeds \/ d = [task |-> t, user |-> job[t].user]
      BY <2>1
    <3>2. deeds \subseteq deeds' /\ [task |-> t, user |-> job[t].user] \in deeds'
      BY <2>1
    <3>3. [task |-> t, user |-> job[t].user].task = t
      OBVIOUS
    <3> QED
      BY <3>1, <3>2, <3>3 DEF Acted
  <2>4. Contract!Remove(job[t].user)
    BY <2>1 DEF Contract!Remove
  <2>5. UNCHANGED <<JobsSeen, Results>>
    BY <2>1 DEF JobsSeen, Results
  <2> QED
    BY <1>2, <2>1, <2>2, <2>3, <2>4, <2>5 DEF Contract!Act, JobsSeen, Results, Acted
<1>5. CASE Refuse(t)
  BY <1>5, Unseen DEF Refuse, Answer
<1> QED
  BY <1>3, <1>4, <1>5 DEF Serve

\* Somebody else adds or removes a user.
LEMMA OutsideKeepsContract ==
  ASSUME IInv, (\E e \in Emails : Join(e)) \/ (\E u \in users : Leave(u))
  PROVE  Contract!Outside
<1>1. UNCHANGED <<job, deeds, outcome>>
  BY DEF Join, Leave, Change, tasks
<1>2. ASSUME NEW e \in Emails, Join(e) PROVE Contract!Add(e)
  <2>1. "default" \in Auths
    BY DEF Auths
  <2>2. NewUser(e, "default") = [id |-> Cardinality(ever) + 1, email |-> e, auth |-> "default"]
    BY DEF NewUser
  <2>3. NewUser(e, "default").email = e
    BY <2>2
  <2> QED
    BY <1>2, <2>1, <2>2, <2>3, AddKeepsContract DEF Join
<1>3. ASSUME NEW u \in users, Leave(u) PROVE Contract!Remove(u)
  BY <1>3 DEF Leave, Contract!Remove
<1> QED
  BY <1>1, <1>2, <1>3 DEF Contract!Outside

\* Late and lost requests and lost answers included, the tasks that create and
\* delete accounts (userBuilder.CreateAccount and Delete) implement the contract
\* of such tasks, for any number of them: each acts at most once.
THEOREM Refinement == Spec => KeepsContract
<1>1. IInv /\ [Next]_vars => [Contract!Next]_(Contract!vars)
  <2> SUFFICES ASSUME IInv, [Next]_vars
               PROVE  Contract!Next \/ UNCHANGED Contract!vars
    OBVIOUS
  <2>1. ASSUME NEW t \in Tasks, StartCreate(t) \/ StartDelete(t) PROVE Contract!Next
    BY <2>1, StartKeepsContract DEF Contract!Next
  <2>2. ASSUME NEW t \in Tasks, Task(t) PROVE Contract!Next \/ UNCHANGED Contract!vars
    BY <2>2, TaskKeepsContract DEF Contract!Next
  <2>3. ASSUME NEW t \in Tasks, Serve(t) PROVE Contract!Next \/ UNCHANGED Contract!vars
    BY <2>3, ServeKeepsContract DEF Contract!Next
  <2>4. ASSUME NEW t \in Tasks, Drop(t) PROVE UNCHANGED Contract!vars
    BY <2>4, Unseen DEF Drop, tableau, tasks
  <2>5. CASE Forget
    BY <2>5, Unseen DEF Forget, tableau, tasks
  <2>6. ASSUME NEW e \in Emails, Join(e) PROVE Contract!Next
    BY <2>6, OutsideKeepsContract DEF Contract!Next
  <2>7. ASSUME NEW u \in users, Leave(u) PROVE Contract!Next
    BY <2>7, OutsideKeepsContract DEF Contract!Next
  <2>8. ASSUME NEW c \in Configs, NEW k \in Kinds \cup {"off"}, Configure(c, k)
        PROVE  UNCHANGED Contract!vars
    BY <2>8, Unseen DEF Configure, Change, tasks
  <2>9. CASE UNCHANGED vars
    BY <2>9, Unseen DEF vars, tableau, tasks
  <2> QED
    BY <2>1, <2>2, <2>3, <2>4, <2>5, <2>6, <2>7, <2>8, <2>9 DEF Next
<1> QED
  BY <1>1, ContractInit, Inductive, PTL DEF Spec, KeepsContract, Contract!Spec
=============================================================================
