-------------------------- MODULE SiteRoles_proofs --------------------------
(***************************************************************************)
(* Proofs about SiteRoles, for any tasks, users and bound on retries.      *)
(* That a success lasts rests on what is left of a task when it is over:   *)
(* one that ended at its first try, answered, has no request on the wire,  *)
(* so it cannot disturb a task that starts later.                          *)
(***************************************************************************)
EXTENDS SiteRoles, TLAPS

\* A success is answered to a task that has reached its goal, and a task that is
\* not over has a try left.
Told ==
  \A t \in Tasks :
    /\ phase[t] # "waiting" => answer[t] = "none"
    /\ phase[t] # "done" => outcome[t] = "none" /\ tries[t] <= MaxRetries
    /\ answer[t] = "ok" \/ outcome[t] = "applied" => t \in met \/ InVain(job[t])

\* The request of the present try is on the wire only while the task waits for
\* its answer, or has given up.
OnTheWire ==
  \A r \in wire :
    /\ r.try <= tries[r.task]
    /\ phase[r.task] = "ready" => r.try < tries[r.task]
    /\ answer[r.task] # "none" => r.try < tries[r.task]
    /\ Answered(r.task) => r.try < tries[r.task]

\* A task that is over when another starts has no request left.
OverBefore == \A p \in before : Answered(p[1])

\* What a task has reached stays, as long as nobody else sets the role.
Held == \A t \in alone : t \in met /\ ~InVain(job[t]) => role[job[t].user] \in Goal(job[t])

IInv == TypeOK /\ Told /\ OnTheWire /\ OverBefore /\ Held
-----------------------------------------------------------------------------
LEMMA Tables ==
  /\ licenses \subseteq roles
  /\ "Unlicensed" \in roles /\ "SiteAdministratorExplorer" \in roles
  /\ \A l \in licenses : l \in RolesPerLicense[l]
  /\ \A l \in licenses : "Unlicensed" \in RolesPerLicense[l] => l = "Unlicensed"
  /\ "SiteAdministrator" \notin licenses
BY DEF licenses, roles, RolesPerLicense

\* Carrying out a task's request brings the user to the task's goal.
LEMMA TargetMeetsGoal ==
  ASSUME NEW j \in Jobs, ~InVain(j), NEW s \in Stored(Target(j))
  PROVE  s \in Goal(j)
<1>0. j.what \in roles /\ (j.kind = "license" => j.what \in licenses)
  BY SiteRolesAssumption DEF Jobs
<1>1. CASE j.verb = "grant"
  <2>1. s \in Stored(j.what)
    BY <1>1 DEF Target
  <2>2. CASE j.kind = "license"
    BY <1>0, <1>1, <2>1, <2>2, Tables DEF Stored, Goal, Showing
  <2>3. CASE j.kind # "license"
    BY <1>1, <2>1, <2>3 DEF Goal, Showing
  <2> QED
    BY <2>2, <2>3
<1>2. CASE j.verb # "grant"
  <2>1. s = "Unlicensed" /\ j.what # "Unlicensed"
    BY <1>2 DEF Target, Stored, InVain, Jobs
  <2>2. "Unlicensed" \notin Showing(j)
    BY <1>0, <2>1, Tables DEF Showing, Stored
  <2> QED
    BY <1>2, <2>1, <2>2, Tables DEF Goal
<1> QED
  BY <1>1, <1>2
-----------------------------------------------------------------------------
\* A task is sent.
LEMMA StartStep ==
  ASSUME IInv, NEW t \in Tasks, NEW j \in Jobs, Start(t, j)
  PROVE  IInv'
<1>1. TypeOK'
  <2>1. j # NoJob /\ t \notin Started
    BY DEF IInv, TypeOK, Start, Started, Jobs, NoJob
  <2>2. Started' = Started \cup {t}
    BY <2>1 DEF IInv, TypeOK, Start, Started
  <2>3. job' \in [Tasks -> Jobs \cup {NoJob}] /\ phase' \in [Tasks -> {"idle", "ready", "waiting", "done"}]
    BY DEF IInv, TypeOK, Start
  <2>4. \A s \in Tasks : phase'[s] = "idle" <=> job'[s] = NoJob
    BY <2>1 DEF IInv, TypeOK, Start
  <2>5. wire' \subseteq [task : Started', try : 0 .. MaxRetries]
    BY <2>2 DEF IInv, TypeOK, Start
  <2>6. met' \subseteq Started' /\ alone' \subseteq Started'
    BY <2>2 DEF IInv, TypeOK, Start
  <2>7. before' \subseteq Started' \X Started'
    <3>1. {s \in Tasks : Answered(s)} \subseteq Started
      BY DEF IInv, TypeOK, Answered, Started
    <3> QED
      BY <2>2, <3>1 DEF IInv, TypeOK, Start
  <2> QED
    BY <2>3, <2>4, <2>5, <2>6, <2>7 DEF IInv, TypeOK, Start
<1>2. Told'
  <2>1. t \notin met /\ answer[t] = "none" /\ outcome[t] = "none"
    BY DEF IInv, TypeOK, Told, Start, Started
  <2>2. \A s \in Tasks \ {t} : job'[s] = job[s] /\ phase'[s] = phase[s]
    BY DEF IInv, TypeOK, Start
  <2> QED
    BY <2>1, <2>2 DEF IInv, Told, Start
<1>3. OnTheWire'
  <2>1. \A r \in wire : r.task # t /\ r.task \in Tasks
    BY DEF IInv, TypeOK, Start, Started
  <2> QED
    BY <2>1 DEF IInv, TypeOK, OnTheWire, Answered, Start
<1>4. OverBefore'
  <2>1. \A s \in Tasks : Answered(s) => Answered(s)'
    BY DEF IInv, TypeOK, Start, Answered
  <2>2. \A p \in before' : p[1] \in Tasks /\ Answered(p[1])
    BY DEF IInv, TypeOK, OverBefore, Start, Started
  <2> QED
    BY <2>1, <2>2 DEF OverBefore
<1>5. Held'
  <2>1. t \notin met /\ t \notin alone /\ job'[t] = j
    BY DEF IInv, TypeOK, Start, Started
  <2>2. \A s \in Tasks \ {t} : job'[s] = job[s]
    BY DEF IInv, TypeOK, Start
  <2>3. alone \subseteq Tasks
    BY DEF IInv, TypeOK, Started
  <2> QED
    BY <2>1, <2>2, <2>3 DEF IInv, Held, Start
<1> QED
  BY <1>1, <1>2, <1>3, <1>4, <1>5 DEF IInv

\* A task reports and ends.  An answer that is reported as a success is "ok".
LEMMA EndStep ==
  ASSUME IInv, NEW t \in Tasks, NEW o \in {"applied", "rejected", "failed"}, End(t, o),
         phase[t] \in {"ready", "waiting"},
         o = "applied" => answer[t] = "ok",
         o = "rejected" => phase[t] = "ready",
         tries' = tries \/ (o = "failed" /\ tries' = [tries EXCEPT ![t] = @ + 1]
                            /\ tries[t] <= MaxRetries)
  PROVE  IInv'
<1>1. TypeOK'
  <2>1. tries' \in [Tasks -> 0 .. MaxRetries + 1]
    BY SiteRolesAssumption DEF IInv, TypeOK
  <2>2. Started' = Started
    BY DEF Started, End
  <2>3. \A s \in Tasks : phase'[s] = "idle" <=> phase[s] = "idle"
    BY DEF IInv, TypeOK, End
  <2>4. /\ phase' \in [Tasks -> {"idle", "ready", "waiting", "done"}]
        /\ answer' \in [Tasks -> {"none", "ok", "missing", "denied"}]
        /\ outcome' \in [Tasks -> {"none", "applied", "rejected", "failed"}]
    BY DEF IInv, TypeOK, End
  <2> QED
    BY <2>1, <2>2, <2>3, <2>4 DEF IInv, TypeOK, End, history
<1>2. Told'
  BY DEF IInv, TypeOK, Told, End, history
<1>3. OnTheWire'
  <2>1. \A s \in Tasks \ {t} : UNCHANGED <<phase[s], answer[s], tries[s], outcome[s]>>
    BY DEF IInv, TypeOK, End
  <2>2. /\ phase'[t] = "done" /\ answer'[t] = "none" /\ outcome'[t] = o
        /\ tries'[t] = tries[t] \/ (o = "failed" /\ tries'[t] = tries[t] + 1)
    BY DEF IInv, TypeOK, End
  <2>3. \A r \in wire : r.task \in Tasks /\ r.try \in Nat /\ tries[r.task] \in Nat
    BY SiteRolesAssumption DEF IInv, TypeOK, Started
  <2>4. wire' = wire
    BY DEF End
  <2> QED
    BY <2>1, <2>2, <2>3, <2>4 DEF IInv, OnTheWire, Answered
<1>4. OverBefore'
  <2>1. \A s \in Tasks \ {t} : UNCHANGED <<phase[s], tries[s], outcome[s]>>
    BY DEF IInv, TypeOK, End
  <2>2. \A p \in before : p[1] \in Tasks \ {t}
    BY DEF IInv, TypeOK, OverBefore, Answered, Started
  <2> QED
    BY <2>1, <2>2 DEF IInv, OverBefore, Answered, End, history
<1>5. Held'
  BY DEF IInv, TypeOK, Held, End, history
<1> QED
  BY <1>1, <1>2, <1>3, <1>4, <1>5 DEF IInv

\* A task starts over.
LEMMA RetryStep ==
  ASSUME IInv, NEW t \in Tasks, phase[t] = "waiting", tries[t] < MaxRetries,
         tries' = [tries EXCEPT ![t] = @ + 1],
         phase' = [phase EXCEPT ![t] = "ready"],
         answer' = [answer EXCEPT ![t] = "none"],
         UNCHANGED <<role, job, outcome, wire, history>>
  PROVE  IInv'
<1>1. TypeOK'
  <2>1. tries' \in [Tasks -> 0 .. MaxRetries + 1]
    BY SiteRolesAssumption DEF IInv, TypeOK
  <2>2. Started' = Started
    BY DEF Started
  <2> QED
    BY <2>1, <2>2 DEF IInv, TypeOK, history
<1>2. Told'
  <2>1. tries'[t] <= MaxRetries
    BY SiteRolesAssumption DEF IInv, TypeOK
  <2>2. outcome[t] = "none" /\ answer'[t] = "none" /\ phase'[t] = "ready"
    BY DEF IInv, TypeOK, Told
  <2>3. \A s \in Tasks \ {t} : UNCHANGED <<phase[s], answer[s], tries[s]>>
    BY DEF IInv, TypeOK
  <2> QED
    BY <2>1, <2>2, <2>3 DEF IInv, Told, history
<1>3. OnTheWire'
  <2>1. \A s \in Tasks \ {t} : UNCHANGED <<phase[s], answer[s], tries[s], outcome[s]>>
    BY DEF IInv, TypeOK
  <2>2. phase'[t] = "ready" /\ answer'[t] = "none" /\ tries'[t] = tries[t] + 1
    BY DEF IInv, TypeOK
  <2>3. \A r \in wire : r.task \in Tasks /\ r.try \in Nat /\ tries[r.task] \in Nat
    BY SiteRolesAssumption DEF IInv, TypeOK, Started
  <2> QED
    BY <2>1, <2>2, <2>3 DEF IInv, OnTheWire, Answered
<1>4. OverBefore'
  <2>1. \A s \in Tasks \ {t} : UNCHANGED <<phase[s], tries[s], outcome[s]>>
    BY DEF IInv, TypeOK
  <2>2. \A p \in before : p[1] \in Tasks \ {t}
    BY DEF IInv, TypeOK, OverBefore, Answered, Started
  <2> QED
    BY <2>1, <2>2 DEF IInv, OverBefore, Answered, history
<1>5. Held'
  BY DEF IInv, TypeOK, Held, history
<1> QED
  BY <1>1, <1>2, <1>3, <1>4, <1>5 DEF IInv

\* The PUT goes out.
LEMMA SendStep ==
  ASSUME IInv, NEW t \in Tasks, Send(t)
  PROVE  IInv'
<1>1. TypeOK'
  <2>1. tries[t] \in 0 .. MaxRetries
    BY SiteRolesAssumption DEF IInv, TypeOK, Told, Send
  <2> QED
    BY <2>1 DEF IInv, TypeOK, Send, history, Started
<1>2. Told'
  BY DEF IInv, TypeOK, Told, Send, history
<1>3. OnTheWire'
  <2>1. /\ phase'[t] = "waiting" /\ \A s \in Tasks \ {t} : phase'[s] = phase[s]
        /\ UNCHANGED <<tries, answer, outcome>>
    BY DEF IInv, TypeOK, Send
  <2>2. answer[t] = "none" /\ tries[t] \in Nat
    BY SiteRolesAssumption DEF IInv, TypeOK, Told, Send
  <2>3. \A r \in wire : r.task \in Tasks
    BY DEF IInv, TypeOK, Started
  <2>4. \A r \in wire' : r \in wire \/ (r.task = t /\ r.try = tries[t])
    BY DEF Send
  <2> QED
    BY <2>1, <2>2, <2>3, <2>4 DEF IInv, OnTheWire, Answered
<1>4. OverBefore'
  <2>1. \A p \in before : p[1] \in Tasks \ {t}
    BY DEF IInv, TypeOK, OverBefore, Answered, Started, Send
  <2> QED
    BY <2>1 DEF IInv, TypeOK, OverBefore, Answered, Send, history
<1>5. Held'
  BY DEF IInv, TypeOK, Held, Send, history
<1> QED
  BY <1>1, <1>2, <1>3, <1>4, <1>5 DEF IInv

\* Request r is answered with a, and the role set, if it is, to s.
Carried(r, a, s) ==
  LET j == job[r.task] IN
  /\ wire' = wire \ {r}
  /\ role' = IF a = "ok" THEN [role EXCEPT ![j.user] = s] ELSE role
  /\ answer' = IF phase[r.task] = "waiting" /\ tries[r.task] = r.try
               THEN [answer EXCEPT ![r.task] = a] ELSE answer
  /\ Observe(j.user, {r.task})
  /\ UNCHANGED <<job, phase, tries, outcome>>

\* Tableau carries out a request.
LEMMA ServeStep ==
  ASSUME IInv, NEW r \in wire, NEW a \in Replies(job[r.task].user),
         NEW s \in Stored(Target(job[r.task])), Carried(r, a, s)
  PROVE  IInv'
<1> DEFINE j == job[r.task]
<1>a. s \in Stored(Target(j)) /\ j = job[r.task] /\ j \in Jobs /\ j.user \in Users /\ r.task \in Started /\ r.task \in Tasks /\ s \in roles
  <2>1. r.task \in Started /\ r.task \in Tasks
    BY DEF IInv, TypeOK, Started
  <2>2. j \in Jobs /\ j.user \in Users
    BY <2>1 DEF IInv, TypeOK, Started, Jobs
  <2>3. s \in roles
    BY <2>2, SiteRolesAssumption, Tables DEF Stored, Target, Jobs
  <2> QED
    BY <2>1, <2>2, <2>3
<1>b. /\ wire' = wire \ {r}
      /\ role' = IF a = "ok" THEN [role EXCEPT ![j.user] = s] ELSE role
      /\ answer' = IF phase[r.task] = "waiting" /\ tries[r.task] = r.try
                   THEN [answer EXCEPT ![r.task] = a] ELSE answer
      /\ Observe(j.user, {r.task})
      /\ UNCHANGED <<job, phase, tries, outcome>>
  BY DEF Carried
<1> HIDE DEF j
<1>1. TypeOK'
  <2>1. role' \in [Users -> roles \cup {"none"}]
    BY <1>a, <1>b DEF IInv, TypeOK
  <2>2. answer' \in [Tasks -> {"none", "ok", "missing", "denied"}]
    BY <1>b DEF IInv, TypeOK, Replies
  <2>3. Started' = Started
    BY <1>b DEF Started
  <2>4. met' \subseteq Started /\ alone' \subseteq alone /\ before' = before
    BY <1>b DEF IInv, TypeOK, Observe
  <2> QED
    BY <1>b, <2>1, <2>2, <2>3, <2>4 DEF IInv, TypeOK
<1>2. Told'
  <2>1. met \subseteq met'
    BY <1>b DEF Observe
  <2>2. a = "ok" => r.task \in met' \/ InVain(j)
    <3> SUFFICES ASSUME a = "ok", ~InVain(j) PROVE r.task \in met'
      OBVIOUS
    <3>1. s \in Goal(j)
      BY <1>a, TargetMeetsGoal
    <3>2. role'[j.user] = s
      BY <1>a, <1>b DEF IInv, TypeOK
    <3> QED
      BY <1>a, <1>b, <3>1, <3>2 DEF Observe
  <2>3. a # "none" /\ ((answer'[r.task] = a /\ phase[r.task] = "waiting") \/ answer'[r.task] = answer[r.task])
    BY <1>a, <1>b DEF IInv, TypeOK, Replies
  <2>4. \A t \in Tasks \ {r.task} : answer'[t] = answer[t]
    BY <1>b DEF IInv, TypeOK
  <2>5. ASSUME NEW t \in Tasks
        PROVE  /\ phase[t] # "waiting" => answer'[t] = "none"
               /\ answer'[t] = "ok" \/ outcome[t] = "applied" => t \in met' \/ InVain(job[t])
    <3>1. CASE answer'[t] = answer[t]
      BY <2>1, <3>1 DEF IInv, Told
    <3>2. CASE answer'[t] # answer[t]
      <4>1. t = r.task /\ phase[t] = "waiting" /\ answer'[t] = a
        BY <2>3, <2>4, <3>2
      <4>2. outcome[t] = "none"
        BY <4>1 DEF IInv, Told
      <4> QED
        BY <1>a, <2>2, <4>1, <4>2
    <3> QED
      BY <3>1, <3>2
  <2> QED
    BY <1>b, <2>5 DEF IInv, Told
<1>3. OnTheWire'
  <2> SUFFICES ASSUME NEW q \in wire'
               PROVE  /\ q.try <= tries[q.task]
                      /\ phase[q.task] = "ready" => q.try < tries[q.task]
                      /\ answer'[q.task] # "none" => q.try < tries[q.task]
                      /\ Answered(q.task) => q.try < tries[q.task]
    BY <1>b DEF OnTheWire, Answered
  <2>1. /\ q \in wire /\ q.task \in Tasks /\ q.try \in Nat /\ tries[q.task] \in Nat
        /\ q.task = r.task => q.try # r.try
    BY <1>b, SiteRolesAssumption DEF IInv, TypeOK, Started
  <2>2. /\ q.try <= tries[q.task]
        /\ phase[q.task] = "ready" \/ Answered(q.task) => q.try < tries[q.task]
        /\ answer[q.task] # "none" => q.try < tries[q.task]
    BY <2>1 DEF IInv, OnTheWire
  <2>3. CASE answer'[q.task] = answer[q.task]
    BY <2>2, <2>3
  <2>4. CASE answer'[q.task] # answer[q.task]
    <3>1. q.task = r.task /\ tries[r.task] = r.try
      BY <1>b, <2>1, <2>4 DEF IInv, TypeOK
    <3> QED
      BY <2>1, <2>2, <3>1
  <2> QED
    BY <2>3, <2>4
<1>4. OverBefore'
  BY <1>b DEF IInv, OverBefore, Answered, Observe
<1>5. Held'
  <2> SUFFICES ASSUME NEW t \in alone', t \in met', ~InVain(job[t])
               PROVE  role'[job[t].user] \in Goal(job[t])
    BY <1>b DEF Held
  <2>1. t \in alone /\ t \in Started /\ job[t] \in Jobs
    BY <1>b DEF IInv, TypeOK, Observe, Started
  <2>2. CASE job[t].user # j.user
    <3>1. t \in met
      BY <1>b, <2>2 DEF Observe
    <3>2. role'[job[t].user] = role[job[t].user]
      BY <1>a, <1>b, <2>1, <2>2 DEF IInv, TypeOK, Jobs
    <3> QED
      BY <2>1, <3>1, <3>2 DEF IInv, Held
  <2>3. CASE job[t].user = j.user /\ role'[j.user] = role[j.user]
    BY <1>b, <2>1, <2>3 DEF IInv, Held, Observe
  <2>4. CASE job[t].user = j.user /\ role'[j.user] # role[j.user]
    <3>1. r.task = t \/ <<r.task, t>> \in before
      BY <1>b, <2>4 DEF Observe
    <3>2. <<r.task, t>> \notin before
      <4>1. Answered(r.task) => r.try < tries[r.task]
        BY DEF IInv, OnTheWire
      <4>2. Answered(r.task) => tries[r.task] = 0
        BY DEF Answered
      <4>3. r.try \in Nat
        BY SiteRolesAssumption DEF IInv, TypeOK
      <4>4. ~Answered(r.task)
        BY <4>1, <4>2, <4>3
      <4> QED
        BY <4>4 DEF IInv, OverBefore
    <3>3. t = r.task
      BY <3>1, <3>2
    <3>4. a = "ok" /\ role'[j.user] = s
      BY <1>a, <1>b, <2>4 DEF IInv, TypeOK
    <3> QED
      BY <1>a, <2>4, <3>3, <3>4, TargetMeetsGoal
  <2> QED
    BY <2>2, <2>3, <2>4
<1> QED
  BY <1>1, <1>2, <1>3, <1>4, <1>5 DEF IInv

\* A request is lost.
LEMMA DropStep ==
  ASSUME IInv, NEW r \in wire, Drop(r)
  PROVE  IInv'
<1>1. TypeOK'
  <2>1. Started' = Started
    BY DEF Started, Drop, tasks
  <2> QED
    BY <2>1 DEF IInv, TypeOK, Drop, tasks, history
<1>2. Told'
  BY DEF IInv, TypeOK, Told, Drop, tasks, history
<1>3. OnTheWire'
  BY DEF IInv, TypeOK, OnTheWire, Answered, Drop, tasks, history
<1>4. OverBefore'
  BY DEF IInv, TypeOK, OverBefore, Answered, Drop, tasks, history
<1>5. Held'
  BY DEF IInv, TypeOK, Held, Drop, tasks, history
<1> QED
  BY <1>1, <1>2, <1>3, <1>4, <1>5 DEF IInv

\* Somebody else changes the site.
LEMMA OutsideStep ==
  ASSUME IInv, NEW u \in Users, NEW n \in InPlay \cup {"none"}, OutsideChange(u, n)
  PROVE  IInv'
<1>1. TypeOK'
  <2>1. role' \in [Users -> roles \cup {"none"}]
    BY SiteRolesAssumption DEF IInv, TypeOK, OutsideChange
  <2>2. Started' = Started
    BY DEF Started, OutsideChange, tasks
  <2> QED
    BY <2>1, <2>2 DEF IInv, TypeOK, OutsideChange, Observe, tasks
<1>2. Told'
  BY DEF IInv, TypeOK, Told, OutsideChange, Observe, tasks
<1>3. OnTheWire'
  BY DEF IInv, TypeOK, OnTheWire, Answered, OutsideChange, Observe, tasks
<1>4. OverBefore'
  BY DEF IInv, TypeOK, OverBefore, Answered, OutsideChange, Observe, tasks
<1>5. Held'
  <2> SUFFICES ASSUME NEW t \in alone', t \in met', ~InVain(job[t])
               PROVE  role'[job[t].user] \in Goal(job[t])
    BY DEF Held, OutsideChange, tasks
  <2>1. t \in alone /\ job[t].user \in Users
    BY DEF IInv, TypeOK, OutsideChange, Observe, Started, Jobs
  <2>2. role'[job[t].user] = role[job[t].user]
    BY <2>1 DEF IInv, TypeOK, OutsideChange, Observe
  <2>3. t \in met \/ role'[job[t].user] \in Goal(job[t])
    BY DEF OutsideChange, Observe
  <2> QED
    BY <2>1, <2>2, <2>3 DEF IInv, Held
<1> QED
  BY <1>1, <1>2, <1>3, <1>4, <1>5 DEF IInv
-----------------------------------------------------------------------------
LEMMA InitIInv == Init => IInv
<1> SUFFICES ASSUME Init PROVE IInv
  OBVIOUS
<1>1. TypeOK
  BY SiteRolesAssumption DEF Init, TypeOK, Started
<1>2. Told /\ OnTheWire /\ OverBefore /\ Held
  BY SiteRolesAssumption DEF Init, Told, OnTheWire, OverBefore, Held
<1> QED
  BY <1>1, <1>2 DEF IInv

LEMMA NextIInv == IInv /\ [Next]_vars => IInv'
<1> SUFFICES ASSUME IInv, [Next]_vars PROVE IInv'
  OBVIOUS
<1>1. ASSUME NEW t \in Tasks, NEW j \in Jobs, Start(t, j) PROVE IInv'
  BY <1>1, StartStep
<1>2. ASSUME NEW t \in Tasks, Task(t) PROVE IInv'
  <2>1. CASE Reject(t)
    BY <2>1, EndStep DEF Reject
  <2>2. CASE Send(t)
    BY <2>2, SendStep
  <2>3. CASE Receive(t)
    BY <2>3, EndStep DEF Receive
  <2>4. CASE Timeout(t)
    <3>1. tries[t] <= MaxRetries
      BY <2>4 DEF IInv, Told, Timeout
    <3> QED
      BY <2>4, <3>1, EndStep, RetryStep DEF Timeout
  <2>5. CASE Break(t)
    BY <2>5, EndStep DEF Break
  <2> QED
    BY <1>2, <2>1, <2>2, <2>3, <2>4, <2>5 DEF Task
<1>3. ASSUME NEW r \in wire, Serve(r) PROVE IInv'
  <2>1. PICK a \in Replies(job[r.task].user), s \in Stored(Target(job[r.task])) : Carried(r, a, s)
    BY <1>3 DEF Serve, Carried
  <2> QED
    BY <2>1, ServeStep
<1>4. ASSUME NEW r \in wire, Drop(r) PROVE IInv'
  BY <1>4, DropStep
<1>5. ASSUME NEW u \in Users, NEW n \in InPlay \cup {"none"}, OutsideChange(u, n) PROVE IInv'
  BY <1>5, OutsideStep
<1>6. CASE UNCHANGED vars
  <2>1. UNCHANGED <<role, job, phase, tries, answer, outcome, wire, met, alone, before>>
    BY <1>6 DEF vars, tasks, history
  <2>2. TypeOK'
    <3>1. Started' = Started
      BY <2>1 DEF Started
    <3> QED
      BY <2>1, <3>1 DEF IInv, TypeOK
  <2>3. Told' /\ OnTheWire' /\ OverBefore' /\ Held'
    BY <2>1 DEF IInv, Told, OnTheWire, OverBefore, Held, Answered
  <2> QED
    BY <2>2, <2>3 DEF IInv
<1> QED
  BY <1>1, <1>2, <1>3, <1>4, <1>5, <1>6 DEF Next

LEMMA Inductive == Spec => []IInv
BY InitIInv, NextIInv, PTL DEF Spec

\* Every variable keeps its type, and a task is retried at most MaxRetries
\* times (siteBuilder, licenseBuilder: Grant and Revoke).
THEOREM Typing == Spec => []TypeOK
<1>1. IInv => TypeOK
  BY DEF IInv
<1> QED
  BY <1>1, Inductive, PTL

\* A task that reports success was at its goal at some instant since it
\* started (siteBuilder, licenseBuilder: Grant and Revoke).
THEOREM Truth == Spec => []OutcomeIsTrue
<1>1. IInv => OutcomeIsTrue
  BY DEF IInv, Told, OutcomeIsTrue
<1> QED
  BY <1>1, Inductive, PTL

\* And it stays there, until the role is set by somebody else or by a task
\* that was not over, at its first try, when it started.
THEOREM Lasting == Spec => []LastTaskWins
<1>1. IInv => LastTaskWins
  BY DEF IInv, TypeOK, Started, Told, Held, LastTaskWins
<1> QED
  BY <1>1, Inductive, PTL
-----------------------------------------------------------------------------
(***************************************************************************)
(* The refinement of RoleContract.  A request that carries out its update  *)
(* is a Write of its task, also long after the task ended: all but the     *)
(* tasks that were answered at their first try may have one left.  One     *)
(* that changes nothing, Tableau refusing, is no more than what anybody    *)
(* may do.                                                                 *)
(***************************************************************************)

\* The contract reads the tables of site roles and licenses as the tasks do.
LEMMA SameTables ==
  /\ Contract!roles = roles
  /\ Contract!NoJob = NoJob
  /\ Contract!Started = Started
  /\ \A j : Contract!Goal(j) = Goal(j)
  /\ \A j : Contract!InVain(j) <=> InVain(j)
<1>1. Contract!RolesPerLicense = RolesPerLicense /\ Contract!licenses = licenses
  BY DEF Contract!RolesPerLicense, RolesPerLicense, Contract!licenses, licenses
<1>2. Contract!roles = roles
  BY <1>1 DEF Contract!roles, roles
<1>3. \A j : Contract!Showing(j) = Showing(j)
  BY <1>1 DEF Contract!Showing, Showing, Contract!Stored, Stored
<1>4. \A j : Contract!Goal(j) = Goal(j)
  BY <1>2, <1>3 DEF Contract!Goal, Goal
<1> QED
  BY <1>2, <1>4 DEF Contract!InVain, InVain, Contract!NoJob, NoJob, Contract!Started, Started

\* What a task asks for, and what Tableau makes of it, is what the task may set.
LEMMA TargetIsAimed ==
  ASSUME NEW j \in Jobs, NEW s \in Stored(Target(j))
  PROVE  s \in Contract!Aim(j)
<1>1. s \in roles
  BY SiteRolesAssumption, Tables DEF Stored, Target, Jobs
<1>2. CASE InVain(j)
  BY <1>2, SameTables DEF Contract!Aim, InVain, Target, Stored
<1>3. CASE ~InVain(j)
  BY <1>1, <1>3, TargetMeetsGoal, SameTables DEF Contract!Aim
<1> QED
  BY <1>2, <1>3

LEMMA ContractInit == Init => Contract!Init
<1> SUFFICES ASSUME Init PROVE Contract!Init
  OBVIOUS
<1>1. role \in [Users -> roles \cup {"none"}]
  BY SiteRolesAssumption DEF Init
<1>2. {t \in Tasks : Answered(t)} = {}
  BY DEF Init, Answered
<1>3. [t \in Tasks |-> ResultOf(outcome[t])] = [t \in Tasks |-> "none"]
  BY DEF Init, ResultOf
<1> QED
  BY <1>1, <1>2, <1>3, SameTables DEF Init, Contract!Init

\* The platform sends a task.
LEMMA StartKeepsContract ==
  ASSUME IInv, NEW t \in Tasks, NEW j \in Jobs, Start(t, j)
  PROVE  Contract!Start(t, j)
<1>1. job[t] = NoJob
  BY DEF IInv, TypeOK, Start
<1>2. \A s \in Tasks : Answered(s)' <=> Answered(s)
  BY DEF IInv, TypeOK, Start, Answered
<1>3. {s \in Tasks : Answered(s)}' = {s \in Tasks : Answered(s)}
  BY <1>2
<1>4. outcome' = outcome
  BY DEF Start
<1> QED
  BY <1>1, <1>3, <1>4, SameTables DEF Start, Contract!Start

\* A task reports and ends.
LEMMA EndKeepsContract ==
  ASSUME IInv, NEW t \in Tasks, NEW o \in {"applied", "rejected", "failed"}, End(t, o),
         phase[t] \in {"ready", "waiting"},
         o = "applied" => answer[t] = "ok",
         tries' \in [Tasks -> Nat], \A s \in Tasks \ {t} : tries'[s] = tries[s]
  PROVE  Contract!Finish(t, ResultOf(o))
<1>1. \A s \in Tasks \ {t} : UNCHANGED <<phase[s], outcome[s], tries[s]>>
  BY DEF IInv, TypeOK, End
<1>2. t \in Started /\ outcome[t] = "none" /\ ~Answered(t)
  BY DEF IInv, TypeOK, Told, Started, Answered
<1>3. {s \in Tasks : Answered(s)}' \in
        {{s \in Tasks : Answered(s)}, {s \in Tasks : Answered(s)} \cup {t}}
  <2>1. \A s \in Tasks \ {t} : Answered(s)' <=> Answered(s)
    BY <1>1 DEF Answered
  <2> QED
    BY <1>2, <2>1
<1>4. [s \in Tasks |-> ResultOf(outcome[s])]' =
        [[s \in Tasks |-> ResultOf(outcome[s])] EXCEPT ![t] = ResultOf(o)]
  <2>1. outcome' = [outcome EXCEPT ![t] = o] /\ outcome \in [Tasks -> {"none", "applied", "rejected", "failed"}]
    BY DEF End, IInv, TypeOK
  <2> QED
    BY <2>1
<1>5. ResultOf(o) = "success" => t \in met \/ InVain(job[t])
  BY DEF IInv, Told, ResultOf
<1>6. [s \in Tasks |-> ResultOf(outcome[s])][t] = "none"
  BY <1>2 DEF ResultOf
<1>7. UNCHANGED <<role, job, met, alone>>
  BY DEF End, history
<1> QED
  BY <1>2, <1>3, <1>4, <1>5, <1>6, <1>7, SameTables DEF Contract!Finish

\* Nothing that the contract sees changes while no role, report or task that is
\* over does.
LEMMA Unseen ==
  ASSUME UNCHANGED <<role, job, outcome, met, alone>>,
         \A t \in Tasks : Answered(t)' <=> Answered(t)
  PROVE  UNCHANGED Contract!vars
<1>1. {t \in Tasks : Answered(t)}' = {t \in Tasks : Answered(t)}
  OBVIOUS
<1>2. [t \in Tasks |-> ResultOf(outcome[t])]' = [t \in Tasks |-> ResultOf(outcome[t])]
  OBVIOUS
<1> QED
  BY <1>1, <1>2 DEF Contract!vars

\* A step of a task: it reports, or the contract does not see it.
LEMMA TaskKeepsContract ==
  ASSUME IInv, NEW t \in Tasks, Task(t)
  PROVE  (\E r \in {"success", "failure"} : Contract!Finish(t, r)) \/ UNCHANGED Contract!vars
<1>a. tries \in [Tasks -> Nat]
  BY SiteRolesAssumption DEF IInv, TypeOK
<1>b. \A o \in {"applied", "rejected", "failed"} : ResultOf(o) \in {"success", "failure"}
  BY DEF ResultOf
<1>1. CASE Reject(t)
  BY <1>1, <1>a, <1>b, EndKeepsContract DEF Reject
<1>2. CASE Send(t)
  <2>1. \A s \in Tasks : Answered(s)' <=> Answered(s)
    BY <1>2 DEF IInv, TypeOK, Send, Answered
  <2> QED
    BY <1>2, <2>1, Unseen DEF Send, history
<1>3. CASE Receive(t)
  BY <1>3, <1>a, <1>b, EndKeepsContract DEF Receive
<1>4. CASE Timeout(t)
  <2>1. tries' = [tries EXCEPT ![t] = @ + 1] /\ phase[t] = "waiting"
    BY <1>4 DEF Timeout
  <2>2. tries' \in [Tasks -> Nat] /\ \A s \in Tasks \ {t} : tries'[s] = tries[s]
    BY <1>a, <2>1
  <2>3. CASE End(t, "failed")
    BY <1>b, <2>1, <2>2, <2>3, EndKeepsContract
  <2>4. CASE ~End(t, "failed")
    <3>1. phase' = [phase EXCEPT ![t] = "ready"] /\ UNCHANGED <<role, job, outcome, history>>
      BY <1>4, <2>4 DEF Timeout
    <3>2. \A s \in Tasks : Answered(s)' <=> Answered(s)
      BY <2>1, <2>2, <3>1 DEF IInv, TypeOK, Answered
    <3> QED
      BY <3>1, <3>2, Unseen DEF history
  <2> QED
    BY <2>3, <2>4
<1>5. CASE Break(t)
  BY <1>5, <1>a, <1>b, EndKeepsContract DEF Break
<1> QED
  BY <1>1, <1>2, <1>3, <1>4, <1>5 DEF Task

\* Tableau carries out a request: a Write of the task that sent it, which is not
\* over, or nothing but what anybody may do.
LEMMA ServeKeepsContract ==
  ASSUME IInv, NEW r \in wire, NEW a \in Replies(job[r.task].user),
         NEW s \in Stored(Target(job[r.task])), Carried(r, a, s)
  PROVE  Contract!Write(r.task) \/ \E u \in Users : Contract!Outside(u)
<1> DEFINE t == r.task
           u == job[t].user
<1>1. t \in Started /\ t \in Tasks /\ job[t] \in Jobs /\ u \in Users
  BY DEF IInv, TypeOK, Started, Jobs
<1>2. UNCHANGED <<job, phase, tries, outcome>> /\ Observe(u, {t})
  BY DEF Carried
<1>3. /\ {q \in Tasks : Answered(q)}' = {q \in Tasks : Answered(q)}
      /\ [q \in Tasks |-> ResultOf(outcome[q])]' = [q \in Tasks |-> ResultOf(outcome[q])]
  BY <1>2 DEF Answered
<1>4. ~Answered(t)
  <2>1. Answered(t) => r.try < tries[t] /\ tries[t] = 0
    BY DEF IInv, OnTheWire, Answered
  <2> QED
    BY <2>1, SiteRolesAssumption DEF IInv, TypeOK
<1>5. met' = met \cup {q \in Started : job[q].user = u /\ role'[u] \in Goal(job[q])}
  BY <1>2 DEF Observe
<1>6. CASE a = "ok"
  <2>1. Contract!Set(u, Contract!Aim(job[t]))
    BY <1>1, <1>6, TargetIsAimed DEF Carried, Contract!Set
  <2>2. alone' = {q \in alone : job[q].user # u \/ role'[u] = role[u] \/ q \in {t}}
    <3>1. \A q : <<t, q>> \notin before
      BY <1>4 DEF IInv, OverBefore
    <3> QED
      BY <1>2, <3>1 DEF Observe
  <2>3. Contract!Observe(u, {t})
    BY <1>5, <2>2, SameTables DEF Contract!Observe
  <2> QED
    BY <1>1, <1>2, <1>3, <1>4, <2>1, <2>3, SameTables DEF Contract!Write
<1>7. CASE a # "ok"
  <2>1. role' = role
    BY <1>7 DEF Carried
  <2>2. Contract!Set(u, Contract!roles \cup {"none"})
    <3>1. role[u] \in roles \cup {"none"} /\ role' = [role EXCEPT ![u] = role[u]]
      BY <1>1, <2>1 DEF IInv, TypeOK
    <3> QED
      BY <3>1, SameTables DEF Contract!Set
  <2>3. alone' = {q \in alone : job[q].user # u \/ role'[u] = role[u] \/ q \in {}}
    BY <1>2, <2>1 DEF Observe
  <2>4. Contract!Observe(u, {})
    BY <1>5, <2>3, SameTables DEF Contract!Observe
  <2> QED
    BY <1>1, <1>2, <1>3, <2>2, <2>4 DEF Contract!Outside
<1> QED
  BY <1>6, <1>7

\* Somebody else changes the site.
LEMMA OutsideKeepsContract ==
  ASSUME IInv, NEW u \in Users, NEW n \in InPlay \cup {"none"}, OutsideChange(u, n)
  PROVE  Contract!Outside(u)
<1>1. UNCHANGED <<job, phase, tries, outcome>> /\ role' = [role EXCEPT ![u] = n]
  BY DEF OutsideChange, tasks
<1>2. Contract!Set(u, Contract!roles \cup {"none"})
  BY <1>1, SiteRolesAssumption, SameTables DEF Contract!Set
<1>3. Contract!Observe(u, {})
  BY SameTables DEF OutsideChange, Observe, Contract!Observe
<1>4. /\ {q \in Tasks : Answered(q)}' = {q \in Tasks : Answered(q)}
      /\ [q \in Tasks |-> ResultOf(outcome[q])]' = [q \in Tasks |-> ResultOf(outcome[q])]
  BY <1>1 DEF Answered
<1> QED
  BY <1>1, <1>2, <1>3, <1>4 DEF Contract!Outside

\* Retries, late requests and lost answers included, the tasks of site roles and
\* licenses (siteBuilder, licenseBuilder: Grant and Revoke) implement the
\* contract of tasks about site roles, for any number of them.
THEOREM Refinement == Spec => KeepsContract
<1>1. IInv /\ [Next]_vars => [Contract!Next]_(Contract!vars)
  <2> SUFFICES ASSUME IInv, [Next]_vars
               PROVE  Contract!Next \/ UNCHANGED Contract!vars
    OBVIOUS
  <2>1. ASSUME NEW t \in Tasks, NEW j \in Jobs, Start(t, j) PROVE Contract!Next
    BY <2>1, StartKeepsContract DEF Contract!Next
  <2>2. ASSUME NEW t \in Tasks, Task(t) PROVE Contract!Next \/ UNCHANGED Contract!vars
    BY <2>2, TaskKeepsContract DEF Contract!Next
  <2>3. ASSUME NEW r \in wire, Serve(r) PROVE Contract!Next
    <3>1. PICK a \in Replies(job[r.task].user), s \in Stored(Target(job[r.task])) : Carried(r, a, s)
      BY <2>3 DEF Serve, Carried
    <3>2. r.task \in Tasks
      BY DEF IInv, TypeOK, Started
    <3> QED
      BY <3>1, <3>2, ServeKeepsContract DEF Contract!Next
  <2>4. ASSUME NEW r \in wire, Drop(r) PROVE UNCHANGED Contract!vars
    BY <2>4, Unseen DEF Drop, tasks, history, Answered
  <2>5. ASSUME NEW u \in Users, NEW n \in InPlay \cup {"none"}, OutsideChange(u, n) PROVE Contract!Next
    BY <2>5, OutsideKeepsContract DEF Contract!Next
  <2>6. CASE UNCHANGED vars
    BY <2>6, Unseen DEF vars, tasks, history, Answered
  <2> QED
    BY <2>1, <2>2, <2>3, <2>4, <2>5, <2>6 DEF Next
<1> QED
  BY <1>1, ContractInit, Inductive, PTL DEF Spec, KeepsContract, Contract!Spec
=============================================================================
