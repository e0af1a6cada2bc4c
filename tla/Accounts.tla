------------------------------ MODULE Accounts ------------------------------
(***************************************************************************)
(* The tasks that create and delete accounts (userBuilder.CreateAccount    *)
(* and Delete, user.go).  CreateAccount chooses how the user will sign in  *)
(* from a listing of the site's identity provider configurations, which    *)
(* may be a cached one, and then adds the user; Delete removes a user by   *)
(* ID.  Neither is retried by the SDK: a task sends one request, and ends  *)
(* without knowing what became of it when no answer comes.  That request   *)
(* may still be carried out.                                               *)
(***************************************************************************)
EXTENDS Naturals, FiniteSets

CONSTANTS Tasks,     \* provisioning tasks the platform sends
          Emails,
          Configs,   \* identity provider configurations, told by their names
          MaxChanges \* bound: number of changes made by others

ASSUME AccountsAssumption ==
  MaxChanges \in Nat /\ Configs \cap {"none", "any", "mfa", "default"} = {}

VARIABLES
  \* Tableau
  users,    \* users of the site: [id, email, auth]
  site,     \* every configuration's kind if it is enabled, or "off"
  endpoint, \* it can list configurations: API 3.22 and later
  \* the connector process
  listed,   \* the cached listing of the configurations, if any: {} or {site}
  job,      \* what each task is to do
  phase,    \* "idle", "ready", "chosen", "waiting" or "done"
  auth,     \* the sign-in chosen: a configuration, "mfa" or "default"
  answer,   \* Tableau's answer to the request the task waits on
  outcome,  \* what the task reported
  wire,     \* tasks whose request may yet be carried out
  \* history
  ever,     \* users there ever were
  deeds,    \* what requests have changed: [task, user]
  seen,     \* what site has been since the listing was last forgotten
  span,     \* for every task, seen when it started and what came after
  changes   \* bound: number of changes made by others

tableau == <<users, site, endpoint>>
tasks   == <<job, phase, auth, answer, outcome>>
vars    == <<tableau, listed, tasks, wire, ever, deeds, seen, span, changes>>

Kinds == {"SAML", "OPENID", "other"}

Auths == {"mfa", "default"} \cup Configs

SiteUsers == [id : Nat \ {0}, email : Emails, auth : Auths]

Creations == [verb : {"create"}, email : Emails, wants : {"mfa", "any"} \cup Configs]

Deletions == [verb : {"delete"}, user : SiteUsers]

NoJob == [verb |-> "none"]

\* A user added to the site gets an ID of its own.
NewUser(e, a) == [id |-> Cardinality(ever) + 1, email |-> e, auth |-> a]

\* FindIdpConfigurationByName considers every enabled configuration,
Enabled(s) == {c \in Configs : s[c] # "off"}

\* ListEnabledIdpConfigurations only the kinds in allowedAuthSettings.
Allowed(s) == {c \in Configs : s[c] \in {"SAML", "OPENID"}}

\* MUTANT: the first configuration is taken of several.
ChoicesGuessed(q, s) ==
  IF q \in Configs THEN {q} \cap Enabled(s)
  ELSE IF Allowed(s) = {} THEN {"default"} ELSE Allowed(s)

\* MUTANT: that there is no configuration of the name is overlooked.
ChoicesUnfound(q, s) ==
  IF q \in Configs THEN IF q \in Enabled(s) THEN {q} ELSE {"none"}
  ELSE IF Allowed(s) = {} THEN {"default"} ELSE {c \in Allowed(s) : Allowed(s) = {c}}

\* selectIDPConfiguration, given listing s: the sign-in, or {} for an error.
Choices(q, s) ==
  IF q \in Configs THEN {q} \cap Enabled(s)
  ELSE IF Allowed(s) = {} THEN {"default"} ELSE {c \in Allowed(s) : Allowed(s) = {c}}

Success(verb) == IF verb = "create" THEN "created" ELSE "deleted"

\* MUTANT: a conflict is taken for success, as it is for a Grant.
VerdictOfGrant(verb, a) ==
  IF a \in {"ok", "conflict"} THEN Success(verb) ELSE IF a = "empty" THEN "unsure" ELSE "failed"

\* What a task makes of an answer.  One without a user in it is an error, too,
\* though one that says nothing about the site.
Verdict(verb, a) ==
  IF a = "ok" THEN Success(verb) ELSE IF a = "empty" THEN "unsure" ELSE "failed"
-----------------------------------------------------------------------------
Init ==
  /\ users = {} /\ ever = {}
  /\ site \in [Configs -> Kinds \cup {"off"}]
  /\ endpoint \in BOOLEAN
  /\ listed = {}
  /\ job = [t \in Tasks |-> NoJob]
  /\ phase = [t \in Tasks |-> "idle"]
  /\ auth = [t \in Tasks |-> "none"]
  /\ answer = [t \in Tasks |-> "none"]
  /\ outcome = [t \in Tasks |-> "none"]
  /\ wire = {} /\ deeds = {}
  /\ seen = {site} /\ span = [t \in Tasks |-> {}]
  /\ changes = 0

Start(t, j, ph) ==
  /\ phase[t] = "idle"
  /\ job' = [job EXCEPT ![t] = j]
  /\ phase' = [phase EXCEPT ![t] = ph]
  /\ span' = [span EXCEPT ![t] = seen]
  /\ UNCHANGED <<tableau, listed, auth, answer, outcome, wire, ever, deeds, seen, changes>>

\* The platform sends a CreateAccount task, or the Delete task of a user it
\* has heard of.
StartCreate(t) == \E j \in Creations : Start(t, j, "ready")

StartDelete(t) == \E u \in ever : Start(t, [verb |-> "delete", user |-> u], "chosen")

Choose(t, a) ==
  /\ auth' = [auth EXCEPT ![t] = a]
  /\ phase' = [phase EXCEPT ![t] = "chosen"]
  /\ UNCHANGED outcome

End(t, o) ==
  /\ phase' = [phase EXCEPT ![t] = "done"]
  /\ outcome' = [outcome EXCEPT ![t] = o]
  /\ UNCHANGED auth

\* ListIdpConfigurations: a GET, answered from the cache if it can be.
Look(t) ==
  \E s \in IF listed = {} THEN {site} ELSE listed :
    /\ listed' = {s}
    /\ IF Choices(job[t].wants, s) = {} THEN End(t, "failed")
       ELSE \E a \in Choices(job[t].wants, s) : Choose(t, a)

\* The first half of CreateAccount, up to the request that adds the user.
Select(t) ==
  /\ phase[t] = "ready"
  /\ LET q == job[t].wants IN
       \/ q = "mfa" /\ Choose(t, "mfa") /\ UNCHANGED listed
       \/ q # "mfa" /\ endpoint /\ Look(t)
       \/ q = "any" /\ ~endpoint /\ Choose(t, "default") /\ UNCHANGED listed
       \* an old server cannot find the configuration by name, or the listing fails
       \/ /\ q \in Configs \/ (q = "any" /\ endpoint)
          /\ End(t, "failed")
          /\ UNCHANGED listed
  /\ UNCHANGED <<tableau, job, answer, wire, ever, deeds, seen, span, changes>>

\* AddUserToSite or RemoveUserFromSite: the request goes out.
Send(t) ==
  /\ phase[t] = "chosen"
  /\ phase' = [phase EXCEPT ![t] = "waiting"]
  /\ wire' = wire \cup {t}
  /\ UNCHANGED <<tableau, listed, job, auth, answer, outcome, ever, deeds, seen, span, changes>>

Receive(t) ==
  /\ phase[t] = "waiting"
  /\ answer[t] # "none"
  /\ End(t, Verdict(job[t].verb, answer[t]))
  /\ UNCHANGED <<tableau, listed, job, answer, wire, ever, deeds, seen, span, changes>>

\* MUTANT: CreateAccount and Delete are retried, as Grant and Revoke are.
TimeoutRetried(t) ==
  /\ phase[t] = "waiting"
  /\ phase' = [phase EXCEPT ![t] = "chosen"]
  /\ answer' = [answer EXCEPT ![t] = "none"]
  /\ UNCHANGED <<tableau, listed, job, auth, outcome, wire, ever, deeds, seen, span, changes>>

\* No answer comes, or a server error that says nothing: the task ends.
Timeout(t) ==
  /\ phase[t] = "waiting"
  /\ End(t, "unsure")
  /\ UNCHANGED <<tableau, listed, job, answer, wire, ever, deeds, seen, span, changes>>

Task(t) == Select(t) \/ Send(t) \/ Receive(t) \/ Timeout(t)
-----------------------------------------------------------------------------
\* Tableau answers a to the request of task t.
Answer(t, a) ==
  /\ wire' = wire \ {t}
  /\ answer' = IF phase[t] = "waiting" THEN [answer EXCEPT ![t] = a] ELSE answer
  /\ UNCHANGED <<site, endpoint, listed, job, phase, auth, outcome, seen, span, changes>>

\* A user is added, unless there is one of that name or the configuration is
\* not enabled.
Add(t) ==
  LET u == NewUser(job[t].email, auth[t]) IN
  /\ job[t].verb = "create"
  /\ \A v \in users : v.email # u.email
  /\ auth[t] \in Configs => auth[t] \in Enabled(site)
  /\ users' = users \cup {u}
  /\ ever' = ever \cup {u}
  /\ deeds' = deeds \cup {[task |-> t, user |-> u]}
  /\ \E a \in {"ok", "empty"} : Answer(t, a)

Remove(t) ==
  /\ job[t].verb = "delete"
  /\ job[t].user \in users
  /\ users' = users \ {job[t].user}
  /\ deeds' = deeds \cup {[task |-> t, user |-> job[t].user]}
  /\ UNCHANGED ever
  /\ Answer(t, "ok")

\* A request is refused: for one of these reasons, or for some other.
Refuse(t) ==
  /\ \/ /\ job[t].verb = "create"
        /\ \E v \in users : v.email = job[t].email
        /\ Answer(t, "conflict")
     \/ /\ job[t].verb = "delete"
        /\ job[t].user \notin users
        /\ Answer(t, "missing")
     \/ Answer(t, "denied")
  /\ UNCHANGED <<users, ever, deeds>>

\* Tableau carries out a request, however old, or it is lost.
Serve(t) == t \in wire /\ (Add(t) \/ Remove(t) \/ Refuse(t))

Drop(t) ==
  /\ t \in wire
  /\ wire' = wire \ {t}
  /\ UNCHANGED <<tableau, listed, tasks, ever, deeds, seen, span, changes>>

\* The listing expires, or a sync ends and empties the cache.
Forget ==
  /\ listed' = {}
  /\ seen' = {site}
  /\ UNCHANGED <<tableau, tasks, wire, ever, deeds, span, changes>>

Change ==
  /\ changes < MaxChanges
  /\ changes' = changes + 1
  /\ UNCHANGED <<endpoint, listed, tasks, wire, deeds>>

\* Somebody adds or removes a user.
Join(e) ==
  LET u == NewUser(e, "default") IN
  /\ \A v \in users : v.email # e
  /\ users' = users \cup {u}
  /\ ever' = ever \cup {u}
  /\ UNCHANGED <<site, seen, span>>
  /\ Change

Leave(u) ==
  /\ users' = users \ {u}
  /\ UNCHANGED <<site, ever, seen, span>>
  /\ Change

\* Somebody enables or disables a configuration, or changes its kind.
Configure(c, k) ==
  /\ site' = [site EXCEPT ![c] = k]
  /\ seen' = seen \cup {site'}
  /\ span' = [t \in Tasks |-> IF phase[t] = "idle" THEN {} ELSE span[t] \cup {site'}]
  /\ UNCHANGED <<users, ever>>
  /\ Change

Next ==
  \/ \E t \in Tasks : StartCreate(t) \/ StartDelete(t) \/ Task(t) \/ Serve(t) \/ Drop(t)
  \/ Forget
  \/ \E e \in Emails : Join(e)
  \/ \E u \in users : Leave(u)
  \/ \E c \in Configs, k \in Kinds \cup {"off"} : Configure(c, k)

Spec == Init /\ [][Next]_vars
-----------------------------------------------------------------------------
Settings == [Configs -> Kinds \cup {"off"}]

\* Every variable keeps its type, and no user is asked for without a sign-in.
TypeOK ==
  /\ users \subseteq ever /\ ever \subseteq SiteUsers
  /\ site \in Settings /\ endpoint \in BOOLEAN
  /\ listed \subseteq Settings
  /\ job \in [Tasks -> Creations \cup Deletions \cup {NoJob}]
  /\ phase \in [Tasks -> {"idle", "ready", "chosen", "waiting", "done"}]
  /\ auth \in [Tasks -> Auths \cup {"none"}]
  /\ answer \in [Tasks -> {"none", "ok", "empty", "conflict", "missing", "denied"}]
  /\ outcome \in [Tasks -> {"none", "created", "deleted", "failed", "unsure"}]
  /\ wire \subseteq {t \in Tasks : job[t].verb = "delete" \/ auth[t] \in Auths}
  /\ deeds \subseteq [task : Tasks, user : ever]
  /\ seen \subseteq Settings /\ span \in [Tasks -> SUBSET Settings]
  /\ changes \in 0 .. MaxChanges

\* Sign-in a is one that a task of wants q may choose if S is what the
\* configurations have been, and Tableau lists them (l) or does not.
Justified(q, l, S, a) ==
  /\ a = "mfa" <=> q = "mfa"
  \* a was enabled, and if it was not named the only one of an allowed kind;
  /\ a \in Configs => \E s \in S :
       /\ s[a] # "off"
       /\ q # a => /\ q = "any"
                   /\ {c \in Configs : s[c] \in {"SAML", "OPENID"}} = {a}
  \* there was none of an allowed kind, or no telling.
  /\ a = "default" => /\ q = "any"
                      /\ l => \E s \in S : \A c \in Configs : s[c] \notin {"SAML", "OPENID"}

\* No user is ever added with a sign-in that was not justified at any instant
\* since the listing its task used could have been read, late requests and
\* cached listings included.
SignInIsJustified ==
  \A d \in deeds :
    job[d.task].verb = "create" =>
      Justified(job[d.task].wants, endpoint, span[d.task], d.user.auth)

\* A success is the task's own: the account reported as created is one its
\* request has added, with the e-mail and the sign-in asked for, although
\* others add users of that e-mail; the user reported as deleted is gone for
\* good, although one of that e-mail may have come back.
ReportIsTrue ==
  \A t \in Tasks :
    /\ outcome[t] = "created" =>
         \E d \in deeds : /\ d.task = t
                          /\ d.user.email = job[t].email /\ d.user.auth = auth[t]
    /\ outcome[t] = "deleted" =>
         /\ \E d \in deeds : d.task = t /\ d.user = job[t].user
         /\ job[t].user \notin users

\* A task that failed for a reason Tableau gave has changed nothing and never
\* will; only one that got no answer leaves it open.
FailureChangesNothing ==
  \A t \in Tasks :
    outcome[t] = "failed" => t \notin wire /\ \A d \in deeds : d.task # t

\* What the contract of a task sees of its job and of its outcome.
JobOf(j) == IF j.verb = "create" THEN [verb |-> "create", email |-> j.email] ELSE j

ResultOf(o) ==
  CASE o \in {"created", "deleted"} -> "success" [] o = "failed" -> "failure" [] OTHER -> o

Contract == INSTANCE AccountContract
              WITH job    <- [t \in Tasks |-> JobOf(job[t])],
                   acted  <- {d.task : d \in deeds},
                   result <- [t \in Tasks |-> ResultOf(outcome[t])]

\* Each task that creates or deletes an account acts at most once, and what it
\* reports is so, late and lost requests and lost answers included.
KeepsContract == Contract!Spec

\* docs-info.md: "SAML is used automatically only if exactly one SAML IDP is
\* enabled on the site; otherwise no auth fields are set".
OnlySAMLIsAutomatic ==
  \A d \in deeds :
    LET j == job[d.task]
        a == d.user.auth
    IN j.verb = "create" /\ j.wants = "any" /\ a # "default" =>
         \E s \in span[d.task] : {c \in Configs : s[c] = "SAML"} = {a}
=============================================================================
