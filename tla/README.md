# Verification of baton-tableau

TLA+ models of the ConductorOne connector for Tableau: the connector's own code in
`src/pkg/connector` and `src/pkg/client`, and as much of the vendored SDK
(`src/vendor/github.com/conductorone/baton-sdk/pkg`) as the connector's correctness
hangs on. TLC checks small instances, TLAPS proves the main safety properties for every
value of the constants. `PROJECT.json` lists the runs, the theorems, the source lines of
every definition, and the hazards the properties are for.

Check a module with `tlc -config MCPageWalk.cfg MCPageWalk`, its proofs with
`tlapm PageWalk_proofs.tla`.

## The system

The connector sits between the ConductorOne platform and one Tableau site. It does two
things: a *sync* lists users, groups, projects, workbooks, views and licenses and derives
the grants between them; a provisioning *task* grants or revokes one entitlement of one
principal, or creates or deletes an account. The SDK calls the builders of
`ResourceSyncers` (connector.go:25), runs tasks concurrently with each other and with a
sync (`connectorrunner/runner.go`), retries a task after a retryable error at most three
times, and answers GETs from a response cache which the end of a successful sync empties.
The connector has no state of its own but the session token; all interesting state is in
Tableau, in the cache, on the wire, and in tasks under way.

| Component | State | Operations | What is hard | What makes it correct |
|---|---|---|---|---|
| Provisioning of memberships and permissions (`group.go`, `project.go`, `workbook.go`, `view.go`, `helpers.go`) | tasks under way, requests on the wire, the cached showTabs of a workbook | Grant, Revoke | retries of requests that were carried out, answers that come late or never, concurrent tasks on one key, a lookup before the write | a reported success is true and lasts; nothing but the key of the task changes; tasks end |
| Site roles and licenses (`site.go`, `license.go`) | one role per user in Tableau, read and written as two kinds of entitlements | Grant, Revoke, Grants, List with seats | two entitlements over one register, listings of different age, roles the filter cannot name or the tables do not know | success is true and lasts; one license per user; site roles, licenses and seats agree |
| Paginated listing (`client/helpers.go`, `GetUsers`, `GetGroups`, `GetGroupUsers`, `GetProjects`, `GetWorkbooks`) | page token, cached pages | one page per call | the listing changes between pages, cached pages of a failed sync | a finished walk returned everything that was there throughout; nothing invented; it ends |
| Permission sync (`Grants` of `group.go`, `project.go`, `workbook.go`, `view.go`; `helpers.go`; the SDK's expander) | two-phase page token bag, stored name and content permissions, the store of grants, the expansion graph | Grants of each builder, expansion | memberships, permissions, locks, nesting and showTabs read at different times and from the cache; four kinds of links that hand access down; projects of the same name | users are shown just the access Tableau's rules give them; every workbook of a locked project inherits, from its own project only; what can be revoked is there to be revoked |
| Accounts (`user.go`) | tasks under way, requests on the wire, the cached listing of identity providers | CreateAccount, Delete | read-then-add, lost answers, POST retried by nobody | a task acts at most once, and what is reported is what it did; the sign-in is one somebody meant |
| Capability tables and slugs (`helpers.go`, `project.go`, `workbook.go`, `view.go`) | none | slug to capability and back | collisions between tables | the slug of every capability leads back to it |
| Session (`client.go` New, Login, doRequest) | the token | sign-in | the token ends before the process | a request after the end of the session recovers or fails clearly |
| Sampled warnings (`logging.go`), configuration, command line, resource construction | an atomic counter | | | not modelled: nothing depends on them |

They interact through Tableau (tasks change what a sync reads), through the response cache
(a task's lookup reads what a sync stored, a sync's listing what an earlier listing of the
same URL stored) and through the SDK's loops.

## Modules

| Module | Models |
|---|---|
| `TaskContract` | abstract: what a provisioning task promises, without requests, answers, retries or caches |
| `Provisioning` | Grant and Revoke of groups, projects, workbooks and views; implements `TaskContract` |
| `RoleContract` | abstract: what a task on a site role or a license promises, two of which may share one register |
| `SiteRoles` | Grant and Revoke of site roles and licenses; implements `RoleContract` |
| `Licensing` | the tables of roles and licenses, and what an entitlement means for a role; used by all of `RoleContract`, `SiteRoles` and `LicenseSync` |
| `LicenseSync` | the sync of accounts, site roles, licenses and seats |
| `PageWalk` | the walk over one paginated listing |
| `ProjectGrants` | the listing of projects, page by page, which of them and which workbooks inherit from which |
| `Capabilities` | the tables of capabilities and slugs, both ways |
| `AccessSync` | the sync of memberships and permissions as a whole, with the expansion of grants, and the tasks that change what it reads |
| `AccountContract` | abstract: what a task that creates or deletes an account promises |
| `Accounts` | creating and deleting accounts, with the choice of the sign-in; implements `AccountContract` |
| `*_proofs` | the theorems of a module and their proofs |
| `MC*` | the instances TLC checks |

### Provisioning

One attempt of a task is a sequence of steps: the early return of the All Users group
(`AnswerForAllUsers`), for a view the lookup of its workbook's showTabs (`CheckTabs`,
`TabsLookupFails`), the check of the principal's type (`RejectPrincipal`), the request
(`Send`), and the translation of the answer (`Receive`, `Report`). Between any two of them
other tasks, Tableau, other users and the cache take steps. `Timeout` is a retryable error
or an answer that does not come in time; the request stays in `wire` and Tableau may carry
it out at any later time (`Serve`) or never (`Drop`). `tries` is `Retryer.attempts`.

Tableau (`assigned`, `gone`, `tabs`) is external. It may refuse any request; it answers 409
to a grant only when the assignment is there (and need not even then), 404 to a revoke when
there is nothing to revoke or the resource is gone. Deleting a resource deletes its
assignments. Show Tabs puts any permissions on the views, as a workbook's permissions are
not otherwise modelled. There is one workbook. A view without a parent workbook skips the
lookup and is "content".

`met`, `alone`, `wrote`, `tabsOff` and `live` are history variables; no action's guard
reads them.

### SiteRoles

Tasks run as above, against one register per user, `role`. A license is granted by setting
the role of its name; both kinds are revoked by setting Unlicensed, whatever the role is by
then. `Goal` is the set of roles with which the next sync shows (or no longer shows) the
entitlement, so that a task is judged by what the platform will see. Tableau may store the
legacy SiteAdministrator as its successor, SiteAdministratorExplorer (docs-info.md:137);
that is why `Goal` uses `Stored`. A revoke of the *Unlicensed* role or license cannot do
what it is asked for, as Revoke sets just that role; it reports success all the same, and
the properties except it by name (`InVain`).

`TaskContract` cannot be kept here, as a task given one entitlement takes another away.
`RoleContract` says what is left: a task changes only its user's role, and only to one that
is its goal; it may do so late, but not once it is `over`, which in `SiteRoles` is what a
task is that was over at its first try (`Answered`); a success was the goal at some instant.

### LicenseSync

Four kinds of steps, each with a listing of its own: accounts (`ListUsers`), seats per
license (`CountTier`), site role grants (`SiteGrants`), license grants (`LicenseGrants`).
`Get` is the cached GET: listings with the same URL share a response. A license whose roles
can all be named in a filter is listed with the filter, Explorer (because of the legacy
role) without (`GrantsQuery`). The SDK asks for all resources before all grants, the calls
of one phase in any order (`Asks`). One response per listing; `PageWalk` has the pages.
Roles change in any way, the connector's own tasks being one of them: a PUT does not touch
the cache. A role may be one the tables do not know (`InPlay` has one): `SiteGrants` skips
its users, who are accounts all the same (site.go:117, docs-info.md:320). So `OneListing` does
not say that accounts and site roles are of the same users, but that one assignment of roles
to users explains both, and the grants of the unfiltered licenses as well. `GiveUpSeats` is the error path of `licenseBuilder.List`, allowed at any time
before the last count, which includes every time the code can take it. The SDK's option to
skip an action after a NotFound and still call the sync a success is left out.

### PageWalk

The listing is the rank of every item; page p holds the ranks from (p-1)*PageSize+1 to
p*PageSize of whatever response it came from. `NextPage` is `getNextPageToken`: the total
and the page size are those the response names, and a response without a usable page size
ends the walk. A sync that fails leaves its cached pages to the next one in the process.
`mishaps` records what the properties except.

### ProjectGrants

`List` is one page of the listing of projects, fresh or cached, and stores a project's name,
lock and parent. Each project is on a page of its own, the hardest case: a page of several
tells of them at one instant. `OwnGrants` and `WorkbookGrants` are
the two phases of a project's Grants, told apart by its page token, `bag`. A locked project
whose name can be used in a filter goes into the second phase (`Walked`), which lists the
workbooks of that *name* and keeps those of its *ID*. The listing's URL contains the name
only, so projects of one name share its cached pages. Workbooks are listed in the order of
their numbers; pages have a fixed size, and `PageWalk` has the responses without a usable
one. What is inherited is not looked into: `inherited` says for which workbooks Grants has
emitted the proxy grants, `Proxies` for which projects and from which parents, and
`AccessSync` what becomes of them.

Meanwhile workbooks move (`Move`), projects are renamed, locked and unlocked (`Edit`) and
moved (`Nest`; never into themselves, `Forest`). As parents are stored page by page, the
nesting a sync goes by may be one that never was, and it may have a cycle: the one page says
that A is in B, then A is moved out and B into A, and the next page says that B is in A. The
proxy grants then form a cycle as well, and the SDK's expander merges its entitlements. The
code does nothing about this; `CyclesTakeTwoMoves` says how far it can go: two projects of
such a cycle have been moved since the cache was last emptied. Pages left by a sync that
failed do not make it worse, and no single move, at whatever time, does it.

### Capabilities, AccessSync

`Capabilities` has every entry of the tables of helpers.go, project.go, workbook.go and
view.go; a slug is a tuple of words, as the only thing done with one is to put "Workbook" in
front. `EverySlugLeadsBack` is about the full tables, whatever part of them (`Caps`) an
instance uses: TLC evaluates it in the run `access`, and it is a theorem.

In `AccessSync` Tableau is a set of `facts`: who is a member of what and with which role,
which permission is allowed or denied to whom at which place, which project is locked, which
workbook shows tabs. A place is where Tableau keeps permissions; a project has two, its own
and the defaults of its workbooks. Each URL tells some of the facts (`At`), and `Response` is
the cached GET. `GroupGrants`, `ProjectGrants`, `WorkbookGrants`, `InheritedViewGrants` and
`OwnViewGrants` are the builders' Grants, in any order; they store grants, some of them with
the entitlement to expand (`via`, the GrantExpandable annotation): a group's grant to the
group's members and no further, a project's, workbook's or view's to whoever has the same
capability one link up. `Expand` makes the graph, `ExpandLayer` is one layer of the SDK's
topological expansion: contributions along the edges, merged into a grant that is there or
made a new one that cannot be revoked. The lock is the one stored when the projects were
listed; showTabs may have been left in the cache by a sync that failed or by a task
(`LookUp`). A task writes in one step (`Provisioning` has its steps), to the `Place` and the
capability that the slug leads to.

Which project is in which, and where workbooks are, is constant here, without cycles: the
module, its properties and its theorems are about syncs during which no project and no
workbook is moved. By `CyclesTakeTwoMoves` the nesting that a sync then stores has no cycle;
with moves it may have one, and nothing is claimed of what the expander makes of that.

`ever` and `always` are history: the facts that were so at some instant since the cache was
emptied, and those that were so all the time. The properties compare what the platform
shows with `Has`, which says what access *is* without any grants or slugs, and reads a
user's defaults from all projects around (`Enclosing`). `Has(always, ever, ...)` is what
must be shown, `Has(ever, always, ...)` what may be.

Left out: pages (`PageWalk`), names of projects (`ProjectGrants`), moves of projects and
workbooks (`ProjectGrants` has them, as far as it is stored who inherits from whom), and resources that come and go. The two GETs of a project's Grants are one step, as nothing
derived depends on both. All Users is a group like any other here. Responses do not expire
one by one during a sync: that `PageWalk` and `LicenseSync` have.

### Accounts

`Select` is CreateAccount up to its request: two-factor sign-in needs no lookup, a named
configuration has to be enabled, and without a name the only enabled SAML or OPENID
configuration is taken (`Choices`). The listing is a cached GET; `Forget` is every way in
which a cached response goes away. Configurations are told by their lower-cased names.
The checks that the profile has an e-mail and a known site role (user.go:119-127) are left
out: they fail before anything is asked of Tableau.
Neither CreateAccount nor Delete runs in the SDK's retry loop, so a task sends one request,
and `Timeout` ends it with an outcome, "unsure", that leaves open what Tableau does; in the
code that is an error like any other, but for its gRPC code. Tableau gives every user an ID
of its own and never two users one name. `AccountContract` is all of this that the platform sees: a task acts
at most once, success and failure say whether it did, and only "unsure" leaves it open.

## Runs

| Run | Instance | Shows |
|---|---|---|
| `groups` | two tasks, one principal, a permission, a membership and All Users, one retry | the contract of a task, concurrent tasks and late requests included |
| `views` | one task on a view, two principals (one of no grantable type), two retries | the same around the showTabs lookup, and that every task ends |
| `tabs` | as `views` | counterexample: a request for a view although showTabs was on throughout |
| `gone` | as `views` | counterexample: the Revoke of a permission that was there until its workbook was deleted, after the task began, is an error |
| `roles` | two tasks on one user, four roles, one retry | the contract of such tasks; a success is true, and lasts until somebody else writes |
| `serveradmin` | one task, three retries | counterexample: Revoke takes the server-level role away |
| `licenses` | two users, a role of each of two licenses (one of them the legacy role), a role that is not in the tables, one role change | accounts, site roles, licenses and seats agree |
| `pages` | up to three items, two per page | completeness, no phantom, order, and that every walk ends |
| `projects` | two projects that may have one name, two names, one of them unfit for a filter, two workbooks, one per page, at first one project in the other; one change of a workbook or a project, or two moves of projects | inherited grants are complete and of the right project, a cycle of projects takes two moves, and every walk ends |
| `access` | a user, a group, a project in a project, a workbook and a view in the inner one; three capabilities, one that all places have, one with two names, one of workbooks only; one permission at first, under any membership, lock and tabs; one change, by others or by a task, one failed sync | every access that is stable is shown, none is shown that is not real, what can be revoked is a rule, and what a task wrote the next sync shows |
| `accounts` | two tasks, one e-mail, two configurations, one change by others | the contract of such tasks; a report is true, a refusal harmless, every sign-in justified |
| `idp` | as `accounts`, no changes by others | counterexample: an OPENID configuration is chosen automatically |

**Why the bounds are enough.** A conflict needs two tasks on one key, or a task and an
outside writer, which is unbounded. One retry gives the case in which a task's first
request is carried out after its second; a third attempt adds another such request, which
does the same as the first, and `views` has it. A stale lookup takes one workbook. A mix of
listings of different age takes two reads and one change between them; the second user is
there to show that an unchanged user is not affected by the other's change. A project and a neighbour of the
same name are what a wrong attribution takes; every placement of the workbooks and every
name and lock is an initial state, so that one change, before or between two pages, is
enough for a snapshot to be stale. A cycle takes two moves of projects at least, which is what the
property says; with one project in the other at first, two are enough for one (move it out, and
the other into it), and TLC finds it when asked. Workbooks do not move in those behaviors, and
projects only where none is locked (`Apart`): the walks do not look at the nesting. Of a listing, three items in pages of two have a full
page, a last page that is not full, and a second page that a removal empties; longer walks
are left to the theorems. In `access`, a chain has all four kinds of links: from the outer
project to the inner, to its locked workbook, to a view with tabs, and from a group to its
members at the top. A chain can be wrong in one link that changed, or in one capability; so
one permission, one change and three capabilities are enough. `MCVolatile` names the facts
that others change, `MCAsked` one entitlement per table that tasks are for, and `InTurn`
leaves out orders of reads that cannot matter, or only in the sync after a failed one. TLC
visits between ten thousand and 1.4 million states per run. The theorems below have none of
these bounds.

**Deadlock** is not checked where every task, or every change, may be over
(`CHECK_DEADLOCK FALSE`); `licenses`, `projects`, `access` and
`accounts` check it.

**Symmetry** is used for tasks, users, items and configurations that no definition tells apart, and not in
runs with liveness properties.

**Fairness.** `views`: weak fairness of the steps of a started task, justified by the HTTP
client's timeout (300 s by default), after which a request is given up on, and by the
absence of any lock between tasks. Tableau, the network and other users get none: a request
may stay on the wire for ever. `pages`: weak fairness of fetching the next page, which
the sync engine does until the token is empty or the sync fails. `projects`: the same, of the
Grants of every project.

## What is proved

For every value of the constants, under the named assumptions of the modules only
(`ProvisioningAssumption`: kinds and types are what they are, MaxRetries is a natural
number; `PageWalkAssumption`: finitely many items, a positive page size;
`SiteRolesAssumption`: the roles in play are roles; `AccountsAssumption`: no configuration
is called as one of the four marks of the model; `LicenseSyncAssumption`: finitely many users,
the licenses are such, and no role in play, known or not, is called "none";
`ProjectGrantsAssumption`: finitely many workbooks, numbered, a positive page size;
`InitialNestingsAreForests`: at first no project is in itself, directly or not; `AccessAssumption`: every workbook and view is in one place, where it stays,
and the projects a project is nested in come to an end, see above; `BoundsAssumption`: what the bounds name are facts and
entitlements):

* `Provisioning_proofs`: `Types`, `Truth` (OutcomeIsTrue), `Refinement` (Spec implements
  `TaskContract`), `Efficacy` (Effective), `FirstTryTells` (FirstTryTellsAll), `LiveLookup`
  (LiveLookupGuards), `StepsRunOut`.
* `TaskContract_proofs`: the contract itself implies that a success is true (`Truth`), that
  a goal once met holds until somebody else touches the key (`Lasting`), and that a success
  therefore lasts (`Efficacy`).
* `PageWalk_proofs`: `Typing`, `Completeness`, `NothingInvented`, `Ordering`,
  `Bounded`, `Advances`.
* `SiteRoles_proofs`: `Typing`, `Truth` (OutcomeIsTrue), `Lasting` (LastTaskWins),
  `Refinement` (Spec implements `RoleContract`).
* `Accounts_proofs`: `Types`, `SignIn` (SignInIsJustified), `Truth` (ReportIsTrue),
  `Harmless` (FailureChangesNothing), `Refinement` (Spec implements `AccountContract`).
* `LicenseSync_proofs`: `Typing`, `OneLicenseEach` (OneLicense), `OneListingForAll`
  (OneListing), `SeatsAgreeWithGrants` (SeatsAgree).
* `ProjectGrants_proofs`: `Typing`, `OnlyItsOwn` (InheritsFromItsOwn), `NoneIsMissed`
  (AllInherit), `KnotsAreOfMoves` (CyclesTakeTwoMoves), `GrantsRunOut`.
* `AccessSync_proofs`: `Typing`, `NoPhantomAccess` (ShownAccessIsReal), `NoAccessIsMissed`
  (StableAccessIsShown), `RevocableIsBacked` (RevocableIsARule), `WritesReturn`
  (WritesAreShown), `SlugsLeadBack` (EverySlugLeadsBack), `Exactness`.

So every invariant and every action property that a passing run checks is also a theorem.

**Provisioning.** No property is inductive by itself. What a task reports rests on the
answer it waits for, so `SafetyInv` says of every answer what must have been so when Tableau
gave it: an answer "ok", a "conflict" to a grant and a "missing" to a revoke are given only
to tasks in `met`. From there `Truth` is one step. For the refinement, `Serve` maps to the
contract's `Write` when Tableau carries the request out and to a stutter when it does not,
the steps that end a task map to `Finish`, everything other users do to `Outside`, and
all else stutters; the guard of `Finish`, that a success is in `met`, is what `SafetyInv`
supplies. `Efficacy` follows from the contract: `Lasting` shows that once a task is in `met`
and its key is touched by nobody else, the goal holds, because its own late requests all
write towards the goal. `FirstTryTells` needs that a request on the wire has a try number no
greater than the task's, and that a waiting task at its first try has at most the one.

**PageWalk.** `Completeness` is proved from an invariant that every response and the pages
collected so far satisfy: an item that has been there since the cache was last emptied and
has not been removed only moves towards the end, so its rank in an older response is at most
its rank in a newer one; hence an item that is not collected yet is, in the last response
used, on a page not yet asked for. When the walk ends no such page exists. Which of two
responses is older is told by their totals, which only grow as long as nothing is removed.
`Ordering` needs that, until a sync fails, a walk starts with an empty cache and every cached
response is of a page it has passed, so that no page comes from the cache at all.

**SiteRoles.** `Told` is as in Provisioning, with the lemma `TargetMeetsGoal` about the tables:
the role a task sets shows (or no longer shows) the entitlement. `Lasting` needs that a task
over at its first try has no request left (`OnTheWire`, `OverBefore`), so that within the
span in which the user's role is touched only by such tasks and by the task itself, it is
the task itself that touches it (`Held`). For `Refinement`, a request that is carried out maps to
`Write`, the end of a task to `Finish`, with the task over if it is `Answered`. That an
over task does not write is `OnTheWire`, that a role it writes is one the task may set
`TargetIsAimed`, and that a success is in `met` is `Told` again.

**Accounts.** The inductive invariant `IInv` follows the one request of a task: before it
leaves the task has done nothing (`Requests`), while it is under way there is no answer and
still nothing done, and an answer "ok" or a refusal says whether something was (`Requests`,
`Outcomes`). `Ids` is why a deleted user stays gone. For the sign-in, `Spans` keeps whatever
a lookup may read inside the task's span, and `ChoiceIsJustified` is the lemma about
selectIDPConfiguration itself; a justification is never lost, since spans only grow. For `Refinement`, Tableau's `Add` and
`Remove` of a task map to `Act` and the ends of tasks to `Finish`: the guard of `Act`, that a
task acts once and not after it reported, and that of `Finish`, that the report is what it
did, are `Requests` and `Outcomes` again.

**LicenseSync.** `IInv` ties what a sync has derived to the cache: there is one response per
URL (`CacheOK`), each true of every user whose role has not changed, and the grants of a step
that is over are those of a listing like that (`GrantsOK`). `ListingOK` says that all that was
derived from the unfiltered listing is derived from one role function, as long as the
response has not left the cache. The tables enter only through facts that are read off them:
the roles of different licenses are disjoint, and a license listed with a filter names all
its roles.

**ProjectGrants.** The heart is `SeenOrBehind`: of a name whose listing has lost nothing, the
cached pages are the first k, and a workbook that was there all along is on one of them or
ranks behind them all, since those that come in can only push it back. `TokenOK` says that
the pages before a project's token have been told, and `DoneOK` follows when the walk ends:
the last page's total leaves nobody behind. `InheritsFromItsOwn` needs only that what is
cached was once so (`TrueOK`). For `KnotsAreOfMoves`, every parent that is cached or stored is of
a nesting there was at some instant, in which all that have not been moved since are where they
are now (`OfOneInstant`, `NestedOK`). In a cycle with at most one project that was moved, the stored
parents are all of the nesting that this project's is of; and a nesting has no cycle.

**AccessSync.** No access is shown that is not real because every edge of the graph is one of
four kinds (`EdgeOK`), and along each of them real access leads to real access (`EdgesLead`):
`Sound` says so of every grant, and is kept by a merge and by a derivation. That no access is
missed needs the other half: `CollectedOK`, that what has been asked for is there, the edges
included, and `ReducedOK`, that an entitlement is reduced after all it is derived from, then
has what they have, and does not change any more. `AllReduced` shows that the expansion stops
only when all is reduced: groups have no edges into them, the default entitlements of a
project come from those around it, which end, then come the workbooks, then the views
(`NoKnot`). With
both, `ByDefaultIsHeld`, `OnWorkbookIsHeld` and `AllowedIsHeld` follow the definition of `Has`.
`WritesReturn` adds that where permissions were read the direct grants are just those of the
response (`ToldOK`), which the expansion keeps since no entitlement has an edge to itself.

**Why things end.** Liveness is out of the prover's reach, but what makes it true is not:
`StepsLeft` of a task, `CallsLeft` of a project's Grants and the page of a walk are natural
numbers that every step of the task, every call of Grants and every fetch moves towards their
end, and that nothing else moves back but the start of a sync. `StepsRunOut`, `GrantsRunOut`,
and `Bounded` with `Advances` say so for every retry limit and every page size, whatever
Tableau, the cache and other tasks do meanwhile. That a listing counts what it lists, and so
never more than there is, is the invariant the last three need (`Counted`, `FewPages`).

**Only model-checked:** `TasksEnd`, `WalkEnds` and `GrantsEnd`, the liveness properties
themselves: they add to these theorems that some step is enabled, and that it is taken.

## Where the code and its documentation disagree

1. *showTabs is not always looked up live* (`tabs`). README.md:69 and the comment at
   view.go:35 say that a view's Grant and Revoke are blocked when showTabs is on, "by
   calling the Tableau API directly"; the GET is answered from the response cache if an
   earlier sync or task left it there. `LiveLookupGuards` says what remains true.
2. *Revoking what went with its workbook is an error* (`gone`). README.md:76 promises
   success; the showTabs lookup in front of the revoke returns its 404 as an error.
3. *Revoke takes a server-level role away* (`serveradmin`). docs-info.md:138 and :420 call
   ServerAdministrator "Sync only" and "Read-only"; only Grant checks nonGrantableRoles. The
   model shows that the request goes out; whether Tableau accepts it is Tableau's business.
4. *Not only SAML is chosen automatically* (`idp`). docs-info.md:314 says that without exactly
   one enabled SAML configuration no auth fields are set; the code counts OPENID
   configurations as well (client.go:669), takes one that is alone, and reports an error when
   there are several.

Noticed while modelling, without a run, as they are about what is shown to people and not
about a behaviour: docs-info.md:272 says that views have all capabilities "except Write", but
`viewCapabilities` also lacks RunExplainData, ExportXml, ExtractRefresh and ChangeHierarchy;
and the comment at helpers.go:132 says that a nil table falls back to `allCapabilitiesMap`,
which the code does not do.

## Not modelled

* Formatting and parsing of URLs, JSON bodies and identifiers; resource, entitlement and
  metadata construction; the sampled warnings of logging.go; configuration and command line:
  no state, and no decision that a property could be about.
* The sign-in: one call at start-up that succeeds or ends the process. The token is never
  renewed, so the end of a session is what every model allows anyway: Tableau refuses every
  request from then on.
* A response on its way: the SDK stores the response to a GET in the cache when it arrives
  (`BaseHttpClient.Do`), so that one which is under way while a Cleanup empties the cache is stored
  after it, and outlives it. In all models a GET and the storing of its response are one step;
  "since the cache was last emptied" is meant so.
* What the expander makes of a cycle of proxy grants, see `ProjectGrants`.
* Time: the expiry of the cache is a step that may happen at any time, backoff and rate
  limits are delays, which interleaving covers. Nothing proved depends on a clock.
* What Tableau makes of its rules beyond what the connector reads. The connector reads
  allowed capabilities only; a denied one is skipped (`grantsFromCapabilities`), so `Has`
  is about what is allowed, and what Tableau does about a denial for the same user, or with
  a grant over one, is not modelled. Nor is the access that owners, project leaders and
  administrators have without any rule.
* Whether nested projects follow their parent's permissions in Tableau: the connector hands
  the default permissions of a project down to the projects in it whether or not it is
  locked, and `Has` takes that as meant, as it takes that a view with its own permissions in
  a locked project has just these.
* The names of groups, and a second group called All Users: which group is All Users is
  fixed in `Provisioning`.
* Of the SDK, whatever is not named in the tables above: it is vendored, and only what the
  connector hangs on is modelled, where it is used.

## Plan

Every component with state of its own has its module, every invariant, action property and
refinement its proof. What could still be added, in order of importance:

1. A refinement of `AccessSync`'s one-step tasks by the tasks of `Provisioning`, so that the
   writes of several concurrent tasks meet one sync.
2. What follows from `RoleContract` and `AccountContract` alone, as `TaskContract_proofs` has
   it for `TaskContract`: that a success lasts, that two creations of one e-mail do not both
   succeed.
3. An abstract specification of a sync (what it promises whatever is read when), implemented
   by `AccessSync`, so that `Exactness` and its two halves follow from it.
4. Resources that come and go during a sync of permissions, should the connector ever react
   to them other than by an error.
5. Moves in `AccessSync`: the nesting as `ProjectGrants` stores it, and what merging the
   entitlements of a cycle adds to what users are shown.
