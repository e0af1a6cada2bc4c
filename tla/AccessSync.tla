----------------------------- MODULE AccessSync -----------------------------
(***************************************************************************)
(* Who has which permission, as the platform comes to see it.  A sync      *)
(* reads memberships, permissions, locks and showTabs piece by piece       *)
(* (Grants of group.go, project.go, workbook.go and view.go), stores       *)
(* grants, some of them to groups, projects and workbooks, and the SDK's   *)
(* expander derives from these what users have.  Meanwhile Tableau's       *)
(* administrators and the connector's own tasks change what is read.       *)
(*                                                                         *)
(* Tableau is a set of facts, each of which one URL tells; a response is   *)
(* the facts of its URL at some instant.  A response is cached until a     *)
(* sync succeeds (the SDK's cache, as in PageWalk), so a sync may read     *)
(* what an earlier one that failed, or a task, has left behind.            *)
(***************************************************************************)
EXTENDS Naturals, FiniteSets, Capabilities

CONSTANTS Users, Groups, Projects, Workbooks, Views,
          Parent,       \* the parent project of every project, or "none"
          Home,         \* the project of every workbook, or "none"
          Book,         \* the workbook of every view
          Caps,         \* bound: the capabilities there are
          InitialFacts, \* what Tableau may hold at first
          Volatile,     \* bound: the facts that administrators change
          Asked,        \* bound: what tasks are for, <<entitlement, principal>>
          MaxChanges,   \* bound: number of changes, by tasks or by others
          MaxFails      \* bound: number of syncs that fail

\* Nesting and homes are as the sync stored them, for this is about syncs during which no
\* project and no workbook is moved: then the projects that a project is nested in come to
\* an end, as they do in Tableau.  ProjectGrants has the moves, and what nesting is stored
\* when projects are moved between two pages of their listing.
ASSUME AccessAssumption ==
  /\ "none" \notin Projects
  /\ Parent \in [Projects -> Projects \cup {"none"}]
  /\ \A S \in SUBSET Projects : S # {} => \E p \in S : Parent[p] \notin S
  /\ Home \in [Workbooks -> Projects \cup {"none"}]
  /\ Book \in [Views -> Workbooks]
  /\ MaxChanges \in Nat /\ MaxFails \in Nat

Modes == {"Allow", "Deny"}

Principals == ({"user"} \X Users) \cup ({"group"} \X Groups)

\* The tables of Capabilities, of the capabilities there are.
Slugs == [type \in DOMAIN SlugsOf |-> Restrict(SlugsOf[type], DOMAIN SlugsOf[type] \cap Caps)]

\* The places with permissions of their own, named for their tables.
Places == ({"project", "default"} \X Projects) \cup ({"workbook"} \X Workbooks)
            \cup ({"view"} \X Views)

\* The URLs of the listing of projects, of a workbook, of a group's members.
ProjectList == <<"projects">>
Details(w)  == <<"details", w>>
Members(g)  == <<"members", g>>

URLs == {ProjectList} \cup {Details(w) : w \in Workbooks}
          \cup {Members(g) : g \in Groups} \cup Places

\* GranteeCapabilities, one grantee and one capability at a time.
RuleFact(place, to, cap, mode) == [at |-> place, to |-> to, cap |-> cap, mode |-> mode]
MemberFact(g, u, role) == [at |-> Members(g), user |-> u, role |-> role]
LockFact(p) == [at |-> ProjectList, locked |-> p]
TabsFact(w) == [at |-> Details(w), showTabs |-> "true"]

Rules ==
  UNION {{RuleFact(place, to, cap, mode) : to \in Principals, cap \in DOMAIN Slugs[place[1]],
                                           mode \in Modes} : place \in Places}

Others ==
  {MemberFact(g, u, role) : g \in Groups, u \in Users,
                            role \in {"ServerAdministrator", "other"}}
    \cup {LockFact(p) : p \in Projects} \cup {TabsFact(w) : w \in Workbooks}

Facts == Rules \cup Others

VARIABLES
  facts,   \* what is so in Tableau
  cache,   \* the cached responses: URL to facts
  \* the sync
  phase,   \* "list", "grants", "expand" or "done"
  todo,    \* what it has still to ask for: places, and groups' members
  grants,  \* the grants in its store
  edges,   \* the graph of the expansion
  reduced, \* entitlements whose expansion is over
  \* history, since the cache was last emptied
  ever,    \* facts that were so at some instant
  always,  \* facts that have been so all the time
  \* history
  wrote,   \* the last write of a task, if it came before every read and still stands
  changes, fails

sync == <<phase, todo, grants, edges, reduced>>
vars == <<facts, cache, sync, ever, always, wrote, changes, fails>>

-----------------------------------------------------------------------------
(* Responses. *)

At(url, S) == {f \in S : f.at = url}

\* A GET through the response cache.
Response(url) == IF url \in DOMAIN cache THEN cache[url] ELSE At(url, facts)

Remember(urls) == cache' = [u \in DOMAIN cache \cup urls |-> Response(u)]

\* getShowTabs, of the workbook of a view.
ShowTabs(v) == Response(Details(Book[v])) # {}

\* isLockedToProject, of the content permissions stored with a project.
Locked(p) == LockFact(p) \in cache[ProjectList]

-----------------------------------------------------------------------------
(***************************************************************************)
(* Grants.  An entitlement is <<type, id, slug>>.  A grant has the sources *)
(* it was derived from (none: it is direct), the entitlement whose grants  *)
(* are to be copied to its own (GrantExpandable), if any, and may be one   *)
(* the platform must not revoke (GrantImmutable).                          *)
(***************************************************************************)
Resource(place) == IF place[1] = "default" THEN <<"project", place[2]>> ELSE place
Entitlement(resource, slug) == <<resource[1], resource[2], slug>>
EntitlementOf(place, cap) == Entitlement(Resource(place), Slugs[place[1]][cap])
Member(g) == <<"group", g, <<"member">>>>

\* A workbook in nobody's project, in a Personal Space, is not listed, nor are its views.
Listed ==
  {p \in Places : /\ p[1] = "workbook" => Home[p[2]] # "none"
                  /\ p[1] = "view" => Home[Book[p[2]]] # "none"}

\* The entitlements of permissions (StaticEntitlements of the builders).
Permissions ==
  UNION {{EntitlementOf(p, c) : c \in DOMAIN Slugs[p[1]]} : p \in Listed}

ASSUME BoundsAssumption ==
  /\ InitialFacts \subseteq SUBSET Facts
  /\ Volatile \subseteq Facts
  /\ Asked \subseteq Permissions \X Principals

Edge(from, shallow) == [from |-> from, shallow |-> shallow]

NewGrant(on, to, via) == [on |-> on, to |-> to, src |-> {}, via |-> via, immutable |-> FALSE]

\* A group's grant flows to its members, and no further.
toMembers(to) == IF to[1] = "group" THEN {Edge(Member(to[2]), TRUE)} ELSE {}

\* MUTANT: denied capabilities are granted as well.
grantsFromAllModes(resource, rules, ownSlugs) ==
  {NewGrant(Entitlement(resource, ownSlugs[r.cap]), r.to, toMembers(r.to)) :
     r \in {s \in rules : s.cap \in DOMAIN ownSlugs}}

\* What users and groups were given here, of the capabilities the table knows.
grantsFromCapabilities(resource, rules, ownSlugs) ==
  {NewGrant(Entitlement(resource, ownSlugs[r.cap]), r.to, toMembers(r.to)) :
     r \in {s \in rules : s.mode = "Allow" /\ s.cap \in DOMAIN ownSlugs}}

\* MUTANT: only what the parent was granted directly flows to the child.
shallowInheritedGrants(resource, parent, ownSlugs, parentSlugs) ==
  {NewGrant(Entitlement(resource, ownSlugs[c]), parent,
            {Edge(Entitlement(parent, parentSlugs[c]), TRUE)}) :
     c \in DOMAIN ownSlugs \cap DOMAIN parentSlugs}

\* MUTANT: the grant is made of the parent's table.
grantsOfParentsSlugs(resource, parent, ownSlugs, parentSlugs) ==
  {NewGrant(Entitlement(resource, parentSlugs[c]), parent,
            {Edge(Entitlement(parent, parentSlugs[c]), FALSE)}) :
     c \in DOMAIN ownSlugs \cap DOMAIN parentSlugs}

\* The child has what the parent has, derived or not, capability by capability.
inheritedGrants(resource, parent, ownSlugs, parentSlugs) ==
  {NewGrant(Entitlement(resource, ownSlugs[c]), parent,
            {Edge(Entitlement(parent, parentSlugs[c]), FALSE)}) :
     c \in DOMAIN ownSlugs \cap DOMAIN parentSlugs}

\* The grants of members; server administrators are left out.  (Those of All Users are
\* immutable, which is left out here: Provisioning has what becomes of their revokes.)
memberGrants(g, members) ==
  {NewGrant(Member(g), <<"user", f.user>>, {}) :
     f \in {m \in members : m.role # "ServerAdministrator"}}

\* What a project hands down: to itself from its parent, to its workbooks if it is locked.
handedDown(p) ==
  (IF Parent[p] = "none" THEN {}
   ELSE inheritedGrants(<<"project", p>>, <<"project", Parent[p]>>, Slugs.default, Slugs.default))
  \cup UNION {inheritedGrants(<<"workbook", w>>, <<"project", p>>, Slugs.workbook, Slugs.default) :
                w \in {v \in Workbooks : Home[v] = p /\ Locked(p)}}

\* The grants that come of the response for a place.
ownGrants(place) ==
  grantsFromCapabilities(Resource(place), Response(place), Slugs[place[1]])

-----------------------------------------------------------------------------
(***************************************************************************)
(* Expansion (the SDK's expander).  Entitlements are reduced in layers: an *)
(* entitlement's turn comes when all it is derived from have had theirs.   *)
(***************************************************************************)
Edges ==
  UNION {{[from |-> e.from, shallow |-> e.shallow, into |-> g.on] : e \in g.via} : g \in grants}

Nodes == {e.from : e \in edges} \cup {e.into : e \in edges}

Ready == (Nodes \ reduced) \ {d.into : d \in {c \in edges : c.from \notin reduced}}

\* isGrantDirectOnEntitlement: it was there before the expansion.
Direct(g) == g.src = {} \/ g.on \in g.src

\* grantContributesOverEdge: what flows into the entitlements, as <<source, from, to>>.
Contributions(into) ==
  UNION {{<<h.on, d.into, h.to>> :
            h \in {g \in grants : g.on = d.from /\ (d.shallow => Direct(g))}} :
           d \in {c \in edges : c.into \in into}}

Sources(flow, e, to) == {c[1] : c \in {d \in flow : d[2] = e /\ d[3] = to}}

\* mergeContributionIntoExistingGrant: it is direct still, and derived as well.
Merged(flow, g) ==
  LET src == Sources(flow, g.on, g.to)
  IN  IF src = {} THEN g
      ELSE [g EXCEPT !.src = src \cup (IF g.src = {} THEN {g.on} ELSE g.src)]

\* MUTANT: a derived grant may be revoked.
RevocableDerived(flow, e, to) ==
  [on |-> e, to |-> to, src |-> Sources(flow, e, to), via |-> {}, immutable |-> FALSE]

\* newExpandedGrantWithSources.
Derived(flow, e, to) ==
  [on |-> e, to |-> to, src |-> Sources(flow, e, to), via |-> {}, immutable |-> TRUE]

ExpandLayer ==
  /\ phase = "expand" /\ Ready # {}
  /\ LET flow   == Contributions(Ready)
         unheld == {<<c[2], c[3]>> : c \in flow} \ {<<g.on, g.to>> : g \in grants}
     IN  grants' = {Merged(flow, g) : g \in grants} \cup {Derived(flow, c[1], c[2]) : c \in unheld}
  /\ reduced' = reduced \cup Ready
  /\ UNCHANGED <<facts, cache, phase, todo, edges, ever, always, wrote, changes, fails>>

-----------------------------------------------------------------------------
(* The sync. *)

Init ==
  /\ facts \in InitialFacts
  /\ cache = [u \in {} |-> {}]
  /\ phase = "list" /\ todo = {} /\ grants = {} /\ edges = {} /\ reduced = {}
  /\ ever = facts /\ always = facts
  /\ wrote = {} /\ changes = 0 /\ fails = 0

\* The resources are listed; a project is stored with its content permissions.
List ==
  /\ phase = "list"
  /\ Remember({ProjectList})
  /\ phase' = "grants"
  /\ todo' = Listed \cup {Members(g) : g \in Groups}
  /\ UNCHANGED <<facts, grants, edges, reduced, ever, always, wrote, changes, fails>>

\* A Grants call: the URLs are asked for, and new are the grants that come of it.
Collect(urls, new) ==
  /\ phase = "grants" /\ urls \subseteq todo
  /\ Remember(urls)
  /\ grants' = grants \cup new
  /\ todo' = todo \ urls
  /\ UNCHANGED <<facts, phase, edges, reduced, ever, always, wrote, changes, fails>>

GroupGrants(g) == Collect({Members(g)}, memberGrants(g, Response(Members(g))))

\* Two GETs, the proxies to the parent, and the phase of the workbooks.  They are
\* one step: nothing that is derived depends on both GETs.
ProjectGrants(p) ==
  Collect({<<"project", p>>, <<"default", p>>},
          ownGrants(<<"project", p>>) \cup ownGrants(<<"default", p>>) \cup handedDown(p))

WorkbookGrants(w) == Collect({<<"workbook", w>>}, ownGrants(<<"workbook", w>>))

\* The first GET of a view's Grants; also that of a task on it, at any time.
LookUp(v) ==
  /\ Details(Book[v]) \notin DOMAIN cache
  /\ Remember({Details(Book[v])})
  /\ UNCHANGED <<facts, sync, ever, always, wrote, changes, fails>>

\* With showTabs on, all a view has comes from its workbook, and nothing is asked for.
InheritedViewGrants(v) ==
  LET view == <<"view", v>> IN
  /\ phase = "grants" /\ view \in todo
  /\ Details(Book[v]) \in DOMAIN cache /\ ShowTabs(v)
  /\ grants' = grants \cup inheritedGrants(view, <<"workbook", Book[v]>>,
                                           Slugs.view, Slugs.workbook)
  /\ todo' = todo \ {view}
  /\ UNCHANGED <<facts, cache, phase, edges, reduced, ever, always, wrote, changes, fails>>

OwnViewGrants(v) ==
  /\ Details(Book[v]) \in DOMAIN cache /\ ~ShowTabs(v)
  /\ Collect({<<"view", v>>}, ownGrants(<<"view", v>>))

Expand ==
  /\ phase = "grants" /\ todo = {}
  /\ phase' = "expand"
  /\ edges' = Edges
  /\ UNCHANGED <<facts, cache, todo, grants, reduced, ever, always, wrote, changes, fails>>

\* The sync has succeeded.
Finish ==
  /\ phase = "expand" /\ Ready = {}
  /\ phase' = "done"
  /\ UNCHANGED <<facts, cache, todo, grants, edges, reduced, ever, always, wrote, changes, fails>>

\* Its end empties the cache, and another begins; or the process has died, and with it
\* the cache.  (A response that expires on its own is in PageWalk.)
NextSync ==
  /\ phase \in {"grants", "expand", "done"}
  /\ phase' = "list" /\ todo' = {} /\ grants' = {} /\ edges' = {} /\ reduced' = {}
  /\ cache' = [u \in {} |-> {}]
  /\ ever' = facts /\ always' = facts
  /\ UNCHANGED <<facts, wrote, changes, fails>>

\* The sync fails, and another begins with the cache this one has left.
Fail ==
  /\ phase \in {"grants", "expand"} /\ fails < MaxFails
  /\ phase' = "list" /\ todo' = {} /\ grants' = {} /\ edges' = {} /\ reduced' = {}
  /\ fails' = fails + 1
  /\ UNCHANGED <<facts, cache, ever, always, wrote, changes>>

-----------------------------------------------------------------------------
(* Changes of Tableau. *)

Become(F) ==
  /\ facts' = F
  /\ ever' = ever \cup F
  /\ always' = always \cap F
  /\ changes' = changes + 1

\* An administrator changes a membership, a permission, a lock or showTabs.
Outside ==
  /\ changes < MaxChanges
  /\ \E f \in Volatile :
       /\ Become(IF f \in facts THEN facts \ {f} ELSE facts \cup {f})
       /\ wrote' = {w \in wrote : w.fact # f}
  /\ UNCHANGED <<cache, sync, fails>>

\* MUTANT: a project's default permissions are written as its own.
PlaceOfItsOwn(e) == <<e[1], e[2]>>

\* The place that Grant and Revoke write to.
Place(e) ==
  IF e[1] = "project" /\ isDefaultWorkbookSlug(e[3]) THEN <<"default", e[2]>>
  ELSE <<e[1], e[2]>>

\* A task writes a permission in one step (Provisioning has its steps), one that is not
\* denied: what Tableau does with such a one is not modelled.
Task(e, to, op) ==
  LET f == RuleFact(Place(e), to, CapabilityOf(e[3]), "Allow") IN
  /\ changes < MaxChanges
  /\ [f EXCEPT !.mode = "Deny"] \notin facts
  /\ e[1] = "view" => Details(Book[e[2]]) \in DOMAIN cache /\ ~ShowTabs(e[2])
  /\ Become(IF op = "grant" THEN facts \cup {f} ELSE facts \ {f})
  /\ wrote' = IF Place(e) \in DOMAIN cache THEN {w \in wrote : w.fact # f}
              ELSE {[fact |-> f, on |-> e, to |-> to, op |-> op]}
  /\ UNCHANGED <<cache, sync, fails>>

Next ==
  \/ List \/ Expand \/ ExpandLayer \/ Finish \/ NextSync \/ Fail \/ Outside
  \/ \E g \in Groups : GroupGrants(g)
  \/ \E p \in Projects : ProjectGrants(p)
  \/ \E w \in Workbooks : WorkbookGrants(w)
  \/ \E v \in Views : LookUp(v) \/ InheritedViewGrants(v) \/ OwnViewGrants(v)
  \/ \E a \in Asked, op \in {"grant", "revoke"} : Task(a[1], a[2], op)

Spec == Init /\ [][Next]_vars

-----------------------------------------------------------------------------
(***************************************************************************)
(* What access is, in terms of Tableau's capabilities, of facts F that     *)
(* hold and of facts N among which those that do not hold are missing.     *)
(***************************************************************************)

Belongs(F, u, g) == MemberFact(g, u, "other") \in F

\* Capability cap is allowed to the user at a place, or to a group of hers.
Allowed(F, u, place, cap) ==
  \/ RuleFact(place, <<"user", u>>, cap, "Allow") \in F
  \/ \E g \in Groups : /\ RuleFact(place, <<"group", g>>, cap, "Allow") \in F
                       /\ Belongs(F, u, g)

\* The project and those it is nested in: they are in every set that is closed
\* under Parent and holds the project.
Enclosing(p) ==
  {q \in Projects :
     \A S \in SUBSET Projects :
       p \in S /\ (\A r \in S : Parent[r] = "none" \/ Parent[r] \in S) => q \in S}

ByDefault(F, u, p, cap) == \E q \in Enclosing(p) : Allowed(F, u, <<"default", q>>, cap)

OnWorkbook(F, u, w, cap) ==
  \/ Allowed(F, u, <<"workbook", w>>, cap)
  \/ LockFact(Home[w]) \in F /\ ByDefault(F, u, Home[w], cap)

OnView(F, N, u, v, cap) ==
  \/ TabsFact(Book[v]) \in F /\ OnWorkbook(F, u, Book[v], cap)
  \/ TabsFact(Book[v]) \notin N /\ Allowed(F, u, <<"view", v>>, cap)

\* The same of every kind of place.
Has(F, N, u, place, cap) ==
  \/ place[1] = "project"  /\ Allowed(F, u, place, cap)
  \/ place[1] = "default"  /\ ByDefault(F, u, place[2], cap)
  \/ place[1] = "workbook" /\ OnWorkbook(F, u, place[2], cap)
  \/ place[1] = "view"     /\ OnView(F, N, u, place[2], cap)

\* The platform shows the user with the entitlement of a capability at a place.
Shown(u, place, cap) ==
  \E g \in grants : g.on = EntitlementOf(place, cap) /\ g.to = <<"user", u>>

-----------------------------------------------------------------------------
(* Properties. *)

TypeOK ==
  /\ facts \subseteq Facts /\ ever \subseteq Facts /\ always \subseteq Facts
  /\ DOMAIN cache \subseteq URLs
  /\ \A u \in DOMAIN cache : cache[u] \subseteq Facts
  /\ phase \in {"list", "grants", "expand", "done"}
  /\ todo \subseteq URLs
  /\ \A g \in grants : g.on \in Permissions \cup {Member(h) : h \in Groups}
  /\ changes \in 0 .. MaxChanges /\ fails \in 0 .. MaxFails

(* When a sync has succeeded, it shows every access for which all that it takes
   has been so since the cache was last emptied, whatever else has changed: through
   a group, a project's defaults, those of the projects around it, and showTabs. *)
StableAccessIsShown ==
  phase = "done" =>
    \A u \in Users, place \in Listed : \A cap \in DOMAIN Slugs[place[1]] :
      Has(always, ever, u, place, cap) => Shown(u, place, cap)

(* And it shows no access but one for which all that it takes was so at some instant
   since then, so that no chain of grants leads further than Tableau's own rules. *)
ShownAccessIsReal ==
  phase = "done" =>
    \A u \in Users, place \in Listed : \A cap \in DOMAIN Slugs[place[1]] :
      Shown(u, place, cap) => Has(ever, always, u, place, cap)

(* What the platform may revoke is something that is there to be taken away: the
   membership, or the permission that Revoke would delete, of just that user or group.
   What users have through a group, a project or a workbook cannot be revoked. *)
RevocableIsARule ==
  \A g \in grants :
    ~g.immutable /\ g.to \in Principals =>
      IF g.on[1] = "group"
      THEN \E f \in ever : f.at = Members(g.on[2]) /\ <<"user", f.user>> = g.to
      ELSE RuleFact(Place(g.on), g.to, CapabilityOf(g.on[3]), "Allow") \in ever

(* What a task has written the next sync shows, under the entitlement the task was
   asked for: the permission is there after a grant and, as a direct one, gone after a
   revoke.  A view's is not looked at while showTabs is on. *)
WritesAreShown ==
  phase = "done" =>
    \A w \in wrote :
      (w.on[1] = "view" => ~ShowTabs(w.on[2])) =>
        (w.op = "grant" <=> \E g \in grants : g.on = w.on /\ g.to = w.to /\ Direct(g))
=============================================================================
