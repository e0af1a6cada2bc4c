---------------------------- MODULE ProjectGrants ----------------------------
(***************************************************************************)
(* A sync of projects and of what their workbooks inherit                  *)
(* (projectBuilder.List and Grants, project.go).  The Grants of a project  *)
(* have two phases, driven by a bag of page tokens: its own permissions,   *)
(* and, if it is locked, a walk of the workbooks listed under its name, of *)
(* which those with its ID inherit from it.  Name, lock and parent project *)
(* are those the sync stored when it listed the projects.                  *)
(*                                                                         *)
(* Projects are walked concurrently, while workbooks move and projects are *)
(* renamed, locked, unlocked and moved; projects of one name share the     *)
(* listing's URLs and with them its cached pages.  Workbooks are listed in *)
(* the order of their numbers, so that one may come in before others.      *)
(* Projects neither come nor go, and each is on a page of its own: larger  *)
(* pages only tell of several of them at one instant.  The sync engine and *)
(* the response cache are the SDK's, as in PageWalk.                       *)
(***************************************************************************)
EXTENDS Integers, Sequences, FiniteSets

CONSTANTS Projects,
          Names,       \* names projects may have
          UnsafeNames, \* those with a comma or an ampersand
          Workbooks,   \* numbers
          PageSize,    \* defaultPageSize
          InitialNestings, \* bound: how projects may be nested at first
          Budgets      \* bound: <<number of moves of workbooks and edits of projects,
                       \* number of moves of projects>> there may be in one behavior

ASSUME ProjectGrantsAssumption ==
  /\ "none" \notin Projects
  /\ UnsafeNames \subseteq Names
  /\ Workbooks \subseteq Nat /\ IsFiniteSet(Workbooks)
  /\ PageSize \in Nat \ {0}
  /\ Budgets \subseteq Nat \X Nat

VARIABLES
  \* Tableau
  home,      \* the project of every workbook, or "none"
  project,   \* every project's name and lock: [name, locked]
  parent,    \* the project every project is nested in, or "none"
  \* the connector process
  pages,     \* cached pages of workbooks: [name, page, items, total]
  listing,   \* the cached pages of projects, each {} or {<<its project, its parent>>}
  \* the sync
  syncing,   \* "no", "listing" or "granting"
  unlisted,  \* projects on the pages it has still to list
  stored,    \* the projects as it has stored them
  nested,    \* and their parents
  open,      \* projects whose grants it has still to ask for
  bag,       \* the page token of every project: <<>> or <<workbook page>>
  own,       \* projects whose own permissions it has been told
  inherited, \* <<p, w>>: it has been told that workbook w inherits from p
  \* history, since the cache was last emptied
  been,      \* <<p, w>>: w was in p at some instant
  stayed,    \* <<p, w>>: w has been in p all the time
  edited,    \* projects that were renamed, locked or unlocked
  moved,     \* projects that were moved
  upset,     \* names whose listing lost a workbook, or a cached page
  \* bound
  changes,   \* number of moves of workbooks and edits of projects
  moves      \* number of moves of projects

tableau  == <<home, project, parent>>
cache    == <<pages, listing>>
progress == <<syncing, unlisted, stored, nested, open, bag, own, inherited>>
epoch    == <<been, stayed, edited, moved, upset>>
bounds   == <<changes, moves>>
vars     == <<tableau, cache, progress, epoch, bounds>>

NoToken == [p \in Projects |-> <<>>]
Flat    == [p \in Projects |-> "none"]
Blank   == [p \in Projects |-> {}]

\* Nobody is nested in itself: in every set of projects there is one whose parent is not.
Forest(N) == \A S \in SUBSET Projects : S # {} => \E p \in S : N[p] \notin S

Nestings == [Projects -> Projects \cup {"none"}]

ASSUME InitialNestingsAreForests == \A N \in InitialNestings : N \in Nestings /\ Forest(N)

\* <<p, w>>: w is in p.
Contained == {<<home[w], w>> : w \in {v \in Workbooks : home[v] # "none"}}

\* IsFilterSafe: Tableau rejects filters on the other names.
SafeNames == Names \ UnsafeNames

\* MUTANT: every locked project is walked.
WalkedAnyName(s) == s.locked

\* The project as stored goes into the second phase.
Walked(s) == s.locked /\ s.name \in SafeNames

\* What Tableau lists with the filter projectName:eq:n.
Matching(n) == {w \in Workbooks : home[w] # "none" /\ project[home[w]].name = n}

Rank(w, W) == Cardinality({v \in W : v <= w})

\* Page k of it.
Page(n, k) ==
  LET M == Matching(n) IN
  [name |-> n, page |-> k, total |-> Cardinality(M),
   items |-> {<<home[w], w>> : w \in
                {v \in M : (k - 1) * PageSize < Rank(v, M) /\ Rank(v, M) <= k * PageSize}}]

\* MUTANT: pages are counted from 0 here, so that the last one is left out.
NextPageShort(k, total) == IF (k + 1) * PageSize >= total THEN 0 ELSE k + 1

\* getNextPageToken, 0 for the empty token; PageWalk has all of it.
NextPage(k, total) == IF k * PageSize >= total THEN 0 ELSE k + 1

\* MUTANT: the state is not popped when its pages are over.
AfterPageUnpopped(b, t) == IF t = 0 THEN b ELSE <<t>>

\* Bag.Next: pop the state, and push it with token t unless t is empty.
AfterPage(b, t) == IF t = 0 THEN <<>> ELSE <<t>>
-----------------------------------------------------------------------------
Init ==
  /\ home \in [Workbooks -> Projects \cup {"none"}]
  /\ project \in [Projects -> [name : Names, locked : BOOLEAN]]
  /\ parent \in InitialNestings
  /\ pages = {} /\ listing = Blank
  /\ syncing = "no" /\ unlisted = {} /\ nested = Flat
  /\ stored = project /\ open = {} /\ bag = NoToken /\ own = {} /\ inherited = {}
  /\ been = Contained /\ stayed = Contained /\ edited = {} /\ moved = {} /\ upset = {}
  /\ changes = 0 /\ moves = 0

Begin ==
  /\ syncing = "no"
  /\ syncing' = "listing"
  /\ unlisted' = Projects
  /\ UNCHANGED <<tableau, cache, stored, nested, open, bag, own, inherited, epoch, bounds>>

\* projectBuilder.List, the page of project p.  After the last one come the grants.
List(p) ==
  /\ p \in unlisted
  /\ listing' = [listing EXCEPT ![p] = IF @ = {} THEN {<<project[p], parent[p]>>} ELSE @]
  /\ \E e \in listing'[p] : /\ stored' = [stored EXCEPT ![p] = e[1]]
                             /\ nested' = [nested EXCEPT ![p] = e[2]]
  /\ unlisted' = unlisted \ {p}
  /\ IF unlisted' = {} THEN syncing' = "granting" /\ open' = Projects
                       ELSE UNCHANGED <<syncing, open>>
  /\ UNCHANGED <<tableau, pages, bag, own, inherited, epoch, bounds>>

\* The sync asks for the grants of p with its token, and stops asking when the
\* token it gets is empty.
Ask(p, b) ==
  /\ p \in open
  /\ bag' = [bag EXCEPT ![p] = b]
  /\ open' = IF b = <<>> THEN open \ {p} ELSE open
  /\ UNCHANGED <<tableau, listing, syncing, unlisted, stored, nested, epoch, bounds>>

\* projectBuilder.Grants, first phase.
OwnGrants(p) ==
  /\ bag[p] = <<>>
  /\ Ask(p, IF Walked(stored[p]) THEN <<1>> ELSE <<>>)
  /\ own' = own \cup {p}
  /\ UNCHANGED <<pages, inherited>>

\* The response to a GET of page k, cached or not.
Responses(n, k) ==
  LET C == {s \in pages : s.name = n /\ s.page = k}
  IN IF C = {} THEN {Page(n, k)} ELSE C

\* MUTANT: the workbook's project is told by its name alone.
WorkbookGrantsByName(p) ==
  /\ bag[p] # <<>>
  /\ \E s \in Responses(stored[p].name, bag[p][1]) :
       /\ pages' = pages \cup {s}
       /\ inherited' = inherited \cup {<<p, i[2]>> : i \in s.items}
       /\ Ask(p, AfterPage(bag[p], NextPage(bag[p][1], s.total)))
  /\ UNCHANGED own

\* projectBuilder.Grants, second phase.
WorkbookGrants(p) ==
  /\ bag[p] # <<>>
  /\ \E s \in Responses(stored[p].name, bag[p][1]) :
       /\ pages' = pages \cup {s}
       /\ inherited' = inherited \cup {i \in s.items : i[1] = p}
       /\ Ask(p, AfterPage(bag[p], NextPage(bag[p][1], s.total)))
  /\ UNCHANGED own

Grants(p) == OwnGrants(p) \/ WorkbookGrants(p)

\* <<p, q>>: p was said to inherit from q, the parent it is stored with.  This is the part
\* of the first phase that AccessSync gives the grants of.
Proxies == {<<p, nested[p]>> : p \in own} \cap (Projects \X Projects)

\* Nothing is left of the sync.  What is stored of a project is not looked at
\* before it is listed, so any value would do.
Rest ==
  /\ syncing' = "no" /\ unlisted' = {} /\ nested' = Flat /\ stored' = project
  /\ open' = {} /\ bag' = NoToken /\ own' = {} /\ inherited' = {}
  /\ UNCHANGED <<tableau, bounds>>

\* The sync fails.  The cache survives.
Fail == syncing # "no" /\ Rest /\ UNCHANGED <<cache, epoch>>

Synced == syncing = "granting" /\ open = {}

\* History starts again with the cache.
NewEpoch ==
  been' = Contained /\ stayed' = Contained /\ edited' = {} /\ moved' = {} /\ upset' = {}

\* MUTANT: the cached pages of projects are not of those the Cleanup empties.
SucceedKeepingProjects ==
  Synced /\ Rest /\ pages' = {} /\ UNCHANGED listing /\ NewEpoch

\* The sync succeeds, and its Cleanup empties the cache.
Succeed ==
  /\ Synced
  /\ Rest
  /\ pages' = {} /\ listing' = Blank
  /\ NewEpoch

\* A cached response expires or is evicted.
Expire ==
  /\ \/ \E s \in pages : /\ pages' = pages \ {s}
                         /\ upset' = upset \cup {s.name}
                         /\ UNCHANGED listing
     \/ \E p \in Projects : /\ listing[p] # {}
                            /\ listing' = [listing EXCEPT ![p] = {}]
                            /\ UNCHANGED <<pages, upset>>
  /\ UNCHANGED <<tableau, progress, been, stayed, edited, moved, bounds>>

Affordable(c, m) == \E b \in Budgets : c <= b[1] /\ m <= b[2]

\* History of a step that changes what is listed of workbooks.
Observe ==
  /\ Affordable(changes + 1, moves)
  /\ been' = been \cup Contained'
  /\ stayed' = stayed \cap Contained'
  /\ upset' = upset \cup {n \in Names : ~(Matching(n) \subseteq Matching(n)')}
  /\ changes' = changes + 1
  /\ UNCHANGED <<parent, moved, moves, cache, progress>>

\* Somebody moves workbook w to h, publishes it there, or deletes it.
Move(w, h) ==
  /\ h # home[w]
  /\ home' = [home EXCEPT ![w] = h]
  /\ UNCHANGED <<project, edited>>
  /\ Observe

\* Somebody renames, locks or unlocks project p.
Edit(p, s) ==
  /\ s # project[p]
  /\ project' = [project EXCEPT ![p] = s]
  /\ edited' = edited \cup {p}
  /\ UNCHANGED home
  /\ Observe

\* Somebody moves project p into q, but not into itself or what is in it.
Nest(p, q) ==
  /\ Affordable(changes, moves + 1)
  /\ q # parent[p]
  /\ parent' = [parent EXCEPT ![p] = q]
  /\ Forest(parent')
  /\ moved' = moved \cup {p}
  /\ moves' = moves + 1
  /\ UNCHANGED <<home, project, changes, cache, progress, been, stayed, edited, upset>>

Next ==
  \/ Begin \/ Fail \/ Succeed \/ Expire
  \/ \E p \in Projects : List(p) \/ Grants(p)
  \/ \E w \in Workbooks, h \in Projects \cup {"none"} : Move(w, h)
  \/ \E p \in Projects, s \in [name : Names, locked : BOOLEAN] : Edit(p, s)
  \/ \E p \in Projects, q \in Projects \cup {"none"} : Nest(p, q)

Spec == Init /\ [][Next]_vars

\* The sync engine keeps asking for a project's grants until the token is
\* empty or the sync fails.
FairSpec == Spec /\ \A p \in Projects : WF_vars(Grants(p))
-----------------------------------------------------------------------------
Settings == [Projects -> [name : Names, locked : BOOLEAN]]

\* Every variable keeps its type, and the bag never holds more than the state
\* of the second phase.
TypeOK ==
  /\ home \in [Workbooks -> Projects \cup {"none"}]
  /\ project \in Settings
  /\ pages \subseteq [name : SafeNames, page : Nat \ {0}, total : Nat,
                      items : SUBSET (Projects \X Workbooks)]
  /\ parent \in Nestings
  /\ listing \in [Projects -> SUBSET ([name : Names, locked : BOOLEAN] \X (Projects \cup {"none"}))]
  /\ syncing \in {"no", "listing", "granting"}
  /\ unlisted \subseteq Projects
  /\ stored \in Settings
  /\ nested \in Nestings
  /\ open \subseteq Projects
  /\ bag \in [Projects -> Seq(Nat \ {0})]
  /\ \A p \in Projects : Len(bag[p]) <= 1 /\ (bag[p] # <<>> => p \in open)
  /\ own \subseteq Projects
  /\ inherited \subseteq Projects \X Workbooks
  /\ been \subseteq Projects \X Workbooks
  /\ stayed \subseteq Contained
  /\ edited \subseteq Projects /\ moved \subseteq Projects
  /\ upset \subseteq Names
  /\ changes \in Nat /\ moves \in Nat

\* A workbook is said to inherit only from a project it was in since the cache
\* was last emptied, though projects of one name share a listing; and, unless
\* the project was edited meanwhile, only from a locked one.
InheritsFromItsOwn ==
  \A i \in inherited :
    /\ i \in been
    /\ i[1] \notin edited => Walked(project[i[1]])

\* When a sync is over, every workbook that has been all along in a locked
\* project is said to inherit from it, pages cached by a sync that failed and
\* workbooks coming in included: unless the name is one that cannot be
\* filtered by, the project was edited, or the listing of its name lost a
\* workbook or a cached page meanwhile.
AllInherit ==
  Synced =>
    /\ own = Projects
    /\ \A i \in stayed :
         Walked(project[i[1]]) /\ i[1] \notin edited /\ project[i[1]].name \notin upset
           => i \in inherited

\* The projects of a cycle of proxy grants are not of any one instant: though their
\* parents are read page by page, and some of the pages may have been left by a sync that
\* failed, it takes the moves of two of them since the cache was last emptied.  So no
\* one move, whenever it comes, makes the expander merge what is granted on a cycle.
CyclesTakeTwoMoves ==
  \A S \in SUBSET own :
    S # {} /\ (\A p \in S : \E q \in S : <<p, q>> \in Proxies)
      => \E p, q \in S \cap moved : p # q

\* The grants of every project come to an end: the second phase does not start
\* over, and the first is not asked for again.
GrantsEnd == \A p \in Projects : (p \in open) ~> (p \notin open)
=============================================================================
