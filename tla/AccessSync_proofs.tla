-------------------------- MODULE AccessSync_proofs --------------------------
(***************************************************************************)
(* Proofs about AccessSync, for any users, groups, projects, workbooks,    *)
(* views, any nesting and any changes.  That no access is shown that is    *)
(* not real rests on the shape of the edges: each is one of four kinds,    *)
(* and along each of them access leads to access.  That no access is       *)
(* missing rests on the order of the expansion: an entitlement is reduced  *)
(* after all it is derived from, and what it has does not change any more. *)
(* That writes return rests on both: where permissions were read, the      *)
(* direct grants are those of the response, before and after the expansion.*)
(***************************************************************************)
EXTENDS AccessSync, SequenceTheorems, TLAPS

\* The facts that a response told of are so or were so; and it told of all that is
\* so all along.
CacheOK ==
  /\ \A url \in DOMAIN cache : cache[url] \subseteq At(url, ever) /\ At(url, always) \subseteq cache[url]
  /\ phase # "list" => ProjectList \in DOMAIN cache

HistoryOK == facts \subseteq ever /\ always \subseteq facts

\* A user's entitlement e, as Tableau would have it.
Real(e, u) ==
  /\ \A h \in Groups : e = Member(h) => Belongs(ever, u, h)
  /\ \A place \in Listed : \A cap \in DOMAIN Slugs[place[1]] :
       e = EntitlementOf(place, cap) => Has(ever, always, u, place, cap)

\* The rules at a place count for it.
Counts(place) == place[1] = "view" => TabsFact(Book[place[2]]) \notin always

\* The four kinds of edges: from a group to what the group was given; from a project to
\* one in it; from a locked project to a workbook; from a workbook with tabs to a view.
FromGroup(from, into) ==
  \E h \in Groups, place \in Listed : \E cap \in DOMAIN Slugs[place[1]] :
    /\ from = Member(h) /\ into = EntitlementOf(place, cap)
    /\ RuleFact(place, <<"group", h>>, cap, "Allow") \in ever /\ Counts(place)

FromProject(from, into) ==
  \E p \in Projects : \E cap \in DOMAIN Slugs.default :
    /\ Parent[p] # "none"
    /\ from = EntitlementOf(<<"default", Parent[p]>>, cap)
    /\ into = EntitlementOf(<<"default", p>>, cap)

FromLocked(from, into) ==
  \E w \in Workbooks : \E cap \in DOMAIN Slugs.workbook \cap DOMAIN Slugs.default :
    /\ Home[w] # "none" /\ LockFact(Home[w]) \in ever
    /\ from = EntitlementOf(<<"default", Home[w]>>, cap)
    /\ into = EntitlementOf(<<"workbook", w>>, cap)

FromWorkbook(from, into) ==
  \E v \in Views : \E cap \in DOMAIN Slugs.view \cap DOMAIN Slugs.workbook :
    /\ <<"view", v>> \in Listed /\ TabsFact(Book[v]) \in ever
    /\ from = EntitlementOf(<<"workbook", Book[v]>>, cap)
    /\ into = EntitlementOf(<<"view", v>>, cap)

EdgeOK(from, into) ==
  \/ FromGroup(from, into) \/ FromProject(from, into)
  \/ FromLocked(from, into) \/ FromWorkbook(from, into)

EdgesOK == \A d \in edges : EdgeOK(d.from, d.into)

\* What a grant that can be revoked stands for.
Rule(g) ==
  IF g.on[1] = "group"
  THEN \E f \in ever : f.at = Members(g.on[2]) /\ <<"user", f.user>> = g.to
  ELSE RuleFact(Place(g.on), g.to, CapabilityOf(g.on[3]), "Allow") \in ever

\* A grant to a user is real, what can be revoked is a rule, and the rest is to come
\* along edges.
Sound(g) ==
  /\ DOMAIN g = {"on", "to", "src", "via", "immutable"}
  /\ g.on \in Permissions \cup {Member(h) : h \in Groups}
  /\ \A e \in g.via : EdgeOK(e.from, g.on)
  /\ \A u \in Users : g.to = <<"user", u>> => Real(g.on, u)
  /\ ~g.immutable /\ g.to \in Principals => Rule(g)

GrantsOK == \A g \in grants : Sound(g)

\* Only what is listed is asked for.
TodoOK == todo \subseteq Listed \cup {Members(g) : g \in Groups}

IInv == TypeOK /\ TodoOK /\ CacheOK /\ HistoryOK /\ EdgesOK /\ GrantsOK
-----------------------------------------------------------------------------
(* The tables of slugs, and the way back. *)

\* No two capabilities have one slug.
Injective(f) == \A c, d \in DOMAIN f : f[c] = f[d] => c = d

\* The way back through a table that names no two capabilities alike.
LEMMA WayBack ==
  ASSUME NEW f, Injective(f), NEW c \in DOMAIN f
  PROVE  f[c] \in DOMAIN AntiFunction(f) /\ AntiFunction(f)[f[c]] = c
BY DEF Injective, AntiFunction, Inverse, Range

\* It knows the slugs of the table and no other.
LEMMA SlugsThereAre ==
  ASSUME NEW f
  PROVE  DOMAIN AntiFunction(f) = {f[c] : c \in DOMAIN f}
BY DEF AntiFunction, Inverse, Range

\* The capabilities of the general table, and the one word of each slug.
CapabilityNames ==
  {"Read", "Write", "Delete", "Filter", "ViewComments", "AddComment", "ExportImage",
   "ExportData", "ShareView", "ViewUnderlyingData", "WebAuthoring", "RunExplainData",
   "ExportXml", "ExtractRefresh", "ChangeHierarchy", "ChangePermissions"}

LEMMA NamesAre == DOMAIN allCapabilitiesMap = CapabilityNames
BY DEF allCapabilitiesMap, CapabilityNames

Says(c, word) == allCapabilitiesMap[c] = <<word>>

\* The table, entry by entry.
LEMMA Words ==
  /\ Says("Read", "View")
  /\ Says("Write", "Overwrite")
  /\ Says("Delete", "Delete")
  /\ Says("Filter", "Filter")
  /\ Says("ViewComments", "View Comments")
  /\ Says("AddComment", "Add Comments")
  /\ Says("ExportImage", "Download Image/PDF")
  /\ Says("ExportData", "Download Summary Data")
  /\ Says("ShareView", "Share Customized")
  /\ Says("ViewUnderlyingData", "Download Full Data")
  /\ Says("WebAuthoring", "Web Edit")
  /\ Says("RunExplainData", "Run Explain Data")
  /\ Says("ExportXml", "Download/Save A Copy")
  /\ Says("ExtractRefresh", "Extract Refresh")
  /\ Says("ChangeHierarchy", "Move")
  /\ Says("ChangePermissions", "Set Permissions")
BY DEF allCapabilitiesMap, Says

\* The same as a function: what the proofs below use of the table.
Word(c) ==
  IF c = "Read" THEN "View" ELSE
  IF c = "Write" THEN "Overwrite" ELSE
  IF c = "Delete" THEN "Delete" ELSE
  IF c = "Filter" THEN "Filter" ELSE
  IF c = "ViewComments" THEN "View Comments" ELSE
  IF c = "AddComment" THEN "Add Comments" ELSE
  IF c = "ExportImage" THEN "Download Image/PDF" ELSE
  IF c = "ExportData" THEN "Download Summary Data" ELSE
  IF c = "ShareView" THEN "Share Customized" ELSE
  IF c = "ViewUnderlyingData" THEN "Download Full Data" ELSE
  IF c = "WebAuthoring" THEN "Web Edit" ELSE
  IF c = "RunExplainData" THEN "Run Explain Data" ELSE
  IF c = "ExportXml" THEN "Download/Save A Copy" ELSE
  IF c = "ExtractRefresh" THEN "Extract Refresh" ELSE
  IF c = "ChangeHierarchy" THEN "Move" ELSE "Set Permissions"

LEMMA OneWord ==
  ASSUME NEW c \in CapabilityNames
  PROVE  Says(c, Word(c)) /\ Word(c) # "Publish"
BY Words DEF CapabilityNames, Word

\* No two capabilities have one word.
LEMMA WordsDiffer ==
  ASSUME NEW c \in CapabilityNames, NEW d \in CapabilityNames, Word(c) = Word(d)
  PROVE  c = d
<1>1. CASE c = "Read"
  BY <1>1 DEF CapabilityNames, Word
<1>2. CASE c = "Write"
  BY <1>2 DEF CapabilityNames, Word
<1>3. CASE c = "Delete"
  BY <1>3 DEF CapabilityNames, Word
<1>4. CASE c = "Filter"
  BY <1>4 DEF CapabilityNames, Word
<1>5. CASE c = "ViewComments"
  BY <1>5 DEF CapabilityNames, Word
<1>6. CASE c = "AddComment"
  BY <1>6 DEF CapabilityNames, Word
<1>7. CASE c = "ExportImage"
  BY <1>7 DEF CapabilityNames, Word
<1>8. CASE c = "ExportData"
  BY <1>8 DEF CapabilityNames, Word
<1>9. CASE c = "ShareView"
  BY <1>9 DEF CapabilityNames, Word
<1>10. CASE c = "ViewUnderlyingData"
  BY <1>10 DEF CapabilityNames, Word
<1>11. CASE c = "WebAuthoring"
  BY <1>11 DEF CapabilityNames, Word
<1>12. CASE c = "RunExplainData"
  BY <1>12 DEF CapabilityNames, Word
<1>13. CASE c = "ExportXml"
  BY <1>13 DEF CapabilityNames, Word
<1>14. CASE c = "ExtractRefresh"
  BY <1>14 DEF CapabilityNames, Word
<1>15. CASE c = "ChangeHierarchy"
  BY <1>15 DEF CapabilityNames, Word
<1>16. CASE c = "ChangePermissions"
  BY <1>16 DEF CapabilityNames, Word
<1> QED
  BY <1>1, <1>2, <1>3, <1>4, <1>5, <1>6, <1>7, <1>8, <1>9, <1>10, <1>11, <1>12, <1>13,
     <1>14, <1>15, <1>16 DEF CapabilityNames

\* The prefix of a default permission.
LEMMA Joined == ASSUME NEW a, NEW b PROVE <<a>> \o <<b>> = <<a, b>>
<1> DEFINE s == <<a>> \o <<b>>
<1> DEFINE t == <<a, b>>
<1>1. <<a>> \in Seq({a, b}) /\ <<b>> \in Seq({a, b}) /\ Len(<<a>>) = 1 /\ Len(<<b>>) = 1
  OBVIOUS
<1>2. s \in Seq({a, b}) /\ Len(s) = 2 /\ s[1] = a /\ s[2] = b
  BY <1>1, SMT
<1>3. t \in Seq({a, b}) /\ Len(t) = 2 /\ t[1] = a /\ t[2] = b
  OBVIOUS
<1> HIDE DEF s, t
<1>4. \A i \in 1 .. Len(s) : s[i] = t[i]
  BY <1>2, <1>3
<1>5. s = t
  BY <1>2, <1>3, <1>4, SeqEqual
<1> QED
  BY <1>5 DEF s, t

\* So the slugs of the tables are these.
LEMMA SlugsAre ==
  ASSUME NEW c \in CapabilityNames
  PROVE  /\ allCapabilitiesMap[c] = <<Word(c)>>
         /\ workbookCapabilities[c] = <<Word(c)>>
         /\ projectDefaultWorkbookCapabilities[c] = <<"Workbook", Word(c)>>
         /\ Word(c) # "Publish"
<1>1. allCapabilitiesMap[c] = <<Word(c)>> /\ Word(c) # "Publish"
  BY OneWord DEF Says
<1>2. workbookCapabilities[c] = <<Word(c)>> /\ c \in DOMAIN workbookCapabilities
  BY <1>1, NamesAre DEF workbookCapabilities, pickCapabilities
<1>3. projectDefaultWorkbookCapabilities[c] = <<"Workbook">> \o <<Word(c)>>
  BY <1>2 DEF projectDefaultWorkbookCapabilities
<1>4. <<"Workbook">> \o <<Word(c)>> = <<"Workbook", Word(c)>>
  BY Joined
<1> QED
  BY <1>1, <1>2, <1>3, <1>4

LEMMA TablesHave ==
  /\ DOMAIN workbookCapabilities = CapabilityNames
  /\ DOMAIN projectDefaultWorkbookCapabilities = CapabilityNames
  /\ DOMAIN projectCapabilities = {"Read", "Write"}
  /\ DOMAIN viewCapabilities \subseteq CapabilityNames
  /\ DOMAIN projectCapabilitiesMap = {"Write"}
BY NamesAre DEF workbookCapabilities, pickCapabilities, projectDefaultWorkbookCapabilities,
           projectCapabilities, pickProjectCapabilities, viewCapabilities,
           CapabilityNames, projectCapabilitiesMap

\* Different capabilities have different slugs.
LEMMA AllDiffer ==
  /\ Injective(allCapabilitiesMap)
  /\ Injective(projectDefaultWorkbookCapabilities)
  /\ Injective(projectCapabilitiesMap)
<1>1. ASSUME NEW c \in CapabilityNames, NEW d \in CapabilityNames,
             \/ allCapabilitiesMap[c] = allCapabilitiesMap[d]
             \/ projectDefaultWorkbookCapabilities[c] = projectDefaultWorkbookCapabilities[d]
      PROVE  c = d
  <2>1. Word(c) = Word(d)
    BY <1>1, SlugsAre
  <2> QED
    BY <2>1, WordsDiffer
<1> QED
  BY <1>1, NamesAre, TablesHave DEF Injective

\* A slug of one word is in no project's table of default permissions.
LEMMA OneWordIsNoDefault ==
  ASSUME NEW word
  PROVE  ~isDefaultWorkbookSlug(<<word>>)
<1>1. \A c \in CapabilityNames : projectDefaultWorkbookCapabilities[c] # <<word>>
  BY SlugsAre
<1> QED
  BY <1>1, SlugsThereAre, TablesHave
     DEF isDefaultWorkbookSlug, capabilityByWorkbookDefaultSlug

\* The three ways back: of a default permission, of Publish, of all others.
LEMMA DefaultLeadsBack ==
  ASSUME NEW c \in CapabilityNames
  PROVE  LET slug == projectDefaultWorkbookCapabilities[c]
         IN  isDefaultWorkbookSlug(slug) /\ CapabilityOf(slug) = c
BY WayBack, AllDiffer, TablesHave
   DEF isDefaultWorkbookSlug, capabilityByWorkbookDefaultSlug, CapabilityOf

LEMMA PublishLeadsBack == CapabilityOf(<<"Publish">>) = "Write"
<1>1. projectCapabilitiesMap["Write"] = <<"Publish">>
  BY DEF projectCapabilitiesMap
<1>2. <<"Publish">> \in DOMAIN AntiFunction(projectCapabilitiesMap)
      /\ AntiFunction(projectCapabilitiesMap)[<<"Publish">>] = "Write"
  BY <1>1, WayBack, AllDiffer, TablesHave
<1> QED
  BY <1>2, OneWordIsNoDefault DEF CapabilityOf, capabilityByDisplaySlug, Over

LEMMA WordLeadsBack ==
  ASSUME NEW c \in CapabilityNames
  PROVE  CapabilityOf(<<Word(c)>>) = c
<1>1. <<Word(c)>> \in DOMAIN AntiFunction(allCapabilitiesMap)
      /\ AntiFunction(allCapabilitiesMap)[<<Word(c)>>] = c
  BY WayBack, AllDiffer, NamesAre, SlugsAre
<1>2. <<Word(c)>> \notin DOMAIN AntiFunction(projectCapabilitiesMap)
  <2>1. projectCapabilitiesMap["Write"] = <<"Publish">>
    BY DEF projectCapabilitiesMap
  <2>2. DOMAIN AntiFunction(projectCapabilitiesMap) = {<<"Publish">>}
    <3>1. {projectCapabilitiesMap[x] : x \in {"Write"}} = {<<"Publish">>}
      BY <2>1
    <3>2. DOMAIN AntiFunction(projectCapabilitiesMap) = {projectCapabilitiesMap[x] : x \in DOMAIN projectCapabilitiesMap}
      BY SlugsThereAre
    <3> QED
      BY <3>1, <3>2, TablesHave
  <2> QED
    BY <2>2, SlugsAre
<1> QED
  BY <1>1, <1>2, OneWordIsNoDefault DEF CapabilityOf, capabilityByDisplaySlug, Over

\* The slug of every capability of every table leads back to it, and to its own
\* one of a project's two places (capabilityForSlug and isDefaultWorkbookSlug).
THEOREM SlugsLeadBack == EverySlugLeadsBack
<1> SUFFICES ASSUME NEW place \in DOMAIN SlugsOf, NEW cap \in DOMAIN SlugsOf[place]
             PROVE  /\ CapabilityOf(SlugsOf[place][cap]) = cap
                    /\ isDefaultWorkbookSlug(SlugsOf[place][cap]) <=> place = "default"
  BY DEF EverySlugLeadsBack
<1>1. CASE place = "project"
  <2>1. SlugsOf[place] = projectCapabilities /\ cap \in {"Read", "Write"}
    BY <1>1, TablesHave DEF SlugsOf
  <2>2. projectCapabilities["Write"] = <<"Publish">>
    BY TablesHave DEF projectCapabilities, pickProjectCapabilities, Over, projectCapabilitiesMap
  <2>3. "Read" \in CapabilityNames /\ projectCapabilities["Read"] = allCapabilitiesMap["Read"]
    BY NamesAre, TablesHave DEF projectCapabilities, pickProjectCapabilities, Over, CapabilityNames
  <2> QED
    BY <1>1, <2>1, <2>2, <2>3, SlugsAre, WordLeadsBack, PublishLeadsBack, OneWordIsNoDefault
<1>2. CASE place = "default"
  <2>1. SlugsOf[place] = projectDefaultWorkbookCapabilities
    BY <1>2 DEF SlugsOf
  <2> QED
    BY <1>2, <2>1, TablesHave, DefaultLeadsBack
<1>3. CASE place \in {"workbook", "view"}
  <2>1. cap \in CapabilityNames /\ SlugsOf[place][cap] = allCapabilitiesMap[cap]
    BY <1>3, TablesHave DEF SlugsOf, workbookCapabilities, viewCapabilities, pickCapabilities
  <2> QED
    BY <1>3, <2>1, SlugsAre, WordLeadsBack, OneWordIsNoDefault
<1> QED
  BY <1>1, <1>2, <1>3 DEF SlugsOf

-----------------------------------------------------------------------------
LEMMA Tables == DOMAIN SlugsOf = {"project", "default", "workbook", "view"}
BY DEF SlugsOf

LEMMA SlugFacts ==
  ASSUME NEW type \in DOMAIN SlugsOf
  PROVE  /\ DOMAIN Slugs[type] = DOMAIN SlugsOf[type] \cap Caps
         /\ \A c \in DOMAIN Slugs[type] :
              /\ Slugs[type][c] = SlugsOf[type][c]
              /\ CapabilityOf(Slugs[type][c]) = c
              /\ isDefaultWorkbookSlug(Slugs[type][c]) <=> type = "default"
<1>1. DOMAIN Slugs[type] = DOMAIN SlugsOf[type] \cap Caps
      /\ \A c \in DOMAIN Slugs[type] : Slugs[type][c] = SlugsOf[type][c]
  BY DEF Slugs, Restrict
<1> QED
  BY <1>1, SlugsLeadBack DEF EverySlugLeadsBack

\* Every place is one of four kinds.
LEMMA PlaceFacts ==
  ASSUME NEW place \in Places
  PROVE  /\ place = <<place[1], place[2]>> /\ place[1] \in DOMAIN SlugsOf
         /\ place[1] \in {"project", "default"} => place[2] \in Projects
         /\ place[1] = "workbook" => place[2] \in Workbooks
         /\ place[1] = "view" => place[2] \in Views
BY Tables DEF Places

\* An entitlement tells the place and the capability it is for.
LEMMA EntitlementFacts ==
  ASSUME NEW place \in Places, NEW cap \in DOMAIN Slugs[place[1]]
  PROVE  /\ Place(EntitlementOf(place, cap)) = place
         /\ CapabilityOf(EntitlementOf(place, cap)[3]) = cap
         /\ EntitlementOf(place, cap)[1] \in {"project", "workbook", "view"}
         /\ EntitlementOf(place, cap)[1] = "view" <=> place[1] = "view"
         /\ EntitlementOf(place, cap)[2] = place[2]
<1> DEFINE slug == Slugs[place[1]][cap]
<1>1. CapabilityOf(slug) = cap /\ (isDefaultWorkbookSlug(slug) <=> place[1] = "default")
  BY PlaceFacts, SlugFacts
<1> HIDE DEF slug
<1>2. EntitlementOf(place, cap) = <<Resource(place)[1], Resource(place)[2], slug>>
  BY DEF EntitlementOf, Entitlement, slug
<1>3. CASE place[1] = "default"
  BY <1>1, <1>2, <1>3, PlaceFacts DEF Resource, Place
<1>4. CASE place[1] # "default"
  <2>1. Resource(place) = place
    BY <1>4 DEF Resource
  <2>2. EntitlementOf(place, cap) = <<place[1], place[2], slug>>
    BY <1>2, <2>1
  <2> QED
    BY <1>1, <1>4, <2>2, PlaceFacts, Tables DEF Place
<1> QED
  BY <1>3, <1>4

LEMMA SameEntitlement ==
  ASSUME NEW p \in Places, NEW c \in DOMAIN Slugs[p[1]],
         NEW q \in Places, NEW d \in DOMAIN Slugs[q[1]],
         EntitlementOf(p, c) = EntitlementOf(q, d)
  PROVE  p = q /\ c = d
<1>1. Place(EntitlementOf(p, c)) = p /\ CapabilityOf(EntitlementOf(p, c)[3]) = c
  BY EntitlementFacts
<1>2. Place(EntitlementOf(q, d)) = q /\ CapabilityOf(EntitlementOf(q, d)[3]) = d
  BY EntitlementFacts
<1> QED
  BY <1>1, <1>2

LEMMA NotAMember ==
  ASSUME NEW p \in Places, NEW c \in DOMAIN Slugs[p[1]], NEW h
  PROVE  EntitlementOf(p, c) # Member(h)
<1>1. Member(h)[1] = "group"
  BY DEF Member
<1> QED
  BY <1>1, EntitlementFacts

\* What the facts of a URL look like.
LEMMA FactShapes ==
  ASSUME NEW f \in Facts
  PROVE  /\ \A g \in Groups : f.at = Members(g) =>
              f.user \in Users /\ f = MemberFact(g, f.user, f.role)
                /\ f.role \in {"ServerAdministrator", "other"}
         /\ \A w \in Workbooks : f.at = Details(w) => f = TabsFact(w)
         /\ \A place \in Places : f.at = place =>
              /\ f.to \in Principals /\ f.cap \in DOMAIN Slugs[place[1]] /\ f.mode \in Modes
              /\ f = RuleFact(place, f.to, f.cap, f.mode)
<1>0. /\ \A g \in Groups : Members(g)[1] = "members" /\ Members(g)[2] = g
      /\ \A w \in Workbooks : Details(w)[1] = "details" /\ Details(w)[2] = w
      /\ ProjectList[1] = "projects"
      /\ \A place \in Places : place[1] \in {"project", "default", "workbook", "view"}
  BY PlaceFacts, Tables DEF Members, Details, ProjectList
<1>1. CASE f \in Rules
  <2>1. PICK place \in Places : \E to \in Principals, cap \in DOMAIN Slugs[place[1]], mode \in Modes :
                                  f = RuleFact(place, to, cap, mode)
    BY <1>1 DEF Rules
  <2>2. PICK to \in Principals, cap \in DOMAIN Slugs[place[1]], mode \in Modes :
          f = RuleFact(place, to, cap, mode)
    BY <2>1
  <2>3. f.at = place /\ f.to = to /\ f.cap = cap /\ f.mode = mode
    BY <2>2 DEF RuleFact
  <2> QED
    BY <1>0, <2>2, <2>3
<1>2. CASE \E g \in Groups, u \in Users, role \in {"ServerAdministrator", "other"} :
             f = MemberFact(g, u, role)
  <2>1. PICK g \in Groups, u \in Users, role \in {"ServerAdministrator", "other"} :
             f = MemberFact(g, u, role)
    BY <1>2
  <2>2. f.at = Members(g) /\ f.user = u /\ f.role = role
    BY <2>1 DEF MemberFact
  <2> QED
    BY <1>0, <2>1, <2>2
<1>3. CASE \E p \in Projects : f = LockFact(p)
  <2>1. f.at = ProjectList
    BY <1>3 DEF LockFact
  <2> QED
    BY <1>0, <2>1
<1>4. CASE \E w \in Workbooks : f = TabsFact(w)
  <2>1. PICK w \in Workbooks : f = TabsFact(w)
    BY <1>4
  <2>2. f.at = Details(w)
    BY <2>1 DEF TabsFact
  <2> QED
    BY <1>0, <2>1, <2>2
<1> QED
  BY <1>1, <1>2, <1>3, <1>4 DEF Facts, Others
-----------------------------------------------------------------------------
\* Access that is real stays real as more has been so, and less all along.
LEMMA MoreIsReal ==
  ASSUME NEW F, NEW G, F \subseteq G, NEW M, NEW N, N \subseteq M,
         NEW u, NEW place, NEW cap, Has(F, M, u, place, cap)
  PROVE  Has(G, N, u, place, cap)
<1>1. \A pl : Allowed(F, u, pl, cap) => Allowed(G, u, pl, cap)
  BY DEF Allowed, Belongs
<1>2. \A p : ByDefault(F, u, p, cap) => ByDefault(G, u, p, cap)
  BY <1>1 DEF ByDefault
<1>3. \A w : OnWorkbook(F, u, w, cap) => OnWorkbook(G, u, w, cap)
  BY <1>1, <1>2 DEF OnWorkbook
<1>4. \A v : OnView(F, M, u, v, cap) => OnView(G, N, u, v, cap)
  BY <1>1, <1>3 DEF OnView
<1> QED
  BY <1>1, <1>2, <1>3, <1>4 DEF Has

\* What an enclosing project has by default, the project has.
LEMMA NestedHasDefaults ==
  ASSUME NEW p \in Projects, Parent[p] # "none", NEW F, NEW u, NEW cap
  PROVE  /\ p \in Enclosing(p)
         /\ ByDefault(F, u, Parent[p], cap) => ByDefault(F, u, p, cap)
<1>1. Enclosing(Parent[p]) \subseteq Enclosing(p)
  BY DEF Enclosing
<1> QED
  BY <1>1 DEF ByDefault, Enclosing

\* A rule for a user at a place that counts, or for a group of hers, is access.
LEMMA RuleIsAccess ==
  ASSUME NEW F, NEW N, NEW place \in Listed, NEW cap, NEW u,
         Allowed(F, u, place, cap),
         place[1] = "view" => TabsFact(Book[place[2]]) \notin N
  PROVE  Has(F, N, u, place, cap)
<1>1. place \in Places
  BY DEF Listed
<1>2. place[1] = "default" => place[2] \in Enclosing(place[2])
  BY <1>1, PlaceFacts DEF Enclosing
<1>3. place[1] # "project" => place = <<place[1], place[2]>>
  BY <1>1, PlaceFacts
<1>4. place[1] = "default" => ByDefault(F, u, place[2], cap)
  BY <1>2, <1>3 DEF ByDefault
<1>5. place[1] = "workbook" => OnWorkbook(F, u, place[2], cap)
  BY <1>3 DEF OnWorkbook
<1>6. place[1] = "view" => OnView(F, N, u, place[2], cap)
  BY <1>3 DEF OnView
<1> QED
  BY <1>1, <1>4, <1>5, <1>6, PlaceFacts, Tables DEF Has

LEMMA RealAccess ==
  ASSUME NEW place \in Listed, NEW cap \in DOMAIN Slugs[place[1]], NEW u
  PROVE  Real(EntitlementOf(place, cap), u) <=> Has(ever, always, u, place, cap)
<1>1. \A h : EntitlementOf(place, cap) # Member(h)
  BY NotAMember DEF Listed
<1>2. \A q \in Listed : \A d \in DOMAIN Slugs[q[1]] :
        EntitlementOf(place, cap) = EntitlementOf(q, d) => place = q /\ cap = d
  BY SameEntitlement DEF Listed
<1> QED
  BY <1>1, <1>2 DEF Real

LEMMA RealMember ==
  ASSUME NEW h \in Groups, NEW u
  PROVE  Real(Member(h), u) <=> Belongs(ever, u, h)
<1>1. \A g : Member(h) = Member(g) => h = g
  BY DEF Member
<1>2. \A place \in Listed : \A cap \in DOMAIN Slugs[place[1]] : Member(h) # EntitlementOf(place, cap)
  BY NotAMember DEF Listed
<1> QED
  BY <1>1, <1>2 DEF Real

LEMMA PlacesListed ==
  /\ \A p \in Projects : <<"default", p>> \in Listed /\ <<"project", p>> \in Listed
  /\ \A w \in Workbooks : Home[w] # "none" => <<"workbook", w>> \in Listed /\ Home[w] \in Projects
  /\ \A v \in Views : <<"view", v>> \in Listed
       => <<"workbook", Book[v]>> \in Listed /\ Book[v] \in Workbooks
BY AccessAssumption DEF Listed, Places

\* Along an edge, access leads to access.
LEMMA EdgesLead ==
  ASSUME NEW from, NEW into, EdgeOK(from, into), NEW u, Real(from, u)
  PROVE  Real(into, u)
<1>1. CASE FromGroup(from, into)
  <2>1. PICK h \in Groups, place \in Listed : \E cap \in DOMAIN Slugs[place[1]] :
          /\ from = Member(h) /\ into = EntitlementOf(place, cap)
          /\ RuleFact(place, <<"group", h>>, cap, "Allow") \in ever /\ Counts(place)
    BY <1>1 DEF FromGroup
  <2>2. PICK cap \in DOMAIN Slugs[place[1]] :
          /\ from = Member(h) /\ into = EntitlementOf(place, cap)
          /\ RuleFact(place, <<"group", h>>, cap, "Allow") \in ever /\ Counts(place)
    BY <2>1
  <2>3. Belongs(ever, u, h)
    BY <2>2, RealMember
  <2>4. Allowed(ever, u, place, cap)
    BY <2>2, <2>3 DEF Allowed
  <2>5. Has(ever, always, u, place, cap)
    BY <2>2, <2>4, RuleIsAccess DEF Counts
  <2> QED
    BY <2>2, <2>5, RealAccess
<1>2. CASE FromProject(from, into)
  <2>1. PICK p \in Projects, cap \in DOMAIN Slugs.default :
          /\ Parent[p] # "none"
          /\ from = EntitlementOf(<<"default", Parent[p]>>, cap)
          /\ into = EntitlementOf(<<"default", p>>, cap)
    BY <1>2 DEF FromProject
  <2>2. Parent[p] \in Projects
    BY <2>1, AccessAssumption
  <2>3. /\ <<"default", p>> \in Listed /\ <<"default", Parent[p]>> \in Listed
        /\ <<"default", p>>[1] = "default" /\ <<"default", Parent[p]>>[1] = "default"
    BY <2>2, PlacesListed
  <2>4. Has(ever, always, u, <<"default", Parent[p]>>, cap)
    BY <2>1, <2>3, RealAccess
  <2>5. ByDefault(ever, u, p, cap)
    BY <2>1, <2>4, NestedHasDefaults DEF Has
  <2>6. Has(ever, always, u, <<"default", p>>, cap)
    BY <2>5 DEF Has
  <2> QED
    BY <2>1, <2>3, <2>6, RealAccess
<1>3. CASE FromLocked(from, into)
  <2>1. PICK w \in Workbooks, cap \in DOMAIN Slugs.workbook \cap DOMAIN Slugs.default :
          /\ Home[w] # "none" /\ LockFact(Home[w]) \in ever
          /\ from = EntitlementOf(<<"default", Home[w]>>, cap)
          /\ into = EntitlementOf(<<"workbook", w>>, cap)
    BY <1>3 DEF FromLocked
  <2>2. /\ <<"default", Home[w]>> \in Listed /\ <<"workbook", w>> \in Listed
        /\ <<"default", Home[w]>>[1] = "default" /\ <<"workbook", w>>[1] = "workbook"
    BY <2>1, PlacesListed
  <2>3. Has(ever, always, u, <<"default", Home[w]>>, cap)
    BY <2>1, <2>2, RealAccess
  <2>4. Has(ever, always, u, <<"workbook", w>>, cap)
    BY <2>1, <2>3 DEF Has, OnWorkbook
  <2> QED
    BY <2>1, <2>2, <2>4, RealAccess
<1>4. CASE FromWorkbook(from, into)
  <2>1. PICK v \in Views, cap \in DOMAIN Slugs.view \cap DOMAIN Slugs.workbook :
          /\ <<"view", v>> \in Listed /\ TabsFact(Book[v]) \in ever
          /\ from = EntitlementOf(<<"workbook", Book[v]>>, cap)
          /\ into = EntitlementOf(<<"view", v>>, cap)
    BY <1>4 DEF FromWorkbook
  <2>2. /\ <<"workbook", Book[v]>> \in Listed
        /\ <<"workbook", Book[v]>>[1] = "workbook" /\ <<"view", v>>[1] = "view"
    BY <2>1, PlacesListed
  <2>3. Has(ever, always, u, <<"workbook", Book[v]>>, cap)
    BY <2>1, <2>2, RealAccess
  <2>4. Has(ever, always, u, <<"view", v>>, cap)
    BY <2>1, <2>3 DEF Has, OnView
  <2> QED
    BY <2>1, <2>2, <2>4, RealAccess
<1> QED
  BY <1>1, <1>2, <1>3, <1>4 DEF EdgeOK

\* The end of an edge is the entitlement of a permission.
LEMMA EdgesLeadToPermissions ==
  ASSUME NEW from, NEW into, EdgeOK(from, into)
  PROVE  into \in Permissions
<1>1. \A place \in Listed : \A cap \in DOMAIN Slugs[place[1]] : EntitlementOf(place, cap) \in Permissions
  BY DEF Permissions
<1>2. CASE FromGroup(from, into)
  BY <1>1, <1>2 DEF FromGroup
<1>3. CASE FromProject(from, into)
  <2>1. PICK p \in Projects, cap \in DOMAIN Slugs.default : into = EntitlementOf(<<"default", p>>, cap)
    BY <1>3 DEF FromProject
  <2> QED
    BY <1>1, <2>1, PlacesListed
<1>4. CASE FromLocked(from, into)
  <2>1. PICK w \in Workbooks, cap \in DOMAIN Slugs.workbook :
          Home[w] # "none" /\ into = EntitlementOf(<<"workbook", w>>, cap)
    BY <1>4 DEF FromLocked
  <2> QED
    BY <1>1, <2>1, PlacesListed
<1>5. CASE FromWorkbook(from, into)
  <2>1. PICK v \in Views, cap \in DOMAIN Slugs.view :
          <<"view", v>> \in Listed /\ into = EntitlementOf(<<"view", v>>, cap)
    BY <1>5 DEF FromWorkbook
  <2> QED
    BY <1>1, <2>1
<1> QED
  BY <1>2, <1>3, <1>4, <1>5 DEF EdgeOK
-----------------------------------------------------------------------------
\* What is sound stays so as time goes by.
LEMMA LaterEdge ==
  ASSUME ever \subseteq ever', always' \subseteq always, NEW from, NEW into, EdgeOK(from, into)
  PROVE  EdgeOK(from, into)'
<1>1. FromGroup(from, into) => FromGroup(from, into)'
  BY DEF FromGroup, Counts
<1>2. FromProject(from, into) => FromProject(from, into)'
  BY DEF FromProject
<1>3. FromLocked(from, into) => FromLocked(from, into)'
  BY DEF FromLocked
<1>4. FromWorkbook(from, into) => FromWorkbook(from, into)'
  BY DEF FromWorkbook
<1> QED
  BY <1>1, <1>2, <1>3, <1>4 DEF EdgeOK

LEMMA LaterReal ==
  ASSUME ever \subseteq ever', always' \subseteq always, NEW e, NEW u, Real(e, u)
  PROVE  Real(e, u)'
<1>1. \A h : Belongs(ever, u, h) => Belongs(ever', u, h)
  BY DEF Belongs
<1>2. \A place, cap : Has(ever, always, u, place, cap) => Has(ever', always', u, place, cap)
  BY MoreIsReal
<1> QED
  BY <1>1, <1>2 DEF Real

LEMMA LaterSound ==
  ASSUME ever \subseteq ever', always' \subseteq always, NEW g, Sound(g)
  PROVE  Sound(g)'
<1>1. \A e \in g.via : EdgeOK(e.from, g.on)'
  BY LaterEdge DEF Sound
<1>2. \A u \in Users : g.to = <<"user", u>> => Real(g.on, u)'
  BY LaterReal DEF Sound
<1>3. Rule(g) => Rule(g)'
  BY DEF Rule
<1> QED
  BY <1>1, <1>2, <1>3 DEF Sound

\* Nothing that the invariant speaks of is lost or added but time.
LEMMA LaterGrants ==
  ASSUME IInv, ever \subseteq ever', always' \subseteq always, grants' = grants, edges' \subseteq edges
  PROVE  GrantsOK' /\ EdgesOK'
BY LaterEdge, LaterSound DEF IInv, GrantsOK, EdgesOK

LEMMA ResponseFacts ==
  ASSUME CacheOK, HistoryOK, NEW url
  PROVE  Response(url) \subseteq At(url, ever) /\ At(url, always) \subseteq Response(url)
BY DEF CacheOK, HistoryOK, Response, At

LEMMA RememberFacts ==
  ASSUME IInv, NEW urls, Remember(urls), UNCHANGED <<facts, ever, always>>
  PROVE  /\ DOMAIN cache' = DOMAIN cache \cup urls
         /\ \A url \in DOMAIN cache' : /\ cache'[url] \subseteq At(url, ever)
                                       /\ At(url, always) \subseteq cache'[url]
         /\ \A url \in DOMAIN cache' : cache'[url] \subseteq Facts
         /\ \A url \in DOMAIN cache : cache'[url] = cache[url]
<1>1. cache' = [u \in DOMAIN cache \cup urls |-> Response(u)]
  BY DEF Remember
<1>2. \A url : Response(url) \subseteq At(url, ever) /\ At(url, always) \subseteq Response(url)
  BY ResponseFacts DEF IInv
<1>3. \A url : At(url, ever) \subseteq Facts
  BY DEF IInv, TypeOK, At
<1>4. \A url \in DOMAIN cache : Response(url) = cache[url]
  BY DEF Response
<1> HIDE DEF Response
<1> QED
  BY <1>1, <1>2, <1>3, <1>4

LEMMA PermissionShape ==
  ASSUME NEW e \in Permissions
  PROVE  \E place \in Listed : \E cap \in DOMAIN Slugs[place[1]] : e = EntitlementOf(place, cap)
BY DEF Permissions

\* What comes of the permissions of a place.
LEMMA OwnGrantsSound ==
  ASSUME IInv, NEW place \in Listed, Counts(place), NEW g \in ownGrants(place)
  PROVE  Sound(g)
<1>0. place \in Places
  BY DEF Listed
<1>1. PICK f \in Response(place) :
        /\ f.mode = "Allow" /\ f.cap \in DOMAIN Slugs[place[1]]
        /\ g = NewGrant(EntitlementOf(place, f.cap), f.to, toMembers(f.to))
  BY DEF ownGrants, grantsFromCapabilities, EntitlementOf
<1>2. f \in ever /\ f \in Facts /\ f.at = place
  BY ResponseFacts DEF IInv, TypeOK, At
<1>3. f.to \in Principals /\ f = RuleFact(place, f.to, f.cap, "Allow")
  BY <1>0, <1>1, <1>2, FactShapes
<1> DEFINE e == EntitlementOf(place, f.cap)
<1>4. /\ e \in Permissions /\ e[1] # "group"
      /\ Place(e) = place /\ CapabilityOf(e[3]) = f.cap
  BY <1>0, <1>1, EntitlementFacts DEF Permissions
<1>5. /\ DOMAIN g = {"on", "to", "src", "via", "immutable"}
      /\ g.on = e /\ g.to = f.to /\ g.via = toMembers(f.to)
  BY <1>1 DEF NewGrant
<1>6. ASSUME NEW d \in g.via PROVE EdgeOK(d.from, g.on)
  <2>1. f.to[1] = "group" /\ d = Edge(Member(f.to[2]), TRUE)
    BY <1>5, <1>6 DEF toMembers
  <2>2. f.to[2] \in Groups /\ f.to = <<"group", f.to[2]>>
    BY <1>3, <2>1 DEF Principals
  <2>3. d.from = Member(f.to[2])
    BY <2>1 DEF Edge
  <2>4. FromGroup(d.from, e)
    BY <1>1, <1>2, <1>3, <2>2, <2>3 DEF FromGroup
  <2> QED
    BY <1>5, <2>4 DEF EdgeOK
<1>7. ASSUME NEW u \in Users, g.to = <<"user", u>> PROVE Real(g.on, u)
  <2>1. Allowed(ever, u, place, f.cap)
    BY <1>2, <1>3, <1>5, <1>7 DEF Allowed
  <2>2. Has(ever, always, u, place, f.cap)
    BY <2>1, RuleIsAccess DEF Counts
  <2> QED
    BY <1>1, <1>5, <2>2, RealAccess
<1>8. Rule(g)
  BY <1>2, <1>3, <1>4, <1>5 DEF Rule
<1> QED
  BY <1>4, <1>5, <1>6, <1>7, <1>8 DEF Sound

LEMMA MemberGrantsSound ==
  ASSUME IInv, NEW h \in Groups, NEW g \in memberGrants(h, Response(Members(h)))
  PROVE  Sound(g)
<1>1. PICK f \in Response(Members(h)) :
        f.role # "ServerAdministrator" /\ g = NewGrant(Member(h), <<"user", f.user>>, {})
  BY DEF memberGrants
<1>2. f \in ever /\ f \in Facts /\ f.at = Members(h)
  BY ResponseFacts DEF IInv, TypeOK, At
<1>3. f = MemberFact(h, f.user, "other")
  BY <1>1, <1>2, FactShapes
<1>4. /\ DOMAIN g = {"on", "to", "src", "via", "immutable"}
      /\ g.on = Member(h) /\ g.to = <<"user", f.user>> /\ g.via = {}
  BY <1>1 DEF NewGrant
<1>5. Belongs(ever, f.user, h)
  BY <1>2, <1>3 DEF Belongs
<1>6. \A u \in Users : g.to = <<"user", u>> => Real(g.on, u)
  <2>1. \A u \in Users : g.to = <<"user", u>> => u = f.user
    BY <1>4
  <2> QED
    BY <1>4, <1>5, <2>1, RealMember
<1>7. Rule(g)
  <2>1. g.on[1] = "group" /\ g.on[2] = h
    BY <1>4 DEF Member
  <2> QED
    BY <1>2, <1>4, <2>1 DEF Rule
<1> QED
  BY <1>4, <1>6, <1>7 DEF Sound

\* What is handed down goes to a resource, and is for the users who have it there.
LEMMA HandedDownSound ==
  ASSUME NEW g, NEW from, EdgeOK(from, g.on), g.to[1] \in {"project", "workbook"},
         DOMAIN g = {"on", "to", "src", "via", "immutable"},
         \A e \in g.via : e.from = from
  PROVE  Sound(g)
<1>1. g.to \notin Principals /\ \A u : g.to # <<"user", u>>
  BY DEF Principals
<1>2. g.on \in Permissions
  BY EdgesLeadToPermissions
<1> QED
  BY <1>1, <1>2 DEF Sound

\* What a project hands down, to itself and to its workbooks.
LEMMA ProjectHandsDown ==
  ASSUME IInv, phase = "grants", NEW p \in Projects, NEW g \in handedDown(p)
  PROVE  Sound(g)
<1>1. CASE /\ Parent[p] # "none"
           /\ g \in inheritedGrants(<<"project", p>>, <<"project", Parent[p]>>,
                                    Slugs.default, Slugs.default)
  <2>1. PICK cap \in DOMAIN Slugs.default :
          /\ Parent[p] # "none"
          /\ g = NewGrant(Entitlement(<<"project", p>>, Slugs.default[cap]), <<"project", Parent[p]>>,
                          {Edge(Entitlement(<<"project", Parent[p]>>, Slugs.default[cap]), FALSE)})
    BY <1>1 DEF inheritedGrants
  <2> DEFINE from == EntitlementOf(<<"default", Parent[p]>>, cap)
             into == EntitlementOf(<<"default", p>>, cap)
  <2>2. from = Entitlement(<<"project", Parent[p]>>, Slugs.default[cap])
        /\ into = Entitlement(<<"project", p>>, Slugs.default[cap])
    BY DEF EntitlementOf, Resource
  <2>3. EdgeOK(from, into)
    BY <2>1 DEF EdgeOK, FromProject
  <2>4. /\ g.on = into /\ g.to[1] = "project" /\ \A e \in g.via : e.from = from
        /\ DOMAIN g = {"on", "to", "src", "via", "immutable"}
    BY <2>1, <2>2 DEF NewGrant, Edge
  <2> HIDE DEF from, into
  <2> QED
    BY <2>3, <2>4, HandedDownSound
<1>2. CASE \E w \in Workbooks : /\ Home[w] = p /\ Locked(p)
             /\ g \in inheritedGrants(<<"workbook", w>>, <<"project", p>>, Slugs.workbook, Slugs.default)
  <2>1. PICK w \in Workbooks : /\ Home[w] = p /\ Locked(p)
             /\ g \in inheritedGrants(<<"workbook", w>>, <<"project", p>>, Slugs.workbook, Slugs.default)
    BY <1>2
  <2>2. PICK cap \in DOMAIN Slugs.workbook \cap DOMAIN Slugs.default :
          g = NewGrant(Entitlement(<<"workbook", w>>, Slugs.workbook[cap]), <<"project", p>>,
                       {Edge(Entitlement(<<"project", p>>, Slugs.default[cap]), FALSE)})
    BY <2>1 DEF inheritedGrants
  <2> DEFINE from == EntitlementOf(<<"default", p>>, cap)
             into == EntitlementOf(<<"workbook", w>>, cap)
  <2>3. from = Entitlement(<<"project", p>>, Slugs.default[cap])
        /\ into = Entitlement(<<"workbook", w>>, Slugs.workbook[cap])
    BY DEF EntitlementOf, Resource
  <2>4. LockFact(p) \in ever
    BY <2>1 DEF IInv, CacheOK, Locked, At
  <2>5. EdgeOK(from, into)
    BY <2>1, <2>4, AccessAssumption DEF EdgeOK, FromLocked
  <2>6. /\ g.on = into /\ g.to[1] = "project" /\ \A e \in g.via : e.from = from
        /\ DOMAIN g = {"on", "to", "src", "via", "immutable"}
    BY <2>2, <2>3 DEF NewGrant, Edge
  <2> HIDE DEF from, into
  <2> QED
    BY <2>5, <2>6, HandedDownSound
<1>3. CASE \E S \in {inheritedGrants(<<"workbook", w>>, <<"project", p>>, Slugs.workbook, Slugs.default) :
                w \in {v \in Workbooks : Home[v] = p /\ Locked(p)}} : g \in S
  BY <1>2, <1>3
<1> QED
  BY <1>1, <1>3 DEF handedDown
-----------------------------------------------------------------------------
LEMMA InitStep == Init => IInv
<1> SUFFICES ASSUME Init PROVE IInv
  OBVIOUS
<1>1. facts \subseteq Facts
  BY BoundsAssumption DEF Init
<1>2. TypeOK
  BY <1>1, AccessAssumption DEF Init, TypeOK
<1>3. TodoOK /\ CacheOK /\ HistoryOK /\ EdgesOK /\ GrantsOK
  BY DEF Init, TodoOK, CacheOK, HistoryOK, EdgesOK, GrantsOK
<1> QED
  BY <1>2, <1>3 DEF IInv

\* A step that makes new grants and keeps time.
LEMMA GrantsStep ==
  ASSUME IInv, UNCHANGED <<ever, always, edges>>, \A g \in grants' : g \in grants \/ Sound(g)
  PROVE  GrantsOK' /\ EdgesOK'
<1>1. \A g \in grants' : Sound(g)'
  BY LaterSound DEF IInv, GrantsOK
<1> QED
  BY <1>1, LaterEdge DEF IInv, GrantsOK, EdgesOK

LEMMA SoundTyped ==
  ASSUME GrantsOK
  PROVE  \A g \in grants : g.on \in Permissions \cup {Member(h) : h \in Groups}
BY DEF GrantsOK, Sound

LEMMA AskedForIsListed ==
  ASSUME TodoOK, NEW place \in Places, place \in todo
  PROVE  place \in Listed
<1>1. \A g \in Groups : Members(g)[1] = "members"
  BY DEF Members
<1>2. place[1] # "members"
  BY PlaceFacts, Tables
<1> QED
  BY <1>1, <1>2 DEF TodoOK

LEMMA CollectStep ==
  ASSUME IInv, NEW urls, NEW new, Collect(urls, new), \A g \in new : Sound(g)
  PROVE  IInv'
<1>1. /\ phase = "grants" /\ todo' \subseteq todo /\ grants' = grants \cup new
      /\ Remember(urls)
      /\ UNCHANGED <<facts, phase, edges, reduced, ever, always, wrote, changes, fails>>
  BY DEF Collect
<1>2. urls \subseteq URLs
  BY DEF Collect, IInv, TypeOK
<1>3. /\ DOMAIN cache' = DOMAIN cache \cup urls
      /\ \A url \in DOMAIN cache' : cache'[url] \subseteq At(url, ever) /\ At(url, always) \subseteq cache'[url]
      /\ \A url \in DOMAIN cache' : cache'[url] \subseteq Facts
  BY <1>1, RememberFacts
<1>4. GrantsOK' /\ EdgesOK'
  BY <1>1, GrantsStep
<1>5. TypeOK'
  BY <1>1, <1>2, <1>3, <1>4, SoundTyped DEF IInv, TypeOK, GrantsOK, Sound
<1>6. TodoOK' /\ CacheOK' /\ HistoryOK'
  BY <1>1, <1>3 DEF IInv, TodoOK, CacheOK, HistoryOK, At
<1> QED
  BY <1>4, <1>5, <1>6 DEF IInv

LEMMA ListStep == IInv /\ List => IInv'
<1> SUFFICES ASSUME IInv, List PROVE IInv'
  OBVIOUS
<1>1. /\ phase' = "grants" /\ todo' = Listed \cup {Members(g) : g \in Groups}
      /\ Remember({ProjectList})
      /\ UNCHANGED <<facts, grants, edges, reduced, ever, always, wrote, changes, fails>>
  BY DEF List
<1>2. /\ DOMAIN cache' = DOMAIN cache \cup {ProjectList}
      /\ \A url \in DOMAIN cache' : cache'[url] \subseteq At(url, ever) /\ At(url, always) \subseteq cache'[url]
      /\ \A url \in DOMAIN cache' : cache'[url] \subseteq Facts
  BY <1>1, RememberFacts
<1>3. todo' \subseteq URLs /\ ProjectList \in URLs
  BY <1>1 DEF URLs, Listed
<1>4. GrantsOK' /\ EdgesOK'
  BY <1>1, GrantsStep
<1>5. TypeOK'
  BY <1>1, <1>2, <1>3 DEF IInv, TypeOK
<1>6. TodoOK' /\ CacheOK' /\ HistoryOK'
  BY <1>1, <1>2 DEF IInv, TodoOK, CacheOK, HistoryOK, At
<1> QED
  BY <1>4, <1>5, <1>6 DEF IInv

LEMMA GroupGrantsStep ==
  ASSUME IInv, NEW g \in Groups, GroupGrants(g)
  PROVE  IInv'
BY CollectStep, MemberGrantsSound DEF GroupGrants

LEMMA ProjectGrantsStep ==
  ASSUME IInv, NEW p \in Projects, ProjectGrants(p)
  PROVE  IInv'
<1> DEFINE new == ownGrants(<<"project", p>>) \cup ownGrants(<<"default", p>>) \cup handedDown(p)
<1>1. Collect({<<"project", p>>, <<"default", p>>}, new) /\ phase = "grants"
  BY DEF ProjectGrants, Collect
<1>2. <<"project", p>> \in Listed /\ Counts(<<"project", p>>)
      /\ <<"default", p>> \in Listed /\ Counts(<<"default", p>>)
  BY PlacesListed DEF Counts
<1>3. \A g \in new : Sound(g)
  BY <1>1, <1>2, OwnGrantsSound, ProjectHandsDown
<1> HIDE DEF new
<1> QED
  BY <1>1, <1>3, CollectStep

LEMMA WorkbookGrantsStep ==
  ASSUME IInv, NEW w \in Workbooks, WorkbookGrants(w)
  PROVE  IInv'
<1>1. Collect({<<"workbook", w>>}, ownGrants(<<"workbook", w>>)) /\ <<"workbook", w>> \in todo
  BY DEF WorkbookGrants, Collect
<1>2. <<"workbook", w>> \in Listed
  BY <1>1, AskedForIsListed DEF IInv, Places
<1>3. Counts(<<"workbook", w>>)
  BY DEF Counts
<1> QED
  BY <1>1, <1>2, <1>3, CollectStep, OwnGrantsSound

LEMMA LookUpStep ==
  ASSUME IInv, NEW v \in Views, LookUp(v)
  PROVE  IInv'
<1>1. /\ Remember({Details(Book[v])})
      /\ UNCHANGED <<facts, phase, todo, grants, edges, reduced, ever, always, wrote, changes, fails>>
  BY DEF LookUp, sync
<1>2. /\ DOMAIN cache' = DOMAIN cache \cup {Details(Book[v])}
      /\ \A url \in DOMAIN cache' : cache'[url] \subseteq At(url, ever) /\ At(url, always) \subseteq cache'[url]
      /\ \A url \in DOMAIN cache' : cache'[url] \subseteq Facts
  BY <1>1, RememberFacts
<1>3. Details(Book[v]) \in URLs
  BY AccessAssumption DEF URLs
<1>4. GrantsOK' /\ EdgesOK'
  BY <1>1, GrantsStep
<1>5. TypeOK'
  BY <1>1, <1>2, <1>3 DEF IInv, TypeOK
<1>6. TodoOK' /\ CacheOK' /\ HistoryOK'
  BY <1>1, <1>2 DEF IInv, TodoOK, CacheOK, HistoryOK, At
<1> QED
  BY <1>4, <1>5, <1>6 DEF IInv

\* A response to the GET of a workbook tells whether it has tabs.
LEMMA TabsFacts ==
  ASSUME IInv, NEW v \in Views, Details(Book[v]) \in DOMAIN cache
  PROVE  /\ ShowTabs(v) => TabsFact(Book[v]) \in ever
         /\ ~ShowTabs(v) => TabsFact(Book[v]) \notin always
<1> DEFINE url == Details(Book[v])
<1>1. ShowTabs(v) <=> cache[url] # {}
  BY DEF ShowTabs, Response
<1>2. cache[url] \subseteq At(url, ever) /\ At(url, always) \subseteq cache[url] /\ cache[url] \subseteq Facts
  BY DEF IInv, CacheOK, TypeOK
<1>3. TabsFact(Book[v]).at = url /\ Book[v] \in Workbooks
  BY AccessAssumption DEF TabsFact
<1>4. \A f \in cache[url] : f = TabsFact(Book[v])
  BY <1>2, <1>3, FactShapes DEF At
<1> HIDE DEF url
<1> QED
  BY <1>1, <1>2, <1>3, <1>4 DEF At

LEMMA InheritedViewGrantsStep ==
  ASSUME IInv, NEW v \in Views, InheritedViewGrants(v)
  PROVE  IInv'
<1> DEFINE view == <<"view", v>>
           new == inheritedGrants(view, <<"workbook", Book[v]>>, Slugs.view, Slugs.workbook)
<1>1. /\ phase = "grants" /\ view \in todo
      /\ Details(Book[v]) \in DOMAIN cache /\ ShowTabs(v)
      /\ grants' = grants \cup new /\ todo' \subseteq todo
      /\ UNCHANGED <<facts, cache, phase, edges, reduced, ever, always, wrote, changes, fails>>
  BY DEF InheritedViewGrants
<1>2. view \in Listed /\ TabsFact(Book[v]) \in ever
  BY <1>1, AskedForIsListed, TabsFacts DEF IInv, Places
<1>3. ASSUME NEW g \in new PROVE Sound(g)
  <2>1. PICK cap \in DOMAIN Slugs.view \cap DOMAIN Slugs.workbook :
          g = NewGrant(Entitlement(view, Slugs.view[cap]), <<"workbook", Book[v]>>,
                       {Edge(Entitlement(<<"workbook", Book[v]>>, Slugs.workbook[cap]), FALSE)})
    BY <1>3 DEF inheritedGrants
  <2> DEFINE from == EntitlementOf(<<"workbook", Book[v]>>, cap)
             into == EntitlementOf(<<"view", v>>, cap)
  <2>2. from = Entitlement(<<"workbook", Book[v]>>, Slugs.workbook[cap])
        /\ into = Entitlement(view, Slugs.view[cap])
    BY DEF EntitlementOf, Resource
  <2>3. EdgeOK(from, into)
    BY <1>2, <2>1 DEF EdgeOK, FromWorkbook
  <2>4. /\ g.on = into /\ g.to[1] = "workbook" /\ \A e \in g.via : e.from = from
        /\ DOMAIN g = {"on", "to", "src", "via", "immutable"}
    BY <2>1, <2>2 DEF NewGrant, Edge
  <2> HIDE DEF from, into
  <2> QED
    BY <2>3, <2>4, HandedDownSound
<1> HIDE DEF new, view
<1>4. GrantsOK' /\ EdgesOK'
  BY <1>1, <1>3, GrantsStep
<1>5. TypeOK'
  BY <1>1, <1>4, SoundTyped DEF IInv, TypeOK, GrantsOK, Sound
<1>6. TodoOK' /\ CacheOK' /\ HistoryOK'
  BY <1>1 DEF IInv, TodoOK, CacheOK, HistoryOK
<1> QED
  BY <1>4, <1>5, <1>6 DEF IInv

LEMMA OwnViewGrantsStep ==
  ASSUME IInv, NEW v \in Views, OwnViewGrants(v)
  PROVE  IInv'
<1> DEFINE view == <<"view", v>>
<1>1. /\ Details(Book[v]) \in DOMAIN cache /\ ~ShowTabs(v)
      /\ Collect({view}, ownGrants(view)) /\ view \in todo
  BY DEF OwnViewGrants, Collect
<1>2. view \in Listed /\ Counts(view)
  BY <1>1, AskedForIsListed, TabsFacts DEF IInv, Places, Counts
<1> HIDE DEF view
<1> QED
  BY <1>1, <1>2, CollectStep, OwnGrantsSound

LEMMA ExpandStep == IInv /\ Expand => IInv'
<1> SUFFICES ASSUME IInv, Expand PROVE IInv'
  OBVIOUS
<1>1. /\ phase = "grants" /\ phase' = "expand" /\ edges' = Edges
      /\ UNCHANGED <<facts, cache, todo, grants, reduced, ever, always, wrote, changes, fails>>
  BY DEF Expand
<1>2. \A d \in edges' : EdgeOK(d.from, d.into)
  <2> SUFFICES ASSUME NEW d \in Edges PROVE EdgeOK(d.from, d.into)
    BY <1>1
  <2>1. PICK g \in grants : \E e \in g.via :
          d = [from |-> e.from, shallow |-> e.shallow, into |-> g.on]
    BY DEF Edges
  <2>2. PICK e \in g.via : d = [from |-> e.from, shallow |-> e.shallow, into |-> g.on]
    BY <2>1
  <2>3. d.from = e.from /\ d.into = g.on
    BY <2>2
  <2> QED
    BY <2>3 DEF IInv, GrantsOK, Sound
<1>3. EdgesOK' /\ GrantsOK'
  <2>1. \A d \in edges' : EdgeOK(d.from, d.into)'
    BY <1>1, <1>2, LaterEdge
  <2>2. \A g \in grants : Sound(g)'
    BY <1>1, LaterSound DEF IInv, GrantsOK
  <2> QED
    BY <1>1, <2>1, <2>2 DEF EdgesOK, GrantsOK
<1>4. TypeOK' /\ TodoOK' /\ CacheOK' /\ HistoryOK'
  BY <1>1 DEF IInv, TypeOK, TodoOK, CacheOK, HistoryOK
<1> QED
  BY <1>3, <1>4 DEF IInv

\* What flows into an entitlement that is ready.
LEMMA FlowFacts ==
  ASSUME NEW ready, NEW c \in Contributions(ready)
  PROVE  \E d \in edges, h \in grants :
           /\ d.into \in ready /\ h.on = d.from /\ (d.shallow => Direct(h))
           /\ c = <<h.on, d.into, h.to>>
BY DEF Contributions

LEMMA ExpandLayerStep == IInv /\ ExpandLayer => IInv'
<1> SUFFICES ASSUME IInv, ExpandLayer PROVE IInv'
  OBVIOUS
<1> DEFINE flow == Contributions(Ready)
           unheld == {<<c[2], c[3]>> : c \in flow} \ {<<g.on, g.to>> : g \in grants}
<1>1. /\ phase = "expand"
      /\ grants' = {Merged(flow, g) : g \in grants} \cup {Derived(flow, c[1], c[2]) : c \in unheld}
      /\ UNCHANGED <<facts, cache, phase, todo, edges, ever, always, wrote, changes, fails>>
  BY DEF ExpandLayer
<1>2. ASSUME NEW g \in grants PROVE Sound(Merged(flow, g))
  <2> DEFINE m == Merged(flow, g)
  <2>1. Sound(g)
    BY DEF IInv, GrantsOK
  <2>2. /\ DOMAIN m = {"on", "to", "src", "via", "immutable"}
        /\ m.on = g.on /\ m.to = g.to /\ m.via = g.via /\ m.immutable = g.immutable
    <3> HIDE DEF flow
    <3> QED
      BY <2>1 DEF Sound, Merged
  <2> HIDE DEF m
  <2>3. Rule(g) <=> Rule(m)
    BY <2>2 DEF Rule
  <2>4. Sound(m)
    BY <2>1, <2>2, <2>3 DEF Sound
  <2> QED
    BY <2>4 DEF m
<1>3. ASSUME NEW c \in unheld PROVE Sound(Derived(flow, c[1], c[2]))
  <2> DEFINE m == Derived(flow, c[1], c[2])
  <2>1. PICK k \in flow : c = <<k[2], k[3]>>
    OBVIOUS
  <2>2. PICK d \in edges, h \in grants : h.on = d.from /\ k = <<h.on, d.into, h.to>>
    BY FlowFacts
  <2>3. c[1] = d.into /\ c[2] = h.to
    BY <2>1, <2>2
  <2>4. /\ DOMAIN m = {"on", "to", "src", "via", "immutable"}
        /\ m.on = d.into /\ m.to = h.to /\ m.via = {} /\ m.immutable = TRUE
    <3> HIDE DEF flow
    <3> QED
      BY <2>3 DEF Derived
  <2>5. EdgeOK(h.on, d.into) /\ Sound(h)
    BY <2>2 DEF IInv, EdgesOK, GrantsOK
  <2>6. d.into \in Permissions
    BY <2>5, EdgesLeadToPermissions
  <2>7. \A u \in Users : h.to = <<"user", u>> => Real(d.into, u)
    BY <2>5, EdgesLead DEF Sound
  <2> HIDE DEF m
  <2>8. Sound(m)
    BY <2>4, <2>6, <2>7 DEF Sound
  <2> QED
    BY <2>8 DEF m
<1> HIDE DEF flow, unheld
<1>4. \A g \in grants' : Sound(g)
  BY <1>1, <1>2, <1>3
<1>5. GrantsOK' /\ EdgesOK'
  BY <1>1, <1>4, GrantsStep
<1>6. TypeOK' /\ TodoOK' /\ CacheOK' /\ HistoryOK'
  BY <1>1, <1>5, SoundTyped DEF IInv, TypeOK, TodoOK, CacheOK, HistoryOK, GrantsOK, Sound
<1> QED
  BY <1>5, <1>6 DEF IInv

LEMMA FinishStep == IInv /\ Finish => IInv'
<1> SUFFICES ASSUME IInv, Finish PROVE IInv'
  OBVIOUS
<1>1. /\ phase' = "done" /\ phase # "list"
      /\ UNCHANGED <<facts, cache, todo, grants, edges, reduced, ever, always, wrote, changes, fails>>
  BY DEF Finish
<1>2. GrantsOK' /\ EdgesOK'
  BY <1>1, LaterGrants
<1> QED
  BY <1>1, <1>2 DEF IInv, TypeOK, TodoOK, CacheOK, HistoryOK

LEMMA NextSyncStep == IInv /\ NextSync => IInv'
<1> SUFFICES ASSUME IInv, NextSync PROVE IInv'
  OBVIOUS
<1> USE DEF NextSync
<1>1. TypeOK' /\ TodoOK' /\ CacheOK' /\ HistoryOK'
  BY DEF IInv, TypeOK, TodoOK, CacheOK, HistoryOK
<1>2. GrantsOK' /\ EdgesOK'
  BY DEF GrantsOK, EdgesOK
<1> QED
  BY <1>1, <1>2 DEF IInv

LEMMA FailStep == IInv /\ Fail => IInv'
<1> SUFFICES ASSUME IInv, Fail PROVE IInv'
  OBVIOUS
<1> USE DEF Fail
<1>1. TypeOK' /\ TodoOK' /\ CacheOK' /\ HistoryOK'
  BY AccessAssumption DEF IInv, TypeOK, TodoOK, CacheOK, HistoryOK
<1>2. GrantsOK' /\ EdgesOK'
  BY DEF GrantsOK, EdgesOK
<1> QED
  BY <1>1, <1>2 DEF IInv

\* Tableau changes.
LEMMA BecomeStep ==
  ASSUME IInv, NEW F \in SUBSET Facts, Become(F), changes < MaxChanges, UNCHANGED <<cache, sync, fails>>
  PROVE  IInv'
<1>1. /\ facts' = F /\ ever' = ever \cup F /\ always' = always \cap F /\ changes' = changes + 1
      /\ UNCHANGED <<cache, phase, todo, grants, edges, reduced, fails>>
  BY DEF Become, sync
<1>2. GrantsOK' /\ EdgesOK'
  BY <1>1, LaterGrants
<1>3. TypeOK'
  BY <1>1, AccessAssumption DEF IInv, TypeOK
<1>4. TodoOK' /\ CacheOK' /\ HistoryOK'
  BY <1>1 DEF IInv, TodoOK, CacheOK, HistoryOK, At
<1> QED
  BY <1>2, <1>3, <1>4 DEF IInv

LEMMA OutsideStep == IInv /\ Outside => IInv'
<1> SUFFICES ASSUME IInv, Outside PROVE IInv'
  OBVIOUS
<1>1. PICK f \in Volatile : Become(IF f \in facts THEN facts \ {f} ELSE facts \cup {f})
  BY DEF Outside
<1>2. (IF f \in facts THEN facts \ {f} ELSE facts \cup {f}) \in SUBSET Facts
  BY BoundsAssumption DEF IInv, TypeOK
<1>3. changes < MaxChanges /\ UNCHANGED <<cache, sync, fails>>
  BY DEF Outside
<1> QED
  BY <1>1, <1>2, <1>3, BecomeStep

LEMMA TaskStep ==
  ASSUME IInv, NEW a \in Asked, NEW op, Task(a[1], a[2], op)
  PROVE  IInv'
<1> DEFINE f == RuleFact(Place(a[1]), a[2], CapabilityOf(a[1][3]), "Allow")
<1>1. a[1] \in Permissions /\ a[2] \in Principals
  BY BoundsAssumption
<1>2. PICK place \in Listed : \E cap \in DOMAIN Slugs[place[1]] : a[1] = EntitlementOf(place, cap)
  BY <1>1, PermissionShape
<1>3. PICK cap \in DOMAIN Slugs[place[1]] : a[1] = EntitlementOf(place, cap)
  BY <1>2
<1>4. place \in Places /\ Place(a[1]) = place /\ CapabilityOf(a[1][3]) = cap
  BY <1>3, EntitlementFacts DEF Listed
<1>5. f \in Facts
  BY <1>1, <1>4 DEF Facts, Rules, Modes
<1>6. /\ Become(IF op = "grant" THEN facts \cup {f} ELSE facts \ {f})
      /\ changes < MaxChanges /\ UNCHANGED <<cache, sync, fails>>
  BY DEF Task
<1> HIDE DEF f
<1>7. (IF op = "grant" THEN facts \cup {f} ELSE facts \ {f}) \in SUBSET Facts
  BY <1>5 DEF IInv, TypeOK
<1> QED
  BY <1>6, <1>7, BecomeStep

LEMMA StutterStep == IInv /\ UNCHANGED vars => IInv'
<1> SUFFICES ASSUME IInv, UNCHANGED vars PROVE IInv'
  OBVIOUS
<1>1. UNCHANGED <<facts, cache, phase, todo, grants, edges, reduced, ever, always, changes, fails>>
  BY DEF vars, sync
<1>2. GrantsOK' /\ EdgesOK'
  BY <1>1, LaterGrants
<1> QED
  BY <1>1, <1>2 DEF IInv, TypeOK, TodoOK, CacheOK, HistoryOK

\* The invariant that what is shown rests on.
THEOREM Invariance == Spec => []IInv
<1>1. IInv /\ Next => IInv'
  BY ListStep, ExpandStep, ExpandLayerStep, FinishStep, NextSyncStep, FailStep, OutsideStep,
     GroupGrantsStep, ProjectGrantsStep, WorkbookGrantsStep, LookUpStep,
     InheritedViewGrantsStep, OwnViewGrantsStep, TaskStep DEF Next
<1> QED
  BY <1>1, InitStep, StutterStep, PTL DEF Spec
-----------------------------------------------------------------------------
\* Every variable of the sync of permissions keeps its type, and no grant is made of an
\* entitlement that no resource has.
THEOREM Typing == Spec => []TypeOK
BY Invariance, PTL DEF IInv

\* No access is shown but one for which all that it takes was so at some instant since the
\* cache was last emptied: through groups, nested projects, locks and tabs, of any size.
THEOREM NoPhantomAccess == Spec => []ShownAccessIsReal
<1>1. IInv => ShownAccessIsReal
  <2> SUFFICES ASSUME IInv, NEW u \in Users, NEW place \in Listed,
                      NEW cap \in DOMAIN Slugs[place[1]], Shown(u, place, cap)
               PROVE  Has(ever, always, u, place, cap)
    BY DEF ShownAccessIsReal
  <2>1. Real(EntitlementOf(place, cap), u)
    BY DEF Shown, IInv, GrantsOK, Sound
  <2> QED
    BY <2>1, RealAccess
<1> QED
  BY <1>1, Invariance, PTL

\* What the platform may revoke is a membership or a permission of just that principal.
THEOREM RevocableIsBacked == Spec => []RevocableIsARule
<1>1. IInv => RevocableIsARule
  BY DEF IInv, GrantsOK, Sound, Rule, RevocableIsARule
<1> QED
  BY <1>1, Invariance, PTL
-----------------------------------------------------------------------------
(* That no access is missing. *)

\* Of the facts that are so all along, those of a group's members are among grants G; and
\* those of a place, with the edges from the groups that were given something there.
MembersIn(G, h) ==
  \A u \in Users : MemberFact(h, u, "other") \in always =>
    \E g \in G : g.on = Member(h) /\ g.to = <<"user", u>> /\ Direct(g)

RulesIn(G, place) ==
  \A to \in Principals, cap \in DOMAIN Slugs[place[1]] :
    RuleFact(place, to, cap, "Allow") \in always =>
      \E g \in G : /\ g.on = EntitlementOf(place, cap) /\ g.to = to /\ Direct(g)
                   /\ toMembers(to) \subseteq g.via

\* The other edges are: to a project, a workbook in a locked one, and a view with tabs.
Handed(G, from, into) == \E g \in G : g.on = into /\ Edge(from, FALSE) \in g.via

NestingIn(G, p) ==
  Parent[p] # "none" => \A cap \in DOMAIN Slugs.default :
    Handed(G, EntitlementOf(<<"default", Parent[p]>>, cap), EntitlementOf(<<"default", p>>, cap))

LockIn(G, w) ==
  LockFact(Home[w]) \in always => \A cap \in DOMAIN Slugs.workbook \cap DOMAIN Slugs.default :
    Handed(G, EntitlementOf(<<"default", Home[w]>>, cap), EntitlementOf(<<"workbook", w>>, cap))

TabsIn(G, v) ==
  TabsFact(Book[v]) \in always => \A cap \in DOMAIN Slugs.view \cap DOMAIN Slugs.workbook :
    Handed(G, EntitlementOf(<<"workbook", Book[v]>>, cap), EntitlementOf(<<"view", v>>, cap))

\* What has been asked for is there.
OwnCount(place) == place[1] = "view" => TabsFact(Book[place[2]]) \notin ever

CollectedOK ==
  phase # "list" =>
    /\ \A h \in Groups : Members(h) \notin todo => MembersIn(grants, h)
    /\ \A place \in Listed \ todo : OwnCount(place) => RulesIn(grants, place)
    /\ \A p \in Projects : <<"default", p>> \notin todo => NestingIn(grants, p)
    /\ \A w \in Workbooks : Home[w] # "none" /\ <<"default", Home[w]>> \notin todo => LockIn(grants, w)
    /\ \A v \in Views : <<"view", v>> \in Listed \ todo => TabsIn(grants, v)

Held(e, to) == \E g \in grants : g.on = e /\ g.to = to

\* The expansion begins with all edges, reduces an entitlement after those it is derived
\* from, and then it has what they have.
ReducedOK ==
  /\ phase \in {"list", "grants"} => edges = {} /\ reduced = {}
  /\ phase \in {"expand", "done"} =>
       /\ todo = {}
       /\ \A g \in grants : \A e \in g.via :
            [from |-> e.from, shallow |-> e.shallow, into |-> g.on] \in edges
  /\ \A d \in edges : d.into \in reduced =>
       /\ d.from \in reduced
       /\ \A g \in grants : g.on = d.from /\ (d.shallow => Direct(g)) => Held(d.into, g.to)
  /\ phase = "done" => Nodes \subseteq reduced

CompleteInv == IInv /\ CollectedOK /\ ReducedOK
-----------------------------------------------------------------------------
\* Grants that are kept, or merged, keep what was collected.
LEMMA CollectedStays ==
  ASSUME CollectedOK, phase # "list", todo' \subseteq todo,
         ever \subseteq ever', always' \subseteq always,
         \A g \in grants : \E m \in grants' :
           m.on = g.on /\ m.to = g.to /\ m.via = g.via /\ (Direct(g) => Direct(m))
  PROVE  /\ \A h \in Groups : Members(h) \notin todo => MembersIn(grants, h)'
         /\ \A place \in Listed \ todo : OwnCount(place)' => RulesIn(grants, place)'
         /\ \A p \in Projects : <<"default", p>> \notin todo => NestingIn(grants, p)'
         /\ \A w \in Workbooks : Home[w] # "none" /\ <<"default", Home[w]>> \notin todo
              => LockIn(grants, w)'
         /\ \A v \in Views : <<"view", v>> \in Listed \ todo => TabsIn(grants, v)'
<1>1. \A from, into : Handed(grants, from, into) => Handed(grants', from, into)
  BY DEF Handed
<1>2. \A h \in Groups : Members(h) \notin todo => MembersIn(grants, h)'
  BY DEF CollectedOK, MembersIn
<1>3. \A place \in Listed \ todo : OwnCount(place)' => RulesIn(grants, place)'
  <2> SUFFICES ASSUME NEW place \in Listed \ todo, OwnCount(place)',
                      NEW to \in Principals, NEW cap \in DOMAIN Slugs[place[1]],
                      RuleFact(place, to, cap, "Allow") \in always'
               PROVE  \E g \in grants' : /\ g.on = EntitlementOf(place, cap) /\ g.to = to /\ Direct(g)
                                         /\ toMembers(to) \subseteq g.via
    BY DEF RulesIn
  <2>1. OwnCount(place)
    BY DEF OwnCount
  <2>2. PICK g \in grants : /\ g.on = EntitlementOf(place, cap) /\ g.to = to /\ Direct(g)
                            /\ toMembers(to) \subseteq g.via
    BY <2>1 DEF CollectedOK, RulesIn
  <2> QED
    BY <2>2
<1>4. \A p \in Projects : <<"default", p>> \notin todo => NestingIn(grants, p)'
  BY <1>1 DEF CollectedOK, NestingIn
<1>5. \A w \in Workbooks : Home[w] # "none" /\ <<"default", Home[w]>> \notin todo => LockIn(grants, w)'
  BY <1>1 DEF CollectedOK, LockIn
<1>6. \A v \in Views : <<"view", v>> \in Listed \ todo => TabsIn(grants, v)'
  BY <1>1 DEF CollectedOK, TabsIn
<1> QED
  BY <1>2, <1>3, <1>4, <1>5, <1>6

\* A Grants call collects what the URLs it asks for tell.
LEMMA CollectsAll ==
  ASSUME CompleteInv, phase = "grants", phase' = "grants", NEW urls, NEW new, todo' = todo \ urls,
         grants' = grants \cup new, UNCHANGED <<ever, always, edges, reduced>>,
         \A h \in Groups : Members(h) \in urls => MembersIn(new, h),
         \A place \in Listed \cap urls : OwnCount(place) => RulesIn(new, place),
         \A p \in Projects : <<"default", p>> \in urls => NestingIn(new, p),
         \A w \in Workbooks : Home[w] # "none" /\ <<"default", Home[w]>> \in urls => LockIn(new, w),
         \A v \in Views : <<"view", v>> \in Listed \cap urls => TabsIn(new, v)
  PROVE  CollectedOK' /\ ReducedOK'
<1>1. \A g \in grants : \E m \in grants' :
        m.on = g.on /\ m.to = g.to /\ m.via = g.via /\ (Direct(g) => Direct(m))
  OBVIOUS
<1>2. /\ \A h \in Groups : Members(h) \notin todo => MembersIn(grants, h)'
      /\ \A place \in Listed \ todo : OwnCount(place)' => RulesIn(grants, place)'
      /\ \A p \in Projects : <<"default", p>> \notin todo => NestingIn(grants, p)'
      /\ \A w \in Workbooks : Home[w] # "none" /\ <<"default", Home[w]>> \notin todo
           => LockIn(grants, w)'
      /\ \A v \in Views : <<"view", v>> \in Listed \ todo => TabsIn(grants, v)'
  BY <1>1, CollectedStays DEF CompleteInv
<1>3. \A from, into : Handed(new, from, into) => Handed(grants', from, into)
  BY DEF Handed
<1>4. \A h \in Groups : MembersIn(new, h) => MembersIn(grants, h)'
  BY DEF MembersIn
<1>5. \A place \in Listed : OwnCount(place)' = OwnCount(place)
                             /\ (RulesIn(new, place) => RulesIn(grants, place)')
  BY DEF OwnCount, RulesIn
<1>6. /\ \A p \in Projects : NestingIn(new, p) => NestingIn(grants, p)'
      /\ \A w \in Workbooks : LockIn(new, w) => LockIn(grants, w)'
      /\ \A v \in Views : TabsIn(new, v) => TabsIn(grants, v)'
  BY <1>3 DEF NestingIn, LockIn, TabsIn
<1>7. CollectedOK'
  BY <1>2, <1>4, <1>5, <1>6 DEF CollectedOK
<1>8. ReducedOK'
  BY DEF CompleteInv, ReducedOK
<1> QED
  BY <1>7, <1>8

LEMMA NewIsDirect ==
  ASSUME NEW on, NEW to, NEW via
  PROVE  /\ NewGrant(on, to, via).on = on /\ NewGrant(on, to, via).to = to
         /\ NewGrant(on, to, via).via = via /\ Direct(NewGrant(on, to, via))
BY DEF NewGrant, Direct

LEMMA OwnGrantsCollected ==
  ASSUME CompleteInv, NEW place \in Listed
  PROVE  RulesIn(ownGrants(place), place)
<1> SUFFICES ASSUME NEW to \in Principals, NEW cap \in DOMAIN Slugs[place[1]],
                    RuleFact(place, to, cap, "Allow") \in always
             PROVE  \E g \in ownGrants(place) :
                      /\ g.on = EntitlementOf(place, cap) /\ g.to = to /\ Direct(g)
                      /\ toMembers(to) \subseteq g.via
  BY DEF RulesIn
<1> DEFINE f == RuleFact(place, to, cap, "Allow")
           g == NewGrant(EntitlementOf(place, cap), to, toMembers(to))
<1>1. f.at = place /\ f.to = to /\ f.cap = cap /\ f.mode = "Allow"
  BY DEF RuleFact
<1>2. f \in Response(place)
  BY <1>1, ResponseFacts DEF CompleteInv, IInv, At
<1>3. g = NewGrant(Entitlement(Resource(place), Slugs[place[1]][f.cap]), f.to, toMembers(f.to))
  BY <1>1 DEF EntitlementOf
<1>4. f \in {s \in Response(place) : s.mode = "Allow" /\ s.cap \in DOMAIN Slugs[place[1]]}
  BY <1>1, <1>2
<1>5. g \in ownGrants(place)
  <2> HIDE DEF f, g
  <2> QED
    BY <1>3, <1>4 DEF ownGrants, grantsFromCapabilities
<1>6. g.on = EntitlementOf(place, cap) /\ g.to = to /\ g.via = toMembers(to) /\ Direct(g)
  BY NewIsDirect
<1> HIDE DEF g
<1> QED
  BY <1>5, <1>6
LEMMA MoreRules ==
  ASSUME NEW G, NEW H, G \subseteq H, NEW place, RulesIn(G, place)
  PROVE  RulesIn(H, place)
BY DEF RulesIn

LEMMA MembersCollected ==
  ASSUME CompleteInv, NEW h \in Groups
  PROVE  MembersIn(memberGrants(h, Response(Members(h))), h)
<1> SUFFICES ASSUME NEW u \in Users, MemberFact(h, u, "other") \in always
             PROVE  \E g \in memberGrants(h, Response(Members(h))) :
                      g.on = Member(h) /\ g.to = <<"user", u>> /\ Direct(g)
  BY DEF MembersIn
<1> DEFINE f == MemberFact(h, u, "other")
           g == NewGrant(Member(h), <<"user", f.user>>, {})
<1>1. f.at = Members(h) /\ f.user = u /\ f.role = "other"
  BY DEF MemberFact
<1>2. f \in Response(Members(h))
  BY <1>1, ResponseFacts DEF CompleteInv, IInv, At
<1>3. f \in {m \in Response(Members(h)) : m.role # "ServerAdministrator"}
  BY <1>1, <1>2
<1>4. g \in memberGrants(h, Response(Members(h)))
  <2> HIDE DEF f
  <2> QED
    BY <1>3 DEF memberGrants
<1>5. g.on = Member(h) /\ g.to = <<"user", u>> /\ Direct(g)
  BY <1>1, NewIsDirect
<1> HIDE DEF g
<1> QED
  BY <1>4, <1>5

LEMMA InheritedIsHanded ==
  ASSUME NEW resource, NEW parent, NEW own, NEW theirs, NEW cap \in DOMAIN own \cap DOMAIN theirs
  PROVE  Handed(inheritedGrants(resource, parent, own, theirs),
                Entitlement(parent, theirs[cap]), Entitlement(resource, own[cap]))
<1> DEFINE e == Edge(Entitlement(parent, theirs[cap]), FALSE)
           g == NewGrant(Entitlement(resource, own[cap]), parent, {e})
<1>1. g \in inheritedGrants(resource, parent, own, theirs)
  BY DEF inheritedGrants
<1>2. g.on = Entitlement(resource, own[cap]) /\ g.via = {e}
  BY DEF NewGrant
<1>3. e \in g.via
  BY <1>2
<1> HIDE DEF g
<1> QED
  BY <1>1, <1>2, <1>3 DEF Handed

LEMMA MoreIsHanded ==
  ASSUME NEW G, NEW H, G \subseteq H, NEW from, NEW into, Handed(G, from, into)
  PROVE  Handed(H, from, into)
BY DEF Handed

LEMMA ProjectsCollected ==
  ASSUME CompleteInv, phase = "grants", NEW p \in Projects
  PROVE  /\ NestingIn(handedDown(p), p)
         /\ \A w \in Workbooks : Home[w] = p => LockIn(handedDown(p), w)
<1>1. NestingIn(handedDown(p), p)
  <2> SUFFICES ASSUME Parent[p] # "none", NEW cap \in DOMAIN Slugs.default
               PROVE  Handed(handedDown(p), EntitlementOf(<<"default", Parent[p]>>, cap),
                             EntitlementOf(<<"default", p>>, cap))
    BY DEF NestingIn
  <2> DEFINE new == inheritedGrants(<<"project", p>>, <<"project", Parent[p]>>,
                                    Slugs.default, Slugs.default)
  <2>1. /\ EntitlementOf(<<"default", Parent[p]>>, cap)
             = Entitlement(<<"project", Parent[p]>>, Slugs.default[cap])
        /\ EntitlementOf(<<"default", p>>, cap) = Entitlement(<<"project", p>>, Slugs.default[cap])
    BY DEF EntitlementOf, Resource
  <2>2. Handed(new, Entitlement(<<"project", Parent[p]>>, Slugs.default[cap]),
               Entitlement(<<"project", p>>, Slugs.default[cap]))
    BY InheritedIsHanded
  <2>3. new \subseteq handedDown(p)
    <3> HIDE DEF new
    <3> QED
      BY DEF handedDown, new
  <2> HIDE DEF new
  <2> QED
    BY <2>1, <2>2, <2>3, MoreIsHanded
<1>2. ASSUME NEW w \in Workbooks, Home[w] = p PROVE LockIn(handedDown(p), w)
  <2> SUFFICES ASSUME LockFact(p) \in always, NEW cap \in DOMAIN Slugs.workbook \cap DOMAIN Slugs.default
               PROVE  Handed(handedDown(p), EntitlementOf(<<"default", p>>, cap),
                             EntitlementOf(<<"workbook", w>>, cap))
    BY <1>2 DEF LockIn
  <2> DEFINE new == inheritedGrants(<<"workbook", w>>, <<"project", p>>, Slugs.workbook, Slugs.default)
  <2>1. /\ EntitlementOf(<<"default", p>>, cap) = Entitlement(<<"project", p>>, Slugs.default[cap])
        /\ EntitlementOf(<<"workbook", w>>, cap) = Entitlement(<<"workbook", w>>, Slugs.workbook[cap])
    BY DEF EntitlementOf, Resource
  <2>2. Handed(new, Entitlement(<<"project", p>>, Slugs.default[cap]),
               Entitlement(<<"workbook", w>>, Slugs.workbook[cap]))
    BY InheritedIsHanded
  <2>3. Locked(p)
    <3>1. LockFact(p).at = ProjectList
      BY DEF LockFact
    <3> QED
      BY <3>1 DEF CompleteInv, IInv, CacheOK, Locked, At
  <2>4. w \in {v \in Workbooks : Home[v] = p /\ Locked(p)}
    BY <1>2, <2>3
  <2>5. new \subseteq UNION {inheritedGrants(<<"workbook", v>>, <<"project", p>>, Slugs.workbook,
                                             Slugs.default) :
                               v \in {v \in Workbooks : Home[v] = p /\ Locked(p)}}
    BY <2>4
  <2>6. new \subseteq handedDown(p)
    <3> HIDE DEF new
    <3> QED
      BY <2>5 DEF handedDown
  <2> HIDE DEF new
  <2> QED
    BY <2>1, <2>2, <2>6, MoreIsHanded
<1> QED
  BY <1>1, <1>2
-----------------------------------------------------------------------------
\* URLs of different kinds differ.
LEMMA DifferentURLs ==
  /\ \A h \in Groups : Members(h) \notin Listed
  /\ \A g, h \in Groups : Members(g) = Members(h) => g = h
<1>1. \A h \in Groups : Members(h)[1] = "members" /\ Members(h)[2] = h
  BY DEF Members
<1>2. \A place \in Listed : place[1] # "members"
  BY PlaceFacts, Tables DEF Listed
<1> QED
  BY <1>1, <1>2

LEMMA InitComplete == Init => CompleteInv
<1>1. Init => CollectedOK /\ ReducedOK
  BY DEF Init, CollectedOK, ReducedOK
<1> QED
  BY <1>1, InitStep DEF CompleteInv

LEMMA ListComplete == CompleteInv /\ List => CollectedOK' /\ ReducedOK'
<1> SUFFICES ASSUME CompleteInv, List PROVE CollectedOK' /\ ReducedOK'
  OBVIOUS
<1>1. /\ phase = "list" /\ phase' = "grants" /\ todo' = Listed \cup {Members(g) : g \in Groups}
      /\ UNCHANGED <<grants, edges, reduced, ever, always>>
  BY DEF List
<1>2. \A p \in Projects : <<"default", p>> \in todo'
  BY <1>1, PlacesListed
<1>3. \A w \in Workbooks : Home[w] # "none" => <<"default", Home[w]>> \in todo'
  BY <1>2, PlacesListed
<1>4. CollectedOK'
  BY <1>1, <1>2, <1>3 DEF CollectedOK
<1>5. ReducedOK'
  BY <1>1 DEF CompleteInv, ReducedOK
<1> QED
  BY <1>4, <1>5

LEMMA GroupGrantsComplete ==
  ASSUME CompleteInv, NEW g \in Groups, GroupGrants(g)
  PROVE  CollectedOK' /\ ReducedOK'
<1> DEFINE new == memberGrants(g, Response(Members(g)))
<1>1. /\ phase = "grants" /\ phase' = "grants" /\ todo' = todo \ {Members(g)}
      /\ grants' = grants \cup new
      /\ UNCHANGED <<ever, always, edges, reduced>>
  BY DEF GroupGrants, Collect
<1>2. \A h \in Groups : Members(h) \in {Members(g)} => MembersIn(new, h)
  BY DifferentURLs, MembersCollected
<1>3. /\ \A place \in Listed : place # Members(g)
      /\ \A p \in Projects : <<"default", p>> # Members(g)
      /\ \A w \in Workbooks : Home[w] # "none" => <<"default", Home[w]>> # Members(g)
  BY DifferentURLs, PlacesListed
<1> HIDE DEF new
<1> QED
  BY <1>1, <1>2, <1>3, CollectsAll

LEMMA ProjectGrantsComplete ==
  ASSUME CompleteInv, NEW p \in Projects, ProjectGrants(p)
  PROVE  CollectedOK' /\ ReducedOK'
<1> DEFINE own == ownGrants(<<"project", p>>)
           defaults == ownGrants(<<"default", p>>)
           new == own \cup defaults \cup handedDown(p)
           urls == {<<"project", p>>, <<"default", p>>}
<1>1. /\ phase = "grants" /\ phase' = "grants" /\ todo' = todo \ urls
      /\ grants' = grants \cup new
      /\ UNCHANGED <<ever, always, edges, reduced>>
  BY DEF ProjectGrants, Collect
<1>2. <<"project", p>> \in Listed /\ <<"default", p>> \in Listed
  BY PlacesListed
<1>3. RulesIn(own, <<"project", p>>) /\ RulesIn(defaults, <<"default", p>>)
  BY <1>2, OwnGrantsCollected
<1> HIDE DEF own, defaults
<1>4. RulesIn(new, <<"project", p>>) /\ RulesIn(new, <<"default", p>>)
  BY <1>3, MoreRules
<1>5. \A from, into : Handed(handedDown(p), from, into) => Handed(new, from, into)
  BY MoreIsHanded
<1>6. /\ NestingIn(new, p)
      /\ \A w \in Workbooks : Home[w] = p => LockIn(new, w)
  <2> HIDE DEF new
  <2> QED
    BY <1>1, <1>5, ProjectsCollected DEF NestingIn, LockIn
<1>7. \A h \in Groups : Members(h) \notin urls
  BY <1>2, DifferentURLs
<1>8. \A place \in Listed \cap urls : RulesIn(new, place)
  BY <1>4
<1>9. /\ \A q \in Projects : <<"default", q>> \in urls => q = p
      /\ \A w \in Workbooks : <<"default", Home[w]>> \in urls => Home[w] = p
      /\ \A v \in Views : <<"view", v>> \notin urls
  OBVIOUS
<1> HIDE DEF new, urls
<1> QED
  BY <1>1, <1>6, <1>7, <1>8, <1>9, CollectsAll

LEMMA WorkbookGrantsComplete ==
  ASSUME CompleteInv, NEW w \in Workbooks, WorkbookGrants(w)
  PROVE  CollectedOK' /\ ReducedOK'
<1> DEFINE book == <<"workbook", w>>
           new == ownGrants(book)
           urls == {book}
<1>1. /\ phase = "grants" /\ phase' = "grants" /\ todo' = todo \ urls /\ book \in todo
      /\ grants' = grants \cup new
      /\ UNCHANGED <<ever, always, edges, reduced>>
  BY DEF WorkbookGrants, Collect
<1>2. book \in Listed
  BY <1>1, AskedForIsListed DEF CompleteInv, IInv, Places
<1>3. \A place \in Listed \cap urls : RulesIn(new, place)
  BY <1>2, OwnGrantsCollected
<1>4. \A h \in Groups : Members(h) \notin urls
  BY <1>2, DifferentURLs
<1>5. /\ \A q \in Projects : <<"default", q>> \notin urls
      /\ \A v \in Workbooks : <<"default", Home[v]>> \notin urls
      /\ \A v \in Views : <<"view", v>> \notin urls
  OBVIOUS
<1> HIDE DEF new, urls
<1> QED
  BY <1>1, <1>3, <1>4, <1>5, CollectsAll

LEMMA OwnViewGrantsComplete ==
  ASSUME CompleteInv, NEW v \in Views, OwnViewGrants(v)
  PROVE  CollectedOK' /\ ReducedOK'
<1> DEFINE view == <<"view", v>>
           new == ownGrants(view)
           urls == {view}
<1>1. /\ phase = "grants" /\ phase' = "grants" /\ todo' = todo \ urls /\ view \in todo
      /\ grants' = grants \cup new
      /\ Details(Book[v]) \in DOMAIN cache /\ ~ShowTabs(v)
      /\ UNCHANGED <<ever, always, edges, reduced>>
  BY DEF OwnViewGrants, Collect
<1>2. view \in Listed /\ TabsFact(Book[v]) \notin always
  BY <1>1, AskedForIsListed, TabsFacts DEF CompleteInv, IInv, Places
<1>3. \A place \in Listed \cap urls : RulesIn(new, place)
  BY <1>2, OwnGrantsCollected
<1>4. \A h \in Groups : Members(h) \notin urls
  BY <1>2, DifferentURLs
<1>5. /\ \A q \in Projects : <<"default", q>> \notin urls
      /\ \A w \in Workbooks : <<"default", Home[w]>> \notin urls
      /\ \A x \in Views : <<"view", x>> \in urls => x = v
  OBVIOUS
<1>6. TabsIn(new, v)
  BY <1>2 DEF TabsIn
<1> HIDE DEF new, urls
<1> QED
  BY <1>1, <1>3, <1>4, <1>5, <1>6, CollectsAll

LEMMA InheritedViewGrantsComplete ==
  ASSUME CompleteInv, NEW v \in Views, InheritedViewGrants(v)
  PROVE  CollectedOK' /\ ReducedOK'
<1> DEFINE view == <<"view", v>>
           new == inheritedGrants(view, <<"workbook", Book[v]>>, Slugs.view, Slugs.workbook)
           urls == {view}
<1>1. /\ phase = "grants" /\ phase' = "grants" /\ todo' = todo \ urls /\ view \in todo
      /\ grants' = grants \cup new
      /\ Details(Book[v]) \in DOMAIN cache /\ ShowTabs(v)
      /\ UNCHANGED <<ever, always, edges, reduced>>
  BY DEF InheritedViewGrants
<1>2. view \in Listed /\ TabsFact(Book[v]) \in ever
  BY <1>1, AskedForIsListed, TabsFacts DEF CompleteInv, IInv, Places
<1>3. \A place \in Listed \cap urls : OwnCount(place) => RulesIn(new, place)
  BY <1>2 DEF OwnCount
<1>4. \A h \in Groups : Members(h) \notin urls
  BY <1>2, DifferentURLs
<1>5. /\ \A q \in Projects : <<"default", q>> \notin urls
      /\ \A w \in Workbooks : <<"default", Home[w]>> \notin urls
      /\ \A x \in Views : <<"view", x>> \in urls => x = v
  OBVIOUS
<1>6. TabsIn(new, v)
  <2> SUFFICES ASSUME NEW cap \in DOMAIN Slugs.view \cap DOMAIN Slugs.workbook
               PROVE  Handed(new, EntitlementOf(<<"workbook", Book[v]>>, cap),
                             EntitlementOf(<<"view", v>>, cap))
    BY DEF TabsIn
  <2>1. /\ EntitlementOf(<<"workbook", Book[v]>>, cap)
             = Entitlement(<<"workbook", Book[v]>>, Slugs.workbook[cap])
        /\ EntitlementOf(<<"view", v>>, cap) = Entitlement(<<"view", v>>, Slugs.view[cap])
    BY DEF EntitlementOf, Resource
  <2> QED
    BY <2>1, InheritedIsHanded
<1> HIDE DEF new, urls
<1> QED
  BY <1>1, <1>3, <1>4, <1>5, <1>6, CollectsAll

\* Nothing is asked for.
LEMMA StillCollected ==
  ASSUME CollectedOK, todo' = todo, phase' # "list" => phase # "list",
         ever \subseteq ever', always' \subseteq always,
         \A g \in grants : \E m \in grants' :
           m.on = g.on /\ m.to = g.to /\ m.via = g.via /\ (Direct(g) => Direct(m))
  PROVE  CollectedOK'
<1>1. CASE phase = "list"
  BY <1>1 DEF CollectedOK
<1>2. CASE phase # "list"
  <2>1. /\ \A h \in Groups : Members(h) \notin todo => MembersIn(grants, h)'
        /\ \A place \in Listed \ todo : OwnCount(place)' => RulesIn(grants, place)'
        /\ \A p \in Projects : <<"default", p>> \notin todo => NestingIn(grants, p)'
        /\ \A w \in Workbooks : Home[w] # "none" /\ <<"default", Home[w]>> \notin todo
             => LockIn(grants, w)'
        /\ \A v \in Views : <<"view", v>> \in Listed \ todo => TabsIn(grants, v)'
    BY <1>2, CollectedStays
  <2> QED
    BY <2>1 DEF CollectedOK
<1> QED
  BY <1>1, <1>2

\* Nothing of the sync changes.
LEMMA KeepComplete ==
  ASSUME CompleteInv, UNCHANGED <<phase, todo, grants, edges, reduced>>,
         ever \subseteq ever', always' \subseteq always
  PROVE  CollectedOK' /\ ReducedOK'
<1>1. \A g \in grants : \E m \in grants' :
        m.on = g.on /\ m.to = g.to /\ m.via = g.via /\ (Direct(g) => Direct(m))
  OBVIOUS
<1>2. CollectedOK'
  BY <1>1, StillCollected DEF CompleteInv
<1>3. ReducedOK'
  BY DEF CompleteInv, ReducedOK, Held, Nodes
<1> QED
  BY <1>2, <1>3

\* Nothing is there yet.
LEMMA AnewComplete ==
  ASSUME phase' = "list", edges' = {}, reduced' = {}
  PROVE  CollectedOK' /\ ReducedOK'
BY DEF CollectedOK, ReducedOK

LEMMA ExpandComplete == CompleteInv /\ Expand => CollectedOK' /\ ReducedOK'
<1> SUFFICES ASSUME CompleteInv, Expand PROVE CollectedOK' /\ ReducedOK'
  OBVIOUS
<1>1. /\ phase = "grants" /\ phase' = "expand" /\ edges' = Edges /\ todo = {} /\ reduced = {}
      /\ UNCHANGED <<todo, grants, reduced, ever, always>>
  BY DEF Expand, CompleteInv, ReducedOK
<1>2. \A g \in grants : \A e \in g.via :
        [from |-> e.from, shallow |-> e.shallow, into |-> g.on] \in Edges
  BY DEF Edges
<1>3. ReducedOK'
  BY <1>1, <1>2 DEF ReducedOK
<1>4. \A g \in grants : \E m \in grants' :
        m.on = g.on /\ m.to = g.to /\ m.via = g.via /\ (Direct(g) => Direct(m))
  BY <1>1
<1>5. CollectedOK'
  BY <1>1, <1>4, StillCollected DEF CompleteInv
<1> QED
  BY <1>3, <1>5

\* What a merge keeps, and what it leaves alone.
LEMMA MergedFacts ==
  ASSUME NEW flow, NEW g, Sound(g)
  PROVE  /\ Merged(flow, g).on = g.on /\ Merged(flow, g).to = g.to /\ Merged(flow, g).via = g.via
         /\ Direct(g) => Direct(Merged(flow, g))
         /\ (\A c \in flow : c[2] # g.on) => Merged(flow, g) = g
<1> DEFINE src == Sources(flow, g.on, g.to)
<1>1. (\A c \in flow : c[2] # g.on) => src = {}
  BY DEF Sources
<1> HIDE DEF src
<1>2. Merged(flow, g) = IF src = {} THEN g
                        ELSE [g EXCEPT !.src = src \cup (IF g.src = {} THEN {g.on} ELSE g.src)]
  BY DEF Merged, src
<1> QED
  BY <1>1, <1>2 DEF Sound, Direct

LEMMA ExpandLayerComplete == CompleteInv /\ ExpandLayer => CollectedOK' /\ ReducedOK'
<1> SUFFICES ASSUME CompleteInv, ExpandLayer PROVE CollectedOK' /\ ReducedOK'
  OBVIOUS
<1> DEFINE ready == Ready
           flow == Contributions(ready)
           unheld == {<<c[2], c[3]>> : c \in flow} \ {<<g.on, g.to>> : g \in grants}
<1>1. /\ phase = "expand"
      /\ grants' = {Merged(flow, g) : g \in grants} \cup {Derived(flow, c[1], c[2]) : c \in unheld}
      /\ reduced' = reduced \cup ready
      /\ UNCHANGED <<phase, todo, edges, ever, always>>
  BY DEF ExpandLayer
<1>2. /\ ready \cap reduced = {}
      /\ \A d \in edges : d.into \in ready => d.from \in reduced
  BY DEF Ready
<1> HIDE DEF ready
<1>3. ASSUME NEW c \in flow
      PROVE  \E d \in edges, h \in grants :
               /\ d.into \in ready /\ h.on = d.from /\ (d.shallow => Direct(h))
               /\ c = <<h.on, d.into, h.to>>
  BY FlowFacts
<1>4. \A d \in edges, h \in grants :
        d.into \in ready /\ h.on = d.from /\ (d.shallow => Direct(h))
          => <<h.on, d.into, h.to>> \in flow
  BY DEF Contributions
<1>5. \A c \in flow : c[2] \in ready
  BY <1>3
<1> HIDE DEF flow
<1>6. \A c \in unheld : c[1] \in ready
  BY <1>5
<1>7. ASSUME NEW g \in grants
      PROVE  /\ Merged(flow, g) \in grants'
             /\ Merged(flow, g).on = g.on /\ Merged(flow, g).to = g.to /\ Merged(flow, g).via = g.via
             /\ Direct(g) => Direct(Merged(flow, g))
             /\ g.on \in reduced => Merged(flow, g) = g
  BY <1>1, <1>2, <1>5, MergedFacts DEF CompleteInv, IInv, GrantsOK
<1>8. \A e, to : Derived(flow, e, to).on = e /\ Derived(flow, e, to).to = to
                  /\ Derived(flow, e, to).via = {}
  BY DEF Derived
<1>9. ASSUME NEW k \in grants', k.on \in reduced PROVE k \in grants
  <2>1. CASE \E g \in grants : k = Merged(flow, g)
    BY <1>7, <1>9, <2>1
  <2>2. CASE \E c \in unheld : k = Derived(flow, c[1], c[2])
    BY <1>2, <1>6, <1>8, <1>9, <2>2
  <2> QED
    BY <1>1, <2>1, <2>2
<1>10. \A e, to : Held(e, to) => Held(e, to)'
  BY <1>7 DEF Held
<1>11. ASSUME NEW d \in edges, d.into \in reduced'
       PROVE  /\ d.from \in reduced
              /\ \A k \in grants' : k.on = d.from /\ (d.shallow => Direct(k)) => Held(d.into, k.to)'
  <2>1. d.from \in reduced
    BY <1>1, <1>2, <1>11 DEF CompleteInv, ReducedOK
  <2>2. ASSUME NEW k \in grants', k.on = d.from, d.shallow => Direct(k)
        PROVE  Held(d.into, k.to)'
    <3>1. k \in grants
      BY <1>9, <2>1, <2>2
    <3>2. CASE d.into \in reduced
      BY <1>10, <2>2, <3>1, <3>2 DEF CompleteInv, ReducedOK
    <3>3. CASE d.into \in ready
      <4>1. <<k.on, d.into, k.to>> \in flow
        BY <1>4, <2>2, <3>1, <3>3
      <4>2. CASE <<d.into, k.to>> \in unheld
        <5>1. PICK c \in unheld : c = <<d.into, k.to>>
          BY <4>2
        <5>2. Derived(flow, c[1], c[2]) \in grants'
          BY <1>1
        <5> QED
          BY <1>8, <5>1, <5>2 DEF Held
      <4>3. CASE <<d.into, k.to>> \notin unheld
        <5>1. <<d.into, k.to>> \in {<<c[2], c[3]>> : c \in flow}
          BY <4>1
        <5>2. \E g \in grants : <<d.into, k.to>> = <<g.on, g.to>>
          BY <4>3, <5>1
        <5>3. Held(d.into, k.to)
          BY <5>2 DEF Held
        <5> QED
          BY <1>10, <5>3
      <4> QED
        BY <4>2, <4>3
    <3> QED
      BY <1>1, <1>11, <3>2, <3>3
  <2> QED
    BY <2>1, <2>2
<1>12. \A k \in grants' : \A e \in k.via :
         [from |-> e.from, shallow |-> e.shallow, into |-> k.on] \in edges
  <2> SUFFICES ASSUME NEW k \in grants', NEW e \in k.via
               PROVE  [from |-> e.from, shallow |-> e.shallow, into |-> k.on] \in edges
    OBVIOUS
  <2>1. PICK g \in grants : k = Merged(flow, g)
    BY <1>1, <1>8
  <2> QED
    BY <1>1, <1>7, <2>1 DEF CompleteInv, ReducedOK
<1>13. ReducedOK'
  BY <1>1, <1>11, <1>12 DEF CompleteInv, ReducedOK
<1>14. \A g \in grants : \E m \in grants' :
         m.on = g.on /\ m.to = g.to /\ m.via = g.via /\ (Direct(g) => Direct(m))
  BY <1>7
<1>15. CollectedOK'
  BY <1>1, <1>14, StillCollected DEF CompleteInv
<1> QED
  BY <1>13, <1>15
-----------------------------------------------------------------------------
\* Where the edges into the entitlement of a permission come from.
LEMMA EdgesFrom ==
  ASSUME NEW place \in Listed, NEW cap \in DOMAIN Slugs[place[1]],
         NEW from, EdgeOK(from, EntitlementOf(place, cap))
  PROVE  \/ \E h \in Groups : from = Member(h)
         \/ /\ place[1] = "default" /\ Parent[place[2]] # "none"
            /\ from = EntitlementOf(<<"default", Parent[place[2]]>>, cap)
         \/ /\ place[1] = "workbook" /\ cap \in DOMAIN Slugs.default
            /\ from = EntitlementOf(<<"default", Home[place[2]]>>, cap)
         \/ /\ place[1] = "view" /\ cap \in DOMAIN Slugs.workbook
            /\ from = EntitlementOf(<<"workbook", Book[place[2]]>>, cap)
<1> DEFINE into == EntitlementOf(place, cap)
<1>0. \A q \in Listed : \A d \in DOMAIN Slugs[q[1]] : into = EntitlementOf(q, d) => place = q /\ cap = d
  BY SameEntitlement DEF Listed
<1> HIDE DEF into
<1>1. CASE FromGroup(from, into)
  BY <1>1 DEF FromGroup
<1>2. CASE FromProject(from, into)
  <2>1. PICK p \in Projects, d \in DOMAIN Slugs.default :
          /\ Parent[p] # "none"
          /\ from = EntitlementOf(<<"default", Parent[p]>>, d)
          /\ into = EntitlementOf(<<"default", p>>, d)
    BY <1>2 DEF FromProject
  <2>2. <<"default", p>> \in Listed /\ <<"default", p>>[1] = "default" /\ <<"default", p>>[2] = p
    BY PlacesListed
  <2>3. place = <<"default", p>> /\ cap = d
    BY <1>0, <2>1, <2>2
  <2> QED
    BY <2>1, <2>3
<1>3. CASE FromLocked(from, into)
  <2>1. PICK w \in Workbooks, d \in DOMAIN Slugs.workbook \cap DOMAIN Slugs.default :
          /\ Home[w] # "none"
          /\ from = EntitlementOf(<<"default", Home[w]>>, d)
          /\ into = EntitlementOf(<<"workbook", w>>, d)
    BY <1>3 DEF FromLocked
  <2>2. <<"workbook", w>> \in Listed /\ <<"workbook", w>>[1] = "workbook"
    BY <2>1, PlacesListed
  <2>3. place = <<"workbook", w>> /\ cap = d
    BY <1>0, <2>1, <2>2
  <2> QED
    BY <2>1, <2>3
<1>4. CASE FromWorkbook(from, into)
  <2>1. PICK v \in Views, d \in DOMAIN Slugs.view \cap DOMAIN Slugs.workbook :
          /\ <<"view", v>> \in Listed
          /\ from = EntitlementOf(<<"workbook", Book[v]>>, d)
          /\ into = EntitlementOf(<<"view", v>>, d)
    BY <1>4 DEF FromWorkbook
  <2>2. <<"view", v>>[1] = "view"
    OBVIOUS
  <2>3. place = <<"view", v>> /\ cap = d
    BY <1>0, <2>1, <2>2
  <2> QED
    BY <2>1, <2>3
<1> QED
  BY <1>1, <1>2, <1>3, <1>4 DEF EdgeOK, into

\* No entitlements are all derived from each other: from a view one comes to its workbook,
\* from there to the project, and the projects that a project is nested in come to an end.
LEMMA NoKnot ==
  ASSUME IInv, NEW K, \A n \in K : \E d \in edges : d.into = n /\ d.from \in K
  PROVE  K = {}
<1>1. ASSUME NEW n \in K
      PROVE  \E d \in edges : d.into = n /\ d.from \in K /\ EdgeOK(d.from, n)
  BY <1>1 DEF IInv, EdgesOK
<1>2. \A h \in Groups : Member(h) \notin K
  <2> SUFFICES ASSUME NEW h \in Groups, Member(h) \in K PROVE FALSE
    OBVIOUS
  <2>1. Member(h) \in Permissions
    BY <1>1, EdgesLeadToPermissions
  <2>2. PICK place \in Listed : \E cap \in DOMAIN Slugs[place[1]] : Member(h) = EntitlementOf(place, cap)
    BY <2>1, PermissionShape
  <2> QED
    BY <2>2, NotAMember DEF Listed
<1>3. ASSUME NEW place \in Listed, NEW cap \in DOMAIN Slugs[place[1]],
             EntitlementOf(place, cap) \in K
      PROVE  \/ /\ place[1] = "default" /\ Parent[place[2]] # "none"
                /\ EntitlementOf(<<"default", Parent[place[2]]>>, cap) \in K
             \/ /\ place[1] = "workbook" /\ cap \in DOMAIN Slugs.default
                /\ EntitlementOf(<<"default", Home[place[2]]>>, cap) \in K
             \/ /\ place[1] = "view" /\ cap \in DOMAIN Slugs.workbook
                /\ EntitlementOf(<<"workbook", Book[place[2]]>>, cap) \in K
  <2>1. PICK d \in edges : /\ d.from \in K
                           /\ EdgeOK(d.from, EntitlementOf(place, cap))
    BY <1>1, <1>3
  <2> QED
    BY <1>2, <2>1, EdgesFrom
<1>4. ASSUME NEW p \in Projects, NEW cap \in DOMAIN Slugs.default
      PROVE  EntitlementOf(<<"default", p>>, cap) \notin K
  <2> DEFINE S == {q \in Projects : EntitlementOf(<<"default", q>>, cap) \in K}
  <2>1. ASSUME NEW q \in S PROVE Parent[q] \in S
    <3>1. q \in Projects /\ <<"default", q>> \in Listed /\ <<"default", q>>[1] = "default"
          /\ <<"default", q>>[2] = q
      BY PlacesListed
    <3>2. Parent[q] # "none" /\ EntitlementOf(<<"default", Parent[q]>>, cap) \in K
      BY <1>3, <3>1
    <3> QED
      BY <3>1, <3>2, AccessAssumption
  <2>2. S = {}
    BY <2>1, AccessAssumption
  <2> QED
    BY <2>2
<1>5. ASSUME NEW w \in Workbooks, Home[w] # "none", NEW cap \in DOMAIN Slugs.workbook
      PROVE  EntitlementOf(<<"workbook", w>>, cap) \notin K
  <2>1. /\ <<"workbook", w>> \in Listed /\ <<"workbook", w>>[1] = "workbook"
        /\ <<"workbook", w>>[2] = w /\ Home[w] \in Projects
    BY <1>5, PlacesListed
  <2> QED
    BY <1>3, <1>4, <2>1
<1>6. ASSUME NEW place \in Listed, NEW cap \in DOMAIN Slugs[place[1]]
      PROVE  EntitlementOf(place, cap) \notin K
  <2>1. SUFFICES ASSUME EntitlementOf(place, cap) \in K PROVE FALSE
    OBVIOUS
  <2>2. place \in Places /\ place = <<place[1], place[2]>>
    BY PlaceFacts DEF Listed
  <2>3. CASE place[1] = "default"
    BY <1>4, <2>1, <2>2, <2>3, PlaceFacts
  <2>4. CASE place[1] = "workbook"
    <3>1. place[2] \in Workbooks /\ Home[place[2]] # "none"
      BY <2>2, <2>4, PlaceFacts DEF Listed
    <3> QED
      BY <1>5, <2>1, <2>2, <2>4, <3>1
  <2>5. CASE place[1] = "view"
    <3>1. /\ place[2] \in Views /\ Book[place[2]] \in Workbooks /\ Home[Book[place[2]]] # "none"
      BY <2>2, <2>5, PlaceFacts, AccessAssumption DEF Listed
    <3>2. cap \in DOMAIN Slugs.workbook
          /\ EntitlementOf(<<"workbook", Book[place[2]]>>, cap) \in K
      BY <1>3, <2>1, <2>5
    <3> QED
      BY <1>5, <3>1, <3>2
  <2> QED
    BY <1>3, <2>1, <2>3, <2>4, <2>5
<1>7. ASSUME NEW n \in K PROVE FALSE
  <2>1. n \in Permissions
    BY <1>1, <1>7, EdgesLeadToPermissions
  <2>2. PICK place \in Listed : \E cap \in DOMAIN Slugs[place[1]] : n = EntitlementOf(place, cap)
    BY <2>1, PermissionShape
  <2> QED
    BY <1>6, <1>7, <2>2
<1> QED
  BY <1>7

\* When nothing is ready any more, all is reduced.
LEMMA AllReduced ==
  ASSUME CompleteInv, Ready = {}
  PROVE  Nodes \subseteq reduced
<1>1. ASSUME NEW n \in Nodes \ reduced
      PROVE  \E d \in edges : d.into = n /\ d.from \in Nodes \ reduced
  <2>1. PICK d \in edges : d.from \notin reduced /\ d.into = n
    BY <1>1 DEF Ready
  <2> QED
    BY <2>1 DEF Nodes
<1> QED
  BY <1>1, NoKnot DEF CompleteInv

LEMMA FinishComplete == CompleteInv /\ Finish => CollectedOK' /\ ReducedOK'
<1> SUFFICES ASSUME CompleteInv, Finish PROVE CollectedOK' /\ ReducedOK'
  OBVIOUS
<1>1. /\ phase = "expand" /\ phase' = "done" /\ Ready = {}
      /\ UNCHANGED <<todo, grants, edges, reduced, ever, always>>
  BY DEF Finish
<1>2. Nodes \subseteq reduced
  BY <1>1, AllReduced
<1>3. ReducedOK'
  BY <1>1, <1>2 DEF CompleteInv, ReducedOK, Held, Nodes
<1>4. \A g \in grants : \E m \in grants' :
        m.on = g.on /\ m.to = g.to /\ m.via = g.via /\ (Direct(g) => Direct(m))
  BY <1>1
<1>5. CollectedOK'
  BY <1>1, <1>4, StillCollected DEF CompleteInv
<1> QED
  BY <1>3, <1>5

\* A project's default permissions are those of workbooks.
LEMMA DefaultsAreOfWorkbooks == DOMAIN Slugs.default = DOMAIN Slugs.workbook
<1>1. DOMAIN SlugsOf.default = DOMAIN SlugsOf.workbook
  BY DEF SlugsOf, projectDefaultWorkbookCapabilities, workbookCapabilities, pickCapabilities
<1> QED
  BY <1>1, SlugFacts, Tables

LEMMA CompleteStep == CompleteInv /\ [Next]_vars => CompleteInv'
<1>1. CompleteInv /\ [Next]_vars => IInv'
  BY ListStep, ExpandStep, ExpandLayerStep, FinishStep, NextSyncStep, FailStep, OutsideStep,
     GroupGrantsStep, ProjectGrantsStep, WorkbookGrantsStep, LookUpStep,
     InheritedViewGrantsStep, OwnViewGrantsStep, TaskStep, StutterStep DEF Next, CompleteInv
<1>2. CompleteInv /\ [Next]_vars => CollectedOK' /\ ReducedOK'
  <2> SUFFICES ASSUME CompleteInv, [Next]_vars PROVE CollectedOK' /\ ReducedOK'
    OBVIOUS
  <2>1. CASE NextSync \/ Fail
    BY <2>1, AnewComplete DEF NextSync, Fail
  <2>2. ASSUME NEW v \in Views, LookUp(v) PROVE CollectedOK' /\ ReducedOK'
    BY <2>2, KeepComplete DEF LookUp, sync
  <2>3. CASE Outside
    BY <2>3, KeepComplete DEF Outside, Become, sync
  <2>4. ASSUME NEW a \in Asked, NEW op, Task(a[1], a[2], op) PROVE CollectedOK' /\ ReducedOK'
    BY <2>4, KeepComplete DEF Task, Become, sync
  <2>5. CASE UNCHANGED vars
    BY <2>5, KeepComplete DEF vars, sync
  <2> QED
    BY <2>1, <2>2, <2>3, <2>4, <2>5, ListComplete, ExpandComplete, ExpandLayerComplete, FinishComplete, GroupGrantsComplete,
       ProjectGrantsComplete, WorkbookGrantsComplete, InheritedViewGrantsComplete, OwnViewGrantsComplete DEF Next
<1> QED
  BY <1>1, <1>2 DEF CompleteInv

\* The invariant that says what has been collected and how far the expansion has come.
THEOREM Completeness == Spec => []CompleteInv
BY InitComplete, CompleteStep, PTL DEF Spec
-----------------------------------------------------------------------------
\* At the end everything has flown along the edges.
LEMMA AllHasFlown ==
  ASSUME CompleteInv, phase = "done", NEW d \in edges, NEW g \in grants,
         g.on = d.from, d.shallow => Direct(g)
  PROVE  Held(d.into, g.to)
BY DEF CompleteInv, ReducedOK, Nodes

LEMMA HandedHasFlown ==
  ASSUME CompleteInv, phase = "done", NEW from, NEW into, NEW to, Handed(grants, from, into), Held(from, to)
  PROVE  Held(into, to)
<1>1. PICK g \in grants : g.on = into /\ Edge(from, FALSE) \in g.via
  BY DEF Handed
<1>2. PICK h \in grants : h.on = from /\ h.to = to
  BY DEF Held
<1> DEFINE d == [from |-> from, shallow |-> FALSE, into |-> into]
<1>3. d \in edges
  BY <1>1 DEF CompleteInv, ReducedOK, Edge
<1>4. d.from = from /\ d.into = into /\ d.shallow = FALSE
  OBVIOUS
<1> HIDE DEF d
<1> QED
  BY <1>2, <1>3, <1>4, AllHasFlown

LEMMA AllCollected ==
  ASSUME CompleteInv, phase = "done"
  PROVE  /\ \A h \in Groups : MembersIn(grants, h)
         /\ \A place \in Listed : OwnCount(place) => RulesIn(grants, place)
         /\ \A p \in Projects : NestingIn(grants, p)
         /\ \A w \in Workbooks : Home[w] # "none" => LockIn(grants, w)
         /\ \A v \in Views : <<"view", v>> \in Listed => TabsIn(grants, v)
BY DEF CompleteInv, CollectedOK, ReducedOK

LEMMA AllowedIsHeld ==
  ASSUME CompleteInv, phase = "done", NEW place \in Listed, OwnCount(place),
         NEW cap \in DOMAIN Slugs[place[1]], NEW u \in Users, Allowed(always, u, place, cap)
  PROVE  Held(EntitlementOf(place, cap), <<"user", u>>)
<1>1. RulesIn(grants, place)
  BY AllCollected
<1>2. CASE RuleFact(place, <<"user", u>>, cap, "Allow") \in always
  <2>1. <<"user", u>> \in Principals
    BY DEF Principals
  <2> QED
    BY <1>1, <1>2, <2>1 DEF RulesIn, Held
<1>3. CASE \E h \in Groups : /\ RuleFact(place, <<"group", h>>, cap, "Allow") \in always
                             /\ Belongs(always, u, h)
  <2>1. PICK h \in Groups : /\ RuleFact(place, <<"group", h>>, cap, "Allow") \in always
                            /\ Belongs(always, u, h)
    BY <1>3
  <2>2. <<"group", h>> \in Principals
    BY DEF Principals
  <2>3. PICK g \in grants : /\ g.on = EntitlementOf(place, cap)
                            /\ toMembers(<<"group", h>>) \subseteq g.via
    BY <1>1, <2>1, <2>2 DEF RulesIn
  <2>4. Edge(Member(h), TRUE) \in g.via
    BY <2>3 DEF toMembers
  <2> DEFINE d == [from |-> Member(h), shallow |-> TRUE, into |-> EntitlementOf(place, cap)]
  <2>5. d \in edges
    <3>1. Edge(Member(h), TRUE).from = Member(h) /\ Edge(Member(h), TRUE).shallow = TRUE
      BY DEF Edge
    <3> QED
      BY <2>3, <2>4, <3>1 DEF CompleteInv, ReducedOK
  <2>6. d.from = Member(h) /\ d.into = EntitlementOf(place, cap)
    OBVIOUS
  <2>7. PICK m \in grants : m.on = Member(h) /\ m.to = <<"user", u>> /\ Direct(m)
    BY <2>1, AllCollected DEF MembersIn, Belongs
  <2> HIDE DEF d
  <2> QED
    BY <2>5, <2>6, <2>7, AllHasFlown
<1> QED
  BY <1>2, <1>3 DEF Allowed

\* The capability of a rule is one that its place has.
LEMMA AllowedIsListed ==
  ASSUME CompleteInv, NEW place \in Places, NEW u, NEW cap, Allowed(always, u, place, cap)
  PROVE  cap \in DOMAIN Slugs[place[1]]
<1>1. PICK to : RuleFact(place, to, cap, "Allow") \in always
  BY DEF Allowed
<1>2. RuleFact(place, to, cap, "Allow") \in Facts
  BY <1>1 DEF CompleteInv, IInv, TypeOK
<1>3. RuleFact(place, to, cap, "Allow").at = place /\ RuleFact(place, to, cap, "Allow").cap = cap
  BY DEF RuleFact
<1> QED
  BY <1>2, <1>3, FactShapes

LEMMA ByDefaultIsHeld ==
  ASSUME CompleteInv, phase = "done", NEW p \in Projects, NEW u \in Users, NEW cap,
         ByDefault(always, u, p, cap)
  PROVE  /\ cap \in DOMAIN Slugs.default
         /\ Held(EntitlementOf(<<"default", p>>, cap), <<"user", u>>)
<1>1. PICK q \in Enclosing(p) : Allowed(always, u, <<"default", q>>, cap)
  BY DEF ByDefault
<1>2. /\ q \in Projects /\ <<"default", q>> \in Places /\ <<"default", q>> \in Listed
      /\ <<"default", q>>[1] = "default"
  BY PlacesListed DEF Enclosing, Listed
<1>3. cap \in DOMAIN Slugs.default
  BY <1>1, <1>2, AllowedIsListed
<1>4. Held(EntitlementOf(<<"default", q>>, cap), <<"user", u>>)
  BY <1>1, <1>2, <1>3, AllowedIsHeld DEF OwnCount
<1> DEFINE has(r) == Held(EntitlementOf(<<"default", r>>, cap), <<"user", u>>)
           S == {r \in Projects : has(r) => has(p)}
<1>5. ASSUME NEW r \in S, Parent[r] # "none" PROVE Parent[r] \in S
  <2>1. Parent[r] \in Projects
    BY <1>5, AccessAssumption
  <2>2. NestingIn(grants, r)
    BY AllCollected
  <2>3. has(Parent[r]) => has(r)
    BY <1>3, <1>5, <2>2, HandedHasFlown DEF NestingIn
  <2> QED
    BY <2>1, <2>3
<1>6. p \in S /\ S \in SUBSET Projects
  OBVIOUS
<1>7. q \in S
  <2> HIDE DEF S
  <2> QED
    BY <1>5, <1>6 DEF Enclosing
<1> QED
  BY <1>3, <1>4, <1>7

LEMMA OnWorkbookIsHeld ==
  ASSUME CompleteInv, phase = "done", NEW w \in Workbooks, Home[w] # "none", NEW u \in Users, NEW cap,
         OnWorkbook(always, u, w, cap)
  PROVE  /\ cap \in DOMAIN Slugs.workbook
         /\ Held(EntitlementOf(<<"workbook", w>>, cap), <<"user", u>>)
<1>1. /\ <<"workbook", w>> \in Listed /\ <<"workbook", w>> \in Places
      /\ <<"workbook", w>>[1] = "workbook" /\ Home[w] \in Projects
  BY PlacesListed DEF Listed
<1>2. CASE Allowed(always, u, <<"workbook", w>>, cap)
  <2>1. cap \in DOMAIN Slugs.workbook
    BY <1>1, <1>2, AllowedIsListed
  <2> QED
    BY <1>1, <1>2, <2>1, AllowedIsHeld DEF OwnCount
<1>3. CASE LockFact(Home[w]) \in always /\ ByDefault(always, u, Home[w], cap)
  <2>1. /\ cap \in DOMAIN Slugs.default
        /\ Held(EntitlementOf(<<"default", Home[w]>>, cap), <<"user", u>>)
    BY <1>1, <1>3, ByDefaultIsHeld
  <2>2. cap \in DOMAIN Slugs.workbook
    BY <2>1, DefaultsAreOfWorkbooks
  <2>3. LockIn(grants, w)
    BY AllCollected
  <2> QED
    BY <1>3, <2>1, <2>2, <2>3, HandedHasFlown DEF LockIn
<1> QED
  BY <1>2, <1>3 DEF OnWorkbook

LEMMA HeldIsShown ==
  ASSUME NEW u, NEW place, NEW cap
  PROVE  Held(EntitlementOf(place, cap), <<"user", u>>) <=> Shown(u, place, cap)
BY DEF Held, Shown

\* Every access for which all that it takes has been so since the cache was last emptied is
\* shown by a sync that succeeds, however deep the projects are nested, whatever failed
\* before and whatever else has changed.
THEOREM NoAccessIsMissed == Spec => []StableAccessIsShown
<1>1. CompleteInv => StableAccessIsShown
  <2> SUFFICES ASSUME CompleteInv, phase = "done", NEW u \in Users, NEW place \in Listed,
                      NEW cap \in DOMAIN Slugs[place[1]], Has(always, ever, u, place, cap)
               PROVE  Held(EntitlementOf(place, cap), <<"user", u>>)
    BY HeldIsShown DEF StableAccessIsShown
  <2>1. place \in Places /\ place = <<place[1], place[2]>>
    BY PlaceFacts DEF Listed
  <2>2. CASE place[1] = "project" /\ Allowed(always, u, place, cap)
    BY <2>2, AllowedIsHeld DEF OwnCount
  <2>3. CASE place[1] = "default" /\ ByDefault(always, u, place[2], cap)
    <3>1. place = <<"default", place[2]>> /\ place[2] \in Projects
      BY <2>1, <2>3, PlaceFacts
    <3> QED
      BY <2>3, <3>1, ByDefaultIsHeld
  <2>4. CASE place[1] = "workbook" /\ OnWorkbook(always, u, place[2], cap)
    <3>1. place = <<"workbook", place[2]>> /\ place[2] \in Workbooks /\ Home[place[2]] # "none"
      BY <2>1, <2>4, PlaceFacts DEF Listed
    <3> QED
      BY <2>4, <3>1, OnWorkbookIsHeld
  <2>5. CASE place[1] = "view" /\ OnView(always, ever, u, place[2], cap)
    <3> DEFINE v == place[2]
    <3>1. /\ place = <<"view", v>> /\ v \in Views
          /\ Book[v] \in Workbooks /\ Home[Book[v]] # "none"
      BY <2>1, <2>5, PlaceFacts, AccessAssumption DEF Listed
    <3>2. CASE TabsFact(Book[v]) \in always /\ OnWorkbook(always, u, Book[v], cap)
      <4>1. /\ cap \in DOMAIN Slugs.workbook
            /\ Held(EntitlementOf(<<"workbook", Book[v]>>, cap), <<"user", u>>)
        BY <3>1, <3>2, OnWorkbookIsHeld
      <4>2. TabsIn(grants, v)
        BY <3>1, AllCollected
      <4>3. cap \in DOMAIN Slugs.view
        BY <2>5
      <4> QED
        BY <3>1, <3>2, <4>1, <4>2, <4>3, HandedHasFlown DEF TabsIn
    <3>3. CASE TabsFact(Book[v]) \notin ever /\ Allowed(always, u, <<"view", v>>, cap)
      BY <3>1, <3>3, AllowedIsHeld DEF OwnCount
    <3> QED
      BY <2>5, <3>2, <3>3 DEF OnView
  <2> QED
    BY <2>2, <2>3, <2>4, <2>5 DEF Has
<1> QED
  BY <1>1, Completeness, PTL

\* A sync in whose course, and in that of the failed ones before it, nothing changed.
QuietSyncIsExact ==
  phase = "done" /\ ever = always =>
    \A u \in Users, place \in Listed : \A cap \in DOMAIN Slugs[place[1]] :
      Shown(u, place, cap) <=> Has(facts, facts, u, place, cap)

\* It shows users with just the access that Tableau gives them now (Grants of the builders,
\* and their expansion).
THEOREM Exactness == Spec => []QuietSyncIsExact
<1>1. IInv /\ ever = always => ever = facts /\ always = facts
  BY DEF IInv, HistoryOK
<1>2. IInv /\ ShownAccessIsReal /\ StableAccessIsShown => QuietSyncIsExact
  BY <1>1 DEF ShownAccessIsReal, StableAccessIsShown, QuietSyncIsExact
<1> QED
  BY <1>2, Invariance, NoPhantomAccess, NoAccessIsMissed, PTL
-----------------------------------------------------------------------------
(* That the next sync shows what a task has written. *)

\* What stands of a write is so in Tableau and in the response that was stored after it.
WroteOK ==
  \A w \in wrote :
    /\ w.on \in Permissions /\ w.to \in Principals
    /\ w.fact = RuleFact(Place(w.on), w.to, CapabilityOf(w.on[3]), "Allow")
    /\ w.op = "grant" <=> w.fact \in facts
    /\ Place(w.on) \in DOMAIN cache => (w.op = "grant" <=> w.fact \in cache[Place(w.on)])

DirectOn(G, place, cap, to) == \E g \in G : g.on = EntitlementOf(place, cap) /\ g.to = to /\ Direct(g)

\* Where a sync reads the permissions, and has read them, the direct grants are just what
\* the response told.
ReadHere(place) == place[1] = "view" => ~ShowTabs(place[2])

ToldOK ==
  /\ phase = "list" => grants = {} /\ todo = {}
  /\ phase # "list" => \A place \in Listed :
       /\ place[1] = "view" /\ place \notin todo => Details(Book[place[2]]) \in DOMAIN cache
       /\ place \notin todo /\ ReadHere(place) => place \in DOMAIN cache
       /\ \A cap \in DOMAIN Slugs[place[1]], to \in Principals :
            /\ place \in todo => ~DirectOn(grants, place, cap, to)
            /\ place \notin todo /\ ReadHere(place) =>
                 (DirectOn(grants, place, cap, to) <=> RuleFact(place, to, cap, "Allow") \in cache[place])

WriteInv == CompleteInv /\ WroteOK /\ ToldOK

\* The cache grows.
CacheKept == DOMAIN cache \subseteq DOMAIN cache' /\ \A url \in DOMAIN cache : cache'[url] = cache[url]

\* What was told stays so while responses are added to the cache.
LEMMA StillTold ==
  ASSUME ToldOK, CacheKept, phase # "list", phase' # "list", todo' = todo,
         \A place \in Listed : \A cap \in DOMAIN Slugs[place[1]], to \in Principals :
           DirectOn(grants', place, cap, to) <=> DirectOn(grants, place, cap, to)
  PROVE  ToldOK'
<1>1. \A place \in Listed : place[1] = "view" /\ place \notin todo => (ReadHere(place)' <=> ReadHere(place))
  BY DEF ToldOK, CacheKept, ReadHere, ShowTabs, Response
<1>2. \A place \in Listed : place[1] # "view" => (ReadHere(place)' <=> ReadHere(place))
  BY DEF ReadHere
<1> SUFFICES ASSUME NEW place \in Listed
             PROVE  /\ place[1] = "view" /\ place \notin todo => Details(Book[place[2]]) \in DOMAIN cache'
                    /\ place \notin todo /\ ReadHere(place) => place \in DOMAIN cache'
                    /\ \A cap \in DOMAIN Slugs[place[1]], to \in Principals :
                         /\ place \in todo => ~DirectOn(grants', place, cap, to)
                         /\ place \notin todo /\ ReadHere(place) =>
                              (DirectOn(grants', place, cap, to)
                                 <=> RuleFact(place, to, cap, "Allow") \in cache'[place])
  BY <1>1, <1>2 DEF ToldOK, DirectOn, Direct
<1> QED
  BY DEF ToldOK, CacheKept

\* A Grants call tells what the responses it reads tell, and nothing of other places.
LEMMA NowTold ==
  ASSUME ToldOK, CacheKept, phase = "grants", phase' = "grants", NEW urls, NEW new,
         todo' = todo \ urls, urls \subseteq todo, grants' = grants \cup new,
         \A place \in Listed \ urls : \A cap \in DOMAIN Slugs[place[1]], to \in Principals :
           ~DirectOn(new, place, cap, to),
         \A place \in Listed \cap urls :
           /\ place[1] = "view" => Details(Book[place[2]]) \in DOMAIN cache'
           /\ ReadHere(place)' =>
                /\ place \in DOMAIN cache'
                /\ \A cap \in DOMAIN Slugs[place[1]], to \in Principals :
                     DirectOn(new, place, cap, to) <=> RuleFact(place, to, cap, "Allow") \in cache'[place]
  PROVE  ToldOK'
<1>1. \A place \in Listed : \A cap \in DOMAIN Slugs[place[1]], to \in Principals :
        DirectOn(grants', place, cap, to)
          <=> DirectOn(grants, place, cap, to) \/ DirectOn(new, place, cap, to)
  BY DEF DirectOn
<1>2. \A place \in Listed : place \notin todo => (ReadHere(place)' <=> ReadHere(place))
  BY DEF ToldOK, CacheKept, ReadHere, ShowTabs, Response
<1> SUFFICES ASSUME NEW place \in Listed
             PROVE  /\ place[1] = "view" /\ place \notin todo' => Details(Book[place[2]]) \in DOMAIN cache'
                    /\ place \notin todo' /\ ReadHere(place)' => place \in DOMAIN cache'
                    /\ \A cap \in DOMAIN Slugs[place[1]], to \in Principals :
                         /\ place \in todo' => ~DirectOn(grants', place, cap, to)
                         /\ place \notin todo' /\ ReadHere(place)' =>
                              (DirectOn(grants', place, cap, to)
                                 <=> RuleFact(place, to, cap, "Allow") \in cache'[place])
  BY DEF ToldOK, DirectOn, Direct
<1>3. CASE place \in urls
  BY <1>1, <1>3 DEF ToldOK
<1>4. CASE place \notin urls
  BY <1>1, <1>2, <1>4 DEF ToldOK, CacheKept
<1> QED
  BY <1>3, <1>4

\* A GET keeps the cache, and what it adds is what Tableau holds.
LEMMA RememberKeeps ==
  ASSUME WroteOK, NEW urls, Remember(urls), UNCHANGED <<facts, wrote>>
  PROVE  /\ CacheKept /\ WroteOK'
         /\ \A url \in urls : url \in DOMAIN cache' /\ cache'[url] = Response(url)
<1>1. cache' = [u \in DOMAIN cache \cup urls |-> Response(u)]
  BY DEF Remember
<1>2. CacheKept
  BY <1>1 DEF CacheKept, Response
<1>3. \A url \in DOMAIN cache' : url \in DOMAIN cache \/ cache'[url] = At(url, facts)
  BY <1>1 DEF Response
<1>4. \A w \in wrote : w.fact.at = Place(w.on)
  <2>1. \A place, to, cap : RuleFact(place, to, cap, "Allow").at = place
    BY DEF RuleFact
  <2> QED
    BY <2>1 DEF WroteOK
<1>5. WroteOK'
  BY <1>2, <1>3, <1>4 DEF WroteOK, CacheKept, At
<1> QED
  BY <1>1, <1>2, <1>5

\* The direct grants that come of the response for a place, to users and to groups.
LEMMA OwnGrantsTell ==
  ASSUME NEW own \in Listed, NEW place \in Listed, NEW cap \in DOMAIN Slugs[place[1]],
         NEW to \in Principals, Response(own) \subseteq Facts, Response(own) \subseteq At(own, Response(own))
  PROVE  DirectOn(ownGrants(own), place, cap, to)
           <=> place = own /\ RuleFact(place, to, cap, "Allow") \in Response(own)
<1>1. ASSUME DirectOn(ownGrants(own), place, cap, to)
      PROVE  place = own /\ RuleFact(place, to, cap, "Allow") \in Response(own)
  <2>1. PICK g \in ownGrants(own) : g.on = EntitlementOf(place, cap) /\ g.to = to
    BY <1>1 DEF DirectOn
  <2>2. PICK f \in Response(own) :
          /\ f.mode = "Allow" /\ f.cap \in DOMAIN Slugs[own[1]]
          /\ g = NewGrant(EntitlementOf(own, f.cap), f.to, toMembers(f.to))
    BY DEF ownGrants, grantsFromCapabilities, EntitlementOf
  <2>3. g.on = EntitlementOf(own, f.cap) /\ g.to = f.to
    BY <2>2, NewIsDirect
  <2>4. place = own /\ cap = f.cap
    BY <2>1, <2>2, <2>3, SameEntitlement DEF Listed
  <2>5. f = RuleFact(own, f.to, f.cap, "Allow")
    BY <2>2, FactShapes DEF At, Listed
  <2> QED
    BY <2>1, <2>3, <2>4, <2>5
<1>2. ASSUME place = own, RuleFact(place, to, cap, "Allow") \in Response(own)
      PROVE  DirectOn(ownGrants(own), place, cap, to)
  <2> DEFINE f == RuleFact(place, to, cap, "Allow")
             g == NewGrant(EntitlementOf(place, cap), to, toMembers(to))
  <2>1. f.to = to /\ f.cap = cap /\ f.mode = "Allow"
    BY DEF RuleFact
  <2>2. f \in {s \in Response(own) : s.mode = "Allow" /\ s.cap \in DOMAIN Slugs[own[1]]}
    BY <1>2, <2>1
  <2>3. g = NewGrant(Entitlement(Resource(own), Slugs[own[1]][f.cap]), f.to, toMembers(f.to))
    BY <1>2, <2>1 DEF EntitlementOf
  <2>4. g \in ownGrants(own)
    <3> HIDE DEF f, g
    <3> QED
      BY <2>2, <2>3 DEF ownGrants, grantsFromCapabilities
  <2>5. g.on = EntitlementOf(place, cap) /\ g.to = to /\ Direct(g)
    BY NewIsDirect
  <2> HIDE DEF g
  <2> QED
    BY <2>4, <2>5 DEF DirectOn
<1> QED
  BY <1>1, <1>2

\* Nothing that is inherited, and no membership, is a direct grant of a permission to a
\* user or a group.
LEMMA InheritedTellsNothing ==
  ASSUME NEW resource, NEW parent, parent[1] \in {"project", "workbook"}, NEW own, NEW theirs,
         NEW g \in inheritedGrants(resource, parent, own, theirs)
  PROVE  g.to \notin Principals
<1>1. PICK c \in DOMAIN own \cap DOMAIN theirs :
        g = NewGrant(Entitlement(resource, own[c]), parent, {Edge(Entitlement(parent, theirs[c]), FALSE)})
  BY DEF inheritedGrants
<1>2. g.to = parent
  BY <1>1, NewIsDirect
<1> QED
  BY <1>2 DEF Principals

LEMMA HandedTellsNothing ==
  ASSUME NEW p \in Projects, NEW g \in handedDown(p)
  PROVE  g.to \notin Principals
<1>1. <<"project", p>>[1] = "project" /\ <<"project", Parent[p]>>[1] = "project"
  OBVIOUS
<1>2. CASE g \in inheritedGrants(<<"project", p>>, <<"project", Parent[p]>>, Slugs.default, Slugs.default)
  BY <1>1, <1>2, InheritedTellsNothing
<1>3. CASE \E S \in {inheritedGrants(<<"workbook", w>>, <<"project", p>>, Slugs.workbook, Slugs.default) :
                w \in {v \in Workbooks : Home[v] = p /\ Locked(p)}} : g \in S
  <2>1. PICK w \in Workbooks :
          g \in inheritedGrants(<<"workbook", w>>, <<"project", p>>, Slugs.workbook, Slugs.default)
    BY <1>3
  <2> QED
    BY <1>1, <2>1, InheritedTellsNothing
<1> QED
  BY <1>2, <1>3 DEF handedDown

LEMMA MembersTellNothing ==
  ASSUME NEW h \in Groups, NEW members, NEW place \in Listed, NEW cap \in DOMAIN Slugs[place[1]], NEW to
  PROVE  ~DirectOn(memberGrants(h, members), place, cap, to)
<1>1. \A g \in memberGrants(h, members) : g.on = Member(h)
  BY DEF memberGrants, NewGrant
<1> QED
  BY <1>1, NotAMember DEF DirectOn, Listed
-----------------------------------------------------------------------------
\* Responses are of their URLs.
LEMMA OwnResponse ==
  ASSUME IInv, NEW url
  PROVE  Response(url) \subseteq Facts /\ Response(url) \subseteq At(url, Response(url))
BY ResponseFacts DEF IInv, TypeOK, At

LEMMA GroupGrantsTold ==
  ASSUME WriteInv, NEW g \in Groups, GroupGrants(g)
  PROVE  WroteOK' /\ ToldOK'
<1> DEFINE new == memberGrants(g, Response(Members(g)))
           urls == {Members(g)}
<1>1. /\ phase = "grants" /\ phase' = "grants" /\ urls \subseteq todo /\ todo' = todo \ urls
      /\ grants' = grants \cup new /\ Remember(urls) /\ UNCHANGED <<facts, wrote>>
  BY DEF GroupGrants, Collect
<1>2. CacheKept /\ WroteOK'
  BY <1>1, RememberKeeps DEF WriteInv
<1>3. Listed \cap urls = {}
  BY DifferentURLs
<1>4. \A place \in Listed : \A cap \in DOMAIN Slugs[place[1]], to \in Principals :
        ~DirectOn(new, place, cap, to)
  BY MembersTellNothing
<1> HIDE DEF new, urls
<1> QED
  BY <1>1, <1>2, <1>3, <1>4, NowTold DEF WriteInv

LEMMA ProjectGrantsTold ==
  ASSUME WriteInv, NEW p \in Projects, ProjectGrants(p)
  PROVE  WroteOK' /\ ToldOK'
<1> DEFINE own == <<"project", p>>
           default == <<"default", p>>
           new == ownGrants(own) \cup ownGrants(default) \cup handedDown(p)
           urls == {own, default}
<1>1. /\ phase = "grants" /\ phase' = "grants" /\ urls \subseteq todo /\ todo' = todo \ urls
      /\ grants' = grants \cup new /\ Remember(urls) /\ UNCHANGED <<facts, wrote>>
  BY DEF ProjectGrants, Collect
<1>2. /\ CacheKept /\ WroteOK'
      /\ \A url \in urls : url \in DOMAIN cache' /\ cache'[url] = Response(url)
  BY <1>1, RememberKeeps DEF WriteInv
<1>3. own \in Listed /\ default \in Listed /\ own[1] # "view" /\ default[1] # "view"
  BY PlacesListed
<1>4. \A place \in Listed : \A cap \in DOMAIN Slugs[place[1]], to \in Principals :
        /\ ~DirectOn(handedDown(p), place, cap, to)
        /\ DirectOn(ownGrants(own), place, cap, to)
             <=> place = own /\ RuleFact(place, to, cap, "Allow") \in Response(own)
        /\ DirectOn(ownGrants(default), place, cap, to)
             <=> place = default /\ RuleFact(place, to, cap, "Allow") \in Response(default)
  <2> HIDE DEF own, default
  <2>1. /\ Response(own) \subseteq Facts /\ Response(own) \subseteq At(own, Response(own))
        /\ Response(default) \subseteq Facts /\ Response(default) \subseteq At(default, Response(default))
    BY OwnResponse DEF WriteInv, CompleteInv
  <2>2. \A place \in Listed : \A cap \in DOMAIN Slugs[place[1]], to \in Principals :
          ~DirectOn(handedDown(p), place, cap, to)
    BY HandedTellsNothing DEF DirectOn
  <2> QED
    BY <1>3, <2>1, <2>2, OwnGrantsTell
<1> HIDE DEF own, default
<1>5. \A place \in Listed : \A cap \in DOMAIN Slugs[place[1]], to \in Principals :
        DirectOn(new, place, cap, to)
          <=> place \in urls /\ RuleFact(place, to, cap, "Allow") \in Response(place)
  <2> SUFFICES ASSUME NEW place \in Listed, NEW cap \in DOMAIN Slugs[place[1]], NEW to \in Principals
               PROVE  DirectOn(new, place, cap, to)
                        <=> place \in urls /\ RuleFact(place, to, cap, "Allow") \in Response(place)
    OBVIOUS
  <2>1. DirectOn(new, place, cap, to)
          <=> \/ DirectOn(ownGrants(own), place, cap, to) \/ DirectOn(ownGrants(default), place, cap, to)
              \/ DirectOn(handedDown(p), place, cap, to)
    BY DEF DirectOn
  <2> QED
    BY <1>4, <2>1
<1>6. \A place \in Listed \cap urls : place[1] # "view"
  BY <1>3
<1> HIDE DEF new, urls
<1> QED
  BY <1>1, <1>2, <1>5, <1>6, NowTold DEF WriteInv

\* A place that is asked for with one GET.
LEMMA PlaceTold ==
  ASSUME WriteInv, NEW own \in Listed, Collect({own}, ownGrants(own)),
         own[1] = "view" => Details(Book[own[2]]) \in DOMAIN cache
  PROVE  WroteOK' /\ ToldOK'
<1> DEFINE new == ownGrants(own)
           urls == {own}
<1>1. /\ phase = "grants" /\ phase' = "grants" /\ urls \subseteq todo /\ todo' = todo \ urls
      /\ grants' = grants \cup new /\ Remember(urls) /\ UNCHANGED <<facts, wrote>>
  BY DEF Collect
<1>2. /\ CacheKept /\ WroteOK'
      /\ \A url \in urls : url \in DOMAIN cache' /\ cache'[url] = Response(url)
  BY <1>1, RememberKeeps DEF WriteInv
<1>3. \A place \in Listed : \A cap \in DOMAIN Slugs[place[1]], to \in Principals :
        DirectOn(new, place, cap, to)
          <=> place \in urls /\ RuleFact(place, to, cap, "Allow") \in Response(place)
  BY OwnResponse, OwnGrantsTell DEF WriteInv, CompleteInv
<1>4. \A place \in Listed \cap urls : place[1] = "view" => Details(Book[place[2]]) \in DOMAIN cache'
  BY <1>2 DEF CacheKept
<1> HIDE DEF new, urls
<1>5. \A place \in Listed \ urls : \A cap \in DOMAIN Slugs[place[1]], to \in Principals :
        ~DirectOn(new, place, cap, to)
  BY <1>3
<1>6. \A place \in Listed \cap urls :
        /\ place \in DOMAIN cache'
        /\ \A cap \in DOMAIN Slugs[place[1]], to \in Principals :
             DirectOn(new, place, cap, to) <=> RuleFact(place, to, cap, "Allow") \in cache'[place]
  BY <1>2, <1>3
<1>7. ToldOK
  BY DEF WriteInv
<1> QED
  BY <1>1, <1>2, <1>4, <1>5, <1>6, <1>7, NowTold

LEMMA InheritedViewGrantsTold ==
  ASSUME WriteInv, NEW v \in Views, InheritedViewGrants(v)
  PROVE  WroteOK' /\ ToldOK'
<1> DEFINE view == <<"view", v>>
           new == inheritedGrants(view, <<"workbook", Book[v]>>, Slugs.view, Slugs.workbook)
           urls == {view}
<1>1. /\ phase = "grants" /\ phase' = "grants" /\ urls \subseteq todo /\ todo' = todo \ urls
      /\ grants' = grants \cup new /\ UNCHANGED <<facts, cache, wrote>>
      /\ Details(Book[v]) \in DOMAIN cache /\ ShowTabs(v)
  BY DEF InheritedViewGrants
<1>2. CacheKept /\ WroteOK'
  BY <1>1 DEF CacheKept, WriteInv, WroteOK
<1>3. \A place \in Listed : \A cap \in DOMAIN Slugs[place[1]], to \in Principals :
        ~DirectOn(new, place, cap, to)
  <2>1. <<"workbook", Book[v]>>[1] = "workbook"
    OBVIOUS
  <2> QED
    BY <2>1, InheritedTellsNothing DEF DirectOn
<1>4. \A place \in Listed \cap urls :
        place[1] = "view" /\ Details(Book[place[2]]) \in DOMAIN cache' /\ ~ReadHere(place)'
  BY <1>1 DEF ReadHere, ShowTabs, Response
<1> HIDE DEF new, urls
<1> QED
  BY <1>1, <1>2, <1>3, <1>4, NowTold DEF WriteInv

\* The expansion makes no grant direct, and no direct one derived.
LEMMA NoEdgeToItself ==
  ASSUME NEW e, EdgeOK(e, e)
  PROVE  FALSE
<1>1. PICK place \in Listed : \E cap \in DOMAIN Slugs[place[1]] : e = EntitlementOf(place, cap)
  BY EdgesLeadToPermissions, PermissionShape
<1>2. PICK cap \in DOMAIN Slugs[place[1]] : e = EntitlementOf(place, cap)
  BY <1>1
<1>3. place \in Places /\ \A h \in Groups : e # Member(h)
  BY <1>2, NotAMember DEF Listed
<1>4. CASE place[1] = "default" /\ Parent[place[2]] # "none"
           /\ e = EntitlementOf(<<"default", Parent[place[2]]>>, cap)
  <2>1. place[2] \in Projects /\ Parent[place[2]] \in Projects
    BY <1>3, <1>4, PlaceFacts, AccessAssumption
  <2>2. <<"default", Parent[place[2]]>> \in Places /\ <<"default", Parent[place[2]]>>[1] = "default"
    BY <2>1 DEF Places
  <2>3. place = <<"default", Parent[place[2]]>>
    BY <1>2, <1>3, <1>4, <2>2, SameEntitlement
  <2>4. Parent[place[2]] \in {place[2]}
    BY <2>3
  <2>5. {place[2]} \in SUBSET Projects /\ {place[2]} # {}
    BY <2>1
  <2> QED
    BY <2>4, <2>5, AccessAssumption
<1>5. CASE place[1] = "workbook" /\ cap \in DOMAIN Slugs.default
           /\ e = EntitlementOf(<<"default", Home[place[2]]>>, cap)
  <2>1. place[2] \in Workbooks /\ Home[place[2]] # "none"
    BY <1>3, <1>5, PlaceFacts DEF Listed
  <2>2. <<"default", Home[place[2]]>> \in Places /\ <<"default", Home[place[2]]>>[1] = "default"
    BY <2>1, AccessAssumption DEF Places
  <2> QED
    BY <1>2, <1>3, <1>5, <2>2, SameEntitlement
<1>6. CASE place[1] = "view" /\ cap \in DOMAIN Slugs.workbook
           /\ e = EntitlementOf(<<"workbook", Book[place[2]]>>, cap)
  <2>1. place[2] \in Views
    BY <1>3, <1>6, PlaceFacts
  <2>2. <<"workbook", Book[place[2]]>> \in Places /\ <<"workbook", Book[place[2]]>>[1] = "workbook"
    BY <2>1, AccessAssumption DEF Places
  <2> QED
    BY <1>2, <1>3, <1>6, <2>2, SameEntitlement
<1> QED
  BY <1>2, <1>3, <1>4, <1>5, <1>6, EdgesFrom

LEMMA MergedIsDirectAsBefore ==
  ASSUME NEW flow, NEW g, Sound(g), \A c \in flow : c[1] # c[2]
  PROVE  Direct(Merged(flow, g)) => Direct(g)
<1> DEFINE src == Sources(flow, g.on, g.to)
<1>1. g.on \notin src
  BY DEF Sources
<1> HIDE DEF src
<1>2. Merged(flow, g) = IF src = {} THEN g
                        ELSE [g EXCEPT !.src = src \cup (IF g.src = {} THEN {g.on} ELSE g.src)]
  BY DEF Merged, src
<1> QED
  BY <1>1, <1>2 DEF Sound, Direct

LEMMA ExpandLayerTold ==
  ASSUME WriteInv, ExpandLayer
  PROVE  WroteOK' /\ ToldOK'
<1> DEFINE flow == Contributions(Ready)
           unheld == {<<c[2], c[3]>> : c \in flow} \ {<<g.on, g.to>> : g \in grants}
<1>1. /\ phase = "expand" /\ phase' = "expand"
      /\ grants' = {Merged(flow, g) : g \in grants} \cup {Derived(flow, c[1], c[2]) : c \in unheld}
      /\ UNCHANGED <<facts, cache, todo, wrote>>
  BY DEF ExpandLayer
<1>2. \A c \in flow : c[1] # c[2]
  <2> SUFFICES ASSUME NEW c \in flow, c[1] = c[2] PROVE FALSE
    OBVIOUS
  <2>1. PICK d \in edges, h \in grants : h.on = d.from /\ c = <<h.on, d.into, h.to>>
    BY FlowFacts
  <2> QED
    BY <2>1, NoEdgeToItself DEF WriteInv, CompleteInv, IInv, EdgesOK
<1> HIDE DEF flow
<1>3. ASSUME NEW g \in grants
      PROVE  /\ Merged(flow, g) \in grants'
             /\ Merged(flow, g).on = g.on /\ Merged(flow, g).to = g.to
             /\ Direct(g) <=> Direct(Merged(flow, g))
  BY <1>1, <1>2, MergedFacts, MergedIsDirectAsBefore DEF WriteInv, CompleteInv, IInv, GrantsOK
<1>4. ASSUME NEW c \in unheld PROVE ~Direct(Derived(flow, c[1], c[2]))
  <2>1. PICK k \in flow : c = <<k[2], k[3]>>
    OBVIOUS
  <2> DEFINE src == Sources(flow, c[1], c[2])
  <2>2. k[1] \in src
    BY <2>1 DEF Sources
  <2>3. c[1] \notin src
    BY <1>2 DEF Sources
  <2>4. Derived(flow, c[1], c[2]).src = src /\ Derived(flow, c[1], c[2]).on = c[1]
    BY DEF Derived
  <2> HIDE DEF src
  <2> QED
    BY <2>2, <2>3, <2>4 DEF Direct
<1> HIDE DEF unheld
<1>5. \A place \in Listed : \A cap \in DOMAIN Slugs[place[1]], to \in Principals :
        DirectOn(grants', place, cap, to) <=> DirectOn(grants, place, cap, to)
  <2>1. ASSUME NEW k \in grants', Direct(k)
        PROVE  \E g \in grants : k.on = g.on /\ k.to = g.to /\ Direct(g)
    <3>1. PICK g \in grants : k = Merged(flow, g)
      BY <1>1, <1>4, <2>1
    <3> QED
      BY <1>3, <2>1, <3>1
  <2> QED
    BY <1>3, <2>1 DEF DirectOn
<1>6. CacheKept /\ WroteOK'
  BY <1>1 DEF CacheKept, WriteInv, WroteOK
<1> QED
  BY <1>1, <1>5, <1>6, StillTold DEF WriteInv

\* Steps that make no grants and ask for nothing.
LEMMA SameTold ==
  ASSUME ToldOK, CacheKept, phase' # "list" <=> phase # "list", UNCHANGED <<todo, grants>>
  PROVE  ToldOK'
<1>1. CASE phase = "list"
  BY <1>1 DEF ToldOK
<1>2. CASE phase # "list"
  BY <1>2, StillTold
<1> QED
  BY <1>1, <1>2

LEMMA ListTold ==
  ASSUME WriteInv, List
  PROVE  WroteOK' /\ ToldOK'
<1>1. /\ phase = "list" /\ phase' = "grants" /\ todo' = Listed \cup {Members(g) : g \in Groups}
      /\ Remember({ProjectList}) /\ UNCHANGED <<facts, grants, wrote>>
  BY DEF List
<1>2. grants' = {}
  BY <1>1 DEF WriteInv, ToldOK
<1>3. \A place \in Listed : place \in todo'
  BY <1>1
<1>4. ToldOK'
  BY <1>1, <1>2, <1>3 DEF ToldOK, DirectOn
<1> QED
  BY <1>1, <1>4, RememberKeeps DEF WriteInv

LEMMA OutsideTold ==
  ASSUME WriteInv, Outside
  PROVE  WroteOK' /\ ToldOK'
<1>1. PICK f \in Volatile : /\ facts' = (IF f \in facts THEN facts \ {f} ELSE facts \cup {f})
                            /\ wrote' = {w \in wrote : w.fact # f}
  BY DEF Outside, Become
<1>2. UNCHANGED <<cache, phase, todo, grants>>
  BY DEF Outside, sync
<1>3. WroteOK'
  BY <1>1, <1>2 DEF WriteInv, WroteOK
<1> QED
  BY <1>2, <1>3, SameTold DEF WriteInv, CacheKept

LEMMA TaskTold ==
  ASSUME WriteInv, NEW a \in Asked, NEW op \in {"grant", "revoke"}, Task(a[1], a[2], op)
  PROVE  WroteOK' /\ ToldOK'
<1> DEFINE f == RuleFact(Place(a[1]), a[2], CapabilityOf(a[1][3]), "Allow")
           w == [fact |-> f, on |-> a[1], to |-> a[2], op |-> op]
<1>1. /\ facts' = (IF op = "grant" THEN facts \cup {f} ELSE facts \ {f})
      /\ wrote' = (IF Place(a[1]) \in DOMAIN cache THEN {x \in wrote : x.fact # f} ELSE {w})
  BY DEF Task, Become
<1>2. UNCHANGED <<cache, phase, todo, grants>>
  BY DEF Task, sync
<1>3. a[1] \in Permissions /\ a[2] \in Principals
  BY BoundsAssumption
<1>4. w.fact = f /\ w.on = a[1] /\ w.to = a[2] /\ w.op = op
  OBVIOUS
<1>5. f = RuleFact(Place(a[1]), a[2], CapabilityOf(a[1][3]), "Allow")
  OBVIOUS
<1> HIDE DEF f, w
<1>6. WroteOK'
  <2>1. CASE Place(a[1]) \in DOMAIN cache
    BY <1>1, <1>2, <2>1 DEF WriteInv, WroteOK
  <2>2. CASE Place(a[1]) \notin DOMAIN cache
    BY <1>1, <1>2, <1>3, <1>4, <1>5, <2>2 DEF WroteOK
  <2> QED
    BY <2>1, <2>2
<1> QED
  BY <1>2, <1>6, SameTold DEF WriteInv, CacheKept

\* What a task has written the next sync shows, as a direct grant of the entitlement the
\* task was asked for, after a grant and only then.
THEOREM WritesReturn == Spec => []WritesAreShown
<1>1. Init => WriteInv
  BY InitComplete DEF Init, WriteInv, WroteOK, ToldOK
<1>2. WriteInv /\ [Next]_vars => WroteOK' /\ ToldOK'
  <2> SUFFICES ASSUME WriteInv, [Next]_vars PROVE WroteOK' /\ ToldOK'
    OBVIOUS
  <2>1. CASE Expand \/ Finish
    <3>1. /\ phase # "list" /\ phase' # "list" /\ UNCHANGED <<facts, cache, todo, grants, wrote>>
      BY <2>1 DEF Expand, Finish
    <3> QED
      BY <3>1, SameTold DEF WriteInv, CacheKept, WroteOK
  <2>2. CASE NextSync \/ Fail
    <3>1. /\ phase' = "list" /\ todo' = {} /\ grants' = {} /\ UNCHANGED <<facts, wrote>>
          /\ cache' = cache \/ DOMAIN cache' = {}
      BY <2>2 DEF NextSync, Fail
    <3> QED
      BY <3>1 DEF WriteInv, WroteOK, ToldOK
  <2>3. ASSUME NEW w \in Workbooks, WorkbookGrants(w) PROVE WroteOK' /\ ToldOK'
    <3>1. Collect({<<"workbook", w>>}, ownGrants(<<"workbook", w>>)) /\ <<"workbook", w>> \in todo
      BY <2>3 DEF WorkbookGrants, Collect
    <3>2. <<"workbook", w>> \in Listed /\ <<"workbook", w>>[1] # "view"
      BY <3>1, AskedForIsListed DEF WriteInv, CompleteInv, IInv, Places
    <3> QED
      BY <3>1, <3>2, PlaceTold
  <2>4. ASSUME NEW v \in Views, OwnViewGrants(v) PROVE WroteOK' /\ ToldOK'
    <3>1. /\ Collect({<<"view", v>>}, ownGrants(<<"view", v>>)) /\ <<"view", v>> \in todo
          /\ Details(Book[v]) \in DOMAIN cache
      BY <2>4 DEF OwnViewGrants, Collect
    <3>2. <<"view", v>> \in Listed /\ <<"view", v>>[2] = v
      BY <3>1, AskedForIsListed DEF WriteInv, CompleteInv, IInv, Places
    <3> QED
      BY <3>1, <3>2, PlaceTold
  <2>5. ASSUME NEW v \in Views, LookUp(v) PROVE WroteOK' /\ ToldOK'
    <3>1. Remember({Details(Book[v])}) /\ UNCHANGED <<facts, phase, todo, grants, wrote>>
      BY <2>5 DEF LookUp, sync
    <3>2. CacheKept /\ WroteOK'
      BY <3>1, RememberKeeps DEF WriteInv
    <3> QED
      BY <3>1, <3>2, SameTold DEF WriteInv
  <2>6. CASE UNCHANGED vars
    <3>1. UNCHANGED <<facts, cache, phase, todo, grants, wrote>>
      BY <2>6 DEF vars, sync
    <3> QED
      BY <3>1, SameTold DEF WriteInv, CacheKept, WroteOK
  <2> QED
    BY <2>1, <2>2, <2>3, <2>4, <2>5, <2>6, ListTold, ExpandLayerTold, OutsideTold, TaskTold,
       GroupGrantsTold, ProjectGrantsTold, InheritedViewGrantsTold DEF Next
<1>3. WriteInv => WritesAreShown
  <2> SUFFICES ASSUME WriteInv, phase = "done", NEW w \in wrote, w.on[1] = "view" => ~ShowTabs(w.on[2])
               PROVE  w.op = "grant" <=> \E g \in grants : g.on = w.on /\ g.to = w.to /\ Direct(g)
    BY DEF WritesAreShown
  <2>1. PICK place \in Listed : \E cap \in DOMAIN Slugs[place[1]] : w.on = EntitlementOf(place, cap)
    BY PermissionShape DEF WriteInv, WroteOK
  <2>2. PICK cap \in DOMAIN Slugs[place[1]] : w.on = EntitlementOf(place, cap)
    BY <2>1
  <2>3. /\ Place(w.on) = place /\ CapabilityOf(w.on[3]) = cap
        /\ w.on[1] = "view" <=> place[1] = "view"
        /\ w.on[2] = place[2]
    BY <2>2, EntitlementFacts DEF Listed
  <2>4. ReadHere(place)
    BY <2>3 DEF ReadHere
  <2>5. todo = {}
    BY DEF WriteInv, CompleteInv, ReducedOK
  <2>6. /\ w.to \in Principals /\ w.fact = RuleFact(place, w.to, cap, "Allow")
        /\ place \in DOMAIN cache => (w.op = "grant" <=> w.fact \in cache[place])
    BY <2>3 DEF WriteInv, WroteOK
  <2>7. DirectOn(grants, place, cap, w.to) <=> w.op = "grant"
    BY <2>4, <2>5, <2>6 DEF WriteInv, ToldOK
  <2> QED
    BY <2>2, <2>7 DEF DirectOn
<1>4. Spec => []WriteInv
  <2>1. CompleteInv /\ [Next]_vars => CompleteInv'
    BY CompleteStep
  <2>2. WriteInv /\ [Next]_vars => WriteInv'
    BY <1>2, <2>1 DEF WriteInv
  <2> QED
    BY <1>1, <2>2, PTL DEF Spec
<1> QED
  BY <1>3, <1>4, PTL
=============================================================================
