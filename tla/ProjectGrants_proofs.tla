------------------------- MODULE ProjectGrants_proofs -------------------------
(***************************************************************************)
(* Proofs about ProjectGrants, for any projects, names, workbooks and page *)
(* size.  That no workbook is missed rests on the cache: as long as the    *)
(* listing of a name loses nothing, the cached pages of it are the first   *)
(* ones, and a workbook that was there all along is on one of them or      *)
(* ranks behind them all, for those coming in can only push it back.       *)
(***************************************************************************)
EXTENDS ProjectGrants, FiniteSetTheorems, TLAPS

\* Until the projects are listed nothing is asked for, and nothing is told.
Idle ==
  /\ syncing # "granting" => open = {} /\ bag = NoToken /\ own = {} /\ inherited = {}
  /\ syncing # "listing" => unlisted = {}

\* What is cached and stored of a project that was not edited is so.
StoredOK ==
  /\ \A p \in Projects \ edited : \A e \in listing[p] : e[1] = project[p]
  /\ syncing # "no" => \A p \in (Projects \ edited) \ unlisted : stored[p] = project[p]

\* There was a nesting, at an instant since the cache was emptied, in which q was the
\* parent of p: those of the projects that have not been moved were what they are.
OfOneInstant(p, q) ==
  \E N \in Nestings : Forest(N) /\ N[p] = q /\ \A r \in Projects \ moved : N[r] = parent[r]

\* What is cached and stored of a project's parent was once so.
NestedOK ==
  /\ Forest(parent)
  /\ \A p \in Projects : \A e \in listing[p] : OfOneInstant(p, e[2])
  /\ syncing # "no" => \A p \in Projects \ unlisted : OfOneInstant(p, nested[p])

\* The second phase comes after the first, and only to a project that is walked.
PhasesOK ==
  /\ \A p \in Projects : bag[p] # <<>> => Walked(stored[p]) /\ p \in own
  /\ syncing = "granting" => Projects \ open \subseteq own

\* Nothing is cached or told that was never so.
TrueOK ==
  /\ Contained \subseteq been
  /\ \A s \in pages : s.items \subseteq been
  /\ \A i \in inherited : i \in been /\ Walked(stored[i[1]])

PageOf(S, n, k) == \E t \in S : t.name = n /\ t.page = k

\* Workbook i[2] has been in project i[1], of the unedited name n, all along.
Steady(i, n) == i \in stayed /\ i[1] \notin edited /\ project[i[1]].name = n

\* Such a workbook is on a page up to s, or behind it.
SeenOrBehind(S, s, i) ==
  \/ \E t \in S : t.name = s.name /\ t.page <= s.page /\ i \in t.items
  \/ /\ s.page * PageSize < Rank(i[2], Matching(s.name))
     /\ s.page * PageSize < s.total

PagesOK ==
  /\ \A s, t \in pages : s.name = t.name /\ s.page = t.page => s = t
  /\ \A s \in pages : s.name \notin upset =>
       /\ \A j \in 1 .. s.page : PageOf(pages, s.name, j)
       /\ \A i \in stayed : Steady(i, s.name) => SeenOrBehind(pages, s, i)

\* What the cached pages S up to the k-th of name n list for p is in I.
ToldUpTo(S, I, p, n, k) ==
  \A t \in S : t.name = n /\ t.page <= k => \A i \in t.items : i[1] = p => i \in I

\* The pages before the token are cached, and told.
TokenOK ==
  \A p \in Projects : bag[p] # <<>> /\ stored[p].name \notin upset =>
    /\ bag[p][1] > 1 => PageOf(pages, stored[p].name, bag[p][1] - 1)
    /\ ToldUpTo(pages, inherited, p, stored[p].name, bag[p][1] - 1)

\* The workbooks of a project whose walk is over inherit.
DoneOK ==
  syncing = "granting" =>
    \A p \in Projects \ open : \A i \in stayed :
      i[1] = p /\ Walked(stored[p]) /\ Steady(i, stored[p].name) /\ stored[p].name \notin upset
        => i \in inherited

IInv == /\ TypeOK /\ Idle /\ StoredOK /\ NestedOK
        /\ PhasesOK /\ TrueOK /\ PagesOK /\ TokenOK /\ DoneOK
-----------------------------------------------------------------------------
LEMMA MatchingFacts ==
  ASSUME NEW n
  PROVE  /\ Matching(n) \subseteq Workbooks /\ IsFiniteSet(Matching(n))
         /\ Cardinality(Matching(n)) \in Nat
BY FS_Subset, FS_CardinalityType, ProjectGrantsAssumption DEF Matching

\* The rank of a workbook in a set is between 1 and the size of the set, and those
\* that come in never lower it.
LEMMA RankFacts ==
  ASSUME NEW M \in SUBSET Workbooks, NEW w \in M
  PROVE  /\ Rank(w, M) \in Nat /\ 1 <= Rank(w, M) /\ Rank(w, M) <= Cardinality(M)
         /\ \A N \in SUBSET Workbooks : M \subseteq N =>
              Rank(w, N) \in Nat /\ Rank(w, M) <= Rank(w, N)
<1> DEFINE below(S) == {v \in S : v <= w}
<1>1. \A S \in SUBSET Workbooks : IsFiniteSet(S) /\ IsFiniteSet(below(S))
  BY FS_Subset, ProjectGrantsAssumption
<1>2. \A S \in SUBSET Workbooks : Cardinality(below(S)) \in Nat
  BY <1>1, FS_CardinalityType
<1>3. w \in below(M) /\ below(M) # {}
  BY ProjectGrantsAssumption
<1>4. Cardinality(below(M)) # 0
  BY <1>1, <1>3, FS_EmptySet
<1>5. Cardinality(below(M)) <= Cardinality(M)
  BY <1>1, FS_Subset
<1>6. \A N \in SUBSET Workbooks : M \subseteq N => Cardinality(below(M)) <= Cardinality(below(N))
  <2> SUFFICES ASSUME NEW N \in SUBSET Workbooks, M \subseteq N
               PROVE  Cardinality(below(M)) <= Cardinality(below(N))
    OBVIOUS
  <2>1. below(M) \in SUBSET below(N)
    OBVIOUS
  <2> HIDE DEF below
  <2> QED
    BY <1>1, <2>1, FS_Subset
<1> QED
  BY <1>2, <1>4, <1>5, <1>6 DEF Rank

LEMMA ContainedFacts ==
  ASSUME TypeOK, NEW i \in Contained
  PROVE  /\ i \in Projects \X Workbooks /\ i[1] = home[i[2]] /\ i = <<i[1], i[2]>>
         /\ i[2] \in Matching(project[i[1]].name)
BY DEF TypeOK, Contained, Matching

\* A response to the GET of page k of name n.
LEMMA ResponseFacts ==
  ASSUME TypeOK, TrueOK, NEW n \in SafeNames, NEW k \in Nat \ {0}, NEW s \in Responses(n, k)
  PROVE  /\ s.name = n /\ s.page = k /\ s.items \subseteq been /\ s.total \in Nat
         /\ pages \cup {s} \subseteq [name : SafeNames, page : Nat \ {0}, total : Nat,
                                     items : SUBSET (Projects \X Workbooks)]
         /\ s \notin pages => s = Page(n, k) /\ ~PageOf(pages, n, k)
<1>1. CASE s \in pages /\ s.name = n /\ s.page = k
  BY <1>1 DEF TypeOK, TrueOK
<1>2. CASE s = Page(n, k) /\ ~PageOf(pages, n, k)
  <2> DEFINE its == {<<home[w], w>> : w \in
                {v \in Matching(n) : (k - 1) * PageSize < Rank(v, Matching(n))
                                       /\ Rank(v, Matching(n)) <= k * PageSize}}
             total == Cardinality(Matching(n))
  <2>1. its \subseteq Contained /\ its \subseteq Projects \X Workbooks
    <3>1. \A w \in Matching(n) : /\ w \in Workbooks /\ home[w] \in Projects
                                 /\ <<home[w], w>> \in Contained
      BY DEF TypeOK, Contained, Matching
    <3> QED
      BY <3>1
  <2>2. total \in Nat
    BY MatchingFacts
  <2>3. s = [name |-> n, page |-> k, total |-> total, items |-> its]
    BY <1>2 DEF Page
  <2> HIDE DEF its, total
  <2>4. s \in [name : SafeNames, page : Nat \ {0}, total : Nat,
               items : SUBSET (Projects \X Workbooks)]
    BY <2>1, <2>2, <2>3
  <2> QED
    BY <1>2, <2>1, <2>2, <2>3, <2>4 DEF TypeOK, TrueOK
<1> QED
  BY <1>1, <1>2 DEF Responses, PageOf

\* A page that is read anew misses nobody, if the page before it does not.
LEMMA NewPageMissesNobody ==
  ASSUME TypeOK, NEW n, NEW k \in Nat \ {0}, NEW i \in stayed, Steady(i, n),
         NEW S, Page(n, k) \in S, \A t \in S : t.page \in Nat,
         k > 1 => \E t \in S : t.name = n /\ t.page = k - 1 /\ SeenOrBehind(S, t, i)
  PROVE  SeenOrBehind(S, Page(n, k), i)
<1> DEFINE M == Matching(n)
           w == i[2]
           s == Page(n, k)
<1>1. i = <<home[w], w>> /\ w \in M
  BY ContainedFacts DEF TypeOK, Steady
<1>2. Rank(w, M) \in Nat /\ 1 <= Rank(w, M) /\ Rank(w, M) <= Cardinality(M) /\ Cardinality(M) \in Nat
  BY <1>1, MatchingFacts, RankFacts
<1>3. s.name = n /\ s.page = k /\ s.total = Cardinality(M)
  BY DEF Page
<1>4. PageSize \in Nat /\ (k - 1) * PageSize \in Nat /\ k * PageSize \in Nat
  BY ProjectGrantsAssumption
<1>5. CASE (k - 1) * PageSize < Rank(w, M)
  <2>1. CASE Rank(w, M) <= k * PageSize
    <3>1. i \in s.items
      BY <1>1, <1>5, <2>1 DEF Page
    <3> HIDE DEF s
    <3> QED
      BY <1>3, <3>1 DEF SeenOrBehind, s
  <2>2. CASE k * PageSize < Rank(w, M)
    BY <1>2, <1>3, <1>4, <2>2 DEF SeenOrBehind
  <2> QED
    BY <1>2, <1>4, <2>1, <2>2
<1>6. CASE ~((k - 1) * PageSize < Rank(w, M))
  <2>1. k > 1
    <3>1. k = 1 => (k - 1) * PageSize = 0
      BY <1>4
    <3> QED
      BY <1>2, <1>6, <3>1
  <2>2. PICK t \in S : t.name = n /\ t.page = k - 1 /\ SeenOrBehind(S, t, i)
    BY <2>1
  <2>3. PICK u \in S : u.name = n /\ u.page <= k - 1 /\ i \in u.items
    BY <1>6, <2>2 DEF SeenOrBehind
  <2>4. u.page <= k
    BY <2>3
  <2> QED
    BY <1>3, <2>3, <2>4 DEF SeenOrBehind
<1> QED
  BY <1>5, <1>6
-----------------------------------------------------------------------------
\* Pages that come in do not take away what was seen.
LEMMA SeenStays ==
  ASSUME NEW S, NEW T, S \subseteq T, NEW s, NEW i, SeenOrBehind(S, s, i)
  PROVE  SeenOrBehind(T, s, i)
BY DEF SeenOrBehind

LEMMA InitStep == Init => IInv
<1> SUFFICES ASSUME Init PROVE IInv
  OBVIOUS
<1>1. TypeOK
  <2>1. Contained \subseteq Projects \X Workbooks
    BY DEF Init, Contained
  <2> QED
    BY <2>1, InitialNestingsAreForests
       DEF Init, TypeOK, Settings, NoToken, Blank, Flat, Nestings
<1>2. Idle /\ StoredOK /\ PhasesOK /\ TrueOK
  BY DEF Init, Idle, StoredOK, PhasesOK, TrueOK, NoToken, Blank
<1>4. NestedOK
  BY InitialNestingsAreForests DEF Init, NestedOK, Blank
<1>3. PagesOK /\ TokenOK /\ DoneOK
  BY DEF Init, PagesOK, TokenOK, DoneOK, NoToken
<1> QED
  BY <1>1, <1>2, <1>3, <1>4 DEF IInv

LEMMA BeginStep == IInv /\ Begin => IInv'
<1> SUFFICES ASSUME IInv, Begin PROVE IInv'
  OBVIOUS
<1> USE DEF Begin, tableau, cache, epoch
<1>1. TypeOK' /\ Idle' /\ StoredOK'
  BY DEF IInv, TypeOK, Contained, Idle, StoredOK, bounds
<1>2. PhasesOK' /\ TrueOK'
  BY DEF IInv, PhasesOK, TrueOK, Contained
<1>3. PagesOK' /\ TokenOK' /\ DoneOK'
  BY DEF IInv, PagesOK, PageOf, Steady, SeenOrBehind, Rank, Matching, TokenOK, ToldUpTo, DoneOK
<1>4. NestedOK'
  BY DEF IInv, NestedOK, OfOneInstant
<1> QED
  BY <1>1, <1>2, <1>3, <1>4 DEF IInv

\* The nesting is as it was, and so is what is known of it.
LEMMA NestingStays ==
  ASSUME NestedOK, UNCHANGED <<parent, moved, listing, syncing, unlisted, nested>>
  PROVE  NestedOK'
BY DEF NestedOK, OfOneInstant

LEMMA ListStep ==
  ASSUME IInv, NEW p \in Projects, List(p)
  PROVE  IInv'
<1>0. /\ bag = NoToken /\ own = {} /\ inherited = {} /\ syncing = "listing" /\ p \in unlisted
      /\ UNCHANGED <<home, project, parent, pages, bag, own, inherited, been, stayed, edited, moved>>
      /\ UNCHANGED <<upset, changes, moves>>
      /\ unlisted' = unlisted \ {p}
  BY DEF IInv, Idle, List, tableau, epoch, bounds
<1>1. PICK e \in listing'[p] : /\ stored' = [stored EXCEPT ![p] = e[1]]
                              /\ nested' = [nested EXCEPT ![p] = e[2]]
  BY DEF List
<1>2. /\ listing' = [listing EXCEPT ![p] = listing'[p]]
      /\ \A q \in Projects \ {p} : listing'[q] = listing[q]
      /\ listing'[p] = listing[p] \/ listing'[p] = {<<project[p], parent[p]>>}
  BY DEF IInv, TypeOK, List
<1> DEFINE Listed == [name : Names, locked : BOOLEAN] \X (Projects \cup {"none"})
<1>3. listing'[p] \in SUBSET Listed
  <2>1. listing[p] \in SUBSET Listed /\ <<project[p], parent[p]>> \in Listed
    BY DEF IInv, TypeOK, Settings, Nestings
  <2> HIDE DEF Listed
  <2> QED
    BY <1>2, <2>1
<1>4. listing' \in [Projects -> SUBSET Listed]
  <2>1. listing \in [Projects -> SUBSET Listed]
    BY DEF IInv, TypeOK
  <2> HIDE DEF Listed
  <2> QED
    BY <1>2, <1>3, <2>1
<1>5. e[1] \in [name : Names, locked : BOOLEAN] /\ e[2] \in Projects \cup {"none"}
  BY <1>1, <1>3
<1>6. /\ stored' \in Settings /\ stored'[p] = e[1]
      /\ \A q \in Projects \ {p} : stored'[q] = stored[q]
  BY <1>1, <1>5 DEF IInv, TypeOK, Settings
<1>7. /\ nested' \in Nestings /\ nested'[p] = e[2]
      /\ \A q \in Projects \ {p} : nested'[q] = nested[q]
  BY <1>1, <1>5 DEF IInv, TypeOK, Nestings
<1>8. \/ unlisted' = {} /\ syncing' = "granting" /\ open' = Projects
      \/ unlisted' # {} /\ syncing' = "listing" /\ open' = {}
  BY <1>0 DEF IInv, Idle, List
<1>9. TypeOK'
  BY <1>0, <1>4, <1>6, <1>7, <1>8 DEF IInv, TypeOK, Contained, NoToken
<1>10. Idle'
  BY <1>0, <1>8 DEF Idle
<1>11. StoredOK'
  <2>1. p \notin edited => e[1] = project[p]
    BY <1>1, <1>2 DEF IInv, StoredOK
  <2>2. \A q \in Projects \ edited : \A d \in listing'[q] : d[1] = project[q]
    BY <1>2 DEF IInv, StoredOK
  <2> QED
    BY <1>0, <1>6, <2>1, <2>2 DEF IInv, StoredOK
<1>12. NestedOK'
  <2>1. OfOneInstant(p, parent[p])
    BY DEF IInv, TypeOK, NestedOK, OfOneInstant
  <2>2. \A q \in Projects : \A d \in listing'[q] : OfOneInstant(q, d[2])
    BY <1>2, <2>1 DEF IInv, NestedOK
  <2>3. \A q \in Projects \ unlisted' : OfOneInstant(q, nested'[q])
    BY <1>0, <1>1, <1>7, <2>2 DEF IInv, NestedOK
  <2> QED
    BY <1>0, <2>2, <2>3 DEF IInv, NestedOK, OfOneInstant
<1>13. PhasesOK' /\ TrueOK'
  BY <1>0, <1>8 DEF IInv, PhasesOK, TrueOK, Contained, NoToken
<1>14. PagesOK'
  BY <1>0 DEF IInv, PagesOK, PageOf, Steady, SeenOrBehind, Rank, Matching
<1>15. TokenOK' /\ DoneOK'
  BY <1>0, <1>8 DEF TokenOK, DoneOK, NoToken
<1> QED
  BY <1>9, <1>10, <1>11, <1>12, <1>13, <1>14, <1>15 DEF IInv

\* What asking for the grants of p with token b leaves.
LEMMA AskFacts ==
  ASSUME TypeOK, Idle, NEW p \in Projects, NEW b \in Seq(Nat \ {0}), Len(b) <= 1, Ask(p, b)
  PROVE  /\ syncing = "granting" /\ p \in open
         /\ UNCHANGED <<home, project, parent, listing, syncing, unlisted, stored, nested>>
         /\ UNCHANGED <<been, stayed, edited, moved, upset, changes, moves>>
         /\ bag'[p] = b /\ \A q \in Projects \ {p} : bag'[q] = bag[q]
         /\ open' = (IF b = <<>> THEN open \ {p} ELSE open)
         /\ bag' \in [Projects -> Seq(Nat \ {0})]
         /\ \A q \in Projects : Len(bag'[q]) <= 1 /\ (bag'[q] # <<>> => q \in open')
<1>1. p \in open /\ bag' = [bag EXCEPT ![p] = b] /\ open' = (IF b = <<>> THEN open \ {p} ELSE open)
  BY DEF Ask
<1>0. /\ UNCHANGED <<home, project, parent, listing, syncing, unlisted, stored, nested>>
      /\ UNCHANGED <<been, stayed, edited, moved, upset, changes, moves>>
  BY DEF Ask, tableau, epoch, bounds
<1>2. bag'[p] = b /\ \A q \in Projects \ {p} : bag'[q] = bag[q]
  BY <1>1 DEF TypeOK
<1>3. bag' \in [Projects -> Seq(Nat \ {0})]
  BY <1>1 DEF TypeOK
<1>4. \A q \in Projects : Len(bag'[q]) <= 1 /\ (bag'[q] # <<>> => q \in open')
  <2>1. Len(bag'[p]) <= 1 /\ (bag'[p] # <<>> => p \in open')
    BY <1>1, <1>2
  <2>2. \A q \in Projects \ {p} : Len(bag'[q]) <= 1 /\ (bag'[q] # <<>> => q \in open')
    BY <1>1, <1>2 DEF TypeOK
  <2> QED
    BY <2>1, <2>2
<1> QED
  BY <1>0, <1>1, <1>2, <1>3, <1>4 DEF Idle

LEMMA OwnGrantsStep ==
  ASSUME IInv, NEW p \in Projects, OwnGrants(p)
  PROVE  IInv'
<1> DEFINE b == IF Walked(stored[p]) THEN <<1>> ELSE <<>>
<1>0. b \in Seq(Nat \ {0}) /\ Len(b) <= 1 /\ Ask(p, b) /\ (b # <<>> => b[1] = 1)
      /\ (b # <<>> <=> Walked(stored[p]))
  <2>1. Ask(p, b)
    BY DEF OwnGrants
  <2>2. <<1>> \in Seq(Nat \ {0}) /\ <<>> \in Seq(Nat \ {0}) /\ <<1>> # <<>>
        /\ Len(<<1>>) = 1 /\ <<1>>[1] = 1 /\ Len(<<>>) = 0
    OBVIOUS
  <2>3. CASE Walked(stored[p])
    BY <2>1, <2>2, <2>3
  <2>4. CASE ~Walked(stored[p])
    BY <2>1, <2>2, <2>4
  <2> QED
    BY <2>3, <2>4
<1>1. own' = own \cup {p} /\ pages' = pages /\ inherited' = inherited /\ bag[p] = <<>>
  BY DEF OwnGrants
<1> HIDE DEF b
<1>2. /\ syncing = "granting" /\ p \in open
      /\ UNCHANGED <<home, project, parent, listing, syncing, unlisted, stored, nested>>
      /\ UNCHANGED <<been, stayed, edited, moved, upset, changes, moves>>
      /\ bag'[p] = b /\ \A q \in Projects \ {p} : bag'[q] = bag[q]
      /\ open' = (IF b = <<>> THEN open \ {p} ELSE open)
      /\ bag' \in [Projects -> Seq(Nat \ {0})]
      /\ \A q \in Projects : Len(bag'[q]) <= 1 /\ (bag'[q] # <<>> => q \in open')
  BY <1>0, AskFacts DEF IInv
<1>3. TypeOK'
  BY <1>1, <1>2 DEF IInv, TypeOK, Contained
<1>4. Idle' /\ StoredOK' /\ NestedOK' /\ TrueOK'
  BY <1>1, <1>2, NestingStays DEF IInv, Idle, StoredOK, TrueOK, Contained
<1>5. PhasesOK'
  BY <1>0, <1>1, <1>2 DEF IInv, PhasesOK
<1>6. PagesOK'
  BY <1>1, <1>2 DEF IInv, PagesOK, PageOf, Steady, SeenOrBehind, Rank, Matching
<1>7. TokenOK'
  <2> SUFFICES ASSUME NEW q \in Projects, bag'[q] # <<>>, stored[q].name \notin upset
               PROVE  /\ bag'[q][1] > 1 => PageOf(pages, stored[q].name, bag'[q][1] - 1)
                      /\ ToldUpTo(pages, inherited, q, stored[q].name, bag'[q][1] - 1)
    BY <1>1, <1>2 DEF TokenOK
  <2>1. CASE q = p
    <3>1. bag'[q][1] = 1
      BY <1>0, <1>2, <2>1
    <3>2. \A t \in pages : ~(t.page <= 1 - 1)
      BY DEF IInv, TypeOK
    <3> QED
      BY <3>1, <3>2 DEF ToldUpTo
  <2>2. CASE q # p
    BY <1>2, <2>2 DEF IInv, TokenOK
  <2> QED
    BY <2>1, <2>2
<1>8. DoneOK'
  BY <1>0, <1>1, <1>2 DEF IInv, DoneOK, Steady
<1> QED
  BY <1>3, <1>4, <1>5, <1>6, <1>7, <1>8 DEF IInv

LEMMA WorkbookGrantsStep ==
  ASSUME IInv, NEW p \in Projects, WorkbookGrants(p)
  PROVE  IInv'
<1> DEFINE n == stored[p].name
           k == bag[p][1]
<1>0. PICK s \in Responses(n, k) :
        /\ pages' = pages \cup {s}
        /\ inherited' = inherited \cup {i \in s.items : i[1] = p}
        /\ Ask(p, AfterPage(bag[p], NextPage(k, s.total)))
  BY DEF WorkbookGrants
<1>1. bag[p] # <<>> /\ own' = own /\ k \in Nat \ {0} /\ Walked(stored[p]) /\ n \in SafeNames
  BY DEF IInv, TypeOK, PhasesOK, Walked, WorkbookGrants
<1> DEFINE b == AfterPage(bag[p], NextPage(k, s.total))
<1>2. /\ s.name = n /\ s.page = k /\ s.items \subseteq been /\ s.total \in Nat
      /\ pages' \subseteq [name : SafeNames, page : Nat \ {0}, total : Nat,
                           items : SUBSET (Projects \X Workbooks)]
      /\ s \notin pages => s = Page(n, k) /\ ~PageOf(pages, n, k)
  BY <1>0, <1>1, ResponseFacts DEF IInv
<1>3. /\ b \in Seq(Nat \ {0}) /\ Len(b) <= 1
      /\ (b = <<>> => s.total <= k * PageSize)
      /\ (b # <<>> => b[1] = k + 1)
  <2>1. CASE k * PageSize >= s.total
    <3>1. b = <<>>
      BY <2>1 DEF AfterPage, NextPage
    <3>2. k * PageSize \in Nat
      BY <1>1, ProjectGrantsAssumption
    <3> QED
      BY <1>2, <2>1, <3>1, <3>2
  <2>2. CASE ~(k * PageSize >= s.total)
    <3>1. b = <<k + 1>>
      BY <1>1, <2>2 DEF AfterPage, NextPage
    <3> QED
      BY <1>1, <3>1
  <2> QED
    BY <2>1, <2>2
<1> HIDE DEF b
<1>4. /\ syncing = "granting" /\ p \in open
      /\ UNCHANGED <<home, project, parent, listing, syncing, unlisted, stored, nested>>
      /\ UNCHANGED <<been, stayed, edited, moved, upset, changes, moves>>
      /\ bag'[p] = b /\ \A q \in Projects \ {p} : bag'[q] = bag[q]
      /\ open' = (IF b = <<>> THEN open \ {p} ELSE open)
      /\ bag' \in [Projects -> Seq(Nat \ {0})]
      /\ \A q \in Projects : Len(bag'[q]) <= 1 /\ (bag'[q] # <<>> => q \in open')
  BY <1>0, <1>3, AskFacts DEF IInv, b
<1> HIDE DEF n, k
<1>5. pages \subseteq pages' /\ inherited \subseteq inherited' /\ s \in pages'
      /\ \A t \in pages' : t \in pages \/ t = s
  BY <1>0
<1>6. TypeOK'
  <2>1. s.items \subseteq Projects \X Workbooks
    BY <1>2, <1>5 DEF IInv, TypeOK
  <2> QED
    BY <1>0, <1>1, <1>2, <1>4, <2>1 DEF IInv, TypeOK, Contained
<1>7. Idle' /\ StoredOK' /\ NestedOK' /\ PhasesOK'
  BY <1>1, <1>4, NestingStays DEF IInv, Idle, StoredOK, PhasesOK
<1>8. TrueOK'
  <2>1. \A i \in inherited' : i \in been /\ Walked(stored[i[1]])
    BY <1>0, <1>1, <1>2 DEF IInv, TrueOK
  <2> QED
    BY <1>2, <1>4, <1>5, <2>1 DEF IInv, TrueOK, Contained
<1>9. n \notin upset => \A j \in 1 .. k - 1 : PageOf(pages, n, j)
  <2> SUFFICES ASSUME n \notin upset, k > 1 PROVE \A j \in 1 .. k - 1 : PageOf(pages, n, j)
    BY <1>1
  <2>1. PageOf(pages, n, k - 1)
    BY <1>1 DEF IInv, TokenOK, n, k
  <2> QED
    BY <2>1 DEF IInv, PagesOK, PageOf
<1>10. \A t \in pages, q \in pages' : t.name = q.name /\ t.page = q.page => t = q
  <2>1. \A t \in pages : t.name = s.name /\ t.page = s.page => t = s
    BY <1>2 DEF IInv, PagesOK, PageOf
  <2> QED
    BY <1>5, <2>1 DEF IInv, PagesOK
<1>11. ASSUME NEW t \in pages', t.name \notin upset
      PROVE  /\ \A j \in 1 .. t.page : PageOf(pages', t.name, j)
             /\ \A i \in stayed : Steady(i, t.name) => SeenOrBehind(pages', t, i)
  <2>1. CASE t \in pages
    <3>1. \A j \in 1 .. t.page : PageOf(pages', t.name, j)
      BY <1>5, <1>11, <2>1 DEF IInv, PagesOK, PageOf
    <3>2. \A i \in stayed : Steady(i, t.name) => SeenOrBehind(pages', t, i)
      BY <1>5, <1>11, <2>1, SeenStays DEF IInv, PagesOK
    <3> QED
      BY <3>1, <3>2
  <2>2. CASE t \notin pages
    <3>1. t = s /\ t = Page(n, k)
      BY <1>2, <1>5, <2>2
    <3>2. \A j \in 1 .. k : PageOf(pages', n, j)
      <4>1. \A j \in 1 .. k - 1 : PageOf(pages', n, j)
        BY <1>2, <1>5, <1>9, <1>11, <3>1 DEF PageOf
      <4>2. PageOf(pages', n, k)
        BY <1>2, <1>5 DEF PageOf
      <4> QED
        BY <1>1, <4>1, <4>2
    <3>3. ASSUME NEW i \in stayed, Steady(i, n)
          PROVE  SeenOrBehind(pages', Page(n, k), i)
      <4>1. \A q \in pages' : q.page \in Nat
        BY <1>2
      <4>2. k > 1 => \E q \in pages' : q.name = n /\ q.page = k - 1 /\ SeenOrBehind(pages', q, i)
        <5> SUFFICES ASSUME k > 1
                     PROVE  \E q \in pages' : q.name = n /\ q.page = k - 1 /\ SeenOrBehind(pages', q, i)
          OBVIOUS
        <5>1. PICK q \in pages : q.name = n /\ q.page = k - 1
          BY <1>1, <1>2, <1>9, <1>11, <3>1 DEF PageOf
        <5>2. SeenOrBehind(pages, q, i)
          BY <1>2, <1>11, <3>1, <3>3, <5>1 DEF IInv, PagesOK
        <5> QED
          BY <1>5, <5>1, <5>2, SeenStays
      <4> QED
        BY <1>1, <1>5, <3>1, <3>3, <4>1, <4>2, NewPageMissesNobody DEF IInv
    <3> QED
      BY <1>2, <3>1, <3>2, <3>3
  <2> QED
    BY <2>1, <2>2
<1>12. PagesOK'
  <2>1. \A t, q \in pages' : t.name = q.name /\ t.page = q.page => t = q
    BY <1>5, <1>10
  <2> QED
    BY <1>4, <1>11, <2>1 DEF PagesOK, PageOf, Steady, SeenOrBehind, Rank, Matching
\* What is told after the step: all pages up to this one.
<1>13. n \notin upset => ToldUpTo(pages', inherited', p, n, k)
  <2> SUFFICES ASSUME n \notin upset, NEW t \in pages', t.name = n, t.page <= k,
                      NEW i \in t.items, i[1] = p
               PROVE  i \in inherited'
    BY DEF ToldUpTo
  <2>1. CASE t.page = k
    <3>1. t = s
      BY <1>2, <1>5, <1>10, <2>1
    <3> QED
      BY <1>0, <3>1
  <2>2. CASE t.page # k
    <3>1. t \in pages /\ t.page <= k - 1
      BY <1>1, <1>2, <1>5, <2>2
    <3> QED
      BY <1>1, <1>5, <3>1 DEF IInv, TokenOK, ToldUpTo, n, k
  <2> QED
    BY <2>1, <2>2
<1>14. TokenOK'
  <2> SUFFICES ASSUME NEW q \in Projects, bag'[q] # <<>>, stored[q].name \notin upset
               PROVE  /\ bag'[q][1] > 1 => PageOf(pages', stored[q].name, bag'[q][1] - 1)
                      /\ ToldUpTo(pages', inherited', q, stored[q].name, bag'[q][1] - 1)
    BY <1>4 DEF TokenOK, PageOf, ToldUpTo
  <2>1. CASE q = p
    <3>1. bag'[q][1] - 1 = k /\ stored[q].name = n
      BY <1>1, <1>3, <1>4, <2>1 DEF n
    <3>2. PageOf(pages', n, k) /\ ToldUpTo(pages', inherited', p, n, k)
      BY <1>2, <1>5, <1>13, <3>1 DEF PageOf
    <3> QED
      BY <2>1, <3>1, <3>2
  <2>2. CASE q # p
    <3> DEFINE m == stored[q].name
               j == bag[q][1] - 1
    <3>1. bag'[q] = bag[q] /\ bag[q][1] \in Nat \ {0}
      BY <1>4, <2>2 DEF IInv, TypeOK
    <3>2. (bag[q][1] > 1 => PageOf(pages, m, j)) /\ ToldUpTo(pages, inherited, q, m, j)
      BY <3>1 DEF IInv, TokenOK
    <3>3. ASSUME NEW t \in pages', t.name = m, t.page <= j
          PROVE  t \in pages
      <4>1. t.page \in Nat \ {0} /\ j >= 1
        BY <1>2, <3>1, <3>3
      <4>2. PICK r \in pages : r.name = m /\ r.page = j
        BY <3>1, <3>2, <4>1 DEF PageOf
      <4>3. PageOf(pages, m, t.page)
        BY <3>3, <4>1, <4>2 DEF IInv, PagesOK
      <4> QED
        BY <1>10, <3>3, <4>3 DEF PageOf
    <3> HIDE DEF m, j
    <3>4. ToldUpTo(pages', inherited', q, m, j)
      BY <1>5, <3>2, <3>3 DEF ToldUpTo
    <3>5. bag[q][1] > 1 => PageOf(pages', m, j)
      BY <1>5, <3>2 DEF PageOf
    <3> QED
      BY <3>1, <3>4, <3>5 DEF m, j
  <2> QED
    BY <2>1, <2>2
<1>15. DoneOK'
  <2> SUFFICES ASSUME NEW q \in Projects \ open', NEW i \in stayed, i[1] = q, Walked(stored[q]),
                      Steady(i, stored[q].name), stored[q].name \notin upset
               PROVE  i \in inherited'
    BY <1>4 DEF DoneOK, Steady
  <2>1. CASE q \in open
    <3>1. q = p /\ s.total <= k * PageSize /\ stored[q].name = n
      BY <1>3, <1>4, <2>1 DEF n
    <3>2. SeenOrBehind(pages', s, i)
      BY <1>2, <1>5, <1>11, <3>1
    <3>3. k * PageSize \in Nat
      BY <1>1, ProjectGrantsAssumption
    <3>4. \E t \in pages' : t.name = n /\ t.page <= k /\ i \in t.items
      BY <1>2, <3>1, <3>2, <3>3 DEF SeenOrBehind
    <3> QED
      BY <1>13, <3>1, <3>4 DEF ToldUpTo
  <2>2. CASE q \notin open
    BY <1>4, <1>5, <2>2 DEF IInv, DoneOK
  <2> QED
    BY <2>1, <2>2
<1> QED
  BY <1>6, <1>7, <1>8, <1>12, <1>14, <1>15 DEF IInv

LEMMA FailStep == IInv /\ Fail => IInv'
<1> SUFFICES ASSUME IInv, Fail PROVE IInv'
  OBVIOUS
<1> USE DEF Fail, Rest, tableau, cache, epoch
<1>1. TypeOK' /\ Idle' /\ StoredOK' /\ NestedOK'
  <2>1. TypeOK'
    BY DEF IInv, TypeOK, Contained, NoToken, Flat, Nestings, bounds
  <2> QED
    BY <2>1 DEF IInv, Idle, StoredOK, NestedOK, OfOneInstant, NoToken
<1>2. PhasesOK' /\ TrueOK'
  BY DEF IInv, PhasesOK, TrueOK, Contained, NoToken
<1>3. PagesOK' /\ TokenOK' /\ DoneOK'
  BY DEF IInv, PagesOK, PageOf, Steady, SeenOrBehind, Rank, Matching, TokenOK, DoneOK, NoToken
<1> QED
  BY <1>1, <1>2, <1>3 DEF IInv

LEMMA SucceedStep == IInv /\ Succeed => IInv'
<1> SUFFICES ASSUME IInv, Succeed PROVE IInv'
  OBVIOUS
<1> USE DEF Succeed, Rest, tableau, NewEpoch
<1>1. Contained' = Contained /\ Contained \subseteq Projects \X Workbooks
  BY DEF IInv, TypeOK, Contained
<1>2. TypeOK' /\ Idle' /\ StoredOK' /\ NestedOK'
  <2>1. TypeOK'
    BY <1>1 DEF IInv, TypeOK, NoToken, Flat, Blank, Nestings, bounds
  <2> QED
    BY <2>1 DEF IInv, Idle, StoredOK, NestedOK, OfOneInstant, NoToken, Blank
<1>3. PhasesOK' /\ TrueOK' /\ PagesOK' /\ TokenOK' /\ DoneOK'
  BY <1>1 DEF PhasesOK, TrueOK, PagesOK, TokenOK, DoneOK, NoToken
<1> QED
  BY <1>2, <1>3 DEF IInv

LEMMA ExpireStep == IInv /\ Expire => IInv'
<1> SUFFICES ASSUME IInv, Expire PROVE IInv'
  OBVIOUS
<1> DEFINE Same == /\ UNCHANGED <<home, project, parent, syncing, unlisted, stored, nested, open>>
                   /\ UNCHANGED <<bag, own, inherited, been, stayed, edited, moved, changes, moves>>
<1>1. /\ Same
      /\ listing' \in [Projects -> SUBSET ([name : Names, locked : BOOLEAN] \X (Projects \cup {"none"}))]
      /\ \A p \in Projects : listing'[p] \subseteq listing[p]
      /\ pages' \subseteq pages /\ upset \subseteq upset'
      /\ upset' \subseteq Names
      /\ \A t \in pages : t.name \notin upset' => t \in pages'
  <2>1. Same
    BY DEF Expire, tableau, progress, bounds
  <2>2. CASE \E s \in pages : pages' = pages \ {s} /\ upset' = upset \cup {s.name} /\ listing' = listing
    BY <2>1, <2>2 DEF IInv, TypeOK, SafeNames
  <2>3. CASE /\ \E p \in Projects : listing' = [listing EXCEPT ![p] = {}]
             /\ pages' = pages /\ upset' = upset
    <3>1. PICK p \in Projects : listing' = [listing EXCEPT ![p] = {}]
      BY <2>3
    <3>2. \A q \in Projects : listing'[q] = IF q = p THEN {} ELSE listing[q]
      BY <3>1 DEF IInv, TypeOK
    <3> QED
      BY <2>1, <2>3, <3>1, <3>2 DEF IInv, TypeOK
  <2> QED
    BY <2>1, <2>2, <2>3 DEF Expire
<1>2. TypeOK' /\ Idle' /\ StoredOK' /\ NestedOK'
  BY <1>1 DEF IInv, TypeOK, Contained, Idle, StoredOK, NestedOK, OfOneInstant
<1>3. PhasesOK' /\ TrueOK'
  BY <1>1 DEF IInv, PhasesOK, TrueOK, Contained
<1>4. PagesOK' /\ TokenOK'
  BY <1>1 DEF IInv, PagesOK, PageOf, Steady, SeenOrBehind, Rank, Matching, TokenOK, ToldUpTo
<1>5. DoneOK'
  BY <1>1 DEF IInv, DoneOK, Steady
<1> QED
  BY <1>2, <1>3, <1>4, <1>5 DEF IInv

\* Whatever is changed in Tableau.
LEMMA ObserveStep ==
  ASSUME IInv, Observe, edited \subseteq edited', edited' \subseteq Projects,
         home' \in [Workbooks -> Projects \cup {"none"}], project' \in Settings,
         \A p \in Projects \ edited' : project'[p] = project[p]
  PROVE  IInv'
<1>1. /\ UNCHANGED <<pages, listing, syncing, unlisted, stored, nested, open, bag, own, inherited>>
      /\ UNCHANGED <<parent, moved, moves>>
      /\ been' = been \cup Contained' /\ stayed' = stayed \cap Contained'
      /\ upset' = upset \cup {n \in Names : ~(Matching(n) \subseteq Matching(n)')}
      /\ changes' = changes + 1
  BY DEF Observe, cache, progress
<1>2. Contained' \subseteq Projects \X Workbooks
  BY DEF Contained
<1>3. TypeOK'
  BY <1>1, <1>2 DEF IInv, TypeOK
<1>4. Idle' /\ StoredOK' /\ NestedOK'
  BY <1>1, NestingStays DEF IInv, Idle, StoredOK
<1>5. PhasesOK' /\ TrueOK'
  BY <1>1 DEF IInv, PhasesOK, TrueOK
<1>6. upset \subseteq upset' /\ \A n \in Names \ upset' : Matching(n) \subseteq Matching(n)'
  BY <1>1
<1>7. ASSUME NEW n, NEW i \in stayed', Steady(i, n)'
      PROVE  i \in stayed /\ Steady(i, n) /\ i[2] \in Matching(n)
  <2>1. i \in stayed /\ i \in Contained /\ i[1] \in Projects \ edited'
    BY <1>1, <1>2, <1>7 DEF IInv, TypeOK, Steady
  <2>2. Steady(i, n)
    BY <1>7, <2>1 DEF Steady
  <2> QED
    BY <2>1, <2>2, ContainedFacts DEF IInv, Steady
<1>8. ASSUME NEW s \in pages, s.name \notin upset', NEW i \in stayed', Steady(i, s.name)'
      PROVE  SeenOrBehind(pages, s, i)'
  <2> DEFINE n == s.name
  <2>1. SeenOrBehind(pages, s, i) /\ i[2] \in Matching(n)
    BY <1>6, <1>7, <1>8 DEF IInv, PagesOK
  <2>2. s.page \in Nat /\ s.total \in Nat /\ n \in Names
    BY DEF IInv, TypeOK, SafeNames
  <2>3. Matching(n) \subseteq Workbooks /\ Matching(n)' \subseteq Workbooks
    BY <1>3 DEF Matching
  <2>4. /\ Rank(i[2], Matching(n)) \in Nat /\ Rank(i[2], Matching(n)') \in Nat
        /\ Rank(i[2], Matching(n)) <= Rank(i[2], Matching(n)')
    BY <1>6, <1>8, <2>1, <2>2, <2>3, RankFacts
  <2>5. s.page * PageSize \in Nat
    BY <2>2, ProjectGrantsAssumption
  <2>6. CASE \E t \in pages : t.name = s.name /\ t.page <= s.page /\ i \in t.items
    BY <1>1, <2>6 DEF SeenOrBehind
  <2>7. CASE s.page * PageSize < Rank(i[2], Matching(n)) /\ s.page * PageSize < s.total
    <3>1. s.page * PageSize < Rank(i[2], Matching(n)')
      BY <2>4, <2>5, <2>7
    <3> QED
      BY <2>7, <3>1 DEF SeenOrBehind, Rank
  <2> QED
    BY <2>1, <2>6, <2>7 DEF SeenOrBehind
<1>9. PagesOK'
  <2>1. \A s \in pages : s.name \notin upset' => \A j \in 1 .. s.page : PageOf(pages, s.name, j)
    BY <1>6 DEF IInv, PagesOK
  <2>2. \A s, t \in pages : s.name = t.name /\ s.page = t.page => s = t
    BY DEF IInv, PagesOK
  <2>3. \A s \in pages : s.name \notin upset' =>
          \A i \in stayed' : Steady(i, s.name)' => SeenOrBehind(pages, s, i)'
    BY <1>8
  <2> QED
    BY <1>1, <2>1, <2>2, <2>3 DEF PagesOK, PageOf
<1>10. TokenOK'
  BY <1>1, <1>6 DEF IInv, TokenOK, PageOf, ToldUpTo
<1>11. DoneOK'
  <2> SUFFICES ASSUME syncing = "granting", NEW p \in Projects \ open, NEW i \in stayed', i[1] = p,
                      Walked(stored[p]), Steady(i, stored[p].name)', stored[p].name \notin upset'
               PROVE  i \in inherited
    BY <1>1 DEF DoneOK
  <2>1. PICK n : n = stored[p].name
    OBVIOUS
  <2>2. Steady(i, n)'
    BY <1>1, <2>1 DEF Steady
  <2>3. i \in stayed /\ Steady(i, n)
    BY <1>7, <2>2
  <2>4. stored[p].name \notin upset
    BY <1>1, <1>6
  <2> QED
    BY <2>1, <2>3, <2>4 DEF IInv, DoneOK
<1> QED
  BY <1>3, <1>4, <1>5, <1>9, <1>10, <1>11 DEF IInv

LEMMA MoveStep ==
  ASSUME IInv, NEW w \in Workbooks, NEW h \in Projects \cup {"none"}, Move(w, h)
  PROVE  IInv'
<1>1. home' \in [Workbooks -> Projects \cup {"none"}] /\ project' = project /\ edited' = edited
  BY DEF IInv, TypeOK, Move
<1>2. project' \in Settings /\ edited' \subseteq Projects
  BY <1>1 DEF IInv, TypeOK
<1>3. Observe
  BY DEF Move
<1> QED
  BY <1>1, <1>2, <1>3, ObserveStep

LEMMA EditStep ==
  ASSUME IInv, NEW p \in Projects, NEW s \in [name : Names, locked : BOOLEAN], Edit(p, s)
  PROVE  IInv'
<1>1. project' \in Settings /\ edited' = edited \cup {p} /\ edited' \subseteq Projects
      /\ \A q \in Projects \ edited' : project'[q] = project[q]
  BY DEF IInv, TypeOK, Settings, Edit
<1>2. home' \in [Workbooks -> Projects \cup {"none"}]
  BY DEF IInv, TypeOK, Edit
<1>3. Observe
  BY DEF Edit
<1> QED
  BY <1>1, <1>2, <1>3, ObserveStep

LEMMA NestStep ==
  ASSUME IInv, NEW p \in Projects, NEW q \in Projects \cup {"none"}, Nest(p, q)
  PROVE  IInv'
<1>1. /\ parent' = [parent EXCEPT ![p] = q] /\ Forest(parent') /\ moved' = moved \cup {p}
      /\ moves' = moves + 1
      /\ UNCHANGED <<home, project, pages, listing, syncing, unlisted, stored, nested, open>>
      /\ UNCHANGED <<bag, own, inherited, been, stayed, edited, upset, changes>>
  BY DEF Nest, cache, progress
<1>2. TypeOK' /\ Idle' /\ StoredOK'
  <2>1. TypeOK'
    BY <1>1 DEF IInv, TypeOK, Nestings, Contained
  <2> QED
    BY <1>1, <2>1 DEF IInv, Idle, StoredOK
<1>3. NestedOK'
  <2>1. \A r \in Projects \ moved' : r \notin moved /\ parent'[r] = parent[r]
    BY <1>1 DEF IInv, TypeOK, Nestings
  <2>2. \A r, t : OfOneInstant(r, t) => OfOneInstant(r, t)'
    BY <2>1 DEF OfOneInstant
  <2> QED
    BY <1>1, <2>2 DEF IInv, NestedOK
<1>4. PhasesOK' /\ TrueOK'
  BY <1>1 DEF IInv, PhasesOK, TrueOK, Contained
<1>5. PagesOK'
  BY <1>1 DEF IInv, PagesOK, PageOf, Steady, SeenOrBehind, Rank, Matching
<1>6. TokenOK' /\ DoneOK'
  BY <1>1 DEF IInv, TokenOK, PageOf, ToldUpTo, DoneOK, Steady
<1> QED
  BY <1>2, <1>3, <1>4, <1>5, <1>6 DEF IInv

\* The invariant that everything rests on.
THEOREM Invariance == Spec => []IInv
<1>1. IInv /\ [Next]_vars => IInv'
  <2> SUFFICES ASSUME IInv, [Next]_vars PROVE IInv'
    OBVIOUS
  <2>1. CASE UNCHANGED vars
    <3> USE <2>1 DEF vars, tableau, cache, progress, epoch, bounds
    <3>1. TypeOK' /\ Idle' /\ StoredOK' /\ NestedOK'
      BY NestingStays DEF IInv, TypeOK, Contained, Idle, StoredOK
    <3>2. PhasesOK' /\ TrueOK' /\ TokenOK' /\ DoneOK'
      BY DEF IInv, PhasesOK, TrueOK, Contained, TokenOK, PageOf, ToldUpTo, DoneOK, Steady
    <3>3. PagesOK'
      BY DEF IInv, PagesOK, PageOf, Steady, SeenOrBehind, Rank, Matching
    <3> QED
      BY <3>1, <3>2, <3>3 DEF IInv
  <2>2. CASE \E p \in Projects : Grants(p)
    BY <2>2, OwnGrantsStep, WorkbookGrantsStep DEF Grants
  <2>3. CASE \E w \in Workbooks, h \in Projects \cup {"none"} : Move(w, h)
    BY <2>3, MoveStep
  <2>4. CASE \E p \in Projects, s \in [name : Names, locked : BOOLEAN] : Edit(p, s)
    BY <2>4, EditStep
  <2>5. CASE \E p \in Projects, q \in Projects \cup {"none"} : Nest(p, q)
    BY <2>5, NestStep
  <2> QED
    BY <2>1, <2>2, <2>3, <2>4, <2>5, BeginStep, ListStep, FailStep, SucceedStep, ExpireStep DEF Next
<1> QED
  BY <1>1, InitStep, PTL DEF Spec
-----------------------------------------------------------------------------
\* Every variable of the sync of projects keeps its type, and the bag of page tokens
\* never holds more than one state.
THEOREM Typing == Spec => []TypeOK
BY Invariance, PTL DEF IInv

\* projectBuilder.Grants tells of no workbook that was never in the project, though
\* projects of one name share a listing, nor, of a project that was not edited, of one
\* when the project is not locked.
THEOREM OnlyItsOwn == Spec => []InheritsFromItsOwn
<1>1. IInv => InheritsFromItsOwn
  <2> SUFFICES ASSUME IInv, NEW i \in inherited
               PROVE  i \in been /\ (i[1] \notin edited => Walked(project[i[1]]))
    BY DEF InheritsFromItsOwn
  <2>1. syncing = "granting" /\ i[1] \in Projects /\ unlisted = {}
    BY DEF IInv, Idle, TypeOK
  <2>2. i \in been /\ Walked(stored[i[1]])
    BY DEF IInv, TrueOK
  <2>3. i[1] \notin edited => stored[i[1]] = project[i[1]]
    BY <2>1 DEF IInv, StoredOK
  <2> QED
    BY <2>2, <2>3
<1> QED
  BY <1>1, Invariance, PTL

\* The walk of projectBuilder.Grants misses no workbook that was in the locked project
\* all along, whatever comes in meanwhile and whichever pages a failed sync has left.
THEOREM NoneIsMissed == Spec => []AllInherit
<1>1. IInv => AllInherit
  <2> SUFFICES ASSUME IInv, Synced PROVE AllInherit
    BY DEF AllInherit
  <2>1. syncing = "granting" /\ open = {} /\ unlisted = {}
    BY DEF IInv, Idle, Synced
  <2>2. own = Projects
    BY <2>1 DEF IInv, PhasesOK, TypeOK
  <2>3. ASSUME NEW i \in stayed, Walked(project[i[1]]), i[1] \notin edited,
               project[i[1]].name \notin upset
        PROVE  i \in inherited
    <3>1. i[1] \in Projects
      BY ContainedFacts DEF IInv, TypeOK
    <3>2. stored[i[1]] = project[i[1]]
      BY <2>1, <2>3, <3>1 DEF IInv, StoredOK
    <3> QED
      BY <2>1, <2>3, <3>1, <3>2 DEF IInv, DoneOK, Steady
  <2> QED
    BY <2>2, <2>3 DEF AllInherit
<1> QED
  BY <1>1, Invariance, PTL

\* The proxy grants that projectBuilder.Grants makes of the parents stored page by page
\* form a cycle only through two projects that were moved since the cache was last emptied:
\* with one, or none, all of the cycle would have been so at one instant.
THEOREM KnotsAreOfMoves == Spec => []CyclesTakeTwoMoves
<1>1. IInv => CyclesTakeTwoMoves
  <2> SUFFICES ASSUME IInv, NEW S \in SUBSET own, S # {},
                      \A p \in S : \E q \in S : <<p, q>> \in Proxies,
                      \A p, q \in S \cap moved : p = q
               PROVE  FALSE
    BY DEF CyclesTakeTwoMoves
  <2>1. S \subseteq Projects /\ syncing = "granting" /\ unlisted = {}
    BY DEF IInv, TypeOK, Idle
  <2>2. \A p \in S : nested[p] \in S
    BY DEF Proxies
  <2>3. \A p \in S : OfOneInstant(p, nested[p])
    BY <2>1 DEF IInv, NestedOK
  <2>4. \A p \in S \ moved : nested[p] = parent[p]
    BY <2>1, <2>3 DEF OfOneInstant
  <2>5. CASE S \cap moved = {}
    <3>1. \A p \in S : parent[p] \in S
      BY <2>2, <2>4, <2>5
    <3> QED
      BY <2>1, <3>1 DEF IInv, NestedOK, Forest
  <2>6. ASSUME NEW r \in S \cap moved
        PROVE  FALSE
    <3>1. PICK N \in Nestings : /\ Forest(N) /\ N[r] = nested[r]
                               /\ \A p \in Projects \ moved : N[p] = parent[p]
      BY <2>3, <2>6 DEF OfOneInstant
    <3>2. \A p \in S : N[p] = nested[p]
      BY <2>1, <2>4, <2>6, <3>1
    <3> QED
      BY <2>1, <2>2, <3>1, <3>2 DEF Forest
  <2> QED
    BY <2>5, <2>6
<1> QED
  BY <1>1, Invariance, PTL
-----------------------------------------------------------------------------
Most == Cardinality(Workbooks)

\* No response tells of more workbooks than there are, and no token goes beyond them.
FewPages ==
  /\ \A s \in pages : s.total <= Most
  /\ \A p \in Projects : bag[p] # <<>> => bag[p][1] <= Most + 1

\* How many more calls of Grants project p can need.
CallsLeft(p) == IF p \notin open THEN 0
                ELSE IF bag[p] = <<>> THEN Most + 2 ELSE Most + 2 - bag[p][1]

LEMMA MostFacts ==
  /\ Most \in Nat
  /\ \A n : Cardinality(Matching(n)) \in Nat /\ Cardinality(Matching(n)) <= Most
BY FS_Subset, FS_CardinalityType, ProjectGrantsAssumption DEF Matching, Most

\* There are at least as many workbooks as pages.
LEMMA PagesAreFew ==
  ASSUME NEW k \in Nat \ {0}, NEW m \in Nat, m <= Most, ~(k * PageSize >= m)
  PROVE  k + 1 <= Most
<1>1. PageSize \in Nat /\ PageSize >= 1
  BY ProjectGrantsAssumption
<1>2. k * PageSize \in Nat /\ k <= k * PageSize
  BY <1>1
<1> QED
  BY <1>2, MostFacts

\* A token of one page, or none.
LEMMA TokenFacts ==
  /\ <<>> \in Seq(Nat \ {0}) /\ Len(<<>>) = 0
  /\ \A m \in Nat \ {0} : /\ <<m>> \in Seq(Nat \ {0}) /\ Len(<<m>>) = 1
                          /\ <<m>> # <<>> /\ <<m>>[1] = m
OBVIOUS

\* A call of the second phase of Grants.
LEMMA WorkbookGrantsFew ==
  ASSUME IInv, FewPages, NEW p \in Projects, WorkbookGrants(p)
  PROVE  FewPages' /\ CallsLeft(p)' < CallsLeft(p)
<1> DEFINE n == stored[p].name
           k == bag[p][1]
<1>0. PICK s \in Responses(n, k) :
        /\ pages' = pages \cup {s}
        /\ Ask(p, AfterPage(bag[p], NextPage(k, s.total)))
  BY DEF WorkbookGrants
<1>1. bag[p] # <<>> /\ k \in Nat \ {0} /\ n \in SafeNames
  BY DEF IInv, TypeOK, PhasesOK, Walked, WorkbookGrants
<1>2. s.total \in Nat /\ s.total <= Most
  <2>1. s.total \in Nat
    BY <1>1, ResponseFacts DEF IInv
  <2>2. CASE s \in pages
    BY <2>1, <2>2 DEF FewPages
  <2>3. CASE s \notin pages
    <3>1. s = Page(n, k)
      BY <1>1, <2>3, ResponseFacts DEF IInv
    <3>2. s.total = Cardinality(Matching(n))
      BY <3>1 DEF Page
    <3> QED
      BY <2>1, <3>2, MostFacts
  <2> QED
    BY <2>2, <2>3
<1> DEFINE b == AfterPage(bag[p], NextPage(k, s.total))
<1>3. b = <<>> \/ (b = <<k + 1>> /\ k + 1 <= Most)
  <2>1. CASE k * PageSize >= s.total
    BY <2>1 DEF AfterPage, NextPage
  <2>2. CASE ~(k * PageSize >= s.total)
    <3>1. b = <<k + 1>>
      BY <1>1, <2>2 DEF AfterPage, NextPage
    <3> QED
      BY <1>1, <1>2, <2>2, <3>1, PagesAreFew
  <2> QED
    BY <2>1, <2>2
<1> HIDE DEF b
<1>4. b \in Seq(Nat \ {0}) /\ Len(b) <= 1 /\ (b # <<>> => b[1] = k + 1 /\ k + 1 <= Most)
  <2>1. CASE b = <<>>
    BY <2>1, TokenFacts
  <2>2. CASE b = <<k + 1>> /\ k + 1 <= Most
    <3>1. k + 1 \in Nat \ {0}
      BY <1>1
    <3>2. b \in Seq(Nat \ {0}) /\ Len(b) = 1 /\ b[1] = k + 1
      BY <2>2, <3>1, TokenFacts
    <3> QED
      BY <2>2, <3>2
  <2> QED
    BY <1>3, <2>1, <2>2
<1>5. Ask(p, b)
  BY <1>0 DEF b
<1>6. /\ p \in open /\ bag'[p] = b /\ \A q \in Projects \ {p} : bag'[q] = bag[q]
      /\ open' = (IF b = <<>> THEN open \ {p} ELSE open)
  BY <1>4, <1>5, AskFacts DEF IInv
<1>7. FewPages'
  <2>1. \A t \in pages' : t.total <= Most
    BY <1>0, <1>2 DEF FewPages
  <2>2. \A q \in Projects : bag'[q] # <<>> => bag'[q][1] <= Most + 1
    BY <1>1, <1>4, <1>6, MostFacts DEF FewPages
  <2> QED
    BY <2>1, <2>2 DEF FewPages
<1>8. k <= Most + 1
  BY <1>1 DEF FewPages
<1> QED
  BY <1>1, <1>4, <1>6, <1>7, <1>8, MostFacts DEF CallsLeft

\* The call of the first.
LEMMA OwnGrantsFew ==
  ASSUME IInv, FewPages, NEW p \in Projects, OwnGrants(p)
  PROVE  FewPages' /\ CallsLeft(p)' < CallsLeft(p)
<1> DEFINE b == IF Walked(stored[p]) THEN <<1>> ELSE <<>>
<1>1. Ask(p, b) /\ bag[p] = <<>> /\ pages' = pages
  BY DEF OwnGrants
<1>2. b = <<>> \/ b = <<1>>
  OBVIOUS
<1> HIDE DEF b
<1>3. b \in Seq(Nat \ {0}) /\ Len(b) <= 1 /\ (b # <<>> => b[1] = 1)
  <2>1. CASE b = <<>>
    BY <2>1, TokenFacts
  <2>2. CASE b = <<1>>
    BY <2>2, TokenFacts
  <2> QED
    BY <1>2, <2>1, <2>2
<1>4. /\ p \in open /\ bag'[p] = b /\ \A q \in Projects \ {p} : bag'[q] = bag[q]
      /\ open' = (IF b = <<>> THEN open \ {p} ELSE open)
  BY <1>1, <1>3, AskFacts DEF IInv
<1>5. FewPages'
  BY <1>1, <1>3, <1>4, MostFacts DEF FewPages
<1> QED
  BY <1>1, <1>3, <1>4, <1>5, MostFacts DEF CallsLeft

\* Each call of Grants for p uses up one of those it can need.
CountsDown == \A p \in Projects : CallsLeft(p) \in Nat /\ (Grants(p) => CallsLeft(p)' < CallsLeft(p))

\* Whatever comes into the listing between two pages, and whichever pages are cached, the
\* Grants of a project take no more calls than there are workbooks, and two: each call
\* ends them, or moves the page token on, and the token never goes back to the first phase
\* (projectBuilder.Grants; the safety half of GrantsEnd).
THEOREM GrantsRunOut == Spec => [][CountsDown]_vars
<1>1. Init => FewPages
  BY DEF Init, FewPages, NoToken
<1>2. IInv /\ FewPages /\ [Next]_vars => FewPages'
  <2> SUFFICES ASSUME IInv, FewPages, [Next]_vars PROVE FewPages'
    OBVIOUS
  <2>1. ASSUME UNCHANGED bag \/ bag' = NoToken, pages' \subseteq pages PROVE FewPages'
    BY <2>1, MostFacts DEF FewPages, NoToken
  <2>2. ASSUME NEW p \in Projects, Grants(p) PROVE FewPages'
    BY <2>2, OwnGrantsFew, WorkbookGrantsFew DEF Grants
  <2>3. CASE \/ Begin \/ Fail \/ Succeed \/ Expire \/ UNCHANGED vars
             \/ \E p \in Projects : List(p)
    BY <2>1, <2>3 DEF Begin, List, Fail, Succeed, Rest, Expire, vars, cache, progress
  <2>4. CASE \/ \E w \in Workbooks, h \in Projects \cup {"none"} : Move(w, h)
             \/ \E p \in Projects, s \in [name : Names, locked : BOOLEAN] : Edit(p, s)
             \/ \E p \in Projects, q \in Projects \cup {"none"} : Nest(p, q)
    BY <2>1, <2>4 DEF Move, Edit, Nest, Observe, cache, progress
  <2> QED
    BY <2>2, <2>3, <2>4 DEF Next
<1>3. IInv /\ FewPages => CountsDown
  <2> SUFFICES ASSUME IInv, FewPages, NEW p \in Projects
               PROVE  CallsLeft(p) \in Nat /\ (Grants(p) => CallsLeft(p)' < CallsLeft(p))
    BY DEF CountsDown
  <2>1. bag[p] # <<>> => bag[p][1] \in Nat /\ bag[p][1] <= Most + 1
    BY DEF IInv, TypeOK, FewPages
  <2>2. CallsLeft(p) \in Nat
    BY <2>1, MostFacts DEF CallsLeft
  <2> QED
    BY <2>2, OwnGrantsFew, WorkbookGrantsFew DEF Grants
<1> QED
  BY <1>1, <1>2, <1>3, Invariance, PTL DEF Spec
=============================================================================
