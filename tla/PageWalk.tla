------------------------------ MODULE PageWalk ------------------------------
(***************************************************************************)
(* Walking a paginated Tableau listing page by page while the listing      *)
(* changes and some pages come out of the response cache: GetUsers,        *)
(* GetGroups, GetGroupUsers, GetProjects, GetWorkbooks and                 *)
(* ListIdpConfigurations of pkg/client/client.go, called in turn by a      *)
(* sync with the token the previous page returned.                         *)
(*                                                                         *)
(* The listing is kept as the rank of every item (0 when it is not there), *)
(* which is all that offset pagination sees of it: page p holds the ranks  *)
(* from (p - 1) * PageSize + 1 to p * PageSize.  With a filter, an item    *)
(* that stops matching has been removed.                                   *)
(*                                                                         *)
(* The sync engine and the response cache are outside src/pkg: a sync that *)
(* fails leaves the cached pages to the next one in the same process, a    *)
(* sync that succeeds ends with a Cleanup that empties the cache, and any  *)
(* entry may be dropped at any time (expiry, eviction).                    *)
(***************************************************************************)
EXTENDS Integers, FiniteSets

CONSTANTS Items,    \* what can be listed
          PageSize  \* defaultPageSize

ASSUME PageWalkAssumption == PageSize \in Nat \ {0} /\ IsFiniteSet(Items)

VARIABLES
  rank, total,  \* Tableau's listing now
  cache,        \* cached responses: [page, rank, total, size]
  status,       \* "idle", "walking" or "done"
  page,         \* the page the next token names
  collected,    \* what the walk has returned to the sync
  \* history
  last,         \* the response the walk used last
  stable,       \* items present ever since the cache was last emptied
  ever,         \* items present at some instant since then
  mishaps       \* what happened since then, see Mishaps

listing == <<rank, total>>
walk    == <<status, page, collected, last>>
epoch   == <<stable, ever>>
vars    == <<listing, cache, walk, epoch, mishaps>>

\* failed: a sync has failed; removed: an item was removed; older: the walk
\* used a response older than one it had used before; short: the walk was
\* ended by a response without a usable pageSize.
Mishaps == {"failed", "removed", "older", "short"}

Present == {i \in Items : rank[i] > 0}

NoResponse == [page |-> 0, rank |-> [i \in Items |-> 0], total |-> 0, size |-> 0]

\* The items on page p of response s.
OnPage(s, p) == {i \in Items : (p - 1) * PageSize < s.rank[i] /\ s.rank[i] <= p * PageSize}

\* MUTANT: pages are counted from 0 here, and from 1 in the token.
NextPageFromZero(p, s) == IF s.size <= 0 \/ (p + 1) * s.size >= s.total THEN 0 ELSE p + 1

\* MUTANT: the token names the page it came with.
NextPageStuck(p, s) == IF s.size <= 0 \/ p * s.size >= s.total THEN 0 ELSE p

\* getNextPageToken: the page after p of response s, 0 for the empty token.
NextPage(p, s) == IF s.size <= 0 \/ p * s.size >= s.total THEN 0 ELSE p + 1
-----------------------------------------------------------------------------
Init ==
  /\ total \in 0 .. Cardinality(Items)
  /\ rank \in [Items -> 0 .. total]
  /\ \A n \in 1 .. total : \E i \in Items : rank[i] = n
  /\ \A i, j \in Present : rank[i] = rank[j] => i = j
  /\ cache = {}
  /\ status = "idle" /\ page = 1 /\ collected = {}
  /\ last = NoResponse /\ stable = Present /\ ever = Present /\ mishaps = {}

\* The sync asks for the first page, with the empty token.
Begin ==
  /\ status = "idle"
  /\ status' = "walking"
  /\ UNCHANGED <<listing, cache, page, collected, last, epoch, mishaps>>

\* The client returns the items of response s and the token of the next page.
Use(s) ==
  /\ collected' = collected \cup OnPage(s, page)
  /\ mishaps' = mishaps \cup (IF s.total < last.total THEN {"older"} ELSE {})
                         \cup (IF s.size <= 0 THEN {"short"} ELSE {})
  /\ last' = s
  /\ \/ /\ NextPage(page, s) = 0
        /\ status' = "done"
        /\ UNCHANGED page
     \/ /\ NextPage(page, s) # 0
        /\ page' = NextPage(page, s)
        /\ UNCHANGED status

\* The page is not in the cache: Tableau answers, and the answer is cached.
\* Its pagination object may lack a usable pageSize.
FetchLive ==
  /\ status = "walking"
  /\ \A e \in cache : e.page # page
  /\ \E size \in {PageSize, 0} :
       LET s == [page |-> page, rank |-> rank, total |-> total, size |-> size]
       IN cache' = cache \cup {s} /\ Use(s)
  /\ UNCHANGED <<listing, epoch>>

\* The page is in the cache.
FetchCached(e) ==
  /\ status = "walking"
  /\ e.page = page
  /\ Use(e)
  /\ UNCHANGED <<listing, cache, epoch>>

\* MUTANT: an empty token stands for page 0.
RestAtZero ==
  /\ status' = "idle" /\ page' = 0 /\ collected' = {}
  /\ last' = NoResponse

\* The next walk starts with the empty token, which parsePageToken reads as 1.
Rest ==
  /\ status' = "idle" /\ page' = 1 /\ collected' = {}
  /\ last' = NoResponse

\* The sync fails, on this listing or on a later one.  The cache survives.
Fail ==
  /\ status # "idle"
  /\ Rest
  /\ mishaps' = (mishaps \ {"older", "short"}) \cup {"failed"}
  /\ UNCHANGED <<listing, cache, epoch>>

\* MUTANT: a sync that succeeds leaves the cache alone.
SucceedWithoutCleanup ==
  /\ status = "done"
  /\ Rest
  /\ stable' = Present /\ ever' = Present /\ mishaps' = {}
  /\ UNCHANGED <<listing, cache>>

\* The sync succeeds and its Cleanup empties the cache.
Succeed ==
  /\ status = "done"
  /\ Rest
  /\ cache' = {}
  /\ stable' = Present /\ ever' = Present /\ mishaps' = {}
  /\ UNCHANGED listing

\* A cached response expires or is evicted.
Expire(e) ==
  /\ cache' = cache \ {e}
  /\ UNCHANGED <<listing, walk, epoch, mishaps>>

\* Somebody adds item i, which takes rank n.
Insert(i, n) ==
  /\ rank[i] = 0
  /\ total' = total + 1
  /\ rank' = [j \in Items |-> IF j = i THEN n
                              ELSE IF rank[j] >= n THEN rank[j] + 1 ELSE rank[j]]
  /\ ever' = ever \cup {i}
  /\ UNCHANGED <<cache, walk, stable, mishaps>>

\* Somebody removes item i.
Remove(i) ==
  /\ rank[i] > 0
  /\ total' = total - 1
  /\ rank' = [j \in Items |-> IF j = i THEN 0
                              ELSE IF rank[j] > rank[i] THEN rank[j] - 1 ELSE rank[j]]
  /\ mishaps' = mishaps \cup {"removed"}
  /\ stable' = stable \ {i}
  /\ UNCHANGED <<cache, walk, ever>>

Fetch == FetchLive \/ \E e \in cache : FetchCached(e)

Next ==
  \/ Begin \/ Fetch \/ Fail \/ Succeed
  \/ \E e \in cache : Expire(e)
  \/ \E i \in Items : Remove(i) \/ \E n \in 1 .. total + 1 : Insert(i, n)

Spec == Init /\ [][Next]_vars

\* The sync engine keeps asking for the page the token names until the token
\* is empty or the sync fails.
FairSpec == Spec /\ WF_vars(Fetch)
-----------------------------------------------------------------------------
Responses == [page : Nat, rank : [Items -> Nat], total : Nat, size : {0, PageSize}]

\* Every variable keeps its type, and the listing is a listing: no two
\* items share a rank, and none has a rank above total.
TypeOK ==
  /\ total \in Nat
  /\ rank \in [Items -> 0 .. total]
  /\ \A i, j \in Present : rank[i] = rank[j] => i = j
  /\ cache \subseteq Responses
  /\ status \in {"idle", "walking", "done"}
  /\ page \in Nat \ {0}
  /\ collected \subseteq Items
  /\ last \in Responses
  /\ stable \subseteq Present
  /\ ever \subseteq Items
  /\ mishaps \subseteq Mishaps

\* A walk that reached its end has returned every item that was there since
\* the cache was last emptied, although items were inserted before and behind
\* it and pages came from the cache: unless something was removed, a response
\* carried no usable pageSize (getNextPageToken ends the walk then), or a page
\* was older than one used before it.
Complete ==
  status = "done" /\ mishaps \subseteq {"failed"} => stable \subseteq collected

\* Nothing is returned that was not there since the cache was last emptied.
NoPhantom == collected \subseteq ever

\* Pages of different age are mixed only after a sync has failed.
FirstWalkIsOrdered == "older" \in mishaps => mishaps \cap {"removed", "failed"} # {}

\* Every walk ends.
WalkEnds == (status = "walking") ~> (status # "walking")
=============================================================================
