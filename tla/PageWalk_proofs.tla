-------------------------- MODULE PageWalk_proofs --------------------------
(***************************************************************************)
(* TLAPS proofs about PageWalk, for every set of items, every page size    *)
(* and every interleaving of the walk with insertions and removals.        *)
(***************************************************************************)
EXTENDS PageWalk, FiniteSetTheorems, TLAPS

\* Cutting the ranks into pages, the arithmetic of getNextPageToken.
LEMMA Paging ==
  \A p \in Nat \ {0} : /\ (p - 1) * PageSize \in Nat
                      /\ p * PageSize \in Nat
                      /\ (p + 1 - 1) * PageSize = p * PageSize
  BY PageWalkAssumption

\* A page that has been looked at once holds items that were listed.
LEMMA OnPagePresent ==
  ASSUME NEW s \in Responses, NEW p \in Nat \ {0}
  PROVE  OnPage(s, p) \subseteq {i \in Items : s.rank[i] > 0}
  BY Paging DEF OnPage, Responses

LEMMA NextPageType ==
  ASSUME NEW s \in Responses, NEW p \in Nat \ {0}
  PROVE  /\ NextPage(p, s) = 0 \/ NextPage(p, s) = p + 1
         /\ NextPage(p, s) = 0 <=> (s.size <= 0 \/ p * PageSize >= s.total)
  BY PageWalkAssumption DEF NextPage, Responses

LEMMA UseTypes ==
  ASSUME TypeOK, NEW s \in Responses, Use(s), status = "walking",
         UNCHANGED <<listing, epoch>>, cache' \subseteq Responses
  PROVE  TypeOK'
  BY NextPageType DEF Use, TypeOK, OnPage, Present, Mishaps, listing, epoch

LEMMA NoResponseType == NoResponse \in Responses
  BY DEF NoResponse, Responses

\* The listing stays a listing.
LEMMA InsertTypes ==
  ASSUME TypeOK, NEW i \in Items, NEW n \in 1 .. total + 1, Insert(i, n)
  PROVE  TypeOK'
<1>1. /\ total' \in Nat
      /\ rank' \in [Items -> 0 .. total']
      /\ \A j \in Items : rank[j] > 0 => rank'[j] > 0
  BY DEF Insert, TypeOK
<1>2. ASSUME NEW j \in Present', NEW k \in Present', rank'[j] = rank'[k] PROVE j = k
  <2>1. CASE j = i \/ k = i
    BY <1>2, <2>1 DEF Insert, TypeOK, Present
  <2>2. CASE j # i /\ k # i
    BY <1>2, <2>2 DEF Insert, TypeOK, Present
  <2> QED
    BY <2>1, <2>2
<1> QED
  BY <1>1, <1>2 DEF Insert, TypeOK, Present, walk

LEMMA RemoveTypes ==
  ASSUME TypeOK, NEW i \in Items, Remove(i)
  PROVE  TypeOK'
<1>1. total' \in Nat
  BY DEF Remove, TypeOK
<1>2. \A j \in Items : rank[j] > rank[i] \/ rank[j] < rank[i] \/ j = i
  BY DEF Remove, TypeOK, Present
<1>3. rank' \in [Items -> 0 .. total']
  BY <1>1, <1>2 DEF Remove, TypeOK
<1>4. \A j \in Present \ {i} : rank'[j] > 0
  BY <1>2 DEF Remove, TypeOK, Present
<1>5. ASSUME NEW j \in Present', NEW k \in Present', rank'[j] = rank'[k] PROVE j = k
  <2>1. j # i /\ k # i
    BY DEF Remove, TypeOK, Present
  <2> QED
    BY <1>2, <1>5, <2>1 DEF Remove, TypeOK, Present
<1> QED
  BY <1>1, <1>3, <1>4, <1>5 DEF Remove, TypeOK, Present, Mishaps, walk

\* Every variable keeps its type and the listing stays one.
THEOREM Typing == Spec => []TypeOK
<1>1. Init => TypeOK
  <2>1. Cardinality(Items) \in Nat
    BY PageWalkAssumption, FS_CardinalityType
  <2> QED
    BY <2>1, NoResponseType DEF Init, TypeOK, Present
<1>2. TypeOK /\ [Next]_vars => TypeOK'
  <2> SUFFICES ASSUME TypeOK, [Next]_vars PROVE TypeOK'
    OBVIOUS
  <2>1. CASE Begin
    BY <2>1 DEF Begin, TypeOK, Present, listing, epoch
  <2>2. CASE FetchLive
    <3>1. PICK size \in {PageSize, 0} :
            LET s == [page |-> page, rank |-> rank, total |-> total, size |-> size]
            IN cache' = cache \cup {s} /\ Use(s)
      BY <2>2 DEF FetchLive
    <3> DEFINE s == [page |-> page, rank |-> rank, total |-> total, size |-> size]
    <3>2. s \in Responses
      BY DEF Responses, TypeOK
    <3> HIDE DEF s
    <3>3. cache' \subseteq Responses /\ Use(s)
      BY <3>1, <3>2 DEF s, TypeOK
    <3> QED
      BY <2>2, <3>2, <3>3, UseTypes DEF FetchLive
  <2>3. ASSUME NEW e \in cache, FetchCached(e) PROVE TypeOK'
    BY <2>3, UseTypes DEF FetchCached, TypeOK
  <2>4. CASE Fail \/ Succeed
    <3>1. Present' = Present
      BY <2>4 DEF Fail, Succeed, Present, listing
    <3>2. /\ status' = "idle" /\ page' = 1 /\ collected' = {} /\ last' = NoResponse
          /\ UNCHANGED <<rank, total>>
      BY <2>4 DEF Fail, Succeed, Rest, listing
    <3>3. /\ stable' \subseteq Present /\ ever' \subseteq Items
          /\ mishaps' \subseteq Mishaps
          /\ cache' \subseteq Responses
      BY <2>4 DEF Fail, Succeed, TypeOK, Present, Mishaps, epoch
    <3> QED
      BY <3>1, <3>2, <3>3, NoResponseType DEF TypeOK
  <2>5. ASSUME NEW e \in cache, Expire(e) PROVE TypeOK'
    BY <2>5 DEF Expire, TypeOK, Present, listing, walk, epoch
  <2>6. CASE UNCHANGED vars
    BY <2>6 DEF vars, TypeOK, Present, listing, walk, epoch
  <2> QED
    BY <2>1, <2>2, <2>3, <2>4, <2>5, <2>6, InsertTypes, RemoveTypes DEF Next, Fetch
<1> QED
  BY <1>1, <1>2, PTL DEF Spec

-----------------------------------------------------------------------------
(***************************************************************************)
(* Completeness.  Without a removal the responses are ordered by their     *)
(* totals, and in a later one every stable item has the same rank or a     *)
(* higher one.  So a stable item that the walk has not returned is ranked  *)
(* behind the pages read so far in the response it used last, hence also   *)
(* in any response that is not older.                                      *)
(***************************************************************************)

Used == cache \cup {last}

\* r1 and t1 are what response s knows at most.
Before(s, r1, t1) ==
  s.total <= t1 /\ \A i \in stable : s.rank[i] <= r1[i]

Ordered ==
  /\ \A s \in Used : Before(s, rank, total)
  /\ \A s \in Used : total <= s.total => \A i \in stable : rank[i] <= s.rank[i]
  /\ \A s, t \in Used : s.total <= t.total => \A i \in stable : s.rank[i] <= t.rank[i]
  /\ \A s \in cache, i \in stable : 0 < s.rank[i] /\ s.rank[i] <= s.total

\* What is left is behind what was read.
Ahead ==
  status = "walking" /\ "older" \notin mishaps =>
    \A i \in stable \ collected : page = 1 \/ last.rank[i] > (page - 1) * PageSize

CompleteInv ==
  /\ "removed" \notin mishaps => Ordered /\ Ahead
  /\ Complete
  /\ status = "idle" => page = 1 /\ last = NoResponse

LEMMA NoResponseOrdered ==
  ASSUME TypeOK
  PROVE  \A i \in stable : NoResponse.rank[i] = 0 /\ NoResponse.total = 0 /\ i \in Items
                                                /\ rank[i] > 0 /\ total > 0
  BY DEF NoResponse, TypeOK, Present

LEMMA UseComplete ==
  ASSUME TypeOK, CompleteInv, NEW s \in Responses, Use(s), status = "walking", UNCHANGED <<listing, epoch>>,
         "removed" \notin mishaps =>
            /\ \A t \in Used : t.total <= s.total => \A i \in stable : t.rank[i] <= s.rank[i]
            /\ \A i \in stable : 0 < s.rank[i] /\ s.rank[i] <= s.total
            /\ Ordered'
  PROVE  CompleteInv'
<1>1. \A p \in Nat \ {0} : (p + 1 - 1) * PageSize = p * PageSize /\ p * PageSize \in Nat
  BY Paging
<1>2. page \in Nat \ {0} /\ last \in Used /\ last.total \in Nat /\ s.total \in Nat
      /\ stable \subseteq Items /\ stable' = stable
  BY DEF TypeOK, Responses, Used, Present, epoch
<1>3. "older" \notin mishaps' => "older" \notin mishaps /\ last.total <= s.total
  BY <1>2 DEF Use
<1>4. "removed" \in mishaps' <=> "removed" \in mishaps
  BY DEF Use
<1>5. ASSUME "removed" \notin mishaps, "older" \notin mishaps', NEW i \in stable \ collected'
      PROVE  s.rank[i] > page * PageSize
  <2>1. last.rank[i] <= s.rank[i] /\ s.rank[i] \in Nat /\ last.rank[i] \in Nat
    BY <1>2, <1>3, <1>5 DEF Responses, TypeOK
  <2>2. i \notin collected /\ i \notin OnPage(s, page)
    BY <1>5 DEF Use
  <2>3. s.rank[i] > (page - 1) * PageSize
    <3>1. CASE page = 1
      BY <1>5, <3>1, PageWalkAssumption
    <3>2. CASE page # 1
      <4>1. last.rank[i] > (page - 1) * PageSize
        BY <1>3, <1>5, <2>2, <3>2 DEF CompleteInv, Ahead
      <4> QED
        BY <1>2, <2>1, <4>1, Paging
    <3> QED
      BY <3>1, <3>2
  <2> QED
    BY <1>1, <1>2, <2>1, <2>2, <2>3 DEF OnPage
<1>6. Ahead' \/ "removed" \in mishaps
  <2> SUFFICES ASSUME "removed" \notin mishaps, status' = "walking", "older" \notin mishaps',
                      NEW i \in stable \ collected'
               PROVE  last'.rank[i] > (page' - 1) * PageSize
    BY <1>2 DEF Ahead
  <2>1. page' = page + 1 /\ last' = s
    BY NextPageType, <1>2 DEF Use
  <2> QED
    BY <1>1, <1>2, <1>5, <2>1
<1>7. Complete'
  <2> SUFFICES ASSUME status' = "done", mishaps' \subseteq {"failed"}, NEW i \in stable, i \notin collected'
               PROVE  FALSE
    BY <1>2 DEF Complete
  <2>1. s.rank[i] > page * PageSize
    BY <1>4, <1>5
  <2>2. s.total <= page * PageSize
    <3>1. ~(s.size <= 0) /\ NextPage(page, s) = 0
      BY <1>2 DEF Use
    <3> QED
      BY <1>1, <1>2, <3>1, NextPageType
  <2>3. s.rank[i] <= s.total
    BY <1>4
  <2> QED
    BY <1>1, <1>2, <2>1, <2>2, <2>3 DEF Responses
<1> QED
  BY <1>4, <1>6, <1>7 DEF CompleteInv, Use

LEMMA FetchLiveComplete ==
  ASSUME TypeOK, CompleteInv, FetchLive
  PROVE  CompleteInv'
<1>1. PICK size \in {PageSize, 0} :
        LET s == [page |-> page, rank |-> rank, total |-> total, size |-> size]
        IN cache' = cache \cup {s} /\ Use(s)
  BY DEF FetchLive
<1> DEFINE s == [page |-> page, rank |-> rank, total |-> total, size |-> size]
<1>2. s \in Responses /\ s.rank = rank /\ s.total = total
  BY DEF Responses, TypeOK
<1> HIDE DEF s
<1>3. cache' = cache \cup {s} /\ Use(s) /\ last' = s
  BY <1>1 DEF s, Use
<1>4. status = "walking" /\ UNCHANGED <<listing, epoch>> /\ UNCHANGED <<rank, total, stable>>
  BY DEF FetchLive, listing, epoch
<1>5. ASSUME "removed" \notin mishaps
      PROVE  /\ \A t \in Used : t.total <= s.total => \A i \in stable : t.rank[i] <= s.rank[i]
             /\ \A i \in stable : 0 < s.rank[i] /\ s.rank[i] <= s.total
             /\ Ordered'
  <2>1. Ordered
    BY <1>5 DEF CompleteInv
  <2>2. \A i \in stable : 0 < s.rank[i] /\ s.rank[i] <= s.total /\ s.rank[i] \in Nat
    BY <1>2 DEF TypeOK, Present
  <2>3. \A t \in Used : /\ t.total <= s.total
                        /\ \A i \in stable : t.rank[i] <= s.rank[i]
                        /\ s.total <= t.total => \A i \in stable : s.rank[i] <= t.rank[i]
    BY <1>2, <2>1 DEF Ordered, Before
  <2>4. Used' = (cache \cup {s})
    BY <1>3 DEF Used
  <2>5. total \in Nat
    BY DEF TypeOK
  <2>6. Ordered'
    BY <1>2, <1>3, <1>4, <2>1, <2>2, <2>3, <2>4, <2>5 DEF Ordered, Before, Used
  <2>7. \A t \in Used : t.total <= s.total => \A i \in stable : t.rank[i] <= s.rank[i]
    BY <2>3
  <2>8. \A i \in stable : 0 < s.rank[i] /\ s.rank[i] <= s.total
    BY <2>2
  <2> QED
    BY <2>6, <2>7, <2>8
<1> QED
  BY <1>2, <1>3, <1>4, <1>5, UseComplete

LEMMA FetchCachedComplete ==
  ASSUME TypeOK, CompleteInv, NEW e \in cache, FetchCached(e)
  PROVE  CompleteInv'
<1>1. Use(e) /\ last' = e /\ status = "walking" /\ UNCHANGED <<listing, epoch, cache>>
  BY DEF FetchCached, Use
<1>2. e \in Responses /\ e \in Used
  BY DEF TypeOK, Used
<1>3. ASSUME "removed" \notin mishaps
      PROVE  /\ \A t \in Used : t.total <= e.total => \A i \in stable : t.rank[i] <= e.rank[i]
             /\ \A i \in stable : 0 < e.rank[i] /\ e.rank[i] <= e.total
             /\ Ordered'
  <2>1. Ordered
    BY <1>3 DEF CompleteInv
  <2>2. Used' \subseteq Used
    BY <1>1 DEF Used
  <2> QED
    BY <1>1, <1>2, <2>1, <2>2 DEF Ordered, Before, listing, epoch
<1> QED
  BY <1>1, <1>2, <1>3, UseComplete

LEMMA InsertComplete ==
  ASSUME TypeOK, CompleteInv, NEW i \in Items, NEW n \in 1 .. total + 1, Insert(i, n)
  PROVE  CompleteInv'
<1>1. UNCHANGED <<cache, status, page, collected, last, stable, mishaps>>
  BY DEF Insert, walk
<1>2. i \notin stable /\ stable \subseteq Items /\ total' = total + 1 /\ total \in Nat
      /\ \A j \in stable : rank[j] \in Nat /\ rank[j] <= rank'[j] /\ rank'[j] \in Nat
  BY DEF Insert, TypeOK, Present
<1>3. \A s \in Used : s \in Responses
  BY DEF TypeOK, Used
<1>4. Ordered => Ordered'
  <2> SUFFICES ASSUME Ordered PROVE Ordered'
    OBVIOUS
  <2>1. \A s \in Used : s.total < total' /\ \A j \in stable : s.rank[j] <= rank'[j]
    <3> SUFFICES ASSUME NEW s \in Used
                 PROVE  s.total < total' /\ \A j \in stable : s.rank[j] <= rank'[j]
      OBVIOUS
    <3>1. s.total <= total /\ s.total \in Nat /\ \A j \in stable : s.rank[j] <= rank[j] /\ s.rank[j] \in Nat
      BY <1>2, <1>3 DEF Ordered, Before, Responses
    <3> QED
      BY <1>2, <3>1
  <2> QED
    BY <1>1, <1>2, <1>3, <2>1 DEF Ordered, Before, Used, Responses
<1> QED
  BY <1>1, <1>4 DEF CompleteInv, Ahead, Complete

LEMMA RestComplete ==
  ASSUME TypeOK, CompleteInv, Fail \/ Succeed
  PROVE  CompleteInv'
<1>1. status' = "idle" /\ page' = 1 /\ last' = NoResponse /\ UNCHANGED <<rank, total>>
  BY DEF Fail, Succeed, Rest, listing
<1>2. Complete' /\ Ahead'
  BY <1>1 DEF Complete, Ahead
<1>3. "removed" \notin mishaps' => Ordered'
  <2>1. CASE Fail
    <3>1. UNCHANGED <<cache, stable>> /\ ("removed" \in mishaps' <=> "removed" \in mishaps)
      BY <2>1 DEF Fail, epoch
    <3>2. Used' \subseteq cache \cup {NoResponse} /\ cache \subseteq Used
      BY <1>1, <3>1 DEF Used
    <3>3. cache \subseteq Responses /\ total \in Nat /\ stable \subseteq Items
      BY DEF TypeOK, Present
    <3>4. \A s \in cache : s.total \in Nat /\ \A j \in stable : s.rank[j] \in Nat
      BY <3>3 DEF Responses
    <3> SUFFICES ASSUME Ordered PROVE Ordered'
      BY <3>1 DEF CompleteInv
    <3>5. \A j \in stable : rank[j] \in Nat
      BY <3>3 DEF TypeOK
    <3>6. \A s \in Used' : \/ s \in cache
                           \/ s.total = 0 /\ \A j \in stable : s.rank[j] = 0
      BY <3>2, NoResponseOrdered, NoResponseType DEF NoResponse, TypeOK, Present
    <3>7. \A s \in cache : Before(s, rank, total)
      BY <3>2 DEF Ordered
    <3>8. \A s \in Used' : Before(s, rank, total)
      BY <3>3, <3>5, <3>6, <3>7 DEF Before
    <3>9. \A s \in Used' : total <= s.total => \A j \in stable : rank[j] <= s.rank[j]
      BY <3>2, <3>3, <3>6, NoResponseOrdered DEF Ordered
    <3>10. ASSUME NEW s \in Used', NEW t \in Used', s.total <= t.total, NEW j \in stable
           PROVE  s.rank[j] <= t.rank[j]
      <4>1. CASE s \in cache /\ t \in cache
        BY <3>2, <3>10, <4>1 DEF Ordered
      <4>2. CASE s \notin cache
        BY <3>4, <3>6, <3>10, <4>2
      <4>3. CASE s \in cache /\ t \notin cache
        BY <3>2, <3>4, <3>6, <3>10, <4>3 DEF Ordered
      <4> QED
        BY <4>1, <4>2, <4>3
    <3> QED
      BY <1>1, <3>1, <3>2, <3>8, <3>9, <3>10 DEF Ordered, Before
  <2>2. CASE Succeed
    <3>1. Used' = {NoResponse} /\ cache' = {} /\ stable' = Present
      BY <1>1, <2>2 DEF Succeed, Used
    <3>2. \A j \in Present : NoResponse.rank[j] = 0 /\ NoResponse.total = 0 /\ rank[j] > 0
                           /\ rank[j] \in Nat /\ rank[j] <= total
      BY DEF NoResponse, Present, TypeOK
    <3>3. total \in Nat /\ NoResponse.total = 0
      BY DEF TypeOK, NoResponse
    <3> QED
      BY <1>1, <3>1, <3>2, <3>3 DEF Ordered, Before
  <2> QED
    BY <2>1, <2>2
<1> QED
  BY <1>1, <1>2, <1>3 DEF CompleteInv

\* A walk that reached its end has returned every item that was there all
\* along, for any page size and number of items, unless something was removed,
\* a page was malformed or pages of different age were mixed.
THEOREM Completeness == Spec => []Complete
<1>1. Init => CompleteInv
  <2> SUFFICES ASSUME Init PROVE CompleteInv
    OBVIOUS
  <2>1. Used = {NoResponse} /\ cache = {} /\ stable = Present /\ status = "idle"
    BY DEF Init, Used
  <2>2. total \in Nat
    BY PageWalkAssumption, FS_CardinalityType DEF Init
  <2>3. \A j \in Present : NoResponse.rank[j] = 0 /\ rank[j] > 0 /\ rank[j] <= total /\ rank[j] \in Nat
    BY <2>2 DEF Init, NoResponse, Present
  <2>4. NoResponse.total = 0
    BY DEF NoResponse
  <2> QED
    BY <2>1, <2>2, <2>3, <2>4 DEF Init, CompleteInv, Ordered, Before, Ahead, Complete
<1>2. TypeOK /\ CompleteInv /\ [Next]_vars => CompleteInv'
  <2> SUFFICES ASSUME TypeOK, CompleteInv, [Next]_vars PROVE CompleteInv'
    OBVIOUS
  <2>1. CASE Begin
    BY <2>1 DEF Begin, CompleteInv, Ordered, Before, Used, Ahead, Complete, listing, epoch
  <2>2. ASSUME NEW e \in cache, Expire(e) PROVE CompleteInv'
    BY <2>2 DEF Expire, CompleteInv, Ordered, Before, Used, Ahead, Complete, listing, walk, epoch
  <2>3. ASSUME NEW i \in Items, Remove(i) PROVE CompleteInv'
    <3>1. "removed" \in mishaps' /\ UNCHANGED <<status, page, last>>
      BY <2>3 DEF Remove, walk
    <3> QED
      BY <3>1 DEF CompleteInv, Complete
  <2>4. CASE UNCHANGED vars
    BY <2>4 DEF vars, CompleteInv, Ordered, Before, Used, Ahead, Complete, listing, walk, epoch
  <2> QED
    BY <2>1, <2>2, <2>3, <2>4, FetchLiveComplete, FetchCachedComplete, InsertComplete, RestComplete
       DEF Next, Fetch
<1>3. CompleteInv => Complete
  BY DEF CompleteInv
<1> QED
  BY <1>1, <1>2, <1>3, Typing, PTL DEF Spec
-----------------------------------------------------------------------------
(***************************************************************************)
(* What a walk returns was there: every response remembered since the      *)
(* cache was last emptied lists only items that were there since then.     *)
(***************************************************************************)

Listed(s) == {i \in Items : s.rank[i] > 0}

PhantomInv ==
  /\ Present \subseteq ever
  /\ \A e \in cache : Listed(e) \subseteq ever
  /\ NoPhantom

LEMMA UsePhantom ==
  ASSUME TypeOK, PhantomInv, NEW s \in Responses, Use(s), Listed(s) \subseteq ever
  PROVE  collected' \subseteq ever
<1>1. OnPage(s, page) \subseteq Listed(s)
  BY OnPagePresent DEF TypeOK, Listed
<1> QED
  BY <1>1 DEF Use, PhantomInv, NoPhantom

\* Nothing is returned that was not there since the cache was last emptied,
\* for any page size, and whatever is inserted, removed and expires meanwhile.
THEOREM NothingInvented == Spec => []NoPhantom
<1>1. Init => PhantomInv
  BY DEF Init, PhantomInv, NoPhantom
<1>2. TypeOK /\ PhantomInv /\ [Next]_vars => PhantomInv'
  <2> SUFFICES ASSUME TypeOK, PhantomInv, [Next]_vars PROVE PhantomInv'
    OBVIOUS
  <2>1. CASE Begin \/ UNCHANGED vars
    BY <2>1 DEF Begin, vars, listing, walk, epoch, PhantomInv, NoPhantom, Present
  <2>2. CASE FetchLive
    <3>1. PICK size \in {PageSize, 0} :
            LET s == [page |-> page, rank |-> rank, total |-> total, size |-> size]
            IN cache' = cache \cup {s} /\ Use(s)
      BY <2>2 DEF FetchLive
    <3> DEFINE s == [page |-> page, rank |-> rank, total |-> total, size |-> size]
    <3>2. s \in Responses /\ Listed(s) = Present
      BY DEF Responses, TypeOK, Listed, Present
    <3> HIDE DEF s
    <3>3. cache' = cache \cup {s} /\ Use(s)
      BY <3>1 DEF s
    <3>4. UNCHANGED <<rank, ever>>
      BY <2>2 DEF FetchLive, listing, epoch
    <3>5. collected' \subseteq ever
      BY <3>2, <3>3, UsePhantom DEF PhantomInv
    <3> QED
      BY <3>2, <3>3, <3>4, <3>5 DEF PhantomInv, NoPhantom, Present
  <2>3. ASSUME NEW e \in cache, FetchCached(e) PROVE PhantomInv'
    <3>1. e \in Responses /\ Use(e) /\ Listed(e) \subseteq ever
      BY <2>3 DEF FetchCached, TypeOK, PhantomInv
    <3>2. UNCHANGED <<rank, cache, ever>>
      BY <2>3 DEF FetchCached, listing, epoch
    <3> QED
      BY <3>1, <3>2, UsePhantom DEF PhantomInv, NoPhantom, Present
  <2>4. CASE Fail
    BY <2>4 DEF Fail, Rest, PhantomInv, NoPhantom, Present, listing, epoch
  <2>5. CASE Succeed
    BY <2>5 DEF Succeed, Rest, PhantomInv, NoPhantom, Present, listing
  <2>6. ASSUME NEW e \in cache, Expire(e) PROVE PhantomInv'
    BY <2>6 DEF Expire, PhantomInv, NoPhantom, Present, listing, walk, epoch
  <2>7. ASSUME NEW i \in Items, Remove(i) PROVE PhantomInv'
    <3>1. UNCHANGED <<cache, ever, collected>>
      BY <2>7 DEF Remove, walk
    <3>2. Present' \subseteq Present
      BY <2>7 DEF Remove, TypeOK, Present
    <3> QED
      BY <3>1, <3>2 DEF PhantomInv, NoPhantom
  <2>8. ASSUME NEW i \in Items, NEW n \in 1 .. total + 1, Insert(i, n) PROVE PhantomInv'
    <3>1. UNCHANGED <<cache, collected>> /\ ever' = ever \cup {i}
      BY <2>8 DEF Insert, walk
    <3>2. Present' \subseteq Present \cup {i}
      BY <2>8 DEF Insert, TypeOK, Present
    <3> QED
      BY <3>1, <3>2 DEF PhantomInv, NoPhantom
  <2> QED
    BY <2>1, <2>2, <2>3, <2>4, <2>5, <2>6, <2>7, <2>8 DEF Next, Fetch
<1>3. PhantomInv => NoPhantom
  BY DEF PhantomInv
<1> QED
  BY <1>1, <1>2, <1>3, Typing, PTL DEF Spec

-----------------------------------------------------------------------------
(***************************************************************************)
(* Order.  Until a sync fails, a walk starts with an empty cache and moves *)
(* past every page it caches, so it is never answered from the cache.      *)
(***************************************************************************)

OrderInv ==
  /\ "failed" \notin mishaps =>
       /\ status = "idle" => cache = {}
       /\ status = "walking" => \A e \in cache : e.page < page
  /\ mishaps \cap {"failed", "removed"} = {} => last.total <= total
  /\ FirstWalkIsOrdered

LEMMA LiveUseOrdered ==
  ASSUME TypeOK, OrderInv, FetchLive
  PROVE  OrderInv'
<1>1. PICK size \in {PageSize, 0} :
        LET s == [page |-> page, rank |-> rank, total |-> total, size |-> size]
        IN cache' = cache \cup {s} /\ Use(s)
  BY DEF FetchLive
<1> DEFINE s == [page |-> page, rank |-> rank, total |-> total, size |-> size]
<1>2. s \in Responses /\ s.total = total /\ s.page = page
  BY DEF Responses, TypeOK
<1> HIDE DEF s
<1>3. cache' = cache \cup {s} /\ Use(s) /\ last' = s /\ status = "walking" /\ total' = total
  BY <1>1 DEF s, Use, FetchLive, listing
<1>4. /\ "failed" \in mishaps' <=> "failed" \in mishaps
      /\ "removed" \in mishaps' <=> "removed" \in mishaps
      /\ mishaps \subseteq mishaps'
      /\ "older" \in mishaps' => "older" \in mishaps \/ total < last.total
  BY <1>2, <1>3 DEF Use
<1>5. total \in Nat /\ last.total \in Nat /\ page \in Nat /\ \A e \in cache : e.page \in Nat
  BY DEF TypeOK, Responses
<1>6. FirstWalkIsOrdered'
  BY <1>4, <1>5 DEF OrderInv, FirstWalkIsOrdered
<1>7. ASSUME "failed" \notin mishaps', status' = "walking" PROVE \A e \in cache' : e.page < page'
  <2>1. page' = page + 1
    BY <1>2, <1>3, <1>7, NextPageType DEF Use, TypeOK
  <2> QED
    BY <1>2, <1>3, <1>4, <1>5, <1>7, <2>1 DEF OrderInv
<1>8. status' # "idle"
  BY <1>3 DEF Use
<1> QED
  BY <1>2, <1>3, <1>5, <1>6, <1>7, <1>8 DEF OrderInv

\* Pages of different age are mixed only after a sync has failed in the same
\* process: its cached pages are all that can be older than a live one.
THEOREM Ordering == Spec => []FirstWalkIsOrdered
<1>1. Init => OrderInv
  <2>1. ASSUME Init PROVE NoResponse.total = 0 /\ total >= 0
    BY <2>1, PageWalkAssumption, FS_CardinalityType DEF Init, NoResponse
  <2> QED
    BY <2>1 DEF Init, OrderInv, FirstWalkIsOrdered
<1>2. TypeOK /\ OrderInv /\ [Next]_vars => OrderInv'
  <2> SUFFICES ASSUME TypeOK, OrderInv, [Next]_vars PROVE OrderInv'
    OBVIOUS
  <2>1. CASE Begin
    BY <2>1 DEF Begin, OrderInv, FirstWalkIsOrdered, listing
  <2>2. ASSUME NEW e \in cache, FetchCached(e) PROVE OrderInv'
    <3>1. "failed" \in mishaps
      BY <2>2 DEF FetchCached, OrderInv, TypeOK, Responses
    <3>2. "failed" \in mishaps'
      BY <2>2, <3>1 DEF FetchCached, Use
    <3> QED
      BY <3>2 DEF OrderInv, FirstWalkIsOrdered
  <2>3. CASE Fail
    BY <2>3 DEF Fail, OrderInv, FirstWalkIsOrdered
  <2>4. CASE Succeed
    <3>1. NoResponse.total = 0 /\ total \in Nat
      BY DEF NoResponse, TypeOK
    <3> QED
      BY <2>4, <3>1 DEF Succeed, Rest, OrderInv, FirstWalkIsOrdered, listing
  <2>5. ASSUME NEW e \in cache, Expire(e) PROVE OrderInv'
    BY <2>5 DEF Expire, OrderInv, FirstWalkIsOrdered, listing, walk
  <2>6. ASSUME NEW i \in Items, Remove(i) PROVE OrderInv'
    BY <2>6 DEF Remove, OrderInv, FirstWalkIsOrdered, walk
  <2>7. ASSUME NEW i \in Items, NEW n \in 1 .. total + 1, Insert(i, n) PROVE OrderInv'
    <3>1. last.total \in Nat /\ total \in Nat
      BY DEF TypeOK, Responses
    <3> QED
      BY <2>7, <3>1 DEF Insert, OrderInv, FirstWalkIsOrdered, walk
  <2>8. CASE UNCHANGED vars
    BY <2>8 DEF vars, listing, walk, OrderInv, FirstWalkIsOrdered
  <2> QED
    BY <2>1, <2>2, <2>3, <2>4, <2>5, <2>6, <2>7, <2>8, LiveUseOrdered DEF Next, Fetch
<1>3. OrderInv => FirstWalkIsOrdered
  BY DEF OrderInv
<1> QED
  BY <1>1, <1>2, <1>3, Typing, PTL DEF Spec

-----------------------------------------------------------------------------
(***************************************************************************)
(* That a walk ends is a matter of fairness and left to TLC.  What makes   *)
(* it end is proved here for a listing of any size: each answer ends the   *)
(* walk or brings it one page on, and no page is asked for that could not  *)
(* be there if all items were listed.                                      *)
(***************************************************************************)

\* A page after the first is asked for only if the pages before it cannot hold all items.
FewPages == page = 1 \/ (page - 1) * PageSize < Cardinality(Items)

\* A listing has as many items as it says.
Counted == total = Cardinality(Present)

BoundInv ==
  /\ Counted
  /\ \A s \in cache : s.total <= Cardinality(Items)
  /\ FewPages

LEMMA FinitelyMany ==
  /\ Cardinality(Items) \in Nat
  /\ IsFiniteSet(Present) /\ Cardinality(Present) \in Nat
  /\ Cardinality(Present) <= Cardinality(Items)
<1>1. Present \in SUBSET Items
  BY DEF Present
<1> QED
  BY <1>1, PageWalkAssumption, FS_Subset, FS_CardinalityType

\* The ranks of a listing are the numbers up to its total.
LEMMA InitCounted == Init => Counted
<1> SUFFICES ASSUME Init PROVE Counted
  OBVIOUS
<1> DEFINE f == [i \in Present |-> rank[i]]
<1>1. total \in Nat
  BY FinitelyMany DEF Init
<1>2. f \in [Present -> 1 .. total]
  BY <1>1 DEF Init, Present
<1>3. \A i, j \in Present : f[i] = f[j] => i = j
  BY DEF Init
<1>4. \A n \in 1 .. total : \E i \in Present : f[i] = n
  BY <1>1 DEF Init, Present
<1> HIDE DEF f
<1>5. f \in Bijection(Present, 1 .. total)
  BY <1>2, <1>3, <1>4 DEF Bijection, Injection, Surjection, IsInjective
<1>6. Cardinality(1 .. total) = Cardinality(Present)
  BY <1>5, FinitelyMany, FS_Bijection DEF ExistsBijection
<1>7. Cardinality(1 .. total) = total
  BY <1>1, FS_Interval
<1> QED
  BY <1>6, <1>7 DEF Counted

\* The client returns a page.
LEMMA UseBounded ==
  ASSUME TypeOK, FewPages, status = "walking", NEW s \in Responses,
         s.total <= Cardinality(Items), Use(s)
  PROVE  FewPages'
<1>1. page \in Nat \ {0} /\ s.total \in Nat
  BY DEF TypeOK, Responses
<1>2. CASE NextPage(page, s) = 0
  BY <1>2 DEF Use, FewPages
<1>3. CASE NextPage(page, s) # 0
  <2>1. page' = page + 1 /\ ~(page * PageSize >= s.total)
    BY <1>1, <1>3, NextPageType DEF Use
  <2>2. page * PageSize \in Nat /\ (page + 1 - 1) * PageSize = page * PageSize
    BY <1>1, Paging
  <2> QED
    BY <1>1, <2>1, <2>2, FinitelyMany DEF FewPages
<1> QED
  BY <1>2, <1>3

\* However the listing changes, a walk of it asks for no more pages than all items would
\* fill (getNextPageToken).
THEOREM Bounded == Spec => []FewPages
<1>1. Init => BoundInv
  BY InitCounted DEF Init, BoundInv, FewPages
<1>2. TypeOK /\ BoundInv /\ [Next]_vars => BoundInv'
  <2> SUFFICES ASSUME TypeOK, BoundInv, [Next]_vars PROVE BoundInv'
    OBVIOUS
  <2>1. CASE Begin \/ UNCHANGED vars
    BY <2>1 DEF Begin, vars, listing, walk, BoundInv, Counted, Present, FewPages
  <2>2. CASE FetchLive
    <3>1. PICK size \in {PageSize, 0} :
            LET s == [page |-> page, rank |-> rank, total |-> total, size |-> size]
            IN cache' = cache \cup {s} /\ Use(s)
      BY <2>2 DEF FetchLive
    <3> DEFINE s == [page |-> page, rank |-> rank, total |-> total, size |-> size]
    <3>2. s \in Responses /\ s.total = total
      BY DEF TypeOK, Responses
    <3>3. total <= Cardinality(Items)
      BY FinitelyMany DEF BoundInv, Counted
    <3>4. cache' = cache \cup {s} /\ Use(s)
      BY <3>1
    <3> HIDE DEF s
    <3>5. UNCHANGED <<rank, total>> /\ status = "walking"
      BY <2>2 DEF FetchLive, listing
    <3>6. FewPages'
      BY <3>2, <3>3, <3>4, <3>5, UseBounded DEF BoundInv
    <3>7. Counted'
      BY <3>5 DEF BoundInv, Counted, Present
    <3> QED
      BY <3>2, <3>3, <3>4, <3>6, <3>7 DEF BoundInv
  <2>3. ASSUME NEW e \in cache, FetchCached(e) PROVE BoundInv'
    <3>1. e \in Responses /\ status = "walking" /\ Use(e) /\ UNCHANGED <<rank, total, cache>>
      BY <2>3 DEF FetchCached, TypeOK, listing
    <3>2. FewPages'
      BY <3>1, UseBounded DEF BoundInv
    <3> QED
      BY <3>1, <3>2 DEF BoundInv, Counted, Present
  <2>4. CASE Fail \/ Succeed
    <3>1. page' = 1 /\ cache' \subseteq cache /\ UNCHANGED <<rank, total>>
      BY <2>4 DEF Fail, Succeed, Rest, listing
    <3> QED
      BY <3>1 DEF BoundInv, Counted, Present, FewPages
  <2>5. ASSUME NEW e \in cache, Expire(e) PROVE BoundInv'
    BY <2>5 DEF Expire, BoundInv, Counted, Present, FewPages, listing, walk
  <2>6. ASSUME NEW i \in Items, Remove(i) PROVE BoundInv'
    <3>1. i \in Present /\ Present' = Present \ {i}
      BY <2>6 DEF Remove, Present, TypeOK
    <3>2. Cardinality(Present') = Cardinality(Present) - 1
      BY <3>1, FinitelyMany, FS_RemoveElement
    <3>3. Counted'
      BY <2>6, <3>2 DEF Remove, BoundInv, Counted
    <3> QED
      BY <2>6, <3>3 DEF Remove, BoundInv, FewPages, walk
  <2>7. ASSUME NEW i \in Items, NEW n \in 1 .. total + 1, Insert(i, n) PROVE BoundInv'
    <3>1. i \notin Present /\ Present' = Present \cup {i}
      BY <2>7 DEF Insert, Present, TypeOK
    <3>2. Cardinality(Present') = Cardinality(Present) + 1
      BY <3>1, FinitelyMany, FS_AddElement
    <3>3. Counted'
      BY <2>7, <3>2 DEF Insert, BoundInv, Counted
    <3> QED
      BY <2>7, <3>3 DEF Insert, BoundInv, FewPages, walk
  <2> QED
    BY <2>1, <2>2, <2>3, <2>4, <2>5, <2>6, <2>7 DEF Next, Fetch
<1>3. BoundInv => FewPages
  BY DEF BoundInv
<1> QED
  BY <1>1, <1>2, <1>3, Typing, PTL DEF Spec

\* And each answer, fresh or cached, ends the walk or brings it one page on, as long as
\* the sync does not begin anew.
THEOREM Advances ==
  Spec => [][Fetch => status' = "done" \/ (status' = "walking" /\ page' = page + 1)]_vars
<1>1. ASSUME TypeOK, Fetch
      PROVE  status' = "done" \/ (status' = "walking" /\ page' = page + 1)
  <2>1. PICK s \in Responses : Use(s)
    <3>1. CASE FetchLive
      <4>1. \A size \in {PageSize, 0} :
              [page |-> page, rank |-> rank, total |-> total, size |-> size] \in Responses
        BY <1>1 DEF TypeOK, Responses
      <4> QED
        BY <3>1, <4>1 DEF FetchLive
    <3>2. CASE \E e \in cache : FetchCached(e)
      BY <1>1, <3>2 DEF FetchCached, TypeOK
    <3> QED
      BY <1>1, <3>1, <3>2 DEF Fetch
  <2>2. status = "walking" /\ page \in Nat \ {0}
    BY <1>1 DEF Fetch, FetchLive, FetchCached, TypeOK
  <2> QED
    BY <2>1, <2>2, NextPageType DEF Use
<1> QED
  BY <1>1, Typing, PTL
=============================================================================
