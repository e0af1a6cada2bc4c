-------------------------- MODULE LicenseSync_proofs --------------------------
(***************************************************************************)
(* Proofs about LicenseSync, for any users, any choice of site roles and   *)
(* licenses, and any bound on changes.  What a sync has been told is tied  *)
(* to the cache: a cached response is true of every user who has not       *)
(* changed since the cache was emptied, and there is one per URL, so all   *)
(* that is derived from one URL is derived from one listing.               *)
(***************************************************************************)
EXTENDS LicenseSync, FiniteSetTheorems, FunctionTheorems, TLAPS

Types(R) == R \in [Users -> InPlay \cup {"none"}]

\* R is true of whoever has not changed.
Fresh(R) == \A u \in Users \ changed : R[u] = role[u]

\* There is one response per URL, and it is true of whoever has not changed.
CacheOK ==
  /\ \A d, e \in cache : d.query = e.query => d = e
  /\ \A e \in cache : Fresh(e.role)

\* Between two syncs there is nothing.
Clean ==
  syncing = "no" => /\ todo = {} /\ accounts = {} /\ siteGrants = {}
                    /\ licenseGrants = {} /\ seats = NoSeats

\* There are only grants of the steps that are over, and a user who has not
\* changed has them.
GrantsOK ==
  syncing = "yes" =>
    /\ \A l \in Licenses, u \in Users : <<"license", l>> \in todo => <<l, u>> \notin licenseGrants
    /\ \A u \in Users \ changed :
         /\ \A r \in InPlay : <<r, u>> \in siteGrants
              <=> <<"site", "any">> \notin todo /\ role[u] = r /\ r \in roles
         /\ \A l \in Licenses : <<l, u>> \in licenseGrants
              <=> <<"license", l>> \notin todo /\ role[u] \in RolesPerLicense[l]

Everyone == <<"list", "any">>

SiteGrantsOf(R)   == {<<R[u], u>> : u \in {v \in Listed(Everyone, R) : R[v] \in roles}}
TellsOf(l, R, u)  == u \in Listed(Everyone, R) /\ R[u] \in RolesPerLicense[l]

\* What was derived from the unfiltered listing is derived from the cached one.
ListingOK ==
  syncing = "yes" /\ Everyone \notin evicted =>
    /\ <<"users", "any">> \notin todo =>
         \E e \in cache : e.query = Everyone /\ accounts = Listed(Everyone, e.role)
    /\ <<"site", "any">> \notin todo =>
         \E e \in cache : e.query = Everyone /\ siteGrants = SiteGrantsOf(e.role)
    /\ \A l \in Licenses : <<"license", l>> \notin todo /\ GrantsQuery(l) = Everyone =>
         \E e \in cache : /\ e.query = Everyone
                          /\ \A u \in Users : <<l, u>> \in licenseGrants <=> TellsOf(l, e.role, u)

\* What a license counts, when nobody has changed.
Counted(l) == Cardinality(Listed(<<"total", l>>, role))

\* The seats are those of the counts that are over, or all counts were given up.
SeatsOK ==
  syncing = "yes" =>
    /\ changed = {} => \A l \in Licenses : seats[l] # -1 => seats[l] = Counted(l)
    /\ \/ seats = NoSeats /\ \A l \in Capped : <<"count", l>> \notin todo
       \/ \A l \in Licenses : seats[l] # -1 <=> l \in Capped /\ <<"count", l>> \notin todo

IInv == TypeOK /\ CacheOK /\ Clean /\ GrantsOK /\ ListingOK /\ SeatsOK
-----------------------------------------------------------------------------
LEMMA Tables ==
  /\ \A l \in Licenses : "none" \notin RolesPerLicense[l]
  /\ \A l \in Licenses : RolesPerLicense[l] \subseteq roles
  /\ "none" \notin InPlay /\ "none" \notin roles
  /\ "any" \notin Licenses
BY LicenseSyncAssumption DEF licenses, RolesPerLicense, roles

LEMMA ListedIsUsers ==
  ASSUME NEW q, NEW R
  PROVE  /\ Listed(q, R) \subseteq Users /\ IsFiniteSet(Listed(q, R))
         /\ Cardinality(Listed(q, R)) \in 0 .. Cardinality(Users)
<1>1. Listed(q, R) \subseteq Users
  BY DEF Listed
<1>2. Cardinality(Listed(q, R)) \in Nat /\ Cardinality(Users) \in Nat
      /\ IsFiniteSet(Listed(q, R)) /\ Cardinality(Listed(q, R)) <= Cardinality(Users)
  BY <1>1, FS_Subset, FS_CardinalityType, LicenseSyncAssumption
<1> QED
  BY <1>1, <1>2

\* A filter names all roles of a license whose grants it is used for.
LEMMA FilterNamesAll ==
  ASSUME NEW l \in Licenses, NEW R, Types(R), NEW u \in Users
  PROVE  /\ u \in Listed(GrantsQuery(l), R) /\ R[u] \in RolesPerLicense[l]
              <=> R[u] \in RolesPerLicense[l]
         /\ GrantsQuery(l) \in Queries
         /\ GrantsQuery(l) = Everyone \/ GrantsQuery(l) = <<"list", l>>
<1>1. CASE filterableRoles(l) = RolesPerLicense[l]
  BY <1>1, Tables DEF GrantsQuery, Listed, Queries
<1>2. CASE filterableRoles(l) # RolesPerLicense[l]
  BY <1>2, Tables DEF GrantsQuery, Listed, Queries, Everyone
<1> QED
  BY <1>1, <1>2

\* A GET gives roles that are true of whoever has not changed, and that are
\* cached from then on; what was cached stays.
LEMMA GetFacts ==
  ASSUME TypeOK, CacheOK, NEW q \in Queries, NEW R, R \in Known, Get(q, R),
         UNCHANGED <<role, changed>>
  PROVE  /\ Types(R) /\ Fresh(R)
         /\ \E e \in cache' : e.query = q /\ e.role = R
         /\ cache \subseteq cache'
         /\ cache' \subseteq [query : Queries, role : [Users -> InPlay \cup {"none"}]]
         /\ CacheOK'
<1>1. Types(R) /\ Fresh(R)
  BY DEF Known, TypeOK, CacheOK, Types, Fresh
<1>2. CASE \E e \in Cached(q) : R = e.role /\ UNCHANGED cache
  <2>1. \E e \in cache' : e.query = q /\ e.role = R
    BY <1>2 DEF Cached
  <2> QED
    BY <1>1, <1>2, <2>1 DEF TypeOK, CacheOK, Fresh
<1>3. CASE /\ Cached(q) = {} /\ R = role
           /\ cache' = cache \cup {[query |-> q, role |-> R]}
  <2> DEFINE new == [query |-> q, role |-> R]
  <2>1. new \in [query : Queries, role : [Users -> InPlay \cup {"none"}]]
    BY <1>1 DEF Types
  <2>2. \A e \in cache : e.query # q
    BY <1>3 DEF Cached
  <2>3. new.query = q /\ new.role = R
    OBVIOUS
  <2>4. CacheOK'
    <3>1. \A d, e \in cache' : d.query = e.query => d = e
      BY <1>3, <2>2, <2>3 DEF CacheOK
    <3>2. \A e \in cache' : \A u \in Users \ changed : e.role[u] = role[u]
      BY <1>1, <1>3, <2>3 DEF CacheOK, Fresh
    <3> QED
      BY <3>1, <3>2 DEF CacheOK, Fresh
  <2> QED
    BY <1>1, <1>3, <2>1, <2>3, <2>4 DEF TypeOK
<1> QED
  BY <1>2, <1>3 DEF Get

\* A step that is over is not asked for again, and nothing else is forgotten.
LEMMA AsksFacts ==
  ASSUME TypeOK, NEW s, Asks(s)
  PROVE  /\ syncing = "yes" /\ s \in todo /\ todo' = todo \ {s}
         /\ todo' \subseteq ResourceSteps \cup GrantSteps
         /\ UNCHANGED <<role, syncing, changed, evicted, changes>>
BY DEF TypeOK, Asks, history
-----------------------------------------------------------------------------
LEMMA InitStep == Init => IInv
<1> SUFFICES ASSUME Init PROVE IInv
  OBVIOUS
<1>1. TypeOK
  BY FS_CardinalityType, LicenseSyncAssumption DEF Init, TypeOK, NoSeats
<1>2. CacheOK /\ Clean
  BY DEF Init, CacheOK, Clean
<1>3. GrantsOK /\ ListingOK /\ SeatsOK
  BY DEF Init, GrantsOK, ListingOK, SeatsOK
<1> QED
  BY <1>1, <1>2, <1>3 DEF IInv

LEMMA BeginStep == IInv /\ Begin => IInv'
<1> SUFFICES ASSUME IInv, Begin PROVE IInv'
  OBVIOUS
<1>1. TypeOK' /\ CacheOK' /\ Clean'
  BY DEF IInv, TypeOK, CacheOK, Clean, Begin, results, Fresh
<1>2. accounts = {} /\ siteGrants = {} /\ licenseGrants = {} /\ seats = NoSeats
  BY DEF IInv, Clean, Begin
<1>3. todo' = ResourceSteps \cup GrantSteps /\ syncing' = "yes"
  BY DEF Begin
<1>4. <<"site", "any">> \in todo' /\ <<"users", "any">> \in todo'
      /\ (\A l \in Licenses : <<"license", l>> \in todo')
      /\ (\A l \in Capped : <<"count", l>> \in todo')
  BY <1>3 DEF ResourceSteps, GrantSteps
<1>5. GrantsOK'
  BY <1>2, <1>4 DEF GrantsOK, Begin, results
<1>6. ListingOK'
  BY <1>4 DEF ListingOK
<1>7. SeatsOK'
  BY <1>2, <1>4 DEF SeatsOK, Begin, results, NoSeats
<1> QED
  BY <1>1, <1>5, <1>6, <1>7 DEF IInv

LEMMA ListUsersStep == IInv /\ ListUsers => IInv'
<1> SUFFICES ASSUME IInv, ListUsers PROVE IInv'
  OBVIOUS
<1>0. PICK R \in Known : Get(Everyone, R) /\ accounts' = Listed(Everyone, R)
  BY DEF ListUsers, Everyone
<1>1. /\ syncing = "yes" /\ todo' = todo \ {<<"users", "any">>}
      /\ todo' \subseteq ResourceSteps \cup GrantSteps
      /\ UNCHANGED <<role, syncing, changed, evicted, changes, siteGrants, licenseGrants, seats>>
  BY AsksFacts DEF IInv, ListUsers
<1>2. Everyone \in Queries
  BY DEF Queries, Everyone
<1>3. /\ cache \subseteq cache' /\ CacheOK'
      /\ cache' \subseteq [query : Queries, role : [Users -> InPlay \cup {"none"}]]
      /\ \E e \in cache' : e.query = Everyone /\ e.role = R
  BY <1>0, <1>1, <1>2, GetFacts DEF IInv
<1>4. TypeOK'
  BY <1>0, <1>1, <1>3, ListedIsUsers DEF IInv, TypeOK
<1>5. Clean' /\ GrantsOK' /\ SeatsOK'
  BY <1>1 DEF IInv, Clean, GrantsOK, SeatsOK, Counted
<1>6. ListingOK'
  BY <1>0, <1>1, <1>3 DEF IInv, ListingOK
<1> QED
  BY <1>3, <1>4, <1>5, <1>6 DEF IInv

LEMMA CountTierStep ==
  ASSUME IInv, NEW l \in Capped, CountTier(l)
  PROVE  IInv'
<1> DEFINE q == <<"total", l>>
<1>0. PICK R \in Known :
        Get(q, R) /\ seats' = [seats EXCEPT ![l] = Cardinality(Listed(q, R))]
  BY DEF CountTier
<1>1. /\ syncing = "yes" /\ todo' = todo \ {<<"count", l>>} /\ <<"count", l>> \in todo
      /\ todo' \subseteq ResourceSteps \cup GrantSteps
      /\ UNCHANGED <<role, syncing, changed, evicted, changes, accounts, siteGrants, licenseGrants>>
  BY AsksFacts DEF IInv, CountTier
<1>2. l \in Licenses /\ q \in Queries
  BY LicenseSyncAssumption DEF Queries
<1>3. /\ cache \subseteq cache' /\ CacheOK' /\ Types(R) /\ Fresh(R)
      /\ cache' \subseteq [query : Queries, role : [Users -> InPlay \cup {"none"}]]
  <2> HIDE DEF q
  <2> QED
    BY <1>0, <1>1, <1>2, GetFacts DEF IInv
<1>4. Cardinality(Listed(q, R)) \in 0 .. Cardinality(Users) /\ Cardinality(Users) \in Nat
  BY ListedIsUsers, FS_CardinalityType, LicenseSyncAssumption
<1>5. TypeOK'
  <2>1. seats' \in [Licenses -> -1 .. Cardinality(Users)]
    <3> DEFINE c == Cardinality(Listed(q, R))
    <3>1. c \in -1 .. Cardinality(Users) /\ seats \in [Licenses -> -1 .. Cardinality(Users)]
      BY <1>4 DEF IInv, TypeOK
    <3>2. seats' = [seats EXCEPT ![l] = c]
      BY <1>0
    <3> HIDE DEF c
    <3> QED
      BY <3>1, <3>2
  <2> QED
    BY <1>1, <1>3, <2>1 DEF IInv, TypeOK
<1>6. Clean' /\ GrantsOK' /\ ListingOK'
  <2>1. \A s : s # <<"count", l>> => (s \in todo' <=> s \in todo)
    BY <1>1
  <2>2. Clean' /\ GrantsOK'
    BY <1>1, <2>1 DEF IInv, Clean, GrantsOK
  <2>3. ListingOK'
    BY <1>1, <1>3, <2>1 DEF IInv, ListingOK
  <2> QED
    BY <2>2, <2>3
<1>7. SeatsOK'
  <2>1. \A k \in Licenses : seats'[k] = IF k = l THEN Cardinality(Listed(q, R)) ELSE seats[k]
    BY <1>0, <1>2 DEF IInv, TypeOK
  <2>2. changed = {} => R = role
    BY <1>3 DEF IInv, TypeOK, Types, Fresh
  <2>3. changed' = {} => \A k \in Licenses : seats'[k] # -1 => seats'[k] = Counted(k)'
    BY <1>1, <2>1, <2>2 DEF IInv, SeatsOK, Counted
  <2>4. \A k \in Licenses : seats[k] # -1 <=> k \in Capped /\ <<"count", k>> \notin todo
    BY <1>1 DEF IInv, SeatsOK
  <2>5. \A k \in Licenses : seats'[k] # -1 <=> k \in Capped /\ <<"count", k>> \notin todo'
    <3>1. Cardinality(Listed(q, R)) # -1
      BY <1>4
    <3>2. \A k \in Capped : <<"count", k>> \notin todo' <=> k = l \/ <<"count", k>> \notin todo
      BY <1>1
    <3> HIDE DEF q
    <3> QED
      BY <2>1, <2>4, <3>1, <3>2
  <2> QED
    BY <1>1, <2>3, <2>5 DEF SeatsOK
<1> QED
  BY <1>3, <1>5, <1>6, <1>7 DEF IInv

LEMMA GiveUpSeatsStep == IInv /\ GiveUpSeats => IInv'
<1> SUFFICES ASSUME IInv, GiveUpSeats PROVE IInv'
  OBVIOUS
<1>1. \A s : (\A l \in Capped : s # <<"count", l>>) => (s \in todo' <=> s \in todo)
  BY DEF GiveUpSeats
<1>2. TypeOK'
  BY FS_CardinalityType, LicenseSyncAssumption DEF IInv, TypeOK, GiveUpSeats, history, NoSeats
<1>3. CacheOK' /\ Clean' /\ GrantsOK'
  BY <1>1 DEF IInv, CacheOK, Fresh, Clean, GrantsOK, GiveUpSeats, history
<1>4. ListingOK'
  BY <1>1 DEF IInv, ListingOK, GiveUpSeats, history
<1>5. SeatsOK'
  BY DEF SeatsOK, GiveUpSeats, NoSeats
<1> QED
  BY <1>2, <1>3, <1>4, <1>5 DEF IInv

LEMMA SiteGrantsStep == IInv /\ SiteGrants => IInv'
<1> SUFFICES ASSUME IInv, SiteGrants PROVE IInv'
  OBVIOUS
<1>0. PICK R \in Known : Get(Everyone, R) /\ siteGrants' = SiteGrantsOf(R)
  BY DEF SiteGrants, Everyone, SiteGrantsOf
<1>1. /\ syncing = "yes" /\ todo' = todo \ {<<"site", "any">>}
      /\ todo' \subseteq ResourceSteps \cup GrantSteps
      /\ UNCHANGED <<role, syncing, changed, evicted, changes, accounts, licenseGrants, seats>>
  BY AsksFacts DEF IInv, SiteGrants
<1>2. Everyone \in Queries
  BY DEF Queries, Everyone
<1>3. /\ cache \subseteq cache' /\ CacheOK' /\ Types(R) /\ Fresh(R)
      /\ cache' \subseteq [query : Queries, role : [Users -> InPlay \cup {"none"}]]
      /\ \E e \in cache' : e.query = Everyone /\ e.role = R
  BY <1>0, <1>1, <1>2, GetFacts DEF IInv
<1>4. \A u \in Users, r \in InPlay : <<r, u>> \in siteGrants' <=> R[u] = r /\ r \in roles
  BY <1>0, Tables DEF SiteGrantsOf, Listed, Everyone
<1>5. siteGrants' \subseteq (InPlay \cap roles) \X Users
  BY <1>0, <1>3 DEF SiteGrantsOf, Listed, Types
<1>6. TypeOK'
  BY <1>1, <1>3, <1>5 DEF IInv, TypeOK
<1>7. \A s : s # <<"site", "any">> => (s \in todo' <=> s \in todo)
  BY <1>1
<1>8. Clean' /\ SeatsOK'
  BY <1>1, <1>7 DEF IInv, Clean, SeatsOK, Counted
<1>9. GrantsOK'
  <2>1. \A u \in Users \ changed, r \in InPlay : <<r, u>> \in siteGrants'
           <=> role[u] = r /\ r \in roles
    BY <1>3, <1>4 DEF Fresh
  <2> QED
    BY <1>1, <1>7, <2>1 DEF IInv, GrantsOK
<1>10. ListingOK'
  BY <1>0, <1>1, <1>3, <1>7 DEF IInv, ListingOK
<1> QED
  BY <1>3, <1>6, <1>8, <1>9, <1>10 DEF IInv

LEMMA LicenseGrantsStep ==
  ASSUME IInv, NEW l \in Licenses, LicenseGrants(l)
  PROVE  IInv'
<1> DEFINE q == GrantsQuery(l)
<1> DEFINE new(R) == {<<l, u>> : u \in {v \in Listed(q, R) : R[v] \in RolesPerLicense[l]}}
<1>0. PICK R \in Known : Get(q, R) /\ licenseGrants' = licenseGrants \cup new(R)
  BY DEF LicenseGrants
<1>1. /\ syncing = "yes" /\ todo' = todo \ {<<"license", l>>} /\ <<"license", l>> \in todo
      /\ todo' \subseteq ResourceSteps \cup GrantSteps
      /\ UNCHANGED <<role, syncing, changed, evicted, changes, accounts, siteGrants, seats>>
  BY AsksFacts DEF IInv, LicenseGrants
<1>2. Types(role)
  BY DEF IInv, TypeOK, Types
<1>3. q \in Queries
  BY <1>2, FilterNamesAll, LicenseSyncAssumption DEF Listed, GrantsQuery, Queries
<1>4. /\ cache \subseteq cache' /\ CacheOK' /\ Types(R) /\ Fresh(R)
      /\ cache' \subseteq [query : Queries, role : [Users -> InPlay \cup {"none"}]]
      /\ \E e \in cache' : e.query = q /\ e.role = R
  <2> HIDE DEF q
  <2> QED
    BY <1>0, <1>1, <1>3, GetFacts DEF IInv
<1>5. \A u \in Users : <<l, u>> \in new(R) <=> R[u] \in RolesPerLicense[l]
  <2>1. \A u \in Users : u \in Listed(q, R) /\ R[u] \in RolesPerLicense[l]
                           <=> R[u] \in RolesPerLicense[l]
    BY <1>4, FilterNamesAll
  <2> HIDE DEF q
  <2> QED
    BY <2>1
<1>6. new(R) \subseteq Licenses \X Users
  <2> HIDE DEF q
  <2> QED
    BY ListedIsUsers
<1>7. TypeOK'
  <2>1. licenseGrants' \subseteq Licenses \X Users
    BY <1>0, <1>6 DEF IInv, TypeOK
  <2> QED
    BY <1>1, <1>4, <2>1 DEF IInv, TypeOK
<1>8. \A s : s # <<"license", l>> => (s \in todo' <=> s \in todo)
  BY <1>1
<1>9. Clean' /\ SeatsOK'
  BY <1>1, <1>8 DEF IInv, Clean, SeatsOK, Counted
<1>10. \A k \in Licenses, u \in Users : k # l => (<<k, u>> \in licenseGrants' <=> <<k, u>> \in licenseGrants)
  BY <1>0
<1>11. GrantsOK'
  <2>1. \A u \in Users \ changed : <<l, u>> \in licenseGrants' <=> role[u] \in RolesPerLicense[l]
    BY <1>0, <1>1, <1>4, <1>5 DEF IInv, GrantsOK, Fresh
  <2>2. \A u \in Users \ changed, k \in Licenses : <<k, u>> \in licenseGrants'
           <=> <<"license", k>> \notin todo' /\ role[u] \in RolesPerLicense[k]
    BY <1>1, <1>8, <1>10, <2>1 DEF IInv, GrantsOK
  <2> QED
    BY <1>1, <1>8, <1>10, <2>2 DEF IInv, GrantsOK
<1>12. ListingOK'
  <2> SUFFICES ASSUME Everyone \notin evicted
               PROVE  ListingOK'
    BY <1>1 DEF ListingOK
  <2>1. q = Everyone => \A u \in Users : <<l, u>> \in licenseGrants' <=> TellsOf(l, R, u)
    <3> SUFFICES ASSUME q = Everyone, NEW u \in Users
                 PROVE  <<l, u>> \in licenseGrants' <=> TellsOf(l, R, u)
      OBVIOUS
    <3>1. <<l, u>> \notin licenseGrants
      BY <1>1 DEF IInv, GrantsOK
    <3>2. TellsOf(l, R, u) <=> R[u] \in RolesPerLicense[l]
      BY <1>4, FilterNamesAll DEF TellsOf
    <3> QED
      BY <1>0, <1>5, <3>1, <3>2
  <2> HIDE DEF q
  <2> QED
    BY <1>1, <1>4, <1>8, <1>10, <2>1 DEF IInv, ListingOK, q
<1> QED
  BY <1>4, <1>7, <1>9, <1>11, <1>12 DEF IInv

LEMMA FailStep == IInv /\ Fail => IInv'
<1> SUFFICES ASSUME IInv, Fail PROVE IInv'
  OBVIOUS
<1>1. TypeOK'
  BY FS_CardinalityType, LicenseSyncAssumption DEF IInv, TypeOK, Fail, Rest, history, NoSeats
<1>2. CacheOK' /\ Clean'
  BY DEF IInv, CacheOK, Fresh, Clean, Fail, Rest, history, NoSeats
<1>3. GrantsOK' /\ ListingOK' /\ SeatsOK'
  BY DEF GrantsOK, ListingOK, SeatsOK, Fail, Rest
<1> QED
  BY <1>1, <1>2, <1>3 DEF IInv

LEMMA SucceedStep == IInv /\ Succeed => IInv'
<1> SUFFICES ASSUME IInv, Succeed PROVE IInv'
  OBVIOUS
<1>1. TypeOK'
  BY FS_CardinalityType, LicenseSyncAssumption DEF IInv, TypeOK, Succeed, Rest, NoSeats
<1>2. CacheOK' /\ Clean'
  BY DEF CacheOK, Clean, Succeed, Rest, NoSeats
<1>3. GrantsOK' /\ ListingOK' /\ SeatsOK'
  BY DEF GrantsOK, ListingOK, SeatsOK, Succeed, Rest
<1> QED
  BY <1>1, <1>2, <1>3 DEF IInv

LEMMA ExpireStep ==
  ASSUME IInv, NEW d \in cache, Expire(d)
  PROVE  IInv'
<1>1. TypeOK' /\ CacheOK' /\ Clean'
  BY DEF IInv, TypeOK, CacheOK, Fresh, Clean, Expire, results, NoSeats
<1>2. GrantsOK' /\ SeatsOK'
  BY DEF IInv, GrantsOK, SeatsOK, Counted, Expire, results, NoSeats
<1>3. ListingOK'
  <2> SUFFICES ASSUME Everyone \notin evicted'
               PROVE  ListingOK'
    BY DEF ListingOK
  <2>1. \A e \in cache : e.query = Everyone => e \in cache'
    BY DEF Expire
  <2> QED
    BY <2>1 DEF IInv, ListingOK, Expire, results
<1> QED
  BY <1>1, <1>2, <1>3 DEF IInv

LEMMA SetRoleStep ==
  ASSUME IInv, NEW u \in Users, NEW r \in InPlay \cup {"none"}, SetRole(u, r)
  PROVE  IInv'
<1>1. /\ changed' = changed \cup {u}
      /\ \A v \in Users \ changed' : role'[v] = role[v]
      /\ UNCHANGED <<cache, syncing, todo, accounts, siteGrants, licenseGrants, seats, evicted>>
  BY DEF IInv, TypeOK, SetRole, results
<1>2. TypeOK'
  BY <1>1, LicenseSyncAssumption DEF IInv, TypeOK, SetRole
<1>3. CacheOK' /\ Clean'
  BY <1>1 DEF IInv, CacheOK, Fresh, Clean, NoSeats
<1>4. GrantsOK' /\ ListingOK'
  BY <1>1 DEF IInv, GrantsOK, ListingOK
<1>5. SeatsOK'
  BY <1>1 DEF IInv, SeatsOK, NoSeats
<1> QED
  BY <1>2, <1>3, <1>4, <1>5 DEF IInv

\* The invariant that everything rests on.
THEOREM Invariance == Spec => []IInv
<1>1. IInv /\ [Next]_vars => IInv'
  <2> SUFFICES ASSUME IInv, [Next]_vars PROVE IInv'
    OBVIOUS
  <2>1. CASE UNCHANGED vars
    <3>1. TypeOK' /\ CacheOK' /\ Clean'
      BY <2>1 DEF IInv, TypeOK, CacheOK, Fresh, Clean, vars, results, history, NoSeats
    <3>2. GrantsOK' /\ ListingOK' /\ SeatsOK'
      BY <2>1 DEF IInv, GrantsOK, ListingOK, SeatsOK, Counted, vars, results, history, NoSeats
    <3> QED
      BY <3>1, <3>2 DEF IInv
  <2>2. CASE Sync
    BY <2>2, BeginStep, ListUsersStep, CountTierStep, GiveUpSeatsStep, SiteGrantsStep,
       LicenseGrantsStep, FailStep, SucceedStep DEF Sync
  <2>3. CASE \E e \in cache : Expire(e)
    BY <2>3, ExpireStep
  <2>4. CASE \E u \in Users, r \in InPlay \cup {"none"} : SetRole(u, r)
    BY <2>4, SetRoleStep
  <2> QED
    BY <2>1, <2>2, <2>3, <2>4 DEF Next
<1> QED
  BY <1>1, InitStep, PTL DEF Spec
-----------------------------------------------------------------------------
\* Every variable of the sync of site roles, licenses and seats keeps its type.
THEOREM Typing == Spec => []TypeOK
BY Invariance, PTL DEF IInv

\* siteBuilder.Grants and licenseBuilder.Grants, read at different times, agree on
\* every user whose role has not changed since the cache was last emptied: that site
\* role, the license it consumes, and no other, or nothing if the role is not in the table
\* and Grants skips the user.
THEOREM OneLicenseEach == Spec => []OneLicense
<1>1. IInv => OneLicense
  <2> SUFFICES ASSUME IInv, Synced, NEW u \in Users \ changed
               PROVE  /\ {g \in siteGrants : g[2] = u} = {<<r, u>> : r \in {role[u]} \cap roles}
                      /\ {g \in licenseGrants : g[2] = u} =
                           {<<l, u>> : l \in {k \in Licenses : role[u] \in RolesPerLicense[k]}}
    BY DEF OneLicense
  <2>1. syncing = "yes" /\ todo = {}
    BY DEF Synced
  <2>2. siteGrants \subseteq (InPlay \cap roles) \X Users /\ licenseGrants \subseteq Licenses \X Users
        /\ role[u] \in InPlay \cup {"none"}
    BY DEF IInv, TypeOK
  <2>3. \A r \in InPlay : <<r, u>> \in siteGrants <=> role[u] = r /\ r \in roles
    BY <2>1 DEF IInv, GrantsOK
  <2>4. \A l \in Licenses : <<l, u>> \in licenseGrants <=> role[u] \in RolesPerLicense[l]
    BY <2>1 DEF IInv, GrantsOK
  <2>5. {g \in siteGrants : g[2] = u} = {<<r, u>> : r \in {role[u]} \cap roles}
    BY <2>2, <2>3, Tables
  <2>6. {g \in licenseGrants : g[2] = u} =
          {<<l, u>> : l \in {k \in Licenses : role[u] \in RolesPerLicense[k]}}
    BY <2>2, <2>4
  <2> QED
    BY <2>5, <2>6
<1> QED
  BY <1>1, Invariance, PTL

\* userBuilder.List, siteBuilder.Grants and the unfiltered licenseBuilder.Grants read one
\* response: one assignment of roles explains all that they tell of anybody, of users whose
\* role is not in the table or has changed meanwhile as of all others.
THEOREM OneListingForAll == Spec => []OneListing
<1>1. IInv => OneListing
  <2> SUFFICES ASSUME IInv, Synced, Everyone \notin evicted
               PROVE  OneListing
    BY DEF OneListing, Everyone
  <2>1. syncing = "yes" /\ todo = {}
    BY DEF Synced
  <2>2. PICK e \in cache : e.query = Everyone /\ accounts = Listed(Everyone, e.role)
    BY <2>1 DEF IInv, ListingOK
  <2> DEFINE R == e.role
  <2>3. R \in [Users -> InPlay \cup {"none"}] /\ \A u \in Users \ changed : R[u] = role[u]
    BY DEF IInv, TypeOK, CacheOK, Fresh
  <2>4. accounts = {u \in Users : R[u] # "none"}
    BY <2>2 DEF Listed, Everyone
  <2>5. siteGrants = {<<R[u], u>> : u \in {v \in Users : R[v] \in roles}}
    <3>1. siteGrants = SiteGrantsOf(R)
      BY <2>1, <2>2 DEF IInv, ListingOK, CacheOK
    <3>2. {v \in Listed(Everyone, R) : R[v] \in roles} = {v \in Users : R[v] \in roles}
      BY Tables DEF Listed, Everyone
    <3> QED
      BY <3>1, <3>2 DEF SiteGrantsOf
  <2>6. ASSUME NEW l \in Licenses, GrantsQuery(l) = Everyone
        PROVE  {g \in licenseGrants : g[1] = l} =
               {<<l, u>> : u \in {v \in Users : R[v] \in RolesPerLicense[l]}}
    <3> DEFINE them == {v \in Users : R[v] \in RolesPerLicense[l]}
    <3>1. \A u \in Users : <<l, u>> \in licenseGrants <=> u \in them
      <4>1. \A u \in Users : <<l, u>> \in licenseGrants <=> TellsOf(l, R, u)
        BY <2>1, <2>2, <2>6 DEF IInv, ListingOK, CacheOK
      <4> QED
        BY <4>1, Tables DEF TellsOf, Listed, Everyone
    <3>2. licenseGrants \subseteq Licenses \X Users
      BY DEF IInv, TypeOK
    <3> HIDE DEF them
    <3>3. them \subseteq Users
      BY DEF them
    <3>4. {g \in licenseGrants : g[1] = l} = {<<l, u>> : u \in them}
      BY <3>1, <3>2, <3>3
    <3> QED
      BY <3>4 DEF them
  <2> HIDE DEF R
  <2> QED
    BY <2>3, <2>4, <2>5, <2>6 DEF OneListing, Everyone
<1> QED
  BY <1>1, Invariance, PTL

\* countConsumedByTier counts the members of the license but for those that no filter
\* names, and licenseBuilder.List gives seats to all licenses with a capacity or to none.
THEOREM SeatsAgreeWithGrants == Spec => []SeatsAgree
<1>1. IInv => SeatsAgree
  <2> SUFFICES ASSUME IInv, Synced PROVE SeatsAgree
    BY DEF SeatsAgree
  <2>1. syncing = "yes" /\ todo = {}
    BY DEF Synced
  <2>2. {l \in Licenses : seats[l] # -1} \in {{}, Capped}
    <3>1. CASE seats = NoSeats
      BY <3>1 DEF NoSeats
    <3>2. CASE \A l \in Licenses : seats[l] # -1 <=> l \in Capped
      BY <3>2, LicenseSyncAssumption
    <3> QED
      BY <2>1, <3>1, <3>2 DEF IInv, SeatsOK
  <2>3. ASSUME changed = {}, NEW l \in Licenses, seats[l] # -1
        PROVE  seats[l] = Cardinality({g \in licenseGrants :
                   g[1] = l /\ role[g[2]] \notin unsupportedFilterRoles})
    <3> DEFINE them == Listed(<<"total", l>>, role)
               theirs == {g \in licenseGrants : g[1] = l /\ role[g[2]] \notin unsupportedFilterRoles}
               f == [u \in them |-> <<l, u>>]
    <3>1. seats[l] = Cardinality(them)
      BY <2>1, <2>3 DEF IInv, SeatsOK, Counted
    <3>2. licenseGrants \subseteq Licenses \X Users
          /\ \A u \in Users : <<l, u>> \in licenseGrants <=> role[u] \in RolesPerLicense[l]
      BY <2>1, <2>3 DEF IInv, TypeOK, GrantsOK
    <3>3. them = {u \in Users : role[u] \in RolesPerLicense[l] /\ role[u] \notin unsupportedFilterRoles}
      BY Tables DEF Listed, filterableRoles
    <3>4. theirs = {<<l, u>> : u \in them}
      BY <3>2, <3>3
    <3> HIDE DEF them, theirs
    <3>5. f \in Bijection(them, theirs)
      BY <3>4 DEF Bijection, Injection, Surjection, IsInjective
    <3>6. ExistsBijection(them, theirs)
      BY <3>5, Fun_ExistsBij
    <3>7. IsFiniteSet(them)
      BY ListedIsUsers DEF them
    <3> QED
      BY <3>1, <3>6, <3>7, FS_Bijection DEF theirs
  <2> QED
    BY <2>2, <2>3 DEF SeatsAgree
<1> QED
  BY <1>1, Invariance, PTL
=============================================================================
