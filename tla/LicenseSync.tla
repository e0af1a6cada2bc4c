----------------------------- MODULE LicenseSync -----------------------------
(***************************************************************************)
(* A sync of site roles, licenses and seats (userBuilder.List,             *)
(* siteBuilder.Grants, licenseBuilder.List and Grants): every one of them  *)
(* is derived from a listing of the users, at a time of its own, while     *)
(* roles change; some listings share a URL and with it a cached response,  *)
(* and some are filtered by Tableau.                                       *)
(*                                                                         *)
(* A listing is one response here; PageWalk has its pages.  Roles change   *)
(* in any way, the connector's own tasks being one of them: a PUT leaves   *)
(* the response cache alone.  The sync engine and the response cache are   *)
(* the SDK's.                                                              *)
(***************************************************************************)
EXTENDS Integers, FiniteSets, Licensing

CONSTANTS Users,      \* users of the site, now or at some time
          InPlay,     \* the site roles users have in an instance, whether in the table
                      \* roles or not
          Licenses,   \* the licenses an instance syncs
          Capped,     \* those the site has a positive capacity for
          MaxChanges  \* bound: number of role changes

ASSUME LicenseSyncAssumption ==
  /\ MaxChanges \in Nat
  /\ IsFiniteSet(Users)
  /\ Licenses \subseteq licenses
  /\ "none" \notin InPlay
  /\ Capped \subseteq Licenses \ {"Unlicensed"}

VARIABLES
  role,     \* Tableau: every user's site role, "none" for who is not on the site
  cache,    \* cached responses: [query, role]
  syncing,  \* "no" or "yes"
  todo,     \* what the sync has still to ask the connector for
  accounts, siteGrants, licenseGrants, seats,  \* what it has been told
  \* history
  changed,  \* users whose role has changed since the cache was last emptied
  evicted,  \* queries whose response left the cache during the sync
  changes   \* bound: number of role changes

results == <<accounts, siteGrants, licenseGrants, seats>>
history == <<changed, evicted, changes>>
vars    == <<role, cache, syncing, todo, results, history>>

\* The steps of a sync: the users; the users counted by license; the grants of
\* the site; the grants of a license.
ResourceSteps == {<<"users", "any">>} \cup {<<"count", l>> : l \in Capped}
GrantSteps    == {<<"site", "any">>} \cup {<<"license", l>> : l \in Licenses}

\* The GETs, by URL: a listing of the users, unfiltered or by license, and a
\* listing of one user per page of which only the total is read.
Queries == ({"list"} \X (Licenses \cup {"any"})) \cup ({"total"} \X Licenses)

\* MUTANT: the filter names what it can name.
GrantsQueryFiltered(l) == <<"list", l>>

\* licenseBuilder.Grants filters only if the filter can name every role.
GrantsQuery(l) == IF filterableRoles(l) = RolesPerLicense[l] THEN <<"list", l>>
                                                             ELSE <<"list", "any">>

\* MUTANT: who has left the site is listed, too.
ListedEveryone(q, R) == {u \in Users : q[2] # "any" => R[u] \in filterableRoles(q[2])}

\* The users a response to q lists, when R are the roles it tells of.
Listed(q, R) == {u \in Users : /\ R[u] # "none"
                               /\ q[2] # "any" => R[u] \in filterableRoles(q[2])}

NoSeats == [l \in Licenses |-> -1]
-----------------------------------------------------------------------------
Init ==
  /\ role \in [Users -> InPlay \cup {"none"}]
  /\ cache = {}
  /\ syncing = "no" /\ todo = {}
  /\ accounts = {} /\ siteGrants = {} /\ licenseGrants = {} /\ seats = NoSeats
  /\ changed = {} /\ evicted = {} /\ changes = 0

\* The cached responses to q; there is at most one.
Cached(q) == {e \in cache : e.query = q}

\* BaseHttpClient.Do: the response to GET q tells of the roles R, which are
\* those of the cached response if there is one.
Get(q, R) ==
  \/ \E e \in Cached(q) : R = e.role /\ UNCHANGED cache
  \/ /\ Cached(q) = {}
     /\ R = role
     /\ cache' = cache \cup {[query |-> q, role |-> R]}

\* All that responses can tell of.
Known == {role} \cup {e.role : e \in cache}

\* The sync engine asks for step s, for grants after all resources.
Asks(s) ==
  /\ syncing = "yes"
  /\ s \in todo
  /\ s \in GrantSteps => todo \cap ResourceSteps = {}
  /\ todo' = todo \ {s}
  /\ UNCHANGED <<role, syncing, history>>

Begin ==
  /\ syncing = "no"
  /\ syncing' = "yes"
  /\ todo' = ResourceSteps \cup GrantSteps
  /\ evicted' = {}
  /\ UNCHANGED <<role, cache, results, changed, changes>>

\* userBuilder.List
ListUsers ==
  /\ Asks(<<"users", "any">>)
  /\ \E R \in Known : /\ Get(<<"list", "any">>, R)
                      /\ accounts' = Listed(<<"list", "any">>, R)
  /\ UNCHANGED <<siteGrants, licenseGrants, seats>>

\* countConsumedByTier counts the users of license l.
CountTier(l) ==
  /\ Asks(<<"count", l>>)
  /\ \E R \in Known :
       /\ Get(<<"total", l>>, R)
       /\ seats' = [seats EXCEPT ![l] = Cardinality(Listed(<<"total", l>>, R))]
  /\ UNCHANGED <<accounts, siteGrants, licenseGrants>>

\* MUTANT: the licenses counted before the failure keep their seats.
GiveUpSeatsLate ==
  /\ syncing = "yes"
  /\ \E l \in Capped : <<"count", l>> \in todo
  /\ todo' = todo \ {<<"count", l>> : l \in Capped}
  /\ UNCHANGED <<role, cache, syncing, results, history>>

\* licenseBuilder.List cannot read the site or a count: no license gets seats.
GiveUpSeats ==
  /\ syncing = "yes"
  /\ \E l \in Capped : <<"count", l>> \in todo
  /\ todo' = todo \ {<<"count", l>> : l \in Capped}
  /\ seats' = NoSeats
  /\ UNCHANGED <<role, cache, syncing, accounts, siteGrants, licenseGrants, history>>

\* MUTANT: who has a role that is not in the table is granted it, too.
SiteGrantsOfAnyRole ==
  /\ Asks(<<"site", "any">>)
  /\ \E R \in Known :
       /\ Get(<<"list", "any">>, R)
       /\ siteGrants' = {<<R[u], u>> : u \in Listed(<<"list", "any">>, R)}
  /\ UNCHANGED <<accounts, licenseGrants, seats>>

\* siteBuilder.Grants.  A user whose role is not in the table is skipped.
SiteGrants ==
  /\ Asks(<<"site", "any">>)
  /\ \E R \in Known :
       /\ Get(<<"list", "any">>, R)
       /\ siteGrants' = {<<R[u], u>> : u \in {v \in Listed(<<"list", "any">>, R) : R[v] \in roles}}
  /\ UNCHANGED <<accounts, licenseGrants, seats>>

\* licenseBuilder.Grants of license l
LicenseGrants(l) ==
  /\ Asks(<<"license", l>>)
  /\ \E R \in Known :
       /\ Get(GrantsQuery(l), R)
       /\ licenseGrants' = licenseGrants \cup
            {<<l, u>> : u \in {v \in Listed(GrantsQuery(l), R) : R[v] \in RolesPerLicense[l]}}
  /\ UNCHANGED <<accounts, siteGrants, seats>>

\* The next sync starts from nothing.
Rest ==
  /\ syncing' = "no" /\ todo' = {}
  /\ accounts' = {} /\ siteGrants' = {} /\ licenseGrants' = {} /\ seats' = NoSeats

\* The sync fails.  The cache stays as it is.
Fail == syncing = "yes" /\ Rest /\ UNCHANGED <<role, cache, history>>

Synced == syncing = "yes" /\ todo = {}

\* The sync succeeds, and its Cleanup empties the cache.
Succeed ==
  /\ Synced
  /\ Rest
  /\ cache' = {}
  /\ changed' = {}
  /\ UNCHANGED <<role, evicted, changes>>

\* A cached response expires or is evicted.
Expire(e) ==
  /\ cache' = cache \ {e}
  /\ evicted' = evicted \cup {e.query}
  /\ UNCHANGED <<role, syncing, todo, results, changed, changes>>

\* Somebody sets the role of user u, adds u to the site or takes u off it.
SetRole(u, r) ==
  /\ changes < MaxChanges
  /\ r # role[u]
  /\ role' = [role EXCEPT ![u] = r]
  /\ changed' = changed \cup {u}
  /\ changes' = changes + 1
  /\ UNCHANGED <<cache, syncing, todo, results, evicted>>

Sync ==
  \/ Begin \/ ListUsers \/ GiveUpSeats \/ SiteGrants \/ Fail \/ Succeed
  \/ \E l \in Capped : CountTier(l)
  \/ \E l \in Licenses : LicenseGrants(l)

Next ==
  \/ Sync
  \/ \E e \in cache : Expire(e)
  \/ \E u \in Users, r \in InPlay \cup {"none"} : SetRole(u, r)

Spec == Init /\ [][Next]_vars
-----------------------------------------------------------------------------
\* Every variable keeps its type.
TypeOK ==
  /\ role \in [Users -> InPlay \cup {"none"}]
  /\ cache \subseteq [query : Queries, role : [Users -> InPlay \cup {"none"}]]
  /\ syncing \in {"no", "yes"}
  /\ todo \subseteq ResourceSteps \cup GrantSteps
  /\ accounts \subseteq Users
  /\ siteGrants \subseteq (InPlay \cap roles) \X Users
  /\ licenseGrants \subseteq Licenses \X Users
  /\ seats \in [Licenses -> -1 .. Cardinality(Users)]
  /\ changed \subseteq Users
  /\ evicted \subseteq Queries
  /\ changes \in 0 .. MaxChanges

\* A user whose role has not changed since the cache was last emptied has, at
\* the end of a sync, the grant of that site role, a grant of the one license
\* the role consumes, and no other, or none at all if the role is not in the
\* table: although the two are read at different times from different
\* listings, some of them left by a sync that failed.
OneLicense ==
  Synced => \A u \in Users \ changed :
    /\ {g \in siteGrants : g[2] = u} = {<<r, u>> : r \in {role[u]} \cap roles}
    /\ {g \in licenseGrants : g[2] = u} =
         {<<l, u>> : l \in {k \in Licenses : role[u] \in RolesPerLicense[k]}}

\* Accounts, site role grants and Explorer grants come from one response, unless
\* it left the cache during the sync.  So there are roles R, those of whoever has
\* not changed, which explain all three: the accounts are the users with a role,
\* the site role grants those of the users whose role is in the table, and the
\* grants of an unfiltered license those of the users whose role consumes it.
OneListing ==
  Synced /\ <<"list", "any">> \notin evicted =>
    \E R \in [Users -> InPlay \cup {"none"}] :
      /\ \A u \in Users \ changed : R[u] = role[u]
      /\ accounts = {u \in Users : R[u] # "none"}
      /\ siteGrants = {<<R[u], u>> : u \in {v \in Users : R[v] \in roles}}
      /\ \A l \in Licenses : GrantsQuery(l) = <<"list", "any">> =>
           {g \in licenseGrants : g[1] = l} =
           {<<l, u>> : u \in {v \in Users : R[v] \in RolesPerLicense[l]}}

\* The consumed seats of a license are its members but for those whose role no
\* filter can name, when nobody's role has changed; and either every license
\* with a capacity has seats or none.
SeatsAgree ==
  Synced =>
    /\ changed = {} => \A l \in Licenses : seats[l] # -1 =>
         seats[l] = Cardinality({g \in licenseGrants :
                      g[1] = l /\ role[g[2]] \notin unsupportedFilterRoles})
    /\ {l \in Licenses : seats[l] # -1} \in {{}, Capped}
=============================================================================
