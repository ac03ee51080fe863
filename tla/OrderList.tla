------------------------------ MODULE OrderList ------------------------------
(***************************************************************************)
(* GET /restaurants/:id/branches/:id/orders for one branch, the status     *)
(* `placed` and one role of its staff: the permission of the role, cached  *)
(* by every process for itself (lib/rbac, lib/auth/rbac); the answer,      *)
(* cached in Redis for all of them (lib/cache/withCache); the query with   *)
(* its cursor (order.repo, lib/http/pagination).  Both caches are filled   *)
(* by whoever misses, after the read, so that an old value may be stored   *)
(* over a change or over an invalidation.                                  *)
(*                                                                         *)
(* Time is discrete.  The invalidation of the list deletes a key that      *)
(* withCache never writes (RESTAURANT_ORDERS_CACHE_PREFIX has the path     *)
(* /api/restaurant/orders, the route has another): it has no effect.       *)
(***************************************************************************)
EXTENDS Naturals, FiniteSets

CONSTANTS NOrders,    \* orders of the branch, numbered by created_at
          Servers,    \* API servers
          Slots,      \* requests that run at a time
          Limit,      \* of a page
          ListTTL,    \* withCache(60)
          PermTTL,    \* CACHE_TTL of PermissionCacheService
          MaxRead,    \* bound on the duration of a request
          MaxTime     \* bound on the time

ASSUME ListAssumption ==
    /\ {NOrders, PermTTL, MaxRead, MaxTime} \subseteq Nat
    /\ {Limit, ListTTL} \subseteq Nat \ {0}
    /\ "none" \notin Servers

VARIABLES status,   \* order -> "absent", "placed" or "accepted"
          since,    \* order -> when it got its status
          granted,  \* the core service grants orders:read to the role (external)
          changed,  \* when that changed last
          pending,  \* rbac.permissions_changed is on the queue
          cached,   \* process -> its entry of the role
          list,     \* the Redis entry of the first page
          slot,     \* requests in progress
          now

listVars == <<status, since, granted, changed, pending, cached, list, slot, now>>

Orders == 1..NOrders
Times == 0..MaxTime

\* perm and rows are what was read, at the time it was stored.
Entry == [perm : {"none", "yes", "no"}, at : Times]
NoEntry == [perm |-> "none", at |-> 0]
List == [stored : BOOLEAN, rows : SUBSET Orders, more : BOOLEAN, at : Times]
NoList == [stored |-> FALSE, rows |-> {}, more |-> FALSE, at |-> 0]

\* "undefined" is what a page with more behind it says is the next.
Cursors == {"none", "undefined"}

Slot == [pc : {"idle", "rbac", "grant", "cache", "query", "store"},
         by : Servers \cup {"none"}, cursor : Cursors,
         started : Times, perm : {"none", "yes", "no"},
         rows : SUBSET Orders, more : BOOLEAN]
Idle == [pc |-> "idle", by |-> "none", cursor |-> "none", started |-> 0,
         perm |-> "none", rows |-> {}, more |-> FALSE]

ListTypeOK ==
    /\ status \in [Orders -> {"absent", "placed", "accepted"}]
    /\ since \in [Orders -> Times]
    /\ granted \in BOOLEAN
    /\ changed \in Times
    /\ pending \in BOOLEAN
    /\ cached \in [Servers -> Entry]
    /\ list \in List
    /\ slot \in [Slots -> Slot]
    /\ now \in Times

ListInit ==
    /\ status = [o \in Orders |-> "absent"]
    /\ since = [o \in Orders |-> 0]
    /\ granted = TRUE
    /\ changed = 0
    /\ pending = FALSE
    /\ cached = [p \in Servers |-> NoEntry]
    /\ list = NoList
    /\ slot = [r \in Slots |-> Idle]
    /\ now = 0

rowVars == <<status, since>>
rbacVars == <<granted, changed, pending, cached>>

-----------------------------------------------------------------------------
(* Orders, permissions and time *)

\* External to the list: an order is placed or accepted, one at a time in the
\* order of created_at.
Enter(o, s) ==
    /\ \/ s = "placed" /\ status[o] = "absent"
                       /\ \A p \in Orders : p < o => status[p] # "absent"
       \/ s = "accepted" /\ status[o] = "placed"
    /\ status' = [status EXCEPT ![o] = s]
    /\ since' = [since EXCEPT ![o] = now]
    /\ UNCHANGED <<rbacVars, list, slot, now>>

\* External: an administrator of the core service grants or revokes.
Change ==
    /\ granted' = ~granted
    /\ changed' = now
    /\ pending' = TRUE
    /\ UNCHANGED <<rowVars, cached, list, slot, now>>

\* handlePermissionsChanged, in the one process that takes the event.
Invalidate(p) ==
    /\ pending
    /\ pending' = FALSE
    /\ cached' = [cached EXCEPT ![p] = NoEntry]
    /\ UNCHANGED <<rowVars, granted, changed, list, slot, now>>

\* Mistaken variant: the key has no TTL.
ForgetsNever(l, t) == FALSE

\* The end of the key's TTL.
Forgets(l, t) == l.stored /\ t = l.at + ListTTL

\* MaxRead, MaxTime; Redis forgets the key in time.
Tick ==
    /\ now < MaxTime
    /\ \A r \in Slots : slot[r].pc # "idle" => now < slot[r].started + MaxRead
    /\ now' = now + 1
    /\ list' = IF Forgets(list, now + 1) THEN NoList ELSE list
    /\ UNCHANGED <<rowVars, rbacVars, slot>>

-----------------------------------------------------------------------------
(* rbac *)

At(r, pc) == slot[r].pc = pc
Goes(r, pc) == [slot EXCEPT ![r].pc = pc]
Ends(r) == [slot EXCEPT ![r] = Idle]

\* The first page, or the next of a page that said there is more.
Arrive(r, p, cursor) ==
    /\ At(r, "idle")
    /\ cursor = "undefined" => list.more
    /\ slot' = [slot EXCEPT ![r] = [Idle EXCEPT !.pc = "rbac", !.by = p,
                                                !.cursor = cursor,
                                                !.started = now]]
    /\ UNCHANGED <<rowVars, rbacVars, list, now>>

\* Mistaken variant: the events alone are relied on.
IsCachedForGood(p) == cached[p].perm # "none"

\* getPermissions: a cached entry is used for PermTTL.
IsCached(p) == cached[p].perm # "none" /\ now < cached[p].at + PermTTL

\* hasPermission; without it the answer is a 403.
Decide(r, perm) ==
    IF perm = "yes" THEN [slot EXCEPT ![r].pc = "cache", ![r].perm = "none"]
                    ELSE Ends(r)

RbacHit(r) ==
    LET p == slot[r].by IN
    /\ At(r, "rbac")
    /\ IsCached(p)
    /\ slot' = Decide(r, cached[p].perm)
    /\ UNCHANGED <<rowVars, rbacVars, list, now>>

\* getRolePermissions: what the core service answers.
RbacFetch(r) ==
    /\ At(r, "rbac")
    /\ ~IsCached(slot[r].by)
    /\ slot' = [slot EXCEPT ![r].pc = "grant",
                            ![r].perm = IF granted THEN "yes" ELSE "no"]
    /\ UNCHANGED <<rowVars, rbacVars, list, now>>

\* The answer is cached, whatever was invalidated since it was asked for.
RbacStore(r) ==
    /\ At(r, "grant")
    /\ cached' = [cached EXCEPT ![slot[r].by] = [perm |-> slot[r].perm, at |-> now]]
    /\ slot' = Decide(r, slot[r].perm)
    /\ UNCHANGED <<rowVars, granted, changed, pending, list, now>>

-----------------------------------------------------------------------------
(* withCache, and listRestaurantOrders behind it *)

\* The key has the URL in it: only the first page can hit.
ListHit(r) ==
    /\ At(r, "cache")
    /\ list.stored
    /\ slot[r].cursor = "none"
    /\ slot' = Ends(r)
    /\ UNCHANGED <<rowVars, rbacVars, list, now>>

ListMiss(r) ==
    /\ At(r, "cache")
    /\ ~list.stored \/ slot[r].cursor # "none"
    /\ slot' = Goes(r, "query")
    /\ UNCHANGED <<rowVars, rbacVars, list, now>>

Placed == {o \in Orders : status[o] = "placed"}

\* orderBy created_at desc, limit.
Newest(rows, n) == {o \in rows : Cardinality({p \in rows : p > o}) < n}

\* findOrdersByBranch with applyCursorPagination: one row more than a page.
Found == Newest(Placed, Limit + 1)

\* buildPaginationResult.
Page == Newest(Found, Limit)
HasMore == Cardinality(Found) > Limit

\* The next cursor is the field `createdAt` of a row that has `created_at`:
\* "undefined", which the database does not take for a timestamp.
Query(r) ==
    /\ At(r, "query")
    /\ slot' = IF slot[r].cursor = "undefined" THEN Ends(r)
               ELSE [slot EXCEPT ![r].pc = "store", ![r].rows = Page,
                                 ![r].more = HasMore]
    /\ UNCHANGED <<rowVars, rbacVars, list, now>>

\* The patched res.json: set, not waited for.
Store(r) ==
    /\ At(r, "store")
    /\ list' = [stored |-> TRUE, rows |-> slot[r].rows, more |-> slot[r].more,
                at |-> now]
    /\ slot' = Ends(r)
    /\ UNCHANGED <<rowVars, rbacVars, now>>

\* The core service, the database or Redis fails.
Fails(r) ==
    /\ ~At(r, "idle")
    /\ slot' = Ends(r)
    /\ UNCHANGED <<rowVars, rbacVars, list, now>>

\* A server dies, and its cached permissions with it.
Dies(p) ==
    /\ slot' = [r \in Slots |-> IF slot[r].by = p THEN Idle ELSE slot[r]]
    /\ cached' = [cached EXCEPT ![p] = NoEntry]
    /\ UNCHANGED <<rowVars, granted, changed, pending, list, now>>

-----------------------------------------------------------------------------
ListNext ==
    \/ \E o \in Orders, s \in {"placed", "accepted"} : Enter(o, s)
    \/ Change \/ Tick
    \/ \E p \in Servers : Invalidate(p) \/ Dies(p)
    \/ \E r \in Slots, p \in Servers, cursor \in Cursors :
           Arrive(r, p, cursor)
    \/ \E r \in Slots : \/ RbacHit(r) \/ RbacFetch(r) \/ RbacStore(r)
                        \/ ListHit(r) \/ ListMiss(r) \/ Query(r)
                        \/ Store(r) \/ Fails(r)

ListSpec == ListInit /\ [][ListNext]_listVars

-----------------------------------------------------------------------------
(* Properties *)

\* Whatever reads and stores overlap and although nothing invalidates it, the
\* list that withCache serves is not older than its TTL and one request: an
\* order placed earlier is on it (or the page is full of later ones), one
\* accepted earlier is off it.
ListIsRecent ==
    list.stored => \A o \in Orders : since[o] + ListTTL + MaxRead <= now =>
        CASE status[o] = "placed" ->
                 \/ o \in list.rows
                 \/ Cardinality({p \in list.rows : p > o}) = Limit
          [] status[o] = "accepted" -> o \notin list.rows
          [] OTHER -> TRUE

\* No process decides on a permission that was changed longer ago than the
\* TTL of its entry and one request, whichever process the event went to and
\* however it raced with a fetch.
PermissionIsRecent ==
    \A p \in Servers :
        IsCached(p) /\ changed + PermTTL + MaxRead <= now =>
            (cached[p].perm = "yes" <=> granted)
=============================================================================
