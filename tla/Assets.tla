-------------------------------- MODULE Assets --------------------------------
(***************************************************************************)
(* The customers of a workspace with their service locations, the assets   *)
(* that stand there and the work orders made out for them                  *)
(* (lib/services/customer, asset and workOrder).  A call reads the rows it *)
(* depends on and checks them outside a transaction; its write then names  *)
(* the row by id and sets the columns it has computed, whatever the row    *)
(* has become.  What the database itself refuses are references to rows    *)
(* that are gone and deletions of rows that are referred to.               *)
(***************************************************************************)
EXTENDS Naturals

CONSTANTS
  Customers, Locations, Assets, Orders,  \* ids, each given to at most one row
  Callers,   \* service calls in progress at the same time
  InUse,     \* the asset statuses that occur
  None,      \* null
  New, Gone  \* an id whose row is not yet, or no longer, in the database

Statuses == {"IN_STORAGE", "OPERATIONAL", "DEGRADED", "OUT_OF_SERVICE",
             "DECOMMISSIONED", "RETIRED"}

Columns == {"status", "customer", "location"}

\* Asset: the columns that tell where it is.
Rows == [status : InUse, customer : Customers \cup {None},
         location : Locations \cup {None}]

\* WorkOrder: what it refers to.
OrderRows == [customer : Customers, location : Locations, asset : Assets \cup {None}]

ASSUME AssetsAssumption ==
  /\ InUse \subseteq Statuses
  /\ New # Gone
  /\ \A n \in {None, New, Gone} :
       n \notin Customers \cup Locations \cup Assets \cup Orders \cup Rows \cup OrderRows

VARIABLES
  customer,   \* Customer.status, DELETED when it is gone
  location,   \* the customer of each ServiceLocation
  asset,      \* the row of each asset
  order,      \* the row of each work order
  call,       \* what each call has read and will write
  told,       \* what the AssetHistory of each asset says when it is read in order,
              \* followed until calls cross on it
  crossed     \* columns of an asset that changed between some call's read and its write

vars == <<customer, location, asset, order, call, told, crossed>>

NoCall == [op |-> "none"]

\* Customers come first; everything else is made by calls.
Init ==
  /\ customer = [c \in Customers |-> "ACTIVE"]
  /\ location = [l \in Locations |-> New]
  /\ asset = [a \in Assets |-> New]
  /\ order = [w \in Orders |-> New]
  /\ call = [p \in Callers |-> NoCall]
  /\ told = [a \in Assets |-> None]
  /\ crossed = [a \in Assets |-> {}]

\* Call p has passed its checks: it will write the columns r of the row of i.
Begin(p, op, i, r) ==
  /\ call[p] = NoCall
  /\ call' = [call EXCEPT ![p] = [op |-> op, on |-> i, row |-> r, stale |-> {}]]
  /\ UNCHANGED <<customer, location, asset, order, told, crossed>>

Writes(p, op) == call[p] # NoCall /\ call[p].op = op

End(p) == call' = [call EXCEPT ![p] = NoCall]

\* Any error: a row that is gone, a reference the database refuses, a number
\* taken again and again, a lost connection.
Refuse(p) ==
  /\ call[p] # NoCall
  /\ End(p)
  /\ UNCHANGED <<customer, location, asset, order, told, crossed>>

\* The references of a row to be written (foreign keys).
CustomerThere(c) == c # None => customer[c] # "DELETED"
LocationThere(l) == l # None => location[l] \notin {New, Gone}
AssetThere(a) == a # None => asset[a] \notin {New, Gone}

\* The references to a row to be deleted (onDelete: Restrict).
Standing == {a \in Assets : asset[a] \notin {New, Gone}}
Open == {w \in Orders : order[w] \notin {New, Gone}}
LocationFree(l) == /\ \A a \in Standing : asset[a].location # l
                   /\ \A w \in Open : order[w].location # l
CustomerFree(c) == /\ \A a \in Standing : asset[a].customer # c
                   /\ \A w \in Open : order[w].customer # c

-----------------------------------------------------------------------------
(* Customers and their service locations. *)

\* changeCustomerStatus: the write does not depend on the row it read.
ChangeCustomerStatus(c, s) ==
  /\ customer[c] \notin {s, "DELETED"}
  /\ customer' = [customer EXCEPT ![c] = s]
  /\ UNCHANGED <<location, asset, order, call, told, crossed>>

DeleteCustomer(p, c) ==
  /\ customer[c] = "INACTIVE"
  /\ Begin(p, "deleteCustomer", c, None)

\* The locations go with it (onDelete: Cascade), unless one of them is held.
CommitDeleteCustomer(p) ==
  LET c == call[p].on IN
  /\ Writes(p, "deleteCustomer")
  /\ customer[c] # "DELETED" /\ CustomerFree(c)
  /\ \A l \in Locations : location[l] = c => LocationFree(l)
  /\ customer' = [customer EXCEPT ![c] = "DELETED"]
  /\ location' = [l \in Locations |-> IF location[l] = c THEN Gone ELSE location[l]]
  /\ End(p)
  /\ UNCHANGED <<asset, order, told, crossed>>

CreateLocation(p, l, c) ==
  /\ location[l] = New
  /\ customer[c] = "ACTIVE"
  /\ Begin(p, "createLocation", l, c)

CommitCreateLocation(p) ==
  LET l == call[p].on IN
  /\ Writes(p, "createLocation")
  /\ location[l] = New /\ CustomerThere(call[p].row)
  /\ location' = [location EXCEPT ![l] = call[p].row]
  /\ End(p)
  /\ UNCHANGED <<customer, asset, order, told, crossed>>

DeleteLocation(p, l) ==
  /\ location[l] \in Customers
  /\ customer[location[l]] = "ACTIVE"
  /\ Begin(p, "deleteLocation", l, None)

CommitDeleteLocation(p) ==
  LET l == call[p].on IN
  /\ Writes(p, "deleteLocation")
  /\ location[l] \in Customers /\ LocationFree(l)
  /\ location' = [location EXCEPT ![l] = Gone]
  /\ End(p)
  /\ UNCHANGED <<customer, asset, order, told, crossed>>

-----------------------------------------------------------------------------
(* Assets. *)

\* An owner has to be active; a place needs an owner, and has to be one of his.
GoodHome(c, l) ==
  /\ c # None => customer[c] = "ACTIVE"
  /\ l # None => c # None /\ location[l] = c

CreateAsset(p, a, r) ==
  /\ asset[a] = New
  /\ GoodHome(r.customer, r.location)
  /\ Begin(p, "createAsset", a, r)

CommitCreateAsset(p) ==
  LET a == call[p].on  r == call[p].row IN
  /\ Writes(p, "createAsset")
  /\ asset[a] = New /\ CustomerThere(r.customer) /\ LocationThere(r.location)
  /\ asset' = [asset EXCEPT ![a] = r]
  /\ told' = [told EXCEPT ![a] = r]
  /\ End(p)
  /\ UNCHANGED <<customer, location, order, crossed>>

Movable(a) == asset[a].status \notin {"RETIRED", "DECOMMISSIONED"}

\* Slip: the place is looked up by its id alone.
MoveAssetAnywhere(p, a, l) ==
  /\ a \in Standing /\ Movable(a)
  /\ asset[a].customer # None /\ location[l] \in Customers
  /\ Begin(p, "moveAsset", a, [location |-> l])

\* transferAssetLocation, also to the place where it stands, for other notes.
MoveAsset(p, a, l) ==
  /\ a \in Standing /\ Movable(a)
  /\ asset[a].customer # None /\ location[l] = asset[a].customer
  /\ Begin(p, "moveAsset", a, [location |-> l])

\* transferAssetOwnership
SellAsset(p, a, c, l) ==
  /\ a \in Standing /\ Movable(a)
  /\ GoodHome(c, l)
  /\ Begin(p, "sellAsset", a, [customer |-> c, location |-> l])

InService == {"OPERATIONAL", "DEGRADED", "OUT_OF_SERVICE"}

\* The matrix of phase 1.7.1, 2.2; roles and reasons only refuse.
Allowed(from, to) ==
  /\ from # "RETIRED" /\ to # from
  /\ to \in {"DEGRADED", "OUT_OF_SERVICE"} => from \in InService

Uninstalls(from, to) == to = "IN_STORAGE" /\ from \in InService

\* transitionAssetStatus: into the depot it leaves the place where it served;
\* the place is written even when it stays.
Transition(p, a, s) ==
  LET r == asset[a] IN
  /\ a \in Standing /\ Allowed(r.status, s)
  /\ Begin(p, "transition", a,
           [status |-> s, location |-> IF Uninstalls(r.status, s) THEN None ELSE r.location])

\* Row r after the columns n of an update have been written.
Updated(op, r, n) ==
  [status   |-> IF op = "transition" THEN n.status ELSE r.status,
   customer |-> IF op = "sellAsset" THEN n.customer ELSE r.customer,
   location |-> n.location]

\* The same by the history entry of the update: that of a transition has the place
\* only when the asset left it (locationUninstalled).
Retold(op, r, n) ==
  [Updated(op, r, n) EXCEPT !.location =
     IF op = "transition" /\ n.location # None THEN r.location ELSE @]

\* The columns that row r has otherwise than row n.
Differing(r, n) ==
  {f \in Columns :
     \/ f = "status" /\ n.status # r.status
     \/ f = "customer" /\ n.customer # r.customer
     \/ f = "location" /\ n.location # r.location}

Updating(p, a) ==
  call[p] # NoCall /\ call[p].op \in {"moveAsset", "sellAsset", "transition"} /\ call[p].on = a

\* The calls after p has updated a: what the others have read of a is stale.
AfterUpdate(p, a) ==
  [q \in Callers |-> IF q = p THEN NoCall
                     ELSE IF Updating(q, a) THEN [call[q] EXCEPT !.stale = @ \cup Differing(asset[a], asset'[a])]
                     ELSE call[q]]

\* Slip: the entry of a transition never has the place.
CommitUpdateUntold(p, a) ==
  LET op == call[p].op  n == call[p].row IN
  /\ Updating(p, a) /\ a \in Standing
  /\ op = "sellAsset" => CustomerThere(n.customer)
  /\ LocationThere(n.location)
  /\ asset' = [asset EXCEPT ![a] = Updated(op, @, n)]
  /\ crossed' = [crossed EXCEPT ![a] = @ \cup call[p].stale]
  /\ told' = [told EXCEPT ![a] =
       IF crossed'[a] # {} THEN None
       ELSE [Updated(op, @, n) EXCEPT !.location =
               IF op = "transition" THEN told[a].location ELSE @]]
  /\ call' = AfterUpdate(p, a)
  /\ UNCHANGED <<customer, location, order>>

\* One transaction updates the row and writes its history.
CommitUpdate(p, a) ==
  LET op == call[p].op  n == call[p].row IN
  /\ Updating(p, a) /\ a \in Standing
  /\ op = "sellAsset" => CustomerThere(n.customer)
  /\ LocationThere(n.location)
  /\ asset' = [asset EXCEPT ![a] = Updated(op, @, n)]
  /\ crossed' = [crossed EXCEPT ![a] = @ \cup call[p].stale]
  /\ told' = [told EXCEPT ![a] = IF crossed'[a] = {} THEN Retold(op, @, n) ELSE None]
  /\ call' = AfterUpdate(p, a)
  /\ UNCHANGED <<customer, location, order>>

DeleteAsset(p, a) ==
  /\ a \in Standing
  /\ \A w \in Open : order[w].asset # a
  /\ Begin(p, "deleteAsset", a, None)

\* The history goes with it.
CommitDeleteAsset(p) ==
  LET a == call[p].on IN
  /\ Writes(p, "deleteAsset")
  /\ a \in Standing
  /\ \A w \in Open : order[w].asset # a
  /\ asset' = [asset EXCEPT ![a] = Gone]
  /\ told' = [told EXCEPT ![a] = None]
  /\ crossed' = [crossed EXCEPT ![a] = {}]
  /\ End(p)
  /\ UNCHANGED <<customer, location, order>>

-----------------------------------------------------------------------------
(* Work orders: what they refer to. *)

\* Asset a may be served for customer c at location l; a depot asset anywhere.
Serviceable(a, c, l) ==
  /\ a \in Standing /\ asset[a].status # "RETIRED"
  /\ asset[a].customer # None =>
       asset[a].customer = c /\ asset[a].location \in {None, l}

\* Slip: the location is looked up by its id alone.
CreateOrderAnywhere(p, w, r) ==
  /\ order[w] = New
  /\ customer[r.customer] = "ACTIVE" /\ location[r.location] \in Customers
  /\ r.asset # None => Serviceable(r.asset, r.customer, r.location)
  /\ Begin(p, "createOrder", w, r)

CreateOrder(p, w, r) ==
  /\ order[w] = New
  /\ customer[r.customer] = "ACTIVE" /\ location[r.location] = r.customer
  /\ r.asset # None => Serviceable(r.asset, r.customer, r.location)
  /\ Begin(p, "createOrder", w, r)

CommitCreateOrder(p) ==
  LET w == call[p].on  r == call[p].row IN
  /\ Writes(p, "createOrder")
  /\ order[w] = New
  /\ CustomerThere(r.customer) /\ LocationThere(r.location) /\ AssetThere(r.asset)
  /\ order' = [order EXCEPT ![w] = r]
  /\ End(p)
  /\ UNCHANGED <<customer, location, asset, told, crossed>>

\* Neither customer nor location of a work order can be changed.
UpdateOrder(p, w, a) ==
  /\ w \in Open
  /\ a \notin {None, order[w].asset} =>
       Serviceable(a, order[w].customer, order[w].location)
  /\ Begin(p, "updateOrder", w, a)

CommitUpdateOrder(p) ==
  LET w == call[p].on IN
  /\ Writes(p, "updateOrder")
  /\ w \in Open /\ AssetThere(call[p].row)
  /\ order' = [order EXCEPT ![w].asset = call[p].row]
  /\ End(p)
  /\ UNCHANGED <<customer, location, asset, told, crossed>>

\* Of the row read only the status is used, and it only refuses.
DeleteOrder(w) ==
  /\ w \in Open
  /\ order' = [order EXCEPT ![w] = Gone]
  /\ UNCHANGED <<customer, location, asset, call, told, crossed>>

-----------------------------------------------------------------------------

CustomerStep(p) ==
  \/ \E c \in Customers : DeleteCustomer(p, c)
  \/ \E l \in Locations : DeleteLocation(p, l) \/ \E c \in Customers : CreateLocation(p, l, c)
  \/ CommitDeleteCustomer(p) \/ CommitCreateLocation(p) \/ CommitDeleteLocation(p)

AssetStep(p) ==
  \/ \E a \in Assets :
       \/ \E r \in Rows : CreateAsset(p, a, r)
       \/ \E l \in Locations : MoveAsset(p, a, l)
       \/ \E c \in Customers, l \in Locations \cup {None} : SellAsset(p, a, c, l)
       \/ \E s \in InUse : Transition(p, a, s)
       \/ DeleteAsset(p, a)
       \/ CommitUpdate(p, a)
  \/ CommitCreateAsset(p) \/ CommitDeleteAsset(p)

OrderStep(p) ==
  \/ \E w \in Orders : \/ \E r \in OrderRows : CreateOrder(p, w, r)
                       \/ \E a \in Assets \cup {None} : UpdateOrder(p, w, a)
  \/ CommitCreateOrder(p) \/ CommitUpdateOrder(p)

Next ==
  \/ \E c \in Customers, s \in {"ACTIVE", "INACTIVE"} : ChangeCustomerStatus(c, s)
  \/ \E p \in Callers : CustomerStep(p) \/ AssetStep(p) \/ OrderStep(p) \/ Refuse(p)
  \/ \E w \in Orders : DeleteOrder(w)

Spec == Init /\ [][Next]_vars

-----------------------------------------------------------------------------
(* Properties. *)

\* What each call may be about to write.
Call(op, on, rows) == [op : {op}, on : on, row : rows, stale : SUBSET Columns]
Calls ==
  Call("deleteCustomer", Customers, {None})
    \cup Call("createLocation", Locations, Customers)
    \cup Call("deleteLocation", Locations, {None})
    \cup Call("createAsset", Assets, Rows)
    \cup Call("moveAsset", Assets, [location : Locations])
    \cup Call("sellAsset", Assets, [customer : Customers, location : Locations \cup {None}])
    \cup Call("transition", Assets, [status : InUse, location : Locations \cup {None}])
    \cup Call("deleteAsset", Assets, {None})
    \cup Call("createOrder", Orders, OrderRows)
    \cup Call("updateOrder", Orders, Assets \cup {None})

TypeOK ==
  /\ customer \in [Customers -> {"ACTIVE", "INACTIVE", "DELETED"}]
  /\ location \in [Locations -> Customers \cup {New, Gone}]
  /\ asset \in [Assets -> Rows \cup {New, Gone}]
  /\ order \in [Orders -> OrderRows \cup {New, Gone}]
  /\ call \in [Callers -> Calls \cup {NoCall}]
  /\ told \in [Assets -> Rows \cup {None}]
  /\ crossed \in [Assets -> SUBSET Columns]

\* An asset stands at a location of its owner, and one without an owner stands
\* nowhere (phase 1.7.1, 3.2): moves, sales, transitions, deletions of customers
\* and locations may overlap as they like, unless an asset was sold between the
\* read and the write of another call.
OwnershipParity ==
  \A a \in Standing :
    /\ asset[a].customer = None => asset[a].location = None
    /\ asset[a].location # None /\ "customer" \notin crossed[a] =>
         location[asset[a].location] = asset[a].customer

\* A retired asset is neither moved nor sold nor put to use again, unless it was
\* retired between the read and the write of another call.
RetiredForGood ==
  [][\A a \in Standing : asset[a].status = "RETIRED" =>
       asset'[a] \in {asset[a], Gone} \/ "status" \in crossed'[a]]_vars

\* The audit history of an asset, read in order, tells where it is, whose it is
\* and in which condition, unless the row changed between a call's read and write.
HistoryTells ==
  \A a \in Standing : crossed[a] = {} => told[a] = asset[a]

\* Whatever is deleted meanwhile, an asset or a work order refers to rows that
\* are there, and a work order to a location of its own customer.
ReferencesStand ==
  /\ \A a \in Standing : /\ CustomerThere(asset[a].customer)
                         /\ LocationThere(asset[a].location)
  /\ \A w \in Open : /\ customer[order[w].customer] # "DELETED"
                     /\ location[order[w].location] = order[w].customer
                     /\ AssetThere(order[w].asset)

==============================================================================
