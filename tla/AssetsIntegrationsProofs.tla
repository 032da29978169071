---------------------- MODULE AssetsIntegrationsProofs ----------------------
(***************************************************************************)
(* Proofs about two components that share nothing: customers with their    *)
(* assets (Assets) and the connections to providers (Integrations).        *)
(*                                                                         *)
(* Customers, service locations, assets and work orders, first: the types, *)
(* that whatever is deleted meanwhile no reference dangles, that an asset  *)
(* stands with its owner unless it was sold under another call, that its   *)
(* history tells where it is, and that a retired one stays retired, for    *)
(* any number of rows and of calls.  The calls are what the argument is    *)
(* about: a call knows what it has read and not what has become of it.     *)
(* Sound says what of its reading is still true when it comes to write.    *)
(*                                                                         *)
(* Connections, then: the types, that a connection shown as CONNECTED can  *)
(* be used, that only what the ledger left open is tried again, that the   *)
(* rules see an event once and that a PROCESSED event has reached them,    *)
(* for any number of requests, events, servers and attempts.  The argument *)
(* is in what a request knows (Known), in the order of its attempts        *)
(* (Tried), and in what the inbox, the memories of the servers and the     *)
(* deliveries under way know of an event together (Traced).                *)
(***************************************************************************)
EXTENDS Assets, Integrations, TLAPS

-----------------------------------------------------------------------------
(* What a call about customers and assets knows. *)

UpdateOps == {"moveAsset", "sellAsset", "transition"}

\* A place that owner c has, or had.
PlaceOf(l, c) == location[l] \in {c, Gone}

\* A call that updates asset a has read it not retired, and may know that still.
SoundUpdate(k) ==
  k.op \in UpdateOps =>
    /\ asset[k.on] # New
    /\ asset[k.on] # Gone /\ "status" \notin k.stale => asset[k.on].status # "RETIRED"

\* It moves the asset to a place of the owner that it has read.
SoundMove(k) ==
  k.op = "moveAsset" /\ asset[k.on] # Gone =>
    /\ asset[k.on].customer # None
    /\ "customer" \notin k.stale => PlaceOf(k.row.location, asset[k.on].customer)

\* A sale brings an owner and a place of his.
SoundSale(k) ==
  k.op = "sellAsset" /\ k.row.location # None => PlaceOf(k.row.location, k.row.customer)

\* A transition writes the place that it has read, or none.
SoundTransition(k) ==
  k.op = "transition" /\ asset[k.on] # Gone /\ k.row.location # None =>
    /\ asset[k.on].customer # None
    /\ "location" \notin k.stale => k.row.location = asset[k.on].location
    /\ "customer" \notin k.stale \cup crossed[k.on] =>
         PlaceOf(k.row.location, asset[k.on].customer)

\* A new asset stands at a place of its owner, a new work order is for one of his.
SoundCreate(k) ==
  /\ k.op = "createAsset" /\ k.row.location # None =>
       /\ k.row.customer # None
       /\ PlaceOf(k.row.location, k.row.customer)
  /\ k.op = "createOrder" => PlaceOf(k.row.location, k.row.customer)

Sound(k) ==
  SoundUpdate(k) /\ SoundMove(k) /\ SoundSale(k) /\ SoundTransition(k) /\ SoundCreate(k)

CallsAreSound == \A p \in Callers : call[p] # NoCall => Sound(call[p])

IInv == TypeOK /\ CallsAreSound /\ OwnershipParity /\ HistoryTells /\ ReferencesStand

-----------------------------------------------------------------------------
(* Types. *)

\* What a call is about to write, by its operation.
LEMMA CallTypes ==
  ASSUME NEW k \in Calls
  PROVE  /\ k.op # "none"
         /\ k.stale \in SUBSET Columns
         /\ k.op = "deleteCustomer" => k.on \in Customers
         /\ k.op = "createLocation" => k.on \in Locations /\ k.row \in Customers
         /\ k.op = "deleteLocation" => k.on \in Locations
         /\ k.op = "createAsset" => k.on \in Assets /\ k.row \in Rows
         /\ k.op = "moveAsset" => k.on \in Assets /\ k.row \in [location : Locations]
         /\ k.op = "sellAsset" =>
              /\ k.on \in Assets
              /\ k.row \in [customer : Customers, location : Locations \cup {None}]
         /\ k.op = "transition" =>
              /\ k.on \in Assets
              /\ k.row \in [status : InUse, location : Locations \cup {None}]
         /\ k.op = "deleteAsset" => k.on \in Assets
         /\ k.op = "createOrder" => k.on \in Orders /\ k.row \in OrderRows
         /\ k.op = "updateOrder" => k.on \in Orders /\ k.row \in Assets \cup {None}
  BY DEF Calls, Call

LEMMA Called ==
  ASSUME TypeOK, NEW p \in Callers, call[p] # NoCall
  PROVE  call[p] \in Calls
  BY DEF TypeOK

\* An asset that stands has a row.
LEMMA StandingRow ==
  ASSUME TypeOK, NEW a \in Assets
  PROVE  /\ a \in Standing <=> asset[a] \notin {New, Gone}
         /\ a \in Standing => asset[a] \in Rows
         /\ asset[a] \in Rows => a \in Standing
  BY AssetsAssumption DEF TypeOK, Standing

LEMMA OpenRow ==
  ASSUME TypeOK, NEW w \in Orders
  PROVE  /\ w \in Open <=> order[w] \notin {New, Gone}
         /\ w \in Open => order[w] \in OrderRows
         /\ order[w] \in OrderRows => w \in Open
  BY AssetsAssumption DEF TypeOK, Open

\* The row of an update is an asset's row again, and so is what the history says.
LEMMA UpdatedRow ==
  ASSUME NEW k \in Calls, k.op \in UpdateOps, NEW r \in Rows
  PROVE  Updated(k.op, r, k.row) \in Rows /\ Retold(k.op, r, k.row) \in Rows
  BY CallTypes DEF UpdateOps, Updated, Retold, Rows

LEMMA BeginTyped ==
  ASSUME TypeOK, NEW p \in Callers, NEW op, NEW i, NEW r, Begin(p, op, i, r),
         [op |-> op, on |-> i, row |-> r, stale |-> {}] \in Calls
  PROVE  TypeOK'
  BY DEF TypeOK, Begin

\* A call under which columns have changed is the same call.
LEMMA StaleCall ==
  ASSUME NEW k \in Calls, NEW d \in SUBSET Columns
  PROVE  /\ [k EXCEPT !.stale = @ \cup d] \in Calls
         /\ [k EXCEPT !.stale = @ \cup d].op = k.op
         /\ [k EXCEPT !.stale = @ \cup d].on = k.on
         /\ [k EXCEPT !.stale = @ \cup d].row = k.row
         /\ [k EXCEPT !.stale = @ \cup d].stale = k.stale \cup d
  BY DEF Calls, Call

LEMMA DifferingColumns == \A r, n : Differing(r, n) \in SUBSET Columns
  BY DEF Differing

\* An update is about an asset that stands; the calls beside it learn what changed.
LEMMA UpdateEffect ==
  ASSUME TypeOK, NEW p \in Callers, NEW a \in Assets, CommitUpdate(p, a)
  PROVE  /\ call[p] \in Calls /\ call[p].op \in UpdateOps /\ call[p].on = a
         /\ asset[a] \in Rows
         /\ asset' = [asset EXCEPT ![a] = Updated(call[p].op, asset[a], call[p].row)]
         /\ asset'[a] = Updated(call[p].op, asset[a], call[p].row)
         /\ asset'[a] \in Rows
         /\ \A b \in Assets \ {a} : asset'[b] = asset[b] /\ crossed'[b] = crossed[b]
                                     /\ told'[b] = told[b]
         /\ crossed'[a] = crossed[a] \cup call[p].stale
         /\ \A q \in Callers : call'[q] =
              IF q = p THEN NoCall
              ELSE IF Updating(q, a)
                   THEN [call[q] EXCEPT !.stale = @ \cup Differing(asset[a], asset'[a])]
              ELSE call[q]
<1>1. call[p] # NoCall /\ call[p].op \in UpdateOps /\ call[p].on = a
  BY DEF CommitUpdate, Updating, UpdateOps
<1>2. call[p] \in Calls
  BY <1>1, Called
<1>3. asset[a] \in Rows
  BY StandingRow DEF CommitUpdate
<1>4. asset' = [asset EXCEPT ![a] = Updated(call[p].op, asset[a], call[p].row)]
  BY DEF CommitUpdate
<1>5. asset'[a] = Updated(call[p].op, asset[a], call[p].row)
  BY <1>4 DEF TypeOK
<1>6. asset'[a] \in Rows
  BY <1>1, <1>2, <1>3, <1>5, UpdatedRow
<1>7. /\ \A b \in Assets \ {a} : asset'[b] = asset[b] /\ crossed'[b] = crossed[b]
                                  /\ told'[b] = told[b]
      /\ crossed'[a] = crossed[a] \cup call[p].stale
  BY <1>4 DEF TypeOK, CommitUpdate
<1>8. \A q \in Callers : call'[q] =
              IF q = p THEN NoCall
              ELSE IF Updating(q, a)
                   THEN [call[q] EXCEPT !.stale = @ \cup Differing(asset[a], asset'[a])]
              ELSE call[q]
  BY DEF CommitUpdate, AfterUpdate
<1> QED BY <1>1, <1>2, <1>3, <1>4, <1>5, <1>6, <1>7, <1>8

LEMMA StepTyped == TypeOK /\ HistoryTells /\ [Next]_vars => TypeOK'
<1> SUFFICES ASSUME TypeOK, HistoryTells, [Next]_vars PROVE TypeOK'
  OBVIOUS
<1>1. ASSUME NEW c \in Customers, NEW s \in {"ACTIVE", "INACTIVE"},
             ChangeCustomerStatus(c, s)
      PROVE TypeOK'
  BY <1>1 DEF ChangeCustomerStatus, TypeOK
<1>2. ASSUME NEW p \in Callers, CustomerStep(p) PROVE TypeOK'
  <2>1. ASSUME NEW c \in Customers, DeleteCustomer(p, c) PROVE TypeOK'
    BY <2>1, BeginTyped DEF DeleteCustomer, Calls, Call
  <2>2. ASSUME NEW l \in Locations, DeleteLocation(p, l) PROVE TypeOK'
    BY <2>2, BeginTyped DEF DeleteLocation, Calls, Call
  <2>3. ASSUME NEW l \in Locations, NEW c \in Customers, CreateLocation(p, l, c) PROVE TypeOK'
    BY <2>3, BeginTyped DEF CreateLocation, Calls, Call
  <2>4. CASE CommitDeleteCustomer(p)
    BY <2>4 DEF CommitDeleteCustomer, End, TypeOK
  <2>5. CASE CommitCreateLocation(p)
    BY <2>5, Called, CallTypes DEF CommitCreateLocation, Writes, End, TypeOK
  <2>6. CASE CommitDeleteLocation(p)
    BY <2>6 DEF CommitDeleteLocation, End, TypeOK
  <2> QED BY <1>2, <2>1, <2>2, <2>3, <2>4, <2>5, <2>6 DEF CustomerStep
<1>3. ASSUME NEW p \in Callers, AssetStep(p) PROVE TypeOK'
  <2>1. ASSUME NEW a \in Assets, NEW r \in Rows, CreateAsset(p, a, r) PROVE TypeOK'
    BY <2>1, BeginTyped DEF CreateAsset, Calls, Call
  <2>2. ASSUME NEW a \in Assets, NEW l \in Locations, MoveAsset(p, a, l) PROVE TypeOK'
    BY <2>2, BeginTyped DEF MoveAsset, Calls, Call
  <2>3. ASSUME NEW a \in Assets, NEW c \in Customers, NEW l \in Locations \cup {None},
               SellAsset(p, a, c, l)
        PROVE TypeOK'
    BY <2>3, BeginTyped DEF SellAsset, Calls, Call
  <2>4. ASSUME NEW a \in Assets, NEW s \in InUse, Transition(p, a, s) PROVE TypeOK'
    <3> DEFINE n == [status |-> s,
                     location |-> IF Uninstalls(asset[a].status, s) THEN None ELSE asset[a].location]
    <3>1. n \in [status : InUse, location : Locations \cup {None}]
      BY <2>4, StandingRow DEF Transition, Rows
    <3>2. Begin(p, "transition", a, n)
      BY <2>4 DEF Transition
    <3> HIDE DEF n
    <3> QED BY <3>1, <3>2, BeginTyped DEF Calls, Call
  <2>5. ASSUME NEW a \in Assets, DeleteAsset(p, a) PROVE TypeOK'
    BY <2>5, BeginTyped DEF DeleteAsset, Calls, Call
  <2>6. ASSUME NEW a \in Assets, CommitUpdate(p, a) PROVE TypeOK'
    <3>1. asset' \in [Assets -> Rows \cup {New, Gone}] /\ crossed' \in [Assets -> SUBSET Columns]
      <4>1. asset' = [asset EXCEPT ![a] = asset'[a]] /\ asset'[a] \in Rows
        BY <2>6, UpdateEffect
      <4>2. call[p].stale \in SUBSET Columns
        BY <2>6, UpdateEffect, CallTypes
      <4>3. crossed' = [crossed EXCEPT ![a] = crossed[a] \cup call[p].stale]
        BY <2>6 DEF CommitUpdate
      <4> QED BY <4>1, <4>2, <4>3 DEF TypeOK
    <3>2. told' \in [Assets -> Rows \cup {None}]
      <4>1. crossed'[a] = {} => told[a] \in Rows
        BY <2>6, UpdateEffect, StandingRow DEF HistoryTells
      <4>2. crossed'[a] = {} => Retold(call[p].op, told[a], call[p].row) \in Rows
        BY <2>6, <4>1, UpdateEffect, UpdatedRow
      <4> QED BY <2>6, <4>2 DEF CommitUpdate, TypeOK
    <3>3. call' \in [Callers -> Calls \cup {NoCall}]
      <4>1. ASSUME NEW q \in Callers PROVE call'[q] \in Calls \cup {NoCall}
        <5> DEFINE d == Differing(asset[a], asset'[a])
        <5>1. d \in SUBSET Columns
          BY DifferingColumns
        <5>2. \/ call'[q] \in {NoCall, call[q]}
              \/ call[q] # NoCall /\ call'[q] = [call[q] EXCEPT !.stale = @ \cup d]
          <6>1. call'[q] = IF q = p THEN NoCall
                           ELSE IF Updating(q, a) THEN [call[q] EXCEPT !.stale = @ \cup d]
                           ELSE call[q]
            BY <2>6, UpdateEffect
          <6> QED BY <6>1 DEF Updating
        <5> HIDE DEF d
        <5>3. call[q] # NoCall => call[q] \in Calls
          BY Called
        <5>4. call[q] \in Calls => [call[q] EXCEPT !.stale = @ \cup d] \in Calls
          BY <5>1, StaleCall
        <5> QED BY <5>2, <5>3, <5>4
      <4>2. call' = [q \in Callers |-> call'[q]]
        BY <2>6 DEF CommitUpdate, AfterUpdate
      <4> QED BY <4>1, <4>2
    <3> QED BY <2>6, <3>1, <3>2, <3>3 DEF CommitUpdate, TypeOK
  <2>7. CASE CommitCreateAsset(p)
    BY <2>7, Called, CallTypes DEF CommitCreateAsset, Writes, End, TypeOK
  <2>8. CASE CommitDeleteAsset(p)
    BY <2>8 DEF CommitDeleteAsset, End, TypeOK
  <2> QED BY <1>3, <2>1, <2>2, <2>3, <2>4, <2>5, <2>6, <2>7, <2>8 DEF AssetStep
<1>4. ASSUME NEW p \in Callers, OrderStep(p) PROVE TypeOK'
  <2>1. ASSUME NEW w \in Orders, NEW r \in OrderRows, CreateOrder(p, w, r) PROVE TypeOK'
    BY <2>1, BeginTyped DEF CreateOrder, Calls, Call
  <2>2. ASSUME NEW w \in Orders, NEW a \in Assets \cup {None}, UpdateOrder(p, w, a) PROVE TypeOK'
    BY <2>2, BeginTyped DEF UpdateOrder, Calls, Call
  <2>3. CASE CommitCreateOrder(p)
    BY <2>3, Called, CallTypes DEF CommitCreateOrder, Writes, End, TypeOK
  <2>4. CASE CommitUpdateOrder(p)
    BY <2>4, Called, CallTypes, OpenRow DEF CommitUpdateOrder, Writes, End, TypeOK, OrderRows
  <2> QED BY <1>4, <2>1, <2>2, <2>3, <2>4 DEF OrderStep
<1>5. ASSUME NEW p \in Callers, Refuse(p) PROVE TypeOK'
  BY <1>5 DEF Refuse, End, TypeOK
<1>6. ASSUME NEW w \in Orders, DeleteOrder(w) PROVE TypeOK'
  BY <1>6 DEF DeleteOrder, TypeOK
<1>7. CASE UNCHANGED vars
  BY <1>7 DEF vars, TypeOK
<1> QED BY <1>1, <1>2, <1>3, <1>4, <1>5, <1>6, <1>7 DEF Next


LEMMA InitKeeps == Init => IInv
<1> SUFFICES ASSUME Init PROVE IInv
  OBVIOUS
<1>1. TypeOK
  BY DEF Init, TypeOK
<1>2. Standing = {} /\ Open = {}
  BY DEF Init, Standing, Open
<1> QED BY <1>1, <1>2 DEF Init, IInv, CallsAreSound, OwnershipParity, HistoryTells, ReferencesStand

-----------------------------------------------------------------------------
(* What calls know survives the steps of others. *)

\* The places of an owner stay his until they are gone.
PlacesOnlyGo ==
  \A l \in Locations, c \in Customers : PlaceOf(l, c) => location'[l] \in {c, Gone}

LEMMA SoundWhilePlacesGo ==
  ASSUME TypeOK, PlacesOnlyGo, UNCHANGED <<asset, crossed>>, NEW k \in Calls, Sound(k)
  PROVE  Sound(k)'
<1>1. k.op \in UpdateOps /\ asset[k.on] # Gone => asset[k.on] \in Rows
  BY CallTypes, StandingRow DEF Sound, SoundUpdate, UpdateOps
<1>2. SoundUpdate(k)'
  BY DEF Sound, SoundUpdate
<1>3. SoundMove(k)'
  BY <1>1, CallTypes DEF Sound, SoundMove, PlacesOnlyGo, PlaceOf, Rows, UpdateOps
<1>4. SoundSale(k)'
  BY CallTypes DEF Sound, SoundSale, PlacesOnlyGo, PlaceOf
<1>5. SoundTransition(k)'
  BY <1>1, CallTypes DEF Sound, SoundTransition, PlacesOnlyGo, PlaceOf, Rows, UpdateOps
<1>6. SoundCreate(k)'
  BY CallTypes DEF Sound, SoundCreate, PlacesOnlyGo, PlaceOf, Rows, OrderRows
<1> QED BY <1>2, <1>3, <1>4, <1>5, <1>6 DEF Sound

\* A step that at most begins or ends calls, or takes places away, keeps them sound.
LEMMA CallsStaySound ==
  ASSUME TypeOK, CallsAreSound, PlacesOnlyGo, UNCHANGED <<asset, crossed>>,
         \A q \in Callers : call'[q] # NoCall /\ call'[q] # call[q] =>
                              call'[q] \in Calls /\ Sound(call'[q])
  PROVE  CallsAreSound'
<1> SUFFICES ASSUME NEW q \in Callers, call'[q] # NoCall
             PROVE  Sound(call[q])'
  BY DEF CallsAreSound
<1>1. PICK k : k = call'[q]
  OBVIOUS
<1>2. k \in Calls /\ Sound(k)
  BY <1>1, Called DEF CallsAreSound
<1>3. Sound(k)'
  BY <1>2, SoundWhilePlacesGo
<1> QED BY <1>1, <1>3

Kept == CallsAreSound /\ OwnershipParity /\ HistoryTells /\ ReferencesStand

\* A call that begins with sound knowledge keeps everything.
LEMMA Begun ==
  ASSUME IInv, NEW p \in Callers, NEW op, NEW i, NEW r, Begin(p, op, i, r),
         NEW k \in Calls, k = [op |-> op, on |-> i, row |-> r, stale |-> {}], Sound(k)
  PROVE  Kept'
<1>1. UNCHANGED <<customer, location, asset, order, told, crossed>>
  BY DEF Begin
<1>2. PlacesOnlyGo
  BY <1>1 DEF PlacesOnlyGo, PlaceOf
<1>3. \A q \in Callers : call'[q] # NoCall /\ call'[q] # call[q] =>
                           call'[q] \in Calls /\ Sound(call'[q])
  <2>1. \A q \in Callers : call'[q] = IF q = p THEN k ELSE call[q]
    BY DEF Begin, IInv, TypeOK
  <2> QED BY <2>1
<1>4. CallsAreSound'
  BY <1>1, <1>2, <1>3, CallsStaySound DEF IInv
<1>5. OwnershipParity'
  BY <1>1 DEF IInv, OwnershipParity, Standing
<1>6. HistoryTells'
  BY <1>1 DEF IInv, HistoryTells, Standing
<1>7. ReferencesStand'
  BY <1>1 DEF IInv, ReferencesStand, Standing, Open, CustomerThere, LocationThere, AssetThere
<1> QED BY <1>4, <1>5, <1>6, <1>7 DEF Kept

\* So does a call that ends without an asset being written, as to the other calls.
LEMMA Ended ==
  ASSUME IInv, PlacesOnlyGo, UNCHANGED <<asset, crossed>>,
         \A q \in Callers : call'[q] \in {call[q], NoCall}
  PROVE  CallsAreSound'
  BY CallsStaySound DEF IInv

LEMMA EndsOne ==
  ASSUME TypeOK, NEW p \in Callers, End(p)
  PROVE  \A q \in Callers : call'[q] \in {call[q], NoCall}
  BY DEF End, TypeOK

-----------------------------------------------------------------------------
(* Customers and locations. *)

LEMMA CustomerKeeps ==
  ASSUME IInv, NEW p \in Callers, CustomerStep(p)
  PROVE  Kept'
<1> USE DEF IInv
<1>1. ASSUME NEW c \in Customers, DeleteCustomer(p, c) PROVE Kept'
  <2> DEFINE k == [op |-> "deleteCustomer", on |-> c, row |-> None, stale |-> {}]
  <2>1. k \in Calls /\ Sound(k)
    BY DEF Calls, Call, Sound, SoundUpdate, SoundMove, SoundSale, SoundTransition, SoundCreate,
           UpdateOps
  <2>2. Begin(p, "deleteCustomer", c, None)
    BY <1>1 DEF DeleteCustomer
  <2> QED BY <2>1, <2>2, Begun
<1>2. ASSUME NEW l \in Locations, DeleteLocation(p, l) PROVE Kept'
  <2> DEFINE k == [op |-> "deleteLocation", on |-> l, row |-> None, stale |-> {}]
  <2>1. k \in Calls /\ Sound(k)
    BY DEF Calls, Call, Sound, SoundUpdate, SoundMove, SoundSale, SoundTransition, SoundCreate,
           UpdateOps
  <2>2. Begin(p, "deleteLocation", l, None)
    BY <1>2 DEF DeleteLocation
  <2> QED BY <2>1, <2>2, Begun
<1>3. ASSUME NEW l \in Locations, NEW c \in Customers, CreateLocation(p, l, c) PROVE Kept'
  <2> DEFINE k == [op |-> "createLocation", on |-> l, row |-> c, stale |-> {}]
  <2>1. k \in Calls /\ Sound(k)
    BY DEF Calls, Call, Sound, SoundUpdate, SoundMove, SoundSale, SoundTransition, SoundCreate,
           UpdateOps
  <2>2. Begin(p, "createLocation", l, c)
    BY <1>3 DEF CreateLocation
  <2> QED BY <2>1, <2>2, Begun
<1>4. CASE CommitDeleteCustomer(p)
  <2> DEFINE c == call[p].on
  <2>1. /\ UNCHANGED <<asset, order, told, crossed>> /\ End(p)
        /\ CustomerFree(c) /\ \A l \in Locations : location[l] = c => LocationFree(l)
        /\ \A l \in Locations : location'[l] = IF location[l] = c THEN Gone ELSE location[l]
        /\ \A d \in Customers : d # c => customer'[d] = customer[d]
    BY <1>4 DEF CommitDeleteCustomer, TypeOK
  <2>2. PlacesOnlyGo
    BY <2>1 DEF PlacesOnlyGo, PlaceOf
  <2>3. CallsAreSound'
    BY <2>1, <2>2, Ended, EndsOne
  <2> HIDE DEF c
  <2>4. \A a \in Standing :
          /\ asset[a].location # None => location'[asset[a].location] = location[asset[a].location]
          /\ asset[a].customer # None => customer'[asset[a].customer] = customer[asset[a].customer]
    BY <2>1, StandingRow DEF CustomerFree, LocationFree, Rows, Standing
  <2>5. \A w \in Open : /\ location'[order[w].location] = location[order[w].location]
                        /\ customer'[order[w].customer] = customer[order[w].customer]
    BY <2>1, OpenRow DEF CustomerFree, LocationFree, OrderRows, Open
  <2>6. OwnershipParity' /\ HistoryTells'
    BY <2>1, <2>4 DEF OwnershipParity, HistoryTells, Standing
  <2>7. ReferencesStand'
    BY <2>1, <2>4, <2>5 DEF ReferencesStand, Standing, Open, CustomerThere, LocationThere, AssetThere
  <2> QED BY <2>3, <2>6, <2>7 DEF Kept
<1>5. CASE CommitCreateLocation(p)
  <2> DEFINE l == call[p].on
  <2>1. /\ UNCHANGED <<customer, asset, order, told, crossed>> /\ End(p)
        /\ location[l] = New
        /\ \A m \in Locations : m # l => location'[m] = location[m]
    BY <1>5 DEF CommitCreateLocation, TypeOK
  <2> HIDE DEF l
  <2>2. PlacesOnlyGo
    BY <2>1, AssetsAssumption DEF PlacesOnlyGo, PlaceOf
  <2>3. CallsAreSound'
    BY <2>1, <2>2, Ended, EndsOne
  <2>4. \A a \in Standing :
          asset[a].location # None => location'[asset[a].location] = location[asset[a].location]
    BY <2>1, StandingRow DEF ReferencesStand, LocationThere, Rows, Standing
  <2>5. \A w \in Open : location'[order[w].location] = location[order[w].location]
    BY <2>1, OpenRow, AssetsAssumption DEF ReferencesStand, OrderRows, Open
  <2>6. OwnershipParity' /\ HistoryTells'
    BY <2>1, <2>4 DEF OwnershipParity, HistoryTells, Standing
  <2>7. ReferencesStand'
    BY <2>1, <2>4, <2>5 DEF ReferencesStand, Standing, Open, CustomerThere, LocationThere, AssetThere
  <2> QED BY <2>3, <2>6, <2>7 DEF Kept
<1>6. CASE CommitDeleteLocation(p)
  <2> DEFINE l == call[p].on
  <2>1. /\ UNCHANGED <<customer, asset, order, told, crossed>> /\ End(p)
        /\ LocationFree(l)
        /\ \A m \in Locations : location'[m] = IF m = l THEN Gone ELSE location[m]
    BY <1>6 DEF CommitDeleteLocation, TypeOK
  <2> HIDE DEF l
  <2>2. PlacesOnlyGo
    BY <2>1 DEF PlacesOnlyGo, PlaceOf
  <2>3. CallsAreSound'
    BY <2>1, <2>2, Ended, EndsOne
  <2>4. \A a \in Standing :
          asset[a].location # None => location'[asset[a].location] = location[asset[a].location]
    BY <2>1, StandingRow DEF LocationFree, Rows, Standing
  <2>5. \A w \in Open : location'[order[w].location] = location[order[w].location]
    BY <2>1, OpenRow DEF LocationFree, OrderRows, Open
  <2>6. OwnershipParity' /\ HistoryTells'
    BY <2>1, <2>4 DEF OwnershipParity, HistoryTells, Standing
  <2>7. ReferencesStand'
    BY <2>1, <2>4, <2>5 DEF ReferencesStand, Standing, Open, CustomerThere, LocationThere, AssetThere
  <2> QED BY <2>3, <2>6, <2>7 DEF Kept
<1> QED BY <1>1, <1>2, <1>3, <1>4, <1>5, <1>6 DEF CustomerStep

-----------------------------------------------------------------------------
(* Assets. *)

\* A move, a sale or a transition begins with what it has just read.
LEMMA UpdatesBegin ==
  ASSUME IInv, NEW p \in Callers, NEW a \in Assets,
         \/ \E l \in Locations : MoveAsset(p, a, l)
         \/ \E c \in Customers, l \in Locations \cup {None} : SellAsset(p, a, c, l)
         \/ \E s \in InUse : Transition(p, a, s)
  PROVE  Kept'
<1> USE DEF IInv
<1>1. ASSUME NEW l \in Locations, MoveAsset(p, a, l) PROVE Kept'
  <2> DEFINE n == [location |-> l]
             k == [op |-> "moveAsset", on |-> a, row |-> n, stale |-> {}]
  <2>1. k \in Calls
    BY DEF Calls, Call
  <2>2. Sound(k)
    BY <1>1, StandingRow DEF MoveAsset, Movable, Sound, SoundUpdate, SoundMove, SoundSale,
           SoundTransition, SoundCreate, PlaceOf
  <2>3. Begin(p, "moveAsset", a, n)
    BY <1>1 DEF MoveAsset
  <2> QED BY <2>1, <2>2, <2>3, Begun
<1>2. ASSUME NEW c \in Customers, NEW l \in Locations \cup {None}, SellAsset(p, a, c, l)
      PROVE  Kept'
  <2> DEFINE n == [customer |-> c, location |-> l]
             k == [op |-> "sellAsset", on |-> a, row |-> n, stale |-> {}]
  <2>1. k \in Calls
    BY DEF Calls, Call
  <2>2. Sound(k)
    BY <1>2, StandingRow DEF SellAsset, Movable, GoodHome, Sound, SoundUpdate, SoundMove,
           SoundSale, SoundTransition, SoundCreate, PlaceOf
  <2>3. Begin(p, "sellAsset", a, n)
    BY <1>2 DEF SellAsset
  <2> QED BY <2>1, <2>2, <2>3, Begun
<1>3. ASSUME NEW s \in InUse, Transition(p, a, s) PROVE Kept'
  <2> DEFINE to == IF Uninstalls(asset[a].status, s) THEN None ELSE asset[a].location
             n == [status |-> s, location |-> to]
             m == [op |-> "transition", on |-> a, row |-> n, stale |-> {}]
  <2>1. a \in Standing /\ asset[a] \in Rows /\ asset[a].status # "RETIRED"
        /\ asset[a] \notin {New, Gone}
    BY <1>3, StandingRow DEF Transition, Allowed
  <2>2. to \in {None, asset[a].location} /\ to \in Locations \cup {None}
    BY <2>1 DEF Rows
  <2>3. to # None => /\ asset[a].customer # None
                     /\ "customer" \notin crossed[a] => PlaceOf(to, asset[a].customer)
    BY <2>1, <2>2 DEF OwnershipParity, PlaceOf
  <2>4. Begin(p, "transition", a, n)
    BY <1>3 DEF Transition
  <2> HIDE DEF to
  <2>5. m \in Calls
    BY <2>2 DEF Calls, Call
  <2>6. Sound(m)
    BY <2>1, <2>2, <2>3 DEF Sound, SoundUpdate, SoundMove, SoundSale, SoundTransition, SoundCreate
  <2> HIDE DEF n
  <2> QED BY <2>4, <2>5, <2>6, Begun
<1> QED BY <1>1, <1>2, <1>3

\* The calls beside an update learn what it changed.
LEMMA SoundBesideUpdate ==
  ASSUME IInv, NEW p \in Callers, NEW a \in Assets, CommitUpdate(p, a),
         NEW k \in Calls, NEW n \in Calls, Sound(k),
         k.op \in UpdateOps /\ k.on = a =>
           n = [k EXCEPT !.stale = @ \cup Differing(asset[a], asset'[a])],
         ~(k.op \in UpdateOps /\ k.on = a) => n = k
  PROVE  Sound(n)'
<1> USE DEF IInv
<1> DEFINE d == Differing(asset[a], asset'[a])
<1>1. /\ n.op = k.op /\ n.on = k.on /\ n.row = k.row
      /\ k.op \in UpdateOps /\ k.on = a => n.stale = k.stale \cup d
      /\ ~(k.op \in UpdateOps /\ k.on = a) => n.stale = k.stale
  <2>1. d \in SUBSET Columns
    BY DifferingColumns
  <2>2. k.op \in UpdateOps /\ k.on = a => n = [k EXCEPT !.stale = @ \cup d]
    OBVIOUS
  <2> HIDE DEF d
  <2>3. LET e == [k EXCEPT !.stale = @ \cup d]
        IN  e.op = k.op /\ e.on = k.on /\ e.row = k.row /\ e.stale = k.stale \cup d
    BY <2>1, StaleCall
  <2> QED BY <2>2, <2>3
<1>2. /\ asset[a] \in Rows /\ asset'[a] \in Rows
      /\ \A b \in Assets \ {a} : asset'[b] = asset[b] /\ crossed'[b] = crossed[b]
      /\ crossed[a] \subseteq crossed'[a]
  BY UpdateEffect
<1>3. UNCHANGED location
  BY DEF CommitUpdate
<1>4. /\ "status" \notin d => asset'[a].status = asset[a].status
      /\ "customer" \notin d => asset'[a].customer = asset[a].customer
      /\ "location" \notin d => asset'[a].location = asset[a].location
  BY DEF Differing, Columns
<1>5. asset[a].customer # None => asset'[a].customer # None
  <2>1. call[p] \in Calls /\ asset'[a] = Updated(call[p].op, asset[a], call[p].row)
    BY UpdateEffect
  <2>2. call[p].op = "sellAsset" => call[p].row.customer \in Customers
    BY <2>1, CallTypes
  <2> QED BY <2>1, <2>2, AssetsAssumption DEF Updated
<1>6. asset[a] \notin {New, Gone} /\ asset'[a] \notin {New, Gone}
  BY <1>2, AssetsAssumption
<1> HIDE DEF d
<1>7. CASE k.op \in UpdateOps /\ k.on = a
  <2>1. SoundUpdate(n)'
    BY <1>1, <1>4, <1>6, <1>7 DEF Sound, SoundUpdate
  <2>2. SoundMove(n)'
    BY <1>1, <1>3, <1>4, <1>5, <1>6, <1>7 DEF Sound, SoundMove, PlaceOf
  <2>3. SoundSale(n)'
    BY <1>1, <1>3 DEF Sound, SoundSale, PlaceOf
  <2>4. SoundTransition(n)'
    BY <1>1, <1>2, <1>3, <1>4, <1>5, <1>6, <1>7 DEF Sound, SoundTransition, PlaceOf
  <2>5. SoundCreate(n)'
    BY <1>1, <1>7 DEF SoundCreate, UpdateOps
  <2> QED BY <2>1, <2>2, <2>3, <2>4, <2>5 DEF Sound
<1>8. CASE ~(k.op \in UpdateOps /\ k.on = a)
  <2>1. n = k
    BY <1>8
  <2>2. k.op \in UpdateOps => asset'[k.on] = asset[k.on] /\ crossed'[k.on] = crossed[k.on]
    BY <1>2, <1>8, CallTypes DEF UpdateOps
  <2>3. SoundUpdate(n)'
    BY <2>1, <2>2 DEF Sound, SoundUpdate
  <2>4. SoundMove(n)'
    BY <1>3, <2>1, <2>2 DEF Sound, SoundMove, PlaceOf, UpdateOps
  <2>5. SoundSale(n)'
    BY <1>3, <2>1 DEF Sound, SoundSale, PlaceOf
  <2>6. SoundTransition(n)'
    BY <1>3, <2>1, <2>2 DEF Sound, SoundTransition, PlaceOf, UpdateOps
  <2>7. SoundCreate(n)'
    BY <1>3, <2>1 DEF Sound, SoundCreate, PlaceOf
  <2> QED BY <2>3, <2>4, <2>5, <2>6, <2>7 DEF Sound
<1> QED BY <1>7, <1>8

LEMMA UpdateKeeps ==
  ASSUME IInv, NEW p \in Callers, NEW a \in Assets, CommitUpdate(p, a)
  PROVE  Kept'
<1> USE DEF IInv
<1> DEFINE k == call[p]
           d == Differing(asset[a], asset'[a])
<1>1. /\ k \in Calls /\ k.op \in UpdateOps /\ k.on = a /\ Sound(k)
      /\ asset[a] \in Rows /\ asset'[a] \in Rows
      /\ asset'[a] = Updated(k.op, asset[a], k.row)
      /\ \A b \in Assets \ {a} : asset'[b] = asset[b] /\ crossed'[b] = crossed[b]
                                  /\ told'[b] = told[b]
      /\ crossed'[a] = crossed[a] \cup k.stale
  <2>1. k # NoCall
    BY DEF CommitUpdate, Updating
  <2>2. k \in Calls /\ k.op \in UpdateOps /\ k.on = a /\ asset'[a] = Updated(k.op, asset[a], k.row)
    BY UpdateEffect
  <2>3. Sound(k)
    BY <2>1 DEF CallsAreSound
  <2> QED BY <2>2, <2>3, UpdateEffect
<1>2. /\ a \in Standing /\ Standing' = Standing /\ Open' = Open
      /\ asset[a] \notin {New, Gone} /\ asset'[a] \notin {New, Gone}
  BY <1>1, AssetsAssumption DEF Standing, Open, CommitUpdate
<1>3. /\ UNCHANGED <<customer, location, order>>
      /\ k.op = "sellAsset" => CustomerThere(k.row.customer)
      /\ LocationThere(k.row.location)
  BY DEF CommitUpdate
<1>4. CallsAreSound'
  <2> SUFFICES ASSUME NEW q \in Callers, call'[q] # NoCall
               PROVE  Sound(call[q])'
    BY DEF CallsAreSound
  <2>1. d \in SUBSET Columns
    BY DifferingColumns
  <2>2. call'[q] = IF q = p THEN NoCall
                   ELSE IF Updating(q, a) THEN [call[q] EXCEPT !.stale = @ \cup d] ELSE call[q]
    BY UpdateEffect
  <2>3. call[q] # NoCall /\ call[q] \in Calls /\ Sound(call[q])
    <3>1. call[q] # NoCall
      BY <2>2 DEF Updating
    <3> QED BY <3>1, Called DEF CallsAreSound
  <2>4. Updating(q, a) <=> call[q].op \in UpdateOps /\ call[q].on = a
    BY <2>3 DEF Updating, UpdateOps
  <2>5. call'[q] = IF Updating(q, a) THEN [call[q] EXCEPT !.stale = @ \cup d] ELSE call[q]
    BY <2>2
  <2>6. [call[q] EXCEPT !.stale = @ \cup d] \in Calls
    BY <2>1, <2>3, StaleCall
  <2>7. PICK n \in Calls : n = call'[q]
    BY <2>3, <2>5, <2>6
  <2>8. Sound(n)'
    BY <2>3, <2>4, <2>5, <2>7, SoundBesideUpdate
  <2> QED BY <2>7, <2>8
<1> HIDE DEF k
<1>5. OwnershipParity'
  <2>1. asset'[a].customer = None => asset'[a].location = None
    BY <1>1, <1>2, CallTypes, AssetsAssumption
       DEF Updated, Sound, SoundMove, SoundTransition, UpdateOps
  <2>2. asset'[a].location # None /\ "customer" \notin crossed'[a] =>
          location'[asset'[a].location] = asset'[a].customer
    BY <1>1, <1>2, <1>3
       DEF Updated, Sound, SoundMove, SoundSale, SoundTransition, UpdateOps, PlaceOf, LocationThere
  <2> QED BY <1>1, <1>2, <1>3, <2>1, <2>2 DEF OwnershipParity, Standing
<1>6. HistoryTells'
  <2>1. crossed'[a] = {} => told'[a] = Retold(k.op, asset[a], k.row)
    BY <1>1, <1>2 DEF CommitUpdate, HistoryTells, TypeOK, k
  <2>2. crossed'[a] = {} => Retold(k.op, asset[a], k.row) = asset'[a]
    BY <1>1, <1>2 DEF Retold, Updated, Sound, SoundTransition, Rows
  <2> QED BY <1>1, <1>2, <2>1, <2>2 DEF HistoryTells, Standing
<1>7. ReferencesStand'
  <2>1. CustomerThere(asset[a].customer)' /\ LocationThere(asset[a].location)'
    BY <1>1, <1>2, <1>3 DEF Updated, CustomerThere, LocationThere, ReferencesStand
  <2>2. \A w \in Open : AssetThere(order[w].asset)'
    BY <1>1, <1>2, <1>3, OpenRow DEF ReferencesStand, AssetThere, OrderRows, Open
  <2> QED BY <1>1, <1>2, <1>3, <2>1, <2>2
        DEF ReferencesStand, Standing, CustomerThere, LocationThere
<1> QED BY <1>4, <1>5, <1>6, <1>7 DEF Kept

LEMMA AssetKeeps ==
  ASSUME IInv, NEW p \in Callers, AssetStep(p)
  PROVE  Kept'
<1> USE DEF IInv
<1>1. ASSUME NEW a \in Assets, NEW r \in Rows, CreateAsset(p, a, r) PROVE Kept'
  <2> DEFINE k == [op |-> "createAsset", on |-> a, row |-> r, stale |-> {}]
  <2>1. k \in Calls
    BY DEF Calls, Call
  <2>2. Sound(k)
    BY <1>1 DEF CreateAsset, GoodHome, Sound, SoundUpdate, SoundMove, SoundSale,
           SoundTransition, SoundCreate, PlaceOf, UpdateOps
  <2>3. Begin(p, "createAsset", a, r)
    BY <1>1 DEF CreateAsset
  <2> QED BY <2>1, <2>2, <2>3, Begun
<1>2. ASSUME NEW a \in Assets, DeleteAsset(p, a) PROVE Kept'
  <2> DEFINE k == [op |-> "deleteAsset", on |-> a, row |-> None, stale |-> {}]
  <2>1. k \in Calls /\ Sound(k)
    BY DEF Calls, Call, Sound, SoundUpdate, SoundMove, SoundSale, SoundTransition, SoundCreate,
           UpdateOps
  <2>2. Begin(p, "deleteAsset", a, None)
    BY <1>2 DEF DeleteAsset
  <2> QED BY <2>1, <2>2, Begun
<1>3. CASE CommitCreateAsset(p)
  <2> DEFINE k == call[p]
  <2>1. k \in Calls /\ k.op = "createAsset" /\ k.on \in Assets /\ k.row \in Rows /\ Sound(k)
    BY <1>3, Called, CallTypes DEF CommitCreateAsset, Writes, CallsAreSound
  <2>2. /\ UNCHANGED <<customer, location, order, crossed>> /\ End(p)
        /\ asset[k.on] = New
        /\ CustomerThere(k.row.customer) /\ LocationThere(k.row.location)
        /\ \A b \in Assets : asset'[b] = IF b = k.on THEN k.row ELSE asset[b]
        /\ \A b \in Assets : told'[b] = IF b = k.on THEN k.row ELSE told[b]
    BY <1>3 DEF CommitCreateAsset, TypeOK
  <2>3. Open' = Open /\ Standing' = Standing \cup {k.on} /\ k.on \notin Standing
    BY <2>1, <2>2, AssetsAssumption DEF Open, Standing
  <2>4. CallsAreSound'
    <3> SUFFICES ASSUME NEW q \in Callers, call'[q] # NoCall
                 PROVE  Sound(call[q])'
      BY DEF CallsAreSound
    <3>1. call'[q] = call[q]
      BY <2>2, EndsOne
    <3>2. PICK n \in Calls : n = call'[q] /\ Sound(n)
      BY <3>1, Called DEF CallsAreSound
    <3>3. n.op \in UpdateOps => asset'[n.on] = asset[n.on]
      BY <2>1, <2>2, <3>2, CallTypes DEF Sound, SoundUpdate, UpdateOps
    <3>4. SoundUpdate(n)' /\ SoundMove(n)' /\ SoundTransition(n)'
      BY <2>2, <3>2, <3>3 DEF Sound, SoundUpdate, SoundMove, SoundTransition, PlaceOf, UpdateOps
    <3>5. SoundSale(n)' /\ SoundCreate(n)'
      BY <2>2, <3>2 DEF Sound, SoundSale, SoundCreate, PlaceOf
    <3> QED BY <3>2, <3>4, <3>5 DEF Sound
  <2> HIDE DEF k
  <2>5. OwnershipParity'
    <3>1. k.row.location # None =>
            k.row.customer # None /\ location[k.row.location] = k.row.customer
      BY <2>1, <2>2 DEF Sound, SoundCreate, PlaceOf, LocationThere
    <3>2. \A b \in Standing : b \in Assets /\ b # k.on
      BY <2>3 DEF Standing
    <3> QED BY <2>1, <2>2, <2>3, <3>1, <3>2 DEF OwnershipParity
  <2>6. HistoryTells'
    <3>1. \A b \in Standing : b \in Assets /\ b # k.on
      BY <2>3 DEF Standing
    <3> QED BY <2>1, <2>2, <2>3, <3>1 DEF HistoryTells
  <2>7. /\ \A a \in Standing' : CustomerThere(asset[a].customer)' /\ LocationThere(asset[a].location)'
        /\ \A w \in Open' : customer'[order'[w].customer] # "DELETED"
                            /\ location'[order'[w].location] = order'[w].customer
    BY <2>1, <2>2, <2>3 DEF ReferencesStand, CustomerThere, LocationThere, Standing
  <2>8. \A w \in Open' : AssetThere(order[w].asset)'
    <3>1. k.row \notin {New, Gone}
      BY <2>1, AssetsAssumption
    <3>2. \A w \in Open : order[w].asset \in Assets \cup {None}
      BY OpenRow DEF Open, OrderRows
    <3> QED BY <2>2, <2>3, <3>1, <3>2 DEF ReferencesStand, AssetThere
  <2> QED BY <2>4, <2>5, <2>6, <2>7, <2>8 DEF Kept, ReferencesStand
<1>4. CASE CommitDeleteAsset(p)
  <2> DEFINE a == call[p].on
  <2>1. /\ UNCHANGED <<customer, location, order>> /\ End(p)
        /\ a \in Standing /\ \A w \in Open : order[w].asset # a
        /\ \A b \in Assets : asset'[b] = IF b = a THEN Gone ELSE asset[b]
        /\ \A b \in Assets : b # a => told'[b] = told[b] /\ crossed'[b] = crossed[b]
    BY <1>4 DEF CommitDeleteAsset, TypeOK
  <2> HIDE DEF a
  <2>2. Open' = Open /\ Standing' = Standing \ {a}
    BY <2>1 DEF Open, Standing
  <2>3. CallsAreSound'
    <3> SUFFICES ASSUME NEW q \in Callers, call'[q] # NoCall
                 PROVE  Sound(call[q])'
      BY DEF CallsAreSound
    <3>1. call'[q] = call[q]
      BY <2>1, EndsOne
    <3>2. PICK n \in Calls : n = call'[q] /\ Sound(n)
      BY <3>1, Called DEF CallsAreSound
    <3>3. n.op \in UpdateOps /\ asset'[n.on] # Gone =>
            asset'[n.on] = asset[n.on] /\ crossed'[n.on] = crossed[n.on]
      BY <2>1, <3>2, CallTypes DEF UpdateOps
    <3>4. n.op \in UpdateOps => asset'[n.on] # New
      BY <2>1, <3>2, CallTypes, AssetsAssumption DEF Sound, SoundUpdate, UpdateOps
    <3>5. SoundUpdate(n)' /\ SoundMove(n)' /\ SoundTransition(n)'
      BY <2>1, <3>2, <3>3, <3>4
         DEF Sound, SoundUpdate, SoundMove, SoundTransition, PlaceOf, UpdateOps
    <3>6. SoundSale(n)' /\ SoundCreate(n)'
      BY <2>1, <3>2 DEF Sound, SoundSale, SoundCreate, PlaceOf
    <3> QED BY <3>2, <3>5, <3>6 DEF Sound
  <2>4. OwnershipParity' /\ HistoryTells'
    BY <2>1, <2>2 DEF OwnershipParity, HistoryTells, Standing
  <2>5. ReferencesStand'
    <3>1. \A w \in Open : order[w].asset \in Assets \cup {None}
      BY OpenRow DEF Open, OrderRows
    <3> QED BY <2>1, <2>2, <3>1
          DEF ReferencesStand, Standing, CustomerThere, LocationThere, AssetThere
  <2> QED BY <2>3, <2>4, <2>5 DEF Kept
<1> QED BY <1>1, <1>2, <1>3, <1>4, UpdatesBegin, UpdateKeeps DEF AssetStep

-----------------------------------------------------------------------------
(* Work orders. *)

LEMMA OrderKeeps ==
  ASSUME IInv, NEW p \in Callers, OrderStep(p)
  PROVE  Kept'
<1> USE DEF IInv
<1>1. ASSUME NEW w \in Orders, NEW r \in OrderRows, CreateOrder(p, w, r) PROVE Kept'
  <2> DEFINE k == [op |-> "createOrder", on |-> w, row |-> r, stale |-> {}]
  <2>1. k \in Calls
    BY DEF Calls, Call
  <2>2. Sound(k)
    BY <1>1 DEF CreateOrder, Sound, SoundUpdate, SoundMove, SoundSale, SoundTransition,
           SoundCreate, PlaceOf, UpdateOps
  <2>3. Begin(p, "createOrder", w, r)
    BY <1>1 DEF CreateOrder
  <2> QED BY <2>1, <2>2, <2>3, Begun
<1>2. ASSUME NEW w \in Orders, NEW a \in Assets \cup {None}, UpdateOrder(p, w, a) PROVE Kept'
  <2> DEFINE k == [op |-> "updateOrder", on |-> w, row |-> a, stale |-> {}]
  <2>1. k \in Calls /\ Sound(k)
    BY DEF Calls, Call, Sound, SoundUpdate, SoundMove, SoundSale, SoundTransition, SoundCreate,
           UpdateOps
  <2>2. Begin(p, "updateOrder", w, a)
    BY <1>2 DEF UpdateOrder
  <2> QED BY <2>1, <2>2, Begun
<1>3. ASSUME CommitCreateOrder(p) \/ CommitUpdateOrder(p)
      PROVE  CallsAreSound' /\ OwnershipParity' /\ HistoryTells'
  <2>1. UNCHANGED <<customer, location, asset, told, crossed>> /\ End(p)
    BY <1>3 DEF CommitCreateOrder, CommitUpdateOrder
  <2>2. PlacesOnlyGo
    BY <2>1 DEF PlacesOnlyGo, PlaceOf
  <2>3. CallsAreSound'
    BY <2>1, <2>2, Ended, EndsOne
  <2> QED BY <2>1, <2>3 DEF OwnershipParity, HistoryTells, Standing
<1>4. ASSUME CommitCreateOrder(p) PROVE ReferencesStand'
  <2> DEFINE k == call[p]
  <2>1. k.on \in Orders /\ k.row \in OrderRows /\ Sound(k) /\ k.op = "createOrder"
    BY <1>4, Called, CallTypes DEF CommitCreateOrder, Writes, CallsAreSound
  <2>2. /\ UNCHANGED <<customer, location, asset>>
        /\ CustomerThere(k.row.customer) /\ LocationThere(k.row.location) /\ AssetThere(k.row.asset)
        /\ \A w \in Orders : order'[w] = IF w = k.on THEN k.row ELSE order[w]
    BY <1>4 DEF CommitCreateOrder, TypeOK
  <2> HIDE DEF k
  <2>3. customer[k.row.customer] # "DELETED" /\ location[k.row.location] = k.row.customer
    BY <2>1, <2>2, AssetsAssumption
       DEF Sound, SoundCreate, PlaceOf, CustomerThere, LocationThere, OrderRows
  <2> QED BY <2>1, <2>2, <2>3
        DEF ReferencesStand, Standing, Open, CustomerThere, LocationThere, AssetThere
<1>5. ASSUME CommitUpdateOrder(p) PROVE ReferencesStand'
  <2> DEFINE k == call[p]
  <2>1. k.on \in Orders /\ k.row \in Assets \cup {None}
    BY <1>5, Called, CallTypes DEF CommitUpdateOrder, Writes
  <2>2. /\ UNCHANGED <<customer, location, asset>>
        /\ k.on \in Open /\ AssetThere(k.row)
        /\ order' = [order EXCEPT ![k.on].asset = k.row]
    BY <1>5 DEF CommitUpdateOrder
  <2> HIDE DEF k
  <2>3. order[k.on] \in OrderRows
    BY <2>1, <2>2, OpenRow
  <2>4. /\ \A w \in Orders \ {k.on} : order'[w] = order[w]
        /\ order'[k.on].asset = k.row
        /\ order'[k.on].customer = order[k.on].customer
        /\ order'[k.on].location = order[k.on].location
    BY <2>1, <2>2, <2>3 DEF TypeOK, OrderRows
  <2> QED BY <2>1, <2>2, <2>4
        DEF ReferencesStand, Standing, Open, CustomerThere, LocationThere, AssetThere
<1> QED BY <1>1, <1>2, <1>3, <1>4, <1>5 DEF OrderStep, Kept

-----------------------------------------------------------------------------
(* Theorems. *)

LEMMA StepKeeps == IInv /\ [Next]_vars => IInv'
<1> SUFFICES ASSUME IInv, [Next]_vars PROVE Kept'
  BY StepTyped DEF IInv, Kept
<1> USE DEF IInv
<1>1. ASSUME UNCHANGED <<location, asset, told, crossed>>,
             \A q \in Callers : call'[q] \in {call[q], NoCall}
      PROVE  CallsAreSound' /\ OwnershipParity' /\ HistoryTells'
  <2>1. PlacesOnlyGo
    BY <1>1 DEF PlacesOnlyGo, PlaceOf
  <2> QED BY <1>1, <2>1, Ended DEF OwnershipParity, HistoryTells, Standing
<1>2. ASSUME NEW c \in Customers, NEW s \in {"ACTIVE", "INACTIVE"}, ChangeCustomerStatus(c, s)
      PROVE  Kept'
  <2>1. /\ UNCHANGED <<location, asset, order, call, told, crossed>>
        /\ \A d \in Customers : customer[d] # "DELETED" => customer'[d] # "DELETED"
    BY <1>2 DEF ChangeCustomerStatus, TypeOK
  <2>2. ReferencesStand'
    <3>1. \A a \in Standing : asset[a].customer \in Customers \cup {None}
      BY StandingRow DEF Standing, Rows
    <3>2. \A w \in Open : order[w].customer \in Customers
      BY OpenRow DEF Open, OrderRows
    <3> QED BY <2>1, <3>1, <3>2
          DEF ReferencesStand, Standing, Open, CustomerThere, LocationThere, AssetThere
  <2> QED BY <1>1, <2>1, <2>2 DEF Kept
<1>3. ASSUME NEW p \in Callers, Refuse(p) PROVE Kept'
  <2>1. ReferencesStand'
    BY <1>3 DEF Refuse, ReferencesStand, Standing, Open, CustomerThere, LocationThere, AssetThere
  <2> QED BY <1>1, <1>3, <2>1, EndsOne DEF Refuse, Kept
<1>4. ASSUME NEW w \in Orders, DeleteOrder(w) PROVE Kept'
  <2>1. /\ UNCHANGED <<customer, location, asset, call, told, crossed>>
        /\ \A v \in Orders : order'[v] = IF v = w THEN Gone ELSE order[v]
    BY <1>4 DEF DeleteOrder, TypeOK
  <2>2. ReferencesStand'
    BY <2>1 DEF ReferencesStand, Standing, Open, CustomerThere, LocationThere, AssetThere
  <2> QED BY <1>1, <2>1, <2>2 DEF Kept
<1>5. CASE UNCHANGED vars
  <2>1. ReferencesStand'
    BY <1>5 DEF vars, ReferencesStand, Standing, Open, CustomerThere, LocationThere, AssetThere
  <2> QED BY <1>1, <1>5, <2>1 DEF vars, Kept
<1> QED BY <1>2, <1>3, <1>4, <1>5, CustomerKeeps, AssetKeeps, OrderKeeps DEF Next

\* What holds at every moment, whatever the calls in progress.
THEOREM Invariance == Spec => []IInv
BY InitKeeps, StepKeeps, PTL DEF Spec

\* The rows and the calls have the types declared for them.
THEOREM TypeCorrect == Spec => []TypeOK
BY Invariance, PTL DEF IInv

\* An asset stands with its owner, for any number of calls, unless it was sold under
\* one of them (transferAssetLocation, transferAssetOwnership, transitionAssetStatus).
THEOREM AssetsStandWithTheirOwner == Spec => []OwnershipParity
BY Invariance, PTL DEF IInv

\* The history of an asset tells the row (assetHistory rows written beside the update).
THEOREM HistoriesTell == Spec => []HistoryTells
BY Invariance, PTL DEF IInv

\* Checks outside the transaction and the foreign keys together let no reference dangle,
\* and keep a work order at a location of its customer (createWorkOrder, deleteCustomer).
THEOREM NothingDangles == Spec => []ReferencesStand
BY Invariance, PTL DEF IInv

\* A retired asset is left alone by every call that began after it was retired.
THEOREM RetiredStays == Spec => RetiredForGood
<1> DEFINE Stays == \A a \in Standing : asset[a].status = "RETIRED" =>
                      asset'[a] \in {asset[a], Gone} \/ "status" \in crossed'[a]
<1>1. IInv /\ [Next]_vars => Stays
  <2> SUFFICES ASSUME IInv, [Next]_vars, NEW a \in Standing, asset[a].status = "RETIRED",
                      asset'[a] \notin {asset[a], Gone}
               PROVE  "status" \in crossed'[a]
    OBVIOUS
  <2> USE DEF IInv
  <2>1. a \in Assets
    BY DEF Standing
  <2>2. PICK p \in Callers : CommitUpdate(p, a)
    <3>1. \A p \in Callers, b \in Assets : CommitUpdate(p, b) /\ b # a => asset'[a] = asset[a]
      BY <2>1, UpdateEffect
    <3>2. \A p \in Callers : CommitCreateAsset(p) => asset'[a] = asset[a]
      BY <2>1, StandingRow DEF CommitCreateAsset, TypeOK
    <3>3. \A p \in Callers : CommitDeleteAsset(p) => asset'[a] \in {asset[a], Gone}
      BY <2>1 DEF CommitDeleteAsset, TypeOK
    <3>4. \A p \in Callers : AssetStep(p) =>
            \/ asset' = asset
            \/ \E b \in Assets : CommitUpdate(p, b)
            \/ CommitCreateAsset(p) \/ CommitDeleteAsset(p)
      BY DEF AssetStep, CreateAsset, MoveAsset, SellAsset, Transition, DeleteAsset, Begin
    <3>5. \A p \in Callers : CustomerStep(p) \/ OrderStep(p) \/ Refuse(p) => asset' = asset
      BY DEF CustomerStep, OrderStep, Refuse, DeleteCustomer, DeleteLocation, CreateLocation,
             CommitDeleteCustomer, CommitCreateLocation, CommitDeleteLocation, CreateOrder,
             UpdateOrder, CommitCreateOrder, CommitUpdateOrder, Begin
    <3>6. asset' # asset
      OBVIOUS
    <3>7. PICK p \in Callers : AssetStep(p)
      BY <3>5, <3>6 DEF Next, vars, ChangeCustomerStatus, DeleteOrder
    <3> QED BY <3>1, <3>2, <3>3, <3>4, <3>6, <3>7
  <2>3. /\ call[p] # NoCall /\ call[p].op \in UpdateOps /\ call[p].on = a
        /\ crossed'[a] = crossed[a] \cup call[p].stale
    <3>1. call[p] # NoCall
      BY <2>2 DEF CommitUpdate, Updating
    <3> QED BY <2>1, <2>2, <3>1, UpdateEffect
  <2>4. SoundUpdate(call[p])
    BY <2>3 DEF CallsAreSound, Sound
  <2> QED BY <2>1, <2>3, <2>4, StandingRow DEF SoundUpdate
<1> QED BY <1>1, Invariance, PTL DEF Spec, RetiredForGood

-----------------------------------------------------------------------------
(* Connections: the types, by who changes what. *)

RowTypes ==
  /\ status \in [Connections -> ConnectionStatuses \cup {Nothing}]
  /\ credential \in [Connections -> {Nothing, "ACTIVE", "REVOKED"}]
  /\ owner \in Connections \cup {Nothing}

InboundTypes ==
  /\ inbox \in [Events -> InboxStatuses \cup {Nothing}]
  /\ remembered \in [Servers -> SUBSET Events] /\ recent \subseteq Events
  /\ dispatched \in [Events -> Nat]
  /\ overlapped \subseteq Events /\ rolledBack \subseteq Events

OutboundTypes ==
  /\ attempt \in [Requests -> 0..MaxAttempts]
  /\ ledger \in [Requests -> [Attempts -> LedgerStatuses \cup {Nothing}]]
  /\ acted \in [Requests -> SUBSET Attempts]

RequestTypes ==
  /\ stage \in [Requests -> Stages]
  /\ on \in [Requests -> Connections \cup {Nothing}]
  /\ copy \in [Requests -> ConnectionStatuses \cup {Nothing}]
  /\ event \in [Requests -> Events \cup {Nothing}]
  /\ server \in [Requests -> Servers \cup {Nothing}]
  /\ hint \in [Requests -> Connections \cup {Nothing}]
  /\ result \in [Requests -> Outcomes \cup {Nothing}]

FixedTypes ==
  /\ home \in [Events -> Connections] /\ nature \in [Events -> Natures]
  /\ operated \subseteq Connections

LEMMA Types ==
  IntegrationTypeOK <=>
    RowTypes /\ InboundTypes /\ OutboundTypes /\ RequestTypes /\ FixedTypes
BY DEF IntegrationTypeOK, RowTypes, InboundTypes, OutboundTypes, RequestTypes, FixedTypes

\* What a request has in hand: an event and a server while it delivers, an answer when
\* it has one; and how many attempts it has begun.
Known(r) ==
  /\ stage[r] \in Inbound <=> event[r] # Nothing
  /\ stage[r] \in Inbound => server[r] # Nothing
  /\ stage[r] = "answered" => result[r] # Nothing
  /\ stage[r] = "idle" => attempt[r] = 0
  /\ stage[r] \in Outbound => attempt[r] > 0
  /\ stage[r] = "waiting" => attempt[r] < MaxAttempts

RequestsKnown == \A r \in Requests : Known(r)

\* What may be tried again.
Unknown == {"retryable", "TIMED_OUT"}

\* Attempts are made in turn, and only the last may have ended for good.
Tried(r) ==
  /\ \A b \in Attempts : ledger[r][b] # Nothing => b <= attempt[r]
  /\ \A a \in Attempts : a < attempt[r] => ledger[r][a] \in Unknown
  /\ stage[r] = "waiting" => ledger[r][attempt[r]] \in Unknown

AttemptsInTurn == \A r \in Requests : Tried(r)

\* Past its look at the inbox.
Committed(r) == stage[r] \in {"looked", "persisted"}

\* What the inbox, the memories and the requests know of event e.
Traced(e) ==
  /\ dispatched[e] > 0 => inbox[e] = "PROCESSED" /\ nature[e] # "declined"
  /\ e \in recent => dispatched[e] > 0
  /\ \A s \in Servers : e \in remembered[s] => dispatched[e] > 0 \/ e \in rolledBack
  /\ \A r, q \in Requests : event[r] = e /\ event[q] = e /\ r # q => e \in overlapped
  /\ \A r \in Requests : event[r] = e /\ Committed(r) /\ dispatched[e] > 0 =>
       e \in overlapped /\ (e \in Dated => e \in recent)

EventsTraced == \A e \in Events : Traced(e)

IntegrationInv ==
  /\ IntegrationTypeOK /\ RequestsKnown /\ AttemptsInTurn /\ EventsTraced
  /\ ConnectedHasCredential /\ OneDispatch /\ ProcessedWasDispatched

-----------------------------------------------------------------------------
(* Connections: how a request moves. *)

\* Request r moves to stage s, the others stay where they are.
Moves(r, s) ==
  /\ s \in Stages /\ RequestTypes'
  /\ stage'[r] = s
  /\ \A q \in Requests \ {r} :
       stage'[q] = stage[q] /\ event'[q] = event[q] /\ server'[q] = server[q]
       /\ result'[q] = result[q]

LEMMA Ends ==
  ASSUME RequestTypes, NEW r \in Requests, EndRequest(r)
  PROVE  Moves(r, "done") /\ event'[r] = Nothing
BY DEF RequestTypes, EndRequest, Go, Moves, Stages

LEMMA Steps ==
  ASSUME RequestTypes, NEW r \in Requests, NEW s \in Stages, Step(r, s)
  PROVE  /\ Moves(r, s)
         /\ event'[r] = event[r] /\ server'[r] = server[r] /\ result'[r] = result[r]
BY DEF RequestTypes, Step, Go, Moves

LEMMA Takes ==
  ASSUME RequestTypes, NEW r \in Requests, NEW s \in Stages, NEW c \in Connections, Take(r, s, c),
         copy' \in [Requests -> ConnectionStatuses \cup {Nothing}],
         hint' \in [Requests -> Connections \cup {Nothing}]
  PROVE  /\ Moves(r, s)
         /\ event'[r] = event[r] /\ server'[r] = server[r] /\ result'[r] = result[r]
BY DEF RequestTypes, Take, Go, Moves

\* The stages, by name.
LEMMA StageNames ==
  /\ {"idle", "done"} \subseteq Stages
  /\ Inbound \subseteq Stages /\ Outbound \subseteq Stages /\ Managing \subseteq Stages
  /\ "idle" \notin Inbound \cup Outbound /\ "done" \notin Inbound \cup Outbound
  /\ \A s \in Managing : s \notin Inbound \cup Outbound \cup {"idle"}
  /\ \A s \in Outbound : s \notin Inbound
BY DEF Stages, Inbound, Outbound, Managing

\* A request that manages a connection, and is then in none of the other stages.
Managed(r) ==
  /\ ManagementOnly \/ (UNCHANGED <<inboundRows, outboundRows, fixed>> /\ operated' \subseteq Connections)
  /\ RowTypes'
  /\ \E s \in Managing \cup {"done"} :
       Moves(r, s) /\ event'[r] = Nothing

LEMMA ManageMoves ==
  ASSUME IntegrationTypeOK, RequestsKnown, NEW r \in Requests, Manage(r)
  PROVE  Managed(r)
<1>0. RowTypes /\ InboundTypes /\ OutboundTypes /\ RequestTypes /\ FixedTypes
  BY Types
<1>1. /\ stage[r] = "idle" \/ stage[r] \in Managing => event[r] = Nothing
      /\ Managing \subseteq Stages /\ "done" \in Stages
  BY StageNames DEF RequestsKnown, Known
<1>2. ASSUME NEW c \in Connections, Connect(r, c)
      PROVE  Managed(r)
  <2>1. copy' \in [Requests -> ConnectionStatuses \cup {Nothing}] /\ hint' = hint
    BY <1>0, <1>2 DEF Connect, RowTypes, RequestTypes
  <2>2. Take(r, "found", c) /\ UNCHANGED rows /\ ManagementOnly /\ stage[r] = "idle"
    BY <1>2 DEF Connect
  <2>3. "found" \in Managing
    BY DEF Managing
  <2>4. Moves(r, "found") /\ event'[r] = Nothing
    BY <1>0, <1>1, <2>1, <2>2, <2>3, Takes DEF RequestTypes
  <2> QED
    BY <1>0, <2>2, <2>3, <2>4 DEF Managed, RowTypes, rows
<1>3. ASSUME NEW c \in Connections, Disconnect(r, c)
      PROVE  Managed(r)
  <2>1. Take(r, "severing", c) /\ UNCHANGED <<copy, hint, rows>> /\ ManagementOnly
        /\ stage[r] = "idle"
    BY <1>3 DEF Disconnect
  <2>2. "severing" \in Managing
    BY DEF Managing
  <2>3. Moves(r, "severing") /\ event'[r] = Nothing
    BY <1>0, <1>1, <2>1, <2>2, Takes DEF RequestTypes
  <2> QED
    BY <1>0, <2>1, <2>2, <2>3 DEF Managed, RowTypes, rows
<1>4. ASSUME EndRequest(r), RowTypes',
             ManagementOnly \/ (UNCHANGED <<inboundRows, outboundRows, fixed>> /\ operated' \subseteq Connections)
      PROVE  Managed(r)
  BY <1>0, <1>4, Ends DEF Managed
<1>5. ASSUME NEW c \in Connections, Revoke(r, c)
      PROVE  Managed(r)
  BY <1>0, <1>4, <1>5 DEF Revoke, RowTypes, FixedTypes
<1>6. ASSUME NEW c \in Connections, NEW s \in ConnectionStatuses, Operate(r, c, s)
      PROVE  Managed(r)
  BY <1>0, <1>4, <1>6 DEF Operate, SetStatus, RowTypes, FixedTypes
<1>7. CASE MarkConnecting(r)
  <2>1. CASE EndRequest(r) /\ UNCHANGED rows
    BY <1>0, <1>4, <1>7, <2>1 DEF MarkConnecting, RowTypes, rows
  <2>2. CASE Step(r, "handshake") /\ SetStatus(on[r], "CONNECTING")
    <3>1. "handshake" \in Managing /\ stage[r] \in Managing
      BY <1>7 DEF MarkConnecting, Managing
    <3>2. Moves(r, "handshake") /\ event'[r] = Nothing
      BY <1>0, <1>1, <2>2, <3>1, Steps
    <3>3. RowTypes'
      BY <1>0, <2>2 DEF SetStatus, RowTypes, ConnectionStatuses
    <3> QED
      BY <1>7, <3>1, <3>2, <3>3 DEF Managed, MarkConnecting
  <2> QED
    BY <1>7, <2>1, <2>2 DEF MarkConnecting
<1>8. CASE FailHandshake(r)
  BY <1>0, <1>4, <1>8 DEF FailHandshake, SetStatus, RowTypes, ConnectionStatuses
<1>9. CASE StoreConnection(r)
  BY <1>0, <1>4, <1>9 DEF StoreConnection, RowTypes, RequestTypes, ConnectionStatuses, rows
<1>10. CASE Release(r)
  <2>1. CASE owner = on[r]
    BY <1>0, <1>4, <1>10, <2>1 DEF Release, RowTypes, ConnectionStatuses
  <2>2. CASE owner # on[r]
    <3>1. "released" \in Managing /\ stage[r] \in Managing
      BY <1>10 DEF Release, Managing
    <3>2. Moves(r, "released") /\ event'[r] = Nothing
      BY <1>0, <1>1, <1>10, <2>2, <3>1, Steps DEF Release
    <3> QED
      BY <1>0, <1>10, <2>2, <3>1, <3>2 DEF Managed, Release, RowTypes, rows
  <2> QED
    BY <2>1, <2>2
<1>11. CASE Sever(r)
  BY <1>0, <1>4, <1>11 DEF Sever, SetStatus, RowTypes, ConnectionStatuses
<1> QED
  BY <1>2, <1>3, <1>5, <1>6, <1>7, <1>8, <1>9, <1>10, <1>11 DEF Manage

\* What a step of an outbound operation leaves.
Executed(r) ==
  /\ RowTypes' /\ OutboundTypes' /\ RequestTypes'
  /\ UNCHANGED <<inboundRows, fixed, operated, credential>>
  /\ \A c \in Connections : status'[c] = "CONNECTED" => status[c] = "CONNECTED"
  /\ \A q \in Requests \ {r} :
       stage'[q] = stage[q] /\ event'[q] = event[q] /\ server'[q] = server[q]
       /\ result'[q] = result[q] /\ attempt'[q] = attempt[q] /\ ledger'[q] = ledger[q]
  /\ \/ event'[r] = Nothing /\ stage'[r] \notin Inbound
     \/ event'[r] = event[r] /\ stage'[r] = stage[r]
  /\ Known(r)' /\ Tried(r)'

LEMMA ExecuteMoves ==
  ASSUME IntegrationTypeOK, RequestsKnown, AttemptsInTurn, NEW r \in Requests, Execute(r)
  PROVE  Executed(r)
<1>0. RowTypes /\ InboundTypes /\ OutboundTypes /\ RequestTypes /\ FixedTypes
  BY Types
<1>1. /\ stage[r] \in Outbound \cup {"idle"} => event[r] = Nothing
      /\ "resolved" \in Outbound /\ "prepared" \in Outbound /\ "recorded" \in Outbound
      /\ "running" \in Outbound /\ "answered" \in Outbound /\ "waiting" \in Outbound
      /\ "refused" \in Outbound /\ "blaming" \in Outbound
      /\ Outbound \subseteq Stages /\ "done" \in Stages
      /\ \A s \in Outbound \cup {"done"} : s \notin Inbound /\ s # "idle"
  BY StageNames DEF RequestsKnown, Known, Outbound
<1>2. Known(r) /\ Tried(r) /\ attempt[r] \in 0..MaxAttempts /\ attempt[r] \in Nat
      /\ MaxAttempts \in Nat /\ (attempt[r] > 0 => attempt[r] \in Attempts)
  BY <1>0, IntegrationAssumption DEF RequestsKnown, AttemptsInTurn, OutboundTypes, Attempts
<1>3. ASSUME NEW s \in Outbound \cup {"done"}, Moves(r, s), event'[r] = Nothing,
             UNCHANGED outboundRows, OutboundOnly,
             s # "waiting", s # "answered", s = "done" \/ stage[r] \in Outbound
      PROVE  Executed(r)
  <2>1. UNCHANGED <<attempt, ledger, acted, status, credential, owner>>
    BY <1>3 DEF outboundRows, OutboundOnly, rows
  <2>2. RowTypes' /\ OutboundTypes' /\ RequestTypes' /\ stage'[r] = s
    BY <1>0, <1>3, <2>1 DEF RowTypes, OutboundTypes, Moves
  <2>3. s \in Outbound => attempt[r] > 0
    BY <1>2, <1>3, StageNames DEF Known
  <2>4. Known(r)'
    BY <1>1, <1>3, <2>1, <2>2, <2>3 DEF Known
  <2>5. Tried(r)'
    BY <1>2, <1>3, <2>1, <2>2 DEF Tried
  <2> QED
    BY <1>1, <1>3, <2>1, <2>2, <2>4, <2>5 DEF Executed, Moves, OutboundOnly
<1>4. ASSUME EndRequest(r), UNCHANGED outboundRows, OutboundOnly
      PROVE  Executed(r)
  BY <1>0, <1>1, <1>3, <1>4, Ends
<1>5. ASSUME NEW h \in Connections \cup {Nothing}, NEW c \in Connections, Resolve(r, h, c)
      PROVE  Executed(r)
  <2>1. /\ Take(r, "resolved", c) /\ copy' = copy /\ OutboundOnly
        /\ hint' = [hint EXCEPT ![r] = h]
        /\ attempt' = [attempt EXCEPT ![r] = @ + 1] /\ UNCHANGED <<ledger, acted>>
        /\ stage[r] = "idle" \/ stage[r] = "waiting"
    BY <1>5 DEF Resolve
  <2>2. Moves(r, "resolved") /\ event'[r] = event[r] /\ event[r] = Nothing
    BY <1>0, <1>1, <2>1, Takes DEF RequestTypes
  <2>3. attempt[r] < MaxAttempts /\ attempt'[r] = attempt[r] + 1
    BY <1>0, <1>2, <2>1, IntegrationAssumption DEF Known, OutboundTypes
  <2>4. attempt' \in [Requests -> 0..MaxAttempts]
    BY <1>0, <1>2, <2>1, <2>3 DEF OutboundTypes
  <2>5. RowTypes' /\ OutboundTypes' /\ RequestTypes' /\ stage'[r] = "resolved"
    BY <1>0, <2>1, <2>2, <2>4 DEF RowTypes, OutboundTypes, Moves, OutboundOnly, rows
  <2>6. Known(r)'
    BY <1>1, <1>2, <2>2, <2>3, <2>5 DEF Known
  <2>7. Tried(r)'
    <3>1. ledger'[r] = ledger[r]
      BY <2>1
    <3>2. \A b \in Attempts : ledger[r][b] # Nothing => b <= attempt'[r]
      BY <1>2, <2>3 DEF Tried, Attempts
    <3>3. ASSUME NEW a \in Attempts, a < attempt'[r]
          PROVE  ledger[r][a] \in Unknown
      <4>1. a < attempt[r] \/ a = attempt[r]
        BY <1>2, <2>3, <3>3 DEF Attempts
      <4>2. a = attempt[r] => stage[r] = "waiting"
        BY <1>2, <2>1, <3>3 DEF Known, Attempts
      <4> QED
        BY <1>2, <4>1, <4>2 DEF Tried
    <3> QED
      BY <2>5, <3>1, <3>2, <3>3 DEF Tried
  <2> QED
    BY <1>0, <1>1, <2>1, <2>2, <2>5, <2>6, <2>7
    DEF Executed, Moves, OutboundOnly, rows, OutboundTypes
<1>6. CASE FailToResolve(r)
  BY <1>4, <1>6 DEF FailToResolve
<1>7. CASE Prepare(r)
  <2>1. CASE Step(r, "prepared") /\ stage[r] = "resolved"
    BY <1>0, <1>1, <1>3, <1>7, <2>1, Steps DEF Prepare
  <2> QED
    BY <1>4, <1>7, <2>1 DEF Prepare
<1>8. ASSUME NEW s \in {"recorded", "running"}, NEW l \in {"PENDING", "RUNNING"},
             Step(r, s), stage[r] \in {"prepared", "recorded"},
             ledger' = [ledger EXCEPT ![r][attempt[r]] = l],
             UNCHANGED <<attempt, acted>>, OutboundOnly
      PROVE  Executed(r)
  <2>1. Moves(r, s) /\ event'[r] = Nothing /\ s \in Outbound
    BY <1>0, <1>1, <1>8, Steps
  <2>2. attempt[r] \in Attempts
    BY <1>1, <1>2, <1>8 DEF Known
  <2>3. /\ ledger'[r] = [ledger[r] EXCEPT ![attempt[r]] = l]
        /\ \A q \in Requests \ {r} : ledger'[q] = ledger[q]
        /\ \A a \in Attempts : a # attempt[r] => ledger'[r][a] = ledger[r][a]
    BY <1>0, <1>8, <2>2 DEF OutboundTypes
  <2>4. RowTypes' /\ OutboundTypes' /\ RequestTypes' /\ stage'[r] = s
    BY <1>0, <1>8, <2>1, <2>2 DEF RowTypes, OutboundTypes, Moves, OutboundOnly, rows, LedgerStatuses
  <2>5. Known(r)'
    BY <1>1, <1>2, <1>8, <2>1, <2>2, <2>4 DEF Known, Attempts
  <2>6. Tried(r)'
    BY <1>2, <1>8, <2>2, <2>3, <2>4 DEF Tried, Attempts
  <2> QED
    BY <1>1, <1>8, <2>1, <2>3, <2>4, <2>5, <2>6 DEF Executed, Moves, OutboundOnly, rows
<1>9. CASE Record(r) \/ Run(r)
  BY <1>8, <1>9 DEF Record, Run
<1>10. ASSUME NEW a \in Attempts, Act(r, a)
       PROVE  Executed(r)
  <2>1. /\ UNCHANGED <<attempt, ledger, stage, on, copy, event, server, hint, result>>
        /\ OutboundOnly /\ acted' = [acted EXCEPT ![r] = @ \cup {a}]
    BY <1>10 DEF Act, request
  <2>2. RowTypes' /\ OutboundTypes' /\ RequestTypes'
    BY <1>0, <2>1 DEF RowTypes, OutboundTypes, RequestTypes, OutboundOnly, rows
  <2>3. Known(r)' /\ Tried(r)'
    BY <1>2, <2>1 DEF Known, Tried
  <2> QED
    BY <2>1, <2>2, <2>3 DEF Executed, OutboundOnly, rows
<1>11. ASSUME NEW o \in Outcomes, Answer(r, o)
       PROVE  Executed(r)
  <2>1. /\ stage[r] = "running" /\ OutboundOnly
        /\ result' = [result EXCEPT ![r] = o] /\ stage' = [stage EXCEPT ![r] = "answered"]
        /\ UNCHANGED <<on, copy, event, server, hint, attempt, ledger, acted>>
    BY <1>11 DEF Answer, Go, outboundRows
  <2>2. RowTypes' /\ OutboundTypes' /\ RequestTypes'
    BY <1>0, <1>1, <2>1 DEF RowTypes, OutboundTypes, RequestTypes, OutboundOnly, rows
  <2>3. stage'[r] = "answered" /\ result'[r] = o /\ o # Nothing
    BY <1>0, <2>1, NothingIsNoStatus DEF RequestTypes, LedgerStatuses
  <2>4. Known(r)'
    BY <1>1, <1>2, <2>1, <2>3 DEF Known
  <2>5. Tried(r)'
    BY <1>2, <2>1, <2>3 DEF Tried
  <2> QED
    BY <1>0, <1>1, <2>1, <2>2, <2>3, <2>4, <2>5 DEF Executed, OutboundOnly, rows, RequestTypes
<1>12. CASE Close(r)
  <2>1. /\ stage[r] = "answered" /\ Continue(r) /\ OutboundOnly
        /\ ledger' = [ledger EXCEPT ![r][attempt[r]] = result[r]]
        /\ UNCHANGED <<attempt, acted>>
    BY <1>12 DEF Close
  <2>2. result[r] \in Outcomes /\ attempt[r] \in Attempts /\ attempt[r] > 0
    BY <1>0, <1>1, <1>2, <2>1 DEF Known, RequestTypes
  <2>3. PICK s \in {"waiting", "refused", "done"} :
          /\ Moves(r, s) /\ event'[r] = Nothing
          /\ s = "waiting" => result[r] \in Unknown /\ attempt[r] < MaxAttempts
    <3>1. CASE EndRequest(r)
      BY <1>0, <3>1, Ends
    <3>2. CASE Step(r, "refused")
      BY <1>0, <1>1, <2>1, <3>2, Steps
    <3>3. CASE Step(r, "waiting") /\ result[r] \in Unknown /\ attempt[r] < MaxAttempts
      BY <1>0, <1>1, <2>1, <3>3, Steps
    <3> QED
      BY <2>1, <3>1, <3>2, <3>3 DEF Continue, Unknown
  <2>4. /\ \A q \in Requests \ {r} : ledger'[q] = ledger[q]
        /\ \A a \in Attempts : a # attempt[r] => ledger'[r][a] = ledger[r][a]
        /\ ledger'[r][attempt[r]] = result[r]
    BY <1>0, <2>1, <2>2 DEF OutboundTypes
  <2>5. RowTypes' /\ OutboundTypes' /\ RequestTypes' /\ stage'[r] = s
    BY <1>0, <2>1, <2>2, <2>3 DEF RowTypes, OutboundTypes, Moves, OutboundOnly, rows, LedgerStatuses
  <2>6. Known(r)'
    BY <1>1, <1>2, <2>1, <2>2, <2>3, <2>5 DEF Known
  <2>7. Tried(r)'
    BY <1>2, <2>1, <2>2, <2>3, <2>4, <2>5 DEF Tried, Attempts
  <2> QED
    BY <1>1, <2>1, <2>3, <2>4, <2>5, <2>6, <2>7 DEF Executed, Moves, OutboundOnly, rows
<1>13. CASE FindRefused(r)
  <2>1. ASSUME NEW c \in Resolved(hint[r]), Take(r, "blaming", c), UNCHANGED <<copy, hint>>
        PROVE  Executed(r)
    <3>1. c \in Connections
      BY <2>1 DEF Resolved
    <3>2. Moves(r, "blaming") /\ event'[r] = Nothing
      BY <1>0, <1>1, <1>13, <2>1, <3>1, Takes DEF FindRefused, RequestTypes
    <3> QED
      BY <1>1, <1>3, <1>13, <3>2 DEF FindRefused
  <2> QED
    BY <1>4, <1>13, <2>1 DEF FindRefused
<1>14. CASE Blame(r)
  <2>1. /\ EndRequest(r) /\ UNCHANGED <<inboundRows, attempt, ledger, acted, fixed, operated>>
        /\ status' = [status EXCEPT ![on[r]] = "ERROR"] /\ UNCHANGED <<credential, owner>>
    BY <1>14 DEF Blame, SetStatus, outboundRows
  <2>2. Moves(r, "done") /\ event'[r] = Nothing
    BY <1>0, <2>1, Ends
  <2>3. RowTypes' /\ OutboundTypes' /\ RequestTypes' /\ stage'[r] = "done"
    <3>1. RowTypes'
      BY <1>0, <2>1 DEF RowTypes, ConnectionStatuses
    <3>2. OutboundTypes'
      BY <1>0, <2>1 DEF OutboundTypes
    <3> QED
      BY <2>2, <3>1, <3>2 DEF Moves
  <2>4. Known(r)' /\ Tried(r)'
    <3>1. attempt' = attempt /\ ledger' = ledger
      BY <2>1
    <3>2. "done" \notin Inbound \cup Outbound
      BY StageNames
    <3>3. Known(r)'
      BY <2>2, <2>3, <3>1, <3>2 DEF Known
    <3>4. Tried(r)'
      BY <1>2, <2>3, <3>1 DEF Tried
    <3> QED
      BY <3>3, <3>4
  <2>5. \A c \in Connections : status'[c] = "CONNECTED" => status[c] = "CONNECTED"
    BY <1>0, <2>1 DEF RowTypes
  <2> QED
    BY <1>1, <2>1, <2>2, <2>3, <2>4, <2>5 DEF Executed, Moves
<1> QED
  BY <1>5, <1>6, <1>7, <1>9, <1>10, <1>11, <1>12, <1>13, <1>14 DEF Execute

-----------------------------------------------------------------------------
(* Connections: deliveries. *)

\* What a step of a delivery does to its request.
Delivered(r) ==
  /\ RequestTypes' /\ InboundTypes'
  /\ UNCHANGED <<rows, outboundRows, fixed, operated>>
  /\ \A q \in Requests \ {r} :
       stage'[q] = stage[q] /\ event'[q] = event[q] /\ server'[q] = server[q]
       /\ result'[q] = result[q]
  /\ Known(r)' /\ stage'[r] # "waiting"

LEMMA DeliverMoves ==
  ASSUME IntegrationTypeOK, RequestsKnown, NEW r \in Requests, Deliver(r)
  PROVE  Delivered(r)
<1>0. RowTypes /\ InboundTypes /\ OutboundTypes /\ RequestTypes /\ FixedTypes
  BY Types
<1>1. /\ Inbound \subseteq Stages /\ "done" \in Stages
      /\ "received" \in Inbound /\ "checked" \in Inbound /\ "looked" \in Inbound
      /\ "persisted" \in Inbound
      /\ \A s \in Inbound : s \notin Outbound /\ s # "idle" /\ s # "answered" /\ s # "waiting"
      /\ "done" \notin Inbound \cup Outbound
  BY StageNames DEF Inbound, Outbound
<1>2. ASSUME EndRequest(r), InboundTypes', InboundOnly
      PROVE  Delivered(r)
  <2>1. Moves(r, "done") /\ event'[r] = Nothing
    BY <1>0, <1>2, Ends
  <2>2. Known(r)'
    BY <1>1, <2>1 DEF Known, Moves
  <2> QED
    BY <1>2, <2>1, <2>2 DEF Delivered, Moves, InboundOnly
<1>3. ASSUME NEW s \in Inbound, Step(r, s), stage[r] \in Inbound, InboundTypes', InboundOnly
      PROVE  Delivered(r)
  <2>1. Moves(r, s) /\ event'[r] = event[r] /\ server'[r] = server[r]
    BY <1>0, <1>1, <1>3, Steps
  <2>2. Known(r)
    BY DEF RequestsKnown
  <2>3. Known(r)'
    BY <1>1, <1>3, <2>1, <2>2 DEF Known, Moves
  <2> QED
    BY <1>1, <1>3, <2>1, <2>3 DEF Delivered, Moves, InboundOnly
<1>4. ASSUME NEW e \in Events, NEW s \in Servers, Receive(r, e, s)
      PROVE  Delivered(r)
  <2>1. /\ event' = [event EXCEPT ![r] = e] /\ server' = [server EXCEPT ![r] = s]
        /\ copy' = [copy EXCEPT ![r] = status[home[e]]]
        /\ stage' = [stage EXCEPT ![r] = "received"] /\ UNCHANGED <<on, hint, result>>
        /\ InboundOnly
    BY <1>4 DEF Receive, Go
  <2>2. RequestTypes'
    BY <1>0, <1>1, <2>1 DEF RequestTypes, RowTypes, FixedTypes
  <2>3. overlapped' \subseteq overlapped \cup {e} /\ UNCHANGED <<inbox, remembered, recent, dispatched, rolledBack>>
    BY <1>4 DEF Receive
  <2>4. InboundTypes'
    BY <1>0, <2>3 DEF InboundTypes
  <2>5. Known(r)'
    BY <1>0, <1>1, <2>1, IntegrationAssumption DEF Known, RequestTypes
  <2> QED
    BY <1>0, <2>1, <2>2, <2>4, <2>5 DEF Delivered, InboundOnly, RequestTypes
<1>5. CASE UNCHANGED inboundRows /\ (CheckReplay(r) \/ LookUp(r))
  <2>1. InboundTypes'
    BY <1>0, <1>5 DEF InboundTypes, inboundRows
  <2> QED
    BY <1>1, <1>2, <1>3, <1>5, <2>1 DEF CheckReplay, LookUp
<1>6. stage[r] \in Inbound => event[r] \in Events /\ server[r] \in Servers
  BY <1>0 DEF RequestsKnown, Known, RequestTypes
<1>7. CASE Persist(r)
  <2>1. InboundTypes'
    BY <1>0, <1>7 DEF Persist, InboundTypes, InboxStatuses
  <2> QED
    BY <1>1, <1>3, <1>7, <2>1 DEF Persist
<1>8. CASE Ignore(r)
  <2>1. InboundTypes'
    BY <1>0, <1>8 DEF Ignore, InboundTypes, InboxStatuses
  <2> QED
    BY <1>2, <1>8, <2>1 DEF Ignore
<1>9. ASSUME stage[r] \in Inbound, Remember(r)
      PROVE  remembered' \in [Servers -> SUBSET Events]
  BY <1>0, <1>6, <1>9 DEF Remember, InboundTypes
<1>10. CASE Dispatch(r)
  <2>1. remembered' \in [Servers -> SUBSET Events] /\ event[r] \in Events
    BY <1>1, <1>6, <1>9, <1>10 DEF Dispatch
  <2>2. inbox' \in [Events -> InboxStatuses \cup {Nothing}]
    BY <1>0, <1>10 DEF Dispatch, InboundTypes, InboxStatuses
  <2>3. recent' \subseteq Events /\ dispatched' \in [Events -> Nat]
    BY <1>0, <1>10, <2>1 DEF Dispatch, InboundTypes
  <2>4. InboundTypes'
    BY <1>0, <1>10, <2>1, <2>2, <2>3 DEF Dispatch, InboundTypes
  <2> QED
    BY <1>2, <1>10, <2>4 DEF Dispatch
<1>11. CASE RollBack(r)
  <2>1. remembered' \in [Servers -> SUBSET Events] /\ event[r] \in Events
    BY <1>1, <1>6, <1>9, <1>11 DEF RollBack
  <2>2. InboundTypes'
    BY <1>0, <1>11, <2>1 DEF RollBack, InboundTypes
  <2> QED
    BY <1>2, <1>11, <2>2 DEF RollBack
<1> QED
  BY <1>4, <1>5, <1>7, <1>8, <1>10, <1>11 DEF Deliver, CheckReplay, LookUp

\* An event no request is about leaves no trace in another's.
LEMMA TraceStays ==
  ASSUME EventsTraced, UNCHANGED <<inboundRows, nature>>,
         \A q \in Requests :
           \/ event'[q] = Nothing
           \/ event'[q] = event[q] /\ (Committed(q)' => Committed(q) \/ dispatched[event[q]] = 0)
  PROVE  EventsTraced'
<1> SUFFICES ASSUME NEW e \in Events PROVE Traced(e)'
  BY DEF EventsTraced
<1>1. Traced(e) /\ UNCHANGED <<inbox, remembered, recent, dispatched, overlapped, rolledBack>>
  BY DEF EventsTraced, inboundRows
<1>2. e # Nothing
  BY IntegrationAssumption DEF IntegrationAssumption
<1>3. \A q \in Requests : event'[q] = e => event[q] = e
  BY <1>2
<1>4. \A q \in Requests : event'[q] = e /\ Committed(q)' /\ dispatched[e] > 0 => Committed(q)
  BY <1>2
<1>5. \A r, q \in Requests : event'[r] = e /\ event'[q] = e /\ r # q => e \in overlapped'
  BY <1>1, <1>3 DEF Traced
<1>6. \A r \in Requests : event'[r] = e /\ Committed(r)' /\ dispatched'[e] > 0 =>
        e \in overlapped' /\ (e \in Dated' => e \in recent')
  BY <1>1, <1>3, <1>4 DEF Traced, Dated
<1> QED
  BY <1>1, <1>5, <1>6 DEF Traced

\* A delivery, the inbox and the memories keep agreeing.
LEMMA DeliverTraces ==
  ASSUME IntegrationTypeOK, RequestsKnown, EventsTraced, OneDispatch, ProcessedWasDispatched,
         NEW r \in Requests, Deliver(r)
  PROVE  EventsTraced' /\ OneDispatch' /\ ProcessedWasDispatched'
<1>0. RowTypes /\ InboundTypes /\ OutboundTypes /\ RequestTypes /\ FixedTypes
  BY Types
<1>1. stage[r] \in Inbound => event[r] \in Events /\ server[r] \in Servers
  BY <1>0 DEF RequestsKnown, Known, RequestTypes
<1>2. Nothing \notin Events
  BY IntegrationAssumption DEF IntegrationAssumption
<1>3. ASSUME UNCHANGED <<inboundRows, nature>>
      PROVE  OneDispatch' /\ ProcessedWasDispatched'
  BY <1>3 DEF OneDispatch, ProcessedWasDispatched, inboundRows, Dated
<1>4. ASSUME EndRequest(r)
      PROVE  \A q \in Requests :
               \/ event'[q] = Nothing
               \/ event'[q] = event[q] /\ stage'[q] = stage[q]
  BY <1>0, <1>4, Ends DEF Moves
<1>5. ASSUME NEW s \in Stages, Step(r, s)
      PROVE  /\ \A q \in Requests : event'[q] = event[q]
             /\ \A q \in Requests \ {r} : stage'[q] = stage[q]
             /\ stage'[r] = s
  BY <1>0, <1>5, Steps DEF Moves
<1>6. ASSUME NEW e \in Events, NEW s \in Servers, Receive(r, e, s)
      PROVE  EventsTraced' /\ OneDispatch' /\ ProcessedWasDispatched'
  <2>1. /\ event' = [event EXCEPT ![r] = e] /\ stage' = [stage EXCEPT ![r] = "received"]
        /\ overlapped' = overlapped \cup {x \in {e} : \E q \in Requests : event[q] = x}
        /\ UNCHANGED <<inbox, remembered, recent, dispatched, rolledBack, nature>>
    BY <1>6 DEF Receive, Go, InboundOnly, fixed
  <2>2. OneDispatch' /\ ProcessedWasDispatched'
    BY <2>1 DEF OneDispatch, ProcessedWasDispatched, Dated
  <2>3. ASSUME NEW x \in Events
        PROVE  Traced(x)'
    <3>1. Traced(x)
      BY DEF EventsTraced
    <3>2. /\ event'[r] = e /\ stage'[r] = "received"
          /\ \A q \in Requests \ {r} : event'[q] = event[q] /\ stage'[q] = stage[q]
      BY <1>0, <2>1 DEF RequestTypes
    <3>3. \A p, q \in Requests : event'[p] = x /\ event'[q] = x /\ p # q => x \in overlapped'
      BY <2>1, <3>1, <3>2 DEF Traced
    <3>4. \A q \in Requests : event'[q] = x /\ Committed(q)' => event[q] = x /\ Committed(q)
      BY <3>2 DEF Committed
    <3>5. \A q \in Requests : event'[q] = x /\ Committed(q)' /\ dispatched'[x] > 0 =>
            x \in overlapped' /\ (x \in Dated' => x \in recent')
      BY <2>1, <3>1, <3>4 DEF Traced, Dated
    <3> QED
      BY <2>1, <3>1, <3>3, <3>5 DEF Traced
  <2> QED
    BY <2>2, <2>3 DEF EventsTraced
<1>7. CASE CheckReplay(r)
  <2>1. UNCHANGED <<inboundRows, nature>> /\ (Step(r, "checked") \/ EndRequest(r))
    BY <1>7 DEF CheckReplay, InboundOnly, fixed
  <2>2. "checked" \in Stages
    BY DEF Stages, Inbound
  <2>3. \A q \in Requests :
          \/ event'[q] = Nothing
          \/ event'[q] = event[q] /\ (Committed(q)' => Committed(q))
    BY <1>4, <1>5, <2>1, <2>2 DEF Committed
  <2> QED
    BY <1>3, <2>1, <2>3, TraceStays
<1>8. CASE LookUp(r)
  <2>1. /\ UNCHANGED <<inboundRows, nature>> /\ stage[r] = "checked"
        /\ (Step(r, "looked") /\ inbox[event[r]] # "PROCESSED") \/ EndRequest(r)
    BY <1>8 DEF LookUp, InboundOnly, fixed
  <2>2. "looked" \in Stages /\ event[r] \in Events
    BY <1>1, <2>1 DEF Stages, Inbound
  <2>3. inbox[event[r]] # "PROCESSED" => dispatched[event[r]] = 0
    BY <1>0, <2>2 DEF EventsTraced, Traced, InboundTypes
  <2>4. \A q \in Requests :
          \/ event'[q] = Nothing
          \/ event'[q] = event[q] /\ (Committed(q)' => Committed(q) \/ dispatched[event[q]] = 0)
    BY <1>4, <1>5, <2>1, <2>2, <2>3 DEF Committed
  <2> QED
    BY <1>3, <2>1, <2>4, TraceStays
<1>9. CASE Persist(r)
  <2>1. /\ stage[r] = "looked" /\ Step(r, "persisted") /\ "persisted" \in Stages
        /\ inbox' = [inbox EXCEPT ![event[r]] = IF @ = Nothing THEN "RECEIVED" ELSE @]
        /\ UNCHANGED <<remembered, recent, dispatched, overlapped, rolledBack, nature>>
    BY <1>9 DEF Persist, InboundOnly, fixed, Stages, Inbound
  <2>3. \A q \in Requests : event'[q] = event[q] /\ (Committed(q)' => Committed(q))
    BY <1>5, <2>1 DEF Committed
  <2>4. \A x \in Events : inbox'[x] = "PROCESSED" <=> inbox[x] = "PROCESSED"
    BY <1>0, <2>1, NothingIsNoStatus DEF InboundTypes, InboxStatuses
  <2>5. ASSUME NEW x \in Events
        PROVE  Traced(x)'
    <3>1. Traced(x)
      BY DEF EventsTraced
    <3>2. \A p, q \in Requests : event'[p] = x /\ event'[q] = x /\ p # q => x \in overlapped'
      BY <2>1, <2>3, <3>1 DEF Traced
    <3>3. \A q \in Requests : event'[q] = x /\ Committed(q)' /\ dispatched'[x] > 0 =>
            x \in overlapped' /\ (x \in Dated' => x \in recent')
      BY <2>1, <2>3, <3>1 DEF Traced, Dated
    <3> QED
      BY <2>1, <2>4, <3>1, <3>2, <3>3 DEF Traced
  <2> QED
    BY <2>1, <2>4, <2>5 DEF EventsTraced, OneDispatch, ProcessedWasDispatched, Dated
<1>10. CASE Ignore(r)
  <2>1. /\ event[r] \in Events /\ nature[event[r]] = "declined" /\ EndRequest(r)
        /\ inbox' = [inbox EXCEPT ![event[r]] = "IGNORED"]
        /\ UNCHANGED <<remembered, recent, dispatched, overlapped, rolledBack, nature>>
    BY <1>1, <1>10 DEF Ignore, Inbound, InboundOnly, fixed
  <2>2. /\ \A x \in Events : inbox'[x] = "PROCESSED" => inbox[x] = "PROCESSED"
        /\ \A x \in Events \ {event[r]} : inbox'[x] = inbox[x]
    BY <1>0, <2>1 DEF InboundTypes
  <2>3. ASSUME NEW x \in Events
        PROVE  Traced(x)'
    <3>1. Traced(x)
      BY DEF EventsTraced
    <3>2. x = event[r] => ~(dispatched[x] > 0)
      BY <2>1, <3>1 DEF Traced
    <3>3. \A q \in Requests : event'[q] = x => event[q] = x /\ stage'[q] = stage[q]
      BY <1>2, <1>4, <2>1
    <3>4. \A p, q \in Requests : event'[p] = x /\ event'[q] = x /\ p # q => x \in overlapped'
      BY <2>1, <3>1, <3>3 DEF Traced
    <3>5. \A q \in Requests : event'[q] = x /\ Committed(q)' /\ dispatched'[x] > 0 =>
            x \in overlapped' /\ (x \in Dated' => x \in recent')
      BY <2>1, <3>1, <3>3 DEF Traced, Dated, Committed
    <3>6. dispatched'[x] > 0 => inbox'[x] = "PROCESSED" /\ nature'[x] # "declined"
      BY <2>1, <2>2, <3>1, <3>2 DEF Traced
    <3> QED
      BY <2>1, <3>1, <3>4, <3>5, <3>6 DEF Traced
  <2> QED
    BY <2>1, <2>2, <2>3 DEF EventsTraced, OneDispatch, ProcessedWasDispatched, Dated
<1>11. CASE Dispatch(r)
  <2> PICK e \in Events : e = event[r]
    BY <1>1, <1>11 DEF Dispatch, Inbound
  <2>1. /\ stage[r] = "persisted" /\ nature[e] # "declined" /\ EndRequest(r)
        /\ inbox' = [inbox EXCEPT ![e] = "PROCESSED"]
        /\ UNCHANGED <<overlapped, rolledBack, nature>> /\ server[r] \in Servers
    BY <1>1, <1>11 DEF Dispatch, InboundOnly, fixed, Inbound
  <2>2. /\ \A x \in Events \ {e} : inbox'[x] = inbox[x]
        /\ inbox'[e] = "PROCESSED"
    BY <1>0, <2>1 DEF InboundTypes
  <2>3. \A s \in Servers : remembered'[s] \subseteq remembered[s] \cup ({e} \cap Dated)
    BY <1>0, <1>11 DEF Dispatch, Remember, InboundTypes
  <2>4. \/ /\ UNCHANGED <<recent, dispatched>>
           /\ e \in Dated /\ (dispatched[e] > 0 \/ e \in rolledBack)
        \/ /\ recent' = recent \cup ({e} \cap Dated)
           /\ e \in Dated => e \notin recent
           /\ dispatched' = [dispatched EXCEPT ![e] = @ + 1]
    <3>1. CASE IsDuplicate(r)
      <4>1. e \in Dated /\ (e \in remembered[server[r]] \/ e \in recent)
        BY <3>1 DEF IsDuplicate
      <4>2. dispatched[e] > 0 \/ e \in rolledBack
        BY <2>1, <4>1 DEF EventsTraced, Traced
      <4> QED
        BY <1>11, <3>1, <4>1, <4>2 DEF Dispatch
    <3>2. CASE ~IsDuplicate(r)
      BY <1>11, <3>2 DEF Dispatch, IsDuplicate
    <3> QED
      BY <3>1, <3>2
  <2>5. \A q \in Requests \ {r} : event'[q] = event[q] /\ stage'[q] = stage[q]
    BY <1>0, <2>1, Ends DEF Moves
  <2>6. event'[r] = Nothing
    BY <1>0, <2>1, Ends
  <2>7. ASSUME NEW x \in Events
        PROVE  Traced(x)' /\ (dispatched'[x] > 1 => nature[x] = "undated" /\ x \in overlapped)
                 /\ (inbox'[x] = "PROCESSED" /\ dispatched'[x] = 0 => x \in Dated \cap rolledBack)
    <3>1. Traced(x) /\ dispatched[x] \in Nat /\ nature[x] \in Natures
      BY <1>0 DEF EventsTraced, InboundTypes, FixedTypes
    <3>2. \A q \in Requests : event'[q] = x => q # r /\ event[q] = x /\ stage'[q] = stage[q]
      BY <1>2, <2>5, <2>6
    <3>3. \A p, q \in Requests : event'[p] = x /\ event'[q] = x /\ p # q => x \in overlapped'
      BY <2>1, <3>1, <3>2 DEF Traced
    <3>4. CASE x # e
      <4>1. dispatched'[x] = dispatched[x] /\ inbox'[x] = inbox[x]
        BY <1>0, <2>2, <2>4, <3>4 DEF InboundTypes
      <4>2. /\ x \in recent' <=> x \in recent
            /\ \A s \in Servers : x \in remembered'[s] => x \in remembered[s]
        BY <2>3, <2>4, <3>4
      <4>3. \A q \in Requests : event'[q] = x /\ Committed(q)' /\ dispatched'[x] > 0 =>
              x \in overlapped' /\ (x \in Dated' => x \in recent')
        BY <2>1, <3>1, <3>2, <4>1, <4>2 DEF Traced, Dated, Committed
      <4>4. Traced(x)'
        BY <2>1, <3>1, <3>3, <4>1, <4>2, <4>3 DEF Traced
      <4> QED
        BY <4>1, <4>4 DEF OneDispatch, ProcessedWasDispatched
    <3>5. CASE x = e /\ UNCHANGED <<recent, dispatched>>
                /\ e \in Dated /\ (dispatched[e] > 0 \/ e \in rolledBack)
      <4>1. \A q \in Requests : event'[q] = x /\ Committed(q)' /\ dispatched'[x] > 0 =>
              x \in overlapped' /\ (x \in Dated' => x \in recent')
        BY <2>1, <3>1, <3>2, <3>5 DEF Traced, Dated, Committed
      <4>2. Traced(x)'
        BY <2>1, <2>2, <3>1, <3>3, <3>5, <4>1 DEF Traced
      <4> QED
        BY <3>1, <3>5, <4>2 DEF OneDispatch
    <3>6. CASE x = e /\ recent' = recent \cup ({e} \cap Dated) /\ (e \in Dated => e \notin recent)
                /\ dispatched' = [dispatched EXCEPT ![e] = @ + 1]
      <4>1. dispatched'[x] = dispatched[x] + 1 /\ dispatched'[x] > 0
        BY <1>0, <3>1, <3>6 DEF InboundTypes
      <4>2. \A q \in Requests : event'[q] = x => x \in overlapped'
        BY <2>1, <3>1, <3>2, <3>6 DEF Traced
      <4>3. x \in Dated' => x \in recent'
        BY <2>1, <3>6 DEF Dated
      <4>4. Traced(x)'
        BY <2>1, <2>2, <3>1, <3>3, <3>6, <4>1, <4>2, <4>3 DEF Traced
      <4>5. dispatched[x] > 0 => x \in overlapped /\ x \notin Dated
        BY <2>1, <3>1, <3>6 DEF Traced, Committed
      <4>6. x \notin Dated => nature[x] = "undated"
        BY <2>1, <3>1, <3>6 DEF Dated, Natures
      <4> QED
        BY <3>1, <4>1, <4>4, <4>5, <4>6
    <3> QED
      BY <2>4, <3>4, <3>5, <3>6
  <2> QED
    BY <2>1, <2>7 DEF EventsTraced, OneDispatch, ProcessedWasDispatched, Dated
<1>12. CASE RollBack(r)
  <2> PICK e \in Events : e = event[r]
    BY <1>1, <1>12 DEF RollBack, Inbound
  <2>1. /\ EndRequest(r) /\ rolledBack' = rolledBack \cup {e}
        /\ UNCHANGED <<inbox, recent, dispatched, overlapped, nature>>
    BY <1>12 DEF RollBack, InboundOnly, fixed
  <2>2. \A s \in Servers : remembered'[s] \subseteq remembered[s] \cup ({e} \cap Dated)
    BY <1>0, <1>12 DEF RollBack, Remember, InboundTypes
  <2>3. ASSUME NEW x \in Events
        PROVE  Traced(x)'
    <3>1. Traced(x)
      BY DEF EventsTraced
    <3>2. \A q \in Requests : event'[q] = x => event[q] = x /\ stage'[q] = stage[q]
      BY <1>2, <1>4, <2>1
    <3>3. \A p, q \in Requests : event'[p] = x /\ event'[q] = x /\ p # q => x \in overlapped'
      BY <2>1, <3>1, <3>2 DEF Traced
    <3>4. \A q \in Requests : event'[q] = x /\ Committed(q)' /\ dispatched'[x] > 0 =>
            x \in overlapped' /\ (x \in Dated' => x \in recent')
      BY <2>1, <3>1, <3>2 DEF Traced, Dated, Committed
    <3>5. \A s \in Servers : x \in remembered'[s] => dispatched'[x] > 0 \/ x \in rolledBack'
      BY <2>1, <2>2, <3>1 DEF Traced
    <3> QED
      BY <2>1, <3>1, <3>3, <3>4, <3>5 DEF Traced
  <2> QED
    BY <2>1, <2>3 DEF EventsTraced, OneDispatch, ProcessedWasDispatched, Dated
<1> QED
  BY <1>6, <1>7, <1>8, <1>9, <1>10, <1>11, <1>12 DEF Deliver

-----------------------------------------------------------------------------
(* Connections: the inductive invariant. *)

\* Whoever writes CONNECTED leaves an ACTIVE credential, and only operators take one away.
LEMMA ManageUsable ==
  ASSUME RowTypes, FixedTypes, ConnectedHasCredential, NEW r \in Requests, Manage(r)
  PROVE  ConnectedHasCredential'
<1>1. ASSUME UNCHANGED <<rows, operated>>
      PROVE  ConnectedHasCredential'
  BY <1>1 DEF ConnectedHasCredential, rows
<1>2. ASSUME NEW s \in ConnectionStatuses, NEW c, SetStatus(c, s), s # "CONNECTED", operated' = operated
      PROVE  ConnectedHasCredential'
  BY <1>2 DEF ConnectedHasCredential, SetStatus, RowTypes
<1>3. ASSUME NEW c \in Connections, NEW s \in ConnectionStatuses, Operate(r, c, s)
      PROVE  ConnectedHasCredential'
  BY <1>3 DEF Operate, ConnectedHasCredential, SetStatus, RowTypes
<1>4. ASSUME NEW c \in Connections, Revoke(r, c)
      PROVE  ConnectedHasCredential'
  BY <1>4 DEF Revoke, ConnectedHasCredential, RowTypes
<1>5. CASE MarkConnecting(r)
  BY <1>1, <1>2, <1>5 DEF MarkConnecting, ManagementOnly, ConnectionStatuses
<1>6. CASE FailHandshake(r)
  BY <1>2, <1>6 DEF FailHandshake, ManagementOnly, ConnectionStatuses
<1>7. CASE StoreConnection(r)
  <2>1. CASE credential[on[r]] = Nothing
    <3>1. /\ status' = [status EXCEPT ![on[r]] = "CONNECTED"] /\ operated' = operated
          /\ credential' = [credential EXCEPT ![on[r]] = "ACTIVE"]
      BY <1>7, <2>1 DEF StoreConnection, ManagementOnly
    <3> QED
      BY <3>1 DEF ConnectedHasCredential, RowTypes
  <2> QED
    BY <1>1, <1>7, <2>1 DEF StoreConnection, ManagementOnly
<1>8. CASE Release(r)
  <2>1. CASE owner = on[r]
    <3>1. /\ status' = [status EXCEPT ![on[r]] = "DISCONNECTED"]
          /\ UNCHANGED <<credential, operated>>
      BY <1>8, <2>1 DEF Release, ManagementOnly
    <3> QED
      BY <3>1 DEF ConnectedHasCredential, RowTypes
  <2> QED
    BY <1>1, <1>8, <2>1 DEF Release, ManagementOnly
<1>9. CASE Sever(r)
  BY <1>2, <1>9 DEF Sever, ManagementOnly, ConnectionStatuses
<1>10. ASSUME NEW c \in Connections, Connect(r, c) \/ Disconnect(r, c)
       PROVE  ConnectedHasCredential'
  BY <1>1, <1>10 DEF Connect, Disconnect, ManagementOnly
<1> QED
  BY <1>3, <1>4, <1>5, <1>6, <1>7, <1>8, <1>9, <1>10 DEF Manage

\* What only the requests' own steps change.
LEMMA InboundStays ==
  ASSUME InboundTypes, OneDispatch, ProcessedWasDispatched, UNCHANGED <<inboundRows, fixed>>
  PROVE  InboundTypes' /\ OneDispatch' /\ ProcessedWasDispatched'
BY DEF InboundTypes, OneDispatch, ProcessedWasDispatched, inboundRows, fixed, Dated

LEMMA OutboundStays ==
  ASSUME OutboundTypes, AttemptsInTurn, UNCHANGED outboundRows,
         \A q \in Requests : stage'[q] = "waiting" => stage[q] = "waiting"
  PROVE  OutboundTypes' /\ AttemptsInTurn'
<1>1. UNCHANGED <<attempt, ledger, acted>>
  BY DEF outboundRows
<1>2. ASSUME NEW q \in Requests
      PROVE  Tried(q)'
  <2>1. Tried(q)
    BY DEF AttemptsInTurn
  <2> QED
    BY <1>1, <2>1 DEF Tried
<1> QED
  BY <1>1, <1>2 DEF OutboundTypes, AttemptsInTurn

\* The other requests know what they knew.
LEMMA OthersKnow ==
  ASSUME RequestsKnown, NEW r \in Requests, Known(r)',
         \A q \in Requests \ {r} :
           stage'[q] = stage[q] /\ event'[q] = event[q] /\ server'[q] = server[q]
           /\ result'[q] = result[q] /\ attempt'[q] = attempt[q]
  PROVE  RequestsKnown'
BY DEF RequestsKnown, Known

\* A request that returns, or only manages, has no event and no attempt before it.
LEMMA RestKnown ==
  ASSUME RequestsKnown, NEW r \in Requests, UNCHANGED outboundRows, event'[r] = Nothing,
         stage'[r] \in Managing \cup {"done"}
  PROVE  Known(r)'
<1>1. stage'[r] \notin Inbound \cup Outbound \cup {"idle"}
  BY StageNames
<1> QED
  BY <1>1, StageNames DEF Known, Outbound

LEMMA ManageKeeps ==
  ASSUME IntegrationInv, NEW r \in Requests, Manage(r)
  PROVE  IntegrationInv'
<1>0. /\ RowTypes /\ InboundTypes /\ OutboundTypes /\ RequestTypes /\ FixedTypes
      /\ IntegrationTypeOK /\ RequestsKnown /\ AttemptsInTurn /\ EventsTraced
      /\ ConnectedHasCredential /\ OneDispatch /\ ProcessedWasDispatched
  BY Types DEF IntegrationInv
<1>1. Managed(r)
  BY <1>0, ManageMoves
<1>2. /\ UNCHANGED <<inboundRows, outboundRows, fixed>> /\ operated' \subseteq Connections
      /\ RowTypes'
  BY <1>0, <1>1 DEF Managed, ManagementOnly, FixedTypes
<1>3. PICK s \in Managing \cup {"done"} : Moves(r, s) /\ event'[r] = Nothing
  BY <1>1 DEF Managed
<1>4. stage'[r] = s /\ s # "waiting" /\ s \notin {"looked", "persisted"} /\ RequestTypes'
  BY <1>3 DEF Moves, Managing
<1>5. \A q \in Requests \ {r} :
        stage'[q] = stage[q] /\ event'[q] = event[q] /\ server'[q] = server[q]
        /\ result'[q] = result[q] /\ attempt'[q] = attempt[q]
  BY <1>2, <1>3 DEF Moves, outboundRows
<1>6. InboundTypes' /\ OneDispatch' /\ ProcessedWasDispatched'
  BY <1>0, <1>2, InboundStays
<1>7. OutboundTypes' /\ AttemptsInTurn'
  BY <1>0, <1>2, <1>4, <1>5, OutboundStays
<1>8. RequestsKnown'
  BY <1>0, <1>2, <1>3, <1>4, <1>5, RestKnown, OthersKnow
<1>9. EventsTraced'
  <2>1. \A q \in Requests :
          \/ event'[q] = Nothing
          \/ event'[q] = event[q] /\ (Committed(q)' => Committed(q))
    BY <1>3, <1>5 DEF Committed
  <2> QED
    BY <1>0, <1>2, <2>1, TraceStays DEF fixed
<1>10. FixedTypes'
  BY <1>0, <1>2 DEF FixedTypes, fixed
<1>11. IntegrationTypeOK'
  BY <1>2, <1>4, <1>6, <1>7, <1>10 DEF IntegrationTypeOK, RowTypes, InboundTypes, OutboundTypes, RequestTypes, FixedTypes
<1>12. ConnectedHasCredential'
  BY <1>0, ManageUsable
<1> QED
  BY <1>6, <1>7, <1>8, <1>9, <1>11, <1>12 DEF IntegrationInv

LEMMA ExecuteKeeps ==
  ASSUME IntegrationInv, NEW r \in Requests, Execute(r)
  PROVE  IntegrationInv'
<1>0. /\ RowTypes /\ InboundTypes /\ OutboundTypes /\ RequestTypes /\ FixedTypes
      /\ IntegrationTypeOK /\ RequestsKnown /\ AttemptsInTurn /\ EventsTraced
      /\ ConnectedHasCredential /\ OneDispatch /\ ProcessedWasDispatched
  BY Types DEF IntegrationInv
<1>1. Executed(r)
  BY <1>0, ExecuteMoves
<1>2. /\ RowTypes' /\ OutboundTypes' /\ RequestTypes'
      /\ UNCHANGED <<inboundRows, fixed, operated, credential>>
      /\ \A c \in Connections : status'[c] = "CONNECTED" => status[c] = "CONNECTED"
      /\ Known(r)' /\ Tried(r)'
  BY <1>1 DEF Executed
<1>3. \A q \in Requests \ {r} :
        stage'[q] = stage[q] /\ event'[q] = event[q] /\ server'[q] = server[q]
        /\ result'[q] = result[q] /\ attempt'[q] = attempt[q] /\ ledger'[q] = ledger[q]
  BY <1>1 DEF Executed
<1>4. \/ event'[r] = Nothing /\ stage'[r] \notin Inbound
      \/ event'[r] = event[r] /\ stage'[r] = stage[r]
  BY <1>1 DEF Executed
<1>5. InboundTypes' /\ OneDispatch' /\ ProcessedWasDispatched'
  BY <1>0, <1>2, InboundStays
<1>6. RequestsKnown'
  BY <1>0, <1>2, <1>3, OthersKnow
<1>7. AttemptsInTurn'
  <2>1. ASSUME NEW q \in Requests, q # r
        PROVE  Tried(q)'
    <3>1. Tried(q)
      BY <1>0 DEF AttemptsInTurn
    <3>2. stage'[q] = stage[q] /\ attempt'[q] = attempt[q] /\ ledger'[q] = ledger[q]
      BY <1>3, <2>1
    <3> QED
      BY <3>1, <3>2 DEF Tried
  <2> QED
    BY <1>2, <2>1 DEF AttemptsInTurn
<1>8. EventsTraced'
  <2>1. \A q \in Requests :
          \/ event'[q] = Nothing
          \/ event'[q] = event[q] /\ (Committed(q)' => Committed(q))
    BY <1>3, <1>4 DEF Committed
  <2> QED
    BY <1>0, <1>2, <2>1, TraceStays DEF fixed
<1>9. FixedTypes'
  BY <1>0, <1>2 DEF FixedTypes, fixed
<1>10. IntegrationTypeOK'
  BY <1>2, <1>5, <1>9 DEF IntegrationTypeOK, RowTypes, InboundTypes, OutboundTypes, RequestTypes, FixedTypes
<1>11. ConnectedHasCredential'
  BY <1>0, <1>2 DEF ConnectedHasCredential
<1> QED
  BY <1>5, <1>6, <1>7, <1>8, <1>10, <1>11 DEF IntegrationInv

LEMMA DeliverKeeps ==
  ASSUME IntegrationInv, NEW r \in Requests, Deliver(r)
  PROVE  IntegrationInv'
<1>0. /\ RowTypes /\ InboundTypes /\ OutboundTypes /\ RequestTypes /\ FixedTypes
      /\ IntegrationTypeOK /\ RequestsKnown /\ AttemptsInTurn /\ EventsTraced
      /\ ConnectedHasCredential /\ OneDispatch /\ ProcessedWasDispatched
  BY Types DEF IntegrationInv
<1>1. Delivered(r)
  BY <1>0, DeliverMoves
<1>2. /\ RequestTypes' /\ InboundTypes'
      /\ UNCHANGED <<rows, outboundRows, fixed, operated>>
      /\ Known(r)' /\ stage'[r] # "waiting"
  BY <1>1 DEF Delivered
<1>3. \A q \in Requests \ {r} :
        stage'[q] = stage[q] /\ event'[q] = event[q] /\ server'[q] = server[q]
        /\ result'[q] = result[q] /\ attempt'[q] = attempt[q]
  BY <1>1 DEF Delivered, outboundRows
<1>4. EventsTraced' /\ OneDispatch' /\ ProcessedWasDispatched'
  BY <1>0, DeliverTraces
<1>5. OutboundTypes' /\ AttemptsInTurn'
  BY <1>0, <1>2, <1>3, OutboundStays
<1>6. RequestsKnown'
  BY <1>0, <1>2, <1>3, OthersKnow
<1>7. RowTypes' /\ FixedTypes' /\ ConnectedHasCredential'
  BY <1>0, <1>2 DEF RowTypes, FixedTypes, ConnectedHasCredential, rows, fixed
<1>8. IntegrationTypeOK'
  BY <1>2, <1>5, <1>7 DEF IntegrationTypeOK, RowTypes, InboundTypes, OutboundTypes, RequestTypes, FixedTypes
<1> QED
  BY <1>4, <1>5, <1>6, <1>7, <1>8 DEF IntegrationInv

LEMMA CrashKeeps ==
  ASSUME IntegrationInv, NEW r \in Requests, Crash(r)
  PROVE  IntegrationInv'
<1>0. /\ RowTypes /\ InboundTypes /\ OutboundTypes /\ RequestTypes /\ FixedTypes
      /\ IntegrationTypeOK /\ RequestsKnown /\ AttemptsInTurn /\ EventsTraced
      /\ ConnectedHasCredential /\ OneDispatch /\ ProcessedWasDispatched
  BY Types DEF IntegrationInv
<1>1. EndRequest(r) /\ UNCHANGED <<rows, inboundRows, outboundRows, fixed, operated>>
  BY DEF Crash
<1>2. Moves(r, "done") /\ event'[r] = Nothing
  BY <1>0, <1>1, Ends
<1>3. stage'[r] = "done" /\ RequestTypes'
  BY <1>2 DEF Moves
<1>4. \A q \in Requests \ {r} :
        stage'[q] = stage[q] /\ event'[q] = event[q] /\ server'[q] = server[q]
        /\ result'[q] = result[q] /\ attempt'[q] = attempt[q]
  BY <1>1, <1>2 DEF Moves, outboundRows
<1>5. InboundTypes' /\ OneDispatch' /\ ProcessedWasDispatched'
  BY <1>0, <1>1, InboundStays
<1>6. OutboundTypes' /\ AttemptsInTurn'
  BY <1>0, <1>1, <1>3, <1>4, OutboundStays
<1>7. RequestsKnown'
  BY <1>0, <1>1, <1>2, <1>3, <1>4, RestKnown, OthersKnow
<1>8. EventsTraced'
  <2>1. \A q \in Requests :
          \/ event'[q] = Nothing
          \/ event'[q] = event[q] /\ (Committed(q)' => Committed(q))
    BY <1>2, <1>4 DEF Committed
  <2> QED
    BY <1>0, <1>1, <2>1, TraceStays DEF fixed
<1>9. RowTypes' /\ FixedTypes' /\ ConnectedHasCredential'
  BY <1>0, <1>1 DEF RowTypes, FixedTypes, ConnectedHasCredential, rows, fixed
<1>10. IntegrationTypeOK'
  BY <1>3, <1>5, <1>6, <1>9 DEF IntegrationTypeOK, RowTypes, InboundTypes, OutboundTypes, RequestTypes, FixedTypes
<1> QED
  BY <1>5, <1>6, <1>7, <1>8, <1>9, <1>10 DEF IntegrationInv

LEMMA ForgetKeeps ==
  ASSUME IntegrationInv, NEW e \in Events, Forget(e)
  PROVE  IntegrationInv'
<1>0. /\ RowTypes /\ InboundTypes /\ OutboundTypes /\ RequestTypes /\ FixedTypes
      /\ IntegrationTypeOK /\ RequestsKnown /\ AttemptsInTurn /\ EventsTraced
      /\ ConnectedHasCredential /\ OneDispatch /\ ProcessedWasDispatched
  BY Types DEF IntegrationInv
<1>1. /\ UNCHANGED <<rows, outboundRows, fixed, request, operated>>
      /\ UNCHANGED <<inbox, dispatched, overlapped, rolledBack>>
      /\ \A r \in Requests : event[r] # e
  BY DEF Forget
<1>2. /\ \A s \in Servers : remembered'[s] \subseteq remembered[s]
      /\ remembered' \in [Servers -> SUBSET Events]
      /\ recent' \subseteq recent /\ recent \subseteq recent' \cup {e}
  BY <1>0 DEF Forget, InboundTypes
<1>3. RowTypes' /\ OutboundTypes' /\ RequestTypes' /\ FixedTypes' /\ ConnectedHasCredential'
  BY <1>0, <1>1
  DEF RowTypes, OutboundTypes, RequestTypes, FixedTypes, ConnectedHasCredential, rows,
      outboundRows, fixed, request
<1>4. InboundTypes' /\ OneDispatch' /\ ProcessedWasDispatched'
  BY <1>0, <1>1, <1>2 DEF InboundTypes, OneDispatch, ProcessedWasDispatched, fixed, Dated
<1>5. RequestsKnown' /\ AttemptsInTurn'
  BY <1>0, <1>1 DEF RequestsKnown, Known, AttemptsInTurn, Tried, request, outboundRows
<1>6. ASSUME NEW x \in Events
      PROVE  Traced(x)'
  <2>1. Traced(x)
    BY <1>0 DEF EventsTraced
  <2>2. UNCHANGED <<event, stage, nature>>
    BY <1>1 DEF request, fixed
  <2>3. \A r \in Requests : event'[r] = x /\ Committed(r)' /\ dispatched'[x] > 0 =>
          x \in overlapped' /\ (x \in Dated' => x \in recent')
    BY <1>1, <1>2, <2>1, <2>2 DEF Traced, Committed, Dated
  <2> QED
    BY <1>1, <1>2, <2>1, <2>2, <2>3 DEF Traced
<1>7. IntegrationTypeOK'
  BY <1>3, <1>4 DEF IntegrationTypeOK, RowTypes, InboundTypes, OutboundTypes, RequestTypes, FixedTypes
<1> QED
  BY <1>3, <1>4, <1>5, <1>6, <1>7 DEF IntegrationInv, EventsTraced

LEMMA IntegrationStarts ==
  ASSUME IntegrationInit
  PROVE  IntegrationInv
<1>1. MaxAttempts \in Nat \ {0} /\ Nothing \notin Events
  BY IntegrationAssumption DEF IntegrationAssumption
<1>2. PICK C \in SUBSET Connections :
        /\ status = [c \in Connections |-> IF c \in C THEN "CONNECTED" ELSE Nothing]
        /\ credential = [c \in Connections |-> IF c \in C THEN "ACTIVE" ELSE Nothing]
        /\ owner \in IF C = {} THEN {Nothing} ELSE C
  BY DEF IntegrationInit
<1>3. RowTypes
  BY <1>2 DEF RowTypes, ConnectionStatuses
<1>4. InboundTypes /\ OutboundTypes /\ RequestTypes /\ FixedTypes
  <2>1. InboundTypes
    BY DEF IntegrationInit, InboundTypes
  <2>2. OutboundTypes
    BY <1>1 DEF IntegrationInit, OutboundTypes
  <2>3. RequestTypes
    BY StageNames DEF IntegrationInit, RequestTypes
  <2> QED
    BY <2>1, <2>2, <2>3 DEF IntegrationInit, FixedTypes
<1>5. IntegrationTypeOK
  BY <1>3, <1>4, Types
<1>6. RequestsKnown
  BY StageNames DEF IntegrationInit, RequestsKnown, Known, Outbound
<1>7. AttemptsInTurn
  <2>1. \A r \in Requests, a \in Attempts : ledger[r][a] = Nothing /\ attempt[r] = 0
    BY DEF IntegrationInit
  <2>2. \A r \in Requests : stage[r] # "waiting"
    BY DEF IntegrationInit
  <2> QED
    BY <1>1, <2>1, <2>2 DEF AttemptsInTurn, Tried, Attempts
<1>8. EventsTraced
  BY <1>1 DEF IntegrationInit, EventsTraced, Traced
<1>9. ConnectedHasCredential
  BY <1>2, NothingIsNoStatus DEF ConnectedHasCredential, ConnectionStatuses
<1>10. OneDispatch /\ ProcessedWasDispatched
  BY NothingIsNoStatus DEF IntegrationInit, OneDispatch, ProcessedWasDispatched, InboxStatuses
<1> QED
  BY <1>5, <1>6, <1>7, <1>8, <1>9, <1>10 DEF IntegrationInv

LEMMA IntegrationInductive == IntegrationSpec => []IntegrationInv
<1>1. IntegrationInv /\ [IntegrationNext]_integrationVars => IntegrationInv'
  <2> SUFFICES ASSUME IntegrationInv, [IntegrationNext]_integrationVars
               PROVE  IntegrationInv'
    OBVIOUS
  <2>1. CASE IntegrationNext
    BY <2>1, ManageKeeps, ExecuteKeeps, DeliverKeeps, CrashKeeps, ForgetKeeps DEF IntegrationNext
  <2>2. CASE UNCHANGED integrationVars
    BY <2>2
    DEF integrationVars, rows, inboundRows, outboundRows, fixed, request, IntegrationInv,
        IntegrationTypeOK, RequestsKnown, Known, AttemptsInTurn, Tried, EventsTraced, Traced,
        Committed, Dated, ConnectedHasCredential, OneDispatch, ProcessedWasDispatched
  <2> QED
    BY <2>1, <2>2
<1> QED
  BY <1>1, IntegrationStarts, PTL DEF IntegrationSpec

-----------------------------------------------------------------------------
\* Every row of a connection, its credential, the inbox and the ledger, and every request
\* of the pipelines, is in one of its shapes.
THEOREM IntegrationTypes == IntegrationSpec => []IntegrationTypeOK
<1>1. IntegrationInv => IntegrationTypeOK
  BY DEF IntegrationInv
<1> QED
  BY <1>1, IntegrationInductive, PTL

\* A connection shown as CONNECTED has an ACTIVE credential, unless an operator changed
\* it, for any number of requests that connect, disconnect and execute at once
\* (IntegrationManagementService, executeCapability).
THEOREM ConnectedUsable == IntegrationSpec => []ConnectedHasCredential
<1>1. IntegrationInv => ConnectedHasCredential
  BY DEF IntegrationInv
<1> QED
  BY <1>1, IntegrationInductive, PTL

\* Whatever the number of attempts, one is followed by another only where the ledger left
\* open what became of it (executeCapabilityWithRetry).
THEOREM OnlyUnknownRepeated == IntegrationSpec => []RepeatsOnlyUnknown
<1>1. IntegrationInv => RepeatsOnlyUnknown
  <2> SUFFICES ASSUME IntegrationInv, NEW r \in Requests, NEW a \in acted[r],
                      NEW b \in Attempts, a < b, ledger[r][b] # Nothing
               PROVE  ledger[r][a] \in {"retryable", "TIMED_OUT"}
    BY DEF RepeatsOnlyUnknown
  <2>1. a \in Attempts /\ attempt[r] \in Nat /\ Tried(r)
    BY DEF IntegrationInv, IntegrationTypeOK, AttemptsInTurn
  <2>2. a < attempt[r]
    BY <2>1 DEF Tried, Attempts
  <2> QED
    BY <2>1, <2>2 DEF Tried, Unknown
<1> QED
  BY <1>1, IntegrationInductive, PTL

\* However often an event is delivered, and on however many servers at once, the rules see
\* it once; again only without a time of its own and when deliveries overlapped
\* (processInboundWebhook, ingestAutomationEvent).
THEOREM DispatchedOnce == IntegrationSpec => []OneDispatch
<1>1. IntegrationInv => OneDispatch
  BY DEF IntegrationInv
<1> QED
  BY <1>1, IntegrationInductive, PTL

\* An event that is PROCESSED has reached the rules, unless a dispatch of it was rolled
\* back and a server's cache remembered it (checkAndRecordIngestionDedupe).
THEOREM ProcessedReachedRules == IntegrationSpec => []ProcessedWasDispatched
<1>1. IntegrationInv => ProcessedWasDispatched
  BY DEF IntegrationInv
<1> QED
  BY <1>1, IntegrationInductive, PTL
=============================================================================
