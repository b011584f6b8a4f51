------------------------------ MODULE OrderBook ------------------------------
(***************************************************************************)
(* The state the trading jobs share: the Firestore `orders` collection     *)
(* (src/store/repo.py), the broker behind the Toss API as the engine sees  *)
(* it, the kill switch, and the calendar.  The jobs themselves are modules *)
(* of their own: Executor (trade.py) and Reconciler (trade.py --reconcile).*)
(***************************************************************************)
EXTENDS Integers, Sequences, FiniteSets

CONSTANTS
  Batch,     \* the (strategy, symbol) keys of the signals one session's
             \* strategies produce, in the order evaluate() returns them
  Prices,    \* prices an order body can carry
  Qty,       \* shares an order asks for
  MaxClock,  \* bound: half-days the clock advances
  NoRow,     \* no document with this client_order_id
  NoOrder    \* the broker has no order with this client_order_id

ASSUME BatchIsFinite == Batch \in Seq(STRING)
ASSUME SomeSignal == Batch # <<>>
ASSUME SomePrice == Prices # {}
ASSUME QtyIsPositive == Qty \in Nat \ {0}
ASSUME ClockIsBounded == MaxClock \in Nat

VARIABLES
  orders,    \* client_order_id -> row of the `orders` collection
  broker,    \* client_order_id -> the order the broker holds under that id
  late,      \* requests whose caller stopped waiting; they may still arrive
  killed,    \* is the kill switch engaged?
  clock      \* half-days since the first session's open

bookVars == <<orders, broker, late, killed, clock>>

(***************************************************************************)
(* Calendar.  A session's run starts at 23:35 KST: its retry may run after *)
(* midnight and still act on the same session, so the wall-clock date      *)
(* moves half a step before the session date does.                         *)
(***************************************************************************)
SessionDate == clock \div 2
WallDate    == (clock + 1) \div 2

Sigs     == 1..Len(Batch)
Keys     == {Batch[i] : i \in Sigs}
Sessions == 0..(MaxClock \div 2)
Days     == 0..((MaxClock + 1) \div 2)

\* make_client_order_id: strategy-symbol-day-seq.
Slots == Days \X Keys \X Sigs

\* What a POST /orders body asks for.  `session` and `sig` stand for the
\* symbol, side and size that the signal decided; `price` for its price.
Bodies == [session : Sessions, sig : Sigs, price : Prices]

Requests == [slot : Slots, body : Bodies]

Modes        == {"live", "paper"}
OpenStatuses == {"submitted", "unknown", "partially_filled"}
RestStatuses == {"simulated", "failed", "filled", "canceled", "rejected"}
Statuses     == {"pending"} \cup OpenStatuses \cup RestStatuses

Row == [status   : Statuses,
        mode     : Modes,
        session  : Sessions,
        hasId    : BOOLEAN,     \* order_id, the id Toss assigned, is known
        filled   : 0..Qty,      \* filled_quantity
        bracket  : {"none", "registered", "failed"},   \* oco_status
        incident : BOOLEAN]     \* incident_at is set

OrderStates == {"open", "filled", "canceled", "rejected"}

Order == [body : Bodies, filled : 0..Qty, state : OrderStates]

ASSUME NoRowIsNoRow     == NoRow \notin Row
ASSUME NoOrderIsNoOrder == NoOrder \notin Order

Recorded(s) == orders[s] # NoRow
Held(s)     == broker[s] # NoOrder

-----------------------------------------------------------------------------
(***************************************************************************)
(* Store operations on `orders`.                                           *)
(***************************************************************************)
FreshRow(mode, session) ==
  [status |-> "pending", mode |-> mode, session |-> session, hasId |-> FALSE,
   filled |-> 0, bracket |-> "none", incident |-> FALSE]

\* save_order: doc.create(), whose AlreadyExists is swallowed.
SaveOrder(s, mode, session) ==
  orders' = IF Recorded(s) THEN orders
            ELSE [orders EXCEPT ![s] = FreshRow(mode, session)]

\* update_order with the fields _finish passes: the status, and the order id
\* when Toss returned one.
UpdateOrder(s, status, gotId) ==
  orders' = [orders EXCEPT ![s].status = status,
                           ![s].hasId  = @ \/ gotId]

\* daily_usage(session_date): every row of the session counts, whatever came
\* of it, except one the broker's history calls rejected.
Usage(session) ==
  Cardinality({s \in Slots : /\ Recorded(s)
                             /\ orders[s].session = session
                             /\ orders[s].status # "rejected"})

\* Mutated form of PendingOrders: what is partly filled is not asked about again.
PendingNotPartly ==
  {s \in Slots : /\ Recorded(s)
                 /\ orders[s].mode = "live"
                 /\ orders[s].status \in {"submitted", "unknown"}}

\* pending_orders(mode="live").
PendingOrders ==
  {s \in Slots : /\ Recorded(s)
                 /\ orders[s].mode = "live"
                 /\ orders[s].status \in OpenStatuses}

-----------------------------------------------------------------------------
(***************************************************************************)
(* The broker (external): clientOrderId is its idempotency key.  The same  *)
(* body under a known id is answered with the order already held, another  *)
(* body with idempotency-key-conflict.                                     *)
(***************************************************************************)
Accepts(s, body)   == Held(s) => broker[s].body = body
Conflicts(s, body) == Held(s) /\ broker[s].body # body

Accept(s, body) ==
  broker' = IF Held(s) THEN broker
            ELSE [broker EXCEPT ![s] = [body |-> body, filled |-> 0, state |-> "open"]]

\* The market fills an open order in part or in full; it may end with less.
BrokerFills(s) ==
  /\ Held(s)
  /\ broker[s].state = "open"
  /\ \E q \in (broker[s].filled + 1)..Qty :
       broker' = [broker EXCEPT ![s].filled = q,
                                ![s].state  = IF q = Qty THEN "filled" ELSE "open"]
  /\ UNCHANGED <<orders, late, killed, clock>>

BrokerEnds(s) ==
  /\ Held(s)
  /\ broker[s].state = "open"
  /\ \E end \in {"canceled"} \cup (IF broker[s].filled = 0 THEN {"rejected"} ELSE {}) :
       broker' = [broker EXCEPT ![s].state = end]
  /\ UNCHANGED <<orders, late, killed, clock>>

\* A request nobody waits for any more reaches the broker after all.  One that
\* never does is lost.
LateArrival(m) ==
  /\ m \in late
  /\ late' = late \ {m}
  /\ IF Accepts(m.slot, m.body) THEN Accept(m.slot, m.body) ELSE UNCHANGED broker
  /\ UNCHANGED <<orders, killed, clock>>

-----------------------------------------------------------------------------
\* The dashboard's PAUSE and RESUME, or a person touching the file.
PullSwitch ==
  /\ killed' = ~killed
  /\ UNCHANGED <<orders, broker, late, clock>>

Tick ==
  /\ clock < MaxClock
  /\ clock' = clock + 1
  /\ UNCHANGED <<orders, broker, late, killed>>

BookInit ==
  /\ orders = [s \in Slots |-> NoRow]
  /\ broker = [s \in Slots |-> NoOrder]
  /\ late   = {}
  /\ killed = FALSE
  /\ clock  = 0

BookTypeOK ==
  /\ orders \in [Slots -> Row \cup {NoRow}]
  /\ broker \in [Slots -> Order \cup {NoOrder}]
  /\ late \subseteq Requests
  /\ killed \in BOOLEAN
  /\ clock \in 0..MaxClock
=============================================================================
