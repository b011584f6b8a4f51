-------------------------- MODULE ReconcilerProofs --------------------------
(***************************************************************************)
(* The reconciler for any number of passes, orders and partial fills, with *)
(* passes that overlap, repeat or are killed between any two writes.       *)
(***************************************************************************)
EXTENDS Reconciler, TLAPS

USE BatchIsFinite, SomeSignal, SomePrice, QtyIsPositive, ClockIsBounded, NoRowIsNoRow,
    NoOrderIsNoOrder, FlagsAreBoolean, KeysAreKeys, NoQtyIsNoQty

-----------------------------------------------------------------------------
(* The inductive invariant. *)

\* Where a pass holds a row and what the broker answered about it.
Settling == {"fill", "update", "stamp", "arm", "place", "mark", "note"}
Active   == Settling \cup {"poll", "hold"}

\* An order the broker holds is filled when all its shares are bought, and rejected
\* only with none of them bought.
BookIsSound ==
  \A s \in Slots : Held(s) =>
    /\ broker[s].state = "filled" <=> broker[s].filled = Qty
    /\ broker[s].state = "rejected" => broker[s].filled = 0

\* What a pass has read of an order stays true of it for as long as it is acted on.
AnswerIsTrue ==
  \A p \in Passes :
    /\ pc[p] \notin Settling => seen[p] = NoAnswer
    /\ seen[p] # NoAnswer => Held(at[p])
    /\ seen[p].filled # NoQty => seen[p].filled <= broker[at[p]].filled
    /\ seen[p].word = "complete" => broker[at[p]].state = "filled"
    /\ seen[p].word \in {"cancel", "cancelComplete"} => broker[at[p]].state = "canceled"
    /\ seen[p].word = "reject" => broker[at[p]].state = "rejected"
    /\ seen[p].remaining = 0 => broker[at[p]].state \in {"filled", "canceled"}

\* A snapshot is of rows that were open, that the collection has still, and whose
\* fills were saved.
SnapshotOfRows ==
  \A p \in Passes, s \in Slots : todo[p][s] # NoRow =>
    /\ Recorded(s)
    /\ todo[p][s].status \in OpenStatuses
    /\ todo[p][s].filled <= fills[s]

\* A bracket is for a quantity that was read, and its own row is written first.
ArmsAFill ==
  \A p \in Passes :
    /\ pc[p] \in {"arm", "place"} => seen[p].filled # NoQty
    /\ pc[p] \in {"place", "mark"} => oco[at[p]] # NoRow

\* The fill rows of an order are written before its row says so.
FillIsSaved ==
  \A p \in Passes :
    pc[p] = "update" /\ NewlyFilled(p) > 0 => fills[at[p]] >= seen[p].filled

\* Passes that never overlapped run one at a time, ...
OnePass ==
  alone => \A p, q \in Passes : pc[p] \in Active /\ pc[q] \in Active => p = q

\* ... each with a snapshot that is still what the collection holds, ...
SnapshotIsFresh ==
  alone => \A p \in Passes, s \in Slots :
    /\ pc[p] \in Active
    /\ todo[p][s] # NoRow
    /\ s = at[p] => pc[p] \in {"poll", "fill", "update"}
    => orders[s].status = todo[p][s].status /\ orders[s].filled = todo[p][s].filled

\* ... and, unless one was cut off, no fill is written twice.
FillsAreExact ==
  alone /\ intact => \A p \in Passes :
    pc[p] = "update" => fills[at[p]] = orders[at[p]].filled + NewlyFilled(p)

IInv == /\ TypeOK /\ BookIsSound /\ AnswerIsTrue /\ SnapshotOfRows /\ ArmsAFill /\ FillIsSaved
        /\ OnePass /\ SnapshotIsFresh /\ FillsAreExact
        /\ FillsAddUp /\ SettledIsTrue /\ BracketWithinFill

-----------------------------------------------------------------------------
(* Type correctness. *)

\* The variables of the passes, and those of the fills and the brackets.
PassesTyped ==
  /\ pc \in [Passes -> Stopped \cup Active]
  /\ todo \in [Passes -> [Slots -> Row \cup {NoRow}]]
  /\ at \in [Passes -> Slots]
  /\ seen \in [Passes -> Answers]
  /\ armed \in [Passes -> BOOLEAN] /\ found \in [Passes -> BOOLEAN]
  /\ \A p \in Passes : pc[p] \in Settling => todo[p][at[p]] # NoRow

ExitsTyped ==
  /\ fills \in [Slots -> Nat]
  /\ oco \in [Slots -> OcoRow \cup {NoRow}]
  /\ bracket \in [Slots -> 0..Qty]

\* TypeOK is its parts.
LEMMA TypeParts ==
  TypeOK <=> BookTypeOK /\ PassesTyped /\ ExitsTyped /\ alone \in BOOLEAN /\ intact \in BOOLEAN
<1>1. PassesTyped => \A p \in Passes : at[p] \in Slots /\ pc[p] \in Stopped \cup Active
  BY DEF PassesTyped
<1>2. (at \in [Passes -> Slots]) => \A p \in Passes : at[p] \in Left(p) <=> todo[p][at[p]] # NoRow
  BY DEF Left
<1>3. ASSUME NEW x \in Stopped \cup Active
      PROVE  x \in Settling <=> x \notin Stopped \cup {"poll", "hold"}
  BY DEF Stopped, Active, Settling
<1>4. Stopped \cup {"poll", "fill", "update", "stamp", "arm", "place", "mark", "note", "hold"}
        = Stopped \cup Active
  BY DEF Active, Settling
<1>. QED
  BY <1>1, <1>2, <1>3, <1>4 DEF TypeOK, PassesTyped, ExitsTyped

\* It is so after a step as well.
LEMMA TypePartsNext ==
  (BookTypeOK /\ PassesTyped /\ ExitsTyped /\ alone \in BOOLEAN /\ intact \in BOOLEAN => TypeOK)'
  BY TypeParts, PTL

\* What a pass that settles nothing carries is typed.
LEMMA DefaultsTyped ==
  /\ NoSlot \in Slots
  /\ NoTodo \in [Slots -> Row \cup {NoRow}]
  /\ NoAnswer \in Answers
<1>1. Len(Batch) \in Nat /\ Len(Batch) >= 1 /\ Batch[1] \in Keys
  BY DEF Sigs, Keys
<1>2. 0 \in Days
  BY DEF Days
<1>3. <<0, Batch[1], 1>> \in Slots
  BY <1>1, <1>2 DEF Slots, Sigs
<1>4. NoSlot \in Slots
  BY <1>3 DEF NoSlot
<1>. QED
  BY <1>4 DEF NoTodo, NoAnswer, Answers, Words

\* The row being settled, and what the broker's answer makes of it.
LEMMA Reading ==
  ASSUME TypeOK, NEW p \in Passes, pc[p] \in Settling
  PROVE  /\ at[p] \in Slots
         /\ todo[p][at[p]] # NoRow
         /\ Row0(p) \in Row
         /\ Row0(p).filled \in 0..Qty
         /\ seen[p] \in Answers
         /\ NewlyFilled(p) \in Nat
         /\ NewlyFilled(p) > 0 => /\ seen[p].filled \in 0..Qty
                                  /\ seen[p].filled = Row0(p).filled + NewlyFilled(p)
         /\ NewlyFilled(p) = 0 => ~Reports(seen[p], Row0(p).filled)
<1>1. /\ at[p] \in Slots /\ todo[p][at[p]] # NoRow /\ todo[p] \in [Slots -> Row \cup {NoRow}]
      /\ seen[p] \in Answers
  BY TypeParts DEF PassesTyped
<1>2. Row0(p) \in Row
  BY <1>1 DEF Row0
<1>3. Row0(p).filled \in 0..Qty
  BY <1>2 DEF Row
<1>4. seen[p].filled \in 0..Qty \cup {NoQty}
  BY <1>1 DEF Answers
<1>. QED
  BY <1>1, <1>2, <1>3, <1>4 DEF NewlyFilled, Reports

\* The statuses inferred are a row's, or none.
LEMMA InferredStatus ==
  ASSUME NEW a, NEW exact
  PROVE  InferStatus(a, exact) \in {"same", "filled", "partially_filled", "canceled", "rejected"}
  BY DEF InferStatus

\* A pass that goes on to its next row stays typed ...
LEMMA NextRowTyped ==
  ASSUME TypeOK, NEW p \in Passes, NextRow(p), found' \in [Passes -> BOOLEAN]
  PROVE  PassesTyped'
<1>1. "poll" \in Active /\ "poll" \notin Settling
  BY DEF Active, Settling
<1>. QED
  BY <1>1, DefaultsTyped, TypeParts DEF PassesTyped, NextRow, Goto

\* ... and so does one that ends, ...
LEMMA ExitTyped ==
  ASSUME TypeOK, NEW p \in Passes, NEW how \in {"done", "lost", "dead", "hold"}, Exit(p, how)
  PROVE  PassesTyped'
<1>1. how \in Stopped \cup Active /\ how \notin Settling
  BY DEF Active, Settling, Stopped
<1>. QED
  BY <1>1, DefaultsTyped, TypeParts DEF PassesTyped, Exit, Goto

\* ... and one that stays at its row.
LEMMA MoveTyped ==
  ASSUME TypeOK, NEW p \in Passes, NEW where \in Settling, Goto(p, where), pc[p] \in Settling,
         UNCHANGED <<todo, at, seen, found>>, armed' \in [Passes -> BOOLEAN]
  PROVE  PassesTyped'
  BY TypeParts DEF PassesTyped, Goto, Active

-----------------------------------------------------------------------------
(* What a step does to the broker's book, the rows, the fills and the snapshots. *)

\* The broker forgets no order, takes back no fill and reopens nothing.
BrokerMoves ==
  \A s \in Slots : Held(s) =>
    /\ Held(s)'
    /\ broker'[s].filled >= broker[s].filled
    /\ broker[s].state # "open" => broker'[s].state = broker[s].state

\* Only the environment moves the broker.
LEMMA PassesAsk ==
  ASSUME NEW p \in Passes, Start(p) \/ Raise(p) \/ Crash(p) \/ Settle(p)
  PROVE  UNCHANGED <<broker, late, clock>>
  BY DEF Start, Raise, Crash, Settle, Unreadable, Missing, Fetch, SaveFill, Update, Stamp,
         Arm, Place, PlaceFails, Mark, Note, Finish, Hold, bookVars

\* What the environment does keeps the book typed and sound, and only moves it on.
LEMMA EnvironmentStep ==
  ASSUME TypeOK, BookIsSound, Environment
  PROVE  BookTypeOK' /\ BookIsSound' /\ BrokerMoves /\ UNCHANGED orders
<1>0. /\ broker \in [Slots -> Order \cup {NoOrder}]
      /\ late \subseteq Requests
      /\ killed \in BOOLEAN
  BY DEF TypeOK, BookTypeOK
<1>1. ASSUME NEW m \in late, LateArrival(m)
      PROVE  BookTypeOK' /\ BookIsSound' /\ BrokerMoves /\ UNCHANGED orders
  <2>1. m.slot \in Slots /\ m.body \in Bodies
    BY <1>0 DEF Requests
  <2>2. [body |-> m.body, filled |-> 0, state |-> "open"] \in Order
    BY <2>1 DEF Order, OrderStates
  <2>0. \A s \in Slots : Held(s) => broker[s].filled \in Int
    BY <1>0 DEF Held, Order
  <2>3. CASE broker' = broker
    BY <1>1, <2>0, <2>3 DEF TypeOK, BookTypeOK, LateArrival, BookIsSound, BrokerMoves, Held
  <2>4. CASE ~Held(m.slot)
             /\ broker' = [broker EXCEPT ![m.slot] = [body |-> m.body, filled |-> 0, state |-> "open"]]
    <3>1. broker' \in [Slots -> Order \cup {NoOrder}]
      BY <1>0, <2>1, <2>2, <2>4
    <3>2. \A s \in Slots : s # m.slot => broker'[s] = broker[s]
      BY <1>0, <2>4
    <3>3. broker'[m.slot] = [body |-> m.body, filled |-> 0, state |-> "open"]
      BY <1>0, <2>1, <2>4
    <3>4. BookIsSound'
      BY <3>2, <3>3 DEF BookIsSound, Held
    <3>5. BrokerMoves
      <4>. SUFFICES ASSUME NEW s \in Slots, Held(s)
                    PROVE  s # m.slot /\ broker[s].filled \in Int
        BY <3>2 DEF BrokerMoves, Held
      <4>. QED  BY <1>0, <2>4 DEF Held, Order
    <3>. QED
      BY <1>1, <3>1, <3>4, <3>5 DEF TypeOK, BookTypeOK, LateArrival
  <2>. QED
    BY <1>1, <2>3, <2>4 DEF LateArrival, Accept
<1>2. ASSUME NEW s \in Slots, BrokerFills(s) \/ BrokerEnds(s)
      PROVE  BookTypeOK' /\ BookIsSound' /\ BrokerMoves /\ UNCHANGED orders
  <2>1. /\ Held(s) /\ broker[s].state = "open" /\ broker[s] \in Order
        /\ broker[s].body \in Bodies /\ broker[s].filled \in 0..Qty
    BY <1>0, <1>2 DEF BrokerFills, BrokerEnds, Held, Order
  <2>2. broker[s].filled < Qty
    BY <2>1 DEF BookIsSound
  <2>3. /\ broker' \in [Slots -> Order \cup {NoOrder}]
        /\ \A r \in Slots : r # s => broker'[r] = broker[r]
        /\ broker'[s] \in Order
        /\ broker'[s].filled >= broker[s].filled
        /\ broker'[s].state = "filled" <=> broker'[s].filled = Qty
        /\ broker'[s].state = "rejected" => broker'[s].filled = 0
    <3>1. ASSUME NEW q \in 0..Qty, NEW end \in OrderStates,
                 broker' = [broker EXCEPT ![s].filled = q, ![s].state = end]
          PROVE  /\ broker' \in [Slots -> Order \cup {NoOrder}]
                 /\ \A r \in Slots : r # s => broker'[r] = broker[r]
                 /\ broker'[s] \in Order /\ broker'[s].filled = q /\ broker'[s].state = end
      BY <1>0, <2>1, <3>1 DEF Order
    <3>2. CASE BrokerFills(s)
      <4>1. PICK q \in (broker[s].filled + 1)..Qty :
              broker' = [broker EXCEPT ![s].filled = q,
                                       ![s].state  = IF q = Qty THEN "filled" ELSE "open"]
        BY <3>2 DEF BrokerFills
      <4>2. q \in 0..Qty /\ q > broker[s].filled
        BY <2>1
      <4> DEFINE end == IF q = Qty THEN "filled" ELSE "open"
      <4>3. end \in OrderStates
        BY DEF OrderStates
      <4>4. /\ broker' \in [Slots -> Order \cup {NoOrder}]
            /\ \A r \in Slots : r # s => broker'[r] = broker[r]
            /\ broker'[s] \in Order /\ broker'[s].filled = q /\ broker'[s].state = end
        BY <3>1, <4>1, <4>2, <4>3
      <4>. QED  BY <4>2, <4>4, <2>1
    <3>3. CASE BrokerEnds(s)
      <4>1. PICK end \in {"canceled", "rejected"} :
              /\ broker' = [broker EXCEPT ![s].state = end]
              /\ end = "rejected" => broker[s].filled = 0
        BY <3>3 DEF BrokerEnds
      <4>2. /\ broker' \in [Slots -> Order \cup {NoOrder}]
            /\ \A r \in Slots : r # s => broker'[r] = broker[r]
            /\ broker'[s] \in Order
            /\ broker'[s].filled = broker[s].filled /\ broker'[s].state = end
        BY <1>0, <2>1, <4>1 DEF Order, OrderStates
      <4>. QED  BY <4>1, <4>2, <2>1, <2>2
    <3>. QED  BY <1>2, <3>2, <3>3
  <2>5. BookIsSound'
    BY <2>3 DEF BookIsSound, Held
  <2>6. ASSUME NEW r \in Slots, Held(r)
        PROVE  broker[r].filled \in Int
    BY <1>0, <2>6 DEF Held, Order
  <2>7. BrokerMoves
    BY <2>1, <2>3, <2>6 DEF BrokerMoves, Held
  <2>. QED
    BY <1>2, <2>3, <2>5, <2>7 DEF TypeOK, BookTypeOK, BrokerFills, BrokerEnds
<1>3. CASE PullSwitch
  <2>1. \A s \in Slots : Held(s) => broker[s].filled \in Int
    BY <1>0 DEF Held, Order
  <2>. QED
    BY <1>3, <2>1 DEF TypeOK, BookTypeOK, PullSwitch, BookIsSound, BrokerMoves, Held
<1>. QED
  BY <1>1, <1>2, <1>3 DEF Environment

\* Nor does anything else.
LEMMA BrokerStep ==
  TypeOK /\ BookIsSound /\ [Next]_vars => BookIsSound' /\ BrokerMoves
<1>. SUFFICES ASSUME TypeOK, BookIsSound, [Next]_vars
              PROVE  BookIsSound' /\ BrokerMoves
  OBVIOUS
<1>1. CASE UNCHANGED broker
  <2>1. \A s \in Slots : Held(s) => broker[s].filled \in Int
    BY DEF TypeOK, BookTypeOK, Held, Order
  <2>. QED
    BY <1>1, <2>1 DEF BookIsSound, BrokerMoves, Held
<1>2. CASE Environment
  BY <1>2, EnvironmentStep
<1>. QED
  BY <1>1, <1>2, PassesAsk DEF Next, vars, bookVars

\* What Update writes: one row, and in it nothing but what the answer says.
LEMMA UpdateWrites ==
  ASSUME TypeOK, SnapshotOfRows, NEW p \in Passes, Update(p)
  PROVE  /\ at[p] \in Slots /\ Recorded(at[p]) /\ pc[p] = "update"
         /\ orders' \in [Slots -> Row \cup {NoRow}]
         /\ orders'[at[p]] # NoRow
         /\ \A s \in Slots : s # at[p] => orders'[s] = orders[s]
         /\ orders'[at[p]].filled = IF NewlyFilled(p) > 0 THEN seen[p].filled ELSE orders[at[p]].filled
         /\ orders'[at[p]].status = IF NewStatus(p) \in {"same", Row0(p).status}
                                    THEN orders[at[p]].status ELSE NewStatus(p)
<1>1. pc[p] = "update" /\ pc[p] \in Settling
  BY DEF Update, Settling
<1>2. /\ at[p] \in Slots /\ todo[p][at[p]] # NoRow
      /\ NewlyFilled(p) > 0 => seen[p].filled \in 0..Qty
  BY <1>1, Reading
<1>3. /\ orders \in [Slots -> Row \cup {NoRow}]
      /\ orders[at[p]] \in Row
      /\ Recorded(at[p])
  BY <1>2 DEF TypeOK, BookTypeOK, SnapshotOfRows, Recorded
<1> DEFINE n == IF NewlyFilled(p) > 0 THEN seen[p].filled ELSE orders[at[p]].filled
           st == IF NewStatus(p) \in {"same", Row0(p).status}
                 THEN orders[at[p]].status ELSE NewStatus(p)
<1>4. n \in 0..Qty
  BY <1>2, <1>3 DEF Row
<1>5. st \in Statuses
  BY <1>3, InferredStatus DEF NewStatus, Row, Statuses, OpenStatuses, RestStatuses
<1>6. PICK named \in BOOLEAN : orders' =
        [orders EXCEPT ![at[p]].hasId = @ \/ named, ![at[p]].filled = n, ![at[p]].status = st]
  BY <1>3 DEF Update, Row
<1>. HIDE DEF n, st
<1>7. orders[at[p]].hasId \/ named \in BOOLEAN
  BY <1>3 DEF Row
<1>8. /\ orders' \in [Slots -> Row \cup {NoRow}]
      /\ orders'[at[p]] \in Row /\ orders'[at[p]].filled = n /\ orders'[at[p]].status = st
      /\ \A s \in Slots : s # at[p] => orders'[s] = orders[s]
  BY <1>2, <1>3, <1>4, <1>5, <1>6, <1>7 DEF Row
<1>. QED
  BY <1>1, <1>2, <1>3, <1>8 DEF Recorded, n, st

\* The rest a pass writes on a row is neither its status nor its filled quantity.
LEMMA MarkWrites ==
  ASSUME TypeOK, SnapshotOfRows, NEW p \in Passes, Stamp(p) \/ Note(p)
  PROVE  /\ orders' \in [Slots -> Row \cup {NoRow}]
         /\ \A s \in Slots : Recorded(s) => /\ orders'[s] # NoRow
                                            /\ orders'[s].status = orders[s].status
                                            /\ orders'[s].filled = orders[s].filled
         /\ \A s \in Slots : ~Recorded(s) => orders'[s] = orders[s]
<1>1. pc[p] \in Settling
  BY DEF Stamp, Note, Settling
<1>2. /\ at[p] \in Slots /\ orders \in [Slots -> Row \cup {NoRow}]
      /\ orders[at[p]] \in Row
  BY <1>1, Reading DEF TypeOK, BookTypeOK, SnapshotOfRows, Recorded
<1>3. CASE orders' = orders
  BY <1>2, <1>3 DEF Recorded
<1>4. CASE orders' = [orders EXCEPT ![at[p]].incident = TRUE]
  <2>1. /\ orders'[at[p]] \in Row
        /\ orders'[at[p]].status = orders[at[p]].status
        /\ orders'[at[p]].filled = orders[at[p]].filled
    BY <1>2, <1>4 DEF Row
  <2>2. /\ orders' \in [Slots -> Row \cup {NoRow}]
        /\ \A s \in Slots : s # at[p] => orders'[s] = orders[s]
    BY <1>2, <1>4, <2>1
  <2>. QED  BY <1>2, <2>1, <2>2 DEF Recorded
<1>5. CASE orders' = [orders EXCEPT ![at[p]].bracket = IF armed[p] THEN "registered" ELSE "failed"]
  <2>1. /\ orders'[at[p]] \in Row
        /\ orders'[at[p]].status = orders[at[p]].status
        /\ orders'[at[p]].filled = orders[at[p]].filled
    BY <1>2, <1>5 DEF Row
  <2>2. /\ orders' \in [Slots -> Row \cup {NoRow}]
        /\ \A s \in Slots : s # at[p] => orders'[s] = orders[s]
    BY <1>2, <1>5, <2>1
  <2>. QED  BY <1>2, <2>1, <2>2 DEF Recorded
<1>. QED
  BY <1>3, <1>4, <1>5 DEF Stamp, Note

\* A row keeps its status and its filled quantity.
RowStays(s) ==
  Recorded(s) => /\ orders'[s].status = orders[s].status
                 /\ orders'[s].filled = orders[s].filled

\* No row is lost, none appears, and only Update moves one on: its own.
LEMMA RowsStep ==
  ASSUME TypeOK, BookIsSound, SnapshotOfRows, [Next]_vars
  PROVE  /\ orders' \in [Slots -> Row \cup {NoRow}]
         /\ \A s \in Slots : Recorded(s) <=> Recorded(s)'
         /\ \/ \A s \in Slots : RowStays(s)
            \/ \E p \in Passes : /\ Update(p)
                                 /\ UNCHANGED history
                                 /\ \A s \in Slots : s # at[p] => RowStays(s)
<1>1. CASE UNCHANGED orders
  BY <1>1 DEF RowStays, Recorded, TypeOK, BookTypeOK
<1>2. ASSUME NEW p \in Passes, Stamp(p) \/ Note(p)
      PROVE  /\ orders' \in [Slots -> Row \cup {NoRow}]
             /\ \A s \in Slots : Recorded(s) <=> Recorded(s)'
             /\ \A s \in Slots : RowStays(s)
  BY <1>2, MarkWrites DEF RowStays, Recorded
<1>3. ASSUME NEW p \in Passes, Update(p)
      PROVE  /\ orders' \in [Slots -> Row \cup {NoRow}]
             /\ \A s \in Slots : Recorded(s) <=> Recorded(s)'
             /\ \A s \in Slots : s # at[p] => RowStays(s)
  BY <1>3, UpdateWrites DEF RowStays, Recorded
<1>4. ASSUME NEW p \in Passes, Start(p) \/ Raise(p) \/ Crash(p) \/ Unreadable(p) \/ Missing(p)
                               \/ Fetch(p) \/ SaveFill(p) \/ Arm(p) \/ Place(p) \/ PlaceFails(p)
                               \/ Mark(p) \/ Finish(p) \/ Hold(p)
      PROVE  UNCHANGED orders
  BY <1>4 DEF Start, Raise, Crash, Unreadable, Missing, Fetch, SaveFill, Arm, Place, PlaceFails,
              Mark, Finish, Hold, bookVars
<1>5. CASE Environment
  BY <1>1, <1>5, EnvironmentStep
<1>6. CASE UNCHANGED vars
  BY <1>1, <1>6 DEF vars, bookVars
<1>. QED
  BY <1>1, <1>2, <1>3, <1>4, <1>5, <1>6 DEF Next, Settle

\* A snapshot loses rows, and is taken anew from the open ones when a pass starts.
LEMMA SnapshotStep ==
  ASSUME TypeOK, [Next]_vars, NEW p \in Passes, NEW s \in Slots, todo'[p][s] # NoRow
  PROVE  \/ todo'[p][s] = todo[p][s]
         \/ Start(p) /\ s \in PendingOrders /\ todo'[p][s] = orders[s]
<1>1. /\ todo \in [Passes -> [Slots -> Row \cup {NoRow}]]
      /\ at \in [Passes -> Slots]
  BY DEF TypeOK
<1>2. ASSUME NEW q \in Passes, Start(q)
      PROVE  \/ todo'[p][s] = todo[p][s]
             \/ Start(p) /\ s \in PendingOrders /\ todo'[p][s] = orders[s]
  <2>1. todo' = [todo EXCEPT ![q] =
                   [r \in Slots |-> IF r \in PendingOrders THEN orders[r] ELSE NoRow]]
    BY <1>2 DEF Start
  <2>2. CASE q = p
    BY <1>1, <1>2, <2>1, <2>2
  <2>3. CASE q # p
    BY <1>1, <2>1, <2>3
  <2>. QED  BY <2>2, <2>3
<1>3. ASSUME NEW q \in Passes, NEW how, Exit(q, how)
      PROVE  todo'[p][s] = todo[p][s]
  BY <1>1, <1>3 DEF Exit, NoTodo
<1>4. ASSUME NEW q \in Passes, NextRow(q)
      PROVE  todo'[p][s] = todo[p][s]
  BY <1>1, <1>4 DEF NextRow
<1>5. ASSUME NEW q \in Passes, Unreadable(q)
      PROVE  todo'[p][s] = todo[p][s]
  <2>1. PICK r \in Slots : todo' = [todo EXCEPT ![q][r] = NoRow]
    BY <1>5 DEF Unreadable, Left
  <2>. QED  BY <1>1, <2>1
<1>6. ASSUME NEW q \in Passes, Missing(q) \/ Fetch(q) \/ SaveFill(q) \/ Arm(q) \/ Place(q)
                               \/ PlaceFails(q) \/ Mark(q)
      PROVE  todo' = todo
  BY <1>6 DEF Missing, Fetch, SaveFill, Arm, Place, PlaceFails, Mark
<1>7. ASSUME NEW q \in Passes, Update(q)
      PROVE  todo' = todo \/ NextRow(q)
  BY <1>7 DEF Update
<1>8. ASSUME NEW q \in Passes, Stamp(q) \/ Note(q)
      PROVE  NextRow(q)
  BY <1>8 DEF Stamp, Note
<1>9. ASSUME NEW q \in Passes, Raise(q) \/ Crash(q) \/ Finish(q) \/ Hold(q)
      PROVE  \E how : Exit(q, how)
  BY <1>9 DEF Raise, Crash, Finish, Hold
<1>10. UNCHANGED vars \/ UNCHANGED passVars => todo' = todo
  BY DEF vars, passVars
<1>. QED
  BY <1>2, <1>3, <1>4, <1>5, <1>6, <1>7, <1>8, <1>9, <1>10 DEF Next, Settle

\* Fill rows are appended, and the row of a bracket once written stays.
LEMMA ExitsStep ==
  ASSUME TypeOK, ArmsAFill, [Next]_vars
  PROVE  /\ ExitsTyped'
         /\ \A s \in Slots : /\ fills'[s] >= fills[s]
                             /\ oco[s] # NoRow => oco'[s] # NoRow
<1>1. ExitsTyped
  BY TypeParts
<1>2. CASE UNCHANGED exitVars
  BY <1>1, <1>2 DEF ExitsTyped, exitVars
<1>3. ASSUME NEW p \in Passes, SaveFill(p)
      PROVE  ExitsTyped' /\ \A s \in Slots : fills'[s] >= fills[s] /\ oco'[s] = oco[s]
  <2>1. at[p] \in Slots /\ NewlyFilled(p) \in Nat
    BY <1>3, Reading DEF SaveFill, Settling
  <2>2. fills' = [fills EXCEPT ![at[p]] = @ + NewlyFilled(p)] /\ UNCHANGED <<oco, bracket>>
    BY <1>3 DEF SaveFill
  <2>. QED  BY <1>1, <2>1, <2>2 DEF ExitsTyped
<1>4. ASSUME NEW p \in Passes, Arm(p)
      PROVE  ExitsTyped' /\ \A s \in Slots : fills'[s] >= fills[s] /\ (oco[s] # NoRow => oco'[s] # NoRow)
  <2>1. at[p] \in Slots /\ seen[p].filled \in 0..Qty
    BY <1>4, Reading DEF Arm, Settling, ArmsAFill, Answers
  <2>2. [qty |-> seen[p].filled, status |-> "pending"] \in OcoRow
    BY <2>1 DEF OcoRow
  <2>3. /\ oco' = [oco EXCEPT ![at[p]] =
                     IF @ # NoRow THEN @ ELSE [qty |-> seen[p].filled, status |-> "pending"]]
        /\ UNCHANGED <<fills, bracket>>
    BY <1>4 DEF Arm
  <2>. QED  BY <1>1, <2>1, <2>2, <2>3 DEF ExitsTyped
<1>5. ASSUME NEW p \in Passes, Place(p)
      PROVE  ExitsTyped' /\ UNCHANGED <<fills, oco>>
  <2>1. at[p] \in Slots /\ seen[p].filled \in 0..Qty
    BY <1>5, Reading DEF Place, Settling, ArmsAFill, Answers
  <2>. QED  BY <1>1, <1>5, <2>1 DEF ExitsTyped, Place
<1>6. ASSUME NEW p \in Passes, Mark(p)
      PROVE  ExitsTyped' /\ UNCHANGED fills /\ \A s \in Slots : (oco[s] # NoRow => oco'[s] # NoRow)
  <2>1. at[p] \in Slots /\ oco[at[p]] \in OcoRow
    BY <1>1, <1>6, Reading DEF Mark, Settling, ArmsAFill, ExitsTyped
  <2>2. /\ oco' = [oco EXCEPT ![at[p]].status = IF armed[p] THEN "registered" ELSE "failed"]
        /\ UNCHANGED <<fills, bracket>>
    BY <1>6 DEF Mark
  <2>3. oco'[at[p]] \in OcoRow
    BY <1>1, <2>1, <2>2 DEF OcoRow, ExitsTyped
  <2>. QED  BY <1>1, <2>1, <2>2, <2>3, NoRowIsNoOco DEF ExitsTyped
<1>7. ASSUME NEW p \in Passes, Start(p) \/ Raise(p) \/ Crash(p) \/ Unreadable(p) \/ Missing(p)
                               \/ Fetch(p) \/ Update(p) \/ Stamp(p) \/ PlaceFails(p) \/ Note(p)
                               \/ Finish(p) \/ Hold(p)
      PROVE  UNCHANGED exitVars
  BY <1>7 DEF Start, Raise, Crash, Unreadable, Missing, Fetch, Update, Stamp, PlaceFails, Note,
              Finish, Hold
<1>8. \A s \in Slots : fills[s] \in Nat
  BY <1>1 DEF ExitsTyped
<1>. QED
  BY <1>2, <1>3, <1>4, <1>5, <1>6, <1>7, <1>8 DEF Next, Settle, vars

\* A pass is where it was, or has taken the step.
LEMMA OwnStep ==
  ASSUME TypeOK, [Next]_vars, NEW p \in Passes
  PROVE  \/ pc'[p] = pc[p] /\ todo'[p] = todo[p] /\ at'[p] = at[p] /\ seen'[p] = seen[p]
         \/ Start(p) \/ Raise(p) \/ Crash(p) \/ (Settle(p) /\ UNCHANGED history)
<1>1. /\ pc \in [Passes -> Stopped \cup Active]
      /\ todo \in [Passes -> [Slots -> Row \cup {NoRow}]]
      /\ at \in [Passes -> Slots]
      /\ seen \in [Passes -> Answers]
  BY TypeParts DEF PassesTyped
<1> DEFINE Same == pc'[p] = pc[p] /\ todo'[p] = todo[p] /\ at'[p] = at[p] /\ seen'[p] = seen[p]
<1>2. ASSUME NEW q \in Passes, q # p, NEW how, Exit(q, how)
      PROVE  Same
  BY <1>1, <1>2 DEF Exit, Goto
<1>3. ASSUME NEW q \in Passes, q # p, NextRow(q)
      PROVE  Same
  BY <1>1, <1>3 DEF NextRow, Goto
<1>4. ASSUME NEW q \in Passes, q # p, Start(q) \/ Unreadable(q) \/ Missing(q) \/ Fetch(q) \/ SaveFill(q)
      PROVE  Same
  BY <1>1, <1>4 DEF Start, Unreadable, Missing, Fetch, SaveFill, Goto
<1>5. ASSUME NEW q \in Passes, q # p, Arm(q) \/ Place(q) \/ PlaceFails(q) \/ Mark(q)
      PROVE  Same
  BY <1>1, <1>5 DEF Arm, Place, PlaceFails, Mark, Goto
<1>6. ASSUME NEW q \in Passes, q # p, Update(q)
      PROVE  Same
  BY <1>1, <1>3, <1>6 DEF Update, Goto
<1>7. ASSUME NEW q \in Passes, q # p, Stamp(q) \/ Note(q)
      PROVE  Same
  BY <1>3, <1>7 DEF Stamp, Note
<1>8. ASSUME NEW q \in Passes, q # p, Raise(q) \/ Crash(q) \/ Finish(q) \/ Hold(q)
      PROVE  Same
  BY <1>2, <1>8 DEF Raise, Crash, Finish, Hold
<1>9. UNCHANGED vars \/ UNCHANGED passVars => Same
  BY DEF vars, passVars
<1>. HIDE DEF Same
<1>10. Same \/ Start(p) \/ Raise(p) \/ Crash(p) \/ (Settle(p) /\ UNCHANGED history)
  BY <1>4, <1>5, <1>6, <1>7, <1>8, <1>9 DEF Next, Settle
<1>. QED  BY <1>10 DEF Same

\* Every step keeps the state typed.
LEMMA TypeStep ==
  ASSUME TypeOK, BookIsSound, SnapshotOfRows, ArmsAFill, [Next]_vars
  PROVE  TypeOK'
<1>1. ExitsTyped'
  BY ExitsStep
<1>2. /\ orders \in [Slots -> Row \cup {NoRow}]
      /\ broker \in [Slots -> Order \cup {NoOrder}]
      /\ late \subseteq Requests /\ killed \in BOOLEAN /\ clock \in 0..MaxClock
      /\ PassesTyped
      /\ alone \in BOOLEAN /\ intact \in BOOLEAN
  BY TypeParts DEF BookTypeOK
<1>3. BookTypeOK'
  <2>1. CASE Environment
    BY <2>1, EnvironmentStep
  <2>2. CASE UNCHANGED <<broker, late, clock>> /\ killed' \in BOOLEAN
    BY <1>2, <2>2, RowsStep DEF BookTypeOK
  <2>3. ASSUME NEW p \in Passes, Start(p) \/ Raise(p) \/ Crash(p) \/ Settle(p)
        PROVE  killed' \in BOOLEAN
    BY <1>2, <2>3 DEF Start, Raise, Crash, Settle, Unreadable, Missing, Fetch, SaveFill, Update,
         Stamp, Arm, Place, PlaceFails, Mark, Note, Finish, Hold, bookVars
  <2>4. CASE UNCHANGED vars
    BY <1>2, <2>2, <2>4 DEF vars, bookVars
  <2>. QED
    BY <2>1, <2>2, <2>3, <2>4, PassesAsk DEF Next
<1>4. alone' \in BOOLEAN /\ intact' \in BOOLEAN
  <2>1. ASSUME NEW p \in Passes, Start(p) \/ Raise(p) \/ Crash(p)
        PROVE  alone' \in BOOLEAN /\ intact' \in BOOLEAN
    BY <1>2, <2>1 DEF Start, Raise, Crash
  <2>. QED
    BY <1>2, <2>1 DEF Next, history, vars
<1>5. PassesTyped'
  <2>1. ASSUME NEW p \in Passes, Start(p)
        PROVE  PassesTyped'
    <3> DEFINE snap == [s \in Slots |-> IF s \in PendingOrders THEN orders[s] ELSE NoRow]
    <3>1. snap \in [Slots -> Row \cup {NoRow}]
      BY <1>2
    <3>2. /\ pc' = [pc EXCEPT ![p] = "poll"]
          /\ todo' = [todo EXCEPT ![p] = snap]
          /\ UNCHANGED <<at, seen, armed, found>>
      BY <2>1 DEF Start, Goto
    <3>3. "poll" \in Active /\ "poll" \notin Settling
      BY DEF Active, Settling
    <3>. HIDE DEF snap
    <3>. QED  BY <1>2, <3>1, <3>2, <3>3 DEF PassesTyped
  <2>2. ASSUME NEW p \in Passes, Raise(p) \/ Crash(p) \/ Finish(p) \/ Hold(p)
        PROVE  PassesTyped'
    <3>1. \E how \in {"done", "lost", "dead", "hold"} : Exit(p, how)
      BY <2>2 DEF Raise, Crash, Finish, Hold
    <3>. QED  BY <3>1, ExitTyped
  <2>3. ASSUME NEW p \in Passes, Unreadable(p)
        PROVE  PassesTyped'
    <3>1. PICK s \in Slots : todo' = [todo EXCEPT ![p][s] = NoRow]
      BY <2>3 DEF Unreadable, Left
    <3>2. pc[p] \notin Settling /\ UNCHANGED <<pc, at, seen, armed, found>>
      BY <2>3 DEF Unreadable, Settling
    <3>3. \A q \in Passes : q # p => todo'[q] = todo[q]
      BY <1>2, <3>1 DEF PassesTyped
    <3>4. todo' \in [Passes -> [Slots -> Row \cup {NoRow}]]
      BY <1>2, <3>1 DEF PassesTyped
    <3>. QED  BY <1>2, <3>2, <3>3, <3>4 DEF PassesTyped
  <2>4. ASSUME NEW p \in Passes, Missing(p) \/ Fetch(p)
        PROVE  PassesTyped'
    <3>1. PICK s \in Slots, where \in Settling :
            /\ todo[p][s] # NoRow
            /\ at' = [at EXCEPT ![p] = s]
            /\ Goto(p, where)
      BY <2>4 DEF Missing, Fetch, Left, Settling
    <3>2. UNCHANGED <<todo, armed, found>>
      BY <2>4 DEF Missing, Fetch
    <3>3. seen' \in [Passes -> Answers]
      <4>1. CASE Missing(p)
        BY <1>2, <4>1 DEF Missing, PassesTyped
      <4>2. CASE Fetch(p)
        <5>1. PICK r \in Slots : Held(r) /\ \E a \in AnswersFor(r) : seen' = [seen EXCEPT ![p] = a]
          BY <4>2 DEF Fetch, Left
        <5>2. PICK a \in AnswersFor(r) : seen' = [seen EXCEPT ![p] = a]
          BY <5>1
        <5>3. broker[r].filled \in 0..Qty /\ broker[r].state \in OrderStates
          BY <1>2, <5>1 DEF Held, Order
        <5>4. Qty - broker[r].filled \in 0..Qty
          BY <5>3
        <5>5. Word(r) \in Words /\ "open" \in Words /\ "cancelComplete" \in Words /\ 0 \in 0..Qty
          BY <5>3 DEF Word, Words, OrderStates
        <5>6. /\ a \in [filled : {broker[r].filled, NoQty},
                        word : {Word(r), "open", "cancelComplete"},
                        remaining : {Qty - broker[r].filled, NoQty, 0}]
          BY <5>2 DEF AnswersFor
        <5>7. a \in Answers
          BY <5>3, <5>4, <5>5, <5>6 DEF Answers
        <5>. QED  BY <1>2, <5>2, <5>7 DEF PassesTyped
      <4>. QED  BY <2>4, <4>1, <4>2
    <3>4. where \in Stopped \cup Active
      BY DEF Active
    <3>. QED  BY <1>2, <3>1, <3>2, <3>3, <3>4 DEF PassesTyped, Goto
  <2>5. ASSUME NEW p \in Passes,
               SaveFill(p) \/ Arm(p) \/ Place(p) \/ PlaceFails(p) \/ Mark(p)
        PROVE  PassesTyped'
    <3>1. /\ pc[p] \in Settling
          /\ \E where \in Settling : Goto(p, where)
          /\ UNCHANGED <<todo, at, seen, found>>
      BY <2>5 DEF SaveFill, Arm, Place, PlaceFails, Mark, Settling
    <3>2. armed' \in [Passes -> BOOLEAN]
      BY <1>2, <2>5 DEF SaveFill, Arm, Place, PlaceFails, Mark, PassesTyped
    <3>. QED  BY <3>1, <3>2, MoveTyped
  <2>6. ASSUME NEW p \in Passes, Update(p)
        PROVE  PassesTyped'
    <3>1. CASE NextRow(p)
      BY <1>2, <2>6, <3>1, NextRowTyped DEF Update, PassesTyped
    <3>2. CASE ~NextRow(p)
      <4>1. /\ pc[p] \in Settling
            /\ \E where \in Settling : Goto(p, where)
            /\ UNCHANGED <<todo, at, seen, found, armed>>
        BY <2>6, <3>2 DEF Update, Settling
      <4>. QED  BY <1>2, <4>1, MoveTyped DEF PassesTyped
    <3>. QED  BY <3>1, <3>2
  <2>7. ASSUME NEW p \in Passes, Stamp(p) \/ Note(p)
        PROVE  PassesTyped'
    BY <1>2, <2>7, NextRowTyped DEF Stamp, Note, PassesTyped
  <2>8. CASE UNCHANGED passVars \/ UNCHANGED vars
    BY <1>2, <2>8 DEF passVars, vars, PassesTyped
  <2>. QED
    BY <2>1, <2>2, <2>3, <2>4, <2>5, <2>6, <2>7, <2>8 DEF Next, Settle
<1>. QED
  BY <1>1, <1>3, <1>4, <1>5, TypePartsNext

-----------------------------------------------------------------------------
(* What holds however passes overlap and wherever they are killed. *)

\* Which of its steps a pass took, by what it does to the answer in hand.
LEMMA OwnSteps ==
  ASSUME TypeOK, NEW p \in Passes, Start(p) \/ Raise(p) \/ Crash(p) \/ Settle(p)
  PROVE  \/ seen'[p] = NoAnswer /\ pc'[p] \notin Settling
         \/ UNCHANGED seen /\ pc[p] \notin Settling /\ pc'[p] \notin Settling
         \/ Missing(p)
         \/ Fetch(p)
         \/ pc[p] \in Settling /\ pc'[p] \in Settling /\ UNCHANGED <<seen, at>>
<1>1. /\ pc \in [Passes -> Stopped \cup Active]
      /\ seen \in [Passes -> Answers]
  BY TypeParts DEF PassesTyped
<1>2. ASSUME NEW how \in {"done", "lost", "dead", "hold"}, Exit(p, how)
      PROVE  seen'[p] = NoAnswer /\ pc'[p] \notin Settling
  BY <1>1, <1>2 DEF Exit, Goto, Settling
<1>3. ASSUME NextRow(p)
      PROVE  seen'[p] = NoAnswer /\ pc'[p] \notin Settling
  BY <1>1, <1>3 DEF NextRow, Goto, Settling
<1>4. CASE Raise(p) \/ Crash(p) \/ Finish(p) \/ Hold(p)
  <2>1. \E how \in {"done", "lost", "dead", "hold"} : Exit(p, how)
    BY <1>4 DEF Raise, Crash, Finish, Hold
  <2>. QED  BY <1>2, <2>1
<1>5. CASE Stamp(p) \/ Note(p)
  BY <1>3, <1>5 DEF Stamp, Note
<1>6. CASE Update(p)
  BY <1>1, <1>3, <1>6 DEF Update, Goto, Settling
<1>7. CASE Start(p) \/ Unreadable(p)
  BY <1>1, <1>7 DEF Start, Unreadable, Goto, Settling, Stopped
<1>8. CASE SaveFill(p) \/ Arm(p) \/ Place(p) \/ PlaceFails(p) \/ Mark(p)
  BY <1>1, <1>8 DEF SaveFill, Arm, Place, PlaceFails, Mark, Goto, Settling
<1>. QED
  BY <1>4, <1>5, <1>6, <1>7, <1>8 DEF Settle

\* An answer, once true, stays true: the broker only moves on.
LEMMA AnswerStep ==
  ASSUME TypeOK, BookIsSound, AnswerIsTrue, [Next]_vars
  PROVE  AnswerIsTrue'
<1>. SUFFICES ASSUME NEW p \in Passes
              PROVE  /\ pc'[p] \notin Settling => seen'[p] = NoAnswer
                     /\ seen'[p] # NoAnswer => broker'[at'[p]] # NoOrder
                     /\ seen'[p].filled # NoQty => seen'[p].filled <= broker'[at'[p]].filled
                     /\ seen'[p].word = "complete" => broker'[at'[p]].state = "filled"
                     /\ seen'[p].word \in {"cancel", "cancelComplete"} => broker'[at'[p]].state = "canceled"
                     /\ seen'[p].word = "reject" => broker'[at'[p]].state = "rejected"
                     /\ seen'[p].remaining = 0 => broker'[at'[p]].state \in {"filled", "canceled"}
  BY DEF AnswerIsTrue, Held
<1>1. /\ seen[p] \in Answers /\ at[p] \in Slots
      /\ broker \in [Slots -> Order \cup {NoOrder}]
      /\ pc \in [Passes -> Stopped \cup Active]
      /\ at \in [Passes -> Slots] /\ seen \in [Passes -> Answers]
  BY TypeParts DEF BookTypeOK, PassesTyped
<1>2. CASE seen'[p] = NoAnswer
  BY <1>2 DEF NoAnswer
<1>3. CASE seen'[p] = seen[p] /\ at'[p] = at[p] /\ (pc'[p] = pc[p] \/ pc[p] \in Settling)
  <2>1. CASE seen[p] = NoAnswer
    BY <1>2, <1>3, <2>1
  <2>2. CASE seen[p] # NoAnswer
    <3>1. /\ Held(at[p]) /\ broker[at[p]].filled \in 0..Qty
          /\ broker'[at[p]] # NoOrder
          /\ broker'[at[p]].filled >= broker[at[p]].filled
          /\ broker[at[p]].state # "open" => broker'[at[p]].state = broker[at[p]].state
      BY <1>1, <2>2, BrokerStep DEF AnswerIsTrue, BrokerMoves, Held, Order
    <3>2. broker'[at[p]].filled \in Int
      <4>1. broker' \in [Slots -> Order \cup {NoOrder}]
        <5>1. CASE UNCHANGED broker
          BY <1>1, <5>1
        <5>2. CASE Environment
          BY <5>2, EnvironmentStep DEF BookTypeOK
        <5>. QED  BY <5>1, <5>2, PassesAsk DEF Next, vars, bookVars
      <4>. QED  BY <1>1, <3>1, <4>1 DEF Order
    <3>3. seen[p].filled # NoQty => seen[p].filled \in 0..Qty
      BY <1>1 DEF Answers
    <3>4. /\ seen[p].filled # NoQty => seen[p].filled <= broker'[at[p]].filled
          /\ seen[p].word = "complete" => broker'[at[p]].state = "filled"
          /\ seen[p].word \in {"cancel", "cancelComplete"} => broker'[at[p]].state = "canceled"
          /\ seen[p].word = "reject" => broker'[at[p]].state = "rejected"
          /\ seen[p].remaining = 0 => broker'[at[p]].state \in {"filled", "canceled"}
      BY <3>1, <3>2, <3>3 DEF AnswerIsTrue
    <3>5. pc'[p] \notin Settling => seen[p] = NoAnswer
      BY <1>3, <2>2, OwnStep, OwnSteps DEF AnswerIsTrue, Missing, Fetch, Settling
    <3>. QED  BY <1>3, <3>1, <3>4, <3>5
  <2>. QED  BY <2>1, <2>2
<1>4. CASE Missing(p)
  <2>1. seen' = seen /\ pc[p] \notin Settling
    BY <1>4 DEF Missing, Settling
  <2>. QED  BY <1>2, <2>1 DEF AnswerIsTrue
<1>5. CASE Fetch(p)
  <2>1. PICK s \in Slots : /\ Held(s) /\ at' = [at EXCEPT ![p] = s]
                           /\ \E a \in AnswersFor(s) : seen' = [seen EXCEPT ![p] = a]
    BY <1>5 DEF Fetch, Left
  <2>2. PICK a \in AnswersFor(s) : seen' = [seen EXCEPT ![p] = a]
    BY <2>1
  <2>3. at'[p] = s /\ seen'[p] = a /\ broker' = broker /\ pc'[p] \in Settling
    BY <1>1, <1>5, <2>1, <2>2 DEF Fetch, Goto, bookVars, Settling
  <2>4. /\ broker[s].filled \in 0..Qty /\ broker[s].state \in OrderStates
        /\ broker[s].state = "filled" <=> broker[s].filled = Qty
    BY <1>1, <2>1 DEF Held, Order, BookIsSound
  <2>5. /\ a.filled \in {broker[s].filled, NoQty}
        /\ \/ a.word \in {Word(s), "open"}
           \/ a.word = "cancelComplete" /\ broker[s].state = "canceled"
        /\ \/ a.remaining \in {Qty - broker[s].filled, NoQty}
           \/ a.remaining = 0 /\ broker[s].state = "canceled"
    BY <2>2 DEF AnswersFor
  <2>6. /\ Word(s) = "complete" => broker[s].state = "filled"
        /\ Word(s) = "cancel" => broker[s].state = "canceled"
        /\ Word(s) = "reject" => broker[s].state = "rejected"
        /\ Word(s) # "cancelComplete"
    BY <2>4 DEF Word, OrderStates
  <2>. QED  BY <2>1, <2>3, <2>4, <2>5, <2>6 DEF Held
<1>. QED
  BY <1>2, <1>3, <1>4, <1>5, OwnStep, OwnSteps DEF AnswerIsTrue

\* A snapshot is of rows that stay, whose fills were saved before it was taken.
LEMMA SnapshotRowsStep ==
  ASSUME TypeOK, BookIsSound, SnapshotOfRows, ArmsAFill, FillsAddUp, [Next]_vars
  PROVE  SnapshotOfRows'
<1>. SUFFICES ASSUME NEW p \in Passes, NEW s \in Slots, todo'[p][s] # NoRow
              PROVE  /\ Recorded(s)'
                     /\ todo'[p][s].status \in OpenStatuses
                     /\ todo'[p][s].filled <= fills'[s]
  BY DEF SnapshotOfRows
<1>1. /\ fills[s] \in Nat /\ fills'[s] \in Nat /\ fills'[s] >= fills[s]
  BY ExitsStep, TypeParts DEF ExitsTyped
<1>2. /\ todo \in [Passes -> [Slots -> Row \cup {NoRow}]]
      /\ orders \in [Slots -> Row \cup {NoRow}]
  BY DEF TypeOK, BookTypeOK
<1>3. CASE todo'[p][s] = todo[p][s]
  <2>1. todo[p][s] \in Row
    BY <1>2, <1>3
  <2>2. todo[p][s].filled \in Nat
    BY <2>1 DEF Row
  <2>. QED  BY <1>1, <1>3, <2>2, RowsStep DEF SnapshotOfRows
<1>4. CASE s \in PendingOrders /\ todo'[p][s] = orders[s]
  <2>1. Recorded(s) /\ orders[s].status \in OpenStatuses
    BY <1>4 DEF PendingOrders
  <2>2. orders[s].filled \in Nat /\ fills[s] >= orders[s].filled
    BY <1>2, <2>1 DEF FillsAddUp, Recorded, Row
  <2>. QED  BY <1>1, <1>4, <2>1, <2>2, RowsStep
<1>. QED
  BY <1>3, <1>4, SnapshotStep

\* A bracket is armed for a quantity that was read, after its own row.
LEMMA ArmsStep ==
  ASSUME TypeOK, ArmsAFill, [Next]_vars
  PROVE  ArmsAFill'
<1>. SUFFICES ASSUME NEW p \in Passes
              PROVE  /\ pc'[p] \in {"arm", "place"} => seen'[p].filled # NoQty
                     /\ pc'[p] \in {"place", "mark"} => oco'[at'[p]] # NoRow
  BY DEF ArmsAFill
<1>1. /\ at[p] \in Slots
      /\ pc \in [Passes -> Stopped \cup Active]
      /\ oco \in [Slots -> OcoRow \cup {NoRow}]
  BY TypeParts DEF PassesTyped, ExitsTyped
<1>2. oco[at[p]] # NoRow => oco'[at[p]] # NoRow
  BY <1>1, ExitsStep
<1>3. CASE pc'[p] = pc[p] /\ at'[p] = at[p] /\ seen'[p] = seen[p]
  BY <1>2, <1>3 DEF ArmsAFill
<1>4. CASE pc'[p] \notin {"arm", "place", "mark"}
  BY <1>4
<1>5. CASE Update(p)
  <2>1. CASE NextRow(p)
    BY <1>1, <1>4, <2>1 DEF NextRow, Goto
  <2>2. CASE Goto(p, "stamp")
    BY <1>1, <1>4, <2>2 DEF Goto
  <2>3. CASE WantsBracket(p) /\ Goto(p, "arm") /\ UNCHANGED seen
    <3>1. seen[p].filled # NoQty
      BY <2>3 DEF WantsBracket, NewlyFilled, Reports
    <3>. QED  BY <1>1, <2>3, <3>1 DEF Goto
  <2>. QED  BY <1>5, <2>1, <2>2, <2>3 DEF Update
<1>6. CASE Arm(p)
  <2>1. /\ seen' = seen /\ at' = at /\ pc[p] = "arm" /\ pc'[p] = "place"
        /\ oco' = [oco EXCEPT ![at[p]] =
                     IF @ # NoRow THEN @ ELSE [qty |-> seen[p].filled, status |-> "pending"]]
    BY <1>1, <1>6 DEF Arm, Goto
  <2>2. seen[p].filled \in 0..Qty
    BY <2>1, Reading DEF ArmsAFill, Answers, Settling
  <2>3. [qty |-> seen[p].filled, status |-> "pending"] \in OcoRow
    BY <2>2 DEF OcoRow
  <2>. QED  BY <1>1, <2>1, <2>3, NoRowIsNoOco DEF ArmsAFill
<1>7. CASE Place(p) \/ PlaceFails(p)
  BY <1>1, <1>2, <1>7 DEF Place, PlaceFails, Goto, ArmsAFill
<1>8. CASE Start(p) \/ Missing(p) \/ Fetch(p) \/ SaveFill(p) \/ Mark(p)
  BY <1>1, <1>4, <1>8 DEF Start, Missing, Fetch, SaveFill, Mark, Goto
<1>9. CASE Raise(p) \/ Crash(p) \/ Finish(p) \/ Hold(p)
  BY <1>1, <1>4, <1>9 DEF Raise, Crash, Finish, Hold, Exit, Goto
<1>10. CASE Stamp(p) \/ Note(p)
  BY <1>1, <1>4, <1>10 DEF Stamp, Note, NextRow, Goto
<1>11. CASE Unreadable(p)
  BY <1>1, <1>3, <1>4, <1>11 DEF Unreadable
<1>. QED
  BY <1>3, <1>5, <1>6, <1>7, <1>8, <1>9, <1>10, <1>11, OwnStep DEF Settle

\* What a pass infers from a true answer is true.
LEMMA InferredTruth ==
  ASSUME TypeOK, BookIsSound, AnswerIsTrue, NEW p \in Passes, pc[p] \in Settling
  PROVE  /\ NewStatus(p) \in {"filled", "canceled", "rejected"} => SettlesAs(at[p], NewStatus(p))
         /\ NewlyFilled(p) > 0 => Held(at[p]) /\ broker[at[p]].filled >= seen[p].filled
<1>1. /\ seen[p] \in Answers /\ at[p] \in Slots
      /\ broker \in [Slots -> Order \cup {NoOrder}]
  BY TypeParts DEF BookTypeOK, PassesTyped
<1>2. seen[p] # NoAnswer => /\ Held(at[p]) /\ broker[at[p]].filled \in 0..Qty
                            /\ broker[at[p]].state = "filled" <=> broker[at[p]].filled = Qty
  BY <1>1 DEF AnswerIsTrue, BookIsSound, Held, Order
<1>3. /\ Reports(seen[p], 0) => seen[p] # NoAnswer /\ seen[p].filled \in 0..Qty
      /\ seen[p].word \in {"complete", "cancel", "cancelComplete", "reject"} => seen[p] # NoAnswer
      /\ seen[p].remaining = 0 => seen[p] # NoAnswer
  BY <1>1 DEF NoAnswer, Reports, Answers
<1>4. ASSUME Reports(seen[p], 0), seen[p].filled >= Qty
      PROVE  broker[at[p]].state = "filled"
  BY <1>2, <1>3, <1>4 DEF AnswerIsTrue, Reports
<1>5. ASSUME seen[p].remaining = 0 \/ ReportsComplete(seen[p])
      PROVE  broker[at[p]].state \in {"filled", "canceled"}
  BY <1>5 DEF AnswerIsTrue, ReportsComplete
<1>6. ReportsCancel(seen[p]) => seen[p] # NoAnswer /\ broker[at[p]].state = "canceled"
  BY <1>3 DEF AnswerIsTrue, ReportsCancel
<1>7. seen[p].word = "reject" => broker[at[p]].state = "rejected"
  BY DEF AnswerIsTrue
<1>8. ASSUME NewStatus(p) = "filled" PROVE SettlesAs(at[p], "filled")
  <2>1. Reports(seen[p], 0)
    BY <1>8 DEF NewStatus, InferStatus
  <2>2. Held(at[p]) /\ broker[at[p]].filled > 0
    <3>1. seen[p].filled \in 0..Qty /\ seen[p].filled # NoQty /\ seen[p].filled > 0
      BY <1>3, <2>1 DEF Reports
    <3>2. seen[p].filled <= broker[at[p]].filled
      BY <3>1 DEF AnswerIsTrue
    <3>. QED  BY <1>2, <1>3, <2>1, <3>1, <3>2
  <2>3. CASE at[p][2] \notin ByAmount
    <3>1. seen[p].filled >= Qty
      BY <1>8, <2>1, <2>3 DEF NewStatus, InferStatus
    <3>. QED  BY <1>4, <2>1, <2>2, <3>1 DEF SettlesAs
  <2>4. CASE at[p][2] \in ByAmount
    <3>1. seen[p].remaining = 0 \/ ReportsComplete(seen[p])
      BY <1>8, <2>1, <2>4 DEF NewStatus, InferStatus
    <3>. QED  BY <1>5, <2>2, <2>4, <3>1 DEF SettlesAs
  <2>. QED  BY <2>3, <2>4
<1>9. NewStatus(p) = "canceled" => SettlesAs(at[p], "canceled")
  BY <1>2, <1>3, <1>6 DEF NewStatus, InferStatus, SettlesAs
<1>10. NewStatus(p) = "rejected" => SettlesAs(at[p], "rejected")
  BY <1>2, <1>3, <1>7 DEF NewStatus, InferStatus, SettlesAs
<1>11. NewlyFilled(p) > 0 => Held(at[p]) /\ broker[at[p]].filled >= seen[p].filled
  <2>1. NewlyFilled(p) > 0 => seen[p].filled # NoQty /\ seen[p].filled \in 0..Qty
    BY Reading DEF NewlyFilled, Reports
  <2>. QED  BY <1>2, <2>1 DEF AnswerIsTrue, NoAnswer
<1>. QED  BY <1>8, <1>9, <1>10, <1>11

\* SettlesAs of the broker's next state, for a status of any state.
SettledAs(s, status) ==
  /\ broker'[s] # NoOrder
  /\ \/ broker'[s].state = status
     \/ /\ s[2] \in ByAmount /\ status = "filled"
        /\ broker'[s].state = "canceled" /\ broker'[s].filled > 0

\* A row settled stays true of the broker, and a row is settled as what it is.
LEMMA SettledStep ==
  ASSUME TypeOK, BookIsSound, AnswerIsTrue, SnapshotOfRows, SettledIsTrue, [Next]_vars
  PROVE  SettledIsTrue'
<1>. SUFFICES ASSUME NEW s \in Slots, Recorded(s)'
              PROVE  /\ orders'[s].status \in {"filled", "canceled", "rejected"}
                          => SettledAs(s, orders'[s].status)
                     /\ orders'[s].filled > 0 => Held(s)' /\ broker'[s].filled >= orders'[s].filled
  BY DEF SettledIsTrue, SettlesAs, SettledAs, Held
<1>1. Recorded(s) /\ orders[s] \in Row /\ orders[s].filled \in 0..Qty
  <2>1. Recorded(s) /\ orders \in [Slots -> Row \cup {NoRow}]
    BY RowsStep DEF TypeOK, BookTypeOK
  <2>. QED  BY <2>1 DEF Recorded, Row
<1>2. Held(s) => /\ Held(s)' /\ broker[s].filled \in Int /\ broker'[s].filled \in Int
                 /\ broker'[s].filled >= broker[s].filled
                 /\ broker[s].state # "open" => broker'[s].state = broker[s].state
  <2>1. Held(s) => broker[s] \in Order
    BY DEF TypeOK, BookTypeOK, Held
  <2>2. broker' \in [Slots -> Order \cup {NoOrder}]
    <3>1. CASE UNCHANGED broker
      BY <3>1 DEF TypeOK, BookTypeOK
    <3>2. CASE Environment
      BY <3>2, EnvironmentStep DEF BookTypeOK
    <3>. QED  BY <3>1, <3>2, PassesAsk DEF Next, vars, bookVars
  <2>. QED  BY <2>1, <2>2, BrokerStep DEF BrokerMoves, Held, Order
<1>3. CASE RowStays(s)
  <2>1. orders[s].status \in {"filled", "canceled", "rejected"} => SettledAs(s, orders[s].status)
    <3>1. orders[s].status \in {"filled", "canceled", "rejected"} => SettlesAs(s, orders[s].status)
      BY <1>1 DEF SettledIsTrue
    <3>2. ASSUME NEW status, status # "open", SettlesAs(s, status)
          PROVE  SettledAs(s, status)
      <4>1. /\ Held(s)' /\ broker[s].filled \in Int /\ broker'[s].filled \in Int
            /\ broker'[s].filled >= broker[s].filled
            /\ broker[s].state # "open" => broker'[s].state = broker[s].state
        BY <1>2, <3>2 DEF SettlesAs
      <4>2. broker'[s] # NoOrder
        BY <4>1 DEF Held
      <4>3. CASE broker[s].state = status
        BY <3>2, <4>1, <4>2, <4>3 DEF SettledAs
      <4>4. CASE s[2] \in ByAmount /\ status = "filled" /\ broker[s].state = "canceled" /\ broker[s].filled > 0
        BY <4>1, <4>2, <4>4 DEF SettledAs
      <4>. QED  BY <3>2, <4>3, <4>4 DEF SettlesAs
    <3>. QED  BY <3>1, <3>2
  <2>2. orders[s].filled > 0 => Held(s)' /\ broker'[s].filled >= orders[s].filled
    BY <1>1, <1>2 DEF SettledIsTrue
  <2>. QED  BY <1>1, <1>3, <2>1, <2>2 DEF RowStays
<1>4. ASSUME NEW p \in Passes, Update(p), s = at[p]
      PROVE  /\ orders'[s].status \in {"filled", "canceled", "rejected"}
                  => SettledAs(s, orders'[s].status)
             /\ orders'[s].filled > 0 => Held(s)' /\ broker'[s].filled >= orders'[s].filled
  <2>1. pc[p] \in Settling /\ broker' = broker
    BY <1>4 DEF Update, Settling
  <2>2. /\ orders'[s].filled = IF NewlyFilled(p) > 0 THEN seen[p].filled ELSE orders[s].filled
        /\ orders'[s].status \in {orders[s].status, NewStatus(p)}
    BY <1>4, UpdateWrites
  <2>3. /\ NewStatus(p) \in {"filled", "canceled", "rejected"} => SettlesAs(s, NewStatus(p))
        /\ NewlyFilled(p) > 0 => Held(s) /\ broker[s].filled >= seen[p].filled
    BY <1>4, <2>1, InferredTruth
  <2>4. orders'[s].status \in {"filled", "canceled", "rejected"} => SettlesAs(s, orders'[s].status)
    BY <1>1, <2>2, <2>3 DEF SettledIsTrue
  <2>5. \A status : SettlesAs(s, status) => SettledAs(s, status)
    BY <2>1 DEF SettlesAs, SettledAs, Held
  <2>6. orders'[s].filled > 0 => Held(s)' /\ broker'[s].filled >= orders'[s].filled
    BY <1>1, <2>1, <2>2, <2>3 DEF SettledIsTrue, Held
  <2>. QED  BY <2>4, <2>5, <2>6
<1>. QED
  BY <1>3, <1>4, RowsStep

\* A bracket is placed for what the answer in hand says is filled.
LEMMA BracketStep ==
  ASSUME TypeOK, BookIsSound, AnswerIsTrue, ArmsAFill, BracketWithinFill, [Next]_vars
  PROVE  BracketWithinFill'
<1>. SUFFICES ASSUME NEW s \in Slots, bracket'[s] > 0
              PROVE  Held(s)' /\ bracket'[s] <= broker'[s].filled
  BY DEF BracketWithinFill
<1>1. /\ broker \in [Slots -> Order \cup {NoOrder}]
      /\ bracket \in [Slots -> 0..Qty] /\ bracket'[s] \in 0..Qty
  BY ExitsStep DEF TypeOK, BookTypeOK, ExitsTyped
<1>2. CASE bracket'[s] = bracket[s]
  <2>1. Held(s) /\ bracket[s] <= broker[s].filled /\ broker[s].filled \in Int
    BY <1>1, <1>2 DEF BracketWithinFill, Held, Order
  <2>2. broker' \in [Slots -> Order \cup {NoOrder}]
    <3>1. CASE UNCHANGED broker
      BY <1>1, <3>1
    <3>2. CASE Environment
      BY <3>2, EnvironmentStep DEF BookTypeOK
    <3>. QED  BY <3>1, <3>2, PassesAsk DEF Next, vars, bookVars
  <2>3. Held(s)' /\ broker'[s].filled >= broker[s].filled
    BY <2>1, BrokerStep DEF BrokerMoves
  <2>4. broker'[s].filled \in Int
    BY <2>2, <2>3 DEF Held, Order
  <2>. QED  BY <1>1, <1>2, <2>1, <2>3, <2>4
<1>3. ASSUME NEW p \in Passes, Place(p)
      PROVE  Held(s)' /\ bracket'[s] <= broker'[s].filled
  <2>1. /\ pc[p] = "place" /\ pc[p] \in Settling
        /\ bracket' = [bracket EXCEPT ![at[p]] = seen[p].filled]
        /\ broker' = broker
    BY <1>3 DEF Place, bookVars, Settling
  <2>2. /\ seen[p].filled # NoQty /\ seen[p] # NoAnswer /\ at[p] \in Slots
    BY <2>1, Reading DEF ArmsAFill, NoAnswer
  <2>3. Held(at[p]) /\ seen[p].filled <= broker[at[p]].filled
    BY <2>2 DEF AnswerIsTrue
  <2>. QED  BY <1>1, <1>2, <2>1, <2>2, <2>3 DEF Held
<1>4. ASSUME NEW p \in Passes, Start(p) \/ Raise(p) \/ Crash(p) \/ Settle(p), ~Place(p)
      PROVE  bracket' = bracket
  BY <1>4 DEF Start, Raise, Crash, Settle, Unreadable, Missing, Fetch, SaveFill, Update, Stamp,
         Arm, PlaceFails, Mark, Note, Finish, Hold, exitVars
<1>. QED
  BY <1>2, <1>3, <1>4 DEF Next, vars, exitVars

\* A fill is saved before the row is told of it.
LEMMA SavedStep ==
  ASSUME TypeOK, SnapshotOfRows, ArmsAFill, FillIsSaved, [Next]_vars
  PROVE  FillIsSaved'
<1>. SUFFICES ASSUME NEW p \in Passes, pc'[p] = "update", NewlyFilled(p)' > 0
              PROVE  fills'[at'[p]] >= seen'[p].filled
  BY DEF FillIsSaved
<1>1. /\ at[p] \in Slots /\ fills[at[p]] \in Nat /\ fills'[at[p]] \in Nat
      /\ fills'[at[p]] >= fills[at[p]]
      /\ pc \in [Passes -> Stopped \cup Active]
  BY ExitsStep, TypeParts DEF ExitsTyped, PassesTyped
<1>2. CASE pc'[p] = pc[p] /\ todo'[p] = todo[p] /\ at'[p] = at[p] /\ seen'[p] = seen[p]
  <2>1. NewlyFilled(p)' = NewlyFilled(p)
    BY <1>2 DEF NewlyFilled, Row0
  <2>2. pc[p] = "update" /\ NewlyFilled(p) > 0 /\ pc[p] \in Settling
    BY <1>2, <2>1 DEF Settling
  <2>3. seen[p].filled \in 0..Qty
    BY <2>2, Reading
  <2>. QED  BY <1>1, <1>2, <2>2, <2>3 DEF FillIsSaved
<1>3. CASE SaveFill(p)
  <2>1. pc[p] \in Settling /\ UNCHANGED <<todo, at, seen>>
    BY <1>3 DEF SaveFill, Settling
  <2>2. NewlyFilled(p)' = NewlyFilled(p) /\ Row0(p).filled \in 0..Qty
    BY <2>1, Reading DEF NewlyFilled, Row0
  <2>3. seen[p].filled \in 0..Qty /\ seen[p].filled = Row0(p).filled + NewlyFilled(p)
    BY <2>1, <2>2, Reading
  <2>4. Row0(p).filled <= fills[at[p]]
    BY <1>1, <2>1, Reading DEF SnapshotOfRows, Row0
  <2>5. fills'[at[p]] = fills[at[p]] + NewlyFilled(p) /\ NewlyFilled(p) \in Nat
    BY <1>1, <1>3, <2>1, Reading DEF SaveFill, ExitsTyped, TypeOK
  <2>. QED  BY <1>1, <2>1, <2>2, <2>3, <2>4, <2>5
<1>4. CASE Update(p)
  BY <1>1, <1>4 DEF Update, NextRow, Goto
<1>5. CASE Start(p) \/ Unreadable(p) \/ Missing(p) \/ Fetch(p) \/ Arm(p) \/ Place(p)
           \/ PlaceFails(p) \/ Mark(p)
  BY <1>1, <1>5 DEF Start, Unreadable, Missing, Fetch, Arm, Place, PlaceFails, Mark, Goto
<1>6. CASE Raise(p) \/ Crash(p) \/ Finish(p) \/ Hold(p) \/ Stamp(p) \/ Note(p)
  BY <1>1, <1>6 DEF Raise, Crash, Finish, Hold, Stamp, Note, NextRow, Exit, Goto
<1>. QED
  BY <1>2, <1>3, <1>4, <1>5, <1>6, OwnStep DEF Settle

-----------------------------------------------------------------------------
(* What holds while passes do not overlap. *)

\* The history is kept: one overlap, or one pass cut off, is never forgotten.
LEMMA HistoryStep ==
  ASSUME TypeOK, [Next]_vars
  PROVE  /\ alone' => alone
         /\ intact' => intact
         /\ \A p \in Passes : Start(p) /\ alone' => \A q \in Passes : pc[q] \in Stopped
         /\ \A p \in Passes : Raise(p) \/ Crash(p) => ~intact'
<1>1. ASSUME NEW p \in Passes, Start(p)
      PROVE  /\ alone' => alone /\ \A q \in Passes : pc[q] \in Stopped
             /\ intact' = intact
  BY <1>1 DEF Start
<1>2. ASSUME NEW p \in Passes, Raise(p) \/ Crash(p)
      PROVE  alone' = alone /\ ~intact'
  BY <1>2 DEF Raise, Crash
<1>3. CASE UNCHANGED history \/ UNCHANGED vars
  BY <1>1, <1>2, <1>3 DEF history, vars
<1>. QED
  BY <1>1, <1>2, <1>3 DEF Next

\* A pass that ran on had been running, and one that starts is alone.
LEMMA OnePassStep ==
  ASSUME TypeOK, OnePass, [Next]_vars
  PROVE  OnePass'
<1>. SUFFICES ASSUME alone', NEW p \in Passes, NEW q \in Passes,
                     pc'[p] \in Active, pc'[q] \in Active
              PROVE  p = q
  BY DEF OnePass
<1>1. pc \in [Passes -> Stopped \cup Active] /\ Stopped \cap Active = {}
  BY TypeParts DEF PassesTyped, Stopped, Active, Settling
<1>2. CASE \E r \in Passes : Start(r)
  <2>1. PICK r \in Passes : Start(r)
    BY <1>2
  <2>2. pc' = [pc EXCEPT ![r] = "poll"] /\ \A t \in Passes : pc[t] \in Stopped
    BY <2>1, HistoryStep DEF Start, Goto
  <2>. QED  BY <1>1, <2>2
<1>3. CASE ~\E r \in Passes : Start(r)
  <2>1. ASSUME NEW r \in Passes, pc'[r] \in Active
        PROVE  pc[r] \in Active
    <3>1. CASE pc'[r] = pc[r]
      BY <2>1, <3>1
    <3>2. CASE Raise(r) \/ Crash(r) \/ Settle(r)
      <4>1. pc[r] \notin Stopped
        BY <3>2 DEF Raise, Crash, Settle, Unreadable, Missing, Fetch, SaveFill, Update, Stamp,
               Arm, Place, PlaceFails, Mark, Note, Finish, Hold, Stopped
      <4>. QED  BY <1>1, <4>1
    <3>. QED  BY <1>3, <3>1, <3>2, OwnStep
  <2>. QED  BY <2>1, HistoryStep DEF OnePass
<1>. QED  BY <1>2, <1>3

\* A pass past a row's update keeps the row at hand until it lets it go.
LEMMA PastUpdate ==
  ASSUME TypeOK, NEW p \in Passes, Raise(p) \/ Crash(p) \/ Settle(p),
         pc'[p] \in Active, todo'[p][at[p]] # NoRow,
         pc[p] \notin {"poll", "fill"}
  PROVE  at'[p] = at[p] /\ pc'[p] \notin {"poll", "fill", "update"}
<1>1. /\ pc \in [Passes -> Stopped \cup Active]
      /\ at \in [Passes -> Slots]
      /\ todo \in [Passes -> [Slots -> Row \cup {NoRow}]]
  BY TypeParts DEF PassesTyped
<1>2. ASSUME NextRow(p)
      PROVE  FALSE
  BY <1>1, <1>2 DEF NextRow
<1>3. ASSUME NEW how, Exit(p, how)
      PROVE  FALSE
  BY <1>1, <1>3 DEF Exit, NoTodo
<1>4. CASE Raise(p) \/ Crash(p) \/ Finish(p) \/ Hold(p)
  BY <1>3, <1>4 DEF Raise, Crash, Finish, Hold
<1>5. CASE Stamp(p) \/ Note(p)
  BY <1>2, <1>5 DEF Stamp, Note
<1>6. CASE Update(p)
  BY <1>1, <1>2, <1>6 DEF Update, Goto
<1>7. CASE Arm(p) \/ Place(p) \/ PlaceFails(p) \/ Mark(p)
  BY <1>1, <1>7 DEF Arm, Place, PlaceFails, Mark, Goto
<1>8. CASE Unreadable(p) \/ Missing(p) \/ Fetch(p) \/ SaveFill(p)
  BY <1>8 DEF Unreadable, Missing, Fetch, SaveFill
<1>. QED
  BY <1>4, <1>5, <1>6, <1>7, <1>8 DEF Settle

\* Alone, a pass's snapshot is what the collection holds, for every row it has not
\* written yet.
LEMMA FreshStep ==
  ASSUME TypeOK, BookIsSound, SnapshotOfRows, OnePass, SnapshotIsFresh, [Next]_vars
  PROVE  SnapshotIsFresh'
<1>. SUFFICES ASSUME alone', NEW p \in Passes, NEW s \in Slots, pc'[p] \in Active,
                     todo'[p][s] # NoRow,
                     s = at'[p] => pc'[p] \in {"poll", "fill", "update"}
              PROVE  /\ orders'[s].status = todo'[p][s].status
                     /\ orders'[s].filled = todo'[p][s].filled
  BY DEF SnapshotIsFresh
<1>1. /\ alone
      /\ pc \in [Passes -> Stopped \cup Active] /\ Stopped \cap Active = {}
      /\ todo \in [Passes -> [Slots -> Row \cup {NoRow}]]
  BY HistoryStep, TypeParts DEF PassesTyped, Stopped, Active, Settling
<1>2. CASE Start(p)
  BY <1>1, <1>2 DEF Start, bookVars
<1>3. CASE ~Start(p)
  <2>1. todo'[p][s] = todo[p][s]
    BY <1>3, SnapshotStep
  <2>2. (pc'[p] = pc[p] /\ at'[p] = at[p]) \/ Raise(p) \/ Crash(p) \/ Settle(p)
    BY <1>3, OwnStep
  <2>3. pc[p] \in Active
    <3>1. CASE Raise(p) \/ Crash(p) \/ Settle(p)
      BY <1>1, <3>1 DEF Raise, Crash, Settle, Unreadable, Missing, Fetch, SaveFill, Update, Stamp,
               Arm, Place, PlaceFails, Mark, Note, Finish, Hold, Stopped
    <3>. QED  BY <2>2, <3>1
  <2>4. s = at[p] => pc[p] \in {"poll", "fill", "update"}
    BY <2>2, PastUpdate
  <2>5. orders[s].status = todo[p][s].status /\ orders[s].filled = todo[p][s].filled /\ Recorded(s)
    BY <1>1, <2>1, <2>3, <2>4 DEF SnapshotIsFresh, SnapshotOfRows
  <2>6. CASE RowStays(s)
    BY <2>1, <2>5, <2>6 DEF RowStays
  <2>7. ASSUME NEW q \in Passes, Update(q), s = at[q]
        PROVE  FALSE
    <3>1. pc[q] \in Active /\ pc[q] = "update"
      BY <2>7 DEF Update, Active, Settling
    <3>2. p = q
      BY <1>1, <2>3, <3>1 DEF OnePass
    <3>. QED  BY <2>7, <3>1, <3>2, PastUpdate DEF Settle
  <2>. QED  BY <2>6, <2>7, RowsStep
<1>. QED  BY <1>2, <1>3

\* Only SaveFill adds fill rows, to the order it is at.
LEMMA FillsStep ==
  ASSUME TypeOK, [Next]_vars, NEW s \in Slots
  PROVE  \/ fills'[s] = fills[s]
         \/ \E p \in Passes : /\ SaveFill(p) /\ UNCHANGED history /\ s = at[p]
                              /\ fills'[s] = fills[s] + NewlyFilled(p)
<1>1. fills \in [Slots -> Nat]
  BY DEF TypeOK
<1>2. ASSUME NEW p \in Passes, SaveFill(p)
      PROVE  \/ fills'[s] = fills[s]
             \/ s = at[p] /\ fills'[s] = fills[s] + NewlyFilled(p)
  BY <1>1, <1>2 DEF SaveFill
<1>3. ASSUME NEW p \in Passes, Start(p) \/ Raise(p) \/ Crash(p)
      PROVE  fills' = fills
  BY <1>3 DEF Start, Raise, Crash, exitVars
<1>4. ASSUME NEW p \in Passes, Settle(p), ~SaveFill(p)
      PROVE  fills' = fills
  BY <1>4 DEF Settle, Unreadable, Missing, Fetch, Update, Stamp, Arm, Place, PlaceFails, Mark,
         Note, Finish, Hold, exitVars
<1>5. UNCHANGED vars \/ UNCHANGED exitVars => fills' = fills
  BY DEF vars, exitVars
<1>. QED
  BY <1>2, <1>3, <1>4, <1>5 DEF Next

\* Alone and never cut off, a pass about to write a row has saved just what is new.
LEMMA ExactStep ==
  ASSUME TypeOK, BookIsSound, SnapshotOfRows, OnePass, FillsAddUp, FillsAreExact, [Next]_vars
  PROVE  FillsAreExact'
<1>. SUFFICES ASSUME alone', intact', NEW p \in Passes, pc'[p] = "update"
              PROVE  fills'[at'[p]] = orders'[at'[p]].filled + NewlyFilled(p)'
  BY DEF FillsAreExact
<1>1. /\ alone /\ intact
      /\ pc \in [Passes -> Stopped \cup Active]
      /\ at[p] \in Slots
  BY HistoryStep, TypeParts DEF PassesTyped
<1>2. CASE pc'[p] = pc[p] /\ todo'[p] = todo[p] /\ at'[p] = at[p] /\ seen'[p] = seen[p]
  <2>1. NewlyFilled(p)' = NewlyFilled(p) /\ pc[p] \in Active /\ pc[p] \in Settling
    BY <1>2 DEF NewlyFilled, Row0, Active, Settling
  <2>2. Recorded(at[p])
    BY <1>1, <2>1, Reading DEF SnapshotOfRows
  <2>3. orders'[at[p]].filled = orders[at[p]].filled
    <3>1. ASSUME NEW q \in Passes, Update(q)
          PROVE  FALSE
      <4>1. pc[q] \in Active
        BY <3>1 DEF Update, Active, Settling
      <4>2. p = q
        BY <1>1, <2>1, <4>1 DEF OnePass
      <4>. QED  BY <1>1, <3>1, <4>2 DEF Update, NextRow, Goto
    <3>. QED  BY <1>1, <2>2, <3>1, RowsStep DEF RowStays
  <2>4. fills'[at[p]] = fills[at[p]]
    <3>1. ASSUME NEW q \in Passes, SaveFill(q)
          PROVE  FALSE
      <4>1. pc[q] \in Active /\ pc[q] = "fill"
        BY <3>1 DEF SaveFill, Active, Settling
      <4>2. p = q
        BY <1>1, <2>1, <4>1 DEF OnePass
      <4>. QED  BY <1>2, <4>1, <4>2
    <3>. QED  BY <1>1, <3>1, FillsStep
  <2>. QED  BY <1>1, <1>2, <2>1, <2>3, <2>4 DEF FillsAreExact
<1>3. CASE SaveFill(p)
  <2>1. pc[p] = "fill" /\ pc[p] \in Settling /\ pc[p] \in Active /\ UNCHANGED <<orders, todo, at, seen>>
    BY <1>3 DEF SaveFill, bookVars, Settling, Active
  <2>2. NewlyFilled(p)' = NewlyFilled(p)
    BY <2>1 DEF NewlyFilled, Row0
  <2>3. Recorded(at[p])
    BY <1>1, <2>1, Reading DEF SnapshotOfRows
  <2>4. \A q \in Passes : ~(pc[q] = "update" /\ at[q] = at[p])
    BY <1>1, <2>1 DEF OnePass, Active, Settling
  <2>5. fills[at[p]] = orders[at[p]].filled
    BY <1>1, <2>3, <2>4 DEF FillsAddUp
  <2>6. fills'[at[p]] = fills[at[p]] + NewlyFilled(p)
    BY <1>1, <1>3 DEF SaveFill, TypeOK
  <2>. QED  BY <2>1, <2>2, <2>5, <2>6
<1>4. CASE Update(p)
  BY <1>1, <1>4 DEF Update, NextRow, Goto
<1>5. CASE Start(p) \/ Unreadable(p) \/ Missing(p) \/ Fetch(p) \/ Arm(p) \/ Place(p)
           \/ PlaceFails(p) \/ Mark(p)
  BY <1>1, <1>5 DEF Start, Unreadable, Missing, Fetch, Arm, Place, PlaceFails, Mark, Goto
<1>6. CASE Raise(p) \/ Crash(p) \/ Finish(p) \/ Hold(p) \/ Stamp(p) \/ Note(p)
  BY <1>1, <1>6 DEF Raise, Crash, Finish, Hold, Stamp, Note, NextRow, Exit, Goto
<1>. QED
  BY <1>2, <1>3, <1>4, <1>5, <1>6, OwnStep DEF Settle

\* What a row calls filled has its fill rows; alone and never cut off, exactly.
LEMMA AddUpStep ==
  ASSUME TypeOK, BookIsSound, SnapshotOfRows, ArmsAFill, FillIsSaved, SnapshotIsFresh,
         FillsAreExact, FillsAddUp, [Next]_vars
  PROVE  FillsAddUp'
<1>. SUFFICES ASSUME NEW s \in Slots, Recorded(s)'
              PROVE  /\ fills'[s] >= orders'[s].filled
                     /\ alone' /\ intact' /\ (\A p \in Passes : ~(pc'[p] = "update" /\ at'[p] = s))
                          => fills'[s] = orders'[s].filled
  BY DEF FillsAddUp
<1>1. /\ Recorded(s) /\ orders[s].filled \in Nat
      /\ fills[s] \in Nat /\ fills'[s] \in Nat /\ fills'[s] >= fills[s]
  <2>1. Recorded(s) /\ orders \in [Slots -> Row \cup {NoRow}]
    BY RowsStep DEF TypeOK, BookTypeOK
  <2>. QED  BY <2>1, ExitsStep DEF Recorded, Row, ExitsTyped, TypeOK
<1>2. fills[s] >= orders[s].filled
  BY <1>1 DEF FillsAddUp
<1>3. ASSUME NEW p \in Passes, Update(p), s = at[p]
      PROVE  /\ orders'[s].filled = IF NewlyFilled(p) > 0 THEN seen[p].filled ELSE orders[s].filled
             /\ fills'[s] = fills[s]
             /\ pc[p] = "update" /\ pc[p] \in Active /\ pc[p] \in Settling
  BY <1>3, UpdateWrites DEF Update, exitVars, Active, Settling
<1>4. fills'[s] >= orders'[s].filled
  <2>1. CASE RowStays(s)
    BY <1>1, <1>2, <2>1 DEF RowStays
  <2>2. ASSUME NEW p \in Passes, Update(p), s = at[p]
        PROVE  fills'[s] >= orders'[s].filled
    BY <1>2, <1>3, <2>2 DEF FillIsSaved
  <2>. QED  BY <2>1, <2>2, RowsStep
<1>5. ASSUME alone', intact', \A p \in Passes : ~(pc'[p] = "update" /\ at'[p] = s)
      PROVE  fills'[s] = orders'[s].filled
  <2>1. alone /\ intact
    BY <1>5, HistoryStep
  <2>2. ASSUME NEW p \in Passes, pc[p] = "update", at[p] = s
        PROVE  fills'[s] = orders'[s].filled
    <3>1. Update(p)
      BY <1>5, <2>2, OwnStep, HistoryStep DEF Settle, Start, Unreadable, Missing, Fetch, SaveFill,
         Stamp, Arm, Place, PlaceFails, Mark, Note, Finish, Hold, Stopped
    <3>2. fills[s] = orders[s].filled + NewlyFilled(p)
      BY <2>1, <2>2 DEF FillsAreExact
    <3>3. /\ NewlyFilled(p) \in Nat
          /\ NewlyFilled(p) > 0 => seen[p].filled = Row0(p).filled + NewlyFilled(p)
          /\ todo[p][s] # NoRow
      BY <1>3, <2>2, <3>1, Reading
    <3>4. orders[s].filled = Row0(p).filled
      BY <1>3, <2>1, <2>2, <3>1, <3>3 DEF SnapshotIsFresh, Row0
    <3>. QED  BY <1>1, <1>3, <2>2, <3>1, <3>2, <3>3, <3>4
  <2>3. CASE \A p \in Passes : ~(pc[p] = "update" /\ at[p] = s)
    <3>1. fills[s] = orders[s].filled
      BY <1>1, <2>1, <2>3 DEF FillsAddUp
    <3>2. RowStays(s)
      BY <2>3, RowsStep DEF Update
    <3>3. ASSUME NEW p \in Passes, SaveFill(p), s = at[p]
          PROVE  FALSE
      BY <1>5, <3>3 DEF SaveFill, Goto, TypeOK
    <3>4. fills'[s] = fills[s]
      BY <3>3, FillsStep
    <3>. QED  BY <1>1, <3>1, <3>2, <3>4 DEF RowStays
  <2>. QED  BY <2>2, <2>3
<1>. QED  BY <1>4, <1>5

-----------------------------------------------------------------------------
(* The theorems. *)

\* A chosen number of rows left behind by trade.py starts the invariant off.
LEMMA IInit == Init => IInv
<1>. SUFFICES ASSUME Init
              PROVE  IInv
  OBVIOUS
<1>1. /\ 0 \in Sessions /\ 0 \in 0..Qty /\ 0 \in 0..MaxClock
      /\ (CHOOSE q \in Prices : TRUE) \in Prices
  BY DEF Sessions
<1>2. \A i \in Sigs : Ask(i) \in Bodies /\ OpenOrder(i) \in Order /\ FirstId(i) \in Slots
  <2>1. 1 \in Sigs /\ 0 \in Days
    BY DEF Sigs, Days
  <2>. QED  BY <1>1, <2>1 DEF Ask, Bodies, OpenOrder, Order, OrderStates, FirstId, Slots, Keys
<1>3. \A status \in {"submitted", "unknown"}, known \in BOOLEAN :
        /\ LeftBehind(status, known) \in Row
        /\ LeftBehind(status, known).filled = 0
        /\ LeftBehind(status, known).status = status
  <2>1. /\ "submitted" \in Statuses /\ "unknown" \in Statuses /\ "pending" \in Statuses
        /\ "live" \in Modes
    BY DEF Statuses, OpenStatuses, Modes
  <2>2. /\ FreshRow("live", 0) \in Row /\ FreshRow("live", 0).filled = 0
    BY <1>1, <2>1 DEF FreshRow, Row
  <2>. SUFFICES ASSUME NEW status \in {"submitted", "unknown"}, NEW known \in BOOLEAN
                PROVE  /\ LeftBehind(status, known) \in Row
                       /\ LeftBehind(status, known).filled = 0
                       /\ LeftBehind(status, known).status = status
    OBVIOUS
  <2> DEFINE fresh == FreshRow("live", 0)
  <2>3. LeftBehind(status, known) = [fresh EXCEPT !.status = status, !.hasId = known]
    BY Zenon DEF LeftBehind
  <2>4. fresh \in Row /\ fresh.filled = 0
    BY <2>2
  <2>. HIDE DEF fresh
  <2>5. /\ [fresh EXCEPT !.status = status, !.hasId = known] \in Row
        /\ [fresh EXCEPT !.status = status, !.hasId = known].filled = fresh.filled
        /\ [fresh EXCEPT !.status = status, !.hasId = known].status = status
    BY <2>1, <2>3, <2>4 DEF Row
  <2>. QED
    BY <2>3, <2>4, <2>5, Zenon
<1>4. PICK left \in SUBSET Sigs :
        \E status \in [left -> {"submitted", "unknown"}], fate \in [left -> {"held", "late", "lost"}],
           named \in SUBSET left :
          /\ orders = RowsLeft(left, status, named)
          /\ broker = OrdersLeft(left, fate)
          /\ late = LateLeft(left, fate)
  BY DEF Init
<1>5. PICK status \in [left -> {"submitted", "unknown"}], fate \in [left -> {"held", "late", "lost"}],
           named \in SUBSET left :
          /\ orders = RowsLeft(left, status, named)
          /\ broker = OrdersLeft(left, fate)
          /\ late = LateLeft(left, fate)
  BY <1>4
<1>6. \A s \in Slots :
        orders[s] = NoRow \/ \E st \in {"submitted", "unknown"}, known \in BOOLEAN : orders[s] = LeftBehind(st, known)
  <2>1. ASSUME NEW s \in Slots, NEW i \in left, s = FirstId(i)
        PROVE  \E st \in {"submitted", "unknown"}, known \in BOOLEAN : orders[s] = LeftBehind(st, known)
    <3>1. PICK j \in left : j = CHOOSE k \in left : s = FirstId(k)
      BY <2>1
    <3>2. orders[s] = LeftBehind(status[j], j \in named)
      BY <1>5, <2>1, <3>1 DEF RowsLeft
    <3>3. status[j] \in {"submitted", "unknown"} /\ (j \in named) \in BOOLEAN
      BY <3>1
    <3>. QED  BY <3>2, <3>3
  <2>2. ASSUME NEW s \in Slots, ~(\E i \in left : s = FirstId(i))
        PROVE  orders[s] = NoRow
    BY <1>5, <2>2 DEF RowsLeft
  <2>. QED  BY <2>1, <2>2
<1>7. \A s \in Slots : broker[s] = NoOrder \/ \E i \in Sigs : broker[s] = OpenOrder(i)
  <2>1. ASSUME NEW s \in Slots, NEW i \in left, s = FirstId(i)
        PROVE  (CHOOSE j \in left : s = FirstId(j)) \in left
    BY <2>1
  <2>. QED  BY <1>5, <2>1 DEF OrdersLeft
<1>8. /\ orders \in [Slots -> Row \cup {NoRow}]
      /\ broker \in [Slots -> Order \cup {NoOrder}]
      /\ late \subseteq Requests
  <2>1. orders \in [Slots -> Row \cup {NoRow}]
    BY <1>3, <1>5, <1>6 DEF RowsLeft
  <2>2. broker \in [Slots -> Order \cup {NoOrder}]
    BY <1>2, <1>5, <1>7 DEF OrdersLeft
  <2>3. late \subseteq Requests
    BY <1>2, <1>5 DEF LateLeft, Requests
  <2>. QED  BY <2>1, <2>2, <2>3
<1>9. BookTypeOK
  BY <1>1, <1>8 DEF Init, BookTypeOK
<1>10. /\ \A p \in Passes : /\ pc[p] = "idle" /\ todo[p] = NoTodo /\ seen[p] = NoAnswer
                           /\ pc[p] \notin Settling /\ pc[p] \notin Active
      /\ \A s \in Slots : fills[s] = 0 /\ bracket[s] = 0
      /\ alone = TRUE /\ intact = TRUE
  BY DEF Init, Settling, Active
<1>11. TypeOK
  <2>1. PassesTyped
    BY <1>10, DefaultsTyped DEF Init, PassesTyped, Stopped
  <2>2. ExitsTyped
    BY <1>1 DEF Init, ExitsTyped
  <2>3. alone \in BOOLEAN /\ intact \in BOOLEAN
    BY DEF Init
  <2>. QED  BY <1>9, <2>1, <2>2, <2>3, TypeParts
<1>12. BookIsSound
  <2>0. \A i \in Sigs : OpenOrder(i).state = "open" /\ OpenOrder(i).filled = 0
    BY DEF OpenOrder
  <2>1. \A s \in Slots : Held(s) => broker[s].state = "open" /\ broker[s].filled = 0
    BY <1>7, <2>0 DEF Held
  <2>2. Qty # 0
    OBVIOUS
  <2>. QED  BY <2>1, <2>2 DEF BookIsSound
<1>13. AnswerIsTrue
  BY <1>10 DEF AnswerIsTrue, NoAnswer
<1>14. SnapshotOfRows /\ SnapshotIsFresh
  BY <1>10 DEF SnapshotOfRows, SnapshotIsFresh, NoTodo
<1>15. ArmsAFill /\ FillIsSaved /\ OnePass /\ FillsAreExact
  BY <1>10 DEF ArmsAFill, FillIsSaved, OnePass, FillsAreExact
<1>16. FillsAddUp /\ SettledIsTrue /\ BracketWithinFill
  BY <1>3, <1>6, <1>10 DEF FillsAddUp, SettledIsTrue, BracketWithinFill, Recorded
<1>. QED
  BY <1>11, <1>12, <1>13, <1>14, <1>15, <1>16 DEF IInv

\* Every step keeps it.
LEMMA IStep == IInv /\ [Next]_vars => IInv'
  BY TypeStep, BrokerStep, AnswerStep, SnapshotRowsStep, ArmsStep, SavedStep, OnePassStep,
     FreshStep, ExactStep, AddUpStep, SettledStep, BracketStep DEF IInv

\* The inductive invariant holds in every state.
LEMMA Invariant == Spec => []IInv
  BY IInit, IStep, PTL DEF Spec

\* However many passes overlap, repeat or die, whatever a row calls settled or filled is
\* true of the broker's order: _infer_status never runs ahead of the answer.
THEOREM SettledRowsAreTrue == Spec => []SettledIsTrue
<1>1. IInv => SettledIsTrue
  BY DEF IInv
<1>. QED  BY <1>1, Invariant, PTL

\* _arm_bracket never has the broker sell more shares than the entry has bought.
THEOREM BracketsAreCovered == Spec => []BracketWithinFill
<1>1. IInv => BracketWithinFill
  BY DEF IInv
<1>. QED  BY <1>1, Invariant, PTL

\* The `fills` collection never falls short of the rows, and where passes neither overlap
\* nor are cut off it is exact: save_fill before update_order, once per new fill.
THEOREM FillsAreComplete == Spec => []FillsAddUp
<1>1. IInv => FillsAddUp
  BY DEF IInv
<1>. QED  BY <1>1, Invariant, PTL

\* A row moves on only: the action a pass that was never overlapped may not take.
LEMMA AdvanceStep ==
  IInv /\ [Next]_vars =>
    [alone' => \A s \in Slots : Recorded(s) =>
       /\ orders'[s].filled >= orders[s].filled
       /\ orders[s].status \in RestStatuses => orders'[s].status = orders[s].status]_vars
<1>. SUFFICES ASSUME IInv, [Next]_vars, alone', NEW s \in Slots, Recorded(s)
              PROVE  /\ orders'[s].filled >= orders[s].filled
                     /\ orders[s].status \in RestStatuses => orders'[s].status = orders[s].status
  OBVIOUS
<1>1. orders[s].filled \in Nat /\ alone
  BY HistoryStep DEF IInv, TypeOK, BookTypeOK, Recorded, Row
<1>2. CASE RowStays(s)
  BY <1>1, <1>2 DEF RowStays
<1>3. ASSUME NEW p \in Passes, Update(p), s = at[p]
      PROVE  /\ orders'[s].filled >= orders[s].filled
             /\ orders[s].status \in RestStatuses => orders'[s].status = orders[s].status
  <2>1. pc[p] = "update" /\ pc[p] \in Active /\ pc[p] \in Settling
    BY <1>3 DEF Update, Active, Settling
  <2>2. /\ NewlyFilled(p) \in Nat
        /\ NewlyFilled(p) > 0 => seen[p].filled = Row0(p).filled + NewlyFilled(p)
        /\ todo[p][s] # NoRow
    BY <1>3, <2>1, Reading DEF IInv
  <2>3. /\ orders[s].filled = Row0(p).filled
        /\ orders[s].status \in OpenStatuses
    BY <1>1, <1>3, <2>1, <2>2 DEF IInv, SnapshotIsFresh, SnapshotOfRows, Row0
  <2>4. orders'[s].filled = IF NewlyFilled(p) > 0 THEN seen[p].filled ELSE orders[s].filled
    BY <1>3, UpdateWrites DEF IInv
  <2>. QED  BY <1>1, <2>2, <2>3, <2>4 DEF OpenStatuses, RestStatuses
<1>. QED  BY <1>2, <1>3, RowsStep DEF IInv

\* While passes do not overlap, none takes back a fill or reopens a settled row, wherever
\* the one before it was killed.
THEOREM OnlyForward == Spec => RowsOnlyAdvance
  BY Invariant, AdvanceStep, PTL DEF Spec, RowsOnlyAdvance
=============================================================================
