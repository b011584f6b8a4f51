------------------------------ MODULE Reconciler ------------------------------
(***************************************************************************)
(* `trade.py --reconcile` (src/execution/reconciler.py): a pass reads every *)
(* open LIVE row, asks the broker about each, writes the fills and the new *)
(* status, and registers the OCO bracket of a filled BUY.  Passes repeat,  *)
(* may overlap and may be killed between any two writes.                   *)
(***************************************************************************)
EXTENDS OrderBook

CONSTANTS
  Passes,      \* the processes that run --reconcile
  ByAmount,    \* keys whose signals name an amount of money, not of shares
  Bracketed,   \* keys whose signals are buys naming both exit legs
  MaxOpen,     \* bound: rows the first pass finds open
  Crashes,     \* may a pass be killed, or die of an exception?
  Repeats,     \* does the scheduler start a finished pass again?
  NoQty        \* the answer names no quantity this reader knows

ASSUME FlagsAreBoolean == Crashes \in BOOLEAN /\ Repeats \in BOOLEAN
ASSUME KeysAreKeys     == ByAmount \subseteq Keys /\ Bracketed \subseteq Keys
ASSUME NoQtyIsNoQty    == NoQty \notin Nat

VARIABLES
  pc,       \* where each pass is
  todo,     \* its snapshot of the open rows it has not settled yet
  at,       \* the row it is settling
  seen,     \* the broker's answer about that row
  armed,    \* did the broker take the bracket?
  found,    \* did the pass meet an anomaly?
  fills,    \* shares the `fills` collection holds for each order
  oco,      \* entry id -> row of `conditional_orders`
  bracket,  \* entry id -> shares of the OCO the broker holds, 0 without one
  alone,    \* history: no pass has started while another was running
  intact    \* history: no pass has been killed or died of an exception

passVars == <<pc, todo, at, seen, armed, found>>
exitVars == <<fills, oco, bracket>>
history  == <<alone, intact>>
vars     == <<bookVars, passVars, exitVars, history>>

\* What a status string says to this reader; "open" stands for silence too.  The
\* hints overlap: a word for a completed cancellation hints at both.
Words   == {"open", "complete", "cancel", "cancelComplete", "reject"}
Answers == [filled : 0..Qty \cup {NoQty}, word : Words, remaining : 0..Qty \cup {NoQty}]
OcoRow  == [qty : 0..Qty, status : {"pending", "failed", "registered"}]

ASSUME NoRowIsNoOco == NoRow \notin OcoRow

NoTodo   == [s \in Slots |-> NoRow]
NoAnswer == [filled |-> NoQty, word |-> "open", remaining |-> NoQty]
NoSlot   == CHOOSE s \in Slots : TRUE

Stopped == {"idle", "done", "lost", "dead"}
Left(p) == {s \in Slots : todo[p][s] # NoRow}
Row0(p) == todo[p][at[p]]   \* the row being settled, as the snapshot has it

-----------------------------------------------------------------------------
(***************************************************************************)
(* Reading the broker's answer.                                            *)
(***************************************************************************)
Word(s) == CASE broker[s].state = "open"     -> "open"
             [] broker[s].state = "filled"   -> "complete"
             [] broker[s].state = "canceled" -> "cancel"
             [] broker[s].state = "rejected" -> "reject"

\* The shape of an answer is not confirmed: any field may go unread, and of a
\* cancelled order what remains may be what will not be bought, or nothing.
AnswersFor(s) ==
  LET canceled == broker[s].state = "canceled" IN
  [filled    : {broker[s].filled, NoQty},
   word      : {Word(s), "open"} \cup (IF canceled THEN {"cancelComplete"} ELSE {}),
   remaining : {Qty - broker[s].filled, NoQty} \cup (IF canceled THEN {0} ELSE {})]

Reports(a, n) == a.filled # NoQty /\ a.filled > n

\* _reports_complete, and the cancellation hints.
ReportsComplete(a) == a.word \in {"complete", "cancelComplete"}
ReportsCancel(a)   == a.word \in {"cancel", "cancelComplete"}

\* Mutated form of InferStatus: any fill of an amount order is all of it.
InferStatusEager(a, exact) ==
  CASE Reports(a, 0) /\ exact ->
         IF a.filled >= Qty THEN "filled" ELSE "partially_filled"
    [] Reports(a, 0) /\ ~exact -> "filled"
    [] ~Reports(a, 0) /\ ReportsCancel(a) -> "canceled"
    [] ~Reports(a, 0) /\ a.word = "reject" -> "rejected"
    [] OTHER -> "same"

\* _infer_status; "same" stands for None.  `exact`: the order named a number
\* of shares to compare with.
InferStatus(a, exact) ==
  CASE Reports(a, 0) /\ exact ->
         IF a.filled >= Qty THEN "filled" ELSE "partially_filled"
    [] Reports(a, 0) /\ ~exact ->
         IF a.remaining = 0 \/ (a.remaining = NoQty /\ ReportsComplete(a))
         THEN "filled" ELSE "partially_filled"
    [] ~Reports(a, 0) /\ ReportsCancel(a) -> "canceled"
    [] ~Reports(a, 0) /\ a.word = "reject" -> "rejected"
    [] OTHER -> "same"

NewStatus(p)   == InferStatus(seen[p], at[p][2] \notin ByAmount)
NewlyFilled(p) == IF Reports(seen[p], Row0(p).filled)
                  THEN seen[p].filled - Row0(p).filled ELSE 0

\* Complete, by the broker's word, with no quantity to record.
Unaccounted(p) ==
  NewStatus(p) = "same" /\ seen[p].filled = NoQty /\ ReportsComplete(seen[p])

WantsBracket(p) ==
  /\ NewlyFilled(p) > 0
  /\ at[p][2] \in Bracketed
  /\ Row0(p).bracket # "registered"

-----------------------------------------------------------------------------
Goto(p, where) == pc' = [pc EXCEPT ![p] = where]

\* On to the next row of the snapshot.
NextRow(p) ==
  /\ Goto(p, "poll")
  /\ todo' = [todo EXCEPT ![p][at[p]] = NoRow]
  /\ at' = [at EXCEPT ![p] = NoSlot]
  /\ seen' = [seen EXCEPT ![p] = NoAnswer]
  /\ armed' = [armed EXCEPT ![p] = FALSE]

Exit(p, how) ==
  /\ Goto(p, how)
  /\ todo' = [todo EXCEPT ![p] = NoTodo]
  /\ at' = [at EXCEPT ![p] = NoSlot]
  /\ seen' = [seen EXCEPT ![p] = NoAnswer]
  /\ armed' = [armed EXCEPT ![p] = FALSE]
  /\ found' = [found EXCEPT ![p] = FALSE]

\* run(): pending_orders is read once, before the first question.
Start(p) ==
  /\ pc[p] = "idle" \/ (Repeats /\ pc[p] \in Stopped)
  /\ alone' = (alone /\ \A q \in Passes : pc[q] \in Stopped)
  /\ Goto(p, "poll")
  /\ todo' = [todo EXCEPT ![p] =
         [s \in Slots |-> IF s \in PendingOrders THEN orders[s] ELSE NoRow]]
  /\ UNCHANGED <<bookVars, exitVars, at, seen, armed, found, intact>>

\* _fetch raised TossApiError: retried by the next pass.
Unreadable(p) ==
  /\ pc[p] = "poll"
  /\ \E s \in Left(p) : todo' = [todo EXCEPT ![p][s] = NoRow]
  /\ UNCHANGED <<bookVars, exitVars, pc, at, seen, armed, found>>

\* _find_by_client_id: the history was read and this id is not in it, because
\* the broker has no such order or because the list stops short of it.
Missing(p) ==
  /\ pc[p] = "poll"
  /\ \E s \in Left(p) : /\ ~todo[p][s].hasId
                        /\ at' = [at EXCEPT ![p] = s]
  /\ Goto(p, "stamp")
  /\ UNCHANGED <<bookVars, exitVars, todo, seen, armed, found>>

\* get_order by the id Toss assigned, or the history's entry for ours.
Fetch(p) ==
  /\ pc[p] = "poll"
  /\ \E s \in Left(p) :
       /\ Held(s)
       /\ at' = [at EXCEPT ![p] = s]
       /\ \E a \in AnswersFor(s) : seen' = [seen EXCEPT ![p] = a]
  /\ Goto(p, "fill")
  /\ UNCHANGED <<bookVars, exitVars, todo, armed, found>>

\* Mutated form of SaveFill: the fill row waits for the last of the order.
SaveFillAtTheEnd(p) ==
  /\ pc[p] = "fill"
  /\ fills' = [fills EXCEPT ![at[p]] = IF seen[p].filled = Qty THEN Qty ELSE @]
  /\ Goto(p, "update")
  /\ UNCHANGED <<bookVars, oco, bracket, todo, at, seen, armed, found>>

\* save_fill, when there is a new fill to append.
SaveFill(p) ==
  /\ pc[p] = "fill"
  /\ fills' = [fills EXCEPT ![at[p]] = @ + NewlyFilled(p)]
  /\ Goto(p, "update")
  /\ UNCHANGED <<bookVars, oco, bracket, todo, at, seen, armed, found>>

\* Mutated form of Update: an unread quantity is written as none.
UpdateUnread(p) ==
  /\ pc[p] = "update"
  /\ \E named \in BOOLEAN : orders' =
       [orders EXCEPT
         ![at[p]].hasId  = @ \/ named,
         ![at[p]].filled = IF seen[p].filled = NoQty THEN 0 ELSE seen[p].filled,
         ![at[p]].status = IF NewStatus(p) = "same" THEN @ ELSE NewStatus(p)]
  /\ NextRow(p)
  /\ UNCHANGED <<broker, late, killed, clock, exitVars, found>>

\* update_order with what changed against the snapshot, and where that leads.
\* The answer may or may not have named the order's id.
Update(p) ==
  /\ pc[p] = "update"
  /\ \E named \in BOOLEAN : orders' =
       [orders EXCEPT
         ![at[p]].hasId  = @ \/ named,
         ![at[p]].filled = IF NewlyFilled(p) > 0 THEN seen[p].filled ELSE @,
         ![at[p]].status = IF NewStatus(p) \in {"same", Row0(p).status} THEN @ ELSE NewStatus(p)]
  /\ \/ Unaccounted(p)  /\ Goto(p, "stamp") /\ UNCHANGED <<todo, at, seen, armed>>
     \/ WantsBracket(p) /\ Goto(p, "arm")   /\ UNCHANGED <<todo, at, seen, armed>>
     \/ ~Unaccounted(p) /\ ~WantsBracket(p) /\ NextRow(p)
  /\ UNCHANGED <<broker, late, killed, clock, exitVars, found>>

\* _anomaly: reported once per order, which the stamp on the row remembers.
Stamp(p) ==
  /\ pc[p] = "stamp"
  /\ IF Row0(p).incident THEN UNCHANGED <<orders, found>>
     ELSE /\ found' = [found EXCEPT ![p] = TRUE]
          /\ orders' = [orders EXCEPT ![at[p]].incident = TRUE]
  /\ NextRow(p)
  /\ UNCHANGED <<broker, late, killed, clock, exitVars>>

-----------------------------------------------------------------------------
(***************************************************************************)
(* _arm_bracket, one action per write.                                     *)
(***************************************************************************)
\* save_conditional_order: create, whose AlreadyExists is swallowed.
Arm(p) ==
  /\ pc[p] = "arm"
  /\ oco' = [oco EXCEPT ![at[p]] =
         IF @ # NoRow THEN @ ELSE [qty |-> seen[p].filled, status |-> "pending"]]
  /\ Goto(p, "place")
  /\ UNCHANGED <<bookVars, fills, bracket, todo, at, seen, armed, found>>

\* Mutated form of Place: for all the order asked for.
PlaceInFull(p) ==
  /\ pc[p] = "place"
  /\ bracket' = [bracket EXCEPT ![at[p]] = Qty]
  /\ armed' = [armed EXCEPT ![p] = TRUE]
  /\ Goto(p, "mark")
  /\ UNCHANGED <<bookVars, fills, oco, todo, at, seen, found>>

\* The broker takes the bracket, and answers or not; a second one under the
\* same id is the first one if it asks for the same, and a conflict if not.
Place(p) ==
  /\ pc[p] = "place"
  /\ bracket[at[p]] \in {0, seen[p].filled}
  /\ bracket' = [bracket EXCEPT ![at[p]] = seen[p].filled]
  /\ \E answered \in BOOLEAN : armed' = [armed EXCEPT ![p] = answered]
  /\ Goto(p, "mark")
  /\ UNCHANGED <<bookVars, fills, oco, todo, at, seen, found>>

\* TossApiError from place_conditional_order, with nothing registered by it.
PlaceFails(p) ==
  /\ pc[p] = "place"
  /\ Goto(p, "mark")
  /\ UNCHANGED <<bookVars, exitVars, todo, at, seen, armed, found>>

\* update_conditional_order ...
Mark(p) ==
  /\ pc[p] = "mark"
  /\ oco' = [oco EXCEPT ![at[p]].status = IF armed[p] THEN "registered" ELSE "failed"]
  /\ Goto(p, "note")
  /\ UNCHANGED <<bookVars, fills, bracket, todo, at, seen, armed, found>>

\* ... and the entry's own row, which the next pass reads.
Note(p) ==
  /\ pc[p] = "note"
  /\ orders' = [orders EXCEPT ![at[p]].bracket = IF armed[p] THEN "registered" ELSE "failed"]
  /\ NextRow(p)
  /\ UNCHANGED <<broker, late, killed, clock, exitVars, found>>

-----------------------------------------------------------------------------
\* Mutated form of Finish: anomalies are printed, and that is all.
FinishQuietly(p) ==
  /\ pc[p] = "poll"
  /\ Left(p) = {}
  /\ Exit(p, "done")
  /\ UNCHANGED <<bookVars, exitVars>>

\* Every row is dealt with: anomalies hold trading.
Finish(p) ==
  /\ pc[p] = "poll"
  /\ Left(p) = {}
  /\ Exit(p, IF found[p] THEN "hold" ELSE "done")
  /\ UNCHANGED <<bookVars, exitVars>>

\* hold_trading never raises: a switch it cannot write is lost.
Hold(p) ==
  /\ pc[p] = "hold"
  /\ \/ killed' = TRUE /\ Exit(p, "done")
     \/ UNCHANGED killed /\ Exit(p, "lost")
  /\ UNCHANGED <<orders, broker, late, clock, exitVars>>

\* Any other exception unwinds to main(), which holds: --reconcile is LIVE.
Raise(p) ==
  /\ Crashes
  /\ pc[p] \notin Stopped \cup {"hold"}
  /\ Exit(p, "hold")
  /\ intact' = FALSE
  /\ UNCHANGED <<bookVars, exitVars, alone>>

Crash(p) ==
  /\ Crashes
  /\ pc[p] \notin Stopped
  /\ Exit(p, "dead")
  /\ intact' = FALSE
  /\ UNCHANGED <<bookVars, exitVars, alone>>

Settle(p) ==
  \/ Unreadable(p) \/ Missing(p) \/ Fetch(p) \/ SaveFill(p) \/ Update(p) \/ Stamp(p)
  \/ Arm(p) \/ Place(p) \/ PlaceFails(p) \/ Mark(p) \/ Note(p) \/ Finish(p) \/ Hold(p)

Environment ==
  \/ \E m \in late : LateArrival(m)
  \/ \E s \in Slots : BrokerFills(s) \/ BrokerEnds(s)
  \/ PullSwitch

\* Rows as trade.py leaves them for the first pass.
FirstId(i) == <<0, Batch[i], 1>>
Ask(i)     == [session |-> 0, sig |-> i, price |-> CHOOSE p \in Prices : TRUE]
LeftBehind(status, named) ==
  [FreshRow("live", 0) EXCEPT !.status = status, !.hasId = named]
OpenOrder(i) == [body |-> Ask(i), filled |-> 0, state |-> "open"]

RowsLeft(left, status, named) ==
  [s \in Slots |-> IF \E i \in left : s = FirstId(i)
                  THEN LET i == CHOOSE i \in left : s = FirstId(i)
                       IN  LeftBehind(status[i], i \in named)
                  ELSE NoRow]
OrdersLeft(left, fate) ==
  [s \in Slots |-> IF \E i \in left : s = FirstId(i) /\ fate[i] = "held"
                  THEN OpenOrder(CHOOSE i \in left : s = FirstId(i))
                  ELSE NoOrder]
LateLeft(left, fate) ==
  {[slot |-> FirstId(i), body |-> Ask(i)] : i \in {j \in left : fate[j] = "late"}}

\* An answered order is held, and its id may have been named; one of unknown fate is
\* held, on its way or lost.
Init ==
  /\ \E left \in SUBSET Sigs :
     \E status \in [left -> {"submitted", "unknown"}], fate \in [left -> {"held", "late", "lost"}],
        named \in SUBSET left :
       /\ Cardinality(left) <= MaxOpen
       /\ \A i \in left : status[i] = "submitted" => fate[i] = "held"
       /\ \A i \in named : status[i] = "submitted"
       /\ orders = RowsLeft(left, status, named)
       /\ broker = OrdersLeft(left, fate)
       /\ late = LateLeft(left, fate)
  /\ killed = FALSE
  /\ clock = 0
  /\ pc = [p \in Passes |-> "idle"]
  /\ todo = [p \in Passes |-> NoTodo]
  /\ at = [p \in Passes |-> NoSlot]
  /\ seen = [p \in Passes |-> NoAnswer]
  /\ armed = [p \in Passes |-> FALSE]
  /\ found = [p \in Passes |-> FALSE]
  /\ fills = [s \in Slots |-> 0]
  /\ oco = [s \in Slots |-> NoRow]
  /\ bracket = [s \in Slots |-> 0]
  /\ alone = TRUE /\ intact = TRUE

Next ==
  \/ \E p \in Passes : Start(p) \/ Raise(p) \/ Crash(p) \/ (Settle(p) /\ UNCHANGED history)
  \/ Environment /\ UNCHANGED <<passVars, exitVars, history>>

Spec == Init /\ [][Next]_vars

\* A pass that has started runs on, and a repeated job is started again.
FairSpec == Spec /\ \A p \in Passes : WF_vars(Start(p) \/ (Settle(p) /\ UNCHANGED history))

\* Besides, the broker's answer about a row is sooner or later one this reader
\* can read in full.
ReadsInFull(p, s) ==
  /\ Fetch(p) /\ UNCHANGED history
  /\ at'[p] = s
  /\ seen'[p] = [filled |-> broker[s].filled, word |-> Word(s), remaining |-> Qty - broker[s].filled]

ReadableSpec == FairSpec /\ \A p \in Passes, s \in Slots : SF_vars(ReadsInFull(p, s))

-----------------------------------------------------------------------------
\* Every variable holds a value the code can put there, and the pass is at a
\* row of its own snapshot.
TypeOK ==
  /\ BookTypeOK
  /\ pc \in [Passes -> Stopped \cup {"poll", "fill", "update", "stamp", "arm", "place",
                                      "mark", "note", "hold"}]
  /\ todo \in [Passes -> [Slots -> Row \cup {NoRow}]]
  /\ at \in [Passes -> Slots]
  /\ seen \in [Passes -> Answers]
  /\ armed \in [Passes -> BOOLEAN] /\ found \in [Passes -> BOOLEAN]
  /\ fills \in [Slots -> Nat]
  /\ oco \in [Slots -> OcoRow \cup {NoRow}]
  /\ bracket \in [Slots -> 0..Qty]
  /\ alone \in BOOLEAN /\ intact \in BOOLEAN
  /\ \A p \in Passes : pc[p] \notin Stopped \cup {"poll", "hold"} => at[p] \in Left(p)

\* save_fill comes before update_order, so a pass cut off between the two can repeat
\* a fill but not lose one: whatever a row calls filled has fill rows behind it.
\* While passes neither overlap nor are cut off, these add up exactly to the filled
\* quantity, over any number of partial fills.
FillsAddUp ==
  \A s \in Slots : Recorded(s) =>
    /\ fills[s] >= orders[s].filled
    /\ alone /\ intact /\ (\A p \in Passes : ~(pc[p] = "update" /\ at[p] = s))
         => fills[s] = orders[s].filled

\* What a status says of the broker's order.
SettlesAs(s, status) ==
  /\ Held(s)
  /\ \/ broker[s].state = status
     \/ /\ s[2] \in ByAmount /\ status = "filled"
        /\ broker[s].state = "canceled" /\ broker[s].filled > 0

\* A settled row is true of the broker: no pass, however stale its snapshot or
\* its answer, settles an order that is still open, or as something it is not, or as
\* more than it is.  Only a cancelled order by amount may pass for filled, with the
\* shares it got: what remains of it, or the word for it, says it is complete.
SettledIsTrue ==
  \A s \in Slots : Recorded(s) =>
    /\ orders[s].status \in {"filled", "canceled", "rejected"} => SettlesAs(s, orders[s].status)
    /\ orders[s].filled > 0 => Held(s) /\ broker[s].filled >= orders[s].filled

\* While passes do not overlap, none takes back a fill or reopens a settled row,
\* wherever the one before it was cut off.
RowsOnlyAdvance ==
  [][alone' => \A s \in Slots : Recorded(s) =>
       /\ orders'[s].filled >= orders[s].filled
       /\ orders[s].status \in RestStatuses => orders'[s].status = orders[s].status]_vars

\* An exit bracket never sells more than its entry has bought.
BracketWithinFill ==
  \A s \in Slots : bracket[s] > 0 => Held(s) /\ bracket[s] <= broker[s].filled

\* An order whose state a pass cannot make sense of holds trading, unless the
\* process is killed first or the switch cannot be written.
AnomalyHoldsTrading ==
  \A p \in Passes : found[p] ~> (killed \/ pc[p] \in {"lost", "dead"})

\* Polling settles: an order the broker has filled is sooner or later "filled"
\* in the store, from unknown and partially_filled as from submitted.
FilledIsRecorded ==
  \A s \in Slots :
    (Recorded(s) /\ Held(s) /\ broker[s].state = "filled") ~> (Recorded(s) /\ orders[s].status = "filled")
=============================================================================
