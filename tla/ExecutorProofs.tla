--------------------------- MODULE ExecutorProofs ---------------------------
(***************************************************************************)
(* What holds of the order executor for every batch, every number of runs, *)
(* every retry bound and every daily limit; where runs may overlap, and    *)
(* where they may not.                                                     *)
(***************************************************************************)
EXTENDS Executor, FiniteSetTheorems, TLAPS

USE BatchIsFinite, QtyIsPositive, ClockIsBounded, RetriesAssumption,
    MaxOrdersAssumption, OverlapAssumption, SomePrice, SomeSignal,
    NoRowIsNoRow, NoOrderIsNoOrder

-----------------------------------------------------------------------------
(* The inductive invariant. *)

\* A run submits under the id _identify gives the signal it is at.
SubmitsUnderItsId ==
  \A r \in Runs : pc[r] \in {"save", "send", "finish"} => Slot(r) = Identify(r, cursor[r])

\* Past save_order, the run's id has its row.
RowIsWritten ==
  \A r \in Runs : pc[r] \in {"send", "finish"} => Recorded(Slot(r))

LoopInv == TypeOK /\ SubmitsUnderItsId /\ RowIsWritten

-----------------------------------------------------------------------------
(* Lemmas about the ids and the loop. *)

\* Batch lengths are naturals and every signal has a key.
LEMMA BatchFacts == /\ Len(Batch) \in Nat
                    /\ Len(Batch) >= 1
                    /\ \A i \in Sigs : i \in Nat /\ i >= 1 /\ Batch[i] \in Keys
  BY DEF Sigs, Keys

\* Session dates and wall-clock days stay within their bounds.
LEMMA DayFacts ==
  ASSUME clock \in 0..MaxClock
  PROVE  SessionDate \in Sessions /\ Sessions \subseteq Days
  BY DEF SessionDate, Sessions, Days

\* There is an id for a process that submits nothing to carry.
LEMMA DefaultsTyped == /\ NoCtx \in Contexts
                       /\ NoCall \in Calls
                       /\ NoOutcome \in Outcomes
<1>1. 0 \in Sessions /\ 0 \in Days
  BY DEF Sessions, Days
<1>2. <<0, Batch[1], 1>> \in Slots
  BY <1>1, BatchFacts DEF Slots, Sigs
<1>3. (CHOOSE s \in Slots : TRUE) \in Slots
  BY <1>2
<1>4. (CHOOSE p \in Prices : TRUE) \in Prices
  OBVIOUS
<1>. QED
  BY <1>1, <1>3, <1>4 DEF NoCtx, NoCall, NoOutcome, Contexts, Calls, Outcomes,
                          Modes, Statuses, OpenStatuses, RestStatuses

\* seq numbers the intents of one run: it never leaves the range of the ids.
LEMMA SlotTyped ==
  ASSUME TypeOK, NEW r \in Runs, NEW i \in ctx[r].approved
  PROVE  Identify(r, i) \in Slots
<1> DEFINE Same == {j \in ctx[r].approved : j <= i /\ Batch[j] = Batch[i]}
<1>1. /\ ctx[r].approved \subseteq Sigs
      /\ ctx[r].session \in Days
  BY DayFacts DEF TypeOK, BookTypeOK, Contexts, Sessions, Days
<1>2. /\ IsFiniteSet(1..Len(Batch))
      /\ Cardinality(1..Len(Batch)) = Len(Batch)
  BY BatchFacts, FS_Interval
<1>3. /\ IsFiniteSet(Same)
      /\ Cardinality(Same) <= Len(Batch)
  BY <1>1, <1>2, FS_Subset DEF Sigs
<1>4. Cardinality(Same) \in Nat /\ Cardinality(Same) # 0
  <2>1. i \in Same
    BY <1>1, BatchFacts
  <2>. QED  BY <2>1, <1>3, FS_EmptySet, FS_CardinalityType
<1>5. Cardinality(Same) \in Sigs
  BY <1>3, <1>4, BatchFacts DEF Sigs
<1>6. Batch[i] \in Keys
  BY <1>1, BatchFacts
<1>. QED
  BY <1>1, <1>5, <1>6 DEF Identify, Slots

\* An id begins with the session and the key it is for.
LEMMA IdentifyFacts ==
  ASSUME NEW r, NEW i
  PROVE  Identify(r, i)[1] = ctx[r].session /\ Identify(r, i)[2] = Batch[i]
<1>1. \E n : Identify(r, i) = <<ctx[r].session, Batch[i], n>>
  BY DEF Identify
<1>. QED
  BY <1>1

-----------------------------------------------------------------------------
(* Type correctness. *)

\* The statuses and modes the actions write are among those of a row.
LEMMA StatusFacts ==
  /\ {"pending", "simulated", "submitted", "failed", "unknown"} \subseteq Statuses
  /\ Modes = {"live", "paper"}
  BY DEF Statuses, OpenStatuses, RestStatuses, Modes

\* The broker's book stays typed when it accepts a typed body.
LEMMA AcceptTyped ==
  ASSUME BookTypeOK, NEW s \in Slots, NEW b \in Bodies, Accept(s, b)
  PROVE  broker' \in [Slots -> Order \cup {NoOrder}]
<1>1. [body |-> b, filled |-> 0, state |-> "open"] \in Order
  BY DEF Order, OrderStates
<1>. QED
  BY <1>1 DEF BookTypeOK, Accept

\* The request a run has on the way is a request.
LEMMA RequestTyped ==
  ASSUME TypeOK, NEW r \in Runs, pc[r] \in {"save", "send", "finish"}
  PROVE  /\ Slot(r) \in Slots
         /\ Body(r) \in Bodies
         /\ [slot |-> Slot(r), body |-> Body(r)] \in Requests
  BY DEF TypeOK, Slot, Body, Bodies, Requests, Calls, Contexts

\* A run that ends leaves its local state typed.
LEMMA ExitTyped ==
  ASSUME TypeOK, BookTypeOK', NEW r \in Runs, NEW how \in {"done", "lost", "dead"}, Exit(r, how)
  PROVE  TypeOK'
  BY DefaultsTyped DEF TypeOK, Exit, PCs

\* So does the end of a call ...
LEMMA SettleWithTyped ==
  ASSUME TypeOK, NEW r \in Runs, pc[r] = "send",
         NEW o \in Outcomes, SettleWith(r, o), UNCHANGED <<ctx, cursor>>
  PROVE  /\ pc' \in [Runs -> PCs]
         /\ call' \in [Runs -> Calls]
         /\ outcome' \in [Runs -> Outcomes]
         /\ \A q \in Runs : pc'[q] \in {"save", "send", "finish"} => cursor'[q] \in ctx'[q].approved
  BY DEF TypeOK, SettleWith, PCs

\* ... with an id or without ...
LEMMA SettleTyped ==
  ASSUME TypeOK, NEW r \in Runs, pc[r] = "send",
         NEW status \in Statuses, NEW expected \in BOOLEAN, NEW fatal \in BOOLEAN,
         Settle(r, status, expected, fatal), UNCHANGED <<ctx, cursor>>
  PROVE  /\ pc' \in [Runs -> PCs]
         /\ call' \in [Runs -> Calls]
         /\ outcome' \in [Runs -> Outcomes]
         /\ \A q \in Runs : pc'[q] \in {"save", "send", "finish"} => cursor'[q] \in ctx'[q].approved
<1>1. [status |-> status, expected |-> expected, fatal |-> fatal, gotId |-> FALSE] \in Outcomes
  BY DEF Outcomes
<1>. QED
  BY <1>1, SettleWithTyped DEF Settle

\* ... which changes nothing else where it leaves the book alone ...
LEMMA SettledTyped ==
  ASSUME TypeOK, NEW r \in Runs, pc[r] = "send",
         NEW status \in Statuses, NEW expected \in BOOLEAN, NEW fatal \in BOOLEAN,
         Settle(r, status, expected, fatal), UNCHANGED <<bookVars, ctx, cursor>>
  PROVE  TypeOK'
<1>1. /\ pc' \in [Runs -> PCs]
      /\ call' \in [Runs -> Calls]
      /\ outcome' \in [Runs -> Outcomes]
      /\ \A q \in Runs : pc'[q] \in {"save", "send", "finish"} => cursor'[q] \in ctx'[q].approved
  BY SettleTyped
<1>2. BookTypeOK' /\ UNCHANGED <<ctx, cursor>>
  BY DEF TypeOK, BookTypeOK, bookVars
<1>. QED
  BY <1>1, <1>2 DEF TypeOK

\* ... and a retry, which the bound keeps in range.
LEMMA TryAgainTyped ==
  ASSUME TypeOK, NEW r \in Runs, TryAgain(r)
  PROVE  call' \in [Runs -> Calls]
<1>1. call[r].attempt + 1 \in 0..MaxRetries
  BY DEF TypeOK, Calls, TryAgain
<1>2. [call[r] EXCEPT !.attempt = @ + 1] \in Calls
  BY <1>1 DEF TypeOK, Calls
<1>. QED
  BY <1>2 DEF TypeOK, TryAgain

\* Each action keeps every variable in its type.
LEMMA TypeStep == LoopInv /\ [Next]_vars => TypeOK'
<1> SUFFICES ASSUME TypeOK, RowIsWritten, [Next]_vars PROVE TypeOK'
  BY DEF LoopInv
<1> USE DefaultsTyped, StatusFacts DEF PCs
<1>1. ASSUME NEW r \in Runs, BuildContext(r) PROVE TypeOK'
  BY <1>1, DayFacts DEF BuildContext, TypeOK, BookTypeOK, bookVars, Contexts
<1>2. ASSUME NEW r \in Runs, Lookup(r) PROVE TypeOK'
  <2>1. PICK i \in Sigs : /\ IsNext(r, i)
                          /\ cursor' = [cursor EXCEPT ![r] = i]
                          /\ IF Recorded(Identify(r, i)) THEN UNCHANGED <<pc, call>>
                             ELSE Proceed(r, Identify(r, i))
    BY <1>2 DEF Lookup
  <2>2. i \in ctx[r].approved /\ i \in Nat
    BY <2>1, BatchFacts DEF IsNext, Remaining
  <2>3. Identify(r, i) \in Slots
    BY <2>2, SlotTyped
  <2>4. [slot |-> Identify(r, i), price |-> ctx[r].price, attempt |-> 0,
         refreshed |-> FALSE, mayReclamp |-> TRUE] \in Calls
    BY <2>3 DEF Calls, TypeOK, Contexts
  <2>5. call' \in [Runs -> Calls]
    BY <2>1, <2>4 DEF Proceed, TypeOK
  <2>. QED
    BY <1>2, <2>1, <2>2, <2>5 DEF Lookup, Proceed, TypeOK, BookTypeOK, bookVars
<1>3. ASSUME NEW r \in Runs, Save(r) PROVE TypeOK'
  <2>1. FreshRow(ctx[r].mode, ctx[r].session) \in Row
    BY DEF FreshRow, Row, TypeOK, Contexts
  <2>2. orders' \in [Slots -> Row \cup {NoRow}]
    <3>1. CASE Recorded(Slot(r))
      BY <1>3, <3>1 DEF Save, SaveOrder, TypeOK, BookTypeOK
    <3>2. CASE ~Recorded(Slot(r))
      <4>1. orders' = [orders EXCEPT ![Slot(r)] = FreshRow(ctx[r].mode, ctx[r].session)]
        BY <1>3, <3>2 DEF Save, SaveOrder
      <4>. QED  BY <4>1, <2>1 DEF TypeOK, BookTypeOK
    <3>. QED  BY <3>1, <3>2
  <2>3. [status |-> "simulated", expected |-> TRUE, fatal |-> FALSE, gotId |-> FALSE] \in Outcomes
    BY DEF Outcomes
  <2>4. outcome' \in [Runs -> Outcomes]
    BY <1>3, <2>3 DEF Save, TypeOK
  <2>5. /\ pc' \in [Runs -> PCs]
        /\ \A q \in Runs : pc'[q] \in {"save", "send", "finish"}
                             => pc[q] \in {"save", "send", "finish"}
    BY <1>3 DEF Save, TypeOK, PCs
  <2>. QED
    BY <1>3, <2>2, <2>4, <2>5 DEF Save, TypeOK, BookTypeOK
<1>4. ASSUME NEW r \in Runs, Accepted(r) PROVE TypeOK'
  <2>1. PICK gotId \in BOOLEAN :
          SettleWith(r, [status |-> "submitted", expected |-> TRUE, fatal |-> FALSE, gotId |-> gotId])
    BY <1>4 DEF Accepted
  <2>2. [status |-> "submitted", expected |-> TRUE, fatal |-> FALSE, gotId |-> gotId] \in Outcomes
    BY DEF Outcomes
  <2>3. BookTypeOK' /\ UNCHANGED <<ctx, cursor>> /\ pc[r] = "send"
    BY <1>4, AcceptTyped, RequestTyped DEF Accepted, Sending, TypeOK, BookTypeOK
  <2>4. /\ pc' \in [Runs -> PCs]
        /\ call' \in [Runs -> Calls]
        /\ outcome' \in [Runs -> Outcomes]
        /\ \A q \in Runs : pc'[q] \in {"save", "send", "finish"} => cursor'[q] \in ctx'[q].approved
    BY <2>1, <2>2, <2>3, SettleWithTyped
  <2>. QED  BY <2>3, <2>4 DEF TypeOK
<1>5. ASSUME NEW r \in Runs, Refused(r) PROVE TypeOK'
  <2>1. PICK expected \in BOOLEAN : Settle(r, "failed", expected, FALSE)
    BY <1>5 DEF Refused
  <2>2. pc[r] = "send" /\ UNCHANGED <<bookVars, ctx, cursor>>
    BY <1>5 DEF Refused, Sending
  <2>. QED
    BY <2>1, <2>2, SettledTyped
<1>6. ASSUME NEW r \in Runs, Forbidden(r) PROVE TypeOK'
  <2>1. PICK expected \in BOOLEAN : Settle(r, "failed", expected, FALSE)
    BY <1>6 DEF Forbidden
  <2>2. pc[r] = "send" /\ UNCHANGED <<bookVars, ctx, cursor>>
    BY <1>6 DEF Forbidden, Sending
  <2>. QED
    BY <2>1, <2>2, SettledTyped
<1>7. ASSUME NEW r \in Runs, Unauthorized(r) PROVE TypeOK'
  BY <1>7 DEF Unauthorized, Sending, TypeOK, BookTypeOK, bookVars, Calls
<1>8. ASSUME NEW r \in Runs, Throttled(r) PROVE TypeOK'
  <2>1. CASE TryAgain(r)
    BY <1>8, <2>1, TryAgainTyped DEF Throttled, TryAgain, TypeOK, BookTypeOK, bookVars
  <2>2. CASE Settle(r, "failed", FALSE, FALSE)
    BY <1>8, <2>2, SettledTyped DEF Throttled, Sending
  <2>. QED
    BY <1>8, <2>1, <2>2 DEF Throttled
<1>9. ASSUME NEW r \in Runs, NoAnswer(r) PROVE TypeOK'
  <2>1. BookTypeOK'
    BY <1>9, RequestTyped DEF NoAnswer, Sending, TypeOK, BookTypeOK
  <2>2. CASE TryAgain(r)
    BY <1>9, <2>1, <2>2, TryAgainTyped DEF NoAnswer, TryAgain, TypeOK
  <2>3. CASE Settle(r, "unknown", FALSE, FALSE)
    BY <1>9, <2>1, <2>3, SettleTyped DEF NoAnswer, Sending, TypeOK
  <2>. QED
    BY <1>9, <2>2, <2>3 DEF NoAnswer
<1>10. ASSUME NEW r \in Runs, InProgress(r) PROVE TypeOK'
  BY <1>10, RequestTyped, SettleTyped DEF InProgress, Sending, TypeOK, BookTypeOK
<1>11. ASSUME NEW r \in Runs, PriceRefused(r) PROVE TypeOK'
  <2>1. PICK p \in Prices :
          call' = [call EXCEPT ![r] = [slot |-> Slot(r), price |-> p, attempt |-> 0,
                                       refreshed |-> FALSE, mayReclamp |-> FALSE]]
    BY <1>11 DEF PriceRefused
  <2>2. [slot |-> Slot(r), price |-> p, attempt |-> 0,
         refreshed |-> FALSE, mayReclamp |-> FALSE] \in Calls
    <3>1. Slot(r) \in Slots
      BY <1>11, RequestTyped DEF PriceRefused, Sending
    <3>. QED  BY <3>1 DEF Calls
  <2>3. call' \in [Runs -> Calls]
    BY <2>1, <2>2 DEF TypeOK
  <2>. QED
    BY <1>11, <2>3 DEF PriceRefused, Sending, TypeOK, BookTypeOK, bookVars
<1>12. ASSUME NEW r \in Runs, Conflict(r) PROVE TypeOK'
  <2>1. pc[r] = "send" /\ Settle(r, "failed", TRUE, TRUE) /\ UNCHANGED <<bookVars, ctx, cursor>>
    BY <1>12 DEF Conflict, Sending
  <2>. QED
    BY <2>1, SettledTyped
<1>13. ASSUME NEW r \in Runs, Finish(r) PROVE TypeOK'
  <2>1. Slot(r) \in Slots /\ orders[Slot(r)] \in Row
    BY <1>13, RequestTyped DEF Finish, RowIsWritten, Recorded, TypeOK, BookTypeOK
  <2>2. outcome[r].status \in Statuses /\ outcome[r].gotId \in BOOLEAN
    BY DEF TypeOK, Outcomes
  <2>3. orders' \in [Slots -> Row \cup {NoRow}]
    BY <1>13, <2>1, <2>2 DEF Finish, UpdateOrder, TypeOK, BookTypeOK, Row
  <2>. QED
    BY <1>13, <2>3 DEF Finish, TypeOK, BookTypeOK
<1>14. ASSUME NEW r \in Runs, Done(r) PROVE TypeOK'
  BY <1>14, ExitTyped DEF Done, TypeOK, BookTypeOK, bookVars
<1>15. ASSUME NEW r \in Runs, Hold(r) PROVE TypeOK'
  BY <1>15, ExitTyped DEF Hold, TypeOK, BookTypeOK
<1>16. ASSUME NEW r \in Runs, Raise(r) PROVE TypeOK'
  <2>1. BookTypeOK'
    BY <1>16, RequestTyped DEF Raise, LeaveRequest, TypeOK, BookTypeOK
  <2>. QED
    BY <1>16, <2>1, ExitTyped DEF Raise, TypeOK
<1>17. ASSUME NEW r \in Runs, Crash(r) PROVE TypeOK'
  <2>1. BookTypeOK'
    BY <1>17, RequestTyped DEF Crash, LeaveRequest, TypeOK, BookTypeOK
  <2>. QED
    BY <1>17, <2>1, ExitTyped DEF Crash
<1>18. ASSUME Environment, UNCHANGED runVars PROVE TypeOK'
  <2>1. ASSUME NEW m \in late, LateArrival(m) PROVE BookTypeOK'
    BY <2>1, AcceptTyped DEF LateArrival, TypeOK, BookTypeOK, Requests
  <2>2. CASE PullSwitch
    BY <1>18, <2>2 DEF PullSwitch, TypeOK, BookTypeOK, runVars
  <2>3. CASE Tick
    BY <1>18, <2>3 DEF Tick, TypeOK, BookTypeOK, runVars
  <2>. QED
    BY <1>18, <2>1, <2>2, <2>3 DEF Environment, TypeOK, runVars
<1>19. CASE UNCHANGED vars
  BY <1>19 DEF vars, bookVars, runVars, TypeOK, BookTypeOK
<1>. QED
  BY <1>1, <1>2, <1>3, <1>4, <1>5, <1>6, <1>7, <1>8, <1>9, <1>10, <1>11, <1>12, <1>13, <1>14,
     <1>15, <1>16, <1>17, <1>18, <1>19 DEF Next, Step, Attempt

-----------------------------------------------------------------------------
(* What a step can do, whichever action it is. *)

\* An attempt of r's call touches r's own call, and of the shared state only the
\* broker's copy of the order and the requests on the way.
LEMMA AttemptEffect ==
  ASSUME TypeOK, NEW r \in Runs, Attempt(r)
  PROVE  /\ pc[r] = "send" /\ pc'[r] \in {"send", "finish"}
         /\ Slot(r)' = Slot(r)
         /\ UNCHANGED <<ctx, cursor, orders>>
         /\ \A q \in Runs \ {r} : pc'[q] = pc[q] /\ call'[q] = call[q] /\ outcome'[q] = outcome[q]
         /\ late' \subseteq late \cup {[slot |-> Slot(r), body |-> Body(r)]}
         /\ \/ Accept(Slot(r), Body(r))
            \/ broker' = broker /\ (pc'[r] = "finish" => outcome'[r].status # "submitted")
<1> USE DEF TypeOK, Sending, Settle, SettleWith, Slot, bookVars
<1>1. CASE Accepted(r)
  BY <1>1 DEF Accepted
<1>2. CASE Refused(r)
  BY <1>2 DEF Refused
<1>3. CASE Forbidden(r)
  BY <1>3 DEF Forbidden
<1>4. CASE Unauthorized(r)
  BY <1>4 DEF Unauthorized, Calls
<1>5. CASE Throttled(r)
  BY <1>5 DEF Throttled, TryAgain, Calls
<1>6. CASE NoAnswer(r)
  BY <1>6 DEF NoAnswer, TryAgain, Calls
<1>7. CASE InProgress(r)
  BY <1>7 DEF InProgress
<1>8. CASE PriceRefused(r)
  BY <1>8 DEF PriceRefused
<1>9. CASE Conflict(r)
  BY <1>9 DEF Conflict
<1>. QED
  BY <1>1, <1>2, <1>3, <1>4, <1>5, <1>6, <1>7, <1>8, <1>9 DEF Attempt

Stop(r) == Done(r) \/ Hold(r) \/ Raise(r) \/ Crash(r)

\* A run that stops writes nothing and leaves at most the request it had sent.
LEMMA StopEffect ==
  ASSUME TypeOK, NEW r \in Runs, Stop(r)
  PROVE  /\ pc'[r] \in {"hold", "done", "lost", "dead"}
         /\ UNCHANGED <<orders, broker>>
         /\ \A q \in Runs \ {r} : /\ pc'[q] = pc[q] /\ call'[q] = call[q]
                                  /\ ctx'[q] = ctx[q] /\ cursor'[q] = cursor[q]
                                  /\ outcome'[q] = outcome[q]
         /\ \/ late' \subseteq late
            \/ pc[r] = "send" /\ late' = late \cup {[slot |-> Slot(r), body |-> Body(r)]}
<1> USE DEF TypeOK, Exit, LeaveRequest, bookVars
<1>1. CASE Done(r)
  BY <1>1 DEF Done
<1>2. CASE Hold(r)
  BY <1>2 DEF Hold
<1>3. CASE Raise(r)
  BY <1>3 DEF Raise
<1>4. CASE Crash(r)
  BY <1>4 DEF Crash
<1>. QED
  BY <1>1, <1>2, <1>3, <1>4 DEF Stop

\* The environment's own steps leave every run and every row alone.
LEMMA EnvironmentEffect ==
  ASSUME TypeOK, Environment, UNCHANGED runVars
  PROVE  /\ UNCHANGED <<orders, pc, ctx, cursor, call, outcome>>
         /\ late' \subseteq late
         /\ \/ broker' = broker
            \/ \E m \in late : m.slot \in Slots /\ m.body \in Bodies /\ Accept(m.slot, m.body)
<1> USE DEF runVars
<1>1. ASSUME NEW m \in late, LateArrival(m)
      PROVE  /\ orders' = orders /\ late' \subseteq late
             /\ broker' = broker \/ (m.slot \in Slots /\ m.body \in Bodies /\ Accept(m.slot, m.body))
  BY <1>1 DEF LateArrival, TypeOK, BookTypeOK, Requests
<1>. QED
  BY <1>1 DEF Environment, PullSwitch, Tick

\* What is recorded stays recorded.
LEMMA RowsStay ==
  ASSUME LoopInv, [Next]_vars, NEW s \in Slots, Recorded(s)
  PROVE  Recorded(s)'
<1> USE DEF LoopInv, Recorded
<1>1. ASSUME NEW r \in Runs, Save(r) PROVE Recorded(s)'
  <2>1. FreshRow(ctx[r].mode, ctx[r].session) \in Row
    BY StatusFacts DEF FreshRow, Row, TypeOK, Contexts
  <2>. QED
    BY <1>1, <2>1 DEF Save, SaveOrder, TypeOK, BookTypeOK
<1>2. ASSUME NEW r \in Runs, Finish(r) PROVE Recorded(s)'
  <2>1. orders' \in [Slots -> Row \cup {NoRow}]
    BY TypeStep DEF TypeOK, BookTypeOK
  <2>2. CASE s # Slot(r)
    BY <1>2, <2>2 DEF Finish, UpdateOrder, TypeOK, BookTypeOK
  <2>3. CASE s = Slot(r)
    <3>1. /\ orders[s] \in Row
          /\ orders'[s] = [orders[s] EXCEPT !.status = outcome[r].status,
                                            !.hasId = @ \/ outcome[r].gotId]
      BY <1>2, <2>3 DEF Finish, UpdateOrder, TypeOK, BookTypeOK
    <3>2. outcome[r].status \in Statuses
      BY DEF TypeOK, Outcomes
    <3>. QED  BY <3>1, <3>2 DEF Row
  <2>. QED  BY <2>2, <2>3
<1>3. ASSUME NEW r \in Runs, BuildContext(r) \/ Lookup(r) PROVE Recorded(s)'
  BY <1>3 DEF BuildContext, Lookup, bookVars
<1>4. ASSUME NEW r \in Runs, Attempt(r) \/ Stop(r) PROVE Recorded(s)'
  BY <1>4, AttemptEffect, StopEffect
<1>5. CASE Environment /\ UNCHANGED runVars
  BY <1>5, EnvironmentEffect
<1>. QED
  BY <1>1, <1>2, <1>3, <1>4, <1>5 DEF Next, Step, Stop, vars, bookVars

\* save_order leaves a row under its id, its own or an earlier one.
LEMMA SaveRecords ==
  ASSUME TypeOK, NEW r \in Runs, Save(r)
  PROVE  Recorded(Slot(r))' /\ Slot(r)' = Slot(r) /\ pc'[r] \in {"send", "finish"}
<1>1. FreshRow(ctx[r].mode, ctx[r].session) \in Row
  BY StatusFacts DEF FreshRow, Row, TypeOK, Contexts
<1>2. Slot(r) \in Slots
  BY RequestTyped DEF Save
<1>. QED
  BY <1>1, <1>2 DEF Save, SaveOrder, Recorded, Slot, TypeOK, BookTypeOK

-----------------------------------------------------------------------------
(* The loop invariant is inductive. *)

\* The loop invariant survives every step: each action keeps the types, the id a
\* run submits under, and the row written before the request.
LEMMA LoopStep == LoopInv /\ [Next]_vars => LoopInv'
<1> SUFFICES ASSUME LoopInv, [Next]_vars PROVE SubmitsUnderItsId' /\ RowIsWritten'
  BY TypeStep DEF LoopInv
<1> USE DEF LoopInv
<1>0. \A q \in Runs : pc[q] \in {"save", "send", "finish"} => Slot(q) \in Slots
  BY RequestTyped
<1>1. ASSUME NEW r \in Runs, BuildContext(r) PROVE SubmitsUnderItsId' /\ RowIsWritten'
  BY <1>1 DEF BuildContext, SubmitsUnderItsId, RowIsWritten, Slot, Identify, Recorded, TypeOK, bookVars
<1>2. ASSUME NEW r \in Runs, Lookup(r) PROVE SubmitsUnderItsId' /\ RowIsWritten'
  <2>1. PICK i \in Sigs : /\ cursor' = [cursor EXCEPT ![r] = i]
                          /\ IF Recorded(Identify(r, i)) THEN UNCHANGED <<pc, call>>
                             ELSE Proceed(r, Identify(r, i))
    BY <1>2 DEF Lookup
  <2>2. /\ pc[r] = "ready" /\ UNCHANGED <<orders, ctx>>
        /\ \A q \in Runs \ {r} : pc'[q] = pc[q] /\ call'[q] = call[q] /\ cursor'[q] = cursor[q]
        /\ pc'[r] \in {"ready", "save"}
    BY <1>2, <2>1 DEF Lookup, Proceed, TypeOK, bookVars
  <2>3. pc'[r] = "save" => Slot(r)' = Identify(r, i) /\ cursor'[r] = i
    BY <2>1, <2>2 DEF Proceed, Slot, TypeOK
  <2>4. /\ \A q \in Runs \ {r} : Identify(q, cursor[q])' = Identify(q, cursor[q])
        /\ pc'[r] = "save" => Slot(r)' = Identify(r, cursor[r])'
    BY <2>2, <2>3 DEF Identify
  <2>5. SubmitsUnderItsId'
    BY <2>2, <2>4 DEF SubmitsUnderItsId, Slot
  <2>. QED
    BY <2>2, <2>5 DEF RowIsWritten, Slot, Recorded
<1>3. ASSUME NEW r \in Runs, Save(r) PROVE SubmitsUnderItsId' /\ RowIsWritten'
  <2>2. /\ \A q \in Runs \ {r} : pc'[q] = pc[q]
        /\ \A q \in Runs : Slot(q)' = Slot(q)
        /\ pc[r] = "save" /\ UNCHANGED <<ctx, cursor>>
    BY <1>3 DEF Save, Slot, TypeOK
  <2>1. SubmitsUnderItsId'
    BY <2>2 DEF SubmitsUnderItsId, Identify
  <2>. QED
    BY <1>0, <1>3, <2>1, <2>2, RowsStay, SaveRecords DEF RowIsWritten
<1>4. ASSUME NEW r \in Runs, Attempt(r) PROVE SubmitsUnderItsId' /\ RowIsWritten'
  <2>1. /\ pc[r] = "send" /\ UNCHANGED <<ctx, cursor, orders>>
        /\ \A q \in Runs : Slot(q)' = Slot(q)
        /\ \A q \in Runs \ {r} : pc'[q] = pc[q]
    BY <1>4, AttemptEffect DEF Slot
  <2>2. SubmitsUnderItsId'
    BY <2>1 DEF SubmitsUnderItsId, Identify
  <2>. QED
    BY <2>1, <2>2 DEF RowIsWritten, Recorded
<1>5. ASSUME NEW r \in Runs, Finish(r) PROVE SubmitsUnderItsId' /\ RowIsWritten'
  <2>1. /\ pc'[r] \in {"hold", "ready"}
        /\ \A q \in Runs \ {r} : pc'[q] = pc[q] /\ Slot(q)' = Slot(q)
        /\ UNCHANGED <<ctx, cursor>>
    BY <1>5 DEF Finish, Slot, TypeOK
  <2>2. SubmitsUnderItsId'
    BY <2>1 DEF SubmitsUnderItsId, Identify
  <2>. QED
    BY <1>0, <2>1, <2>2, RowsStay DEF RowIsWritten
<1>6. ASSUME NEW r \in Runs, Stop(r) PROVE SubmitsUnderItsId' /\ RowIsWritten'
  <2>1. /\ pc'[r] \in {"hold", "done", "lost", "dead"} /\ orders' = orders
        /\ \A q \in Runs \ {r} : /\ pc'[q] = pc[q] /\ Slot(q)' = Slot(q)
                                 /\ ctx'[q] = ctx[q] /\ cursor'[q] = cursor[q]
    BY <1>6, StopEffect DEF Slot
  <2>2. \A q \in Runs \ {r} : Identify(q, cursor[q])' = Identify(q, cursor[q])
    BY <2>1 DEF Identify
  <2>3. SubmitsUnderItsId'
    BY <2>1, <2>2 DEF SubmitsUnderItsId
  <2>. QED
    BY <2>1, <2>3 DEF RowIsWritten, Recorded
<1>7. CASE Environment /\ UNCHANGED runVars
  BY <1>7, EnvironmentEffect DEF SubmitsUnderItsId, RowIsWritten, Slot, Identify, Recorded
<1>8. CASE UNCHANGED vars
  BY <1>8 DEF vars, bookVars, runVars, SubmitsUnderItsId, RowIsWritten, Slot, Identify, Recorded
<1>. QED
  BY <1>1, <1>2, <1>3, <1>4, <1>5, <1>6, <1>7, <1>8 DEF Next, Step, Stop

\* The loop invariant holds before any run has started.
LEMMA LoopInit == Init => LoopInv
<1> SUFFICES ASSUME Init PROVE LoopInv
  OBVIOUS
<1>1. BookTypeOK
  <2>1. orders \in [Slots -> Row \cup {NoRow}]
    BY DEF Init, BookInit
  <2>2. broker \in [Slots -> Order \cup {NoOrder}]
    BY DEF Init, BookInit
  <2>3. clock \in 0..MaxClock
    BY ClockIsBounded DEF Init, BookInit, ClockIsBounded
  <2>. QED  BY <2>1, <2>2, <2>3 DEF Init, BookInit, BookTypeOK
<1>2. TypeOK
  BY <1>1, DefaultsTyped DEF Init, TypeOK, PCs
<1>. QED
  BY <1>2 DEF Init, LoopInv, SubmitsUnderItsId, RowIsWritten

\* TypeOK holds in every reachable state of any number of invocations.
THEOREM TypeCorrect == Spec => []TypeOK
<1>1. LoopInv => TypeOK
  BY DEF LoopInv
<1>. QED
  BY <1>1, LoopInit, LoopStep, PTL DEF Spec

-----------------------------------------------------------------------------
(* Nothing reaches the broker without a row. *)

\* A broker that accepts one order keeps those it has.
LEMMA AcceptEffect ==
  ASSUME TypeOK, NEW s \in Slots, NEW b \in Bodies, Accept(s, b)
  PROVE  /\ Held(s)'
         /\ \A t \in Slots : Held(t) => Held(t)' /\ broker'[t] = broker[t]
         /\ \A t \in Slots : Held(t)' => Held(t) \/ (t = s /\ broker'[t].body = b)
<1>1. [body |-> b, filled |-> 0, state |-> "open"] \in Order
  BY DEF Order, OrderStates
<1>2. CASE Held(s)
  BY <1>2 DEF Accept, Held, TypeOK, BookTypeOK
<1>3. CASE ~Held(s)
  <2>1. broker' = [broker EXCEPT ![s] = [body |-> b, filled |-> 0, state |-> "open"]]
    BY <1>3 DEF Accept
  <2>2. /\ broker'[s] = [body |-> b, filled |-> 0, state |-> "open"]
        /\ \A t \in Slots \ {s} : broker'[t] = broker[t]
    BY <2>1 DEF TypeOK, BookTypeOK
  <2>3. broker'[s].body = b
    BY <2>2
  <2>4. broker'[s] # NoOrder
    BY <1>1, <2>2, NoOrderIsNoOrder DEF NoOrderIsNoOrder
  <2>. QED  BY <1>3, <2>2, <2>3, <2>4 DEF Held
<1>. QED
  BY <1>2, <1>3

\* Where the broker's orders and the requests on the way come from.
NothingHeldIsLost ==
  \A s \in Slots : Held(s) => Held(s)' /\ broker'[s] = broker[s]

NewlyHeldWasSent ==
  \A s \in Slots : Held(s)' =>
    \/ Held(s)
    \/ \E r \in Runs : pc[r] = "send" /\ s = Slot(r) /\ broker'[s].body = Body(r)
    \/ \E m \in late : s = m.slot /\ broker'[s].body = m.body

NewlyLateWasSent ==
  \A m \in late' : m \in late \/
    \E r \in Runs : pc[r] = "send" /\ m = [slot |-> Slot(r), body |-> Body(r)]

Provenance == NothingHeldIsLost /\ NewlyHeldWasSent /\ NewlyLateWasSent

\* An order the broker gains, or a request left on the way, was a run's current
\* request or was on the way before.
LEMMA StepProvenance ==
  ASSUME LoopInv, [Next]_vars
  PROVE  Provenance
<1> USE DEF LoopInv, Provenance, NothingHeldIsLost, NewlyHeldWasSent, NewlyLateWasSent
<1>1. ASSUME NEW r \in Runs, Attempt(r) PROVE Provenance
  <2>1. pc[r] = "send" /\ Slot(r) \in Slots /\ Body(r) \in Bodies
    BY <1>1, AttemptEffect, RequestTyped
  <2>2. NewlyLateWasSent
    BY <1>1, <2>1, AttemptEffect
  <2>3. CASE Accept(Slot(r), Body(r))
    BY <2>1, <2>2, <2>3, AcceptEffect
  <2>4. CASE broker' = broker
    BY <2>2, <2>4 DEF Held
  <2>. QED
    BY <1>1, <2>3, <2>4, AttemptEffect
<1>2. ASSUME NEW r \in Runs, Stop(r) PROVE Provenance
  BY <1>2, StopEffect DEF Held
<1>3. ASSUME NEW r \in Runs, BuildContext(r) \/ Lookup(r) \/ Save(r) \/ Finish(r) PROVE Provenance
  <2>1. broker' = broker /\ late' = late
    BY <1>3 DEF BuildContext, Lookup, Save, Finish, bookVars
  <2>. QED  BY <2>1 DEF Held
<1>4. CASE Environment /\ UNCHANGED runVars
  <2>1. NewlyLateWasSent
    BY <1>4, EnvironmentEffect
  <2>2. CASE broker' = broker
    BY <2>1, <2>2 DEF Held
  <2>3. ASSUME NEW m \in late, m.slot \in Slots, m.body \in Bodies, Accept(m.slot, m.body)
        PROVE Provenance
    BY <2>1, <2>3, AcceptEffect
  <2>. QED
    BY <1>4, <2>2, <2>3, EnvironmentEffect
<1>5. CASE UNCHANGED vars
  BY <1>5 DEF vars, bookVars, Held
<1>. QED
  BY <1>1, <1>2, <1>3, <1>4, <1>5 DEF Next, Step, Stop

\* Write-ahead is inductive on top of the loop invariant.
LEMMA RecordedStep ==
  LoopInv /\ RecordedBeforeSent /\ [Next]_vars => RecordedBeforeSent'
<1> SUFFICES ASSUME LoopInv, RecordedBeforeSent, [Next]_vars PROVE RecordedBeforeSent'
  OBVIOUS
<1>1. Provenance
  BY StepProvenance
<1>2. \A r \in Runs : pc[r] = "send" => Slot(r) \in Slots /\ Recorded(Slot(r))
  BY RequestTyped DEF LoopInv, RowIsWritten
<1>3. \A m \in late : m.slot \in Slots /\ Recorded(m.slot)
  BY DEF LoopInv, RecordedBeforeSent, TypeOK, BookTypeOK, Requests
<1>4. ASSUME NEW s \in Slots, Held(s)' PROVE Recorded(s)'
  BY <1>1, <1>2, <1>3, <1>4, RowsStay
     DEF RecordedBeforeSent, Provenance, NewlyHeldWasSent
<1>5. ASSUME NEW m \in late' PROVE Recorded(m.slot)'
  <2>1. m.slot \in Slots /\ Recorded(m.slot)
    BY <1>1, <1>2, <1>3, <1>5 DEF Provenance, NewlyLateWasSent
  <2>. QED  BY <2>1, RowsStay
<1>. QED
  BY <1>4, <1>5 DEF RecordedBeforeSent

\* No order and no request on the way is without its row, whatever crashes, times
\* out, arrives late or overlaps.
THEOREM WriteAhead == Spec => []RecordedBeforeSent
<1>1. Init => RecordedBeforeSent
  BY DEF Init, BookInit, RecordedBeforeSent, Held
<1>. QED
  BY <1>1, LoopInit, LoopStep, RecordedStep, PTL DEF Spec

-----------------------------------------------------------------------------
(* An id names the session and the key of what is ordered under it. *)

\* Every order and every request on the way sits under an id of its own session
\* and key.
OwnId(s, b) == s[1] = b.session /\ s[2] = Batch[b.sig]

OrdersKeepTheirIds ==
  /\ \A s \in Slots : Held(s) => OwnId(s, broker[s].body)
  /\ \A m \in late : OwnId(m.slot, m.body)

\* The ids stay with their signals' keys.
LEMMA OwnIdStep == LoopInv /\ OrdersKeepTheirIds /\ [Next]_vars => OrdersKeepTheirIds'
<1> SUFFICES ASSUME LoopInv, OrdersKeepTheirIds, [Next]_vars PROVE OrdersKeepTheirIds'
  OBVIOUS
<1>1. Provenance
  BY StepProvenance
<1>2. ASSUME NEW r \in Runs, pc[r] = "send" PROVE OwnId(Slot(r), Body(r))
  <2>1. Slot(r) = Identify(r, cursor[r])
    BY <1>2 DEF LoopInv, SubmitsUnderItsId
  <2>. QED  BY <2>1, IdentifyFacts DEF OwnId, Body
<1>3. ASSUME NEW s \in Slots, Held(s)' PROVE OwnId(s, broker'[s].body)
  BY <1>1, <1>2, <1>3
     DEF OrdersKeepTheirIds, Provenance, NothingHeldIsLost, NewlyHeldWasSent
<1>4. ASSUME NEW m \in late' PROVE OwnId(m.slot, m.body)
  BY <1>1, <1>2, <1>4 DEF OrdersKeepTheirIds, Provenance, NewlyLateWasSent
<1>. QED
  BY <1>3, <1>4 DEF OrdersKeepTheirIds, OwnId

-----------------------------------------------------------------------------
(* A row says "submitted" only of an order the broker holds. *)

\* An answer still to be written down is true of the broker.
AnswerIsTrue ==
  \A r \in Runs : pc[r] = "finish" /\ outcome[r].status = "submitted" => Held(Slot(r))

SubmittedInv == LoopInv /\ AnswerIsTrue /\ SubmittedIsHeld

\* Once a call has come to "submitted", the broker has the order: it survives
\* every step of this run and of the others.
LEMMA AnswerStep == LoopInv /\ AnswerIsTrue /\ [Next]_vars => AnswerIsTrue'
<1> SUFFICES ASSUME LoopInv, AnswerIsTrue, [Next]_vars,
                    NEW q \in Runs, (pc[q] = "finish" /\ outcome[q].status = "submitted")'
             PROVE  Held(Slot(q))'
  BY DEF AnswerIsTrue
<1> USE DEF LoopInv
<1>1. CASE pc[q] = "finish" /\ outcome[q].status = "submitted" /\ Slot(q)' = Slot(q)
  <2>1. Slot(q) \in Slots /\ Held(Slot(q))
    BY <1>1, RequestTyped DEF AnswerIsTrue
  <2>2. Held(Slot(q))' <=> broker'[Slot(q)] # NoOrder
    BY <1>1 DEF Held
  <2>. QED
    BY <2>1, <2>2, StepProvenance DEF Provenance, NothingHeldIsLost, Held
<1>2. ASSUME NEW r \in Runs, Attempt(r) PROVE Held(Slot(q))'
  <2>1. CASE q = r
    <3>1. Slot(q) \in Slots /\ Body(q) \in Bodies /\ pc'[q] = "finish" /\ Slot(q)' = Slot(q)
          /\ Accept(Slot(q), Body(q))
      BY <1>2, <2>1, AttemptEffect, RequestTyped
    <3>. QED  BY <3>1, AcceptEffect DEF Held
  <2>2. CASE q # r
    BY <1>1, <1>2, <2>2, AttemptEffect DEF Slot
  <2>. QED  BY <2>1, <2>2
<1>3. ASSUME NEW r \in Runs, Stop(r) PROVE Held(Slot(q))'
  BY <1>1, <1>3, StopEffect DEF Slot
<1>4. ASSUME NEW r \in Runs, BuildContext(r) PROVE Held(Slot(q))'
  BY <1>1, <1>4 DEF BuildContext, Slot, TypeOK
<1>5. ASSUME NEW r \in Runs, Lookup(r) PROVE Held(Slot(q))'
  BY <1>1, <1>5 DEF Lookup, Proceed, Slot, TypeOK
<1>6. ASSUME NEW r \in Runs, Save(r) PROVE Held(Slot(q))'
  <2>1. pc[r] = "save" /\ call' = call /\ \A p \in Runs \ {r} : pc'[p] = pc[p] /\ outcome'[p] = outcome[p]
    BY <1>6 DEF Save, TypeOK
  <2>2. CASE q = r
    <3>1. ctx[r].mode = "paper" => outcome'[r].status = "simulated"
      BY <1>6 DEF Save, TypeOK
    <3>2. ctx[r].mode # "paper" => pc'[r] = "send"
      BY <1>6 DEF Save, TypeOK
    <3>. QED  BY <2>2, <3>1, <3>2
  <2>3. CASE q # r
    BY <1>1, <2>1, <2>3 DEF Slot
  <2>. QED  BY <2>2, <2>3
<1>7. ASSUME NEW r \in Runs, Finish(r) PROVE Held(Slot(q))'
  BY <1>1, <1>7 DEF Finish, Slot, TypeOK
<1>8. CASE UNCHANGED runVars
  BY <1>1, <1>8 DEF runVars, Slot
<1>. QED
  BY <1>2, <1>3, <1>4, <1>5, <1>6, <1>7, <1>8 DEF Next, Step, Stop, vars

\* So a row that is given that status tells the truth, and stays true.
LEMMA SubmittedStep ==
  LoopInv /\ AnswerIsTrue /\ SubmittedIsHeld /\ [Next]_vars => SubmittedIsHeld'
<1> SUFFICES ASSUME LoopInv, AnswerIsTrue, SubmittedIsHeld, [Next]_vars,
                    NEW s \in Slots, Recorded(s)', orders'[s].status = "submitted"
             PROVE  Held(s)'
  BY DEF SubmittedIsHeld
<1> USE DEF LoopInv
<1>1. Held(s) => Held(s)'
  BY StepProvenance DEF Provenance, NothingHeldIsLost
<1>2. CASE orders'[s] = orders[s]
  BY <1>1, <1>2 DEF SubmittedIsHeld, Recorded
<1>3. ASSUME NEW r \in Runs, Save(r), orders'[s] # orders[s] PROVE FALSE
  <2>1. orders'[s] = FreshRow(ctx[r].mode, ctx[r].session)
    BY <1>3 DEF Save, SaveOrder, TypeOK, BookTypeOK
  <2>. QED  BY <2>1 DEF FreshRow
<1>4. ASSUME NEW r \in Runs, Finish(r), orders'[s] # orders[s] PROVE Held(s)
  <2>1. s = Slot(r) /\ pc[r] = "finish"
    BY <1>4 DEF Finish, UpdateOrder, TypeOK, BookTypeOK
  <2>2. orders[s] \in Row
    BY <2>1 DEF RowIsWritten, Recorded, TypeOK, BookTypeOK
  <2>3. orders'[s].status = outcome[r].status
    BY <1>4, <2>1, <2>2 DEF Finish, UpdateOrder, TypeOK, BookTypeOK, Row
  <2>. QED  BY <2>1, <2>3 DEF AnswerIsTrue
<1>5. ASSUME NEW r \in Runs, BuildContext(r) \/ Lookup(r) PROVE orders' = orders
  BY <1>5 DEF BuildContext, Lookup, bookVars
<1>6. ASSUME NEW r \in Runs, Attempt(r) \/ Stop(r) PROVE orders' = orders
  BY <1>6, AttemptEffect, StopEffect
<1>7. CASE Environment /\ UNCHANGED runVars
  BY <1>2, <1>7, EnvironmentEffect
<1>8. CASE UNCHANGED vars
  BY <1>2, <1>8 DEF vars, bookVars
<1>. QED
  BY <1>1, <1>2, <1>3, <1>4, <1>5, <1>6, <1>7, <1>8 DEF Next, Step, Stop

\* What the store calls submitted, the broker has; overlapping runs that write
\* each other's rows included.
THEOREM SubmittedMeansHeld == Spec => []SubmittedIsHeld
<1>1. Init => SubmittedInv
  BY LoopInit DEF Init, BookInit, SubmittedInv, AnswerIsTrue, SubmittedIsHeld, Recorded
<1>2. SubmittedInv /\ [Next]_vars => SubmittedInv'
  BY LoopStep, AnswerStep, SubmittedStep DEF SubmittedInv
<1>3. SubmittedInv => SubmittedIsHeld
  BY DEF SubmittedInv
<1>. QED
  BY <1>1, <1>2, <1>3, PTL DEF Spec

-----------------------------------------------------------------------------
(* What a step does to the rows. *)

\* What a row says of its run and its session is settled when it is written.
SameRow(s) ==
  /\ orders'[s].mode = orders[s].mode
  /\ orders'[s].session = orders[s].session

\* A step other than Save leaves every row to its run and its session; Save adds
\* one row at most, its own.
LEMMA RowStep ==
  ASSUME LoopInv, [Next]_vars, NEW s \in Slots
  PROVE  /\ Recorded(s) => SameRow(s)
         /\ Recorded(s)' /\ ~Recorded(s) =>
              \E r \in Runs : /\ Save(r) /\ s = Slot(r)
                              /\ orders'[s] = FreshRow(ctx[r].mode, ctx[r].session)
<1> USE DEF LoopInv, SameRow
<1>0. orders' = orders => (Recorded(s)' <=> Recorded(s)) /\ SameRow(s)
  BY DEF Recorded
<1>1. ASSUME NEW r \in Runs, Save(r)
      PROVE  /\ Recorded(s) => SameRow(s)
             /\ Recorded(s)' /\ ~Recorded(s) =>
                  s = Slot(r) /\ orders'[s] = FreshRow(ctx[r].mode, ctx[r].session)
  BY <1>1 DEF Save, SaveOrder, Recorded, TypeOK, BookTypeOK
<1>2. ASSUME NEW r \in Runs, Finish(r)
      PROVE  /\ Recorded(s) => SameRow(s)
             /\ Recorded(s)' => Recorded(s)
  <2>1. Slot(r) \in Slots /\ orders[Slot(r)] \in Row
    BY <1>2, RequestTyped DEF Finish, RowIsWritten, Recorded, TypeOK, BookTypeOK
  <2>2. CASE s # Slot(r)
    BY <1>2, <2>2 DEF Finish, UpdateOrder, Recorded, TypeOK, BookTypeOK
  <2>3. CASE s = Slot(r)
    BY <1>2, <2>1, <2>3 DEF Finish, UpdateOrder, Recorded, RowIsWritten, TypeOK, BookTypeOK, Row
  <2>. QED  BY <2>2, <2>3
<1>3. ASSUME NEW r \in Runs, BuildContext(r) \/ Lookup(r) PROVE orders' = orders
  BY <1>3 DEF BuildContext, Lookup, bookVars
<1>4. ASSUME NEW r \in Runs, Attempt(r) \/ Stop(r) PROVE orders' = orders
  BY <1>4, AttemptEffect, StopEffect
<1>5. CASE Environment /\ UNCHANGED runVars
  BY <1>0, <1>5, EnvironmentEffect
<1>. QED
  BY <1>0, <1>1, <1>2, <1>3, <1>4, <1>5 DEF Next, Step, Stop, vars, bookVars

\* A step of one run leaves the others where they are and with what they know.
LEMMA OtherRuns ==
  ASSUME TypeOK, NEW r \in Runs, Step(r) \/ Crash(r), NEW q \in Runs \ {r}
  PROVE  /\ pc'[q] = pc[q] /\ ctx'[q] = ctx[q] /\ cursor'[q] = cursor[q]
         /\ call'[q] = call[q] /\ Slot(q)' = Slot(q)
<1> USE DEF TypeOK, Slot
<1>1. CASE BuildContext(r)
  BY <1>1 DEF BuildContext
<1>2. CASE Lookup(r)
  BY <1>2 DEF Lookup, Proceed
<1>3. CASE Save(r)
  BY <1>3 DEF Save
<1>4. CASE Attempt(r)
  BY <1>4, AttemptEffect
<1>5. CASE Finish(r)
  BY <1>5 DEF Finish
<1>6. CASE Stop(r)
  BY <1>6, StopEffect
<1>. QED
  BY <1>1, <1>2, <1>3, <1>4, <1>5, <1>6 DEF Step, Stop

-----------------------------------------------------------------------------
(* One invocation at a time: the job is never started while it runs. *)

OneAtATime == \A q, r \in Runs : q # r => pc[q] \in Gone \/ pc[r] \in Gone

\* A run's first step is the only one that makes it a running one.
LEMMA OnlyBuildStarts ==
  ASSUME TypeOK, NEW r \in Runs, Step(r) \/ Crash(r), pc[r] \in Gone
  PROVE  BuildContext(r)
<1>. USE DEF Gone
<1>1. CASE Attempt(r)
  BY <1>1, AttemptEffect
<1>. QED
  BY <1>1 DEF Step, Lookup, Save, Finish, Done, Hold, Raise, Crash

\* So where runs may not overlap they never do.
LEMMA OneStep ==
  ASSUME Overlap = FALSE
  PROVE  LoopInv /\ OneAtATime /\ [Next]_vars => OneAtATime'
<1> SUFFICES ASSUME LoopInv, OneAtATime, [Next]_vars PROVE OneAtATime'
  OBVIOUS
<1> USE DEF LoopInv
<1>1. ASSUME NEW r \in Runs, Step(r) \/ Crash(r) PROVE OneAtATime'
  <2>1. \A q \in Runs \ {r} : pc'[q] = pc[q]
    BY <1>1, OtherRuns
  <2>2. CASE pc[r] \in Gone
    <3>1. \A q \in Runs : pc[q] \in Gone
      BY <1>1, <2>2, OnlyBuildStarts DEF BuildContext, Running
    <3>. QED  BY <2>1, <3>1 DEF OneAtATime
  <2>3. CASE pc[r] \notin Gone
    BY <2>1, <2>3 DEF OneAtATime
  <2>. QED  BY <2>2, <2>3
<1>2. CASE UNCHANGED pc
  BY <1>2 DEF OneAtATime
<1>. QED
  BY <1>1, <1>2 DEF Next, vars, runVars

-----------------------------------------------------------------------------
(* What the broker holds is on a LIVE row. *)

\* Between the lookup and save_order no other run takes the id; a request goes out
\* on a LIVE row, and so does one that arrives late.
LiveInv ==
  /\ \A r \in Runs : pc[r] = "save" => ~Recorded(Slot(r))
  /\ \A r \in Runs : pc[r] = "send" => orders[Slot(r)].mode = "live"
  /\ \A m \in late : orders[m.slot].mode = "live"
  /\ HeldOrdersAreLive

\* The modes of rows and the places of runs stay in step.
LEMMA LiveStep ==
  ASSUME Overlap = FALSE
  PROVE  LoopInv /\ RecordedBeforeSent /\ OneAtATime /\ LiveInv /\ [Next]_vars => LiveInv'
<1> SUFFICES ASSUME LoopInv, RecordedBeforeSent, OneAtATime, LiveInv, [Next]_vars PROVE LiveInv'
  OBVIOUS
<1> USE DEF LoopInv
<1>0. \A r \in Runs : pc[r] \in {"save", "send", "finish"} => Slot(r) \in Slots
  BY RequestTyped
<1>1. ASSUME NEW s \in Slots, Held(s)' PROVE orders'[s].mode = "live"
  <2>1. Recorded(s) /\ orders[s].mode = "live"
    BY <1>1, StepProvenance
       DEF Provenance, NewlyHeldWasSent, RecordedBeforeSent, LiveInv, HeldOrdersAreLive, RowIsWritten
  <2>. QED  BY <2>1, RowStep DEF SameRow
<1>2. ASSUME NEW m \in late' PROVE orders'[m.slot].mode = "live"
  <2>1. m.slot \in Slots /\ Recorded(m.slot) /\ orders[m.slot].mode = "live"
    BY <1>0, <1>2, StepProvenance
       DEF Provenance, NewlyLateWasSent, RecordedBeforeSent, LiveInv, RowIsWritten,
           TypeOK, BookTypeOK, Requests
  <2>. QED  BY <2>1, RowStep DEF SameRow
<1>3. ASSUME NEW q \in Runs, pc'[q] = "send" PROVE orders'[Slot(q)'].mode = "live"
  <2>1. ASSUME pc[q] = "send", Slot(q)' = Slot(q) PROVE orders'[Slot(q)'].mode = "live"
    <3>1. Slot(q) \in Slots /\ Recorded(Slot(q)) /\ orders[Slot(q)].mode = "live"
      BY <1>0, <2>1 DEF LiveInv, RowIsWritten
    <3>. QED  BY <2>1, <3>1, RowStep DEF SameRow
  <2>2. ASSUME Save(q) PROVE orders'[Slot(q)'].mode = "live"
    <3>1. /\ pc[q] = "save" /\ ~Recorded(Slot(q)) /\ Slot(q)' = Slot(q) /\ ctx[q].mode = "live"
      BY <1>3, <2>2, StatusFacts DEF Save, LiveInv, Slot, TypeOK, Contexts
    <3>2. orders' = [orders EXCEPT ![Slot(q)] = FreshRow("live", ctx[q].session)]
      BY <2>2, <3>1 DEF Save, SaveOrder
    <3>3. orders'[Slot(q)] = FreshRow("live", ctx[q].session)
      BY <1>0, <3>1, <3>2 DEF TypeOK, BookTypeOK
    <3>. QED  BY <3>1, <3>3 DEF FreshRow
  <2>3. ASSUME NEW r \in Runs, Step(r) \/ Crash(r) PROVE (pc[q] = "send" /\ Slot(q)' = Slot(q)) \/ Save(q)
    <3>1. CASE q # r
      BY <1>3, <2>3, <3>1, OtherRuns
    <3>2. CASE q = r
      BY <1>3, <2>3, <3>2, AttemptEffect, StopEffect
         DEF Step, Stop, BuildContext, Lookup, Proceed, Finish, TypeOK
    <3>. QED  BY <3>1, <3>2
  <2>4. CASE UNCHANGED runVars
    BY <1>3, <2>1, <2>4 DEF runVars, Slot
  <2>. QED
    BY <2>1, <2>2, <2>3, <2>4 DEF Next, vars
<1>4. ASSUME NEW q \in Runs, pc'[q] = "save" PROVE ~Recorded(Slot(q))'
  <2>1. ASSUME NEW r \in Runs, Step(r) \/ Crash(r), q # r PROVE ~Recorded(Slot(q))'
    <3>1. pc[q] = "save" /\ Slot(q)' = Slot(q) /\ ~Recorded(Slot(q)) /\ Slot(q) \in Slots
      BY <1>0, <1>4, <2>1, OtherRuns DEF LiveInv
    <3>2. pc[r] \in Gone
      BY <2>1, <3>1 DEF OneAtATime, Gone
    <3>3. orders' = orders
      BY <2>1, <3>2, OnlyBuildStarts DEF BuildContext, bookVars
    <3>. QED  BY <3>1, <3>3 DEF Recorded
  <2>2. ASSUME Step(q) \/ Crash(q) PROVE ~Recorded(Slot(q))'
    <3>1. Lookup(q)
      BY <1>4, <2>2, AttemptEffect, StopEffect DEF Step, Stop, BuildContext, Save, Finish, TypeOK
    <3>2. PICK i \in Sigs :
            IF Recorded(Identify(q, i)) THEN UNCHANGED <<pc, call>> ELSE Proceed(q, Identify(q, i))
      BY <3>1 DEF Lookup
    <3>3. pc[q] = "ready" /\ orders' = orders
      BY <3>1 DEF Lookup, bookVars
    <3>4. ~Recorded(Identify(q, i)) /\ Slot(q)' = Identify(q, i)
      BY <1>4, <3>2, <3>3 DEF Proceed, Slot, TypeOK
    <3>. QED  BY <3>3, <3>4 DEF Recorded
  <2>3. CASE orders' = orders /\ UNCHANGED runVars
    BY <1>4, <2>3 DEF runVars, LiveInv, Recorded, Slot
  <2>. QED
    BY <2>1, <2>2, <2>3, EnvironmentEffect DEF Next, vars, bookVars
<1>. QED
  BY <1>1, <1>2, <1>3, <1>4 DEF LiveInv, HeldOrdersAreLive

\* Whatever the broker holds, its row is one the reconciler will ask about: no PAPER
\* row's id reaches the broker, of this run or of a run before it.
THEOREM HeldIsLive ==
  ASSUME Overlap = FALSE
  PROVE  Spec => []HeldOrdersAreLive
<1>1. Init => RecordedBeforeSent /\ OneAtATime /\ LiveInv
  BY DEF Init, BookInit, RecordedBeforeSent, Held, OneAtATime, Gone, LiveInv, HeldOrdersAreLive
<1>2. LoopInv /\ OneAtATime /\ [Next]_vars => OneAtATime'
  BY OneStep
<1>3. LoopInv /\ RecordedBeforeSent /\ OneAtATime /\ LiveInv /\ [Next]_vars => LiveInv'
  BY LiveStep
<1>4. LiveInv => HeldOrdersAreLive
  BY DEF LiveInv
<1>. QED
  BY <1>1, <1>2, <1>3, <1>4, LoopInit, LoopStep, RecordedStep, PTL DEF Spec

-----------------------------------------------------------------------------
(* The daily limit. *)

\* There are finitely many ids, so the rows of a session can be counted.
LEMMA SlotsAreFinite == IsFiniteSet(Slots)
<1>1. IsFiniteSet(Sigs) /\ IsFiniteSet(Days)
  <2>1. (MaxClock + 1) \div 2 \in Int
    BY ClockIsBounded DEF ClockIsBounded
  <2>. QED  BY <2>1, BatchFacts, FS_Interval DEF Sigs, Days
<1>2. IsFiniteSet(Keys)
  <2>1. [i \in Sigs |-> Batch[i]] \in Surjection(Sigs, Keys)
    BY DEF Surjection, Keys
  <2>. QED  BY <1>1, <2>1, FS_Surjection
<1>3. IsFiniteSet((Days \X Keys) \X Sigs)
  BY <1>1, <1>2, FS_Product
<1>4. [x \in (Days \X Keys) \X Sigs |-> <<x[1][1], x[1][2], x[2]>>]
        \in Surjection((Days \X Keys) \X Sigs, Slots)
  <2> DEFINE f == [x \in (Days \X Keys) \X Sigs |-> <<x[1][1], x[1][2], x[2]>>]
  <2>1. f \in [(Days \X Keys) \X Sigs -> Slots]
    BY DEF Slots
  <2>2. ASSUME NEW s \in Slots PROVE \E x \in (Days \X Keys) \X Sigs : f[x] = s
    <3>1. <<<<s[1], s[2]>>, s[3]>> \in (Days \X Keys) \X Sigs
      BY DEF Slots
    <3>2. f[<<<<s[1], s[2]>>, s[3]>>] = s
      BY <3>1 DEF Slots
    <3>. QED  BY <3>1, <3>2
  <2>. QED  BY <2>1, <2>2 DEF Surjection
<1>. QED
  BY <1>3, <1>4, FS_Surjection

\* The executor calls no order rejected: that word is the reconciler's.
NoneRejected ==
  /\ \A s \in Slots : Recorded(s) => orders[s].status # "rejected"
  /\ \A r \in Runs : outcome[r].status # "rejected"

\* No step of a run writes it, and none learns it.
LEMMA NoneRejectedStep == LoopInv /\ NoneRejected /\ [Next]_vars => NoneRejected'
<1> SUFFICES ASSUME LoopInv, NoneRejected, [Next]_vars PROVE NoneRejected'
  OBVIOUS
<1> USE DEF LoopInv
<1>0. NoOutcome.status # "rejected"
  BY DEF NoOutcome
<1>1. ASSUME NEW r \in Runs, Save(r) PROVE NoneRejected'
  <2>1. FreshRow(ctx[r].mode, ctx[r].session).status # "rejected"
    BY DEF FreshRow
  <2>2. \A s \in Slots : orders'[s] \in {orders[s], FreshRow(ctx[r].mode, ctx[r].session)}
    BY <1>1 DEF Save, SaveOrder, TypeOK, BookTypeOK
  <2>3. \A q \in Runs : outcome'[q].status \in {outcome[q].status, "simulated"}
    <3>1. \/ outcome' = outcome
          \/ outcome' = [outcome EXCEPT ![r] =
                            [status |-> "simulated", expected |-> TRUE, fatal |-> FALSE, gotId |-> FALSE]]
      BY <1>1 DEF Save
    <3>. QED  BY <3>1 DEF TypeOK
  <2>. QED  BY <2>1, <2>2, <2>3 DEF NoneRejected, Recorded
<1>2. ASSUME NEW r \in Runs, Attempt(r) PROVE NoneRejected'
  <2>1. orders' = orders
    BY <1>2, AttemptEffect
  <2>2. \A q \in Runs : outcome'[q].status # "rejected"
    BY <1>2 DEF Attempt, Accepted, Refused, Forbidden, Unauthorized, Throttled, NoAnswer,
                InProgress, PriceRefused, Conflict, Settle, SettleWith, TryAgain, TypeOK, NoneRejected
  <2>. QED  BY <2>1, <2>2 DEF NoneRejected, Recorded
<1>3. ASSUME NEW r \in Runs, Finish(r) PROVE NoneRejected'
  <2>1. Slot(r) \in Slots /\ orders[Slot(r)] \in Row
    BY <1>3, RequestTyped DEF Finish, RowIsWritten, Recorded, TypeOK, BookTypeOK
  <2>2. /\ \A s \in Slots \ {Slot(r)} : orders'[s] = orders[s]
        /\ orders'[Slot(r)].status = outcome[r].status
    BY <1>3, <2>1 DEF Finish, UpdateOrder, TypeOK, BookTypeOK, Row
  <2>3. \A q \in Runs : outcome'[q].status # "rejected"
    BY <1>0, <1>3 DEF Finish, TypeOK, NoneRejected
  <2>. QED  BY <2>1, <2>2, <2>3 DEF NoneRejected, Recorded
<1>4. ASSUME NEW r \in Runs, BuildContext(r) \/ Lookup(r) PROVE NoneRejected'
  BY <1>4 DEF BuildContext, Lookup, bookVars, NoneRejected, Recorded
<1>5. ASSUME NEW r \in Runs, Stop(r) PROVE NoneRejected'
  <2>1. orders' = orders
    BY <1>5, StopEffect
  <2>2. \A q \in Runs : outcome'[q].status # "rejected"
    BY <1>0, <1>5 DEF Stop, Done, Hold, Raise, Crash, Exit, TypeOK, NoneRejected
  <2>. QED  BY <2>1, <2>2 DEF NoneRejected, Recorded
<1>6. CASE orders' = orders /\ outcome' = outcome
  BY <1>6 DEF NoneRejected, Recorded
<1>. QED
  BY <1>1, <1>2, <1>3, <1>4, <1>5, <1>6, EnvironmentEffect
     DEF Next, Step, Stop, vars, bookVars, runVars

\* The rows of a session, and the signals a run may still write a row for.
RowsOf(d)  == {s \in Slots : Recorded(s) /\ orders[s].session = d}
ToWrite(r) == {i \in ctx[r].approved : i > cursor[r] \/ (i = cursor[r] /\ pc[r] = "save")}

WithinBudget ==
  \A r \in Runs : pc[r] \notin Gone =>
    Cardinality(RowsOf(ctx[r].session)) + Cardinality(ToWrite(r)) <= MaxOrders

LimitInv == NoneRejected /\ DailyLimit /\ WithinBudget

\* Every row counts towards its session's usage.
LEMMA UsageIsRows ==
  NoneRejected => \A d : Usage(d) = Cardinality(RowsOf(d))
<1> SUFFICES ASSUME NoneRejected, NEW d PROVE Usage(d) = Cardinality(RowsOf(d))
  OBVIOUS
<1>1. {s \in Slots : /\ Recorded(s)
                     /\ orders[s].session = d
                     /\ orders[s].status # "rejected"} = RowsOf(d)
  BY DEF NoneRejected, RowsOf
<1>. QED  BY <1>1 DEF Usage

\* Both counts are numbers, whichever session and run they are of.
LEMMA CountsTyped ==
  ASSUME TypeOK
  PROVE  /\ \A d : IsFiniteSet(RowsOf(d)) /\ Cardinality(RowsOf(d)) \in Nat
         /\ \A r \in Runs : IsFiniteSet(ToWrite(r)) /\ Cardinality(ToWrite(r)) \in Nat
         /\ \A T \in SUBSET Sigs : IsFiniteSet(T) /\ Cardinality(T) \in Nat
<1>1. ASSUME NEW d PROVE IsFiniteSet(RowsOf(d)) /\ Cardinality(RowsOf(d)) \in Nat
  <2>1. RowsOf(d) \subseteq Slots
    BY DEF RowsOf
  <2>. QED  BY <2>1, SlotsAreFinite, FS_Subset, FS_CardinalityType
<1>2. ASSUME NEW T \in SUBSET Sigs PROVE IsFiniteSet(T) /\ Cardinality(T) \in Nat
  <2>1. IsFiniteSet(Sigs)
    BY BatchFacts, FS_Interval DEF Sigs
  <2>. QED  BY <2>1, FS_Subset, FS_CardinalityType
<1>3. \A r \in Runs : ToWrite(r) \in SUBSET Sigs
  BY DEF ToWrite, TypeOK, Contexts
<1>. QED  BY <1>1, <1>2, <1>3

\* A step that adds no row to a session leaves its rows.
LEMMA RowsOfStay ==
  ASSUME LoopInv, [Next]_vars, NEW d,
         \A r \in Runs : Save(r) => ctx[r].session # d \/ Recorded(Slot(r))
  PROVE  RowsOf(d)' = RowsOf(d)
<1>1. ASSUME NEW s \in Slots PROVE s \in RowsOf(d)' <=> s \in RowsOf(d)
  <2>1. CASE Recorded(s)
    BY <2>1, RowStep, RowsStay DEF SameRow, RowsOf
  <2>2. CASE ~Recorded(s) /\ ~Recorded(s)'
    BY <2>2 DEF RowsOf
  <2>3. CASE ~Recorded(s) /\ Recorded(s)'
    <3>1. PICK r \in Runs : Save(r) /\ s = Slot(r) /\ orders'[s] = FreshRow(ctx[r].mode, ctx[r].session)
      BY <2>3, RowStep
    <3>2. orders'[s].session # d
      BY <2>3, <3>1 DEF FreshRow
    <3>. QED  BY <2>3, <3>2 DEF RowsOf
  <2>. QED  BY <2>1, <2>2, <2>3
<1>. QED  BY <1>1 DEF RowsOf

\* save_order spends one of the run's signals on at most one row of its session.
LEMMA SaveSpends ==
  ASSUME LoopInv, NEW r \in Runs, Save(r)
  PROVE  /\ Cardinality(RowsOf(ctx[r].session)') \in Nat /\ Cardinality(ToWrite(r)') \in Nat
         /\ Cardinality(RowsOf(ctx[r].session)') <= Cardinality(RowsOf(ctx[r].session)) + 1
         /\ Cardinality(ToWrite(r)') = Cardinality(ToWrite(r)) - 1
         /\ ctx' = ctx
<1> USE DEF LoopInv
<1>1. /\ pc[r] = "save" /\ pc'[r] # "save" /\ ctx' = ctx /\ cursor' = cursor
      /\ cursor[r] \in ctx[r].approved /\ cursor[r] \in Nat /\ ctx[r].approved \subseteq Nat
  BY BatchFacts DEF Save, TypeOK, Contexts
<1>2. ToWrite(r)' = ToWrite(r) \ {cursor[r]} /\ cursor[r] \in ToWrite(r)
  BY <1>1 DEF ToWrite
<1>3. Cardinality(ToWrite(r)') = Cardinality(ToWrite(r)) - 1 /\ Cardinality(ToWrite(r)') \in Nat
  <2>1. IsFiniteSet(ToWrite(r))
    BY CountsTyped
  <2>2. /\ Cardinality(ToWrite(r) \ {cursor[r]}) = Cardinality(ToWrite(r)) - 1
        /\ Cardinality(ToWrite(r) \ {cursor[r]}) \in Nat
    BY <1>2, <2>1, FS_RemoveElement, FS_CardinalityType
  <2>. QED  BY <1>2, <2>2
<1>4. RowsOf(ctx[r].session)' \subseteq RowsOf(ctx[r].session) \cup {Slot(r)}
  <2>1. \A s \in Slots \ {Slot(r)} : orders'[s] = orders[s]
    BY DEF Save, SaveOrder, TypeOK, BookTypeOK
  <2>. QED  BY <1>1, <2>1 DEF RowsOf, Recorded
<1>5. /\ Cardinality(RowsOf(ctx[r].session)') \in Nat
      /\ Cardinality(RowsOf(ctx[r].session)') <= Cardinality(RowsOf(ctx[r].session)) + 1
  <2>1. /\ IsFiniteSet(RowsOf(ctx[r].session) \cup {Slot(r)})
        /\ Cardinality(RowsOf(ctx[r].session) \cup {Slot(r)}) <= Cardinality(RowsOf(ctx[r].session)) + 1
    <3>1. IsFiniteSet(RowsOf(ctx[r].session)) /\ Cardinality(RowsOf(ctx[r].session)) \in Nat
      BY CountsTyped
    <3>2. /\ IsFiniteSet(RowsOf(ctx[r].session) \cup {Slot(r)})
          /\ Cardinality(RowsOf(ctx[r].session) \cup {Slot(r)}) =
               IF Slot(r) \in RowsOf(ctx[r].session) THEN Cardinality(RowsOf(ctx[r].session))
               ELSE Cardinality(RowsOf(ctx[r].session)) + 1
      BY <3>1, FS_AddElement
    <3>. QED  BY <3>1, <3>2
  <2>2. /\ Cardinality(RowsOf(ctx[r].session)') <= Cardinality(RowsOf(ctx[r].session) \cup {Slot(r)})
        /\ IsFiniteSet(RowsOf(ctx[r].session)')
    BY <1>4, <2>1, FS_Subset
  <2>3. /\ Cardinality(RowsOf(ctx[r].session)') \in Nat
        /\ Cardinality(RowsOf(ctx[r].session) \cup {Slot(r)}) \in Nat
        /\ Cardinality(RowsOf(ctx[r].session)) \in Nat
    BY <2>1, <2>2, CountsTyped, FS_CardinalityType
  <2>. QED  BY <2>1, <2>2, <2>3
<1>. QED  BY <1>1, <1>3, <1>5

\* A run that is not writing has no more to write than before.
LEMMA LessToWrite ==
  ASSUME TypeOK, TypeOK', NEW r \in Runs, pc[r] \notin Gone, pc'[r] \notin Gone,
         Step(r) \/ Crash(r), ~Save(r)
  PROVE  /\ ctx'[r] = ctx[r]
         /\ Cardinality(ToWrite(r)') \in Nat
         /\ Cardinality(ToWrite(r)') <= Cardinality(ToWrite(r))
<1>1. ctx'[r] = ctx[r] /\ ToWrite(r)' \subseteq ToWrite(r)
  <2>1. ctx[r].approved \subseteq Nat /\ cursor[r] \in Nat
    BY BatchFacts DEF TypeOK, Contexts
  <2>2. CASE Lookup(r)
    <3>1. PICK i \in Sigs : IsNext(r, i) /\ cursor' = [cursor EXCEPT ![r] = i]
      BY <2>2 DEF Lookup
    <3>2. i > cursor[r] /\ i \in Nat /\ cursor'[r] = i /\ ctx' = ctx
      BY <2>1, <2>2, <3>1, BatchFacts DEF IsNext, Remaining, TypeOK, Lookup
    <3>. QED  BY <2>1, <3>2 DEF ToWrite
  <2>3. CASE Attempt(r)
    BY <2>3, AttemptEffect DEF ToWrite
  <2>4. CASE Finish(r)
    BY <2>4 DEF Finish, ToWrite, TypeOK
  <2>5. CASE Raise(r)
    BY <2>5 DEF Raise, Exit, Gone, ToWrite, TypeOK
  <2>6. CASE BuildContext(r) \/ Done(r) \/ Hold(r) \/ Crash(r)
    BY <2>6 DEF BuildContext, Done, Hold, Crash, Exit, Gone, TypeOK
  <2>. QED  BY <2>2, <2>3, <2>4, <2>5, <2>6 DEF Step
<1>. QED
  BY <1>1, CountsTyped, FS_Subset, FS_CardinalityType

\* What a run may still write and what is written stay within the limit together.
LEMMA LimitStep ==
  ASSUME Overlap = FALSE
  PROVE  LoopInv /\ OneAtATime /\ LimitInv /\ [Next]_vars => LimitInv'
<1> SUFFICES ASSUME LoopInv, OneAtATime, LimitInv, [Next]_vars PROVE LimitInv'
  OBVIOUS
<1> USE DEF LoopInv
<1>0. NoneRejected' /\ LoopInv' /\ MaxOrders \in Nat
  BY NoneRejectedStep, LoopStep, MaxOrdersAssumption DEF LimitInv, MaxOrdersAssumption
<1>1. /\ \A d : Usage(d) = Cardinality(RowsOf(d)) /\ Usage(d)' = Cardinality(RowsOf(d)')
  <2>1. ASSUME NEW d PROVE Usage(d) = Cardinality(RowsOf(d))
    BY UsageIsRows DEF LimitInv
  <2>2. (NoneRejected => \A d : Usage(d) = Cardinality(RowsOf(d)))'
    BY UsageIsRows, PTL
  <2>. QED  BY <1>0, <2>1, <2>2
<1>2. ASSUME NEW r \in Runs, Step(r) \/ Crash(r), pc[r] \notin Gone, ~Save(r)
      PROVE  DailyLimit' /\ WithinBudget'
  <2>1. \A q \in Runs \ {r} : pc[q] \in Gone /\ pc'[q] \in Gone
    BY <1>2, OtherRuns DEF OneAtATime
  <2>2. \A q \in Runs : ~Save(q)
    BY <1>2, <2>1 DEF Save, Gone
  <2>3. \A d : RowsOf(d)' = RowsOf(d)
    BY <2>2, RowsOfStay
  <2>4. DailyLimit'
    BY <1>1, <2>3 DEF LimitInv, DailyLimit
  <2>5. ASSUME NEW q \in Runs, pc'[q] \notin Gone
        PROVE  (Cardinality(RowsOf(ctx[q].session)) + Cardinality(ToWrite(q)) <= MaxOrders)'
    <3>0. q = r
      BY <2>1, <2>5
    <3>1. ctx'[r] = ctx[r] /\ Cardinality(ToWrite(r)') \in Nat /\ Cardinality(ToWrite(r)') <= Cardinality(ToWrite(r))
      BY <1>0, <1>2, <2>5, <3>0, LessToWrite
    <3>2. Cardinality(RowsOf(ctx[r].session)) + Cardinality(ToWrite(r)) <= MaxOrders
      BY <1>2 DEF LimitInv, WithinBudget
    <3>3. Cardinality(RowsOf(ctx[r].session)) \in Nat /\ Cardinality(ToWrite(r)) \in Nat
      BY CountsTyped
    <3>4. (RowsOf(ctx[r].session))' = RowsOf(ctx[r].session)
      BY <2>3, <3>1
    <3>. QED  BY <1>0, <3>0, <3>1, <3>2, <3>3, <3>4
  <2>. QED  BY <2>4, <2>5 DEF WithinBudget
<1>3. ASSUME NEW r \in Runs, Save(r) PROVE DailyLimit' /\ WithinBudget'
  <2> DEFINE d0 == ctx[r].session
  <2>0. pc[r] \notin Gone /\ pc'[r] \notin Gone /\ ctx' = ctx /\ d0 \in Sessions
    BY <1>3 DEF Save, Gone, TypeOK, Contexts
  <2>1. \A q \in Runs \ {r} : pc[q] \in Gone /\ pc'[q] \in Gone
    BY <1>3, <2>0, OtherRuns DEF OneAtATime, Step
  <2>2. \A q \in Runs : Save(q) => q = r
    BY <1>3, <2>1 DEF Save, Gone
  <2>3. /\ Cardinality(RowsOf(d0)') \in Nat /\ Cardinality(ToWrite(r)') \in Nat
        /\ Cardinality(RowsOf(d0)') <= Cardinality(RowsOf(d0)) + 1
        /\ Cardinality(ToWrite(r)') = Cardinality(ToWrite(r)) - 1
    BY <1>3, SaveSpends
  <2>4. Cardinality(RowsOf(d0)) + Cardinality(ToWrite(r)) <= MaxOrders
    BY <2>0 DEF LimitInv, WithinBudget
  <2>5. Cardinality(RowsOf(d0)) \in Nat /\ Cardinality(ToWrite(r)) \in Nat
    BY CountsTyped
  <2>6. /\ Cardinality(RowsOf(d0)') <= MaxOrders
        /\ Cardinality(RowsOf(d0)') + Cardinality(ToWrite(r)') <= MaxOrders
    BY <1>0, <2>3, <2>4, <2>5
  <2>7. DailyLimit'
    <3> SUFFICES ASSUME NEW d \in Sessions PROVE Usage(d)' <= MaxOrders
      BY DEF DailyLimit
    <3>1. CASE d = d0
      <4>1. (RowsOf(d))' = RowsOf(d0)'
        BY <2>0, <3>1
      <4>. QED  BY <1>1, <2>6, <4>1
    <3>2. CASE d # d0
      <4>1. RowsOf(d)' = RowsOf(d)
        BY <2>2, <3>2, RowsOfStay
      <4>. QED  BY <1>1, <4>1 DEF LimitInv, DailyLimit
    <3>. QED  BY <3>1, <3>2
  <2>8. ASSUME NEW q \in Runs, pc'[q] \notin Gone
        PROVE  (Cardinality(RowsOf(ctx[q].session)) + Cardinality(ToWrite(q)) <= MaxOrders)'
    <3>1. q = r
      BY <2>1, <2>8
    <3>2. (RowsOf(ctx[r].session))' = RowsOf(d0)'
      BY <2>0
    <3>. QED  BY <2>6, <3>1, <3>2
  <2>. QED  BY <2>7, <2>8 DEF WithinBudget
<1>4. ASSUME NEW r \in Runs, BuildContext(r) PROVE DailyLimit' /\ WithinBudget'
  <2>1. \A q \in Runs : pc[q] \in Gone /\ ~Save(q)
    BY <1>4 DEF BuildContext, Running, Save, Gone
  <2>2. \A d : RowsOf(d)' = RowsOf(d)
    BY <2>1, RowsOfStay
  <2>3. DailyLimit'
    BY <1>1, <2>2 DEF LimitInv, DailyLimit
  <2>4. PICK mode \in Modes, price \in Prices, approved \in SUBSET Sigs :
          /\ approved # {} => Usage(SessionDate) + Cardinality(approved) <= MaxOrders
          /\ ctx' = [ctx EXCEPT ![r] = [mode |-> mode, session |-> SessionDate,
                                        approved |-> approved, price |-> price]]
    BY <1>4 DEF BuildContext
  <2>5. ctx'[r].session = SessionDate /\ ctx'[r].approved = approved /\ SessionDate \in Sessions
    BY <2>4, DayFacts DEF TypeOK, BookTypeOK
  <2>6. Usage(SessionDate) + Cardinality(approved) <= MaxOrders
    <3>1. CASE approved = {}
      <4>1. Usage(SessionDate) <= MaxOrders /\ Usage(SessionDate) \in Nat
        BY <1>1, <2>5, CountsTyped DEF LimitInv, DailyLimit
      <4>. QED  BY <1>0, <3>1, <4>1, FS_EmptySet
    <3>. QED  BY <2>4, <3>1
  <2>7. Cardinality(ToWrite(r)') <= Cardinality(approved) /\ Cardinality(ToWrite(r)') \in Nat
    <3>1. ToWrite(r)' \subseteq approved
      BY <2>5 DEF ToWrite
    <3>. QED  BY <3>1, CountsTyped, FS_Subset, FS_CardinalityType
  <2>8. ASSUME NEW q \in Runs, pc'[q] \notin Gone
        PROVE  (Cardinality(RowsOf(ctx[q].session)) + Cardinality(ToWrite(q)) <= MaxOrders)'
    <3>1. q = r
      BY <1>4, <2>1, <2>8, OtherRuns DEF Step
    <3>2. (RowsOf(ctx[r].session))' = RowsOf(SessionDate)
      BY <2>2, <2>5
    <3>3. Usage(SessionDate) = Cardinality(RowsOf(SessionDate)) /\ Usage(SessionDate) \in Nat
          /\ Cardinality(approved) \in Nat
      BY <1>1, CountsTyped
    <3>. QED  BY <1>0, <2>6, <2>7, <3>1, <3>2, <3>3
  <2>. QED  BY <2>3, <2>8 DEF WithinBudget
<1>5. ASSUME UNCHANGED <<orders, pc, ctx, cursor>> PROVE DailyLimit' /\ WithinBudget'
  BY <1>5 DEF LimitInv, DailyLimit, Usage, Recorded, WithinBudget, RowsOf, ToWrite
<1>6. ASSUME NEW r \in Runs, Step(r) \/ Crash(r), pc[r] \in Gone PROVE BuildContext(r)
  BY <1>6, OnlyBuildStarts
<1>. QED
  BY <1>0, <1>2, <1>3, <1>4, <1>5, <1>6, EnvironmentEffect
     DEF LimitInv, Next, vars, bookVars, runVars

\* However many invocations a session has, one after another, killed and retried,
\* its rows never exceed the daily limit: a run counts what the earlier ones wrote,
\* and writes at most one row for each signal the gate let through.
THEOREM LimitHolds ==
  ASSUME Overlap = FALSE
  PROVE  Spec => []DailyLimit
<1>1. Init => OneAtATime /\ LimitInv
  <2> SUFFICES ASSUME Init PROVE OneAtATime /\ LimitInv
    OBVIOUS
  <2>1. OneAtATime /\ WithinBudget
    BY DEF Init, OneAtATime, WithinBudget, Gone
  <2>2. NoneRejected
    BY DEF Init, BookInit, NoneRejected, Recorded, NoOutcome
  <2>3. \A d \in Sessions : RowsOf(d) = {}
    BY DEF Init, BookInit, RowsOf, Recorded
  <2>4. DailyLimit
    <3>1. Cardinality({}) = 0 /\ MaxOrders \in Nat
      BY FS_EmptySet, MaxOrdersAssumption DEF MaxOrdersAssumption
    <3>2. \A d \in Sessions : Usage(d) = 0
      BY <2>2, <2>3, <3>1, UsageIsRows
    <3>. QED  BY <3>1, <3>2 DEF DailyLimit
  <2>. QED  BY <2>1, <2>2, <2>4 DEF LimitInv
<1>2. LoopInv /\ OneAtATime /\ [Next]_vars => OneAtATime'
  BY OneStep
<1>3. LoopInv /\ OneAtATime /\ LimitInv /\ [Next]_vars => LimitInv'
  BY LimitStep
<1>4. LimitInv => DailyLimit
  BY DEF LimitInv
<1>. QED
  BY <1>1, <1>2, <1>3, <1>4, LoopInit, LoopStep, PTL DEF Spec

-----------------------------------------------------------------------------
(* The executor implements ActAsAsked. *)

\* A row says which session it is of, and its id is one of those the batch's signals
\* under its key can take.
WithinCopies(s) == orders[s].session = s[1] /\ s[3] \in 1..Copies[<<s[1], s[2]>>]

RowsKeepTheirIds == \A s \in Slots : Recorded(s) => WithinCopies(s)

\* Every key is named finitely often.
LEMMA CopiesTyped == \A x \in Signals : Copies[x] \in Nat
<1> SUFFICES ASSUME NEW x \in Signals PROVE Copies[x] \in Nat
  OBVIOUS
<1>1. IsFiniteSet(Sigs)
  BY BatchFacts, FS_Interval DEF Sigs
<1>2. IsFiniteSet({i \in Sigs : Batch[i] = x[2]})
  BY <1>1, FS_Subset
<1>3. Cardinality({i \in Sigs : Batch[i] = x[2]}) \in Nat
  BY <1>2, FS_CardinalityType
<1>. QED
  BY <1>3 DEF Copies

\* _identify numbers the intents of one run: it never counts further than the batch
\* has signals of the key, whatever subset of them is approved.
LEMMA SeqWithinCopies ==
  ASSUME TypeOK, NEW r \in Runs, NEW i \in ctx[r].approved
  PROVE  /\ <<ctx[r].session, Batch[i]>> \in Signals
         /\ Identify(r, i)[1] = ctx[r].session /\ Identify(r, i)[2] = Batch[i]
         /\ Identify(r, i)[3] \in 1..Copies[<<ctx[r].session, Batch[i]>>]
<1> DEFINE x    == <<ctx[r].session, Batch[i]>>
           Same == {j \in ctx[r].approved : j <= i /\ Batch[j] = Batch[i]}
           All  == {j \in Sigs : Batch[j] = x[2]}
<1>1. /\ ctx[r].approved \subseteq Sigs /\ ctx[r].session \in Sessions
      /\ i \in Nat /\ Batch[i] \in Keys
  BY BatchFacts DEF TypeOK, Contexts
<1>2. x \in Signals
  BY <1>1 DEF Signals
<1>3. IsFiniteSet(Sigs)
  BY BatchFacts, FS_Interval DEF Sigs
<1>4. IsFiniteSet(All) /\ Same \subseteq All
  BY <1>1, <1>3, FS_Subset
<1>5. /\ IsFiniteSet(Same) /\ Cardinality(Same) <= Cardinality(All)
      /\ Cardinality(Same) \in Nat /\ Cardinality(All) \in Nat
  BY <1>4, FS_Subset, FS_CardinalityType
<1>6. Cardinality(Same) # 0
  <2>1. i \in Same
    BY <1>1
  <2>. QED  BY <2>1, <1>5, FS_EmptySet
<1>7. Copies[x] = Cardinality(All)
  BY <1>2 DEF Copies
<1>8. Identify(r, i) = <<ctx[r].session, Batch[i], Cardinality(Same)>>
  BY DEF Identify
<1> HIDE DEF x, Same, All
<1>9. Cardinality(Same) \in 1..Copies[x]
  BY <1>5, <1>6, <1>7
<1>. QED
  BY <1>2, <1>8, <1>9 DEF x

\* The rows keep their ids: Save writes one under the id of the run's signal.
LEMMA RowIdStep == LoopInv /\ RowsKeepTheirIds /\ [Next]_vars => RowsKeepTheirIds'
<1> SUFFICES ASSUME LoopInv, RowsKeepTheirIds, [Next]_vars, NEW s \in Slots, Recorded(s)'
             PROVE  WithinCopies(s)'
  BY DEF RowsKeepTheirIds
<1>1. WithinCopies(s)' <=> orders'[s].session = s[1] /\ s[3] \in 1..Copies[<<s[1], s[2]>>]
  BY DEF WithinCopies, Copies, Signals
<1>2. CASE Recorded(s)
  <2>1. orders'[s].session = orders[s].session
    BY <1>2, RowStep DEF SameRow
  <2>. QED  BY <1>1, <1>2, <2>1 DEF RowsKeepTheirIds, WithinCopies
<1>3. CASE ~Recorded(s)
  <2>1. PICK r \in Runs : Save(r) /\ s = Slot(r) /\ orders'[s] = FreshRow(ctx[r].mode, ctx[r].session)
    BY <1>3, RowStep
  <2>2. cursor[r] \in ctx[r].approved /\ s = Identify(r, cursor[r])
    BY <2>1 DEF Save, LoopInv, SubmitsUnderItsId, TypeOK
  <2>3. orders'[s].session = ctx[r].session
    BY <2>1 DEF FreshRow
  <2>. QED  BY <1>1, <2>2, <2>3, SeqWithinCopies DEF LoopInv
<1>. QED
  BY <1>2, <1>3

\* The rows and the orders of a key can be counted, and every order is on a row.
LEMMA UnderFacts ==
  ASSUME TypeOK, NEW x \in Signals
  PROVE  /\ IsFiniteSet(RowsUnder(x)) /\ Cardinality(RowsUnder(x)) \in Nat
         /\ IsFiniteSet(OrdersUnder(x)) /\ Cardinality(OrdersUnder(x)) \in Nat
<1>1. RowsUnder(x) \subseteq Slots /\ OrdersUnder(x) \subseteq Slots
  BY DEF RowsUnder, OrdersUnder
<1>. QED
  BY <1>1, SlotsAreFinite, FS_Subset, FS_CardinalityType

\* Ids of one key that are within its copies are no more than those.
LEMMA IdsWithinCopies ==
  ASSUME NEW x \in Signals, NEW S \in SUBSET Slots,
         \A s \in S : s[1] = x[1] /\ s[2] = x[2] /\ s[3] \in 1..Copies[x]
  PROVE  Cardinality(S) <= Copies[x]
<1>1. Copies[x] \in Nat
  BY CopiesTyped
<1>2. \A c \in Nat : IsFiniteSet(1..c) /\ Cardinality(1..c) = c
  BY FS_Interval
<1> DEFINE f == [s \in S |-> s[3]]
<1>3. f \in [S -> 1..Copies[x]]
  OBVIOUS
<1>4. ASSUME NEW s \in S, NEW t \in S, f[s] = f[t] PROVE s = t
  BY <1>4 DEF Slots
<1>5. f \in Injection(S, 1..Copies[x])
  BY <1>3, <1>4 DEF Injection, IsInjective
<1> HIDE DEF f
<1>. QED
  BY <1>1, <1>2, <1>5, FS_Injection

\* A request accepted under an id of its key, with the row there, places one of the
\* claimed signals of that key, or is the order already held.
LEMMA AcceptPlaces ==
  ASSUME TypeOK, OrdersKeepTheirIds, RowsKeepTheirIds, RecordedBeforeSent, NEW b \in Bodies,
         NEW s \in Slots, OwnId(s, b), Accept(s, b), Recorded(s), orders' = orders
  PROVE  \/ UNCHANGED <<Claims, Placements>>
         \/ \E x \in Signals : /\ Placements[x] < Claims[x]
                               /\ Placements' = [Placements EXCEPT ![x] = @ + 1]
                               /\ Claims' = Claims
<1>1. Claims' = Claims
  BY DEF Claims, RowsUnder, Recorded
<1>2. CASE Held(s)
  BY <1>1, <1>2 DEF Accept, Placements, OrdersUnder, Held
<1>3. CASE ~Held(s)
  <2> DEFINE x == <<b.session, Batch[b.sig]>>
  <2>1. x \in Signals /\ s[1] = x[1] /\ s[2] = x[2]
    BY BatchFacts DEF Bodies, Signals, OwnId
  <2>2. broker' = [broker EXCEPT ![s] = [body |-> b, filled |-> 0, state |-> "open"]]
    BY <1>3 DEF Accept
  <2>3. /\ \A t \in Slots \ {s} : broker'[t] = broker[t]
        /\ broker'[s].body = b
    BY <2>2 DEF TypeOK, BookTypeOK
  <2>4. Held(s)'
    BY AcceptEffect
  <2>5. s \notin OrdersUnder(x)
    BY <1>3 DEF OrdersUnder
  <2>6. OrdersUnder(x)' = OrdersUnder(x) \cup {s}
    <3>1. s \in OrdersUnder(x)'
      BY <2>3, <2>4 DEF OrdersUnder
    <3>2. \A t \in Slots \ {s} : t \in OrdersUnder(x)' <=> t \in OrdersUnder(x)
      BY <2>3 DEF OrdersUnder, Held
    <3>. QED  BY <3>1, <3>2 DEF OrdersUnder
  <2>7. ASSUME NEW y \in Signals, y # x PROVE OrdersUnder(y)' = OrdersUnder(y)
    <3>1. ~(b.session = y[1] /\ Batch[b.sig] = y[2])
      BY <2>7 DEF Signals
    <3>2. s \notin OrdersUnder(y) /\ s \notin OrdersUnder(y)'
      BY <1>3, <2>3, <3>1 DEF OrdersUnder
    <3>3. \A t \in Slots \ {s} : t \in OrdersUnder(y)' <=> t \in OrdersUnder(y)
      BY <2>3 DEF OrdersUnder, Held
    <3>. QED  BY <3>2, <3>3 DEF OrdersUnder
  <2>8. OrdersUnder(x) \cup {s} \subseteq RowsUnder(x)
    BY <2>1 DEF OrdersUnder, RowsUnder, RecordedBeforeSent, RowsKeepTheirIds, WithinCopies,
                OrdersKeepTheirIds, OwnId
  <2> HIDE DEF x
  <2>9. Cardinality(OrdersUnder(x) \cup {s}) = Cardinality(OrdersUnder(x)) + 1
    BY <2>1, <2>5, UnderFacts, FS_AddElement
  <2>10. Cardinality(OrdersUnder(x)) < Cardinality(RowsUnder(x))
    <3>1. Cardinality(OrdersUnder(x) \cup {s}) <= Cardinality(RowsUnder(x))
      BY <2>1, <2>8, UnderFacts, FS_Subset
    <3>. QED  BY <2>1, <2>9, <3>1, UnderFacts
  <2>11. Placements[x] < Claims[x]
    BY <2>1, <2>10 DEF Placements, Claims
  <2>12. Placements' = [Placements EXCEPT ![x] = @ + 1]
    <3>1. \A y \in Signals : Cardinality(OrdersUnder(y)') = [Placements EXCEPT ![x] = @ + 1][y]
      BY <2>6, <2>7, <2>9 DEF Placements
    <3>2. Placements' = [y \in Signals |-> Cardinality(OrdersUnder(y)')]
      BY DEF Placements, Signals
    <3>. QED  BY <3>1, <3>2 DEF Placements
  <2>. QED  BY <1>1, <2>1, <2>11, <2>12
<1>. QED  BY <1>2, <1>3

\* save_order claims one of the signals of the key the run is at, or finds its row
\* already there.
LEMMA SaveClaims ==
  ASSUME LoopInv, RowsKeepTheirIds, NEW r \in Runs, Save(r)
  PROVE  /\ Placements' = Placements
         /\ \/ Claims' = Claims
            \/ \E x \in Signals : Claims[x] < Copies[x] /\ Claims' = [Claims EXCEPT ![x] = @ + 1]
<1> DEFINE x == <<ctx[r].session, Batch[cursor[r]]>>
           s == Slot(r)
<1>0. TypeOK
  BY DEF LoopInv
<1>1. /\ x \in Signals /\ s \in Slots
      /\ s[1] = x[1] /\ s[2] = x[2] /\ s[3] \in 1..Copies[x]
  <2>1. pc[r] = "save"
    BY DEF Save
  <2>2. cursor[r] \in ctx[r].approved /\ s = Identify(r, cursor[r]) /\ s \in Slots
    BY <2>1, RequestTyped DEF LoopInv, SubmitsUnderItsId, TypeOK
  <2>. QED  BY <1>0, <2>2, SeqWithinCopies
<1>2. Placements' = Placements
  BY DEF Save, Placements, OrdersUnder, Held
<1>3. CASE Recorded(s)
  BY <1>2, <1>3 DEF Save, SaveOrder, Claims, RowsUnder, Recorded
<1>4. CASE ~Recorded(s)
  <2>1. orders'[s] # NoRow /\ orders'[s].session = x[1]
    <3>1. orders'[s] = FreshRow(ctx[r].mode, ctx[r].session)
      BY <1>0, <1>1, <1>4 DEF Save, SaveOrder, TypeOK, BookTypeOK
    <3>2. orders'[s].session = x[1]
      BY <3>1 DEF FreshRow
    <3>3. Recorded(Slot(r))'
      BY <1>0, SaveRecords
    <3>4. Slot(r)' = Slot(r)
      BY <1>0, SaveRecords
    <3>. QED  BY <3>2, <3>3, <3>4 DEF Recorded
  <2>2. \A t \in Slots \ {s} : orders'[t] = orders[t]
    BY <1>0 DEF Save, SaveOrder, TypeOK, BookTypeOK
  <2>3. s \notin RowsUnder(x)
    BY <1>4 DEF RowsUnder
  <2>4. {t \in Slots : orders'[t] # NoRow /\ orders'[t].session = x[1] /\ t[2] = x[2]} = RowsUnder(x) \cup {s}
    <3>1. \A t \in Slots \ {s} : /\ orders'[t] # NoRow <=> Recorded(t)
                                 /\ orders'[t].session = orders[t].session
      BY <2>2 DEF Recorded
    <3> HIDE DEF x, s
    <3>. QED  BY <1>1, <2>1, <3>1 DEF RowsUnder
  <2>5. ASSUME NEW y \in Signals, y # x
        PROVE  {t \in Slots : orders'[t] # NoRow /\ orders'[t].session = y[1] /\ t[2] = y[2]} = RowsUnder(y)
    <3>1. ~(x[1] = y[1] /\ x[2] = y[2])
      BY <1>1, <2>5 DEF Signals
    <3>2. ~(orders'[s].session = y[1] /\ s[2] = y[2])
      BY <1>1, <2>1, <3>1
    <3>. QED  BY <1>4, <2>2, <3>2 DEF RowsUnder, Recorded
  <2>6. RowsUnder(x) \cup {s} \in SUBSET Slots
    BY <1>1 DEF RowsUnder
  <2>7. \A t \in RowsUnder(x) \cup {s} : t[1] = x[1] /\ t[2] = x[2] /\ t[3] \in 1..Copies[x]
    <3>1. ASSUME NEW t \in RowsUnder(x) PROVE t[1] = x[1] /\ t[2] = x[2] /\ t[3] \in 1..Copies[x]
      <4>1. t[1] = x[1] /\ t[2] = x[2] /\ t[3] \in 1..Copies[<<t[1], t[2]>>]
        BY <3>1 DEF RowsUnder, RowsKeepTheirIds, WithinCopies
      <4>. QED  BY <4>1
    <3>. QED  BY <1>1, <3>1
  <2> HIDE DEF x, s
  <2>8. Cardinality(RowsUnder(x) \cup {s}) = Cardinality(RowsUnder(x)) + 1
    BY <1>0, <1>1, <2>3, UnderFacts, FS_AddElement
  <2>9. Claims[x] < Copies[x]
    <3>1. Cardinality(RowsUnder(x) \cup {s}) <= Copies[x]
      BY <1>1, <2>6, <2>7, IdsWithinCopies
    <3>2. Claims[x] = Cardinality(RowsUnder(x)) /\ Cardinality(RowsUnder(x)) \in Nat
      BY <1>0, <1>1, UnderFacts DEF Claims
    <3>3. Copies[x] \in Nat
      BY <1>1, CopiesTyped
    <3>. QED  BY <2>8, <3>1, <3>2, <3>3
  <2>10. Claims' = [Claims EXCEPT ![x] = @ + 1]
    <3>1. Claims' = [y \in Signals |->
              Cardinality({t \in Slots : orders'[t] # NoRow /\ orders'[t].session = y[1] /\ t[2] = y[2]})]
      BY DEF Claims, RowsUnder, Signals, Recorded
    <3>2. \A y \in Signals : Claims'[y] = [Claims EXCEPT ![x] = @ + 1][y]
      BY <1>1, <2>4, <2>5, <2>8, <3>1 DEF Claims
    <3>. QED  BY <3>1, <3>2 DEF Claims
  <2>. QED  BY <1>1, <1>2, <2>9, <2>10
<1>. QED  BY <1>2, <1>3, <1>4

AskInv == OrdersKeepTheirIds /\ RowsKeepTheirIds /\ RecordedBeforeSent

\* Each step of the executor is a step of ActAsAsked, or none.
LEMMA AskedStep == LoopInv /\ AskInv /\ [Next]_vars => [Asked!Next]_<<Claims, Placements>>
<1> SUFFICES ASSUME LoopInv, AskInv, [Next]_vars
             PROVE  [Asked!Next]_<<Claims, Placements>>
  OBVIOUS
<1> USE DEF LoopInv, AskInv
<1>1. ASSUME UNCHANGED <<Claims, Placements>> PROVE [Asked!Next]_<<Claims, Placements>>
  BY <1>1
<1>2. ASSUME NEW x \in Signals, Claims[x] < Copies[x], Claims' = [Claims EXCEPT ![x] = @ + 1],
             Placements' = Placements
      PROVE  [Asked!Next]_<<Claims, Placements>>
  BY <1>2 DEF Asked!Next, Asked!Claim
<1>3. ASSUME NEW x \in Signals, Placements[x] < Claims[x],
             Placements' = [Placements EXCEPT ![x] = @ + 1], Claims' = Claims
      PROVE  [Asked!Next]_<<Claims, Placements>>
  BY <1>3 DEF Asked!Next, Asked!Place
<1>4. ASSUME NEW s \in Slots, NEW b \in Bodies, OwnId(s, b), Accept(s, b), Recorded(s), orders' = orders
      PROVE  [Asked!Next]_<<Claims, Placements>>
  BY <1>1, <1>3, <1>4, AcceptPlaces
<1>5. ASSUME NEW r \in Runs, Save(r) PROVE [Asked!Next]_<<Claims, Placements>>
  BY <1>1, <1>2, <1>5, SaveClaims
<1>6. ASSUME orders' = orders, broker' = broker PROVE [Asked!Next]_<<Claims, Placements>>
  BY <1>1, <1>6 DEF Claims, Placements, RowsUnder, OrdersUnder, Recorded, Held
<1>7. ASSUME NEW r \in Runs, Attempt(r) PROVE [Asked!Next]_<<Claims, Placements>>
  <2>1. /\ pc[r] = "send" /\ orders' = orders
        /\ Slot(r) \in Slots /\ Body(r) \in Bodies /\ Recorded(Slot(r))
    BY <1>7, AttemptEffect, RequestTyped DEF RowIsWritten
  <2>2. Slot(r) = Identify(r, cursor[r])
    BY <2>1 DEF SubmitsUnderItsId
  <2>3. OwnId(Slot(r), Body(r))
    BY <2>2, IdentifyFacts DEF OwnId, Body
  <2>. QED  BY <1>4, <1>6, <1>7, <2>1, <2>3, AttemptEffect
<1>8. ASSUME NEW r \in Runs, Finish(r) PROVE [Asked!Next]_<<Claims, Placements>>
  <2>1. \A s \in Slots : (Recorded(s)' <=> Recorded(s)) /\ (Recorded(s) => SameRow(s))
    <3>1. \A q \in Runs : ~Save(q)
      BY <1>8 DEF Finish, Save, TypeOK
    <3>. QED  BY <3>1, RowStep, RowsStay
  <2>2. broker' = broker
    BY <1>8 DEF Finish
  <2>3. Placements' = Placements
    BY <2>2 DEF Placements, OrdersUnder, Held
  <2>4. \A x \in Signals : RowsUnder(x)' = RowsUnder(x)
    BY <2>1 DEF RowsUnder, SameRow
  <2>5. Claims' = Claims
    BY <2>4 DEF Claims
  <2>. QED  BY <1>1, <2>3, <2>5
<1>9. ASSUME NEW r \in Runs, BuildContext(r) \/ Lookup(r) \/ Stop(r)
      PROVE  [Asked!Next]_<<Claims, Placements>>
  BY <1>6, <1>9, StopEffect DEF BuildContext, Lookup, bookVars
<1>10. CASE Environment /\ UNCHANGED runVars
  <2>1. \A m \in late : m.slot \in Slots /\ Recorded(m.slot) /\ OwnId(m.slot, m.body)
    BY DEF RecordedBeforeSent, OrdersKeepTheirIds, TypeOK, BookTypeOK, Requests
  <2>. QED  BY <1>4, <1>6, <1>10, <2>1, EnvironmentEffect
<1>11. CASE UNCHANGED vars
  BY <1>6, <1>11 DEF vars, bookVars
<1>. QED
  BY <1>5, <1>7, <1>8, <1>9, <1>10, <1>11 DEF Next, Step, Stop

\* The counts start at nothing, and what they rest on holds.
LEMMA AskedInit == Init => Asked!Init /\ AskInv
<1> SUFFICES ASSUME Init PROVE Asked!Init /\ AskInv
  OBVIOUS
<1>1. \A x \in Signals : RowsUnder(x) = {} /\ OrdersUnder(x) = {}
  BY DEF Init, BookInit, RowsUnder, OrdersUnder, Recorded, Held
<1>2. Claims = [x \in Signals |-> 0] /\ Placements = [x \in Signals |-> 0]
  BY <1>1, FS_EmptySet DEF Claims, Placements
<1>3. AskInv
  BY DEF Init, BookInit, AskInv, OrdersKeepTheirIds, RowsKeepTheirIds, RecordedBeforeSent,
         Recorded, Held
<1>. QED
  BY <1>2, <1>3 DEF Asked!Init

\* trade.py is an implementation of ActAsAsked, whatever the batch, a batch that names
\* a key twice included: a signal is claimed in the store before it is placed, no key
\* is claimed more often than the batch names it nor placed more often than claimed,
\* under crashes, timeouts, late arrivals, overlapping runs and re-runs that approve
\* other subsets.
THEOREM ImplementsActAsAsked == Spec => ActsAsAsked
<1>1. LoopInv /\ AskInv /\ [Next]_vars => AskInv'
  BY OwnIdStep, RowIdStep, RecordedStep DEF AskInv
<1>. QED
  BY <1>1, AskedInit, AskedStep, LoopInit, LoopStep, PTL DEF Spec, ActsAsAsked, Asked!Spec

\* A signal acted on is never acted on twice, where the batch names its key once.
ActedOnOnce ==
  \A s, t \in Slots :
    /\ Held(s) /\ Held(t)
    /\ broker[s].body.session = broker[t].body.session
    /\ broker[s].body.sig = broker[t].body.sig
    /\ Copies[<<broker[s].body.session, Batch[broker[s].body.sig]>>] = 1
    => s = t

\* However often its session is run, a signal whose key no other signal of the batch has
\* is on one broker order at most.  With a second signal under the key, two orders may
\* carry the same signal: a re-run that approves both submits the second under a new id.
THEOREM UniqueSignalOnce == Spec => []ActedOnOnce
<1>1. AskInv => ActedOnOnce
  <2> SUFFICES ASSUME AskInv, NEW s \in Slots, NEW t \in Slots, Held(s), Held(t),
                      broker[s].body.session = broker[t].body.session,
                      broker[s].body.sig = broker[t].body.sig,
                      Copies[<<broker[s].body.session, Batch[broker[s].body.sig]>>] = 1
               PROVE  s = t
    BY DEF ActedOnOnce
  <2>1. /\ s[1] = t[1] /\ s[2] = t[2] /\ Copies[<<s[1], s[2]>>] = 1
        /\ s[3] \in 1..Copies[<<s[1], s[2]>>] /\ t[3] \in 1..Copies[<<t[1], t[2]>>]
    <3>1. /\ s[1] = broker[s].body.session /\ s[2] = Batch[broker[s].body.sig]
          /\ t[1] = broker[t].body.session /\ t[2] = Batch[broker[t].body.sig]
      BY DEF AskInv, OrdersKeepTheirIds, OwnId
    <3>2. WithinCopies(s) /\ WithinCopies(t)
      BY DEF AskInv, RowsKeepTheirIds, RecordedBeforeSent
    <3>. QED  BY <3>1, <3>2 DEF WithinCopies
  <2>2. s[3] = t[3]
    BY <2>1
  <2>. QED  BY <2>1, <2>2 DEF Slots
<1>2. LoopInv /\ AskInv /\ [Next]_vars => AskInv'
  BY OwnIdStep, RowIdStep, RecordedStep DEF AskInv
<1>. QED
  BY <1>1, <1>2, AskedInit, LoopInit, LoopStep, PTL DEF Spec
=============================================================================
