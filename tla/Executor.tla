------------------------------- MODULE Executor -------------------------------
(***************************************************************************)
(* One invocation of `trade.py`: build_context, the strategies, the gate,  *)
(* and the loop that submits each approved intent through OrderExecutor    *)
(* and TossClient.  Several invocations may run, overlap, be killed or die *)
(* of an exception: Cloud Run retries a failed job once, and a person may  *)
(* start one by hand.                                                      *)
(***************************************************************************)
EXTENDS OrderBook

CONSTANTS
  Runs,        \* the invocations of trade.py
  MaxRetries,  \* TossClient.MAX_RETRIES
  MaxOrders,   \* limits.max_orders_per_day
  Overlap      \* may an invocation start while another is running?

ASSUME RetriesAssumption   == MaxRetries \in Nat
ASSUME MaxOrdersAssumption == MaxOrders \in Nat
ASSUME OverlapAssumption   == Overlap \in BOOLEAN

VARIABLES
  pc,       \* where each run is
  ctx,      \* what build_context, evaluate and the gate settled for it
  cursor,   \* the signal it submits, or submitted last; 0 before the first
  call,     \* the intent being submitted: its id, the price its body carries,
            \* and how far the HTTP call has got
  outcome   \* what the call came to, before it is written to the row

runVars == <<pc, ctx, cursor, call, outcome>>
vars    == <<bookVars, runVars>>

\* Local state of a process that is not running.
NoCtx == [mode |-> "paper", session |-> 0, approved |-> {},
          price |-> CHOOSE p \in Prices : TRUE]
NoCall == [slot |-> CHOOSE s \in Slots : TRUE, price |-> CHOOSE p \in Prices : TRUE,
           attempt |-> 0, refreshed |-> FALSE, mayReclamp |-> FALSE]
NoOutcome == [status |-> "pending", expected |-> TRUE, fatal |-> FALSE, gotId |-> FALSE]

Gone    == {"idle", "done", "lost", "dead"}
Running == {r \in Runs : pc[r] \notin Gone}

-----------------------------------------------------------------------------
\* Approved signals this run has still to submit; the loop takes them in order.
Remaining(r) == {i \in ctx[r].approved : i > cursor[r]}
IsNext(r, i) == i \in Remaining(r) /\ \A j \in Remaining(r) : i <= j

\* Mutated form of Identify: `_seq` counts the rows the key has, not the intents
\* of this run.
IdentifyByRows(r, i) ==
  <<ctx[r].session, Batch[i],
    IF \A n \in Sigs : Recorded(<<ctx[r].session, Batch[i], n>>) THEN Len(Batch)
    ELSE 1 + Cardinality({n \in Sigs : Recorded(<<ctx[r].session, Batch[i], n>>)})>>

\* Mutated form of Identify: keyed on the clock, as before session_date.
IdentifyByWallDate(r, i) ==
  <<WallDate, Batch[i],
    Cardinality({j \in ctx[r].approved : j <= i /\ Batch[j] = Batch[i]})>>

\* _identify: the client_order_id of the i-th signal.  `_seq` counts, per
\* (strategy, symbol, day), the intents this run has identified so far.
Identify(r, i) ==
  <<ctx[r].session, Batch[i],
    Cardinality({j \in ctx[r].approved : j <= i /\ Batch[j] = Batch[i]})>>

Slot(r) == call[r].slot

\* order_body: what this run's current POST asks for.
Body(r) == [session |-> ctx[r].session, sig |-> cursor[r], price |-> call[r].price]

\* The process ends: nothing of it survives but what it wrote.
Exit(r, how) ==
  /\ pc' = [pc EXCEPT ![r] = how]
  /\ ctx' = [ctx EXCEPT ![r] = NoCtx]
  /\ cursor' = [cursor EXCEPT ![r] = 0]
  /\ call' = [call EXCEPT ![r] = NoCall]
  /\ outcome' = [outcome EXCEPT ![r] = NoOutcome]

-----------------------------------------------------------------------------
\* Mutated form of BuildContext: each signal judged against the day's usage
\* alone, as before BatchCommitment.
BuildContextEachAlone(r) ==
  /\ pc[r] = "idle"
  /\ Overlap \/ Running = {}
  /\ \E mode \in Modes, price \in Prices, approved \in SUBSET Sigs :
       /\ killed => approved = {}
       /\ approved # {} => Usage(SessionDate) < MaxOrders
       /\ ctx' = [ctx EXCEPT ![r] = [mode |-> mode, session |-> SessionDate,
                                     approved |-> approved, price |-> price]]
  /\ pc' = [pc EXCEPT ![r] = "ready"]
  /\ UNCHANGED <<bookVars, cursor, call, outcome>>

(***************************************************************************)
(* run(): one snapshot of the kill switch and of the day's usage, then the *)
(* signals, then the gate.  Which signals the other rules reject depends   *)
(* on the account and the market: any subset within the daily count.       *)
(***************************************************************************)
BuildContext(r) ==
  /\ pc[r] = "idle"
  /\ Overlap \/ Running = {}
  /\ \E mode \in Modes, price \in Prices, approved \in SUBSET Sigs :
       /\ killed => approved = {}
       /\ approved # {} =>
            Usage(SessionDate) + Cardinality(approved) <= MaxOrders
       /\ ctx' = [ctx EXCEPT ![r] = [mode |-> mode, session |-> SessionDate,
                                     approved |-> approved, price |-> price]]
  /\ pc' = [pc EXCEPT ![r] = "ready"]
  /\ UNCHANGED <<bookVars, cursor, call, outcome>>

\* The intent is new to the store: it goes on under this id.
Proceed(r, s) ==
  /\ pc' = [pc EXCEPT ![r] = "save"]
  /\ call' = [call EXCEPT ![r] = [slot |-> s, price |-> ctx[r].price, attempt |-> 0,
                                  refreshed |-> FALSE, mayReclamp |-> TRUE]]

\* Mutated form of Lookup: only a LIVE row stops the order.
LookupLiveOnly(r) ==
  /\ pc[r] = "ready"
  /\ \E i \in Sigs :
       /\ IsNext(r, i)
       /\ cursor' = [cursor EXCEPT ![r] = i]
       /\ LET s == Identify(r, i) IN
          IF Recorded(s) /\ orders[s].mode = "live" THEN UNCHANGED <<pc, call>> ELSE Proceed(r, s)
  /\ UNCHANGED <<bookVars, ctx, outcome>>

\* submit(), first half: identify the intent, look its id up in the store.
Lookup(r) ==
  /\ pc[r] = "ready"
  /\ \E i \in Sigs :
       /\ IsNext(r, i)
       /\ cursor' = [cursor EXCEPT ![r] = i]
       /\ LET s == Identify(r, i) IN
          IF Recorded(s) THEN UNCHANGED <<pc, call>> ELSE Proceed(r, s)
  /\ UNCHANGED <<bookVars, ctx, outcome>>

\* Mutated form of Save: the request goes out before any row.
SaveOnlyOnPaper(r) ==
  /\ pc[r] = "save"
  /\ IF ctx[r].mode = "paper"
     THEN /\ SaveOrder(Slot(r), "paper", ctx[r].session)
          /\ pc' = [pc EXCEPT ![r] = "finish"]
          /\ outcome' = [outcome EXCEPT ![r] =
                 [status |-> "simulated", expected |-> TRUE, fatal |-> FALSE, gotId |-> FALSE]]
     ELSE pc' = [pc EXCEPT ![r] = "send"] /\ UNCHANGED <<orders, outcome>>
  /\ UNCHANGED <<broker, late, killed, clock, ctx, cursor, call>>

\* The row is written before the request; PAPER sends no request.
Save(r) ==
  /\ pc[r] = "save"
  /\ SaveOrder(Slot(r), ctx[r].mode, ctx[r].session)
  /\ IF ctx[r].mode = "paper"
     THEN /\ pc' = [pc EXCEPT ![r] = "finish"]
          /\ outcome' = [outcome EXCEPT ![r] =
                 [status |-> "simulated", expected |-> TRUE, fatal |-> FALSE, gotId |-> FALSE]]
     ELSE pc' = [pc EXCEPT ![r] = "send"] /\ UNCHANGED outcome
  /\ UNCHANGED <<broker, late, killed, clock, ctx, cursor, call>>

-----------------------------------------------------------------------------
(***************************************************************************)
(* TossClient.request: one action per way an attempt can end.              *)
(***************************************************************************)
Sending(r) == pc[r] = "send"

\* The call ends; the executor has an outcome to write.
SettleWith(r, o) ==
  /\ pc' = [pc EXCEPT ![r] = "finish"]
  /\ outcome' = [outcome EXCEPT ![r] = o]
  /\ UNCHANGED call

\* It ends without the id Toss would have assigned.
Settle(r, status, expected, fatal) ==
  SettleWith(r, [status |-> status, expected |-> expected, fatal |-> fatal, gotId |-> FALSE])

\* The loop in request() goes round again, one retry the poorer.
TryAgain(r) ==
  /\ call[r].attempt < MaxRetries
  /\ call' = [call EXCEPT ![r].attempt = @ + 1]
  /\ UNCHANGED <<pc, outcome>>

Exhausted(r) == call[r].attempt >= MaxRetries

\* 2xx, whose body may or may not name the order's id.
Accepted(r) ==
  /\ Sending(r)
  /\ Accepts(Slot(r), Body(r))
  /\ Accept(Slot(r), Body(r))
  /\ \E gotId \in BOOLEAN :
       SettleWith(r, [status |-> "submitted", expected |-> TRUE, fatal |-> FALSE, gotId |-> gotId])
  /\ UNCHANGED <<orders, late, killed, clock, ctx, cursor>>

\* A 4xx the broker gives an order it does not hold: `expected` for a code in
\* TERMINAL_CODES, not for any other.
Refused(r) ==
  /\ Sending(r)
  /\ ~Held(Slot(r))
  /\ \E expected \in BOOLEAN : Settle(r, "failed", expected, FALSE)
  /\ UNCHANGED <<bookVars, ctx, cursor>>

\* 403, or a second 401, whatever the order book holds: raised as it is.  An
\* account-restricted 403 is an expected code, an unlisted address is not.
Forbidden(r) ==
  /\ Sending(r)
  /\ \E expected \in BOOLEAN : Settle(r, "failed", expected, FALSE)
  /\ UNCHANGED <<bookVars, ctx, cursor>>

\* Mutated form of Unauthorized: the next 401 forgets that the refresh is spent.
UnauthorizedForgets(r) ==
  /\ Sending(r)
  /\ call' = [call EXCEPT ![r].refreshed = ~@]
  /\ UNCHANGED <<bookVars, pc, ctx, cursor, outcome>>

\* The first 401 of a call: one forced refresh, and the request goes again.
Unauthorized(r) ==
  /\ Sending(r)
  /\ ~call[r].refreshed
  /\ call' = [call EXCEPT ![r].refreshed = TRUE]
  /\ UNCHANGED <<bookVars, pc, ctx, cursor, outcome>>

\* 429: retried, then raised as it is, with a code no list of the executor names.
Throttled(r) ==
  /\ Sending(r)
  /\ TryAgain(r) \/ (Exhausted(r) /\ Settle(r, "failed", FALSE, FALSE))
  /\ UNCHANGED <<bookVars, ctx, cursor>>

\* A timeout, a dropped connection or a 5xx: the broker may have the request,
\* may get it yet, or may never see it.
NoAnswer(r) ==
  /\ Sending(r)
  /\ late' = late \cup {[slot |-> Slot(r), body |-> Body(r)]}
  /\ TryAgain(r) \/ (Exhausted(r) /\ Settle(r, "unknown", FALSE, FALSE))
  /\ UNCHANGED <<orders, broker, killed, clock, ctx, cursor>>

\* Mutated form of InProgress: an order in progress is taken for submitted.
InProgressIsSubmitted(r) ==
  /\ Sending(r)
  /\ late' = late \cup {[slot |-> Slot(r), body |-> Body(r)]}
  /\ Settle(r, "submitted", TRUE, FALSE)
  /\ UNCHANGED <<orders, broker, killed, clock, ctx, cursor>>

\* request-in-progress, already-processing: asked about later, never re-sent.
InProgress(r) ==
  /\ Sending(r)
  /\ late' = late \cup {[slot |-> Slot(r), body |-> Body(r)]}
  /\ Settle(r, "unknown", FALSE, FALSE)
  /\ UNCHANGED <<orders, broker, killed, clock, ctx, cursor>>

\* price-out-of-range, invalid-tick-size: re-sent once at a reclamped price,
\* as a new request() call; if there is nothing to clamp, or it was re-sent
\* already, it fails like any other 4xx outside TERMINAL_CODES.
PriceRefused(r) ==
  /\ Sending(r)
  /\ ~Held(Slot(r))
  /\ call[r].mayReclamp
  /\ \E p \in Prices \ {call[r].price} :
       call' = [call EXCEPT ![r] = [slot |-> Slot(r), price |-> p, attempt |-> 0,
                                    refreshed |-> FALSE, mayReclamp |-> FALSE]]
  /\ UNCHANGED <<bookVars, pc, ctx, cursor, outcome>>

\* idempotency-key-conflict: recorded as failed, then ExecutorBug is raised.
Conflict(r) ==
  /\ Sending(r)
  /\ Conflicts(Slot(r), Body(r))
  /\ Settle(r, "failed", TRUE, TRUE)
  /\ UNCHANGED <<bookVars, ctx, cursor>>

Attempt(r) ==
  \/ Accepted(r)   \/ Refused(r)   \/ Forbidden(r)  \/ Unauthorized(r)
  \/ Throttled(r)  \/ NoAnswer(r)  \/ InProgress(r) \/ PriceRefused(r)
  \/ Conflict(r)

-----------------------------------------------------------------------------
\* _unexplained: a LIVE run stops and holds trading after such an outcome.
Unexplained(r) ==
  /\ ctx[r].mode = "live"
  /\ \/ outcome[r].status = "unknown"
     \/ outcome[r].status = "failed" /\ ~outcome[r].expected

\* Mutated form of Finish: the loop goes on whatever the record says.
FinishAndGoOn(r) ==
  /\ pc[r] = "finish"
  /\ UpdateOrder(Slot(r), outcome[r].status, outcome[r].gotId)
  /\ pc' = [pc EXCEPT ![r] = "ready"]
  /\ call' = [call EXCEPT ![r] = NoCall]
  /\ outcome' = [outcome EXCEPT ![r] = NoOutcome]
  /\ UNCHANGED <<broker, late, killed, clock, ctx, cursor>>

\* _finish, and the caller's reaction to the record it returns.
Finish(r) ==
  /\ pc[r] = "finish"
  /\ UpdateOrder(Slot(r), outcome[r].status, outcome[r].gotId)
  /\ pc' = [pc EXCEPT ![r] =
         IF outcome[r].fatal \/ Unexplained(r) THEN "hold" ELSE "ready"]
  /\ call' = [call EXCEPT ![r] = NoCall]
  /\ outcome' = [outcome EXCEPT ![r] = NoOutcome]
  /\ UNCHANGED <<broker, late, killed, clock, ctx, cursor>>

\* The loop is over.
Done(r) ==
  /\ pc[r] = "ready"
  /\ Remaining(r) = {}
  /\ Exit(r, "done")
  /\ UNCHANGED bookVars

\* hold_trading, at the end of the loop or from _hold_after_crash.  It never
\* raises: a switch that cannot be written is printed, and lost.
Hold(r) ==
  /\ pc[r] = "hold"
  /\ \/ killed' = TRUE /\ Exit(r, "done")
     \/ UNCHANGED killed /\ Exit(r, "lost")
  /\ UNCHANGED <<orders, broker, late, clock>>

\* The run stops, perhaps with a request of its own still on the way.
LeaveRequest(r) ==
  \/ UNCHANGED late
  \/ pc[r] = "send" /\ late' = late \cup {[slot |-> Slot(r), body |-> Body(r)]}

\* An exception that is not a TossApiError (Firestore, the token file lock, a
\* malformed answer) unwinds to main(), which holds LIVE trading only.
Raise(r) ==
  /\ pc[r] \in {"ready", "save", "send", "finish"}
  /\ IF ctx[r].mode = "live"
     THEN pc' = [pc EXCEPT ![r] = "hold"] /\ UNCHANGED <<ctx, cursor, call, outcome>>
     ELSE Exit(r, "done")
  /\ LeaveRequest(r)
  /\ UNCHANGED <<orders, broker, killed, clock>>

\* The process is killed: task timeout, out of memory, a person.
Crash(r) ==
  /\ pc[r] \notin Gone
  /\ Exit(r, "dead")
  /\ LeaveRequest(r)
  /\ UNCHANGED <<orders, broker, killed, clock>>

-----------------------------------------------------------------------------
Step(r) ==
  \/ BuildContext(r) \/ Lookup(r) \/ Save(r) \/ Attempt(r)
  \/ Finish(r) \/ Done(r) \/ Hold(r) \/ Raise(r)

Environment ==
  \/ \E m \in late : LateArrival(m)
  \/ PullSwitch
  \/ Tick

Init ==
  /\ BookInit
  /\ pc = [r \in Runs |-> "idle"]
  /\ ctx = [r \in Runs |-> NoCtx]
  /\ cursor = [r \in Runs |-> 0]
  /\ call = [r \in Runs |-> NoCall]
  /\ outcome = [r \in Runs |-> NoOutcome]

Next ==
  \/ \E r \in Runs : Step(r) \/ Crash(r)
  \/ Environment /\ UNCHANGED runVars

Spec == Init /\ [][Next]_vars

\* A process that is scheduled runs on until it ends or is killed; every
\* request is answered or times out.  Nothing else is owed: not that a job is
\* started, that the network delivers, or that a person touches the switch.
Progress(r) ==
  Lookup(r) \/ Save(r) \/ Attempt(r) \/ Finish(r) \/ Done(r) \/ Hold(r)

FairSpec == Spec /\ \A r \in Runs : WF_vars(Progress(r))

-----------------------------------------------------------------------------
PCs      == {"idle", "ready", "save", "send", "finish", "hold", "done",
             "lost", "dead"}
Contexts == [mode : Modes, session : Sessions, approved : SUBSET Sigs, price : Prices]
Calls    == [slot : Slots, price : Prices, attempt : 0..MaxRetries,
             refreshed : BOOLEAN, mayReclamp : BOOLEAN]
Outcomes == [status : Statuses, expected : BOOLEAN, fatal : BOOLEAN, gotId : BOOLEAN]

\* Every variable holds a value the code can put there, and a run inside the
\* submit loop is at one of its approved signals.
TypeOK ==
  /\ BookTypeOK
  /\ pc \in [Runs -> PCs]
  /\ ctx \in [Runs -> Contexts]
  /\ cursor \in [Runs -> Nat]
  /\ call \in [Runs -> Calls]
  /\ outcome \in [Runs -> Outcomes]
  /\ \A r \in Runs : pc[r] \in {"save", "send", "finish"} => cursor[r] \in ctx[r].approved

\* Write-ahead: whatever the broker holds, or may yet receive, has a row, so a
\* run that finds the id in the store can stop (save_order before the POST).
RecordedBeforeSent ==
  /\ \A s \in Slots : Held(s) => Recorded(s)
  /\ \A m \in late : Recorded(m.slot)

\* What a batch asks for is counted per session and (strategy, symbol): a batch may
\* name one twice, as a trend exit and a rotation exit of one holding do.  A row claims
\* one of a key's signals, and an order the broker holds places one.
Signals     == Sessions \X Keys
Copies      == [x \in Signals |-> Cardinality({i \in Sigs : Batch[i] = x[2]})]
RowsUnder(x)   == {s \in Slots : Recorded(s) /\ orders[s].session = x[1] /\ s[2] = x[2]}
OrdersUnder(x) == {s \in Slots : /\ Held(s)
                                 /\ broker[s].body.session = x[1]
                                 /\ Batch[broker[s].body.sig] = x[2]}
Claims      == [x \in Signals |-> Cardinality(RowsUnder(x))]
Placements  == [x \in Signals |-> Cardinality(OrdersUnder(x))]

\* "A signal that has been acted on is never acted on twice": however often the
\* session is run, retried past midnight, crashed or timed out, and whatever subset
\* each run approves, a key is claimed no more often than the batch names it, and
\* placed no more often than it is claimed.
Asked == INSTANCE ActAsAsked WITH copies <- Copies, claims <- Claims, placements <- Placements
ActsAsAsked == Asked!Spec

\* "submitted" is a fact about the broker, not a hope: the order is there.
SubmittedIsHeld ==
  \A s \in Slots : Recorded(s) /\ orders[s].status = "submitted" => Held(s)

\* What the broker holds is on a LIVE row, the only kind the reconciler polls;
\* a PAPER row's id never reaches the broker.
HeldOrdersAreLive ==
  \A s \in Slots : Held(s) => orders[s].mode = "live"

\* The session's rows never exceed the daily order limit, however many runs
\* the session has: what an earlier run recorded, a later one counts.
DailyLimit ==
  \A d \in Sessions : Usage(d) <= MaxOrders

\* An outcome nobody planned for ends in the kill switch, unless the process
\* is killed first or the switch itself cannot be written.
TroubleEngagesSwitch ==
  \A r \in Runs :
    (pc[r] = "finish" /\ Unexplained(r)) ~> (killed \/ pc[r] \in {"lost", "dead"})

\* Retries, the forced refresh and the reclamp are bounded: every run ends.
EveryRunEnds == \A r \in Runs : pc[r] = "ready" ~> pc[r] \in Gone
=============================================================================
