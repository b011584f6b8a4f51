------------------------------ MODULE Oversight ------------------------------
(***************************************************************************)
(* What people and the AI changed, and what the audit log says of it: the  *)
(* settings fingerprint (src/audit.py), the AI universe review and its     *)
(* vetoes (src/universe_review.py), and the lifting of a veto from the     *)
(* dashboard.  The report job (main.py) and the trade job (trade.py) are   *)
(* processes that may overlap, fail or be killed between any two writes;   *)
(* they meet only in the store (src/store/repo.py).                        *)
(***************************************************************************)
EXTENDS Naturals, SequencesExt

CONSTANTS
  Reports,      \* runs of main.py
  Trades,       \* runs of trade.py
  Lifts,        \* DELETE requests of the dashboard
  Symbols,
  Limits,       \* keys of trading.limits
  Settings,     \* what config.yaml may say: of a symbol, an audited field, or None if it
                \* is not in the universe; of a limit, its value, or None if it is not set
  First,        \* the settings of the first run
  VetoReplies,  \* what the model may put under "vetoes": sequences of rows
  IdeaReplies,  \* ... and under its two lists of candidates: [growth, core]
  Excluded,     \* analyst.excluded_candidates
  MaxVetoes, MaxCandidates, MaxGrowth, \* analyst.max_*
  Ttl,          \* analyst.veto_ttl_days
  MaxEdits,     \* bound: edits of the settings
  MaxDay,       \* bound: days of a behaviour
  MaxFailures,  \* bound: refusals of the store and kills in a behaviour
  None

ASSUME ActorsDiffer ==
  Reports \cap Trades = {} /\ Lifts \cap (Reports \cup Trades) = {}
ASSUME ExcludedAreSymbols == Excluded \subseteq Symbols
ASSUME BoundsAreNumbers ==
  {MaxVetoes, MaxCandidates, MaxGrowth, Ttl, MaxEdits, MaxDay, MaxFailures} \subseteq Nat
ASSUME RepliesAreLists ==
  /\ VetoReplies \subseteq Seq([symbol : Symbols, sound : BOOLEAN])
  /\ IdeaReplies \subseteq [growth : Seq(Symbols), core : Seq(Symbols)]

Jobs   == Reports \cup Trades
Actors == Jobs \cup Lifts

\* Of audit.CATEGORIES, two, and what their changes are about.
Categories  == {"universe", "limits"}
Targets     == Symbols \cup Limits
Category(k) == IF k \in Symbols THEN "universe" ELSE "limits"

Universe(c) == {s \in Symbols : c[s] # None}
Universes   == {Universe(c) : c \in Settings}

\* What the log says of a symbol instead of a value.
Words == {"held", "added", "removed"}

ASSUME FirstIsSettings == First \in Settings /\ None \notin Settings
ASSUME SettingsAreMappings ==
  /\ Symbols \cap Limits = {}
  /\ \A c \in Settings : DOMAIN c = Targets /\ \A k \in Targets : c[k] \notin Words
ASSUME NoneIsNoTime == None \notin Nat \cup Words

VARIABLES
  settings,  \* what config.yaml says
  edits, day,
  print,     \* audit_state/fingerprint, None before the first run
  began,     \* audit_log, its baseline entries: the settings each was written for.  It
             \* counts the symbols and names the strategies, and tells nothing else
  changes,   \* audit_log, by target: [before, after], oldest first
  says,      \* audit_log, by symbol: its newest veto entry, [what, since]
  vetoes,    \* universe_vetoes, by symbol: when they expire, or None
  pc,
  cfg,       \* the settings a job has loaded
  prev,      \* the fingerprint it compares them with
  left,      \* what it has still to write
  found,     \* its review
  blocked,   \* ctx.blocked_symbols of a trade run
  seen,      \* the symbol a lift has found on the list
  crossed,   \* history: two actors have been at the same records at once
  failures   \* history: calls the store refused, and kills

world   == <<settings, edits, day>>
log     == <<began, changes, says>>
job     == <<cfg, prev, left, found, blocked>>
history == <<crossed, failures>>
vars    == <<world, print, log, vetoes, pc, job, seen, history>>

Recording == {j \in Jobs : pc[j] = "log"}
Reviewing == {j \in Reports : pc[j] = "hold"}
Lifting   == {d \in Lifts : pc[d] \in {"delete", "note"}}

Goto(a, l) == pc' = [pc EXCEPT ![a] = l]

\* A call of the store that raises, swallowed or not.
Refused == failures < MaxFailures /\ failures' = failures + 1 /\ UNCHANGED crossed

\* A job ends, and its memory with it.
Exit(j) ==
  /\ Goto(j, "gone")
  /\ cfg' = [cfg EXCEPT ![j] = None]
  /\ prev' = [prev EXCEPT ![j] = None]
  /\ left' = [left EXCEPT ![j] = <<>>]
  /\ found' = [found EXCEPT ![j] = None]
  /\ blocked' = [blocked EXCEPT ![j] = {}]

\* record_config_changes returns, having written what it had to or not.
Return(j, how) ==
  /\ Goto(j, how)
  /\ prev' = [prev EXCEPT ![j] = None]
  /\ left' = [left EXCEPT ![j] = <<>>]
  /\ UNCHANGED <<cfg, found, blocked>>

\* A request of the dashboard ends.
Answer(d, how) == Goto(d, how) /\ seen' = [seen EXCEPT ![d] = None]

-----------------------------------------------------------------------------
(***************************************************************************)
(* The person who edits the settings, and the calendar.                    *)
(***************************************************************************)
Edit ==
  /\ edits < MaxEdits
  /\ settings' \in Settings \ {settings}
  /\ edits' = edits + 1
  /\ UNCHANGED <<day, print, log, vetoes, pc, job, seen, history>>

Tick ==
  /\ day < MaxDay
  /\ day' = day + 1
  /\ UNCHANGED <<settings, edits, print, log, vetoes, pc, job, seen, history>>

-----------------------------------------------------------------------------
(***************************************************************************)
(* record_config_changes, which both jobs call early, with what they loaded. *)
(***************************************************************************)
\* load_config, once, at the start.
Load(j) ==
  /\ pc[j] = "idle"
  /\ cfg' = [cfg EXCEPT ![j] = settings]
  /\ Goto(j, "compare")
  /\ UNCHANGED <<world, print, log, vetoes, prev, left, found, blocked, seen, history>>

\* diff, category by category, or the one entry of a first run.
Moved(c, before, after) ==
  IF \E k \in Targets : Category(k) = c /\ before[k] # after[k] THEN <<c>> ELSE <<>>

Unlogged(before, after) ==
  IF before = None THEN <<"baseline">>
  ELSE Moved("universe", before, after) \o Moved("limits", before, after)

Compare(j) ==
  /\ pc[j] = "compare"
  /\ \/ print = cfg[j] /\ Return(j, "recorded") /\ UNCHANGED history
     \/ /\ print # cfg[j]
        /\ prev' = [prev EXCEPT ![j] = print]
        /\ left' = [left EXCEPT ![j] = Unlogged(print, cfg[j])]
        /\ Goto(j, "log")
        /\ crossed' = (crossed \/ Recording # {})
        /\ UNCHANGED <<cfg, found, blocked, failures>>
     \/ Return(j, "missed") /\ Refused
  /\ UNCHANGED <<world, print, log, vetoes, seen>>

\* What an entry says of a target that moved: of a symbol that joins or leaves the
\* universe, only that it does.
Change(k, old, new) ==
  [before |-> IF k \in Symbols /\ new = None THEN "held" ELSE old,
   after  |-> IF k \in Symbols /\ old = None THEN "added"
              ELSE IF k \in Symbols /\ new = None THEN "removed" ELSE new]

\* The baseline marks where the log begins; the entry of a category has a change for
\* every target of it that moved.
Log(j, item) ==
  /\ began' = IF item = "baseline" THEN began \cup {cfg[j]} ELSE began
  /\ changes' = [k \in Targets |->
       IF Category(k) = item /\ prev[j][k] # cfg[j][k]
       THEN Append(changes[k], Change(k, prev[j][k], cfg[j][k]))
       ELSE changes[k]]

\* Mutated form of LogChange: a category that cannot be logged is passed over.
LogOrSkip(j) ==
  /\ pc[j] = "log" /\ left[j] # <<>>
  /\ left' = [left EXCEPT ![j] = Tail(@)]
  /\ Log(j, Head(left[j])) \/ UNCHANGED <<began, changes>>
  /\ UNCHANGED <<world, print, says, vetoes, pc, cfg, prev, found, blocked, seen, history>>

\* save_audit_entries: one document after another, then ...
LogChange(j) ==
  /\ pc[j] = "log" /\ left[j] # <<>>
  /\ \/ /\ Log(j, Head(left[j]))
        /\ left' = [left EXCEPT ![j] = Tail(@)]
        /\ UNCHANGED <<pc, cfg, prev, found, blocked, history>>
     \/ Return(j, "missed") /\ Refused /\ UNCHANGED <<began, changes>>
  /\ UNCHANGED <<world, print, says, vetoes, seen>>

\* Mutated form of SavePrint: the fingerprint is written by the first run only.
SaveFirstPrint(j) ==
  /\ pc[j] = "log" /\ left[j] = <<>>
  /\ print' = IF prev[j] = None THEN cfg[j] ELSE print
  /\ Return(j, "recorded")
  /\ UNCHANGED <<world, log, vetoes, seen, history>>

\* ... save_audit_fingerprint.
SavePrint(j) ==
  /\ pc[j] = "log" /\ left[j] = <<>>
  /\ \/ print' = cfg[j] /\ Return(j, "recorded") /\ UNCHANGED history
     \/ Return(j, "missed") /\ Refused /\ UNCHANGED print
  /\ UNCHANGED <<world, log, vetoes, seen>>

-----------------------------------------------------------------------------
(***************************************************************************)
(* UniverseReviewer.review: what is kept of a reply.  A row of "vetoes" is *)
(* sound when its category is allowed and it cites evidence.               *)
(***************************************************************************)
\* What is kept of those that pass: each symbol once, until there are enough.  The
\* count is looked at after one has been taken.
Cleaned(symbols, passing, max) ==
  LET kept[i \in 0..Len(symbols)] ==
        IF i = 0 THEN <<>>
        ELSE IF \/ i \notin passing
                \/ Contains(kept[i - 1], symbols[i])
                \/ kept[i - 1] # <<>> /\ Len(kept[i - 1]) >= max
             THEN kept[i - 1]
             ELSE Append(kept[i - 1], symbols[i])
  IN  kept[Len(symbols)]

CleanVetoes(rows, known) ==
  Cleaned([i \in DOMAIN rows |-> rows[i].symbol],
          {i \in DOMAIN rows : rows[i].symbol \in known /\ rows[i].sound}, MaxVetoes)

CleanCandidates(rows, known, max) ==
  Cleaned(rows, {i \in DOMAIN rows : rows[i] \notin known \cup Excluded}, max)

\* Mutated form of CleanIdeas: the two lists are cleaned apart.
CleanApart(reply, known) ==
  [growth |-> CleanCandidates(reply.growth, known, MaxGrowth),
   core   |-> CleanCandidates(reply.core, known, MaxCandidates)]

\* Growth candidates first: what they name is taken.
CleanIdeas(reply, known) ==
  LET growth == CleanCandidates(reply.growth, known, MaxGrowth)
  IN  [growth |-> growth,
       core   |-> CleanCandidates(reply.core, known \cup ToSet(growth), MaxCandidates)]

\* What the replies come to, for each universe.
KeptVetoes == [u \in Universes |-> {CleanVetoes(r, u) : r \in VetoReplies}]
KeptIdeas  == [u \in Universes |-> {CleanIdeas(r, u) : r \in IdeaReplies}]

Proposed(j) == ToSet(found[j].growth) \cup ToSet(found[j].core)

-----------------------------------------------------------------------------
(***************************************************************************)
(* The rest of main.py: _review_universe and the writes behind it.         *)
(***************************************************************************)
\* No answer, an empty one, or an earlier step that raises: nothing is written.
AskInVain(j) ==
  /\ j \in Reports /\ pc[j] \in {"recorded", "missed"}
  /\ Exit(j)
  /\ UNCHANGED <<world, print, log, vetoes, seen, history>>

\* The time stamps of the review and of its entry are seconds apart: one, here.
Ask(j) ==
  /\ j \in Reports /\ pc[j] \in {"recorded", "missed"}
  /\ \E v \in KeptVetoes[Universe(cfg[j])], i \in KeptIdeas[Universe(cfg[j])] :
       /\ v # <<>> \/ i.growth # <<>> \/ i.core # <<>>
       /\ found' = [found EXCEPT ![j] =
            [vetoes |-> v, growth |-> i.growth, core |-> i.core, since |-> day]]
       /\ left' = [left EXCEPT ![j] = v]
  /\ Goto(j, "hold")
  /\ crossed' = (crossed \/ Reviewing # {} \/ Lifting # {})
  /\ UNCHANGED <<world, print, log, vetoes, cfg, prev, blocked, seen, failures>>

\* Mutated form of Hold: a veto that is there already is left as it is.
HoldOnce(j) ==
  /\ pc[j] = "hold" /\ left[j] # <<>>
  /\ vetoes' = [vetoes EXCEPT ![Head(left[j])] =
         IF @ # None THEN @ ELSE found[j].since + Ttl]
  /\ left' = [left EXCEPT ![j] = Tail(@)]
  /\ UNCHANGED <<world, print, log, pc, cfg, prev, found, blocked, seen, history>>

\* save_universe_review: a document per veto, renewed if it is there ...
Hold(j) ==
  /\ pc[j] = "hold" /\ left[j] # <<>>
  /\ \/ /\ vetoes' = [vetoes EXCEPT ![Head(left[j])] = found[j].since + Ttl]
        /\ left' = [left EXCEPT ![j] = Tail(@)]
        /\ UNCHANGED <<pc, cfg, prev, found, blocked, history>>
     \/ Exit(j) /\ Refused /\ UNCHANGED vetoes
  /\ UNCHANGED <<world, print, log, seen>>

\* ... then one for the candidates and the entries of review_entries, of which one
\* is for all vetoes.  What is kept of the candidates is read by people only, so
\* those two writes show when they are refused and not otherwise.
Enter(j) ==
  /\ pc[j] = "hold" /\ left[j] = <<>>
  /\ Exit(j)
  /\ \/ /\ says' = [s \in Symbols |->
               IF Contains(found[j].vetoes, s) THEN [what |-> "held", since |-> found[j].since]
               ELSE says[s]]
        /\ UNCHANGED history
     \/ Refused /\ UNCHANGED says
  /\ UNCHANGED <<world, print, began, changes, vetoes, seen>>

-----------------------------------------------------------------------------
(***************************************************************************)
(* The trade job reads the vetoes into its context.                        *)
(***************************************************************************)
Active == {s \in Symbols : vetoes[s] # None /\ vetoes[s] > day}

\* _blocked_symbols: an unreadable list blocks nothing.  What the run then does with
\* it is RiskGate's; here it is over.
Consult(t) ==
  /\ t \in Trades /\ pc[t] \in {"recorded", "missed"}
  /\ Goto(t, "gone")
  /\ cfg' = [cfg EXCEPT ![t] = None]
  /\ \/ blocked' = [blocked EXCEPT ![t] = Active] /\ UNCHANGED history
     \/ blocked' = [blocked EXCEPT ![t] = {}] /\ Refused
  /\ UNCHANGED <<world, print, log, vetoes, prev, left, found, seen>>

-----------------------------------------------------------------------------
(***************************************************************************)
(* DashboardService.clear_veto: read, delete, then an entry.               *)
(***************************************************************************)
\* Expired vetoes are listed too.
Look(d) ==
  /\ pc[d] = "idle"
  /\ \E s \in Symbols :
       /\ vetoes[s] # None
       /\ seen' = [seen EXCEPT ![d] = s]
  /\ Goto(d, "delete")
  /\ crossed' = (crossed \/ Reviewing # {} \/ Lifting # {})
  /\ UNCHANGED <<world, print, log, vetoes, job, failures>>

\* The delete comes first: a lift nobody logged beats a log of none.
Delete(d) ==
  /\ pc[d] = "delete"
  /\ \/ /\ vetoes' = [vetoes EXCEPT ![seen[d]] = None]
        /\ Goto(d, "note")
        /\ UNCHANGED <<seen, history>>
     \/ Answer(d, "gone") /\ Refused /\ UNCHANGED vetoes
  /\ UNCHANGED <<world, print, log, job>>

\* veto_cleared_entry, best effort.
Note(d) ==
  /\ pc[d] = "note"
  /\ \/ /\ says' = [says EXCEPT ![seen[d]] = [what |-> "lifted", since |-> day]]
        /\ Answer(d, "noted")
        /\ UNCHANGED history
     \/ Answer(d, "gone") /\ Refused /\ UNCHANGED says
  /\ UNCHANGED <<world, print, began, changes, vetoes, job>>

-----------------------------------------------------------------------------
\* A process is killed between two writes.
Crash(a) ==
  /\ pc[a] \notin {"idle", "noted", "gone"}
  /\ \/ a \in Jobs  /\ Exit(a) /\ UNCHANGED seen
     \/ a \in Lifts /\ Answer(a, "gone") /\ UNCHANGED job
  /\ Refused
  /\ UNCHANGED <<world, print, log, vetoes>>

Init ==
  /\ settings = First
  /\ edits = 0 /\ day = 0
  /\ print = None
  /\ began = {}
  /\ changes = [k \in Targets |-> <<>>]
  /\ says = [s \in Symbols |-> [what |-> "none", since |-> 0]]
  /\ vetoes = [s \in Symbols |-> None]
  /\ pc = [a \in Actors |-> "idle"]
  /\ cfg = [j \in Jobs |-> None]
  /\ prev = [j \in Jobs |-> None]
  /\ left = [j \in Jobs |-> <<>>]
  /\ found = [j \in Jobs |-> None]
  /\ blocked = [j \in Jobs |-> {}]
  /\ seen = [d \in Lifts |-> None]
  /\ crossed = FALSE /\ failures = 0

Next ==
  \/ Edit \/ Tick
  \/ \E j \in Jobs : Load(j) \/ Compare(j) \/ LogChange(j) \/ SavePrint(j)
  \/ \E j \in Reports : AskInVain(j) \/ Ask(j) \/ Hold(j) \/ Enter(j)
  \/ \E t \in Trades : Consult(t)
  \/ \E d \in Lifts : Look(d) \/ Delete(d) \/ Note(d)
  \/ \E a \in Actors : Crash(a)

Spec == Init /\ [][Next]_vars

-----------------------------------------------------------------------------
\* A value that what the log says may stand for.
Fits(said, value) ==
  \/ said = value
  \/ said \in {"held", "added"} /\ value # None
  \/ said = "removed" /\ value = None

\* The log accounts for a value of a target: it began with it, or an entry tells of it.
Told(k, value) ==
  \/ \E b \in began : b[k] = value
  \/ \E e \in ToSet(changes[k]) : Fits(e.after, value)

\* Every variable holds a value the code can put there.
TypeOK ==
  /\ settings \in Settings /\ edits \in 0..MaxEdits /\ day \in 0..MaxDay
  /\ print \in Settings \cup {None} /\ began \subseteq Settings
  /\ \A k \in Targets : \A e \in ToSet(changes[k]) :
       {e.before, e.after} \subseteq {c[k] : c \in Settings} \cup Words
  /\ \A s \in Symbols : says[s].what \in {"none", "held", "lifted"} /\ says[s].since \in 0..MaxDay
  /\ \A s \in Symbols : vetoes[s] \in Nat \cup {None}
  /\ \A j \in Jobs : blocked[j] \subseteq Symbols
  /\ crossed \in BOOLEAN /\ failures \in 0..MaxFailures

\* audit.py: what a run takes as known, because the fingerprint says it, and what
\* it trades under, is what the log began with but for what an entry tells, target
\* by target - whoever overlaps, fails or is killed, as long as the run's own
\* recording was not cut short.  What it began with no entry tells.
NothingUnlogged ==
  \A k \in Targets :
    /\ print # None => Told(k, print[k])
    /\ \A j \in Jobs : pc[j] = "recorded" => Told(k, cfg[j][k])

\* A target may have had one value both when the one and when the other was said.
Agree(k, said, then) == \E v \in {c[k] : c \in Settings} : Fits(said, v) /\ Fits(then, v)

\* save_audit_entries and the fingerprint: while runs neither overlap nor fail,
\* each change of a target is logged once.  Its changes follow on from where the log
\* began and from one another, and end in what the fingerprint holds.
ChangesAreAChain ==
  ~crossed /\ failures = 0 =>
    \A k \in Targets :
      LET told == changes[k] IN
      /\ told # <<>> => \E b \in began : Fits(told[1].before, b[k])
      /\ \A i \in 2..Len(told) : Agree(k, told[i - 1].after, told[i].before)
      /\ \A i \in 1..Len(told) : ~Agree(k, told[i].before, told[i].after)
      /\ Recording = {} /\ print # None =>
           IF told = <<>> THEN \A b \in began : b[k] = print[k]
           ELSE Fits(Last(told).after, print[k])

\* universe_review.py: whatever the model answers, a review only holds back members
\* of the universe, no more than its ceiling, and only proposes what is neither in
\* the universe, nor excluded, nor proposed twice.
ReviewKeepsToItsPowers ==
  \A j \in Reviewing :
    /\ ToSet(found[j].vetoes) \subseteq Universe(cfg[j])
    /\ Len(found[j].vetoes) <= MaxVetoes
    /\ Proposed(j) \cap (Universe(cfg[j]) \cup Excluded) = {}
    /\ Cardinality(Proposed(j)) = Len(found[j].growth) + Len(found[j].core)

\* The audit log tells what the next run may buy: while reviews and lifts neither
\* cross nor fail, a trade run that reads the list is held back from exactly the
\* symbols whose newest entry is a veto of the last Ttl days, renewals included.
RunsHonourTheLog ==
  [][\A t \in Trades :
       /\ pc[t] \in {"recorded", "missed"} /\ pc'[t] = "gone"
       /\ ~crossed /\ failures' = 0 /\ Reviewing \cup Lifting = {}
       => blocked'[t] = {s \in Symbols : says[s].what = "held" /\ day < says[s].since + Ttl}]_vars
=============================================================================
