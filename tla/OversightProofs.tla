--------------------------- MODULE OversightProofs ---------------------------
(***************************************************************************)
(* That nothing is traded under that the log does not account for, for any *)
(* number of runs that overlap, fail and are killed, and for any settings; *)
(* and that while they neither cross nor fail, the changes are a chain and *)
(* the log tells what a trade run is held back from.                       *)
(***************************************************************************)
EXTENDS Oversight, WellFoundedInduction, FiniteSetTheorems, TLAPS

\* What a job may have to log, what the log says of a target, and the changes it says
\* it in.
Items   == {"baseline"} \cup Categories
Sayings == {c[k] : c \in Settings, k \in Targets} \cup Words
Changes == [before : Sayings, after : Sayings]

\* Where a job or a request may be.
Labels == {"idle", "compare", "log", "recorded", "missed", "hold",
           "delete", "note", "noted", "gone"}

\* A job that is recording the settings, or has.
Engaged == {"compare", "log", "recorded"}

Typed ==
  /\ settings \in Settings /\ print \in Settings \cup {None} /\ began \subseteq Settings
  /\ changes \in [Targets -> Seq(Changes)]
  /\ pc \in [Actors -> Labels]
  /\ cfg \in [Jobs -> Settings \cup {None}] /\ prev \in [Jobs -> Settings \cup {None}]
  /\ DOMAIN left = Jobs
  /\ \A j \in Jobs : pc[j] \in Engaged => cfg[j] \in Settings
  /\ \A j \in Jobs : pc[j] = "log" => left[j] \in Seq(Items)

\* What a recording job compares with is accounted for, and what it would trade under
\* is, or is on its list; a first run has nothing but the baseline on it.
LeftIsEnough ==
  \A j \in Jobs : pc[j] = "log" =>
    /\ prev[j] = None => ToSet(left[j]) \subseteq {"baseline"}
    /\ \A k \in Targets :
         /\ prev[j] # None => Told(k, prev[j][k])
         /\ Told(k, cfg[j][k]) \/ {"baseline", Category(k)} \cap ToSet(left[j]) # {}

\* The inductive invariant: NothingUnlogged alone does not say that a job which
\* finds its list empty may write the fingerprint.
IInv == Typed /\ LeftIsEnough /\ NothingUnlogged

-----------------------------------------------------------------------------
\* The elements of a sequence with one more at its end.
LEMMA AppendElements ==
  ASSUME NEW S, NEW s \in Seq(S), NEW e \in S
  PROVE  Append(s, e) \in Seq(S) /\ ToSet(Append(s, e)) = ToSet(s) \cup {e}
<1>1. /\ Append(s, e) \in Seq(S) /\ Len(Append(s, e)) = Len(s) + 1
      /\ \A i \in 1..Len(s) : Append(s, e)[i] = s[i]
      /\ Append(s, e)[Len(s) + 1] = e
  OBVIOUS
<1>2. /\ DOMAIN s = 1..Len(s) /\ Len(s) \in Nat
      /\ DOMAIN Append(s, e) = 1..(Len(s) + 1)
  BY <1>1
<1>3. \A x \in ToSet(Append(s, e)) : x \in ToSet(s) \cup {e}
  BY <1>1, <1>2 DEF ToSet
<1>4. \A x \in ToSet(s) : x \in ToSet(Append(s, e))
  BY <1>1, <1>2 DEF ToSet
<1>5. e \in ToSet(Append(s, e))
  BY <1>1, <1>2 DEF ToSet
<1>. QED  BY <1>1, <1>3, <1>4, <1>5

\* The elements of a sequence are its first and those behind it.
LEMMA TailElements ==
  ASSUME NEW S, NEW s \in Seq(S), s # <<>>
  PROVE  /\ Tail(s) \in Seq(S) /\ ToSet(s) \subseteq {Head(s)} \cup ToSet(Tail(s))
         /\ Head(s) \in ToSet(s) /\ ToSet(Tail(s)) \subseteq ToSet(s)
<1>1. /\ Tail(s) \in Seq(S) /\ Head(s) = s[1]
      /\ DOMAIN s = 1..Len(s) /\ Len(s) \in Nat \ {0}
      /\ DOMAIN Tail(s) = 1..(Len(s) - 1)
      /\ \A i \in 1..(Len(s) - 1) : Tail(s)[i] = s[i + 1]
  OBVIOUS
<1>2. ASSUME NEW i \in DOMAIN s
      PROVE  s[i] \in {Head(s)} \cup ToSet(Tail(s))
  <2>1. CASE i = 1
    BY <1>1, <2>1
  <2>2. CASE i # 1
    <3>1. i - 1 \in DOMAIN Tail(s) /\ Tail(s)[i - 1] = s[i]
      BY <1>1, <2>2
    <3>. QED  BY <3>1 DEF ToSet
  <2>. QED  BY <2>1, <2>2
<1>3. ASSUME NEW i \in DOMAIN Tail(s)
      PROVE  Tail(s)[i] \in ToSet(s)
  <2>1. i + 1 \in DOMAIN s /\ s[i + 1] = Tail(s)[i]
    BY <1>1
  <2>. QED  BY <2>1 DEF ToSet
<1>4. Head(s) \in ToSet(s)
  BY <1>1 DEF ToSet
<1>. QED  BY <1>1, <1>2, <1>3, <1>4 DEF ToSet

\* A change says something of a target that fits what it was, and what it is, and
\* nothing that fits both.
LEMMA ChangeFits ==
  ASSUME NEW c \in Settings, NEW d \in Settings, NEW k \in Targets, c[k] # d[k]
  PROVE  /\ Change(k, c[k], d[k]) \in Changes
         /\ Fits(Change(k, c[k], d[k]).before, c[k]) /\ Fits(Change(k, c[k], d[k]).after, d[k])
         /\ ~Agree(k, Change(k, c[k], d[k]).before, Change(k, c[k], d[k]).after)
<1> DEFINE old == c[k]
           new == d[k]
           e == Change(k, old, new)
<1>1. old \in Sayings /\ new \in Sayings /\ Words \subseteq Sayings
  BY DEF Sayings
<1>2. old \notin Words /\ new \notin Words /\ None \notin Words /\ old # new
  BY SettingsAreMappings, NoneIsNoTime DEF SettingsAreMappings, NoneIsNoTime
<1>3. ASSUME NEW v \in {x[k] : x \in Settings} PROVE v \notin Words
  BY <1>3, SettingsAreMappings DEF SettingsAreMappings
<1> HIDE DEF old, new
<1>4. e \in Changes /\ Fits(e.before, old) /\ Fits(e.after, new)
  BY <1>1, <1>2 DEF Change, Changes, Fits, Words
<1>5. ASSUME NEW v, v \notin Words, Fits(e.before, v), Fits(e.after, v) PROVE FALSE
  BY <1>2, <1>5 DEF Change, Fits, Words
<1>6. ~Agree(k, e.before, e.after)
  BY <1>3, <1>5 DEF Agree
<1>. QED  BY <1>4, <1>6 DEF old, new

\* Targets of a category are those it is the category of.
LEMMA CategoryTyped == \A k \in Targets : Category(k) \in Categories /\ Category(k) # "baseline"
  BY DEF Category, Categories

\* A list that names nothing twice.
Once(s) == \A i, k \in 1..Len(s) : s[i] = s[k] => i = k

\* Moved names a category if a target of it differs, and nothing else.
LEMMA MovedLists ==
  ASSUME NEW c \in Categories, NEW before, NEW after
  PROVE  /\ Moved(c, before, after) \in Seq(Items)
         /\ IF \E k \in Targets : Category(k) = c /\ before[k] # after[k]
            THEN Len(Moved(c, before, after)) = 1 /\ Moved(c, before, after)[1] = c
            ELSE Len(Moved(c, before, after)) = 0
<1>1. c \in Items
  BY DEF Items
<1>2. <<c>> \in Seq(Items) /\ Len(<<c>>) = 1 /\ <<c>>[1] = c
  BY <1>1
<1>3. <<>> \in Seq(Items) /\ Len(<<>>) = 0
  OBVIOUS
<1>. QED  BY <1>2, <1>3 DEF Moved

\* What Unlogged lists of two settings is what they differ in, once.
LEMMA UnloggedLists ==
  ASSUME NEW before, NEW after
  PROVE  LET s == Unlogged(before, after)
         IN  /\ s \in Seq(Items) /\ Once(s)
             /\ before = None => Len(s) = 1 /\ ToSet(s) = {"baseline"}
             /\ before # None =>
                  /\ "baseline" \notin ToSet(s)
                  /\ \A k \in Targets : before[k] # after[k] => Category(k) \in ToSet(s)
<1> DEFINE s == Unlogged(before, after)
           differ(c) == \E k \in Targets : Category(k) = c /\ before[k] # after[k]
<1>1. CASE before = None
  <2>1. s = <<"baseline">>
    BY <1>1 DEF Unlogged
  <2>2. /\ <<"baseline">> \in Seq(Items) /\ Len(<<"baseline">>) = 1 /\ <<"baseline">>[1] = "baseline"
        /\ DOMAIN <<"baseline">> = 1..1
    BY DEF Items
  <2>. HIDE DEF s
  <2>3. Len(s) = 1 /\ s[1] = "baseline" /\ s \in Seq(Items) /\ DOMAIN s = 1..1
    BY <2>1, <2>2
  <2>4. Once(s) /\ ToSet(s) = {"baseline"}
    BY <2>3 DEF Once, ToSet
  <2>. QED  BY <1>1, <2>3, <2>4 DEF s
<1>2. CASE before # None
  <2> DEFINE u == Moved("universe", before, after)
             l == Moved("limits", before, after)
  <2>1. /\ u \in Seq(Items) /\ l \in Seq(Items)
        /\ IF differ("universe") THEN Len(u) = 1 /\ u[1] = "universe" ELSE Len(u) = 0
        /\ IF differ("limits") THEN Len(l) = 1 /\ l[1] = "limits" ELSE Len(l) = 0
    BY MovedLists DEF Categories
  <2>2. s = u \o l
    BY <1>2 DEF Unlogged
  <2>3. \A k \in Targets : before[k] # after[k] => differ(Category(k))
    OBVIOUS
  <2>. HIDE DEF u, l, s, differ
  <2>4. /\ s \in Seq(Items) /\ Len(s) = Len(u) + Len(l) /\ DOMAIN s = 1..Len(s)
        /\ \A i \in 1..Len(u) : s[i] = u[i]
        /\ \A i \in 1..Len(l) : s[Len(u) + i] = l[i]
    BY <2>1, <2>2
  <2>5. /\ ToSet(s) \subseteq Categories /\ Once(s)
        /\ \A c \in Categories : differ(c) => c \in ToSet(s)
    <3>1. CASE differ("universe") /\ differ("limits")
      <4>0. Len(u) = 1 /\ Len(l) = 1 /\ u[1] = "universe" /\ l[1] = "limits" /\ 1 \in 1..1
        BY <2>1, <3>1
      <4>1. s[1] = u[1] /\ s[Len(u) + 1] = l[1] /\ Len(u) + 1 = 2
        BY <2>4, <4>0
      <4>2. Len(s) = 2 /\ s[1] = "universe" /\ s[2] = "limits" /\ DOMAIN s = 1..2
        BY <2>4, <4>0, <4>1
      <4>. QED  BY <4>2 DEF Once, ToSet, Categories
    <3>2. CASE differ("universe") /\ ~differ("limits")
      <4>1. Len(u) = 1 /\ Len(l) = 0 /\ u[1] = "universe" /\ 1 \in 1..1
        BY <2>1, <3>2
      <4>2. Len(s) = 1 /\ s[1] = "universe" /\ DOMAIN s = 1..1
        BY <2>4, <4>1
      <4>. QED  BY <3>2, <4>2 DEF Once, ToSet, Categories
    <3>3. CASE ~differ("universe") /\ differ("limits")
      <4>1. Len(u) = 0 /\ Len(l) = 1 /\ l[1] = "limits" /\ 1 \in 1..1
        BY <2>1, <3>3
      <4>2. s[Len(u) + 1] = l[1] /\ Len(u) + 1 = 1
        BY <2>4, <4>1
      <4>3. Len(s) = 1 /\ s[1] = "limits" /\ DOMAIN s = 1..1
        BY <2>4, <4>1, <4>2
      <4>. QED  BY <3>3, <4>3 DEF Once, ToSet, Categories
    <3>4. CASE ~differ("universe") /\ ~differ("limits")
      <4>1. Len(s) = 0 /\ DOMAIN s = 1..0
        BY <2>1, <2>4, <3>4
      <4>. QED  BY <3>4, <4>1 DEF Once, ToSet, Categories
    <3>. QED  BY <3>1, <3>2, <3>3, <3>4
  <2>6. "baseline" \notin Categories
    BY DEF Categories
  <2>. QED  BY <1>2, <2>3, <2>4, <2>5, <2>6, CategoryTyped DEF s
<1>. QED  BY <1>1, <1>2

-----------------------------------------------------------------------------
\* A step of which the log of changes learns nothing, and after which a job is where
\* it was or does not record.
Quiet ==
  /\ settings' \in Settings /\ print' = print /\ UNCHANGED <<began, changes>>
  /\ pc' \in [Actors -> Labels]
  /\ cfg' \in [Jobs -> Settings \cup {None}] /\ prev' \in [Jobs -> Settings \cup {None}]
  /\ DOMAIN left' = Jobs
  /\ \A j \in Jobs : pc'[j] \in Engaged =>
       pc'[j] = pc[j] /\ cfg'[j] = cfg[j] /\ prev'[j] = prev[j] /\ left'[j] = left[j]

\* Such a step loses nothing.
LEMMA QuietKeeps == IInv /\ Quiet => IInv'
<1>. SUFFICES ASSUME IInv, Quiet  PROVE IInv'
  OBVIOUS
<1>1. \A k \in Targets : \A value : Told(k, value)' = Told(k, value)
  BY DEF Quiet, Told
<1>2. Typed'
  BY DEF IInv, Typed, Quiet, Engaged
<1>3. LeftIsEnough'
  BY <1>1 DEF IInv, LeftIsEnough, Quiet, Engaged
<1>4. NothingUnlogged'
  BY <1>1 DEF IInv, NothingUnlogged, Quiet, Engaged
<1>. QED  BY <1>2, <1>3, <1>4 DEF IInv

\* A job that ends is quiet, whatever it leaves behind.
LEMMA ExitIsQuiet ==
  ASSUME IInv, NEW j \in Jobs, Exit(j), UNCHANGED <<settings, print, began, changes>>
  PROVE  Quiet
BY DEF IInv, Typed, Quiet, Exit, Goto, Engaged, Labels, Actors

\* So is one that gives up recording.
LEMMA GivingUpIsQuiet ==
  ASSUME IInv, NEW j \in Jobs, Return(j, "missed"), UNCHANGED <<settings, print, began, changes>>
  PROVE  Quiet
BY DEF IInv, Typed, Quiet, Return, Goto, Engaged, Labels, Actors

\* And a request of the dashboard.
LEMMA LiftIsQuiet ==
  ASSUME IInv, NEW d \in Lifts, NEW l \in Labels, Goto(d, l),
         UNCHANGED <<settings, print, began, changes, cfg, prev, left>>
  PROVE  Quiet
BY ActorsDiffer DEF IInv, Typed, Quiet, Goto, Engaged, Labels, Actors, Jobs

-----------------------------------------------------------------------------
\* load_config: the settings loaded are settings.
LEMMA LoadKeeps ==
  ASSUME IInv, NEW j \in Jobs, Load(j)
  PROVE  IInv'
<1>1. Typed'
  <2>1. UNCHANGED <<settings, print, began, changes, prev, left>>
    BY DEF Load, world, log
  <2>2. pc' \in [Actors -> Labels] /\ cfg' \in [Jobs -> Settings \cup {None}]
    BY DEF IInv, Typed, Load, Goto, Labels, Actors
  <2>3. ASSUME NEW i \in Jobs
        PROVE  /\ pc'[i] \in Engaged => cfg'[i] \in Settings
               /\ pc'[i] = "log" => left'[i] \in Seq(Items)
    <3>1. CASE i = j
      BY <3>1 DEF IInv, Typed, Load, Goto, Actors
    <3>2. CASE i # j
      BY <2>1, <3>2 DEF IInv, Typed, Load, Goto, Actors
    <3>. QED  BY <3>1, <3>2
  <2>. QED  BY <2>1, <2>2, <2>3 DEF IInv, Typed
<1>2. \A k \in Targets : \A value : Told(k, value)' = Told(k, value)
  BY DEF Load, Told, log
<1>3. LeftIsEnough' /\ NothingUnlogged'
  BY <1>2 DEF IInv, Typed, LeftIsEnough, NothingUnlogged, Load, Goto, Actors
<1>. QED  BY <1>1, <1>3 DEF IInv

\* Whoever finds the fingerprint as it should be may trust it; whoever does not lists
\* all that differs from it.
LEMMA CompareKeeps ==
  ASSUME IInv, NEW j \in Jobs, Compare(j)
  PROVE  IInv'
<1>1. /\ pc[j] = "compare" /\ cfg[j] \in Settings /\ cfg[j] # None
      /\ UNCHANGED <<settings, print, began, changes, cfg>>
  BY FirstIsSettings
     DEF IInv, Typed, Engaged, Compare, Return, Exit, world, log, FirstIsSettings
<1>2. \A k \in Targets : \A value : Told(k, value)' = Told(k, value)
  BY <1>1 DEF Told
<1>3. CASE print = cfg[j] /\ Return(j, "recorded")
  <2>1. Typed'
    BY <1>1, <1>3 DEF IInv, Typed, Return, Goto, Engaged, Labels, Actors
  <2>2. /\ pc'[j] = "recorded"
        /\ \A i \in Jobs \ {j} : pc'[i] = pc[i] /\ prev'[i] = prev[i] /\ left'[i] = left[i]
    BY <1>3 DEF IInv, Typed, Return, Goto, Actors
  <2>3. LeftIsEnough'
    BY <1>1, <1>2, <2>2 DEF IInv, LeftIsEnough
  <2>4. NothingUnlogged'
    BY <1>1, <1>2, <1>3, <2>2 DEF IInv, NothingUnlogged
  <2>. QED  BY <2>1, <2>3, <2>4 DEF IInv
<1>4. CASE /\ prev' = [prev EXCEPT ![j] = print]
           /\ left' = [left EXCEPT ![j] = Unlogged(print, cfg[j])]
           /\ Goto(j, "log")
  <2>1. Typed'
    BY <1>1, <1>4, UnloggedLists DEF IInv, Typed, Goto, Engaged, Labels, Actors
  <2>2. NothingUnlogged'
    BY <1>1, <1>2, <1>4 DEF IInv, Typed, NothingUnlogged, Goto, Actors
  <2>3. ASSUME NEW i \in Jobs, pc'[i] = "log"
        PROVE  /\ prev'[i] = None => ToSet(left'[i]) \subseteq {"baseline"}
               /\ \A k \in Targets :
                    /\ prev'[i] # None => Told(k, prev'[i][k])
                    /\ Told(k, cfg[i][k]) \/ {"baseline", Category(k)} \cap ToSet(left'[i]) # {}
    <3>1. CASE i # j
      BY <1>1, <1>4, <2>3, <3>1 DEF IInv, Typed, LeftIsEnough, Goto, Actors
    <3>2. CASE i = j /\ print = None
      <4>1. prev'[j] = None /\ left'[j] = Unlogged(None, cfg[j])
        BY <1>4, <3>2 DEF IInv, Typed
      <4>. QED  BY <3>2, <4>1, UnloggedLists
    <3>3. CASE i = j /\ print # None
      <4>1. prev'[j] = print /\ left'[j] = Unlogged(print, cfg[j])
        BY <1>4 DEF IInv, Typed
      <4>2. ASSUME NEW k \in Targets
            PROVE  /\ Told(k, print[k])
                   /\ Told(k, cfg[j][k]) \/ Category(k) \in ToSet(left'[j])
        BY <3>3, <4>1, UnloggedLists, CategoryTyped DEF IInv, NothingUnlogged
      <4>. QED  BY <3>3, <4>1, <4>2
    <3>. QED  BY <3>1, <3>2, <3>3
  <2>4. LeftIsEnough'
    BY <1>1, <1>2, <2>3 DEF LeftIsEnough
  <2>. QED  BY <2>1, <2>2, <2>4 DEF IInv
<1>5. CASE Return(j, "missed")
  BY <1>1, <1>5, GivingUpIsQuiet, QuietKeeps
<1>. QED  BY <1>3, <1>4, <1>5 DEF Compare

\* What is logged of a target accounts for its new value, and leaves what was
\* accounted for.
LEMMA LogTells ==
  ASSUME IInv, NEW j \in Jobs, pc[j] = "log", left[j] # <<>>, left[j] \in Seq(Items),
         cfg[j] \in Settings, cfg' = cfg, Log(j, Head(left[j])), NEW k \in Targets
  PROVE  /\ changes'[k] \in Seq(Changes)
         /\ \A value : Told(k, value) => Told(k, value)'
         /\ Head(left[j]) \in {"baseline", Category(k)} => Told(k, cfg[j][k])'
<1> DEFINE h == Head(left[j])
<1>1. /\ changes[k] \in Seq(Changes) /\ prev[j] \in Settings \cup {None}
      /\ began \subseteq began'
  BY DEF IInv, Typed, Log
<1>2. h \in ToSet(left[j])
  BY TailElements
<1>3. CASE h = "baseline"
  <2>1. changes'[k] = changes[k] /\ cfg[j] \in began'
    BY <1>3, CategoryTyped DEF Log
  <2>. QED  BY <1>1, <1>3, <2>1 DEF Told
<1>4. CASE h = Category(k) /\ prev[j][k] # cfg[j][k]
  <2>1. prev[j] \in Settings
    BY <1>1, <1>2, <1>4, CategoryTyped DEF IInv, LeftIsEnough
  <2> DEFINE e == Change(k, prev[j][k], cfg[j][k])
  <2>2. changes'[k] = Append(changes[k], e)
    BY <1>4 DEF Log
  <2>3. e \in Changes /\ Fits(e.after, cfg[j][k])
    BY <1>4, <2>1, ChangeFits
  <2>. HIDE DEF e
  <2>4. changes'[k] \in Seq(Changes) /\ ToSet(changes'[k]) = ToSet(changes[k]) \cup {e}
    BY <1>1, <2>2, <2>3, AppendElements
  <2>. QED  BY <1>1, <2>3, <2>4 DEF Told
<1>5. CASE h = Category(k) /\ prev[j][k] = cfg[j][k]
  <2>1. prev[j] # None
    BY <1>2, <1>5, CategoryTyped DEF IInv, LeftIsEnough
  <2>2. Told(k, cfg[j][k])
    BY <1>5, <2>1 DEF IInv, LeftIsEnough
  <2>3. changes'[k] = changes[k]
    BY <1>5 DEF Log
  <2>. QED  BY <1>1, <2>2, <2>3 DEF Told
<1>6. CASE h \notin {"baseline", Category(k)}
  <2>1. changes'[k] = changes[k]
    BY <1>6 DEF Log
  <2>. QED  BY <1>1, <1>6, <2>1 DEF Told
<1>. QED  BY <1>3, <1>4, <1>5, <1>6

\* An entry tells of one more value, and leaves what the others have told.
LEMMA LogChangeKeeps ==
  ASSUME IInv, NEW j \in Jobs, LogChange(j)
  PROVE  IInv'
<1> DEFINE h == Head(left[j])
<1>1. /\ pc[j] = "log" /\ left[j] \in Seq(Items) /\ left[j] # <<>>
      /\ cfg[j] \in Settings /\ UNCHANGED <<settings, print, cfg>>
  BY DEF IInv, Typed, Engaged, LogChange, Return, world
<1>2. CASE /\ Log(j, h)
           /\ left' = [left EXCEPT ![j] = Tail(@)]
           /\ UNCHANGED <<pc, prev>>
  <2>1. ASSUME NEW k \in Targets
        PROVE  /\ changes'[k] \in Seq(Changes)
               /\ \A value : Told(k, value) => Told(k, value)'
               /\ h \in {"baseline", Category(k)} => Told(k, cfg[j][k])'
    BY <1>1, <1>2, LogTells
  <2>2. /\ changes' \in [Targets -> Seq(Changes)] /\ began' \subseteq Settings
    <3>1. DOMAIN changes' = Targets /\ changes' = [k \in DOMAIN changes' |-> changes'[k]]
      BY <1>2 DEF Log
    <3>2. began' \subseteq Settings
      BY <1>1, <1>2 DEF Log, IInv, Typed
    <3>. QED  BY <2>1, <3>1, <3>2
  <2>3. /\ Tail(left[j]) \in Seq(Items)
        /\ ToSet(left[j]) \subseteq {h} \cup ToSet(Tail(left[j]))
        /\ ToSet(Tail(left[j])) \subseteq ToSet(left[j])
    BY <1>1, TailElements
  <2>4. Typed'
    BY <1>1, <1>2, <2>2, <2>3 DEF IInv, Typed, Engaged
  <2>5. NothingUnlogged'
    BY <1>1, <1>2, <2>1 DEF IInv, NothingUnlogged
  <2>6. ASSUME NEW i \in Jobs, pc'[i] = "log"
        PROVE  /\ prev[i] = None => ToSet(left'[i]) \subseteq {"baseline"}
               /\ \A k \in Targets :
                    /\ prev[i] # None => Told(k, prev[i][k])'
                    /\ Told(k, cfg[i][k])' \/ {"baseline", Category(k)} \cap ToSet(left'[i]) # {}
    <3>1. pc[i] = "log" /\ UNCHANGED <<prev, cfg>>
      BY <1>1, <1>2, <2>6
    <3>2. /\ prev[i] = None => ToSet(left[i]) \subseteq {"baseline"}
          /\ \A k \in Targets :
               /\ prev[i] # None => Told(k, prev[i][k])
               /\ Told(k, cfg[i][k]) \/ {"baseline", Category(k)} \cap ToSet(left[i]) # {}
      BY <3>1 DEF IInv, LeftIsEnough
    <3>3. ASSUME NEW k \in Targets, prev[i] # None PROVE Told(k, prev[i][k])'
      BY <2>1, <3>1, <3>2, <3>3
    <3>4. CASE i # j
      <4>1. left'[i] = left[i]
        BY <1>2, <3>4 DEF IInv, Typed
      <4>2. ASSUME NEW k \in Targets, Told(k, cfg[i][k]) PROVE Told(k, cfg[i][k])'
        BY <2>1, <3>1, <4>2
      <4>. QED  BY <3>2, <3>3, <4>1, <4>2
    <3>5. CASE i = j
      <4>1. left'[j] = Tail(left[j])
        BY <1>2 DEF IInv, Typed
      <4>2. ASSUME NEW k \in Targets, Told(k, cfg[j][k]) PROVE Told(k, cfg[j][k])'
        BY <2>1, <3>1, <4>2
      <4>. QED  BY <2>1, <2>3, <3>2, <3>3, <3>5, <4>1, <4>2
    <3>. QED  BY <3>4, <3>5
  <2>7. LeftIsEnough'
    BY <1>1, <1>2, <2>6 DEF LeftIsEnough
  <2>. QED  BY <2>4, <2>5, <2>7 DEF IInv
<1>3. CASE Return(j, "missed") /\ UNCHANGED <<began, changes>>
  BY <1>1, <1>3, GivingUpIsQuiet, QuietKeeps
<1>. QED  BY <1>2, <1>3 DEF LogChange

\* A job whose list is empty has nothing untold to write into the fingerprint.
LEMMA SavePrintKeeps ==
  ASSUME IInv, NEW j \in Jobs, SavePrint(j)
  PROVE  IInv'
<1>1. /\ pc[j] = "log" /\ left[j] = <<>> /\ cfg[j] \in Settings
      /\ UNCHANGED <<settings, began, changes, cfg>>
  BY DEF IInv, Typed, Engaged, SavePrint, Return, world, log
<1>2. \A k \in Targets : Told(k, cfg[j][k])
  <2>1. ToSet(left[j]) = {}
    BY <1>1 DEF ToSet
  <2>. QED  BY <1>1, <2>1 DEF IInv, LeftIsEnough
<1>3. CASE print' = cfg[j] /\ Return(j, "recorded")
  <2>1. \A k \in Targets : \A value : Told(k, value)' = Told(k, value)
    BY <1>1 DEF Told
  <2>2. Typed'
    BY <1>1, <1>3 DEF IInv, Typed, Return, Goto, Engaged, Labels, Actors
  <2>3. /\ pc'[j] = "recorded"
        /\ \A i \in Jobs \ {j} : pc'[i] = pc[i] /\ prev'[i] = prev[i] /\ left'[i] = left[i]
    BY <1>3 DEF IInv, Typed, Return, Goto, Actors
  <2>4. LeftIsEnough'
    BY <1>1, <2>1, <2>3 DEF IInv, LeftIsEnough
  <2>5. NothingUnlogged'
    BY <1>1, <1>2, <1>3, <2>1, <2>3 DEF IInv, NothingUnlogged
  <2>. QED  BY <2>2, <2>4, <2>5 DEF IInv
<1>4. CASE Return(j, "missed") /\ UNCHANGED print
  BY <1>1, <1>4, GivingUpIsQuiet, QuietKeeps
<1>. QED  BY <1>3, <1>4 DEF SavePrint

\* Between a review and its writes no setting is recorded.
LEMMA ReviewKeeps ==
  ASSUME IInv, NEW j \in Reports, AskInVain(j) \/ Ask(j) \/ Hold(j) \/ Enter(j)
  PROVE  IInv'
<1>1. j \in Jobs
  BY DEF Jobs
<1>2. UNCHANGED <<settings, print, began, changes>>
  BY DEF AskInVain, Ask, Hold, Enter, world, log
<1>3. CASE Exit(j)
  BY <1>1, <1>2, <1>3, ExitIsQuiet, QuietKeeps
<1>4. CASE Ask(j)
  <2>1. /\ UNCHANGED <<cfg, prev>> /\ Goto(j, "hold") /\ DOMAIN left' = DOMAIN left
        /\ \A i \in Jobs \ {j} : left'[i] = left[i]
    BY <1>4 DEF Ask, IInv, Typed
  <2>2. Quiet
    BY <1>1, <1>2, <2>1 DEF IInv, Typed, Quiet, Goto, Engaged, Labels, Actors
  <2>. QED  BY <2>2, QuietKeeps
<1>5. CASE Hold(j) /\ pc' = pc
  <2>1. Quiet
    BY <1>1, <1>2, <1>5 DEF Hold, Exit, Goto, IInv, Typed, Quiet, Engaged, Labels, Actors
  <2>. QED  BY <2>1, QuietKeeps
<1>. QED  BY <1>3, <1>4, <1>5 DEF AskInVain, Hold, Enter

\* The invariant holds at the start and in every step.
LEMMA InductiveInvariant ==
  /\ Init => IInv
  /\ IInv /\ [Next]_vars => IInv'
<1>1. Init => IInv
  <2>. SUFFICES ASSUME Init  PROVE IInv
    OBVIOUS
  <2>1. Typed
    BY FirstIsSettings DEF Init, Typed, Engaged, Labels, Actors, Jobs, FirstIsSettings
  <2>2. LeftIsEnough /\ NothingUnlogged
    BY DEF Init, LeftIsEnough, NothingUnlogged, Actors, Jobs
  <2>. QED  BY <2>1, <2>2 DEF IInv
<1>2. IInv /\ [Next]_vars => IInv'
  <2>. SUFFICES ASSUME IInv, [Next]_vars  PROVE IInv'
    OBVIOUS
  <2>1. CASE Edit
    <3>1. Quiet
      BY <2>1 DEF Edit, IInv, Typed, Quiet, Engaged, log, job
    <3>. QED  BY <3>1, QuietKeeps
  <2>2. CASE Tick
    <3>1. Quiet
      BY <2>2 DEF Tick, IInv, Typed, Quiet, Engaged, log, job
    <3>. QED  BY <3>1, QuietKeeps
  <2>3. ASSUME NEW j \in Jobs, Load(j) \/ Compare(j) \/ LogChange(j) \/ SavePrint(j)
        PROVE  IInv'
    BY <2>3, LoadKeeps, CompareKeeps, LogChangeKeeps, SavePrintKeeps
  <2>4. ASSUME NEW j \in Reports, AskInVain(j) \/ Ask(j) \/ Hold(j) \/ Enter(j)
        PROVE  IInv'
    BY <2>4, ReviewKeeps
  <2>5. ASSUME NEW t \in Trades, Consult(t)
        PROVE  IInv'
    <3>1. Quiet
      BY <2>5 DEF Consult, Goto, IInv, Typed, Quiet, Engaged, Labels, Actors, Jobs, world, log
    <3>. QED  BY <3>1, QuietKeeps
  <2>6. ASSUME NEW d \in Lifts, Look(d) \/ Delete(d) \/ Note(d)
        PROVE  IInv'
    <3>1. UNCHANGED <<settings, print, began, changes, cfg, prev, left>>
      BY <2>6 DEF Look, Delete, Note, world, log, job
    <3>2. Goto(d, "delete") \/ Goto(d, "note") \/ Goto(d, "gone") \/ Goto(d, "noted")
      BY <2>6 DEF Look, Delete, Note, Answer
    <3>3. {"delete", "note", "gone", "noted"} \subseteq Labels
      BY DEF Labels
    <3>. QED  BY <3>1, <3>2, <3>3, LiftIsQuiet, QuietKeeps
  <2>7. ASSUME NEW a \in Actors, Crash(a)
        PROVE  IInv'
    <3>1. UNCHANGED <<settings, print, began, changes>>
      BY <2>7 DEF Crash, world, log
    <3>2. CASE a \in Jobs /\ Exit(a)
      BY <3>1, <3>2, ExitIsQuiet, QuietKeeps
    <3>3. CASE a \in Lifts /\ Answer(a, "gone") /\ UNCHANGED job
      <4>1. Goto(a, "gone") /\ "gone" \in Labels /\ UNCHANGED <<cfg, prev, left>>
        BY <3>3 DEF Answer, job, Labels
      <4>. QED  BY <3>1, <3>3, <4>1, LiftIsQuiet, QuietKeeps
    <3>. QED  BY <2>7, <3>2, <3>3 DEF Crash
  <2>8. CASE UNCHANGED vars
    <3>1. Quiet
      BY <2>8 DEF vars, world, log, job, IInv, Typed, Quiet, Engaged
    <3>. QED  BY <3>1, QuietKeeps
  <2>. QED  BY <2>1, <2>2, <2>3, <2>4, <2>5, <2>6, <2>7, <2>8 DEF Next
<1>. QED  BY <1>1, <1>2

\* record_config_changes: whatever runs overlap, fail or are killed, what the
\* fingerprint holds, and what a run that recorded its settings trades under, has
\* been logged.
THEOREM NothingGoesUnlogged == Spec => []NothingUnlogged
<1>1. Init => IInv
  BY InductiveInvariant
<1>2. IInv /\ [Next]_vars => IInv'
  BY InductiveInvariant
<1>3. IInv => NothingUnlogged
  BY DEF IInv
<1>. QED  BY <1>1, <1>2, <1>3, PTL DEF Spec

-----------------------------------------------------------------------------
(* The chain of changes, while runs neither overlap nor fail. *)

Calm == ~crossed /\ failures = 0

\* Changes that follow on from one another, none of them of no change.
Linked(k, told) ==
  /\ \A i \in 2..Len(told) : Agree(k, told[i - 1].after, told[i].before)
  /\ \A i \in 1..Len(told) : ~Agree(k, told[i].before, told[i].after)

\* The log began with one reading, and what it says of a target fits this value of it:
\* at first, if it is told to have changed, and at last.
Stands(k, value) ==
  /\ \E b \in began : /\ began = {b}
                      /\ IF changes[k] = <<>> THEN b[k] = value
                         ELSE Fits(changes[k][1].before, b[k])
  /\ changes[k] # <<>> => Fits(Last(changes[k]).after, value)

\* Nothing has been logged.
Blank == began = {} /\ \A k \in Targets : changes[k] = <<>>

\* Where a recording job is in its list: before the first entry of all, or with each
\* target either accounted for or due to move on from where it stands.
Halfway(j) ==
  /\ Once(left[j])
  /\ "baseline" \in ToSet(left[j]) => Len(left[j]) = 1 /\ Blank
  /\ "baseline" \notin ToSet(left[j]) =>
       \A k \in Targets :
         IF Category(k) \in ToSet(left[j])
         THEN prev[j] # None /\ Stands(k, prev[j][k])
         ELSE Stands(k, cfg[j][k])

\* The inductive invariant.  ChangesAreAChain says nothing of the moments between the
\* first entry of a recording and the fingerprint.
ChainInv ==
  /\ crossed \in BOOLEAN /\ failures \in Nat
  /\ Calm =>
       /\ \A k \in Targets : Linked(k, changes[k])
       /\ \A i, j \in Recording : i = j
       /\ \A j \in Recording : Halfway(j)
       /\ Recording = {} =>
            IF print = None THEN Blank ELSE \A k \in Targets : Stands(k, print[k])

\* A change that follows on leaves the chain linked.
LEMMA AppendLinks ==
  ASSUME NEW k \in Targets, NEW s \in Seq(Changes), NEW e \in Changes, Linked(k, s),
         s # <<>> => Agree(k, Last(s).after, e.before), ~Agree(k, e.before, e.after)
  PROVE  /\ Linked(k, Append(s, e)) /\ Append(s, e) # <<>> /\ Last(Append(s, e)) = e
         /\ Append(s, e)[1] = IF s = <<>> THEN e ELSE s[1]
<1>1. /\ Len(s) \in Nat /\ Len(Append(s, e)) = Len(s) + 1
      /\ \A i \in 1..Len(s) : Append(s, e)[i] = s[i]
      /\ Append(s, e)[Len(s) + 1] = e
  OBVIOUS
<1>2. ASSUME NEW i \in 2..(Len(s) + 1)
      PROVE  Agree(k, Append(s, e)[i - 1].after, Append(s, e)[i].before)
  <2>1. CASE i \in 2..Len(s)
    <3>1. i \in 1..Len(s) /\ i - 1 \in 1..Len(s)
      BY <1>1, <2>1
    <3>. QED  BY <1>1, <2>1, <3>1 DEF Linked
  <2>2. CASE i = Len(s) + 1
    <3>1. Len(s) \in 1..Len(s) /\ s # <<>> /\ i - 1 = Len(s)
      BY <1>1, <1>2, <2>2
    <3>. QED  BY <1>1, <2>2, <3>1 DEF Last
  <2>. QED  BY <1>1, <1>2, <2>1, <2>2
<1>3. ASSUME NEW i \in 1..(Len(s) + 1)
      PROVE  ~Agree(k, Append(s, e)[i].before, Append(s, e)[i].after)
  BY <1>1, <1>3 DEF Linked
<1>4. Append(s, e) # <<>> /\ Append(s, e)[1] = IF s = <<>> THEN e ELSE s[1]
  <2>1. CASE s = <<>>
    BY <1>1, <2>1
  <2>2. CASE s # <<>>
    BY <1>1, <2>2
  <2>. QED  BY <1>1, <2>1, <2>2
<1>5. Last(Append(s, e)) = e
  BY <1>1 DEF Last
<1>6. Linked(k, Append(s, e))
  BY <1>1, <1>2, <1>3 DEF Linked
<1>. QED  BY <1>4, <1>5, <1>6

\* What has not gone wrong yet has not gone wrong before.
LEMMA CalmStep == ChainInv /\ [Next]_vars => (Calm' => Calm) /\ crossed' \in BOOLEAN /\ failures' \in Nat
<1>. SUFFICES ASSUME ChainInv, [Next]_vars
              PROVE  (Calm' => Calm) /\ crossed' \in BOOLEAN /\ failures' \in Nat
  OBVIOUS
<1> DEFINE Good == (Calm' => Calm) /\ crossed' \in BOOLEAN /\ failures' \in Nat
<1>1. crossed \in BOOLEAN /\ failures \in Nat
  BY DEF ChainInv
<1>2. UNCHANGED history => Good
  BY <1>1 DEF history, Calm
<1>3. Refused => Good
  BY <1>1 DEF Refused, Calm
<1>4. ASSUME NEW x \in BOOLEAN, crossed' = (crossed \/ x), UNCHANGED failures
      PROVE  Good
  BY <1>1, <1>4 DEF Calm
<1>5. ASSUME NEW j, Compare(j)
      PROVE  Good
  <2>1. (Recording # {}) \in BOOLEAN
    OBVIOUS
  <2>. QED  BY <1>2, <1>3, <1>4, <1>5, <2>1 DEF Compare
<1>6. ASSUME NEW j, Ask(j) \/ Look(j)
      PROVE  Good
  <2>1. (Reviewing # {} \/ Lifting # {}) \in BOOLEAN
    OBVIOUS
  <2>. QED  BY <1>4, <1>6, <2>1 DEF Ask, Look
<1>7. Edit \/ Tick => Good
  BY <1>2 DEF Edit, Tick
<1>8. ASSUME NEW j, Load(j) \/ LogChange(j) \/ SavePrint(j) \/ AskInVain(j) \/ Hold(j) \/ Enter(j)
                    \/ Consult(j) \/ Delete(j) \/ Note(j) \/ Crash(j)
      PROVE  Good
  <2>1. UNCHANGED history \/ Refused
    BY <1>8 DEF Load, LogChange, SavePrint, AskInVain, Hold, Enter, Consult, Delete, Note, Crash
  <2>. QED  BY <1>2, <1>3, <2>1
<1>9. UNCHANGED vars => Good
  BY <1>2 DEF vars, history
<1>. HIDE DEF Good
<1>10. Good
  BY <1>5, <1>6, <1>7, <1>8, <1>9 DEF Next
<1>. QED  BY <1>10 DEF Good

\* A refusal is not forgotten.
LEMMA RefusedIsNotCalm == ChainInv /\ Refused => ~Calm'
  BY DEF ChainInv, Refused, Calm

\* A step no recording takes part in.
Aside ==
  /\ UNCHANGED <<print, began, changes>>
  /\ \A j \in Jobs : /\ pc'[j] = "log" <=> pc[j] = "log"
                     /\ pc[j] = "log" => left'[j] = left[j] /\ cfg'[j] = cfg[j] /\ prev'[j] = prev[j]

\* Such a step breaks no chain.
LEMMA AsideKeeps ==
  ASSUME IInv, ChainInv, [Next]_vars, Calm' => Aside
  PROVE  ChainInv'
<1>1. crossed' \in BOOLEAN /\ failures' \in Nat /\ (Calm' => Calm)
  BY CalmStep
<1>2. CASE ~Calm'
  BY <1>1, <1>2 DEF ChainInv
<1>3. CASE Calm'
  <2>1. Aside /\ Calm
    BY <1>1, <1>3
  <2>2. Recording' = Recording
    BY <2>1 DEF Recording, Aside
  <2>3. \A j \in Recording : Halfway(j) => Halfway(j)'
    BY <2>1 DEF Recording, Aside, Halfway, Stands, Blank
  <2>. QED  BY <1>1, <2>1, <2>2, <2>3 DEF ChainInv, Aside, Stands, Blank
<1>. QED  BY <1>2, <1>3

\* A job that is not recording and ends, or gives up, leaves the recordings alone.
LEMMA EndsAside ==
  ASSUME IInv, NEW j \in Jobs, pc[j] # "log", Exit(j) \/ Return(j, "missed"), UNCHANGED <<print, began, changes>>
  PROVE  Aside
BY DEF IInv, Typed, Aside, Exit, Return, Goto, Actors

\* What is behind the first of a list that names nothing twice is the rest of it.
LEMMA TailOnce ==
  ASSUME NEW S, NEW s \in Seq(S), s # <<>>, Once(s)
  PROVE  Once(Tail(s)) /\ ToSet(Tail(s)) = ToSet(s) \ {Head(s)}
<1>1. /\ Head(s) = s[1] /\ Len(s) \in Nat \ {0} /\ Len(Tail(s)) = Len(s) - 1
      /\ \A i \in 1..(Len(s) - 1) : Tail(s)[i] = s[i + 1]
      /\ DOMAIN Tail(s) = 1..(Len(s) - 1)
  OBVIOUS
<1>2. Once(Tail(s))
  <2>. SUFFICES ASSUME NEW i \in 1..Len(Tail(s)), NEW k \in 1..Len(Tail(s)), Tail(s)[i] = Tail(s)[k]
                PROVE  i = k
    BY DEF Once
  <2>1. /\ i + 1 \in 1..Len(s) /\ k + 1 \in 1..Len(s) /\ s[i + 1] = s[k + 1]
        /\ i \in Int /\ k \in Int
    BY <1>1
  <2>. QED  BY <2>1 DEF Once
<1>3. Head(s) \notin ToSet(Tail(s))
  <2>1. ASSUME NEW i \in 1..(Len(s) - 1)
        PROVE  Tail(s)[i] # Head(s)
    <3>1. i + 1 \in 1..Len(s) /\ 1 \in 1..Len(s) /\ i + 1 # 1
      BY <1>1
    <3>. QED  BY <1>1, <3>1 DEF Once
  <2>. QED  BY <1>1, <2>1 DEF ToSet
<1>. QED  BY <1>2, <1>3, TailElements

\* A job that finds the fingerprint out of date starts from where the chain ends.
LEMMA CompareLinks ==
  ASSUME IInv, ChainInv, [Next]_vars, NEW j \in Jobs, Compare(j)
  PROVE  ChainInv'
<1>1. /\ pc[j] = "compare" /\ cfg[j] \in Settings /\ cfg[j] # None
      /\ UNCHANGED <<print, began, changes, cfg>>
      /\ pc \in [Actors -> Labels] /\ j \in Actors
      /\ DOMAIN left = Jobs
      /\ prev \in [Jobs -> Settings \cup {None}]
  BY FirstIsSettings
     DEF IInv, Typed, Engaged, Compare, Return, Exit, world, log, FirstIsSettings, Actors
<1>2. CASE Return(j, "recorded")
  <2>1. Aside
    BY <1>1, <1>2 DEF IInv, Typed, Aside, Return, Goto, Actors
  <2>. QED  BY <2>1, AsideKeeps
<1>3. CASE Return(j, "missed") /\ Refused
  BY <1>3, RefusedIsNotCalm, AsideKeeps
<1>4. CASE /\ prev' = [prev EXCEPT ![j] = print]
           /\ left' = [left EXCEPT ![j] = Unlogged(print, cfg[j])]
           /\ Goto(j, "log")
           /\ crossed' = (crossed \/ Recording # {})
           /\ UNCHANGED failures
  <2>1. crossed' \in BOOLEAN /\ failures' \in Nat /\ (Calm' => Calm)
    BY CalmStep
  <2>2. CASE Calm'
    <3>1. Calm /\ Recording = {}
      BY <1>4, <2>1, <2>2 DEF Calm
    <3>2. Recording' = {j}
      BY <1>1, <1>4, <3>1 DEF Recording, Goto, Actors
    <3>3. IF print = None THEN Blank ELSE \A k \in Targets : Stands(k, print[k])
      BY <3>1 DEF ChainInv
    <3>4. left'[j] = Unlogged(print, cfg[j]) /\ prev'[j] = print
      BY <1>1, <1>4
    <3>5. /\ Once(left'[j])
          /\ "baseline" \in ToSet(left'[j]) => Len(left'[j]) = 1 /\ Blank
      BY <3>3, <3>4, UnloggedLists
    <3>6. ASSUME "baseline" \notin ToSet(left'[j]), NEW k \in Targets
          PROVE  IF Category(k) \in ToSet(left'[j])
                 THEN prev'[j] # None /\ Stands(k, prev'[j][k])
                 ELSE Stands(k, cfg[j][k])
      <4>1. print # None
        BY <3>4, <3>6, UnloggedLists
      <4>2. Stands(k, print[k]) /\ (Category(k) \notin ToSet(left'[j]) => print[k] = cfg[j][k])
        BY <3>3, <3>4, <4>1, UnloggedLists
      <4>. QED  BY <3>4, <4>1, <4>2
    <3>7. Halfway(j)'
      BY <1>1, <3>5, <3>6 DEF Halfway, Stands, Blank
    <3>. QED  BY <1>1, <2>1, <3>1, <3>2, <3>7 DEF ChainInv
  <2>3. CASE ~Calm'
    BY <2>1, <2>3 DEF ChainInv
  <2>. QED  BY <2>2, <2>3
<1>. QED  BY <1>2, <1>3, <1>4 DEF Compare

\* What is logged of a target moves it on: a baseline begins it where the job saw it, and
\* a change follows on from where it stood.
LEMMA LogMoves ==
  ASSUME IInv, NEW j \in Jobs, pc[j] = "log", left[j] # <<>>, left[j] \in Seq(Items),
         cfg[j] \in Settings, cfg' = cfg, Log(j, Head(left[j])),
         NEW k \in Targets, Linked(k, changes[k]),
         Head(left[j]) = "baseline" => Blank,
         Head(left[j]) = Category(k) => Stands(k, prev[j][k])
  PROVE  /\ Linked(k, changes'[k])
         /\ Head(left[j]) \in {"baseline", Category(k)} => Stands(k, cfg[j][k])'
         /\ Head(left[j]) \notin {"baseline", Category(k)} =>
              \A value : Stands(k, value) => Stands(k, value)'
<1> DEFINE h == Head(left[j])
<1>1. changes[k] \in Seq(Changes) /\ prev[j] \in Settings \cup {None} /\ h \in ToSet(left[j])
  BY TailElements DEF IInv, Typed
<1>2. CASE h \notin {"baseline", Category(k)}
  <2>1. began' = began /\ changes'[k] = changes[k]
    BY <1>2 DEF Log
  <2>. QED  BY <1>2, <2>1 DEF Stands
<1>3. CASE h = "baseline"
  <2>1. began' = {cfg[j]} /\ changes'[k] = <<>> /\ changes[k] = <<>>
    BY <1>3, CategoryTyped DEF Log, Blank
  <2>. QED  BY <1>3, <2>1 DEF Stands
<1>4. CASE h = Category(k) /\ prev[j][k] = cfg[j][k]
  <2>1. began' = began /\ changes'[k] = changes[k]
    BY <1>4, CategoryTyped DEF Log
  <2>. QED  BY <1>4, <2>1 DEF Stands
<1>5. CASE h = Category(k) /\ prev[j][k] # cfg[j][k]
  <2>1. prev[j] \in Settings
    BY <1>1, <1>5, CategoryTyped DEF IInv, LeftIsEnough
  <2> DEFINE e == Change(k, prev[j][k], cfg[j][k])
  <2>2. began' = began /\ changes'[k] = Append(changes[k], e)
    BY <1>5, CategoryTyped DEF Log
  <2>3. /\ e \in Changes /\ Fits(e.before, prev[j][k]) /\ Fits(e.after, cfg[j][k])
        /\ ~Agree(k, e.before, e.after)
    BY <1>5, <2>1, ChangeFits
  <2>. HIDE DEF e
  <2>4. PICK b \in began : /\ began = {b}
                           /\ IF changes[k] = <<>> THEN b[k] = prev[j][k]
                              ELSE Fits(changes[k][1].before, b[k])
    BY <1>5 DEF Stands
  <2>5. changes[k] # <<>> => Agree(k, Last(changes[k]).after, e.before)
    BY <1>5, <2>1, <2>3 DEF Stands, Agree
  <2>6. /\ Linked(k, changes'[k]) /\ changes'[k] # <<>> /\ Last(changes'[k]) = e
        /\ changes'[k][1] = IF changes[k] = <<>> THEN e ELSE changes[k][1]
    BY <1>1, <2>2, <2>3, <2>5, AppendLinks
  <2>7. Fits(changes'[k][1].before, b[k])
    BY <2>3, <2>4, <2>6
  <2>8. Stands(k, cfg[j][k])'
    BY <2>2, <2>3, <2>4, <2>6, <2>7 DEF Stands
  <2>. QED  BY <1>5, <2>6, <2>8
<1>. QED  BY <1>2, <1>3, <1>4, <1>5

\* An entry follows on from what was logged of its targets, and is the last word on them.
LEMMA LogLinks ==
  ASSUME IInv, ChainInv, [Next]_vars, NEW j \in Jobs, LogChange(j)
  PROVE  ChainInv'
<1> DEFINE h == Head(left[j])
<1>1. /\ pc[j] = "log" /\ left[j] # <<>> /\ left[j] \in Seq(Items) /\ j \in Recording
      /\ cfg[j] \in Settings /\ UNCHANGED <<print, cfg>>
  BY DEF IInv, Typed, Engaged, LogChange, Return, world, Recording
<1>2. CASE Refused
  BY <1>2, RefusedIsNotCalm, AsideKeeps
<1>3. CASE /\ Log(j, h)
           /\ left' = [left EXCEPT ![j] = Tail(@)]
           /\ UNCHANGED <<pc, prev>>
  <2>1. crossed' \in BOOLEAN /\ failures' \in Nat /\ (Calm' => Calm)
    BY CalmStep
  <2>2. CASE Calm'
    <3>1. /\ Calm /\ Halfway(j) /\ Recording = {j}
          /\ \A k \in Targets : Linked(k, changes[k])
      BY <1>1, <2>1, <2>2 DEF ChainInv
    <3>2. left'[j] = Tail(left[j]) /\ Recording' = {j}
      BY <1>1, <1>3, <3>1 DEF IInv, Typed, Recording
    <3>3. /\ Once(left'[j]) /\ h \in ToSet(left[j])
          /\ ToSet(left'[j]) = ToSet(left[j]) \ {h}
      BY <1>1, <3>1, <3>2, TailOnce, TailElements DEF Halfway
    <3>4. "baseline" \in ToSet(left[j]) => h = "baseline" /\ Blank /\ ToSet(left'[j]) = {}
      <4>. SUFFICES ASSUME "baseline" \in ToSet(left[j])
                    PROVE  h = "baseline" /\ Blank /\ ToSet(left'[j]) = {}
        OBVIOUS
      <4>1. Len(left[j]) = 1 /\ Blank
        BY <3>1 DEF Halfway
      <4>2. \A x \in ToSet(left[j]) : x = left[j][1]
        BY <1>1, <4>1 DEF ToSet
      <4>. QED  BY <3>3, <4>1, <4>2
    <3>5. "baseline" \notin ToSet(left'[j])
      BY <3>3, <3>4
    <3>6. ASSUME NEW k \in Targets
          PROVE  /\ Linked(k, changes'[k])
                 /\ h \in {"baseline", Category(k)} => Stands(k, cfg[j][k])'
                 /\ h \notin {"baseline", Category(k)} =>
                      \A value : Stands(k, value) => Stands(k, value)'
      <4>1. h = "baseline" => Blank
        BY <3>3, <3>4
      <4>2. h = Category(k) => Stands(k, prev[j][k])
        BY <3>1, <3>3, <3>4, CategoryTyped DEF Halfway
      <4>. QED  BY <1>1, <1>3, <3>1, <4>1, <4>2, LogMoves
    <3>7. ASSUME NEW k \in Targets
          PROVE  IF Category(k) \in ToSet(left'[j])
                 THEN prev[j] # None /\ Stands(k, prev[j][k])'
                 ELSE Stands(k, cfg[j][k])'
      <4>1. CASE h \in {"baseline", Category(k)}
        BY <3>3, <3>4, <3>6, <4>1
      <4>2. CASE h \notin {"baseline", Category(k)}
        <5>1. "baseline" \notin ToSet(left[j])
          BY <3>4, <4>2
        <5>2. Category(k) \in ToSet(left'[j]) <=> Category(k) \in ToSet(left[j])
          BY <3>3, <4>2
        <5>3. \A value : Stands(k, value) => Stands(k, value)'
          BY <3>6, <4>2
        <5>4. IF Category(k) \in ToSet(left[j])
              THEN prev[j] # None /\ Stands(k, prev[j][k])
              ELSE Stands(k, cfg[j][k])
          BY <3>1, <5>1 DEF Halfway
        <5>5. prev' = prev /\ cfg' = cfg
          BY <1>1, <1>3
        <5>6. /\ Stands(k, prev[j][k]) => Stands(k, prev[j][k])'
              /\ Stands(k, cfg[j][k]) => Stands(k, cfg[j][k])'
          BY <5>3, <5>5
        <5>. QED  BY <5>2, <5>4, <5>6
      <4>. QED  BY <4>1, <4>2
    <3>8. Halfway(j)'
      BY <1>1, <1>3, <3>3, <3>5, <3>7 DEF Halfway
    <3>. QED  BY <2>1, <3>2, <3>6, <3>8 DEF ChainInv
  <2>3. CASE ~Calm'
    BY <2>1, <2>3 DEF ChainInv
  <2>. QED  BY <2>2, <2>3
<1>. QED  BY <1>2, <1>3 DEF LogChange

\* With nothing left to tell, the chain ends in what the fingerprint is told.
LEMMA PrintLinks ==
  ASSUME IInv, ChainInv, [Next]_vars, NEW j \in Jobs, SavePrint(j)
  PROVE  ChainInv'
<1>1. /\ pc[j] = "log" /\ left[j] = <<>> /\ j \in Recording
      /\ cfg[j] \in Settings /\ cfg[j] # None /\ UNCHANGED <<began, changes, cfg>>
      /\ pc \in [Actors -> Labels] /\ j \in Actors
  BY FirstIsSettings
     DEF IInv, Typed, Engaged, SavePrint, Return, world, log, Recording, FirstIsSettings, Actors
<1>2. CASE Refused
  BY <1>2, RefusedIsNotCalm, AsideKeeps
<1>3. CASE print' = cfg[j] /\ Return(j, "recorded")
  <2>1. crossed' \in BOOLEAN /\ failures' \in Nat /\ (Calm' => Calm)
    BY CalmStep
  <2>2. CASE Calm'
    <3>1. /\ Calm /\ Halfway(j) /\ Recording = {j}
          /\ \A k \in Targets : Linked(k, changes[k])
      BY <1>1, <2>1, <2>2 DEF ChainInv
    <3>2. Recording' = {}
      BY <1>1, <1>3, <3>1 DEF Recording, Return, Goto, Actors
    <3>3. \A k \in Targets : Stands(k, cfg[j][k])
      <4>1. ToSet(left[j]) = {}
        BY <1>1 DEF ToSet
      <4>. QED  BY <3>1, <4>1 DEF Halfway
    <3>4. \A k \in Targets : Stands(k, print[k])'
      BY <1>1, <1>3, <3>3 DEF Stands
    <3>. QED  BY <1>1, <1>3, <2>1, <3>1, <3>2, <3>4 DEF ChainInv
  <2>3. CASE ~Calm'
    BY <2>1, <2>3 DEF ChainInv
  <2>. QED  BY <2>2, <2>3
<1>. QED  BY <1>2, <1>3 DEF SavePrint

\* Nothing else touches a recording, save a crash.
LEMMA ChainStep ==
  ASSUME IInv, ChainInv, [Next]_vars
  PROVE  ChainInv'
<1>1. CASE Edit \/ Tick \/ UNCHANGED vars
  <2>1. Aside
    BY <1>1 DEF Edit, Tick, vars, log, job, Aside
  <2>. QED  BY <2>1, AsideKeeps
<1>2. ASSUME NEW j \in Jobs, Load(j)
      PROVE  ChainInv'
  <2>1. Aside
    BY <1>2 DEF Load, IInv, Typed, Goto, log, Aside, Actors
  <2>. QED  BY <2>1, AsideKeeps
<1>3. ASSUME NEW j \in Reports, AskInVain(j) \/ Ask(j) \/ Hold(j) \/ Enter(j)
      PROVE  ChainInv'
  <2>1. j \in Jobs /\ pc[j] # "log" /\ UNCHANGED <<print, began, changes>>
    BY <1>3 DEF Jobs, AskInVain, Ask, Hold, Enter, log
  <2>2. CASE Exit(j)
    BY <2>1, <2>2, EndsAside, AsideKeeps
  <2>3. CASE ~Exit(j)
    <3>1. Aside
      BY <1>3, <2>1, <2>3 DEF AskInVain, Ask, Hold, Enter, IInv, Typed, Goto, Aside, Actors
    <3>. QED  BY <3>1, AsideKeeps
  <2>. QED  BY <2>2, <2>3
<1>4. ASSUME NEW t \in Trades, Consult(t)
      PROVE  ChainInv'
  <2>1. Aside
    BY <1>4 DEF Consult, IInv, Typed, Goto, log, Aside, Actors, Jobs
  <2>. QED  BY <2>1, AsideKeeps
<1>5. ASSUME NEW d \in Lifts, Look(d) \/ Delete(d) \/ Note(d)
      PROVE  ChainInv'
  <2>1. /\ UNCHANGED <<print, began, changes, job>> /\ pc[d] # "log"
        /\ \E l \in Labels \ {"log"} : Goto(d, l)
    BY <1>5 DEF Look, Delete, Note, Answer, Labels, log
  <2>2. Aside
    BY <2>1, ActorsDiffer DEF IInv, Typed, Goto, Aside, Actors, Jobs, job
  <2>. QED  BY <2>2, AsideKeeps
<1>6. ASSUME NEW a \in Actors, Crash(a)
      PROVE  ChainInv'
  BY <1>6, RefusedIsNotCalm, AsideKeeps DEF Crash
<1>. QED
  BY <1>1, <1>2, <1>3, <1>4, <1>5, <1>6, CompareLinks, LogLinks, PrintLinks DEF Next

\* A store with no entries is a chain of none.
LEMMA ChainInit == Init => ChainInv
<1>. SUFFICES ASSUME Init
              PROVE  ChainInv
  OBVIOUS
<1>1. Recording = {} /\ print = None /\ Blank
  BY DEF Init, Recording, Actors, Jobs, Blank
<1>2. \A k \in Targets : Linked(k, changes[k])
  BY <1>1 DEF Linked, Blank
<1>3. crossed \in BOOLEAN /\ failures \in Nat
  BY DEF Init
<1>. QED  BY <1>1, <1>2, <1>3 DEF ChainInv

\* The invariant says of the moments between two recordings what the property says of all.
LEMMA ChainIsThere == IInv /\ ChainInv => ChangesAreAChain
<1> SUFFICES ASSUME IInv, ChainInv, Calm, NEW k \in Targets
             PROVE  /\ changes[k] # <<>> => \E b \in began : Fits(changes[k][1].before, b[k])
                    /\ Linked(k, changes[k])
                    /\ Recording = {} /\ print # None =>
                         IF changes[k] = <<>> THEN \A b \in began : b[k] = print[k]
                         ELSE Fits(Last(changes[k]).after, print[k])
  BY DEF ChangesAreAChain, Calm, Linked
<1>1. Linked(k, changes[k])
  BY DEF ChainInv
<1>2. Recording = {} /\ print # None => Stands(k, print[k])
  BY DEF ChainInv
<1>3. changes[k] # <<>> => \E value : Stands(k, value)
  <2>1. CASE Recording = {}
    BY <1>2, <2>1 DEF ChainInv, Blank
  <2>2. ASSUME NEW j \in Recording PROVE Blank \/ \E value : Stands(k, value)
    BY <2>2 DEF ChainInv, Halfway
  <2>. QED  BY <2>1, <2>2 DEF Blank
<1>4. changes[k] # <<>> => \E b \in began : Fits(changes[k][1].before, b[k])
  BY <1>3 DEF Stands
<1>5. ASSUME Stands(k, print[k])
      PROVE  IF changes[k] = <<>> THEN \A b \in began : b[k] = print[k]
             ELSE Fits(Last(changes[k]).after, print[k])
  BY <1>5 DEF Stands
<1>. QED  BY <1>1, <1>2, <1>4, <1>5

\* save_audit_entries and save_audit_fingerprint: while runs neither overlap nor fail,
\* the changes of a target follow on from where the log began and from one another, each
\* is there once, and between recordings they end in what the fingerprint holds.
THEOREM ChangesFollowOn == Spec => []ChangesAreAChain
<1>1. IInv /\ ChainInv /\ [Next]_vars => (IInv /\ ChainInv)'
  BY InductiveInvariant, ChainStep
<1>2. IInv /\ ChainInv => ChangesAreAChain
  BY ChainIsThere
<1>. QED
  BY <1>1, <1>2, InductiveInvariant, ChainInit, PTL DEF Spec

-----------------------------------------------------------------------------
(***************************************************************************)
(* What a review keeps of a reply.                                         *)
(***************************************************************************)
\* The natural numbers are ordered by a well-founded relation.
LEMMA LessThan ==
  \E R : IsWellFoundedOn(R, Nat) /\ \A x, y \in Nat : x < y => <<x, y>> \in R
<1>1. \A x, y \in Nat : x < y => <<x, y>> \in OpToRel(<, Nat)
  BY Zenon DEF OpToRel
<1>. QED  BY <1>1, NatLessThanWellFounded, Zenon

\* Some elements have a minimal one under a well-founded relation.
LEMMA HasMinimal ==
  \A R, S, T : IsWellFoundedOn(R, S) /\ T \subseteq S /\ T # {}
                 => \E x \in T : \A y \in T : <<y, x>> \notin R
  BY WFMin, Zenon

\* Some natural numbers have a least one.
LEMMA NatHasLeast ==
  ASSUME NEW T, T \subseteq Nat, T # {}
  PROVE  \E m \in T : \A n \in T : m <= n
<1>1. PICK R : IsWellFoundedOn(R, Nat) /\ \A x, y \in Nat : x < y => <<x, y>> \in R
  BY LessThan
<1>2. IsWellFoundedOn(R, Nat)
  BY <1>1
<1>3. \E x \in T : \A y \in T : <<y, x>> \notin R
  BY <1>2, HasMinimal, Zenon
<1>4. PICK x \in T : \A y \in T : <<y, x>> \notin R
  BY <1>3
<1>5. ASSUME NEW y \in T
      PROVE  x <= y
  <2>1. x \in Nat /\ y \in Nat /\ ~(y < x)
    BY <1>1, <1>4
  <2>. QED  BY <2>1
<1>. QED  BY <1>5

\* What is kept of the first k symbols, given what is kept of fewer: the recursion of
\* Cleaned.
Keeping(g, k, s, p, m) ==
  [i \in 0..k |-> IF i = 0 THEN <<>>
                  ELSE IF \/ i \notin p
                          \/ Contains(g[i - 1], s[i])
                          \/ g[i - 1] # <<>> /\ Len(g[i - 1]) >= m
                       THEN g[i - 1]
                       ELSE Append(g[i - 1], s[i])]

\* There is a function that it defines, ...
LEMMA KeepingExists ==
  ASSUME NEW n \in Nat, NEW s, NEW p, NEW m
  PROVE  \E g : g = Keeping(g, n, s, p, m)
<1> DEFINE Step(g, i) == IF i = 0 THEN <<>>
                         ELSE IF \/ i \notin p
                                 \/ Contains(g[i - 1], s[i])
                                 \/ g[i - 1] # <<>> /\ Len(g[i - 1]) >= m
                              THEN g[i - 1]
                              ELSE Append(g[i - 1], s[i])
           P(k) == \E g : g = [i \in 0..k |-> Step(g, i)]
           Bad == {k \in 0..n : ~P(k)}
<1>1. P(0)
  <2> DEFINE g == [i \in 0..0 |-> <<>>]
  <2>1. g = [i \in 0..0 |-> Step(g, i)]
    OBVIOUS
  <2>. QED  BY <2>1
<1>2. ASSUME NEW k \in Nat \ {0}, P(k - 1) PROVE P(k)
  <2>1. PICK g : g = [i \in 0..(k - 1) |-> Step(g, i)]
    BY <1>2
  <2> DEFINE h == [i \in 0..k |-> IF i = k THEN Step(g, k) ELSE g[i]]
  <2>2. ASSUME NEW i \in 0..k PROVE h[i] = Step(h, i)
    <3>1. CASE i = k
      <4>1. h[k - 1] = g[k - 1] /\ h[k] = Step(g, k)
        OBVIOUS
      <4>. QED  BY <3>1, <4>1
    <3>2. CASE i # k
      <4>1. i \in 0..(k - 1)
        BY <3>2
      <4>2. h[i] = g[i]
        BY <3>2
      <4>3. g[i] = Step(g, i)
        <5> HIDE DEF Step
        <5>. QED  BY <2>1, <4>1
      <4>4. i # 0 => h[i - 1] = g[i - 1]
        BY <4>1
      <4>. QED  BY <4>2, <4>3, <4>4
    <3>. QED  BY <3>1, <3>2
  <2>3. h = [i \in 0..k |-> Step(h, i)]
    <3>1. h = [i \in 0..k |-> h[i]]
      OBVIOUS
    <3> HIDE DEF h, Step
    <3>. QED  BY <2>2, <3>1
  <2>. QED  BY <2>3
<1> HIDE DEF P
<1>3. Bad = {}
  <2>0. Bad \subseteq Nat
    OBVIOUS
  <2>1. ASSUME Bad # {} PROVE FALSE
    <3>1. PICK k \in Bad : \A j \in Bad : k <= j
      <4> HIDE DEF Bad
      <4>. QED  BY <2>0, <2>1, NatHasLeast
    <3>2. k \in 0..n /\ ~P(k)
      OBVIOUS
    <3>3. k # 0 /\ k - 1 \in 0..n /\ k - 1 \notin Bad
      <4>1. k # 0
        BY <1>1, <3>2
      <4>2. k - 1 \notin Bad
        <5> HIDE DEF Bad
        <5>. QED  BY <3>1, <3>2
      <4>. QED  BY <3>2, <4>1, <4>2
    <3>4. P(k - 1)
      BY <3>3
    <3>. QED  BY <1>2, <3>2, <3>3, <3>4
  <2>. QED  BY <2>1
<1>4. P(n)
  BY <1>3
<1>. QED  BY <1>4 DEF P, Keeping

\* A list of members of T, none twice, and no more than m of them.
Short(q, T, m) == q \in Seq(T) /\ Once(q) /\ (m # 0 => Len(q) <= m)

\* ... and what is kept at its end is a short list of symbols that pass.
LEMMA CleanedKeeps ==
  ASSUME NEW T, NEW s, Len(s) \in Nat, NEW p, NEW m \in Nat,
         \A i \in 1..Len(s) : i \in p => s[i] \in T
  PROVE  Short(Cleaned(s, p, m), T, m)
<1> DEFINE n == Len(s)
           K == CHOOSE g : g = Keeping(g, n, s, p, m)
           Bad == {k \in 0..n : ~Short(K[k], T, m)}
<1>1. n \in Nat
  OBVIOUS
<1>2. Cleaned(s, p, m) = K[n]
  BY DEF Cleaned, Keeping
<1>3. \A k \in 0..n : K[k] = IF k = 0 THEN <<>>
                             ELSE IF \/ k \notin p
                                     \/ Contains(K[k - 1], s[k])
                                     \/ K[k - 1] # <<>> /\ Len(K[k - 1]) >= m
                                  THEN K[k - 1]
                                  ELSE Append(K[k - 1], s[k])
  <2>1. \E g : g = Keeping(g, n, s, p, m)
    BY <1>1, KeepingExists
  <2>2. K = Keeping(K, n, s, p, m)
    <3> HIDE DEF n
    <3>. QED  BY <2>1, Zenon
  <2> HIDE DEF K, n
  <2>3. \A k \in 0..n : Keeping(K, n, s, p, m)[k]
                        = IF k = 0 THEN <<>>
                          ELSE IF \/ k \notin p
                                  \/ Contains(K[k - 1], s[k])
                                  \/ K[k - 1] # <<>> /\ Len(K[k - 1]) >= m
                               THEN K[k - 1]
                               ELSE Append(K[k - 1], s[k])
    BY DEF Keeping
  <2>. QED  BY <2>2, <2>3, Zenon
<1> HIDE DEF K
<1>4. ASSUME NEW k \in 0..n, k # 0 => Short(K[k - 1], T, m)
      PROVE  Short(K[k], T, m)
  <2>1. CASE K[k] = <<>>
    BY <2>1 DEF Short, Once
  <2>2. CASE k # 0 /\ K[k] = K[k - 1]
    BY <1>4, <2>2
  <2>3. CASE /\ k # 0 /\ k \in p /\ ~Contains(K[k - 1], s[k])
             /\ K[k - 1] = <<>> \/ ~(Len(K[k - 1]) >= m)
             /\ K[k] = Append(K[k - 1], s[k])
    <3> DEFINE q == K[k - 1]
               e == s[k]
    <3>1. q \in Seq(T) /\ e \in T /\ Len(q) \in Nat
      BY <1>1, <1>4, <2>3 DEF Short
    <3>2. /\ \A i \in 1..Len(q) : q[i] # e
          /\ Once(q)
          /\ q = <<>> \/ ~(Len(q) >= m)
          /\ K[k] = Append(q, e)
      BY <1>4, <2>3 DEF Contains, Short
    <3>. HIDE DEF q, e
    <3>3. /\ Append(q, e) \in Seq(T) /\ Len(Append(q, e)) = Len(q) + 1
          /\ \A i \in 1..Len(q) : Append(q, e)[i] = q[i]
          /\ Append(q, e)[Len(q) + 1] = e
      BY <3>1
    <3>4. Once(Append(q, e))
      <4>1. ASSUME NEW a \in 1..(Len(q) + 1), NEW b \in 1..(Len(q) + 1), Append(q, e)[a] = Append(q, e)[b]
            PROVE  a = b
        <5>1. CASE a \in 1..Len(q) /\ b \in 1..Len(q)
          BY <3>2, <3>3, <4>1, <5>1 DEF Once
        <5>2. CASE a = Len(q) + 1 \/ b = Len(q) + 1
          BY <3>1, <3>2, <3>3, <4>1, <5>2
        <5>. QED  BY <3>1, <5>1, <5>2
      <4>. QED  BY <3>3, <4>1 DEF Once
    <3>5. m # 0 => Len(Append(q, e)) <= m
      <4>1. q = <<>> => Len(q) = 0
        OBVIOUS
      <4>. QED  BY <3>1, <3>2, <3>3, <4>1
    <3>. QED  BY <3>2, <3>3, <3>4, <3>5 DEF Short
  <2>. QED  BY <1>3, <2>1, <2>2, <2>3
<1>5. Bad = {}
  <2>0. Bad \subseteq Nat
    OBVIOUS
  <2>1. ASSUME Bad # {} PROVE FALSE
    <3>1. PICK k \in Bad : \A j \in Bad : k <= j
      <4> HIDE DEF Bad
      <4>. QED  BY <2>0, <2>1, NatHasLeast
    <3>2. k \in 0..n /\ ~Short(K[k], T, m)
      OBVIOUS
    <3>3. k # 0 => k - 1 \in 0..n /\ k - 1 \notin Bad
      <4> HIDE DEF Bad
      <4>. QED  BY <1>1, <3>1, <3>2
    <3>4. k # 0 => Short(K[k - 1], T, m)
      BY <3>3
    <3>. QED  BY <1>4, <3>2, <3>4
  <2>. QED  BY <2>1
<1>6. Short(K[n], T, m)
  BY <1>1, <1>5
<1>. QED  BY <1>2, <1>6, Zenon

\* A list without repetitions has as many members as it is long.
LEMMA OnceCounts ==
  ASSUME NEW T, NEW q \in Seq(T), Once(q)
  PROVE  IsFiniteSet(ToSet(q)) /\ Cardinality(ToSet(q)) = Len(q)
<1>1. Len(q) \in Nat /\ DOMAIN q = 1..Len(q) /\ q \in [1..Len(q) -> T]
  OBVIOUS
<1>2. IsFiniteSet(1..Len(q)) /\ Cardinality(1..Len(q)) = Len(q)
  <2>1. /\ IsFiniteSet(1..Len(q))
        /\ Cardinality(1..Len(q)) = IF 1 > Len(q) THEN 0 ELSE Len(q) - 1 + 1
    BY <1>1, FS_Interval
  <2>. QED  BY <1>1, <2>1
<1>3. ToSet(q) = {q[i] : i \in 1..Len(q)}
  BY <1>1 DEF ToSet
<1>4. q \in Bijection(1..Len(q), ToSet(q))
  <2>1. q \in [1..Len(q) -> ToSet(q)]
    BY <1>1, <1>3
  <2>2. IsInjective(q)
    BY <1>1 DEF IsInjective, Once
  <2>. QED  BY <1>1, <1>3, <2>1, <2>2 DEF Bijection, Injection, Surjection
<1>5. ExistsBijection(1..Len(q), ToSet(q))
  BY <1>4 DEF ExistsBijection
<1>. QED  BY <1>2, <1>5, FS_Bijection

\* What may be proposed to one who holds a universe.
Free(universe) == Symbols \ (universe \cup Excluded)

\* A review has kept what its powers let it keep.
Lawful(f, universe) ==
  /\ Short(f.vetoes, universe, MaxVetoes)
  /\ Short(f.growth, Free(universe), MaxGrowth)
  /\ Short(f.core, Free(universe) \ ToSet(f.growth), MaxCandidates)

\* _clean_vetoes, for a reply of any rows.
LEMMA KeptVetoesAreShort ==
  ASSUME NEW u \in Universes, NEW v \in KeptVetoes[u]
  PROVE  Short(v, u, MaxVetoes) /\ v \in Seq(Symbols)
<1>1. u \subseteq Symbols /\ MaxVetoes \in Nat
  BY BoundsAreNumbers DEF Universe, Universes, BoundsAreNumbers
<1>2. PICK r \in VetoReplies : v = CleanVetoes(r, u)
  BY DEF KeptVetoes
<1> DEFINE s == [i \in DOMAIN r |-> r[i].symbol]
           p == {i \in DOMAIN r : r[i].symbol \in u /\ r[i].sound}
<1>3. r \in Seq([symbol : Symbols, sound : BOOLEAN])
  BY <1>2, RepliesAreLists DEF RepliesAreLists
<1>4. /\ s \in Seq(Symbols) /\ Len(s) \in Nat
      /\ \A i \in 1..Len(s) : i \in p => s[i] \in u
  <2>0. Len(r) \in Nat /\ DOMAIN r = 1..Len(r) /\ \A i \in 1..Len(r) : r[i] \in [symbol : Symbols, sound : BOOLEAN]
    <3> DEFINE R == [symbol : Symbols, sound : BOOLEAN]
    <3>1. r \in Seq(R)
      BY <1>3
    <3> HIDE DEF R
    <3>2. Len(r) \in Nat /\ DOMAIN r = 1..Len(r) /\ \A i \in 1..Len(r) : r[i] \in R
      BY <3>1
    <3>. QED  BY <3>2 DEF R
  <2>1. Len(r) \in Nat /\ DOMAIN r = 1..Len(r) /\ \A i \in 1..Len(r) : r[i].symbol \in Symbols
    BY <2>0
  <2>2. s \in [1..Len(r) -> Symbols]
    BY <2>1
  <2>3. s \in Seq(Symbols)
    BY <2>1, <2>2
  <2>4. Len(s) = Len(r)
    BY <2>1, <2>2
  <2>. QED  BY <2>1, <2>3, <2>4
<1> HIDE DEF s, p
<1>5. Short(Cleaned(s, p, MaxVetoes), u, MaxVetoes)
  BY <1>1, <1>4, CleanedKeeps
<1>6. v = Cleaned(s, p, MaxVetoes)
  BY <1>2 DEF CleanVetoes, s, p
<1>7. Short(v, u, MaxVetoes)
  BY <1>5, <1>6
<1>. QED  BY <1>1, <1>7 DEF Short

\* _clean_candidates.
LEMMA CandidatesAreShort ==
  ASSUME NEW rows \in Seq(Symbols), NEW known, NEW max \in Nat
  PROVE  Short(CleanCandidates(rows, known, max), Symbols \ (known \cup Excluded), max)
<1> DEFINE p == {i \in DOMAIN rows : rows[i] \notin known \cup Excluded}
           T == Symbols \ (known \cup Excluded)
<1>1. Len(rows) \in Nat /\ \A i \in 1..Len(rows) : i \in p => rows[i] \in T
  OBVIOUS
<1> HIDE DEF p, T
<1>2. Short(Cleaned(rows, p, max), T, max)
  BY <1>1, CleanedKeeps
<1>. QED  BY <1>2 DEF CleanCandidates, p, T

\* What the growth candidates name is taken when the others are looked at.
LEMMA KeptIdeasAreShort ==
  ASSUME NEW u \in Universes, NEW i \in KeptIdeas[u]
  PROVE  /\ Short(i.growth, Free(u), MaxGrowth)
         /\ Short(i.core, Free(u) \ ToSet(i.growth), MaxCandidates)
<1>1. PICK r \in IdeaReplies : i = CleanIdeas(r, u)
  BY DEF KeptIdeas
<1>2. r.growth \in Seq(Symbols) /\ r.core \in Seq(Symbols) /\ MaxGrowth \in Nat /\ MaxCandidates \in Nat
  BY <1>1, RepliesAreLists, BoundsAreNumbers DEF RepliesAreLists, BoundsAreNumbers
<1>3. /\ i.growth = CleanCandidates(r.growth, u, MaxGrowth)
      /\ i.core = CleanCandidates(r.core, u \cup ToSet(i.growth), MaxCandidates)
  BY <1>1 DEF CleanIdeas
<1>4. Short(i.growth, Symbols \ (u \cup Excluded), MaxGrowth)
  BY <1>2, <1>3, CandidatesAreShort
<1>5. PICK k : k = u \cup ToSet(i.growth)
  OBVIOUS
<1>6. Short(CleanCandidates(r.core, k, MaxCandidates), Symbols \ (k \cup Excluded), MaxCandidates)
  BY <1>2, CandidatesAreShort
<1>7. Symbols \ (k \cup Excluded) = Free(u) \ ToSet(i.growth)
  BY <1>5 DEF Free
<1>. QED  BY <1>3, <1>4, <1>5, <1>6, <1>7 DEF Free

-----------------------------------------------------------------------------
(***************************************************************************)
(* The vetoes, and what the newest entries say of them.                    *)
(***************************************************************************)
Verdicts == [what : {"none", "held", "lifted"}, since : Nat]

VetoTyped ==
  /\ day \in Nat
  /\ vetoes \in [Symbols -> Nat \cup {None}] /\ says \in [Symbols -> Verdicts]
  /\ DOMAIN found = Jobs /\ DOMAIN blocked = Jobs /\ seen \in [Lifts -> Symbols \cup {None}]
  /\ \A j \in Jobs : pc[j] = "missed" => cfg[j] \in Settings
  /\ \A j \in Reviewing : /\ found[j].vetoes \in Seq(Symbols) /\ found[j].since \in Nat
                          /\ left[j] \in Seq(Symbols)
                          /\ \A s \in Symbols : Contains(left[j], s) => Contains(found[j].vetoes, s)
  /\ \A d \in Lifting : seen[d] \in Symbols

\* When a symbol is free again, by its newest entry.
Until(s) == IF says[s].what = "held" THEN says[s].since + Ttl ELSE None

\* A review or a lift under way, of which there is one at most, has the symbols it has
\* yet to enter; the list and the log agree on the others.
ListAgrees ==
  /\ \A a, b \in Reviewing \cup Lifting : a = b
  /\ \A s \in Symbols :
       \/ vetoes[s] = Until(s)
       \/ \E j \in Reviewing : Contains(found[j].vetoes, s)
       \/ \E d \in Lifting : pc[d] = "note" /\ seen[d] = s
  /\ \A j \in Reviewing, s \in Symbols :
       Contains(found[j].vetoes, s) /\ ~Contains(left[j], s) => vetoes[s] = found[j].since + Ttl
  /\ \A d \in Lifting : pc[d] = "note" => vetoes[seen[d]] = None

\* The inductive invariant: RunsHonourTheLog says nothing of a list that a review is
\* still writing.
VetoInv == VetoTyped /\ (Calm => ListAgrees)

\* Where a symbol is in what is left of a list.
LEMMA TailHas ==
  ASSUME NEW s \in Seq(Symbols), s # <<>>
  PROVE  /\ Tail(s) \in Seq(Symbols)
         /\ \A x : Contains(s, x) /\ x # Head(s) => Contains(Tail(s), x)
         /\ \A x : Contains(Tail(s), x) => Contains(s, x)
         /\ Contains(s, Head(s))
<1>1. /\ Tail(s) \in Seq(Symbols) /\ Head(s) = s[1] /\ Len(s) \in Nat /\ Len(Tail(s)) = Len(s) - 1
      /\ \A i \in 1..(Len(s) - 1) : Tail(s)[i] = s[i + 1]
  OBVIOUS
<1>2. ASSUME NEW x, Contains(s, x), x # Head(s)
      PROVE  Contains(Tail(s), x)
  <2>1. PICK i \in 1..Len(s) : s[i] = x
    BY <1>2 DEF Contains
  <2>2. i - 1 \in 1..Len(Tail(s)) /\ Tail(s)[i - 1] = x
    BY <1>1, <1>2, <2>1
  <2>. QED  BY <2>2 DEF Contains
<1>3. ASSUME NEW x, Contains(Tail(s), x)
      PROVE  Contains(s, x)
  <2>1. PICK i \in 1..Len(Tail(s)) : Tail(s)[i] = x
    BY <1>3 DEF Contains
  <2>2. i + 1 \in 1..Len(s) /\ s[i + 1] = x
    BY <1>1, <2>1
  <2>. QED  BY <2>2 DEF Contains
<1>4. Contains(s, Head(s))
  <2>1. 1 \in 1..Len(s)
    BY <1>1
  <2>. QED  BY <1>1, <2>1 DEF Contains
<1>. QED  BY <1>1, <1>2, <1>3, <1>4

\* A step that is none of a review's or a lift's.
Elsewhere ==
  /\ UNCHANGED <<vetoes, says, seen>> /\ day' \in Nat
  /\ DOMAIN found' = Jobs /\ DOMAIN blocked' = Jobs
  /\ \A j \in Jobs : pc'[j] = "missed" => cfg'[j] \in Settings
  /\ \A j \in Reports : /\ pc'[j] = "hold" <=> pc[j] = "hold"
                        /\ pc[j] = "hold" => found'[j] = found[j] /\ left'[j] = left[j]
  /\ \A d \in Lifts : pc'[d] = pc[d]

\* Such a step is not seen by either.
LEMMA ElsewhereKeeps ==
  ASSUME VetoInv, Elsewhere, Calm' => Calm
  PROVE  VetoInv'
<1>1. Reviewing' = Reviewing /\ Lifting' = Lifting
  BY DEF Elsewhere, Reviewing, Lifting
<1>2. \A j \in Reviewing : found'[j] = found[j] /\ left'[j] = left[j]
  BY DEF Elsewhere, Reviewing
<1>3. \A s \in Symbols : Until(s)' = Until(s)
  BY DEF Elsewhere, Until
<1>4. VetoTyped'
  BY <1>1, <1>2 DEF VetoInv, VetoTyped, Elsewhere
<1>5. ASSUME Calm'
      PROVE  ListAgrees'
  <2>1. ListAgrees
    BY <1>5 DEF VetoInv
  <2>2. \A d \in Lifting : pc'[d] = pc[d]
    BY DEF Elsewhere, Lifting
  <2>. QED  BY <1>1, <1>2, <1>3, <2>1, <2>2 DEF ListAgrees, Elsewhere
<1>. QED  BY <1>4, <1>5 DEF VetoInv

\* Recording the settings is none of a review's or a lift's.
LEMMA RecordElsewhere ==
  ASSUME IInv, VetoInv, NEW j \in Jobs, Load(j) \/ Compare(j) \/ LogChange(j) \/ SavePrint(j)
  PROVE  Elsewhere
<1>1. /\ pc \in [Actors -> Labels] /\ j \in Actors /\ \A d \in Lifts : d # j
      /\ DOMAIN cfg = Jobs /\ DOMAIN left = Jobs /\ DOMAIN found = Jobs /\ DOMAIN blocked = Jobs
      /\ \A i \in Jobs : pc[i] = "missed" => cfg[i] \in Settings
      /\ settings \in Settings /\ day \in Nat
  BY ActorsDiffer DEF IInv, Typed, VetoInv, VetoTyped, Actors, Jobs
<1>2. CASE Load(j)
  BY <1>1, <1>2 DEF Load, Goto, Elsewhere, Actors, Jobs, world, log
<1>3. CASE UNCHANGED pc /\ (LogChange(j) \/ Compare(j))
  BY <1>1, <1>3 DEF LogChange, Compare, Return, Elsewhere, Goto, Actors, Jobs, world, log
<1>4. CASE \E l \in {"log", "recorded", "missed"} : Goto(j, l) /\ ~Load(j)
  <2>1. /\ cfg[j] \in Settings /\ pc[j] \in {"compare", "log"} /\ UNCHANGED <<vetoes, says, seen, day, cfg, found, blocked>>
        /\ \A i \in Jobs \ {j} : left'[i] = left[i]
    BY <1>1, <1>4 DEF LogChange, Compare, SavePrint, Return, IInv, Typed, Engaged, world, log
  <2>2. \A i \in Actors \ {j} : pc'[i] = pc[i]
    BY <1>1, <1>4 DEF Goto
  <2>3. pc'[j] \notin {"hold"}
    BY <1>1, <1>4 DEF Goto
  <2>. QED  BY <1>1, <2>1, <2>2, <2>3 DEF Elsewhere, Actors, Jobs
<1>. QED  BY <1>2, <1>3, <1>4 DEF Compare, LogChange, SavePrint, Return

\* A job that ends, or a request that is answered, leaves the others' reviews and lifts.
LEMMA EndIsTyped ==
  ASSUME IInv, VetoTyped, NEW a \in Actors,
         \/ a \in Jobs /\ Exit(a) /\ UNCHANGED seen
         \/ a \in Lifts /\ (Answer(a, "gone") \/ Answer(a, "noted")) /\ UNCHANGED job,
         UNCHANGED <<day, vetoes>>, says' \in [Symbols -> Verdicts]
  PROVE  VetoTyped' /\ Reviewing' = Reviewing \ {a} /\ Lifting' = Lifting \ {a}
<1>1. /\ pc \in [Actors -> Labels] /\ Jobs \subseteq Actors /\ Reports \subseteq Jobs /\ Lifts \subseteq Actors
      /\ Jobs \cap Lifts = {}
      /\ DOMAIN cfg = Jobs /\ DOMAIN left = Jobs
  BY ActorsDiffer DEF IInv, Typed, Actors, Jobs
<1>2. CASE a \in Jobs /\ Exit(a) /\ UNCHANGED seen
  <2>1. /\ pc'[a] = "gone" /\ \A b \in Actors \ {a} : pc'[b] = pc[b]
        /\ \A j \in Jobs \ {a} : cfg'[j] = cfg[j] /\ found'[j] = found[j] /\ left'[j] = left[j]
        /\ DOMAIN found' = Jobs /\ DOMAIN blocked' = Jobs
    BY <1>1, <1>2 DEF Exit, Goto, VetoTyped
  <2>2. Reviewing' = Reviewing \ {a} /\ Lifting' = Lifting \ {a}
    BY <1>1, <1>2, <2>1 DEF Reviewing, Lifting
  <2>. QED  BY <1>1, <1>2, <2>1, <2>2 DEF VetoTyped, Reviewing, Lifting
<1>3. CASE a \in Lifts /\ (Answer(a, "gone") \/ Answer(a, "noted")) /\ UNCHANGED job
  <2>1. /\ pc'[a] \in {"gone", "noted"} /\ \A b \in Actors \ {a} : pc'[b] = pc[b]
        /\ \A d \in Lifts \ {a} : seen'[d] = seen[d]
        /\ seen' \in [Lifts -> Symbols \cup {None}] /\ UNCHANGED <<cfg, found, left, blocked>>
    BY <1>1, <1>3 DEF Answer, Goto, VetoTyped, job
  <2>2. Reviewing' = Reviewing \ {a} /\ Lifting' = Lifting \ {a}
    BY <1>1, <1>3, <2>1 DEF Reviewing, Lifting
  <2>. QED  BY <1>1, <1>3, <2>1, <2>2 DEF VetoTyped, Reviewing, Lifting
<1>. QED  BY <1>2, <1>3

\* A review begins, and has everything still to write.
LEMMA AskVetoes ==
  ASSUME IInv, VetoInv, NEW j \in Reports, Ask(j), Calm' => Calm
  PROVE  VetoInv'
<1>1. /\ pc \in [Actors -> Labels] /\ j \in Jobs /\ j \in Actors /\ DOMAIN left = Jobs
      /\ pc[j] \in {"recorded", "missed"} /\ cfg[j] \in Settings
      /\ \A d \in Lifts : d # j /\ d \in Actors
      /\ Reports \subseteq Jobs /\ Jobs \subseteq Actors
      /\ UNCHANGED <<vetoes, says, seen, cfg, blocked, day>> /\ VetoTyped
  BY ActorsDiffer DEF IInv, Typed, VetoInv, VetoTyped, Ask, Actors, Jobs, Engaged, world, log
<1>2. PICK v \in KeptVetoes[Universe(cfg[j])] : \E i \in KeptIdeas[Universe(cfg[j])] :
         /\ found' = [found EXCEPT ![j] =
              [vetoes |-> v, growth |-> i.growth, core |-> i.core, since |-> day]]
         /\ left' = [left EXCEPT ![j] = v]
  BY DEF Ask
<1>3. v \in Seq(Symbols)
  BY <1>1, <1>2, KeptVetoesAreShort DEF Universes
<1>4. /\ found'[j].vetoes = v /\ found'[j].since = day /\ left'[j] = v
      /\ DOMAIN found' = Jobs
      /\ \A i \in Jobs \ {j} : found'[i] = found[i] /\ left'[i] = left[i]
  BY <1>1, <1>2 DEF VetoTyped
<1>5. pc'[j] = "hold" /\ \A a \in Actors \ {j} : pc'[a] = pc[a]
  BY <1>1 DEF Ask, Goto
<1>6. Reviewing' = Reviewing \cup {j} /\ Lifting' = Lifting
  BY <1>1, <1>5 DEF Reviewing, Lifting
<1>7. VetoTyped'
  BY <1>1, <1>3, <1>4, <1>5, <1>6 DEF VetoTyped, Reviewing, Lifting
<1>8. ASSUME Calm'
      PROVE  ListAgrees'
  <2>1. ListAgrees /\ Reviewing = {} /\ Lifting = {}
    BY <1>8 DEF VetoInv, Calm, Ask
  <2>2. \A s \in Symbols : Until(s)' = Until(s)
    BY <1>1 DEF Until
  <2>3. \A s \in Symbols : vetoes[s] = Until(s)
    BY <2>1 DEF ListAgrees
  <2>. QED  BY <1>1, <1>4, <1>6, <2>1, <2>2, <2>3 DEF ListAgrees
<1>. QED  BY <1>7, <1>8 DEF VetoInv

\* It writes one veto.
LEMMA HoldVetoes ==
  ASSUME IInv, VetoInv, NEW j \in Reports, Hold(j), Calm' => Calm, Refused => ~Calm'
  PROVE  VetoInv'
<1>1. /\ pc \in [Actors -> Labels] /\ j \in Jobs /\ j \in Actors /\ DOMAIN left = Jobs
      /\ j \in Reviewing /\ left[j] # <<>> /\ left[j] \in Seq(Symbols) /\ found[j].since \in Nat
      /\ UNCHANGED <<says, seen, day>> /\ VetoTyped /\ Ttl \in Nat
  BY BoundsAreNumbers DEF BoundsAreNumbers, IInv, Typed, VetoInv, VetoTyped, Hold, Actors, Jobs, Reviewing, world, log
<1>2. CASE Exit(j) /\ Refused /\ UNCHANGED vetoes
  <2>1. VetoTyped'
    BY <1>1, <1>2, EndIsTyped DEF VetoTyped
  <2>. QED  BY <1>2, <2>1 DEF VetoInv
<1>3. CASE /\ vetoes' = [vetoes EXCEPT ![Head(left[j])] = found[j].since + Ttl]
           /\ left' = [left EXCEPT ![j] = Tail(@)]
           /\ UNCHANGED <<pc, cfg, prev, found, blocked, history>>
  <2> DEFINE h == Head(left[j])
  <2>1. h \in Symbols /\ left'[j] = Tail(left[j]) /\ \A i \in Jobs \ {j} : left'[i] = left[i]
    BY <1>1, <1>3
  <2>2. /\ vetoes' \in [Symbols -> Nat \cup {None}] /\ vetoes'[h] = found[j].since + Ttl
        /\ \A s \in Symbols \ {h} : vetoes'[s] = vetoes[s]
    BY <1>1, <1>3, <2>1 DEF VetoTyped
  <2>3. Reviewing' = Reviewing /\ Lifting' = Lifting
    BY <1>3 DEF Reviewing, Lifting
  <2>4. /\ left'[j] \in Seq(Symbols)
        /\ \A x : Contains(left[j], x) /\ x # h => Contains(left'[j], x)
        /\ \A x : Contains(left'[j], x) => Contains(left[j], x)
        /\ Contains(left[j], h)
    BY <1>1, <2>1, TailHas
  <2>7. Contains(found[j].vetoes, h)
    BY <1>1, <2>1, <2>4 DEF VetoTyped
  <2>. HIDE DEF h
  <2>5. VetoTyped'
    BY <1>1, <1>3, <2>1, <2>2, <2>3, <2>4 DEF VetoTyped, Reviewing
  <2>6. ASSUME Calm'
        PROVE  ListAgrees'
    <3>1. ListAgrees /\ Reviewing = {j} /\ Lifting = {}
      BY <1>1, <2>6, ActorsDiffer DEF VetoInv, ListAgrees, Reviewing, Lifting
    <3>2. \A s \in Symbols : Until(s)' = Until(s)
      BY <1>1 DEF Until
    <3>3. \A s \in Symbols : Contains(found[j].vetoes, s) /\ ~Contains(left'[j], s)
                                => vetoes'[s] = found[j].since + Ttl
      BY <2>2, <2>4, <3>1 DEF ListAgrees
    <3>4. \A s \in Symbols : vetoes'[s] = Until(s) \/ Contains(found[j].vetoes, s)
      BY <1>1, <2>1, <2>2, <2>7, <3>1 DEF ListAgrees, VetoTyped
    <3>. QED  BY <1>3, <2>3, <3>1, <3>2, <3>3, <3>4 DEF ListAgrees
  <2>. QED  BY <2>5, <2>6 DEF VetoInv
<1>. QED  BY <1>2, <1>3 DEF Hold

\* It enters its vetoes in the log, with nothing left to write.
LEMMA EnterVetoes ==
  ASSUME IInv, VetoInv, NEW j \in Reports, Enter(j), Calm' => Calm, Refused => ~Calm'
  PROVE  VetoInv'
<1>1. /\ j \in Jobs /\ j \in Actors /\ j \in Reviewing /\ left[j] = <<>>
      /\ found[j].since \in Nat
      /\ UNCHANGED <<vetoes, seen, day>> /\ VetoTyped /\ Exit(j)
  BY DEF IInv, Typed, VetoInv, VetoTyped, Enter, Actors, Jobs, Reviewing, world
<1>2. says' \in [Symbols -> Verdicts]
  <2>1. [what |-> "held", since |-> found[j].since] \in Verdicts
    BY <1>1 DEF Verdicts
  <2>. QED  BY <1>1, <2>1 DEF Enter, VetoTyped
<1>3. VetoTyped' /\ Reviewing' = Reviewing \ {j} /\ Lifting' = Lifting \ {j}
  BY <1>1, <1>2, EndIsTyped
<1>4. ASSUME Calm'
      PROVE  ListAgrees'
  <2>1. /\ ListAgrees /\ Reviewing = {j} /\ Lifting = {}
        /\ says' = [s \in Symbols |->
             IF Contains(found[j].vetoes, s) THEN [what |-> "held", since |-> found[j].since] ELSE says[s]]
    BY <1>1, <1>4, ActorsDiffer DEF VetoInv, ListAgrees, Reviewing, Lifting, Enter
  <2>2. \A s : ~Contains(left[j], s)
    BY <1>1 DEF Contains
  <2>3. ASSUME NEW s \in Symbols
        PROVE  vetoes'[s] = Until(s)'
    <3>1. CASE Contains(found[j].vetoes, s)
      <4>1. says'[s].what = "held" /\ says'[s].since = found[j].since
        BY <2>1, <3>1
      <4>. QED  BY <1>1, <2>1, <2>2, <3>1, <4>1 DEF ListAgrees, Until
    <3>2. CASE ~Contains(found[j].vetoes, s)
      BY <1>1, <2>1, <3>2 DEF ListAgrees, Until
    <3>. QED  BY <3>1, <3>2
  <2>4. Reviewing' = {} /\ Lifting' = {}
    BY <1>3, <2>1
  <2>. QED  BY <2>3, <2>4 DEF ListAgrees
<1>. QED  BY <1>3, <1>4 DEF VetoInv

\* A lift begins, with nothing done yet.
LEMMA LookVetoes ==
  ASSUME IInv, VetoInv, NEW d \in Lifts, Look(d), Calm' => Calm
  PROVE  VetoInv'
<1>1. /\ pc \in [Actors -> Labels] /\ d \in Actors /\ \A j \in Jobs : j # d /\ j \in Actors
      /\ Reports \subseteq Jobs /\ Lifts \subseteq Actors
      /\ UNCHANGED <<vetoes, says, day, cfg, found, left, blocked>> /\ VetoTyped
  BY ActorsDiffer DEF IInv, Typed, VetoInv, Look, Actors, Jobs, world, log, job
<1>2. /\ seen' \in [Lifts -> Symbols \cup {None}] /\ seen'[d] \in Symbols
      /\ \A e \in Lifts \ {d} : seen'[e] = seen[e]
  BY <1>1 DEF Look, VetoTyped
<1>3. pc'[d] = "delete" /\ \A a \in Actors \ {d} : pc'[a] = pc[a]
  BY <1>1 DEF Look, Goto
<1>4. Reviewing' = Reviewing /\ Lifting' = Lifting \cup {d}
  BY <1>1, <1>3 DEF Reviewing, Lifting
<1>5. VetoTyped'
  BY <1>1, <1>2, <1>3, <1>4 DEF VetoTyped, Reviewing, Lifting
<1>6. ASSUME Calm'
      PROVE  ListAgrees'
  <2>1. ListAgrees /\ Reviewing = {} /\ Lifting = {}
    BY <1>6 DEF VetoInv, Calm, Look
  <2>2. \A s \in Symbols : Until(s)' = Until(s)
    BY <1>1 DEF Until
  <2>3. \A s \in Symbols : vetoes[s] = Until(s)
    BY <2>1 DEF ListAgrees
  <2>. QED  BY <1>1, <1>3, <1>4, <2>1, <2>2, <2>3 DEF ListAgrees
<1>. QED  BY <1>5, <1>6 DEF VetoInv

\* The veto goes first.
LEMMA DeleteVetoes ==
  ASSUME IInv, VetoInv, NEW d \in Lifts, Delete(d), Calm' => Calm, Refused => ~Calm'
  PROVE  VetoInv'
<1>1. /\ pc \in [Actors -> Labels] /\ d \in Actors /\ d \in Lifting /\ seen[d] \in Symbols
      /\ \A j \in Jobs : j # d /\ j \in Actors
      /\ Reports \subseteq Jobs /\ Lifts \subseteq Actors
      /\ UNCHANGED <<says, day, job>> /\ VetoTyped
  BY ActorsDiffer DEF IInv, Typed, VetoInv, VetoTyped, Delete, Lifting, Actors, Jobs, world, log
<1>2. CASE Answer(d, "gone") /\ Refused /\ UNCHANGED vetoes
  <2>1. VetoTyped'
    BY <1>1, <1>2, EndIsTyped DEF VetoTyped
  <2>. QED  BY <1>2, <2>1 DEF VetoInv
<1>3. CASE vetoes' = [vetoes EXCEPT ![seen[d]] = None] /\ Goto(d, "note") /\ UNCHANGED <<seen, history>>
  <2>1. pc'[d] = "note" /\ \A a \in Actors \ {d} : pc'[a] = pc[a]
    BY <1>1, <1>3 DEF Goto
  <2>2. Reviewing' = Reviewing /\ Lifting' = Lifting
    BY <1>1, <2>1 DEF Reviewing, Lifting
  <2>3. /\ vetoes' \in [Symbols -> Nat \cup {None}] /\ vetoes'[seen[d]] = None
        /\ \A s \in Symbols \ {seen[d]} : vetoes'[s] = vetoes[s]
    BY <1>1, <1>3 DEF VetoTyped
  <2>4. VetoTyped'
    BY <1>1, <1>3, <2>1, <2>2, <2>3 DEF VetoTyped, Reviewing, Lifting, job
  <2>5. ASSUME Calm'
        PROVE  ListAgrees'
    <3>1. ListAgrees /\ Reviewing = {} /\ Lifting = {d}
      BY <1>1, <2>5, ActorsDiffer DEF VetoInv, ListAgrees, Reviewing, Lifting, Jobs
    <3>2. \A s \in Symbols : Until(s)' = Until(s)
      BY <1>1 DEF Until
    <3>3. \A s \in Symbols : vetoes'[s] = Until(s) \/ s = seen[d]
      <4>1. pc[d] = "note" => FALSE
        BY DEF Delete
      <4>. QED  BY <2>3, <3>1, <4>1 DEF ListAgrees
    <3>. QED  BY <1>3, <2>1, <2>2, <2>3, <3>1, <3>2, <3>3 DEF ListAgrees
  <2>. QED  BY <2>4, <2>5 DEF VetoInv
<1>. QED  BY <1>2, <1>3 DEF Delete

\* Its entry goes last.
LEMMA NoteVetoes ==
  ASSUME IInv, VetoInv, NEW d \in Lifts, Note(d), Calm' => Calm, Refused => ~Calm'
  PROVE  VetoInv'
<1>1. /\ d \in Actors /\ d \in Lifting /\ pc[d] = "note" /\ seen[d] \in Symbols /\ day \in Nat
      /\ UNCHANGED <<vetoes, day, job>> /\ VetoTyped
      /\ Answer(d, "gone") \/ Answer(d, "noted")
  BY DEF VetoInv, VetoTyped, Note, Lifting, Actors, world
<1>2. says' \in [Symbols -> Verdicts]
  <2>1. [what |-> "lifted", since |-> day] \in Verdicts
    BY <1>1 DEF Verdicts
  <2>. QED  BY <1>1, <2>1 DEF Note, VetoTyped
<1>3. VetoTyped' /\ Reviewing' = Reviewing \ {d} /\ Lifting' = Lifting \ {d}
  BY <1>1, <1>2, EndIsTyped
<1>4. ASSUME Calm'
      PROVE  ListAgrees'
  <2>1. /\ ListAgrees /\ Reviewing = {} /\ Lifting = {d}
        /\ says' = [says EXCEPT ![seen[d]] = [what |-> "lifted", since |-> day]]
    BY <1>1, <1>4, ActorsDiffer DEF VetoInv, ListAgrees, Reviewing, Lifting, Note, Jobs
  <2>2. ASSUME NEW s \in Symbols
        PROVE  vetoes'[s] = Until(s)'
    <3>1. CASE s = seen[d]
      <4>1. says'[s].what = "lifted" /\ vetoes[s] = None
        BY <1>1, <2>1, <3>1 DEF ListAgrees, VetoTyped
      <4>. QED  BY <1>1, <4>1 DEF Until
    <3>2. CASE s # seen[d]
      BY <1>1, <2>1, <3>2 DEF ListAgrees, Until, VetoTyped
    <3>. QED  BY <3>1, <3>2
  <2>3. Reviewing' = {} /\ Lifting' = {}
    BY <1>3, <2>1
  <2>. QED  BY <2>2, <2>3 DEF ListAgrees
<1>. QED  BY <1>3, <1>4 DEF VetoInv

\* Every step keeps the invariant.
LEMMA VetoStep == IInv /\ ChainInv /\ VetoInv /\ [Next]_vars => VetoInv'
<1>. SUFFICES ASSUME IInv, ChainInv, VetoInv, [Next]_vars
              PROVE  VetoInv'
  OBVIOUS
<1>0. (Calm' => Calm) /\ (Refused => ~Calm')
  BY CalmStep, RefusedIsNotCalm
<1>1. ASSUME NEW j \in Jobs, Load(j) \/ Compare(j) \/ LogChange(j) \/ SavePrint(j)
      PROVE  VetoInv'
  BY <1>0, <1>1, RecordElsewhere, ElsewhereKeeps
<1>2. CASE Edit \/ Tick \/ UNCHANGED vars
  <2>1. day' \in Nat
    BY <1>2 DEF Edit, Tick, vars, world, VetoInv, VetoTyped
  <2>2. UNCHANGED <<pc, cfg, found, left, blocked, vetoes, says, seen>>
    BY <1>2 DEF Edit, Tick, vars, log, job
  <2>3. Elsewhere
    BY <2>1, <2>2 DEF Elsewhere, VetoInv, VetoTyped
  <2>. QED  BY <1>0, <2>3, ElsewhereKeeps
<1>3. ASSUME NEW j \in Reports, AskInVain(j)
      PROVE  VetoInv'
  <2>1. /\ j \in Jobs /\ j \in Actors /\ pc \in [Actors -> Labels] /\ \A d \in Lifts : d # j /\ d \in Actors
        /\ Reports \subseteq Jobs /\ Jobs \subseteq Actors /\ DOMAIN left = Jobs /\ DOMAIN cfg = Jobs
    BY ActorsDiffer DEF IInv, Typed, Actors, Jobs
  <2>2. /\ pc'[j] = "gone" /\ pc[j] # "hold" /\ \A a \in Actors \ {j} : pc'[a] = pc[a]
        /\ \A i \in Jobs \ {j} : cfg'[i] = cfg[i] /\ found'[i] = found[i] /\ left'[i] = left[i]
        /\ DOMAIN found' = Jobs /\ DOMAIN blocked' = Jobs
        /\ UNCHANGED <<vetoes, says, seen, day>>
    BY <1>3, <2>1 DEF AskInVain, Exit, Goto, VetoInv, VetoTyped, world, log
  <2>3. Elsewhere
    BY <2>1, <2>2 DEF Elsewhere, VetoInv, VetoTyped
  <2>. QED  BY <1>0, <2>3, ElsewhereKeeps
<1>4. ASSUME NEW t \in Trades, Consult(t)
      PROVE  VetoInv'
  <2>1. /\ t \in Jobs /\ t \in Actors /\ pc \in [Actors -> Labels] /\ \A d \in Lifts : d # t /\ d \in Actors
        /\ \A j \in Reports : j # t /\ j \in Actors
        /\ Reports \subseteq Jobs /\ Jobs \subseteq Actors /\ DOMAIN cfg = Jobs
    BY ActorsDiffer DEF IInv, Typed, Actors, Jobs
  <2>2. /\ pc'[t] = "gone" /\ \A a \in Actors \ {t} : pc'[a] = pc[a]
        /\ \A i \in Jobs \ {t} : cfg'[i] = cfg[i]
        /\ DOMAIN blocked' = Jobs
        /\ UNCHANGED <<vetoes, says, seen, day, found, left>>
    BY <1>4, <2>1 DEF Consult, Goto, VetoInv, VetoTyped, world, log
  <2>3. Elsewhere
    BY <2>1, <2>2 DEF Elsewhere, VetoInv, VetoTyped
  <2>. QED  BY <1>0, <2>3, ElsewhereKeeps
<1>5. ASSUME NEW j \in Reports, Ask(j) \/ Hold(j) \/ Enter(j)
      PROVE  VetoInv'
  BY <1>0, <1>5, AskVetoes, HoldVetoes, EnterVetoes
<1>6. ASSUME NEW d \in Lifts, Look(d) \/ Delete(d) \/ Note(d)
      PROVE  VetoInv'
  BY <1>0, <1>6, LookVetoes, DeleteVetoes, NoteVetoes
<1>7. ASSUME NEW a \in Actors, Crash(a)
      PROVE  VetoInv'
  <2>1. ~Calm' /\ UNCHANGED <<day, vetoes, says>>
    BY <1>0, <1>7 DEF Crash, world, log
  <2>2. VetoTyped'
    BY <1>7, <2>1, EndIsTyped DEF Crash, VetoInv, VetoTyped
  <2>. QED  BY <2>1, <2>2 DEF VetoInv
<1>. QED  BY <1>1, <1>2, <1>3, <1>4, <1>5, <1>6, <1>7 DEF Next

\* No vetoes, and no entries of any.
LEMMA VetoInit == Init => VetoInv
<1>. SUFFICES ASSUME Init
              PROVE  VetoInv
  OBVIOUS
<1>1. /\ \A a \in Actors : pc[a] = "idle"
      /\ Reviewing = {} /\ Lifting = {}
  BY DEF Init, Reviewing, Lifting, Actors, Jobs
<1>2. [what |-> "none", since |-> 0] \in Verdicts
  BY DEF Verdicts
<1>3. VetoTyped
  BY <1>1, <1>2 DEF Init, VetoTyped, Actors
<1>4. ListAgrees
  BY <1>1 DEF Init, ListAgrees, Until
<1>. QED  BY <1>3, <1>4 DEF VetoInv

\* A trade run that is on its way and is not, after a step in which nothing failed, has
\* read the list.
LEMMA OnlyConsult ==
  ASSUME IInv, ChainInv, [Next]_vars, NEW t \in Trades, pc[t] \in {"recorded", "missed"},
         pc'[t] = "gone", failures' = 0
  PROVE  Consult(t) /\ failures = 0
<1>1. /\ pc \in [Actors -> Labels] /\ t \in Actors /\ t \notin Reports /\ t \notin Lifts /\ t \in Jobs
      /\ Jobs \subseteq Actors /\ Reports \subseteq Actors /\ Lifts \subseteq Actors /\ Trades \subseteq Actors
      /\ failures \in Nat
  BY ActorsDiffer DEF IInv, Typed, Actors, Jobs, ChainInv
<1>2. ~Refused
  BY <1>1 DEF Refused
<1>3. \A a \in Actors \ {t}, l \in Labels : ~Goto(a, l)
  BY <1>1 DEF Goto
<1>4. pc'[t] # pc[t]
  OBVIOUS
<1>5. ASSUME NEW j \in Jobs, Load(j) \/ Compare(j) \/ LogChange(j) \/ SavePrint(j)
      PROVE  FALSE
  <2>1. pc' = pc \/ \E l \in Labels : Goto(j, l)
    BY <1>2, <1>5 DEF Load, Compare, LogChange, SavePrint, Return, Labels
  <2>2. j = t
    BY <1>1, <1>3, <1>4, <2>1
  <2>. QED  BY <1>5, <2>2 DEF Load, Compare, LogChange, SavePrint
<1>6. ASSUME NEW j \in Reports, AskInVain(j) \/ Ask(j) \/ Hold(j) \/ Enter(j)
      PROVE  FALSE
  <2>1. pc' = pc \/ \E l \in Labels : Goto(j, l)
    BY <1>2, <1>6 DEF AskInVain, Ask, Hold, Enter, Exit, Labels
  <2>. QED  BY <1>1, <1>3, <1>4, <2>1
<1>7. ASSUME NEW d \in Lifts, Look(d) \/ Delete(d) \/ Note(d)
      PROVE  FALSE
  <2>1. \E l \in Labels : Goto(d, l)
    BY <1>2, <1>7 DEF Look, Delete, Note, Answer, Labels
  <2>. QED  BY <1>1, <1>3, <2>1
<1>8. ~(Edit \/ Tick \/ UNCHANGED vars) /\ \A a \in Actors : ~Crash(a)
  BY <1>2, <1>4 DEF Edit, Tick, vars, Crash
<1>9. ASSUME NEW u \in Trades, Consult(u)
      PROVE  u = t
  <2>1. \E l \in Labels : Goto(u, l)
    BY <1>9 DEF Consult, Labels
  <2>. QED  BY <1>1, <1>3, <2>1
<1>10. Consult(t)
  BY <1>5, <1>6, <1>7, <1>8, <1>9 DEF Next
<1>. QED  BY <1>1, <1>2, <1>10 DEF Consult, history

\* _blocked_symbols: while reviews and lifts neither cross nor fail, a trade run that
\* reads the list is held back from exactly the symbols of which the newest entry is a
\* veto of the last Ttl days.
THEOREM RunsHonour == Spec => RunsHonourTheLog
<1>1. IInv /\ ChainInv /\ VetoInv /\ [Next]_vars => (IInv /\ ChainInv /\ VetoInv)'
  BY InductiveInvariant, ChainStep, VetoStep
<1>2. IInv /\ ChainInv /\ VetoInv /\ [Next]_vars =>
        [\A t \in Trades :
           /\ pc[t] \in {"recorded", "missed"} /\ pc'[t] = "gone"
           /\ ~crossed /\ failures' = 0 /\ Reviewing \cup Lifting = {}
           => blocked'[t] = {s \in Symbols : says[s].what = "held" /\ day < says[s].since + Ttl}]_vars
  <2>. SUFFICES ASSUME IInv, ChainInv, VetoInv, [Next]_vars, NEW t \in Trades,
                       pc[t] \in {"recorded", "missed"}, pc'[t] = "gone",
                       ~crossed, failures' = 0, Reviewing \cup Lifting = {}
                PROVE  blocked'[t] = {s \in Symbols : says[s].what = "held" /\ day < says[s].since + Ttl}
    OBVIOUS
  <2>1. Consult(t) /\ failures = 0
    BY OnlyConsult
  <2>2. ListAgrees
    BY <2>1 DEF VetoInv, Calm
  <2>3. blocked'[t] = Active
    <3>1. blocked' = [blocked EXCEPT ![t] = Active]
      BY <2>1 DEF Consult, Refused
    <3>. QED  BY <3>1 DEF VetoInv, VetoTyped, Jobs
  <2>4. ASSUME NEW s \in Symbols
        PROVE  vetoes[s] # None /\ vetoes[s] > day <=> says[s].what = "held" /\ day < says[s].since + Ttl
    <3>1. vetoes[s] = Until(s)
      BY <2>2 DEF ListAgrees
    <3>2. says[s].since \in Nat /\ Ttl \in Nat /\ day \in Nat
      BY BoundsAreNumbers DEF BoundsAreNumbers, VetoInv, VetoTyped, Verdicts
    <3>3. says[s].since + Ttl \in Nat /\ says[s].since + Ttl # None
      BY <3>2, NoneIsNoTime DEF NoneIsNoTime
    <3>. QED  BY <3>1, <3>2, <3>3 DEF Until
  <2>. QED  BY <2>3, <2>4 DEF Active
<1>. QED
  BY <1>1, <1>2, InductiveInvariant, ChainInit, VetoInit, PTL DEF Spec, RunsHonourTheLog

-----------------------------------------------------------------------------
(***************************************************************************)
(* What a review holds, from its reply to its last write.                  *)
(***************************************************************************)
\* The inductive invariant: the lists are lists, and what is counted is there once.
PowersInv == \A j \in Reviewing : Lawful(found[j], Universe(cfg[j]))

\* A review that began before this step holds what it held, and the settings it had.
LEMMA ReviewsStand ==
  ASSUME IInv, VetoInv, [Next]_vars, NEW j \in Reports, pc'[j] = "hold", ~Ask(j)
  PROVE  j \in Reviewing /\ found'[j] = found[j] /\ cfg'[j] = cfg[j]
<1>1. /\ pc \in [Actors -> Labels] /\ j \in Jobs /\ j \in Actors
      /\ Jobs \subseteq Actors /\ Reports \subseteq Jobs /\ Trades \subseteq Jobs /\ Lifts \subseteq Actors
      /\ \A d \in Lifts : d # j
      /\ \A t \in Trades : t # j
      /\ DOMAIN cfg = Jobs /\ DOMAIN found = Jobs
  BY ActorsDiffer DEF IInv, Typed, VetoInv, VetoTyped, Actors, Jobs
<1>3. ASSUME NEW i \in Jobs, Load(i) \/ Compare(i) \/ LogChange(i) \/ SavePrint(i)
      PROVE  pc[j] = "hold" /\ found'[j] = found[j] /\ cfg'[j] = cfg[j]
  <2>1. UNCHANGED found /\ \A k \in Jobs \ {i} : cfg'[k] = cfg[k]
    BY <1>1, <1>3 DEF Load, Compare, LogChange, SavePrint, Return
  <2>2. pc' = pc \/ \E l \in {"compare", "log", "recorded", "missed"} : Goto(i, l)
    BY <1>3 DEF Load, Compare, LogChange, SavePrint, Return
  <2>3. i # j /\ pc[j] = "hold"
    <3>1. pc[i] # "hold"
      BY <1>3 DEF Load, Compare, LogChange, SavePrint
    <3>2. pc'[i] # "hold"
      BY <1>1, <2>2, <3>1 DEF Goto
    <3>. QED  BY <1>1, <2>2, <3>2 DEF Goto
  <2>. QED  BY <1>1, <2>1, <2>3
<1>4. ASSUME NEW i \in Jobs, Exit(i)
      PROVE  pc[j] = "hold" /\ found'[j] = found[j] /\ cfg'[j] = cfg[j]
  BY <1>1, <1>4 DEF Exit, Goto
<1>5. ASSUME NEW i \in Reports, Ask(i)
      PROVE  pc[j] = "hold" /\ found'[j] = found[j] /\ cfg'[j] = cfg[j]
  <2>1. i # j /\ UNCHANGED cfg
    BY <1>5 DEF Ask
  <2>2. pc'[j] = pc[j]
    BY <1>1, <1>5, <2>1 DEF Ask, Goto
  <2>3. found'[j] = found[j]
    BY <1>1, <1>5, <2>1 DEF Ask
  <2>. QED  BY <2>1, <2>2, <2>3
<1>6. ASSUME NEW i \in Reports, AskInVain(i) \/ Hold(i) \/ Enter(i)
      PROVE  pc[j] = "hold" /\ found'[j] = found[j] /\ cfg'[j] = cfg[j]
  <2>1. i \in Jobs /\ (Exit(i) \/ UNCHANGED <<pc, cfg, found>>)
    BY <1>1, <1>6 DEF AskInVain, Hold, Enter
  <2>. QED  BY <1>4, <2>1
<1>7. ASSUME NEW t \in Trades, Consult(t)
      PROVE  pc[j] = "hold" /\ found'[j] = found[j] /\ cfg'[j] = cfg[j]
  BY <1>1, <1>7 DEF Consult, Goto
<1>8. ASSUME NEW d \in Lifts, Look(d) \/ Delete(d) \/ Note(d)
      PROVE  pc[j] = "hold" /\ found'[j] = found[j] /\ cfg'[j] = cfg[j]
  BY <1>1, <1>8 DEF Look, Delete, Note, Answer, Goto, job
<1>9. ASSUME NEW a \in Actors, Crash(a)
      PROVE  pc[j] = "hold" /\ found'[j] = found[j] /\ cfg'[j] = cfg[j]
  <2>1. CASE a \in Jobs /\ Exit(a)
    BY <1>4, <2>1
  <2>2. CASE a \in Lifts /\ Answer(a, "gone") /\ UNCHANGED job
    BY <1>1, <2>2 DEF Answer, Goto, job
  <2>. QED  BY <1>9, <2>1, <2>2 DEF Crash
<1>10. ASSUME Edit \/ Tick \/ UNCHANGED vars
       PROVE  pc[j] = "hold" /\ found'[j] = found[j] /\ cfg'[j] = cfg[j]
  BY <1>10 DEF Edit, Tick, vars, job
<1>11. pc[j] = "hold" /\ found'[j] = found[j] /\ cfg'[j] = cfg[j]
  BY <1>3, <1>5, <1>6, <1>7, <1>8, <1>9, <1>10 DEF Next
<1>. QED  BY <1>11 DEF Reviewing

\* One that begins has kept what CleanVetoes and CleanIdeas leave.
LEMMA AskIsLawful ==
  ASSUME IInv, VetoInv, NEW j \in Reports, Ask(j)
  PROVE  Lawful(found'[j], Universe(cfg'[j]))
<1>1. /\ j \in Jobs /\ cfg[j] \in Settings /\ UNCHANGED cfg /\ DOMAIN found = Jobs
  BY DEF IInv, Typed, VetoInv, VetoTyped, Ask, Jobs, Engaged
<1>2. Universe(cfg[j]) \in Universes
  BY <1>1 DEF Universes
<1>3. PICK u \in Universes : u = Universe(cfg[j])
  BY <1>2
<1>4. PICK v \in KeptVetoes[u], i \in KeptIdeas[u] :
         found' = [found EXCEPT ![j] =
            [vetoes |-> v, growth |-> i.growth, core |-> i.core, since |-> day]]
  BY <1>3 DEF Ask
<1>5. found'[j].vetoes = v /\ found'[j].growth = i.growth /\ found'[j].core = i.core
  BY <1>1, <1>4
<1>6. /\ Short(v, u, MaxVetoes)
      /\ Short(i.growth, Free(u), MaxGrowth)
      /\ Short(i.core, Free(u) \ ToSet(i.growth), MaxCandidates)
  BY KeptVetoesAreShort, KeptIdeasAreShort
<1>. QED  BY <1>1, <1>3, <1>5, <1>6 DEF Lawful

\* Every step keeps the invariant.
LEMMA PowersStep == IInv /\ VetoInv /\ PowersInv /\ [Next]_vars => PowersInv'
<1>. SUFFICES ASSUME IInv, VetoInv, PowersInv, [Next]_vars, NEW j \in Reports, pc'[j] = "hold"
              PROVE  Lawful(found'[j], Universe(cfg'[j]))
  BY DEF PowersInv, Reviewing
<1>1. CASE Ask(j)
  BY <1>1, AskIsLawful
<1>2. CASE ~Ask(j)
  BY <1>2, ReviewsStand DEF PowersInv
<1>. QED  BY <1>1, <1>2

\* What is lawful is within the powers.
LEMMA LawfulIs ==
  ASSUME NEW f, NEW u, Lawful(f, u), MaxVetoes # 0
  PROVE  LET P == ToSet(f.growth) \cup ToSet(f.core)
         IN  /\ ToSet(f.vetoes) \subseteq u
             /\ Len(f.vetoes) <= MaxVetoes
             /\ P \cap (u \cup Excluded) = {}
             /\ Cardinality(P) = Len(f.growth) + Len(f.core)
<1>1. \A T, q : q \in Seq(T) => ToSet(q) \subseteq T
  <2>1. ASSUME NEW T, NEW q \in Seq(T)
        PROVE  ToSet(q) \subseteq T
    <3>1. DOMAIN q = 1..Len(q) /\ \A i \in 1..Len(q) : q[i] \in T
      OBVIOUS
    <3>. QED  BY <3>1 DEF ToSet
  <2>. QED  BY <2>1
<1>2. PICK G, C : G = ToSet(f.growth) /\ C = ToSet(f.core)
  OBVIOUS
<1>3. /\ ToSet(f.vetoes) \subseteq u
      /\ Len(f.vetoes) <= MaxVetoes
      /\ G \subseteq Free(u) /\ C \subseteq Free(u) \ G
  BY <1>1, <1>2 DEF Lawful, Short
<1>4. /\ IsFiniteSet(G) /\ Cardinality(G) = Len(f.growth) /\ Len(f.growth) \in Nat
      /\ IsFiniteSet(C) /\ Cardinality(C) = Len(f.core) /\ Len(f.core) \in Nat
  BY <1>2, OnceCounts DEF Lawful, Short
<1>5. G \cap C = {}
  BY <1>3
<1>6. Cardinality(G \cup C) = Cardinality(G) + Cardinality(C) - Cardinality(G \cap C)
  BY <1>4, FS_Union
<1>7. Cardinality(G \cap C) = 0
  BY <1>5, FS_EmptySet
<1>8. Cardinality(G \cup C) = Len(f.growth) + Len(f.core)
  BY <1>4, <1>6, <1>7
<1>. QED  BY <1>2, <1>3, <1>8 DEF Free

\* universe_review.py: whatever rows a reply has, in whatever order and however often,
\* a review holds back members of its universe only, no more than its ceiling of them,
\* and proposes each name once, none that is held or excluded.  A ceiling of none is no
\* ceiling of the code's, which counts after it has taken a row.
THEOREM PowersAreKept ==
  ASSUME MaxVetoes # 0
  PROVE  Spec => []ReviewKeepsToItsPowers
<1>1. IInv /\ ChainInv /\ VetoInv /\ PowersInv /\ [Next]_vars
        => (IInv /\ ChainInv /\ VetoInv /\ PowersInv)'
  BY InductiveInvariant, ChainStep, VetoStep, PowersStep
<1>2. Init => PowersInv
  BY DEF Init, PowersInv, Reviewing, Actors, Jobs
<1>3. PowersInv => ReviewKeepsToItsPowers
  <2>. SUFFICES ASSUME PowersInv, NEW j \in Reviewing
                PROVE  /\ ToSet(found[j].vetoes) \subseteq Universe(cfg[j])
                       /\ Len(found[j].vetoes) <= MaxVetoes
                       /\ Proposed(j) \cap (Universe(cfg[j]) \cup Excluded) = {}
                       /\ Cardinality(Proposed(j)) = Len(found[j].growth) + Len(found[j].core)
    BY DEF ReviewKeepsToItsPowers
  <2>1. Lawful(found[j], Universe(cfg[j]))
    BY DEF PowersInv
  <2>2. PICK f, u : f = found[j] /\ u = Universe(cfg[j])
    OBVIOUS
  <2>3. Lawful(f, u)
    BY <2>1, <2>2
  <2>4. LET P == ToSet(f.growth) \cup ToSet(f.core)
        IN  /\ ToSet(f.vetoes) \subseteq u
            /\ Len(f.vetoes) <= MaxVetoes
            /\ P \cap (u \cup Excluded) = {}
            /\ Cardinality(P) = Len(f.growth) + Len(f.core)
    BY <2>3, LawfulIs
  <2>. QED  BY <2>2, <2>4 DEF Proposed
<1>. QED
  BY <1>1, <1>2, <1>3, InductiveInvariant, ChainInit, VetoInit, PTL DEF Spec
=============================================================================
