---------------------------- MODULE RulesProofs -----------------------------
(***************************************************************************)
(* Proofs about the rules: a run of the signals that re-reads its window   *)
(* stores an event once and tells it at most once; the watchlist stays     *)
(* within its bounds and its evidence, forward only, stands; what the      *)
(* bars have once decided of a setup, of a level and of a swing is final.  *)
(***************************************************************************)
EXTENDS FeedsProofs, Signals, Watchlist, Outcomes, LevelRules

-----------------------------------------------------------------------------
\* The signals.

Rows == [bar : 1 .. MaxHistory, action : Actions, late : BOOLEAN]

-----------------------------------------------------------------------------
\* What a run finds is of a bar of the history, whatever the history.

LEMMA FoundRowsTyped ==
    ASSUME SignalsTypeOK
    PROVE  FoundRows \subseteq Rows
<1>1. Len(history) \in Nat /\ Len(history) <= MaxHistory /\ MaxHistory \in Nat /\ Window \in Nat
  BY SignalsAssumption DEF SignalsTypeOK
<1>2. \A i \in 1 .. Len(history) : i \in 1 .. MaxHistory
  BY <1>1
<1>3. ZScoreEvents \subseteq Rows
  <2>1. Larger(2, Len(history) - Window + 1) .. Len(history) \subseteq 1 .. Len(history)
    BY <1>1 DEF Larger
  <2>2. SUFFICES ASSUME NEW i \in Larger(2, Len(history) - Window + 1) .. Len(history)
                 PROVE  Event(i, IF Holds[i] THEN "ENTER" ELSE "EXIT") \in Rows
    BY DEF ZScoreEvents
  <2>3. i \in 1 .. MaxHistory
    BY <1>2, <2>1
  <2> QED
    BY <2>3 DEF Event, Rows, Actions
<1>4. ContinuationEvents \subseteq Rows
  <2>1. Larger(1, Len(history) - Window + 1) .. Len(history) \subseteq 1 .. MaxHistory
    BY <1>1 DEF Larger
  <2> QED
    BY <2>1 DEF ContinuationEvents, Rows
<1> QED
  BY <1>3, <1>4 DEF FoundRows

LEMMA SignalTypesInitially == SignalsInit => SignalsTypeOK
BY SignalsAssumption DEF SignalsInit, SignalsTypeOK

LEMMA SignalTypesStay == SignalsTypeOK /\ [SignalsNext]_signalVars => SignalsTypeOK'
<1> SUFFICES ASSUME SignalsTypeOK, [SignalsNext]_signalVars PROVE SignalsTypeOK'
  OBVIOUS
<1> USE DEF SignalsTypeOK
<1>1. CASE SignalBarCloses
  <2>1. PICK bar \in ZBars \cup Days : history' = Append(history, bar)
    BY <1>1 DEF SignalBarCloses
  <2>2. history' \in Seq(ZBars \cup Days) /\ Len(history') = Len(history) + 1
    BY <2>1
  <2> QED
    BY <1>1, <2>2, SignalsAssumption DEF SignalBarCloses
<1>2. CASE Run
  <2>1. Recorded \subseteq Rows
    BY FoundRowsTyped DEF Recorded, Rows
  <2>2. KeysOf(Fresh) \subseteq Keys
    BY <2>1 DEF KeysOf, KeyOf, Fresh, Rows, Keys
  <2> QED
    BY <1>2, <2>1, <2>2 DEF Run, Rows
<1>3. CASE Digest
  BY <1>3 DEF Digest
<1>4. CASE SignalsCrash
  BY <1>4, SignalsAssumption DEF SignalsCrash
<1>5. CASE UNCHANGED signalVars
  BY <1>5 DEF signalVars
<1> QED
  BY <1>1, <1>2, <1>3, <1>4, <1>5 DEF SignalsNext

\* The types of the signals, for every history.
THEOREM SignalTypesHold == SignalsSpec => []SignalsTypeOK
BY SignalTypesInitially, SignalTypesStay, PTL DEF SignalsSpec

-----------------------------------------------------------------------------
\* A run learns: what it adds has keys that were not stored, and the fresh are among it.
LEMMA RunLearns ==
    ASSUME SignalsTypeOK, Run
    PROVE  OnceSent!Learn
<1>1. stored' = Recorded /\ digest = {} /\ digest' = KeysOf(Fresh) /\ UNCHANGED sentRows
  BY DEF Run
<1>2. KeysOf(stored) \subseteq KeysOf(stored')
  BY <1>1 DEF Recorded, KeysOf
<1>3. KeysOf(stored') \subseteq Keys
  BY SignalTypesStay DEF SignalsTypeOK, KeysOf, KeyOf, Keys, SignalsNext
<1>4. digest' \subseteq KeysOf(stored') \ KeysOf(stored)
  BY <1>1 DEF Fresh, Recorded, KeysOf
<1> QED
  BY <1>1, <1>2, <1>3, <1>4 DEF OnceSent!Learn

LEMMA SignalsStepOnce ==
    SignalsTypeOK /\ [SignalsNext]_signalVars
        => [OnceSent!Next]_(OnceSent!vars) /\ stored \subseteq stored'
<1> SUFFICES ASSUME SignalsTypeOK, [SignalsNext]_signalVars
             PROVE  (OnceSent!Next \/ UNCHANGED OnceSent!vars) /\ stored \subseteq stored'
  OBVIOUS
<1>1. CASE Run
  BY <1>1, RunLearns DEF OnceSent!Next, Run, Recorded
<1>2. CASE Digest
  <2>1. OnceSent!Tell
    BY <1>2 DEF Digest, OnceSent!Tell
  <2> QED
    BY <1>2, <2>1 DEF OnceSent!Next, Digest
<1>3. CASE SignalsCrash
  BY <1>3 DEF SignalsCrash, OnceSent!Next, OnceSent!Forget
<1>4. CASE SignalBarCloses \/ UNCHANGED signalVars
  BY <1>4 DEF SignalBarCloses, signalVars, OnceSent!vars
<1> QED
  BY <1>1, <1>2, <1>3, <1>4 DEF SignalsNext

\* Insert when unseen, commit, then send: the runs keep TellOnce's promise and no row is rewritten,
\* for every window, every history and any number of crashes.
THEOREM SignalsTellOnce == SignalsSpec => TellsOnce
<1>1. SignalsInit => OnceSent!Init
  BY DEF SignalsInit, OnceSent!Init, KeysOf
<1>2. SignalsTypeOK /\ [SignalsNext]_signalVars => [OnceSent!Next]_(OnceSent!vars)
  BY SignalsStepOnce
<1>3. SignalsTypeOK /\ [SignalsNext]_signalVars => [stored \subseteq stored']_signalVars
  BY SignalsStepOnce
<1> QED
  BY <1>1, <1>2, <1>3, SignalTypesHold, PTL
  DEF SignalsSpec, TellsOnce, RowsStand, OnceSent!Spec

-----------------------------------------------------------------------------
\* The transitions.

\* The changes of position up to the n-th bar.
Transitions(n) ==
    {[bar |-> i, action |-> IF Holds[i] THEN "ENTER" ELSE "EXIT"] : i \in {i \in 2 .. n : Holds[i] # Holds[i - 1]}}

LEMMA HoldsAt ==
    ASSUME NEW i \in 1 .. Len(history)
    PROVE  Holds[i] = (/\ history[i].on
                       /\ \E j \in 1 .. i : history[j].wants /\ \A k \in j .. i : ~history[k].leaves)
BY DEF Holds

\* A new bar changes nothing of the positions before it.
LEMMA HoldsStands ==
    ASSUME SignalsTypeOK, NEW bar, history' = Append(history, bar), NEW i \in 1 .. Len(history)
    PROVE  Holds'[i] = Holds[i]
<1>1. Len(history) \in Nat /\ Len(history') = Len(history) + 1 /\ \A j \in 1 .. Len(history) : history'[j] = history[j]
  BY DEF SignalsTypeOK
<1>2. i \in 1 .. Len(history')
      /\ \A j \in 1 .. i : history'[j] = history[j] /\ \A k \in j .. i : history'[k] = history[k]
  BY <1>1
<1>3. Holds'[i] = (/\ history'[i].on
                   /\ \E j \in 1 .. i : history'[j].wants /\ \A k \in j .. i : ~history'[k].leaves)
  <2>1. Holds' = [l \in 1 .. Len(history') |->
                    /\ history'[l].on
                    /\ \E j \in 1 .. l : history'[j].wants /\ \A k \in j .. l : ~history'[k].leaves]
    BY DEF Holds
  <2> QED
    BY <1>2, <2>1
<1>4. \A j \in 1 .. i : (history'[j].wants /\ \A k \in j .. i : ~history'[k].leaves)
                         <=> (history[j].wants /\ \A k \in j .. i : ~history[k].leaves)
  BY <1>2
<1>5. history'[i].on = history[i].on
  BY <1>1
<1> QED
  BY <1>3, <1>4, <1>5, HoldsAt

TransitionInv ==
    /\ SignalsTypeOK /\ NoTransitionLost
    /\ Len(history) - ranOn <= Window

LEMMA TransitionsStep == TransitionInv /\ [SignalsNext]_signalVars => TransitionInv'
<1> SUFFICES ASSUME TransitionInv, [SignalsNext]_signalVars PROVE TransitionInv'
  OBVIOUS
<1>0. SignalsTypeOK' /\ family' = family
  BY SignalTypesStay DEF TransitionInv, SignalsNext, SignalBarCloses, Run, Digest, SignalsCrash, signalVars
<1>1. Len(history) \in Nat /\ ranOn \in 0 .. Len(history) /\ Window \in Nat /\ MaxHistory \in Nat
      /\ Len(history) <= MaxHistory /\ Len(history) - ranOn <= Window
  BY SignalsAssumption DEF TransitionInv, SignalsTypeOK
<1>2. family = "zscore" => KeysOf(stored) = Transitions(ranOn)
  BY DEF TransitionInv, NoTransitionLost, Transitions
<1>3. CASE SignalBarCloses
  <2>1. PICK bar : history' = Append(history, bar)
    BY <1>3 DEF SignalBarCloses
  <2>2. Len(history') = Len(history) + 1 /\ Len(history) - ranOn < Window /\ UNCHANGED <<ranOn, stored>>
    BY <1>3, <2>1 DEF SignalBarCloses, TransitionInv, SignalsTypeOK
  <2>3. \A i \in 1 .. Len(history) : Holds'[i] = Holds[i]
    BY <2>1, HoldsStands DEF TransitionInv
  <2>4. \A i \in 2 .. ranOn : i \in 1 .. Len(history) /\ i - 1 \in 1 .. Len(history)
    BY <1>1
  <2>5. Transitions(ranOn)' = Transitions(ranOn)
    BY <2>2, <2>3, <2>4 DEF Transitions
  <2>6. NoTransitionLost'
    BY <1>0, <1>2, <2>2, <2>5 DEF NoTransitionLost, Transitions, KeysOf
  <2> QED
    BY <1>0, <1>1, <2>2, <2>6 DEF TransitionInv
<1>4. CASE Run
  <2>1. ranOn' = Len(history) /\ stored' = Recorded /\ UNCHANGED <<family, history>>
    BY <1>4 DEF Run
  <2>2. ASSUME family = "zscore" PROVE KeysOf(Recorded) = Transitions(Len(history))
    <3>1. KeysOf(Recorded) = KeysOf(stored) \cup KeysOf(FoundRows)
      BY DEF Recorded, KeysOf
    <3>2. CASE history = <<>>
      <4>1. FoundRows = {} /\ Len(history) = 0 /\ ranOn = 0
        BY <1>1, <3>2 DEF FoundRows
      <4> QED
        BY <1>2, <2>2, <3>1, <4>1 DEF KeysOf
    <3>3. CASE history # <<>>
      <4> DEFINE from == Larger(2, Len(history) - Window + 1)
                 key(i) == [bar |-> i, action |-> IF Holds[i] THEN "ENTER" ELSE "EXIT"]
                 found == {i \in from .. Len(history) : Holds[i] # Holds[i - 1]}
      <4>1. FoundRows = {Event(i, IF Holds[i] THEN "ENTER" ELSE "EXIT") : i \in found}
        BY <2>2, <3>3 DEF FoundRows, ZScoreEvents
      <4>2. \A i \in found : KeyOf(Event(i, IF Holds[i] THEN "ENTER" ELSE "EXIT")) = key(i)
        BY DEF KeyOf, Event
      <4>3. KeysOf(FoundRows) = {key(i) : i \in found}
        BY <4>1, <4>2 DEF KeysOf
      <4>4. from \in Int /\ from >= 2 /\ (from <= ranOn + 1 \/ from = 2)
        BY <1>1 DEF Larger
      <4>5. \A i : i \in 2 .. Len(history) <=> i \in 2 .. ranOn \/ i \in from .. Len(history)
        BY <1>1, <4>4
      <4>6. Transitions(ranOn) = {key(i) : i \in {i \in 2 .. ranOn : Holds[i] # Holds[i - 1]}}
            /\ Transitions(Len(history)) = {key(i) : i \in {i \in 2 .. Len(history) : Holds[i] # Holds[i - 1]}}
        BY DEF Transitions
      <4>7. Transitions(Len(history)) = Transitions(ranOn) \cup {key(i) : i \in found}
        <5> HIDE DEF key, from
        <5> QED
          BY <4>5, <4>6
      <4> QED
        BY <1>2, <2>2, <3>1, <4>3, <4>7
    <3> QED
      BY <3>2, <3>3
  <2>3. NoTransitionLost'
    <3>1. Transitions(Len(history))' = Transitions(Len(history)) /\ Transitions(ranOn)' = Transitions(Len(history))'
      BY <2>1 DEF Transitions, Holds
    <3> QED
      BY <2>1, <2>2, <3>1 DEF NoTransitionLost, Transitions, KeysOf
  <2> QED
    BY <1>0, <1>1, <2>1, <2>3 DEF TransitionInv
<1>5. CASE Digest \/ SignalsCrash \/ UNCHANGED signalVars
  <2>1. UNCHANGED <<family, history, ranOn, stored>>
    BY <1>5 DEF Digest, SignalsCrash, signalVars
  <2> QED
    BY <1>0, <2>1 DEF TransitionInv, NoTransitionLost, Holds, KeysOf
<1> QED
  BY <1>3, <1>4, <1>5 DEF SignalsNext

\* A worker that was down for less than a window loses no change of position of a z-score signal,
\* for every window and every history (zscore_events, record_events).
THEOREM NoTransitionLostHolds == SignalsSpec => []NoTransitionLost
<1>1. SignalsInit => TransitionInv
  <2> SUFFICES ASSUME SignalsInit PROVE TransitionInv
    OBVIOUS
  <2>1. Len(history) = 0 /\ ranOn = 0 /\ stored = {}
    BY DEF SignalsInit
  <2>2. KeysOf(stored) = {} /\ 2 .. ranOn = {}
    BY <2>1 DEF KeysOf
  <2> QED
    BY <2>1, <2>2, SignalTypesInitially, SignalsAssumption DEF TransitionInv, NoTransitionLost
<1> QED
  BY <1>1, TransitionsStep, PTL DEF SignalsSpec, TransitionInv

-----------------------------------------------------------------------------
\* The watchlist: counting bars.

LEMMA ForwardBarsFit ==
    ASSUME NEW t, watchlist[t] \in Nat, NEW upTo \in Int, NEW day \in Nat,
           upTo <= day, watchlist[t] <= day
    PROVE  ForwardBars(t, upTo) \in Nat /\ ForwardBars(t, upTo) <= day - watchlist[t]
<1> DEFINE after == {d \in SearchDays : watchlist[t] < d /\ d <= upTo}
<1>1. LastSearchDay \in Nat
  BY WatchlistAssumption
<1>2. after \subseteq (watchlist[t] + 1) .. day
  BY <1>1 DEF SearchDays
<1>3. /\ IsFiniteSet((watchlist[t] + 1) .. day)
      /\ Cardinality((watchlist[t] + 1) .. day) = day - watchlist[t]
  <2>1. watchlist[t] + 1 \in Int /\ day \in Int
    OBVIOUS
  <2>2. /\ IsFiniteSet((watchlist[t] + 1) .. day)
        /\ Cardinality((watchlist[t] + 1) .. day)
             = IF watchlist[t] + 1 > day THEN 0 ELSE day - (watchlist[t] + 1) + 1
    BY <2>1, FS_Interval
  <2> QED
    BY <2>1, <2>2
<1> HIDE DEF after
<1>4. Cardinality(after) \in Nat /\ Cardinality(after) <= day - watchlist[t]
  BY <1>2, <1>3, FS_Subset, FS_CardinalityType
<1>5. ForwardBars(t, upTo) = IF Cardinality(after) >= 2 THEN Cardinality(after) ELSE 0
  BY DEF ForwardBars, after
<1> QED
  BY <1>4, <1>5

-----------------------------------------------------------------------------
\* The inductive invariant of the watchlist.

CycleStates ==
    [at : {"idle", "searching", "promoting", "scoring", "loading", "scored"},
     known : SUBSET Trials, done : Nat, wrote : SUBSET Trials, added : SUBSET Trials, budget : Int,
     taken : SUBSET {HypothesisOf[t] : t \in Trials}, now : Nat, read : [Files -> Int],
     rows : SUBSET [hash : Trials, at : Nat, days : Int, bars : Nat]]

SearchTyped ==
    /\ searchDay \in SearchDays
    /\ files \in [Files -> Int] /\ \A f \in Files : files[f] <= searchDay
    /\ trials \subseteq Trials
    /\ watchlist \in [Trials -> Nat]
    /\ cycles \in [Cycles -> CycleStates]

\* A candidate is a trial promoted by today; what a cycle has added is its own, and a trial.
PlacesAreOwned ==
    /\ Candidates \subseteq trials
    /\ \A t \in Trials : watchlist[t] <= searchDay
    /\ \A p \in Cycles :
          /\ cycles[p].at = "promoting" =>
                cycles[p].known \subseteq trials /\ cycles[p].now # NotPromoted /\ cycles[p].now <= searchDay
          /\ cycles[p].at # "promoting" => cycles[p].added = {}
          /\ cycles[p].added \subseteq cycles[p].known
          /\ cycles[p].added \cap Candidates = {}
          /\ \A q \in Cycles \ {p} : cycles[p].added \cap cycles[q].added = {}

\* What a candidate was measured on is behind it, and no more than there was: in a row, and in what a
\* cycle has loaded and is to make a row of.
RowIsForward(r, list, day) ==
    /\ r.hash \in Trials /\ list[r.hash] # NotPromoted
    /\ r.at \in Nat /\ r.at <= day
    /\ r.bars \in Nat /\ r.bars <= r.at - list[r.hash]
    /\ r.days \in Nat /\ r.days <= r.at - list[r.hash]

CycleIsForward(c, list, day) ==
    /\ \A r \in c.rows : RowIsForward(r, list, day)
    /\ \A r, s \in c.rows : r.hash = s.hash => r = s
    /\ c.at = "loading" =>
          /\ c.now <= day
          /\ \A f \in Files : c.read[f] <= day
          /\ \A t \in c.known : list[t] # NotPromoted /\ list[t] <= c.now

ScoresAreForward ==
    /\ \A s \in scores : RowIsForward(s, watchlist, searchDay)
    /\ \A r, s \in scores : r.hash = s.hash /\ r.at = s.at => r = s
    /\ \A p \in Cycles : CycleIsForward(cycles[p], watchlist, searchDay)

SearchInv == SearchTyped /\ PlacesAreOwned /\ ScoresAreForward

LEMMA IdleIsTyped ==
    /\ Idle \in CycleStates /\ Idle.added = {} /\ Idle.at = "idle" /\ Idle.rows = {}
    /\ \A list, day : CycleIsForward(Idle, list, day)
<1>1. Idle \in CycleStates /\ Idle.added = {} /\ Idle.at = "idle" /\ Idle.rows = {}
  BY DEF Idle, CycleStates, Unread
<1> QED
  BY <1>1 DEF CycleIsForward

LEMMA SearchInvInitially == WatchlistInit => SearchInv
<1> SUFFICES ASSUME WatchlistInit PROVE SearchInv
  OBVIOUS
<1> USE WatchlistAssumption DEF WatchlistInit
<1>1. Idle \in CycleStates
  BY IdleIsTyped
<1>2. 1 \in SearchDays
  BY DEF SearchDays
<1>3. Migrated \subseteq Trials /\ files \in [Files -> Int] /\ \A f \in Files : files[f] <= searchDay
  OBVIOUS
<1>4. SearchTyped
  BY <1>1, <1>2, <1>3 DEF SearchTyped, NotPromoted
<1>5. PlacesAreOwned
  BY <1>2 DEF PlacesAreOwned, Candidates, Idle, NotPromoted, SearchDays
<1>6. ScoresAreForward
  BY IdleIsTyped DEF ScoresAreForward
<1> QED
  BY <1>4, <1>5, <1>6 DEF SearchInv

LEMMA BudgetIsInt == Budget \in Int
<1>1. Cardinality(Candidates) \in Nat
  BY WatchlistAssumption, FS_Subset, FS_CardinalityType DEF Candidates
<1> QED
  BY <1>1, WatchlistAssumption DEF Budget, LesserOf

\* What is forward stays so while candidates keep their day and time goes on.
LEMMA ForwardLasts ==
    ASSUME SearchTyped, watchlist' \in [Trials -> Nat], searchDay' \in SearchDays,
           searchDay <= searchDay', \A t \in Candidates : watchlist'[t] = watchlist[t]
    PROVE  /\ \A r : RowIsForward(r, watchlist, searchDay) => RowIsForward(r, watchlist', searchDay')
           /\ \A c \in CycleStates :
                 CycleIsForward(c, watchlist, searchDay) => CycleIsForward(c, watchlist', searchDay')
<1>1. \A n \in Int : n <= searchDay => n <= searchDay'
  BY WatchlistAssumption DEF SearchTyped, SearchDays
<1>2. \A t \in Trials : watchlist[t] # NotPromoted => watchlist'[t] = watchlist[t]
  BY DEF Candidates
<1>3. \A r : RowIsForward(r, watchlist, searchDay) => RowIsForward(r, watchlist', searchDay')
  BY <1>1, <1>2 DEF RowIsForward
<1>4. ASSUME NEW c \in CycleStates, CycleIsForward(c, watchlist, searchDay)
      PROVE  CycleIsForward(c, watchlist', searchDay')
  <2>1. c.known \subseteq Trials /\ c.now \in Int /\ \A f \in Files : c.read[f] \in Int
    BY DEF CycleStates
  <2> QED
    BY <1>1, <1>2, <1>3, <1>4, <2>1 DEF CycleIsForward
<1> QED
  BY <1>3, <1>4

\* A step of no cycle.
LEMMA EvidenceStill ==
    ASSUME SearchInv, UNCHANGED <<watchlist, scores, cycles, trials>>,
           searchDay' \in SearchDays, searchDay <= searchDay'
    PROVE  ScoresAreForward' /\ EvidenceStands
<1>1. SearchTyped /\ ScoresAreForward /\ watchlist' \in [Trials -> Nat]
  BY DEF SearchInv, SearchTyped
<1>2. \A s \in scores' : RowIsForward(s, watchlist', searchDay')
  BY <1>1, ForwardLasts DEF ScoresAreForward
<1>3. \A q \in Cycles : CycleIsForward(cycles'[q], watchlist', searchDay')
  BY <1>1, ForwardLasts DEF ScoresAreForward, SearchTyped
<1>4. ScoresAreForward'
  BY <1>1, <1>2, <1>3 DEF ScoresAreForward
<1>5. Candidates' \subseteq trials'
  BY DEF Candidates, SearchInv, PlacesAreOwned
<1> QED
  BY <1>1, <1>2, <1>4, <1>5 DEF EvidenceStands, RowIsForward, ScoresAreForward

\* A step of one cycle that commits these scores.
LEMMA EvidenceMoves ==
    ASSUME SearchInv, trials \subseteq trials', searchDay' \in SearchDays, searchDay <= searchDay',
           watchlist' \in [Trials -> Nat], \A t \in Candidates : watchlist'[t] = watchlist[t],
           Candidates' \subseteq trials',
           NEW new, scores' = scores \cup new,
           \A s \in new : RowIsForward(s, watchlist', searchDay'),
           \A s \in new, r \in scores \cup new : r.hash = s.hash /\ r.at = s.at => r = s,
           NEW p \in Cycles, NEW c, cycles' = [cycles EXCEPT ![p] = c],
           CycleIsForward(c, watchlist', searchDay')
    PROVE  ScoresAreForward' /\ EvidenceStands
<1>1. SearchTyped /\ ScoresAreForward
  BY DEF SearchInv
<1>2. \A s \in scores' : RowIsForward(s, watchlist', searchDay')
  BY <1>1, ForwardLasts DEF ScoresAreForward
<1>3. \A r, s \in scores' : r.hash = s.hash /\ r.at = s.at => r = s
  BY <1>1 DEF ScoresAreForward
<1>4. \A q \in Cycles : CycleIsForward(cycles'[q], watchlist', searchDay')
  <2> SUFFICES ASSUME NEW q \in Cycles PROVE CycleIsForward(cycles'[q], watchlist', searchDay')
    OBVIOUS
  <2>1. cycles'[q] = IF q = p THEN c ELSE cycles[q]
    BY <1>1 DEF SearchTyped
  <2>2. cycles[q] \in CycleStates /\ CycleIsForward(cycles[q], watchlist, searchDay)
    BY <1>1 DEF SearchTyped, ScoresAreForward
  <2>3. CycleIsForward(cycles[q], watchlist', searchDay')
    BY <1>1, <2>2, ForwardLasts
  <2> QED
    BY <2>1, <2>3
<1>5. ScoresAreForward'
  BY <1>2, <1>3, <1>4 DEF ScoresAreForward
<1>6. EvidenceStands
  BY <1>2, <1>3 DEF EvidenceStands, RowIsForward
<1> QED
  BY <1>5, <1>6

\* A step that touches neither the watchlist nor the scores keeps what they say, as time goes on.
LEMMA EvidenceKept ==
    ASSUME SearchInv, UNCHANGED <<watchlist, scores>>, trials \subseteq trials',
           searchDay' \in SearchDays, searchDay <= searchDay',
           NEW p \in Cycles, NEW c, cycles' = [cycles EXCEPT ![p] = c],
           CycleIsForward(c, watchlist, searchDay')
    PROVE  ScoresAreForward' /\ EvidenceStands
<1>1. Candidates' = Candidates /\ Candidates' \subseteq trials'
  BY DEF Candidates, SearchInv, PlacesAreOwned
<1>2. watchlist' \in [Trials -> Nat] /\ \A t \in Candidates : watchlist'[t] = watchlist[t]
  BY DEF SearchInv, SearchTyped
<1>3. CycleIsForward(c, watchlist', searchDay')
  OBVIOUS
<1>4. scores' = scores \cup {}
  OBVIOUS
<1> QED
  BY <1>1, <1>2, <1>3, <1>4, EvidenceMoves

-----------------------------------------------------------------------------
\* One cycle moves: how the others stand beside it.

\* A step of a cycle that neither adds nor reads candidates.
LEMMA CycleMoves ==
    ASSUME SearchInv, NEW p \in Cycles, NEW c \in CycleStates, cycles' = [cycles EXCEPT ![p] = c],
           UNCHANGED <<watchlist, searchDay>>, trials \subseteq trials', trials' \subseteq Trials,
           c.added = {} \/ (c.added \subseteq cycles[p].added /\ c.at = "promoting"
                              /\ cycles[p].at = "promoting" /\ c.known = cycles[p].known /\ c.now = cycles[p].now),
           c.at = "promoting" => c.known \subseteq trials' /\ c.now # NotPromoted /\ c.now <= searchDay
    PROVE  PlacesAreOwned' /\ cycles' \in [Cycles -> CycleStates]
<1> USE DEF SearchInv, SearchTyped
<1>1. cycles' \in [Cycles -> CycleStates]
  OBVIOUS
<1>2. Candidates' = Candidates
  BY DEF Candidates
<1>3. \A q \in Cycles : cycles'[q] = IF q = p THEN c ELSE cycles[q]
  OBVIOUS
<1>4. c.added \subseteq cycles[p].added \/ c.added = {}
  OBVIOUS
<1>5. \A q \in Cycles : cycles'[q].added \subseteq cycles[q].added
  BY <1>3, <1>4
<1>6. ASSUME NEW q \in Cycles
      PROVE  /\ cycles'[q].added \cap Candidates' = {}
             /\ \A o \in Cycles \ {q} : cycles'[q].added \cap cycles'[o].added = {}
  BY <1>2, <1>5 DEF PlacesAreOwned
<1>7. ASSUME NEW q \in Cycles
      PROVE  /\ cycles'[q].at = "promoting" =>
                    cycles'[q].known \subseteq trials' /\ cycles'[q].now # NotPromoted
                    /\ cycles'[q].now <= searchDay'
             /\ cycles'[q].at # "promoting" => cycles'[q].added = {}
             /\ cycles'[q].added \subseteq cycles'[q].known
  BY <1>3 DEF PlacesAreOwned
<1> QED
  BY <1>1, <1>2, <1>6, <1>7 DEF PlacesAreOwned
\* The steps of a cycle that leave the watchlist and the scores alone.
LEMMA QuietCycleStep ==
    ASSUME SearchInv, NEW p \in Cycles,
           \/ CycleBegins(p) \/ SearchEnds(p) \/ CycleFails(p)
           \/ \E t \in Trials : Record(p, t)
    PROVE  SearchInv' /\ EvidenceStands
<1> USE DEF SearchInv, SearchTyped
<1>0. /\ cycles[p] \in CycleStates /\ Idle \in CycleStates /\ LastSearchDay \in Nat
      /\ searchDay \in Nat /\ searchDay # 0 /\ searchDay <= searchDay
      /\ CycleIsForward(cycles[p], watchlist, searchDay)
  BY IdleIsTyped, WatchlistAssumption DEF SearchDays, ScoresAreForward
<1>9. \A c : c.rows = {} /\ c.at # "loading" => CycleIsForward(c, watchlist, searchDay)
  BY DEF CycleIsForward
<1>1. CASE CycleBegins(p)
  <2>1. PICK c \in {[Idle EXCEPT !.at = "scoring"], [Idle EXCEPT !.at = "searching", !.known = trials]} :
            cycles' = [cycles EXCEPT ![p] = c]
    BY <1>1 DEF CycleBegins
  <2>2. c \in CycleStates /\ c.added = {} /\ c.at # "promoting" /\ c.at # "loading" /\ c.rows = {}
    <3>1. CASE c = [Idle EXCEPT !.at = "scoring"]
      BY <3>1 DEF Idle, CycleStates, Unread
    <3>2. CASE c = [Idle EXCEPT !.at = "searching", !.known = trials]
      <4>1. c = [at |-> "searching", known |-> trials, done |-> 0, wrote |-> {},
                 added |-> {}, budget |-> 0, taken |-> {}, now |-> 0,
                 read |-> [f \in Files |-> Unread], rows |-> {}]
        BY <3>2 DEF Idle
      <4> QED
        BY <4>1 DEF CycleStates, Unread
    <3> QED
      BY <2>1, <3>1, <3>2
  <2>3. UNCHANGED <<searchDay, files, trials, watchlist, scores>>
    BY <1>1 DEF CycleBegins
  <2>4. PlacesAreOwned' /\ cycles' \in [Cycles -> CycleStates]
    BY <2>1, <2>2, <2>3, CycleMoves
  <2>5. ScoresAreForward' /\ EvidenceStands
    BY <1>0, <1>9, <2>1, <2>2, <2>3, EvidenceKept
  <2> QED
    BY <2>3, <2>4, <2>5
<1>2. CASE SearchEnds(p)
  <2> DEFINE known == trials \cup cycles[p].wrote
             taken == {HypothesisOf[t] : t \in Candidates}
             c == [Idle EXCEPT !.at = "promoting", !.known = known, !.now = searchDay,
                               !.budget = Budget, !.taken = taken]
  <2>1. cycles[p].wrote \subseteq Trials /\ {HypothesisOf[t] : t \in Candidates} \subseteq {HypothesisOf[t] : t \in Trials}
    BY <1>0 DEF CycleStates, Candidates
  <2>2. c \in CycleStates
    <3> DEFINE c1 == [Idle EXCEPT !.at = "promoting"]
               c2 == [c1 EXCEPT !.known = known]
               c3 == [c2 EXCEPT !.now = searchDay]
               c4 == [c3 EXCEPT !.budget = Budget]
    <3>1. searchDay \in Nat /\ known \subseteq Trials /\ taken \subseteq {HypothesisOf[t] : t \in Trials}
      BY <1>0, <2>1
    <3>2. c1 \in CycleStates
      BY DEF Idle, CycleStates, Unread
    <3>3. c = [c4 EXCEPT !.taken = taken]
      OBVIOUS
    <3> HIDE DEF c1, known, taken
    <3>4. c2 \in CycleStates
      BY <3>1, <3>2 DEF CycleStates
    <3> HIDE DEF c2
    <3>5. c3 \in CycleStates
      BY <3>1, <3>4 DEF CycleStates
    <3> HIDE DEF c3
    <3>6. c4 \in CycleStates
      BY <3>5, BudgetIsInt DEF CycleStates
    <3> HIDE DEF c4, c
    <3> QED
      BY <3>1, <3>3, <3>6 DEF CycleStates
  <2>3. /\ c.added = {} /\ c.known = trials \cup cycles[p].wrote /\ c.now = searchDay
        /\ c.rows = {} /\ c.at = "promoting"
    BY DEF Idle
  <2>4. cycles' = [cycles EXCEPT ![p] = c] /\ trials' = trials \cup cycles[p].wrote
        /\ UNCHANGED <<watchlist, scores, searchDay, files>>
    BY <1>2 DEF SearchEnds, Nobodys
  <2> HIDE DEF c
  <2>5. PlacesAreOwned' /\ cycles' \in [Cycles -> CycleStates]
    <3>1. c.known \subseteq trials' /\ c.now # NotPromoted /\ c.now <= searchDay
      BY <1>0, <2>3, <2>4 DEF NotPromoted
    <3>2. trials \subseteq trials' /\ trials' \subseteq Trials
      BY <2>1, <2>4
    <3> QED
      BY <2>2, <2>3, <2>4, <3>1, <3>2, CycleMoves
  <2>6. ScoresAreForward' /\ EvidenceStands
    BY <1>0, <1>9, <2>3, <2>4, EvidenceKept
  <2> QED
    BY <2>1, <2>4, <2>5, <2>6
<1>3. CASE CycleFails(p)
  <2>1. Idle.added = {} /\ Idle.at # "promoting"
    BY IdleIsTyped
  <2>2. cycles' = [cycles EXCEPT ![p] = Idle] /\ UNCHANGED <<searchDay, files, trials, watchlist, scores>>
    BY <1>3 DEF CycleFails
  <2>3. PlacesAreOwned' /\ cycles' \in [Cycles -> CycleStates]
    BY <1>0, <2>1, <2>2, CycleMoves
  <2>4. ScoresAreForward' /\ EvidenceStands
    BY <1>0, <2>2, IdleIsTyped, EvidenceKept
  <2> QED
    BY <2>2, <2>3, <2>4
<1>4. ASSUME NEW t \in Trials, Record(p, t) PROVE SearchInv' /\ EvidenceStands
  <2> DEFINE wrote == cycles[p].wrote \cup ({t} \ trials)
             commit == cycles[p].done + 1 = CommitEvery
             known == cycles[p].known \cup {t}
             kept == IF commit THEN {} ELSE wrote
             count == IF commit THEN 0 ELSE cycles[p].done + 1
             c == [cycles[p] EXCEPT !.known = known, !.wrote = kept, !.done = count]
  <2>1. wrote \subseteq Trials /\ cycles[p].at = "searching" /\ cycles[p].added = {}
    BY <1>0, <1>4 DEF Record, CycleStates, PlacesAreOwned
  <2>2. c \in CycleStates
    <3> DEFINE c1 == [cycles[p] EXCEPT !.known = known]
               c2 == [c1 EXCEPT !.wrote = kept]
    <3>1. kept \subseteq Trials /\ count \in Nat /\ known \subseteq Trials
      BY <1>0, <2>1 DEF CycleStates
    <3>2. c = [c2 EXCEPT !.done = count]
      OBVIOUS
    <3> HIDE DEF kept, count, known
    <3>3. c1 \in CycleStates
      BY <1>0, <3>1 DEF CycleStates
    <3> HIDE DEF c1
    <3>4. c2 \in CycleStates
      BY <3>1, <3>3 DEF CycleStates
    <3> HIDE DEF c2, c
    <3> QED
      BY <3>1, <3>2, <3>4 DEF CycleStates
  <2>3. c.added = {} /\ c.at # "promoting" /\ c.at = "searching" /\ c.rows = cycles[p].rows
    BY <1>0, <2>1 DEF CycleStates
  <2>4. cycles' = [cycles EXCEPT ![p] = c] /\ trials' = (IF commit THEN trials \cup wrote ELSE trials)
        /\ UNCHANGED <<watchlist, scores, searchDay, files>>
    BY <1>4 DEF Record, Nobodys
  <2>5. trials \subseteq trials' /\ trials' \subseteq Trials
    BY <2>1, <2>4
  <2> HIDE DEF c
  <2>6. PlacesAreOwned' /\ cycles' \in [Cycles -> CycleStates]
    BY <2>2, <2>3, <2>4, <2>5, CycleMoves
  <2>7. CycleIsForward(c, watchlist, searchDay)
    BY <1>0, <2>3 DEF CycleIsForward
  <2>8. ScoresAreForward' /\ EvidenceStands
    BY <1>0, <2>4, <2>5, <2>7, EvidenceKept
  <2> QED
    BY <2>4, <2>5, <2>6, <2>8
<1> QED
  BY <1>1, <1>2, <1>3, <1>4

\* A row a cycle adds is nobody else's: it waits for a row another has added and not committed.
LEMMA AddStep ==
    ASSUME SearchInv, NEW p \in Cycles, NEW t \in Trials, PaperAdd(p, t)
    PROVE  SearchInv' /\ EvidenceStands
<1> USE DEF SearchInv, SearchTyped
<1> DEFINE spent == cycles[p].budget - 1
           added == cycles[p].added \cup ({t} \ Candidates)
           taken == cycles[p].taken \cup {HypothesisOf[t]}
           c == [cycles[p] EXCEPT !.budget = spent, !.added = added, !.taken = taken]
<1>1. /\ cycles[p] \in CycleStates /\ searchDay <= searchDay
      /\ CycleIsForward(cycles[p], watchlist, searchDay)
  BY WatchlistAssumption DEF SearchDays, ScoresAreForward
<1>2. c \in CycleStates
  <2> DEFINE c1 == [cycles[p] EXCEPT !.budget = spent]
             c2 == [c1 EXCEPT !.added = added]
  <2>1. spent \in Int /\ added \subseteq Trials /\ taken \subseteq {HypothesisOf[u] : u \in Trials}
    BY <1>1 DEF CycleStates
  <2>2. c = [c2 EXCEPT !.taken = taken]
    OBVIOUS
  <2> HIDE DEF spent, added, taken
  <2>3. c1 \in CycleStates
    BY <1>1, <2>1 DEF CycleStates
  <2> HIDE DEF c1
  <2>4. c2 \in CycleStates
    BY <2>1, <2>3 DEF CycleStates
  <2> HIDE DEF c2, c
  <2> QED
    BY <2>1, <2>2, <2>4 DEF CycleStates
<1>3. /\ c.added = cycles[p].added \cup ({t} \ Candidates) /\ c.known = cycles[p].known
      /\ c.at = cycles[p].at /\ c.now = cycles[p].now /\ c.rows = cycles[p].rows
  BY <1>1 DEF CycleStates
<1>4. /\ cycles' = [cycles EXCEPT ![p] = c] /\ cycles[p].at = "promoting" /\ t \in cycles[p].known
      /\ \A q \in Cycles \ {p} : t \notin cycles[q].added
      /\ UNCHANGED <<trials, watchlist, scores, searchDay, files>>
  BY DEF PaperAdd, HeldCandidates, Nobodys
<1> HIDE DEF c
<1>5. Candidates' = Candidates /\ \A q \in Cycles : cycles'[q] = IF q = p THEN c ELSE cycles[q]
  BY <1>4 DEF Candidates
<1>6. \A q \in Cycles : /\ cycles'[q].added \subseteq cycles'[q].known
                        /\ cycles'[q].added \cap Candidates' = {}
  BY <1>3, <1>4, <1>5 DEF PlacesAreOwned
<1>7. \A q \in Cycles : \A o \in Cycles \ {q} : cycles'[q].added \cap cycles'[o].added = {}
  BY <1>3, <1>4, <1>5 DEF PlacesAreOwned
<1>8. PlacesAreOwned'
  BY <1>3, <1>4, <1>5, <1>6, <1>7 DEF PlacesAreOwned
<1>9. CycleIsForward(c, watchlist, searchDay)
  BY <1>1, <1>3, <1>4 DEF CycleIsForward
<1>10. ScoresAreForward' /\ EvidenceStands
  BY <1>1, <1>4, <1>9, EvidenceKept
<1> QED
  BY <1>2, <1>4, <1>8, <1>10

\* A promotion gives days to trials that had none, and no score is theirs.
LEMMA PromoteStep ==
    ASSUME SearchInv, NEW p \in Cycles, PromoteEnds(p)
    PROVE  SearchInv' /\ EvidenceStands
<1> USE DEF SearchInv, SearchTyped
<1> DEFINE c == [Idle EXCEPT !.at = "scoring"]
<1>1. cycles[p] \in CycleStates /\ searchDay <= searchDay
  BY WatchlistAssumption DEF SearchDays
<1>2. c \in CycleStates /\ c.added = {} /\ c.at = "scoring" /\ c.known = {} /\ c.rows = {}
  BY DEF Idle, CycleStates, Unread
<1>3. /\ cycles[p].at = "promoting" /\ cycles' = [cycles EXCEPT ![p] = c]
      /\ watchlist' = [t \in Trials |-> IF t \in cycles[p].added THEN cycles[p].now ELSE watchlist[t]]
      /\ UNCHANGED <<trials, scores, searchDay, files>>
  BY DEF PromoteEnds, Nobodys
<1> HIDE DEF c
<1>4. /\ cycles[p].now \in Nat /\ cycles[p].now # NotPromoted /\ cycles[p].now <= searchDay
      /\ cycles[p].added \subseteq trials /\ cycles[p].added \cap Candidates = {}
  BY <1>1, <1>3 DEF PlacesAreOwned, CycleStates
<1>5. Candidates' = Candidates \cup cycles[p].added
  BY <1>3, <1>4 DEF Candidates
<1>6. \A t \in Candidates : watchlist'[t] = watchlist[t]
  BY <1>3, <1>4 DEF Candidates
<1>7. \A q \in Cycles : cycles'[q] = IF q = p THEN c ELSE cycles[q]
  BY <1>3
<1>8. PlacesAreOwned'
  <2>1. Candidates' \subseteq trials' /\ \A t \in Trials : watchlist'[t] <= searchDay'
    BY <1>3, <1>4, <1>5 DEF PlacesAreOwned
  <2>2. ASSUME NEW q \in Cycles
        PROVE  /\ cycles'[q].added \cap Candidates' = {}
               /\ \A o \in Cycles \ {q} : cycles'[q].added \cap cycles'[o].added = {}
    BY <1>2, <1>5, <1>7 DEF PlacesAreOwned
  <2>3. ASSUME NEW q \in Cycles
        PROVE  /\ cycles'[q].at = "promoting" =>
                    cycles'[q].known \subseteq trials' /\ cycles'[q].now # NotPromoted
                    /\ cycles'[q].now <= searchDay'
               /\ cycles'[q].at # "promoting" => cycles'[q].added = {}
               /\ cycles'[q].added \subseteq cycles'[q].known
    BY <1>2, <1>3, <1>7 DEF PlacesAreOwned
  <2> QED
    BY <2>1, <2>2, <2>3 DEF PlacesAreOwned
<1>9. CycleIsForward(c, watchlist', searchDay')
  BY <1>2 DEF CycleIsForward
<1>10. ScoresAreForward' /\ EvidenceStands
  <2>1. watchlist' \in [Trials -> Nat]
    BY <1>3, <1>4
  <2>2. Candidates' \subseteq trials' /\ scores' = scores \cup {}
    BY <1>3, <1>8 DEF PlacesAreOwned
  <2> QED
    BY <1>1, <1>3, <1>6, <1>9, <2>1, <2>2, EvidenceMoves
<1>11. watchlist' \in [Trials -> Nat] /\ cycles' \in [Cycles -> CycleStates]
  BY <1>2, <1>3, <1>4
<1> QED
  BY <1>3, <1>8, <1>10, <1>11

\* The candidates a cycle is to measure, each promoted by the clock it has read.
LEMMA PaperAllStep ==
    ASSUME SearchInv, NEW p \in Cycles, PaperAll(p)
    PROVE  SearchInv' /\ EvidenceStands
<1> USE DEF SearchInv, SearchTyped
<1> DEFINE c == [Idle EXCEPT !.at = "loading", !.known = Candidates, !.now = searchDay]
<1>1. searchDay \in Nat /\ searchDay <= searchDay /\ \A f \in Files : Unread <= searchDay
  BY WatchlistAssumption DEF SearchDays, Unread
<1>2. /\ cycles' = [cycles EXCEPT ![p] = c]
      /\ UNCHANGED <<trials, watchlist, scores, searchDay, files>>
  BY DEF PaperAll, Nobodys
<1>3. Candidates \subseteq Trials
  BY DEF Candidates
<1>4. /\ c.at = "loading" /\ c.known = Candidates /\ c.now = searchDay /\ c.rows = {}
      /\ c.added = {} /\ c.read = [f \in Files |-> Unread]
  BY DEF Idle
<1>5. c \in CycleStates
  <2> DEFINE c1 == [Idle EXCEPT !.at = "loading"]
             c2 == [c1 EXCEPT !.known = Candidates]
  <2>1. c1 \in CycleStates
    BY DEF Idle, CycleStates, Unread
  <2>2. c = [c2 EXCEPT !.now = searchDay]
    OBVIOUS
  <2> HIDE DEF c1
  <2>3. c2 \in CycleStates
    BY <1>3, <2>1 DEF CycleStates
  <2> HIDE DEF c2, c
  <2> QED
    BY <1>1, <2>2, <2>3 DEF CycleStates
<1> HIDE DEF c
<1>6. CycleIsForward(c, watchlist, searchDay)
  <2>1. \A t \in Candidates : watchlist[t] # NotPromoted /\ watchlist[t] <= searchDay
    BY DEF Candidates, PlacesAreOwned
  <2> QED
    BY <1>1, <1>4, <2>1 DEF CycleIsForward
<1>7. PlacesAreOwned' /\ cycles' \in [Cycles -> CycleStates]
  BY <1>2, <1>4, <1>5, CycleMoves
<1>8. ScoresAreForward' /\ EvidenceStands
  BY <1>1, <1>2, <1>6, EvidenceKept
<1> QED
  BY <1>2, <1>7, <1>8

\* What a file is read as does not lie ahead of the day.
LEMMA LoadStep ==
    ASSUME SearchInv, NEW p \in Cycles, NEW f \in Files, Load(p, f)
    PROVE  SearchInv' /\ EvidenceStands
<1> USE DEF SearchInv, SearchTyped
<1> DEFINE loaded == [cycles[p].read EXCEPT ![f] = files[f]]
           c == [cycles[p] EXCEPT !.read = loaded]
<1>1. /\ cycles[p] \in CycleStates /\ searchDay <= searchDay
      /\ CycleIsForward(cycles[p], watchlist, searchDay)
  BY WatchlistAssumption DEF SearchDays, ScoresAreForward
<1>2. /\ cycles' = [cycles EXCEPT ![p] = c] /\ cycles[p].at = "loading"
      /\ UNCHANGED <<trials, watchlist, scores, searchDay, files>>
  BY DEF Load, Nobodys
<1>3. /\ loaded \in [Files -> Int] /\ \A g \in Files : loaded[g] <= searchDay
  BY <1>1, <1>2 DEF CycleStates, CycleIsForward
<1> HIDE DEF loaded
<1>4. /\ c \in CycleStates /\ c.at = "loading" /\ c.read = loaded /\ c.known = cycles[p].known
      /\ c.now = cycles[p].now /\ c.rows = cycles[p].rows /\ c.added = cycles[p].added
  BY <1>1, <1>2, <1>3 DEF CycleStates
<1>5. cycles[p].added = {}
  BY <1>2 DEF PlacesAreOwned
<1> HIDE DEF c
<1>6. CycleIsForward(c, watchlist, searchDay)
  BY <1>1, <1>2, <1>3, <1>4 DEF CycleIsForward
<1>7. PlacesAreOwned' /\ cycles' \in [Cycles -> CycleStates]
  BY <1>2, <1>4, <1>5, CycleMoves
<1>8. ScoresAreForward' /\ EvidenceStands
  BY <1>1, <1>2, <1>6, EvidenceKept
<1> QED
  BY <1>2, <1>7, <1>8

\* The rows are of an instant after what they were loaded at.
LEMMA StampStep ==
    ASSUME SearchInv, NEW p \in Cycles, Stamp(p)
    PROVE  SearchInv' /\ EvidenceStands
<1> USE DEF SearchInv, SearchTyped
<1> DEFINE old == cycles[p]
           row(gone, t) == [hash |-> t, at |-> searchDay, days |-> old.now - watchlist[t],
                            bars |-> IF t \in gone THEN 0 ELSE ForwardBars(t, old.read[FileOf[t]])]
<1>1. PICK gone \in SUBSET old.known :
          cycles' = [cycles EXCEPT ![p] = [Idle EXCEPT !.at = "scored", !.rows = {row(gone, t) : t \in old.known}]]
  BY DEF Stamp, ScoredAt
<1> DEFINE rows == {row(gone, t) : t \in old.known}
           c == [Idle EXCEPT !.at = "scored", !.rows = rows]
<1>2. /\ old.at = "loading" /\ old \in CycleStates /\ searchDay \in Nat /\ searchDay <= searchDay
      /\ CycleIsForward(old, watchlist, searchDay)
      /\ UNCHANGED <<trials, watchlist, scores, searchDay, files>>
  BY WatchlistAssumption DEF Stamp, Nobodys, SearchDays, ScoresAreForward
<1>3. ASSUME NEW t \in old.known
      PROVE  /\ row(gone, t) \in [hash : Trials, at : Nat, days : Int, bars : Nat]
             /\ RowIsForward(row(gone, t), watchlist, searchDay)
  <2>1. /\ t \in Trials /\ FileOf[t] \in Files /\ old.now \in Nat /\ old.now <= searchDay
        /\ watchlist[t] \in Nat /\ watchlist[t] # NotPromoted /\ watchlist[t] <= old.now
        /\ old.read[FileOf[t]] \in Int /\ old.read[FileOf[t]] <= searchDay
    BY <1>2, WatchlistAssumption DEF CycleStates, CycleIsForward
  <2> HIDE DEF old
  <2>2. /\ ForwardBars(t, old.read[FileOf[t]]) \in Nat
        /\ ForwardBars(t, old.read[FileOf[t]]) <= searchDay - watchlist[t]
    <3>1. watchlist[t] <= searchDay
      BY <1>2, <2>1
    <3> QED
      BY <1>2, <2>1, <3>1, ForwardBarsFit
  <2> QED
    BY <1>2, <2>1, <2>2 DEF RowIsForward
<1>4. \A r, s \in rows : r.hash = s.hash => r = s
  OBVIOUS
<1>5. rows \subseteq [hash : Trials, at : Nat, days : Int, bars : Nat]
      /\ \A r \in rows : RowIsForward(r, watchlist, searchDay)
  BY <1>3
<1>6. cycles' = [cycles EXCEPT ![p] = c]
  BY <1>1
<1> HIDE DEF rows, row, old
<1>7. c.at = "scored" /\ c.added = {} /\ c.rows = rows
  BY DEF Idle
<1>8. c \in CycleStates
  <2> DEFINE c1 == [Idle EXCEPT !.at = "scored"]
  <2>1. c1 \in CycleStates
    BY DEF Idle, CycleStates, Unread
  <2>2. c = [c1 EXCEPT !.rows = rows]
    OBVIOUS
  <2> HIDE DEF c1, c
  <2> QED
    BY <1>5, <2>1, <2>2 DEF CycleStates
<1> HIDE DEF c
<1>9. CycleIsForward(c, watchlist, searchDay)
  BY <1>4, <1>5, <1>7 DEF CycleIsForward
<1>10. PlacesAreOwned' /\ cycles' \in [Cycles -> CycleStates]
  BY <1>2, <1>6, <1>7, <1>8, CycleMoves
<1>11. ScoresAreForward' /\ EvidenceStands
  BY <1>2, <1>6, <1>9, EvidenceKept
<1> QED
  BY <1>2, <1>6, <1>10, <1>11

\* A row that meets one of its candidate and instant is not written.
LEMMA ScoreEndsStep ==
    ASSUME SearchInv, NEW p \in Cycles, ScoreEnds(p)
    PROVE  SearchInv' /\ EvidenceStands
<1> USE DEF SearchInv, SearchTyped
<1> DEFINE rows == cycles[p].rows
           new == {r \in rows : ~\E s \in scores : s.hash = r.hash /\ s.at = r.at}
<1>1. /\ searchDay <= searchDay /\ CycleIsForward(cycles[p], watchlist, searchDay)
      /\ CycleIsForward(Idle, watchlist, searchDay) /\ Idle \in CycleStates
      /\ Idle.added = {} /\ Idle.at # "promoting"
  BY IdleIsTyped, WatchlistAssumption DEF SearchDays, ScoresAreForward
<1>2. /\ scores' = scores \cup new /\ cycles' = [cycles EXCEPT ![p] = Idle]
      /\ UNCHANGED <<trials, watchlist, searchDay, files>>
  BY DEF ScoreEnds, Nobodys
<1>3. /\ \A s \in new : RowIsForward(s, watchlist, searchDay)
      /\ \A s \in new, r \in scores \cup new : r.hash = s.hash /\ r.at = s.at => r = s
  BY <1>1 DEF CycleIsForward
<1> HIDE DEF new, rows
<1>4. PlacesAreOwned' /\ cycles' \in [Cycles -> CycleStates]
  BY <1>1, <1>2, CycleMoves
<1>5. Candidates' = Candidates /\ Candidates' \subseteq trials'
  BY <1>2 DEF Candidates, PlacesAreOwned
<1>6. ScoresAreForward' /\ EvidenceStands
  <2>1. /\ \A s \in new : RowIsForward(s, watchlist', searchDay')
        /\ CycleIsForward(Idle, watchlist', searchDay')
    BY <1>1, <1>2, <1>3
  <2>2. watchlist' \in [Trials -> Nat] /\ \A t \in Candidates : watchlist'[t] = watchlist[t]
    BY <1>2
  <2> QED
    BY <1>1, <1>2, <1>3, <1>5, <2>1, <2>2, EvidenceMoves
<1> QED
  BY <1>2, <1>4, <1>6

\* A file is written up to today at most.
LEMMA UpdateStep ==
    ASSUME SearchInv, NEW f \in Files, Update(f)
    PROVE  SearchInv' /\ EvidenceStands
<1> USE DEF SearchInv, SearchTyped
<1>2. PICK upTo \in 1 .. searchDay : files' = [files EXCEPT ![f] = upTo]
  BY DEF Update
<1>3. UNCHANGED <<searchDay, trials, watchlist, scores, cycles>>
  BY DEF Update
<1>4. searchDay \in Nat /\ upTo \in Int /\ upTo <= searchDay
  BY WatchlistAssumption DEF SearchDays
<1>5. files' \in [Files -> Int] /\ \A g \in Files : files'[g] <= searchDay'
  BY <1>2, <1>3, <1>4
<1>7. ScoresAreForward' /\ EvidenceStands
  BY <1>3, <1>4, EvidenceStill
<1>8. Candidates' = Candidates
  BY <1>3 DEF Candidates
<1>9. PlacesAreOwned'
  BY <1>3, <1>8 DEF PlacesAreOwned
<1> QED
  BY <1>3, <1>5, <1>7, <1>9

LEMMA SearchStep ==
    SearchInv /\ [WatchlistNext]_searchVars => SearchInv' /\ [EvidenceStands]_searchVars
<1> SUFFICES ASSUME SearchInv, [WatchlistNext]_searchVars
             PROVE  SearchInv' /\ (EvidenceStands \/ UNCHANGED searchVars)
  OBVIOUS
<1>1. CASE SearchDayPasses
  <2> USE DEF SearchInv, SearchTyped
  <2>1. /\ searchDay' \in SearchDays /\ searchDay' = searchDay + 1 /\ searchDay \in Int
        /\ UNCHANGED <<files, trials, watchlist, scores, cycles>>
    BY <1>1, WatchlistAssumption DEF SearchDayPasses, SearchDays
  <2>2. ScoresAreForward' /\ EvidenceStands
    BY <2>1, EvidenceStill
  <2>3. \A n \in Nat : n <= searchDay => n <= searchDay'
    BY <2>1
  <2>4. Candidates' = Candidates
    BY <2>1 DEF Candidates
  <2>5. PlacesAreOwned'
    BY <2>1, <2>3, <2>4 DEF PlacesAreOwned, CycleStates
  <2> QED
    BY <2>1, <2>2, <2>5
<1>2. ASSUME NEW p \in Cycles, CycleBegins(p) \/ SearchEnds(p) \/ CycleFails(p)
                               \/ \E t \in Trials : Record(p, t)
      PROVE  SearchInv' /\ EvidenceStands
  BY <1>2, QuietCycleStep
<1>3. ASSUME NEW p \in Cycles, NEW t \in Trials, PaperAdd(p, t) PROVE SearchInv' /\ EvidenceStands
  BY <1>3, AddStep
<1>4. ASSUME NEW p \in Cycles, PromoteEnds(p) PROVE SearchInv' /\ EvidenceStands
  BY <1>4, PromoteStep
<1>5. ASSUME NEW p \in Cycles, PaperAll(p) \/ Stamp(p) \/ ScoreEnds(p) \/ \E f \in Files : Load(p, f)
      PROVE  SearchInv' /\ EvidenceStands
  BY <1>5, PaperAllStep, StampStep, ScoreEndsStep, LoadStep
<1>7. ASSUME NEW f \in Files, Update(f) PROVE SearchInv' /\ EvidenceStands
  BY <1>7, UpdateStep
<1>6. CASE UNCHANGED searchVars
  <2>1. Candidates' = Candidates
    BY <1>6 DEF searchVars, Candidates
  <2> QED
    BY <1>6, <2>1 DEF searchVars, SearchInv, SearchTyped, PlacesAreOwned, ScoresAreForward
<1> QED
  BY <1>1, <1>2, <1>3, <1>4, <1>5, <1>6, <1>7 DEF WatchlistNext

\* The evidence of the watchlist stands: a candidate keeps its day, and is measured once an instant
\* on bars after it, for any number of cycles that run together, fail and race, and any trials.
THEOREM EvidenceStandsHolds == WatchlistSpec => [][EvidenceStands]_searchVars
<1>1. SearchInv /\ [WatchlistNext]_searchVars => SearchInv' /\ [EvidenceStands]_searchVars
  BY SearchStep
<1> QED
  BY <1>1, SearchInvInitially, PTL DEF WatchlistSpec

-----------------------------------------------------------------------------
\* The bounds of the watchlist: what a cycle that promotes may still take.

\* Its candidates and what is left of its budget.
Promise(c) ==
    IF c.at = "promoting" THEN Cardinality(c.added) + (IF c.budget > 0 THEN c.budget ELSE 0) ELSE 0

Promises == [p \in Cycles |-> Promise(cycles[p])]

\* As many for each cycle as it may take.
Tokens(f) == {x \in Cycles \X (1 .. PromotePerCycle) : x[2] <= f[x[1]]}

\* A place of a hypothesis it may take, or has.
Asks(c, h) == c.at = "promoting" /\ (h \notin c.taken \/ \E t \in c.added : HypothesisOf[t] = h)

Asking(h) == {p \in Cycles : Asks(cycles[p], h)}
PlacesOf(h) == {u \in Candidates : HypothesisOf[u] = h}
Hypotheses == {HypothesisOf[t] : t \in Trials}

AddsOnce ==
    \A p \in Cycles :
        /\ \A t \in cycles[p].added : HypothesisOf[t] \in cycles[p].taken
        /\ \A t, u \in cycles[p].added : HypothesisOf[t] = HypothesisOf[u] => t = u

\* The candidates and what the cycles may still take fit, but for what all but one may take; so for
\* each hypothesis.
BoundInv ==
    /\ SearchInv
    /\ Promises \in [Cycles -> 0 .. PromotePerCycle]
    /\ Cardinality(Candidates) + Cardinality(Tokens(Promises))
          <= MaxCandidates + (Cardinality(Cycles) - 1) * PromotePerCycle
    /\ AddsOnce
    /\ \A h \in Hypotheses : Cardinality(PlacesOf(h)) + Cardinality(Asking(h)) <= Cardinality(Cycles)

LEMMA CandidatesFinite ==
    /\ IsFiniteSet(Candidates) /\ Cardinality(Candidates) \in Nat
    /\ \A h : IsFiniteSet(PlacesOf(h)) /\ Cardinality(PlacesOf(h)) \in Nat
    /\ \A h : IsFiniteSet(Asking(h)) /\ Cardinality(Asking(h)) \in Nat
    /\ \A h : Cardinality(Asking(h)) <= Cardinality(Cycles)
    /\ Cardinality(Cycles) \in Nat \ {0}
<1>1. Candidates \subseteq Trials /\ \A h : PlacesOf(h) \subseteq Trials /\ Asking(h) \subseteq Cycles
  BY DEF Candidates, PlacesOf, Asking
<1>2. IsFiniteSet(Trials) /\ IsFiniteSet(Cycles) /\ Cycles # {}
  BY WatchlistAssumption
<1>3. \A S : S \subseteq Trials => IsFiniteSet(S) /\ Cardinality(S) \in Nat
  BY <1>2, FS_Subset, FS_CardinalityType
<1>4. \A S : S \subseteq Cycles => IsFiniteSet(S) /\ Cardinality(S) \in Nat /\ Cardinality(S) <= Cardinality(Cycles)
  BY <1>2, FS_Subset, FS_CardinalityType
<1>5. Cardinality(Cycles) \in Nat \ {0}
  BY <1>2, FS_EmptySet, FS_CardinalityType
<1> QED
  BY <1>1, <1>3, <1>4, <1>5

\* What the others may take is apart from what one may.
LEMMA OnePromise ==
    ASSUME NEW f \in [Cycles -> 0 .. PromotePerCycle], NEW p \in Cycles
    PROVE  LET rest == Tokens([f EXCEPT ![p] = 0]) IN
           /\ Cardinality(rest) \in Nat
           /\ Cardinality(rest) <= (Cardinality(Cycles) - 1) * PromotePerCycle
           /\ Cardinality(Tokens(f)) = Cardinality(rest) + f[p]
<1> DEFINE rest == Tokens([f EXCEPT ![p] = 0])
           others == (Cycles \ {p}) \X (1 .. PromotePerCycle)
           own == {p} \X (1 .. f[p])
<1>1. PromotePerCycle \in Nat /\ IsFiniteSet(Cycles) /\ f[p] \in 0 .. PromotePerCycle
  BY WatchlistAssumption
<1>2. IsFiniteSet(Cycles \ {p}) /\ Cardinality(Cycles \ {p}) = Cardinality(Cycles) - 1
  BY <1>1, FS_RemoveElement
<1>3. /\ IsFiniteSet(1 .. PromotePerCycle) /\ Cardinality(1 .. PromotePerCycle) = PromotePerCycle
      /\ IsFiniteSet(1 .. f[p]) /\ Cardinality(1 .. f[p]) = f[p]
  <2>1. 1 \in Int /\ PromotePerCycle \in Int /\ f[p] \in Int /\ f[p] >= 0
    BY <1>1
  <2>2. /\ IsFiniteSet(1 .. PromotePerCycle)
        /\ Cardinality(1 .. PromotePerCycle) = IF 1 > PromotePerCycle THEN 0 ELSE PromotePerCycle - 1 + 1
    BY <2>1, FS_Interval
  <2>3. IsFiniteSet(1 .. f[p]) /\ Cardinality(1 .. f[p]) = IF 1 > f[p] THEN 0 ELSE f[p] - 1 + 1
    BY <2>1, FS_Interval
  <2> QED
    BY <1>1, <2>1, <2>2, <2>3
<1>4. IsFiniteSet(others) /\ Cardinality(others) = (Cardinality(Cycles) - 1) * PromotePerCycle
  <2>1. ASSUME NEW S, NEW T, IsFiniteSet(S), IsFiniteSet(T)
        PROVE  IsFiniteSet(S \X T) /\ Cardinality(S \X T) = Cardinality(S) * Cardinality(T)
    BY <2>1, FS_Product
  <2>2. IsFiniteSet(others) /\ Cardinality(others) = Cardinality(Cycles \ {p}) * Cardinality(1 .. PromotePerCycle)
    BY <1>2, <1>3, <2>1
  <2> QED
    BY <1>2, <1>3, <2>2
<1>5. rest \subseteq others
  <2> SUFFICES ASSUME NEW x \in rest PROVE x \in others
    OBVIOUS
  <2>1. x \in Cycles \X (1 .. PromotePerCycle) /\ x[2] <= [f EXCEPT ![p] = 0][x[1]]
    BY DEF Tokens
  <2>2. x[1] # p
    BY <1>1, <2>1
  <2> QED
    BY <2>1, <2>2
<1>6. IsFiniteSet(rest) /\ Cardinality(rest) <= Cardinality(others) /\ Cardinality(rest) \in Nat
  BY <1>4, <1>5, FS_Subset, FS_CardinalityType
<1>7. IsFiniteSet(own) /\ Cardinality(own) = f[p]
  <2>1. IsFiniteSet({p}) /\ Cardinality({p}) = 1
    BY FS_Singleton
  <2>2. ASSUME NEW S, NEW T, IsFiniteSet(S), IsFiniteSet(T)
        PROVE  IsFiniteSet(S \X T) /\ Cardinality(S \X T) = Cardinality(S) * Cardinality(T)
    BY <2>2, FS_Product
  <2>3. IsFiniteSet(own) /\ Cardinality(own) = Cardinality({p}) * Cardinality(1 .. f[p])
    BY <1>3, <2>1, <2>2
  <2> QED
    BY <1>1, <1>3, <2>1, <2>3
<1>8. Tokens(f) = rest \cup own /\ rest \cap own = {}
  <2>1. ASSUME NEW x \in Cycles \X (1 .. PromotePerCycle), x[1] # p
        PROVE  (x \in Tokens(f) <=> x \in rest) /\ x \notin own
    BY <2>1 DEF Tokens
  <2>2. ASSUME NEW x \in Cycles \X (1 .. PromotePerCycle), x[1] = p
        PROVE  (x \in Tokens(f) <=> x \in own) /\ x \notin rest
    BY <1>1, <2>2 DEF Tokens
  <2>3. own \subseteq Cycles \X (1 .. PromotePerCycle)
    BY <1>1
  <2>4. Tokens(f) \subseteq Cycles \X (1 .. PromotePerCycle) /\ rest \subseteq Cycles \X (1 .. PromotePerCycle)
    BY DEF Tokens
  <2> QED
    BY <2>1, <2>2, <2>3, <2>4
<1>9. Cardinality({}) = 0
  BY FS_EmptySet
<1>10. Cardinality(Tokens(f)) = Cardinality(rest) + Cardinality(own) - 0
  <2> HIDE DEF rest, own
  <2>1. Cardinality(rest \cup own) = Cardinality(rest) + Cardinality(own) - Cardinality(rest \cap own)
    BY <1>6, <1>7, FS_Union
  <2> QED
    BY <1>8, <1>9, <2>1
<1> HIDE DEF rest, own, others
<1>11. Cardinality(Tokens(f)) = Cardinality(rest) + f[p]
  BY <1>1, <1>6, <1>7, <1>10
<1> QED
  BY <1>4, <1>6, <1>11 DEF rest

\* A cycle that does not take more than it might, or takes what there is room for.
LEMMA RoomMoves ==
    ASSUME BoundInv, NEW p \in Cycles, NEW c, cycles' = [cycles EXCEPT ![p] = c],
           Promise(c) \in 0 .. PromotePerCycle, IsFiniteSet(Candidates'),
           \/ Cardinality(Candidates') + Promise(c) <= Cardinality(Candidates) + Promise(cycles[p])
           \/ Cardinality(Candidates') + Promise(c) <= MaxCandidates
    PROVE  /\ Promises' \in [Cycles -> 0 .. PromotePerCycle]
           /\ Cardinality(Candidates') + Cardinality(Tokens(Promises'))
                <= MaxCandidates + (Cardinality(Cycles) - 1) * PromotePerCycle
<1>1. cycles \in [Cycles -> CycleStates] /\ Promises \in [Cycles -> 0 .. PromotePerCycle]
  BY DEF BoundInv, SearchInv, SearchTyped
<1>2. Promises' = [Promises EXCEPT ![p] = Promise(c)] /\ Promises[p] = Promise(cycles[p])
  <2>1. \A q \in Cycles : cycles'[q] = IF q = p THEN c ELSE cycles[q]
    BY <1>1
  <2>2. Promises' = [q \in Cycles |-> Promise(cycles'[q])]
    BY DEF Promises, Promise
  <2> QED
    BY <1>1, <2>1, <2>2 DEF Promises
<1>3. Promises' \in [Cycles -> 0 .. PromotePerCycle] /\ Promises'[p] = Promise(c)
  BY <1>1, <1>2
<1> DEFINE k == Cardinality(Tokens([Promises EXCEPT ![p] = 0]))
           most == (Cardinality(Cycles) - 1) * PromotePerCycle
<1>4. k \in Nat /\ k <= most /\ Cardinality(Tokens(Promises)) = k + Promise(cycles[p])
  BY <1>1, <1>2, OnePromise
<1>5. Cardinality(Tokens(Promises')) = k + Promise(c)
  <2>1. [Promises' EXCEPT ![p] = 0] = [Promises EXCEPT ![p] = 0]
    BY <1>1, <1>2
  <2> HIDE DEF k
  <2>2. Cardinality(Tokens(Promises')) = Cardinality(Tokens([Promises' EXCEPT ![p] = 0])) + Promises'[p]
    BY <1>3, OnePromise
  <2> QED
    BY <1>3, <2>1, <2>2 DEF k
<1>6. Cardinality(Candidates) + Cardinality(Tokens(Promises)) <= MaxCandidates + most
  BY DEF BoundInv
<1>7. /\ Cardinality(Candidates) \in Nat /\ Cardinality(Candidates') \in Nat /\ MaxCandidates \in Nat
      /\ Promise(c) \in Nat /\ Promise(cycles[p]) \in Nat /\ most \in Int
  <2>1. Promise(cycles[p]) \in 0 .. PromotePerCycle
    BY <1>1, <1>2
  <2> QED
    BY <2>1, CandidatesFinite, FS_CardinalityType, WatchlistAssumption
<1> HIDE DEF k, most
<1>8. Cardinality(Candidates') + Cardinality(Tokens(Promises')) <= MaxCandidates + most
  BY <1>4, <1>5, <1>6, <1>7
<1> QED
  BY <1>3, <1>8 DEF most

\* A cycle that asks for no place it did not, that found one empty, or that takes the one it asked for.
LEMMA PlacesMove ==
    ASSUME BoundInv, NEW p \in Cycles, NEW c, cycles' = [cycles EXCEPT ![p] = c], NEW h \in Hypotheses,
           \/ PlacesOf(h)' = PlacesOf(h) /\ (Asks(c, h) => Asks(cycles[p], h))
           \/ PlacesOf(h)' = {}
           \/ Asks(cycles[p], h) /\ ~Asks(c, h) /\ \E t : PlacesOf(h)' = PlacesOf(h) \cup {t}
    PROVE  Cardinality(PlacesOf(h)') + Cardinality(Asking(h)') <= Cardinality(Cycles)
<1>1. \A q \in Cycles : cycles'[q] = IF q = p THEN c ELSE cycles[q]
  BY DEF BoundInv, SearchInv, SearchTyped
<1>2. Asking(h)' = {q \in Cycles : Asks(cycles'[q], h)}
  BY DEF Asking, Asks
<1>3. Cardinality(PlacesOf(h)) + Cardinality(Asking(h)) <= Cardinality(Cycles)
  BY DEF BoundInv
<1>4. /\ IsFiniteSet(PlacesOf(h)) /\ Cardinality(PlacesOf(h)) \in Nat
      /\ IsFiniteSet(Asking(h)) /\ Cardinality(Asking(h)) \in Nat /\ Cardinality(Cycles) \in Nat
  BY CandidatesFinite
<1>5. Asking(h)' \subseteq Cycles /\ IsFiniteSet(Asking(h)')
      /\ Cardinality(Asking(h)') \in Nat /\ Cardinality(Asking(h)') <= Cardinality(Cycles)
  <2>1. Asking(h)' \subseteq Cycles /\ IsFiniteSet(Cycles)
    BY <1>2, WatchlistAssumption
  <2> QED
    BY <2>1, FS_Subset, FS_CardinalityType
<1>6. CASE PlacesOf(h)' = PlacesOf(h) /\ (Asks(c, h) => Asks(cycles[p], h))
  <2>1. Asking(h)' \subseteq Asking(h)
    BY <1>1, <1>2, <1>6 DEF Asking
  <2>2. Cardinality(Asking(h)') <= Cardinality(Asking(h))
    BY <1>4, <2>1, FS_Subset
  <2> QED
    BY <1>3, <1>4, <1>5, <1>6, <2>2
<1>7. CASE PlacesOf(h)' = {}
  BY <1>4, <1>5, <1>7, FS_EmptySet
<1>8. CASE Asks(cycles[p], h) /\ ~Asks(c, h) /\ \E t : PlacesOf(h)' = PlacesOf(h) \cup {t}
  <2>1. Asking(h)' = Asking(h) \ {p} /\ p \in Asking(h)
    BY <1>1, <1>2, <1>8 DEF Asking
  <2>2. Cardinality(Asking(h)') = Cardinality(Asking(h)) - 1
    BY <1>4, <2>1, FS_RemoveElement
  <2>3. PICK t : PlacesOf(h)' = PlacesOf(h) \cup {t}
    BY <1>8
  <2>4. Cardinality(PlacesOf(h)') = IF t \in PlacesOf(h) THEN Cardinality(PlacesOf(h)) ELSE Cardinality(PlacesOf(h)) + 1
    BY <1>4, <2>3, FS_AddElement
  <2> QED
    BY <1>3, <1>4, <2>2, <2>4
<1> QED
  BY <1>6, <1>7, <1>8

LEMMA AddsOnceMoves ==
    ASSUME BoundInv, NEW p \in Cycles, NEW c, cycles' = [cycles EXCEPT ![p] = c],
           \A t \in c.added : HypothesisOf[t] \in c.taken,
           \A t, u \in c.added : HypothesisOf[t] = HypothesisOf[u] => t = u
    PROVE  AddsOnce'
<1>1. \A q \in Cycles : cycles'[q] = IF q = p THEN c ELSE cycles[q]
  BY DEF BoundInv, SearchInv, SearchTyped
<1> QED
  BY <1>1 DEF AddsOnce, BoundInv

\* A step that leaves the watchlist alone, by a cycle that does not promote or no longer does.
LEMMA QuietBoundStep ==
    ASSUME BoundInv, SearchInv', NEW p \in Cycles, NEW c, cycles' = [cycles EXCEPT ![p] = c],
           c.at # "promoting", c.added = {}, watchlist' = watchlist
    PROVE  BoundInv'
<1>1. Candidates' = Candidates /\ \A h : PlacesOf(h)' = PlacesOf(h)
  BY DEF Candidates, PlacesOf
<1>2. Promise(c) = 0 /\ \A h : ~Asks(c, h)
  BY DEF Promise, Asks
<1>3. Promise(c) \in 0 .. PromotePerCycle /\ Promise(cycles[p]) \in 0 .. PromotePerCycle
  BY <1>2, WatchlistAssumption DEF BoundInv, Promises
<1>4. Cardinality(Candidates) + Promise(c) <= Cardinality(Candidates) + Promise(cycles[p])
  BY <1>2, <1>3, CandidatesFinite, WatchlistAssumption
<1>5. /\ Promises' \in [Cycles -> 0 .. PromotePerCycle]
      /\ Cardinality(Candidates') + Cardinality(Tokens(Promises'))
           <= MaxCandidates + (Cardinality(Cycles) - 1) * PromotePerCycle
  BY <1>1, <1>3, <1>4, CandidatesFinite, RoomMoves
<1>6. \A h \in Hypotheses : Cardinality(PlacesOf(h)') + Cardinality(Asking(h)') <= Cardinality(Cycles)
  BY <1>1, <1>2, PlacesMove
<1>7. AddsOnce'
  BY AddsOnceMoves
<1>8. Hypotheses' = Hypotheses /\ \A h : PlacesOf(h)' = PlacesOf(h)' /\ Tokens(Promises)' = Tokens(Promises')
  BY DEF Hypotheses, Tokens
<1> QED
  BY <1>5, <1>6, <1>7, <1>8 DEF BoundInv

LEMMA SearchEndsBound ==
    ASSUME BoundInv, SearchInv', NEW p \in Cycles, SearchEnds(p)
    PROVE  BoundInv'
<1> DEFINE taken == {HypothesisOf[t] : t \in Candidates}
           c == [Idle EXCEPT !.at = "promoting", !.known = trials \cup cycles[p].wrote, !.now = searchDay,
                             !.budget = Budget, !.taken = taken]
<1>1. cycles' = [cycles EXCEPT ![p] = c] /\ watchlist' = watchlist /\ cycles[p].at = "searching"
  BY DEF SearchEnds
<1>2. c.at = "promoting" /\ c.added = {} /\ c.budget = Budget /\ c.taken = taken
  BY DEF Idle
<1> HIDE DEF c
<1>3. Candidates' = Candidates /\ \A h : PlacesOf(h)' = PlacesOf(h)
  BY <1>1 DEF Candidates, PlacesOf
<1>4. Promise(c) = (IF Budget > 0 THEN Budget ELSE 0) /\ Promise(cycles[p]) = 0
  BY <1>1, <1>2, FS_EmptySet, BudgetIsInt DEF Promise
<1>5. Budget <= PromotePerCycle /\ Budget <= MaxCandidates - Cardinality(Candidates)
  BY CandidatesFinite, WatchlistAssumption DEF Budget, LesserOf
<1>6. /\ Promise(c) \in 0 .. PromotePerCycle
      /\ \/ Cardinality(Candidates) + Promise(c) <= Cardinality(Candidates) + Promise(cycles[p])
         \/ Cardinality(Candidates) + Promise(c) <= MaxCandidates
  BY <1>4, <1>5, BudgetIsInt, CandidatesFinite, WatchlistAssumption
<1>7. /\ Promises' \in [Cycles -> 0 .. PromotePerCycle]
      /\ Cardinality(Candidates') + Cardinality(Tokens(Promises'))
           <= MaxCandidates + (Cardinality(Cycles) - 1) * PromotePerCycle
  BY <1>1, <1>3, <1>6, CandidatesFinite, RoomMoves
<1>8. \A h \in Hypotheses : PlacesOf(h) = {} \/ ~Asks(c, h)
  BY <1>2 DEF PlacesOf, Asks
<1>9. \A h \in Hypotheses : Cardinality(PlacesOf(h)') + Cardinality(Asking(h)') <= Cardinality(Cycles)
  BY <1>1, <1>3, <1>8, PlacesMove
<1>10. AddsOnce'
  BY <1>1, <1>2, AddsOnceMoves
<1>11. Hypotheses' = Hypotheses /\ Tokens(Promises)' = Tokens(Promises')
  BY DEF Hypotheses, Tokens
<1> QED
  BY <1>7, <1>9, <1>10, <1>11 DEF BoundInv

LEMMA PaperAddBound ==
    ASSUME BoundInv, SearchInv', NEW p \in Cycles, NEW t \in Trials, PaperAdd(p, t)
    PROVE  BoundInv'
<1> DEFINE old == cycles[p]
           added == old.added \cup ({t} \ Candidates)
           taken == old.taken \cup {HypothesisOf[t]}
           c == [old EXCEPT !.budget = @ - 1, !.added = added, !.taken = taken]
<1>1. /\ cycles' = [cycles EXCEPT ![p] = c] /\ watchlist' = watchlist
      /\ old.at = "promoting" /\ old.budget > 0 /\ HypothesisOf[t] \notin old.taken
  BY DEF PaperAdd
<1>2. old \in CycleStates
  BY DEF BoundInv, SearchInv, SearchTyped
<1>3. c.at = "promoting" /\ c.added = added /\ c.budget = old.budget - 1 /\ c.taken = taken
  BY <1>1, <1>2 DEF CycleStates
<1>4. IsFiniteSet(old.added) /\ Cardinality(old.added) \in Nat /\ old.budget \in Int
  <2>1. old.added \subseteq Trials /\ IsFiniteSet(Trials) /\ old.budget \in Int
    BY <1>2, WatchlistAssumption DEF CycleStates
  <2> QED
    BY <2>1, FS_Subset, FS_CardinalityType
<1>5. Cardinality(added) \in Nat /\ Cardinality(added) <= Cardinality(old.added) + 1
  <2>1. added = old.added \/ added = old.added \cup {t}
    OBVIOUS
  <2> HIDE DEF old, added
  <2>2. /\ IsFiniteSet(old.added \cup {t})
        /\ Cardinality(old.added \cup {t})
             = IF t \in old.added THEN Cardinality(old.added) ELSE Cardinality(old.added) + 1
    BY <1>4, FS_AddElement
  <2>3. IsFiniteSet(added)
    BY <1>4, <2>1, <2>2
  <2>4. Cardinality(added) \in Nat
    BY <2>3, FS_CardinalityType
  <2>5. Cardinality(added) \in {Cardinality(old.added), Cardinality(old.added) + 1}
    BY <2>1, <2>2
  <2> QED
    BY <1>4, <2>4, <2>5
<1> HIDE DEF c
<1>6. Candidates' = Candidates /\ \A h : PlacesOf(h)' = PlacesOf(h)
  BY <1>1 DEF Candidates, PlacesOf
<1>7. /\ Promise(c) = Cardinality(added) + (IF old.budget - 1 > 0 THEN old.budget - 1 ELSE 0)
      /\ Promise(old) = Cardinality(old.added) + old.budget
  BY <1>1, <1>3 DEF Promise
<1>8. Promise(old) \in 0 .. PromotePerCycle
  BY DEF BoundInv, Promises
<1>9. Promise(c) \in 0 .. PromotePerCycle /\ Promise(c) <= Promise(old)
  <2> HIDE DEF added, old
  <2> QED
    BY <1>1, <1>4, <1>5, <1>7, <1>8, WatchlistAssumption
<1>10. Cardinality(Candidates) + Promise(c) <= Cardinality(Candidates) + Promise(old)
  BY <1>8, <1>9, CandidatesFinite, WatchlistAssumption
<1>11. /\ Promises' \in [Cycles -> 0 .. PromotePerCycle]
       /\ Cardinality(Candidates') + Cardinality(Tokens(Promises'))
            <= MaxCandidates + (Cardinality(Cycles) - 1) * PromotePerCycle
  BY <1>1, <1>6, <1>9, <1>10, CandidatesFinite, RoomMoves
<1>12. \A h \in Hypotheses : Asks(c, h) => Asks(old, h)
  BY <1>1, <1>3 DEF Asks
<1>13. \A h \in Hypotheses : Cardinality(PlacesOf(h)') + Cardinality(Asking(h)') <= Cardinality(Cycles)
  BY <1>1, <1>6, <1>12, PlacesMove
<1>14. AddsOnce'
  <2>1. \A u \in old.added : HypothesisOf[u] \in old.taken
    BY DEF BoundInv, AddsOnce
  <2>2. \A u, v \in old.added : HypothesisOf[u] = HypothesisOf[v] => u = v
    BY DEF BoundInv, AddsOnce
  <2>3. \A u \in c.added : HypothesisOf[u] \in c.taken
    BY <1>3, <2>1
  <2>4. \A u, v \in c.added : HypothesisOf[u] = HypothesisOf[v] => u = v
    BY <1>1, <1>3, <2>1, <2>2
  <2> QED
    BY <1>1, <2>3, <2>4, AddsOnceMoves
<1>15. Hypotheses' = Hypotheses /\ Tokens(Promises)' = Tokens(Promises')
  BY DEF Hypotheses, Tokens
<1> QED
  BY <1>11, <1>13, <1>14, <1>15 DEF BoundInv

LEMMA PromoteEndsBound ==
    ASSUME BoundInv, SearchInv', NEW p \in Cycles, PromoteEnds(p)
    PROVE  BoundInv'
<1> DEFINE old == cycles[p]
           c == [Idle EXCEPT !.at = "scoring"]
<1>1. /\ cycles' = [cycles EXCEPT ![p] = c] /\ old.at = "promoting"
      /\ watchlist' = [t \in Trials |-> IF t \in old.added THEN old.now ELSE watchlist[t]]
  BY DEF PromoteEnds
<1>2. c.at = "scoring" /\ c.added = {}
  BY DEF Idle
<1> HIDE DEF c
<1>3. old.added \subseteq Trials /\ old.now # NotPromoted /\ old.budget \in Int
  BY <1>1 DEF BoundInv, SearchInv, SearchTyped, CycleStates, PlacesAreOwned
<1>4. Candidates' = Candidates \cup old.added
  BY <1>1, <1>3 DEF Candidates
<1>5. IsFiniteSet(old.added) /\ Cardinality(old.added) \in Nat
  BY <1>3, WatchlistAssumption, FS_Subset, FS_CardinalityType
<1>6. IsFiniteSet(Candidates') /\ Cardinality(Candidates') \in Nat
      /\ Cardinality(Candidates') <= Cardinality(Candidates) + Cardinality(old.added)
  <2> HIDE DEF old
  <2>1. /\ IsFiniteSet(Candidates \cup old.added)
        /\ Cardinality(Candidates \cup old.added)
             = Cardinality(Candidates) + Cardinality(old.added) - Cardinality(Candidates \cap old.added)
    BY <1>5, CandidatesFinite, FS_Union
  <2>2. IsFiniteSet(Candidates \cap old.added) /\ Cardinality(Candidates \cap old.added) \in Nat
    BY CandidatesFinite, FS_Intersection, FS_CardinalityType
  <2> QED
    BY <1>4, <1>5, <2>1, <2>2, CandidatesFinite, FS_CardinalityType
<1>7. Promise(c) = 0 /\ Promise(old) >= Cardinality(old.added) /\ \A h : ~Asks(c, h)
  BY <1>1, <1>2, <1>3, <1>5 DEF Promise, Asks
<1>8. Promise(old) \in 0 .. PromotePerCycle /\ Promise(c) \in 0 .. PromotePerCycle
  BY <1>7, WatchlistAssumption DEF BoundInv, Promises
<1>9. Cardinality(Candidates') + Promise(c) <= Cardinality(Candidates) + Promise(old)
  <2> HIDE DEF old
  <2> QED
    BY <1>5, <1>6, <1>7, <1>8, CandidatesFinite, WatchlistAssumption
<1>10. /\ Promises' \in [Cycles -> 0 .. PromotePerCycle]
       /\ Cardinality(Candidates') + Cardinality(Tokens(Promises'))
            <= MaxCandidates + (Cardinality(Cycles) - 1) * PromotePerCycle
  BY <1>1, <1>6, <1>8, <1>9, RoomMoves
<1>11. ASSUME NEW h \in Hypotheses
       PROVE  Cardinality(PlacesOf(h)') + Cardinality(Asking(h)') <= Cardinality(Cycles)
  <2>1. PlacesOf(h)' = PlacesOf(h) \cup {u \in old.added : HypothesisOf[u] = h}
    BY <1>4 DEF PlacesOf
  <2>2. CASE \E t \in old.added : HypothesisOf[t] = h
    <3>1. PICK t \in old.added : HypothesisOf[t] = h
      BY <2>2
    <3>2. \A u, v \in old.added : HypothesisOf[u] = HypothesisOf[v] => u = v
      BY DEF BoundInv, AddsOnce
    <3>3. {u \in old.added : HypothesisOf[u] = h} = {t}
      BY <3>1, <3>2
    <3>4. Asks(old, h)
      BY <1>1, <3>1 DEF Asks
    <3>5. PlacesOf(h)' = PlacesOf(h) \cup {t}
      BY <2>1, <3>3
    <3> QED
      BY <1>1, <1>7, <3>4, <3>5, PlacesMove
  <2>3. CASE ~\E t \in old.added : HypothesisOf[t] = h
    <3>1. PlacesOf(h)' = PlacesOf(h)
      BY <2>1, <2>3
    <3> QED
      BY <1>1, <1>7, <3>1, PlacesMove
  <2> QED
    BY <2>2, <2>3
<1>12. AddsOnce'
  BY <1>1, <1>2, AddsOnceMoves
<1>13. Hypotheses' = Hypotheses /\ Tokens(Promises)' = Tokens(Promises')
  BY DEF Hypotheses, Tokens
<1> QED
  BY <1>10, <1>11, <1>12, <1>13 DEF BoundInv

LEMMA BoundStep == BoundInv /\ [WatchlistNext]_searchVars => BoundInv'
<1> SUFFICES ASSUME BoundInv, [WatchlistNext]_searchVars PROVE BoundInv'
  OBVIOUS
<1>0. SearchInv'
  BY SearchStep DEF BoundInv
<1>1. CASE SearchDayPasses \/ (\E f \in Files : Update(f)) \/ UNCHANGED searchVars
  <2>1. UNCHANGED <<watchlist, cycles>>
    BY <1>1 DEF SearchDayPasses, Update, searchVars
  <2>2. Candidates' = Candidates /\ Promises' = Promises
    BY <2>1 DEF Candidates, Promises, Promise
  <2>3. \A h : PlacesOf(h)' = PlacesOf(h) /\ Asking(h)' = Asking(h)
    BY <2>1, <2>2 DEF PlacesOf, Asking, Asks
  <2>4. Tokens(Promises)' = Tokens(Promises) /\ Hypotheses' = Hypotheses /\ (AddsOnce' <=> AddsOnce)
    BY <2>1, <2>2 DEF Tokens, Hypotheses, AddsOnce
  <2> QED
    BY <1>0, <2>2, <2>3, <2>4 DEF BoundInv
<1>2. ASSUME NEW p \in Cycles, CycleBegins(p) \/ PaperAll(p) \/ Stamp(p) \/ ScoreEnds(p) \/ CycleFails(p)
      PROVE  BoundInv'
  <2> DEFINE Apart(c) == c.at # "promoting" /\ c.added = {}
  <2>1. PICK c : cycles' = [cycles EXCEPT ![p] = c] /\ Apart(c)
    <3>1. CASE CycleBegins(p)
      <4>1. Apart([Idle EXCEPT !.at = "scoring"])
        BY DEF Idle
      <4>2. Apart([Idle EXCEPT !.at = "searching", !.known = trials])
        BY DEF Idle
      <4> HIDE DEF Apart
      <4> QED
        BY <3>1, <4>1, <4>2 DEF CycleBegins
    <3>2. CASE PaperAll(p)
      <4>1. Apart([Idle EXCEPT !.at = "loading", !.known = Candidates, !.now = searchDay])
        BY DEF Idle
      <4> HIDE DEF Apart
      <4> QED
        BY <3>2, <4>1 DEF PaperAll
    <3>3. CASE Stamp(p)
      <4>1. PICK rows : cycles' = [cycles EXCEPT ![p] = [Idle EXCEPT !.at = "scored", !.rows = rows]]
        BY <3>3 DEF Stamp
      <4>2. Apart([Idle EXCEPT !.at = "scored", !.rows = rows])
        BY DEF Idle
      <4> HIDE DEF Apart
      <4> QED
        BY <4>1, <4>2
    <3>4. CASE ScoreEnds(p) \/ CycleFails(p)
      <4>1. Apart(Idle)
        BY DEF Idle
      <4> HIDE DEF Apart
      <4> QED
        BY <3>4, <4>1 DEF ScoreEnds, CycleFails
    <3> QED
      BY <1>2, <3>1, <3>2, <3>3, <3>4
  <2>2. watchlist' = watchlist
    BY <1>2 DEF CycleBegins, PaperAll, Stamp, ScoreEnds, CycleFails, Nobodys
  <2> QED
    BY <1>0, <2>1, <2>2, QuietBoundStep
<1>7. ASSUME NEW p \in Cycles, NEW f \in Files, Load(p, f) PROVE BoundInv'
  <2> DEFINE c == [cycles[p] EXCEPT !.read = [cycles[p].read EXCEPT ![f] = files[f]]]
  <2>1. /\ cycles' = [cycles EXCEPT ![p] = c] /\ cycles[p].at = "loading" /\ watchlist' = watchlist
    BY <1>7 DEF Load
  <2>2. cycles[p] \in CycleStates /\ cycles[p].added = {}
    BY <2>1 DEF BoundInv, SearchInv, SearchTyped, PlacesAreOwned
  <2>3. c.at # "promoting" /\ c.added = {}
    BY <2>1, <2>2 DEF CycleStates
  <2> HIDE DEF c
  <2> QED
    BY <1>0, <2>1, <2>3, QuietBoundStep
<1>3. ASSUME NEW p \in Cycles, NEW t \in Trials, Record(p, t) PROVE BoundInv'
  <2>1. PICK known, wrote, done :
            cycles' = [cycles EXCEPT ![p] = [cycles[p] EXCEPT !.known = known, !.wrote = wrote, !.done = done]]
    BY <1>3 DEF Record
  <2> DEFINE c == [cycles[p] EXCEPT !.known = known, !.wrote = wrote, !.done = done]
  <2>2. cycles[p] \in CycleStates /\ cycles[p].at = "searching" /\ cycles[p].added = {}
    BY <1>3 DEF Record, BoundInv, SearchInv, SearchTyped, PlacesAreOwned
  <2>3. c.at # "promoting" /\ c.added = {}
    <3> DEFINE c1 == [cycles[p] EXCEPT !.known = known]
               c2 == [c1 EXCEPT !.wrote = wrote]
    <3>1. cycles[p] = [at |-> cycles[p].at, known |-> cycles[p].known, done |-> cycles[p].done,
                       wrote |-> cycles[p].wrote, added |-> cycles[p].added, budget |-> cycles[p].budget,
                       taken |-> cycles[p].taken, now |-> cycles[p].now, read |-> cycles[p].read,
                       rows |-> cycles[p].rows]
      BY <2>2 DEF CycleStates
    <3>2. c1.at = "searching" /\ c1.added = {}
      BY <2>2, <3>1
    <3> HIDE DEF c1
    <3>3. c2.at = "searching" /\ c2.added = {}
      BY <3>2
    <3>4. c = [c2 EXCEPT !.done = done]
      BY DEF c1
    <3> HIDE DEF c2, c
    <3> QED
      BY <3>3, <3>4
  <2> HIDE DEF c
  <2>4. watchlist' = watchlist
    BY <1>3 DEF Record
  <2>5. cycles' = [cycles EXCEPT ![p] = c]
    BY <2>1 DEF c
  <2> QED
    BY <1>0, <2>3, <2>4, <2>5, QuietBoundStep
<1>4. ASSUME NEW p \in Cycles, SearchEnds(p) PROVE BoundInv'
  BY <1>0, <1>4, SearchEndsBound
<1>5. ASSUME NEW p \in Cycles, NEW t \in Trials, PaperAdd(p, t) PROVE BoundInv'
  BY <1>0, <1>5, PaperAddBound
<1>6. ASSUME NEW p \in Cycles, PromoteEnds(p) PROVE BoundInv'
  BY <1>0, <1>6, PromoteEndsBound
<1> QED
  BY <1>1, <1>2, <1>3, <1>4, <1>5, <1>6, <1>7 DEF WatchlistNext

LEMMA BoundInitially == WatchlistInit => BoundInv
<1> SUFFICES ASSUME WatchlistInit PROVE BoundInv
  OBVIOUS
<1>1. Candidates = {} /\ \A h : PlacesOf(h) = {}
  BY DEF WatchlistInit, Candidates, PlacesOf
<1>2. \A p \in Cycles : cycles[p] = Idle /\ cycles[p].at = "idle" /\ cycles[p].added = {}
  BY DEF WatchlistInit, Idle
<1>3. Promises = [p \in Cycles |-> 0] /\ Promises \in [Cycles -> 0 .. PromotePerCycle]
  BY <1>2, WatchlistAssumption DEF Promises, Promise
<1>4. Tokens(Promises) = {}
  BY <1>3 DEF Tokens
<1>5. Cardinality({}) = 0
  BY FS_EmptySet
<1>6. (Cardinality(Cycles) - 1) * PromotePerCycle \in Nat
  <2>1. Cardinality(Cycles) - 1 \in Nat /\ PromotePerCycle \in Nat
    BY CandidatesFinite, WatchlistAssumption
  <2> QED
    BY <2>1
<1>7. 0 + 0 <= MaxCandidates + (Cardinality(Cycles) - 1) * PromotePerCycle
  BY <1>6, WatchlistAssumption
<1>8. AddsOnce
  BY <1>2 DEF AddsOnce
<1>9. \A h \in Hypotheses : Cardinality(PlacesOf(h)) + Cardinality(Asking(h)) <= Cardinality(Cycles)
  BY <1>1, <1>5, CandidatesFinite
<1> QED
  BY <1>1, <1>3, <1>4, <1>5, <1>7, <1>8, <1>9, SearchInvInitially DEF BoundInv

LEMMA BoundHolds == BoundInv => WatchlistIsBounded
<1> SUFFICES ASSUME BoundInv PROVE WatchlistIsBounded
  OBVIOUS
<1>1. Cardinality(Tokens(Promises)) \in Nat
  <2>1. PICK p \in Cycles : TRUE
    BY WatchlistAssumption
  <2>2. Promises \in [Cycles -> 0 .. PromotePerCycle] /\ Promises[p] \in Nat
    BY DEF BoundInv
  <2> DEFINE k == Cardinality(Tokens([Promises EXCEPT ![p] = 0]))
  <2>3. k \in Nat /\ Cardinality(Tokens(Promises)) = k + Promises[p]
    BY <2>2, OnePromise
  <2> HIDE DEF k
  <2> QED
    BY <2>2, <2>3
<1>2. (Cardinality(Cycles) - 1) * PromotePerCycle \in Int
  BY CandidatesFinite, WatchlistAssumption
<1>3. Cardinality(Candidates) <= MaxCandidates + (Cardinality(Cycles) - 1) * PromotePerCycle
  BY <1>1, <1>2, CandidatesFinite, WatchlistAssumption DEF BoundInv
<1>4. ASSUME NEW t \in Candidates
      PROVE  Cardinality({u \in Candidates : HypothesisOf[u] = HypothesisOf[t]}) <= Cardinality(Cycles)
  <2>1. HypothesisOf[t] \in Hypotheses
    BY DEF Hypotheses, Candidates
  <2>2. Cardinality(PlacesOf(HypothesisOf[t])) + Cardinality(Asking(HypothesisOf[t])) <= Cardinality(Cycles)
    BY <2>1 DEF BoundInv
  <2>3. Cardinality(PlacesOf(HypothesisOf[t])) <= Cardinality(Cycles)
    BY <2>2, CandidatesFinite
  <2> QED
    BY <2>3 DEF PlacesOf
<1> QED
  BY <1>3, <1>4 DEF WatchlistIsBounded

\* The watchlist is bounded, for any number of cycles that run together, and its evidence stands: each
\* cycle but one may exceed the limit by what it promotes, and take a hypothesis' place again
\* (research/search.py, paper.py).
THEOREM WatchlistHoldsHolds == WatchlistSpec => WatchlistHolds
BY BoundInitially, BoundStep, BoundHolds, EvidenceStandsHolds, PTL DEF WatchlistSpec, WatchlistHolds

-----------------------------------------------------------------------------
\* What is scored on the bars.

LEMMA FiniteImage ==
    ASSUME NEW S, IsFiniteSet(S), NEW f, DOMAIN f = S, f = [x \in S |-> f[x]]
    PROVE  IsFiniteSet({f[x] : x \in S})
<1>1. f \in Surjection(S, {f[x] : x \in S})
  BY DEF Surjection
<1> QED
  BY <1>1, FS_Surjection

\* And a smallest: the largest of its opposites.
LEMMA FiniteMin ==
    ASSUME NEW S \in SUBSET Int, IsFiniteSet(S), S # {}
    PROVE  Min(S) \in S /\ \A s \in S : Min(S) <= s
<1> DEFINE f == [s \in S |-> 0 - s]
           T == {f[s] : s \in S}
<1>1. IsFiniteSet(T) /\ T \in SUBSET Int /\ T # {}
  <2>1. DOMAIN f = S /\ f = [s \in S |-> f[s]]
    OBVIOUS
  <2>2. IsFiniteSet(T)
    BY <2>1, FiniteImage
  <2>3. \A s \in S : f[s] \in Int
    OBVIOUS
  <2>4. T \in SUBSET Int
    BY <2>3
  <2>5. PICK s \in S : TRUE
    OBVIOUS
  <2>6. f[s] \in T
    BY <2>5
  <2> QED
    BY <2>2, <2>4, <2>6
<1>2. Max(T) \in T /\ \A t \in T : t <= Max(T)
  BY <1>1, FiniteMax
<1>3. PICK m \in S : Max(T) = 0 - m
  BY <1>2
<1>4. ASSUME NEW s \in S PROVE m <= s
  <2>1. 0 - s <= 0 - m
    BY <1>2, <1>3
  <2>2. s \in Int /\ m \in Int
    OBVIOUS
  <2> HIDE DEF f, T
  <2> QED
    BY <2>1, <2>2
<1> QED
  BY <1>4 DEF Min

LEMMA TwoExtremes ==
    ASSUME NEW a \in Int, NEW b \in Int
    PROVE  /\ Min({a, b}) = IF a <= b THEN a ELSE b
           /\ Max({a, b}) = IF a <= b THEN b ELSE a
<1>1. {a, b} \in SUBSET Int /\ {a, b} # {} /\ IsFiniteSet({a, b})
  <2>1. {a, b} = {a} \cup {b} /\ IsFiniteSet({a})
    BY FS_Singleton
  <2> QED
    BY <2>1, FS_AddElement
<1> DEFINE S == {a, b}
<1>2. S \in SUBSET Int /\ S # {} /\ IsFiniteSet(S)
  BY <1>1
<1> HIDE DEF S
<1>3. Min(S) \in S /\ Max(S) \in S /\ \A s \in S : Min(S) <= s /\ s <= Max(S)
  BY <1>2, FiniteMin, FiniteMax
<1>4. Min({a, b}) \in {a, b} /\ Max({a, b}) \in {a, b}
      /\ Min({a, b}) <= a /\ Min({a, b}) <= b /\ a <= Max({a, b}) /\ b <= Max({a, b})
  BY <1>3 DEF S
<1> QED
  BY <1>4

\* The least of a set of days stays so when later ones join it.
LEMMA LeastStays ==
    ASSUME NEW n \in Nat, NEW S \in SUBSET (1 .. n), S # {}, NEW T, T \in {S, S \cup {n + 1}}
    PROVE  Min(T) = Min(S) /\ Min(S) \in S
<1>1. S \in SUBSET Int /\ T \in SUBSET Int /\ T # {}
  OBVIOUS
<1>2. IsFiniteSet(S) /\ IsFiniteSet(T)
  <2>1. IsFiniteSet(1 .. n)
    BY FS_Interval
  <2>2. IsFiniteSet(S)
    BY <2>1, FS_Subset
  <2> QED
    BY <2>2, FS_AddElement
<1>3. Min(S) \in S /\ \A s \in S : Min(S) <= s
  BY <1>1, <1>2, FiniteMin
<1>4. Min(T) \in T /\ \A s \in T : Min(T) <= s
  BY <1>1, <1>2, FiniteMin
<1>5. Min(T) <= Min(S)
  BY <1>3, <1>4
<1>6. Min(S) \in 1 .. n /\ Min(T) \in Int
  BY <1>1, <1>3, <1>4
<1>7. Min(T) \in S
  BY <1>4, <1>5, <1>6
<1> QED
  BY <1>1, <1>3, <1>5, <1>6, <1>7

-----------------------------------------------------------------------------
\* A score is final.

LEMMA TriggerStands ==
    ASSUME NEW s, NEW path \in Seq(DayBars), path # <<>>, NEW bar \in DayBars
    PROVE  LET t == TriggerBar(s, path) IN
           /\ t \in 0 .. Len(path)
           /\ t # 0 \/ Len(path) >= TriggerWindow => TriggerBar(s, Append(path, bar)) = t
<1> DEFINE n == Len(path)
           more == Append(path, bar)
           Reach(m) == Min({m, TriggerWindow})
           touches(bs, i) == AtOrBelow(s, Adverse(s, bs[i]), s.entry)
           old == {i \in 1 .. Reach(n) : touches(path, i)}
           new == {i \in 1 .. Reach(n + 1) : touches(more, i)}
<1>1. n \in Nat /\ n >= 1 /\ Len(more) = n + 1 /\ \A i \in 1 .. n : more[i] = path[i]
  OBVIOUS
<1>2. CASE s.setup = "continuation"
  BY <1>1, <1>2 DEF TriggerBar
<1>3. CASE s.setup # "continuation"
  <2>1. /\ TriggerBar(s, path) = IF old = {} THEN 0 ELSE Min(old)
        /\ TriggerBar(s, more) = IF new = {} THEN 0 ELSE Min(new)
    BY <1>1, <1>3 DEF TriggerBar
  <2>2. /\ Reach(n) = IF n <= TriggerWindow THEN n ELSE TriggerWindow
        /\ Reach(n + 1) = IF n + 1 <= TriggerWindow THEN n + 1 ELSE TriggerWindow
    <3>1. n \in Int /\ n + 1 \in Int /\ TriggerWindow \in Int
      BY <1>1, OutcomesAssumption
    <3> QED
      BY <3>1, TwoExtremes
  <2> HIDE DEF Reach
  <2>3. TriggerWindow \in Nat
    BY OutcomesAssumption
  <2>4. \A i \in 1 .. n : touches(more, i) <=> touches(path, i)
    BY <1>1
  <2> HIDE DEF touches
  <2>5. old \subseteq 1 .. n /\ new \in {old, old \cup {n + 1}}
    BY <1>1, <2>2, <2>3, <2>4
  <2>6. n >= TriggerWindow => new = old
    BY <1>1, <2>2, <2>3, <2>4
  <2> HIDE DEF old, new
  <2>7. old # {} => Min(new) = Min(old) /\ Min(old) \in old
    BY <1>1, <2>5, LeastStays
  <2>8. CASE old = {}
    BY <1>1, <2>1, <2>6, <2>8
  <2>9. CASE old # {}
    <3>1. Min(old) \in 1 .. n /\ new # {}
      BY <2>5, <2>7, <2>9
    <3> QED
      BY <2>1, <2>7, <2>9, <3>1
  <2> QED
    BY <2>8, <2>9
<1> QED
  BY <1>2, <1>3

LEMMA EndingsStand ==
    ASSUME NEW s, NEW path \in Seq(DayBars), NEW bar \in DayBars, NEW t \in 1 .. Len(path),
           Endings(s, path, t) # {}
    PROVE  LET j == Min(Endings(s, path, t)) IN
           /\ j \in Endings(s, path, t) /\ j \in t .. Len(path)
           /\ Endings(s, Append(path, bar), t) # {} /\ Min(Endings(s, Append(path, bar), t)) = j
<1> DEFINE n == Len(path)
           more == Append(path, bar)
           ends(bs, i) == StopHit(s, bs[i]) \/ TargetHit(s, bs[i], i = t) \/ i - t + 1 >= MaxHold
           old == {i \in t .. n : ends(path, i)}
           new == {i \in t .. (n + 1) : ends(more, i)}
<1>1. n \in Nat /\ t \in Nat /\ t >= 1 /\ Len(more) = n + 1 /\ \A i \in 1 .. n : more[i] = path[i]
  OBVIOUS
<1>2. Endings(s, path, t) = old /\ Endings(s, more, t) = new
  BY <1>1 DEF Endings
<1>3. \A i \in t .. n : ends(more, i) <=> ends(path, i)
  BY <1>1
<1> HIDE DEF ends
<1>4. old \subseteq 1 .. n /\ new \in {old, old \cup {n + 1}}
  BY <1>1, <1>3
<1>5. old \subseteq t .. n /\ old # {}
  BY <1>2
<1> HIDE DEF old, new
<1>6. Min(new) = Min(old) /\ Min(old) \in old
  BY <1>1, <1>4, <1>5, LeastStays
<1> QED
  BY <1>2, <1>4, <1>5, <1>6

LEMMA ScoreStands ==
    ASSUME NEW s, NEW path \in Seq(DayBars), NEW bar \in DayBars, Evaluate(s, path).outcome # "pending"
    PROVE  Evaluate(s, Append(path, bar)) = Evaluate(s, path)
<1> DEFINE more == Append(path, bar)
           t == TriggerBar(s, path)
<1>1. CASE s.entry = s.stop
  BY <1>1 DEF Evaluate
<1>2. CASE s.entry # s.stop
  <2>1. path # <<>>
    BY <1>2 DEF Evaluate, Pending
  <2>2. more # <<>> /\ Len(path) \in Nat /\ Len(more) = Len(path) + 1 /\ \A i \in 1 .. Len(path) : more[i] = path[i]
    BY <2>1
  <2>3. t \in 0 .. Len(path) /\ (t # 0 \/ Len(path) >= TriggerWindow => TriggerBar(s, more) = t)
    BY <2>1, TriggerStands
  <2> HIDE DEF t
  <2>4. CASE t = 0
    <3>1. Evaluate(s, path) = IF Len(path) >= TriggerWindow THEN [outcome |-> "untriggered"] ELSE Pending
      BY <1>2, <2>1, <2>4 DEF Evaluate, t
    <3>2. Len(path) >= TriggerWindow
      BY <3>1 DEF Pending
    <3>3. TriggerBar(s, more) = 0 /\ Len(more) >= TriggerWindow
      BY <2>2, <2>3, <2>4, <3>2, OutcomesAssumption
    <3> QED
      BY <1>2, <2>2, <3>1, <3>2, <3>3 DEF Evaluate
  <2>5. CASE t # 0
    <3>1. TriggerBar(s, more) = t /\ t \in 1 .. Len(path)
      BY <2>2, <2>3, <2>5
    <3>2. Endings(s, path, t) # {}
      BY <1>2, <2>1, <2>5 DEF Evaluate, t, Pending
    <3> DEFINE j == Min(Endings(s, path, t))
    <3>3. j \in t .. Len(path) /\ Endings(s, more, t) # {} /\ Min(Endings(s, more, t)) = j
      BY <3>1, <3>2, EndingsStand
    <3> HIDE DEF j
    <3>4. more[t] = path[t] /\ more[j] = path[j] /\ \A i \in t .. j : more[i] = path[i]
      BY <2>2, <3>1, <3>3
    <3>5. BestOf(s, more, t, j) = BestOf(s, path, t, j) /\ WorstOf(s, more, t, j) = WorstOf(s, path, t, j)
      BY <3>4 DEF BestOf, WorstOf
    <3>6. Evaluate(s, path)
            = LET exit == ExitOf(s, path[j], j = t)
              IN  [outcome |-> exit.outcome, on |-> j, fill |-> Fill(s, path[t]),
                   result |-> Dir(s) * (exit.price - Fill(s, path[t])),
                   best |-> BestOf(s, path, t, j), worst |-> WorstOf(s, path, t, j)]
      BY <1>2, <2>1, <2>5, <3>2 DEF Evaluate, t, j
    <3>7. Evaluate(s, more)
            = LET exit == ExitOf(s, more[j], j = t)
              IN  [outcome |-> exit.outcome, on |-> j, fill |-> Fill(s, more[t]),
                   result |-> Dir(s) * (exit.price - Fill(s, more[t])),
                   best |-> BestOf(s, more, t, j), worst |-> WorstOf(s, more, t, j)]
      BY <1>2, <2>2, <2>5, <3>1, <3>3 DEF Evaluate
    <3> QED
      BY <3>4, <3>5, <3>6, <3>7
  <2> QED
    BY <2>4, <2>5
<1> QED
  BY <1>1, <1>2

-----------------------------------------------------------------------------
\* A result is one the trade saw.

LEMMA WithinExtremes ==
    ASSUME NEW t \in Int, NEW j \in Int, NEW f \in [t .. j -> Int], NEW i \in t .. j
    PROVE  LET S == {f[k] : k \in t .. j} IN
           Min(S) \in Int /\ Max(S) \in Int /\ Min(S) <= f[i] /\ f[i] <= Max(S)
<1> DEFINE S == {f[k] : k \in t .. j}
<1>1. IsFiniteSet(S)
  <2>1. IsFiniteSet(t .. j)
    BY FS_Interval
  <2>2. DOMAIN f = t .. j /\ f = [k \in t .. j |-> f[k]]
    OBVIOUS
  <2> QED
    BY <2>1, <2>2, FiniteImage
<1>2. S \in SUBSET Int /\ f[i] \in S
  OBVIOUS
<1> HIDE DEF S
<1>3. Min(S) \in S /\ Max(S) \in S /\ Min(S) <= f[i] /\ f[i] <= Max(S)
  BY <1>1, <1>2, FiniteMin, FiniteMax
<1> QED
  BY <1>2, <1>3 DEF S

\* A bar, and the sides of it a trade knows.
LEMMA BarFields ==
    ASSUME NEW s \in Specs, NEW b \in DayBars
    PROVE  /\ b.open \in Int /\ b.high \in Int /\ b.low \in Int /\ b.close \in Int
           /\ b.low <= b.open /\ b.low <= b.close /\ b.open <= b.high /\ b.close <= b.high
           /\ s.entry \in Int /\ s.stop \in Int /\ s.target \in Int
           /\ Fill(s, b) \in Int /\ Favourable(s, b) \in Int /\ Adverse(s, b) \in Int
           /\ FillsInside(s, b) => Fill(s, b) = s.entry
           /\ \/ /\ Dir(s) = 1 /\ s.stop <= s.entry /\ s.entry < s.target
                 /\ Favourable(s, b) = b.high /\ Adverse(s, b) = b.low
              \/ /\ Dir(s) = -1 /\ s.target < s.entry /\ s.entry <= s.stop
                 /\ Favourable(s, b) = b.low /\ Adverse(s, b) = b.high
<1>1. /\ b.open \in Int /\ b.high \in Int /\ b.low \in Int /\ b.close \in Int
      /\ s.entry \in Int /\ s.stop \in Int /\ s.target \in Int
  BY OutcomesAssumption
<1>2. b.low <= Min({b.open, b.close}) /\ Max({b.open, b.close}) <= b.high
  BY OutcomesAssumption
<1>3. /\ Min({b.open, b.close}) = IF b.open <= b.close THEN b.open ELSE b.close
      /\ Max({b.open, b.close}) = IF b.open <= b.close THEN b.close ELSE b.open
  BY <1>1, TwoExtremes
<1>4. b.low <= b.open /\ b.low <= b.close /\ b.open <= b.high /\ b.close <= b.high
  BY <1>1, <1>2, <1>3
<1>5. Fill(s, b) \in Int /\ Favourable(s, b) \in Int /\ Adverse(s, b) \in Int
  BY <1>1 DEF Fill, Worse, Favourable, Adverse
<1>6. \/ Dir(s) = 1 /\ s.stop <= s.entry /\ s.entry < s.target
      \/ Dir(s) = -1 /\ s.target < s.entry /\ s.entry <= s.stop
  <2>1. s.side = "LONG" \/ s.side = "SHORT"
    BY OutcomesAssumption
  <2>2. CASE s.side = "LONG"
    BY <2>2, OutcomesAssumption DEF Dir
  <2>3. CASE s.side = "SHORT"
    BY <2>3, OutcomesAssumption DEF Dir
  <2> QED
    BY <2>1, <2>2, <2>3
<1>7. /\ Dir(s) = 1 => Favourable(s, b) = b.high /\ Adverse(s, b) = b.low
      /\ Dir(s) = -1 => Favourable(s, b) = b.low /\ Adverse(s, b) = b.high
  BY DEF Favourable, Adverse
<1> QED
  BY <1>1, <1>4, <1>5, <1>6, <1>7 DEF FillsInside

\* Where a trade leaves a bar is within the bar, a stop at or beyond the stop's price; and no better than
\* what followed its fill.
LEMMA ExitWithin ==
    ASSUME NEW s \in Specs, NEW b \in DayBars, NEW onFill \in BOOLEAN
    PROVE  LET exit == ExitOf(s, b, onFill) IN
           /\ exit.price \in Int
           /\ Dir(s) * Adverse(s, b) <= Dir(s) * exit.price
           /\ Dir(s) * exit.price <= Dir(s) * Favourable(s, b)
           /\ exit.outcome = "stop" => Dir(s) * (exit.price - s.stop) <= 0
           /\ StopHit(s, b) => exit.outcome = "stop"
           /\ onFill /\ FillsInside(s, b) =>
                 Dir(s) * (exit.price - s.entry) <= 0 \/ exit.price = b.close
<1> DEFINE exit == ExitOf(s, b, onFill)
<1>0. /\ b.open \in Int /\ b.high \in Int /\ b.low \in Int /\ b.close \in Int
      /\ b.low <= b.open /\ b.low <= b.close /\ b.open <= b.high /\ b.close <= b.high
      /\ s.entry \in Int /\ s.stop \in Int /\ s.target \in Int
      /\ \/ /\ Dir(s) = 1 /\ s.stop <= s.entry /\ s.entry < s.target
            /\ Favourable(s, b) = b.high /\ Adverse(s, b) = b.low
         \/ /\ Dir(s) = -1 /\ s.target < s.entry /\ s.entry <= s.stop
            /\ Favourable(s, b) = b.low /\ Adverse(s, b) = b.high
  BY BarFields
<1>1. CASE StopHit(s, b)
  <2>1. exit = [outcome |-> "stop", price |-> Worse(s, s.stop, b.open)]
    BY <1>1 DEF ExitOf
  <2>2. exit.outcome = "stop" /\ exit.price = Worse(s, s.stop, b.open)
    BY <2>1
  <2> HIDE DEF exit
  <2>3. Dir(s) * (Adverse(s, b) - s.stop) <= 0
    BY <1>1 DEF StopHit, AtOrBelow
  <2>4. CASE Dir(s) = 1
    <3>1. exit.price = IF s.stop - b.open >= 0 THEN b.open ELSE s.stop
      BY <1>0, <2>2, <2>4 DEF Worse
    <3> QED
      BY <1>0, <2>2, <2>3, <2>4, <3>1 DEF exit
  <2>5. CASE Dir(s) = -1
    <3>1. exit.price = IF s.stop - b.open <= 0 THEN b.open ELSE s.stop
      BY <1>0, <2>2, <2>5 DEF Worse
    <3> QED
      BY <1>0, <2>2, <2>3, <2>5, <3>1 DEF exit
  <2> QED
    BY <1>0, <2>4, <2>5
<1>2. CASE ~StopHit(s, b) /\ TargetHit(s, b, onFill)
  <2>1. exit = [outcome |-> "target", price |-> Better(s, s.target, b.open)]
    BY <1>2 DEF ExitOf
  <2>2. exit.outcome = "target" /\ exit.price = Better(s, s.target, b.open)
    BY <2>1
  <2> HIDE DEF exit
  <2>3. Dir(s) * (Favourable(s, b) - s.target) >= 0 /\ ~(onFill /\ FillsInside(s, b))
    BY <1>2 DEF TargetHit, TargetTouched, AtOrPast
  <2>4. CASE Dir(s) = 1
    <3>1. exit.price = IF s.target - b.open >= 0 THEN s.target ELSE b.open
      BY <1>0, <2>2, <2>4 DEF Better
    <3> QED
      BY <1>0, <1>2, <2>2, <2>3, <2>4, <3>1 DEF exit
  <2>5. CASE Dir(s) = -1
    <3>1. exit.price = IF s.target - b.open <= 0 THEN s.target ELSE b.open
      BY <1>0, <2>2, <2>5 DEF Better
    <3> QED
      BY <1>0, <1>2, <2>2, <2>3, <2>5, <3>1 DEF exit
  <2> QED
    BY <1>0, <2>4, <2>5
<1>3. CASE ~StopHit(s, b) /\ ~TargetHit(s, b, onFill)
  <2>1. exit = [outcome |-> "expired", price |-> b.close]
    BY <1>3 DEF ExitOf
  <2>2. exit.outcome = "expired" /\ exit.price = b.close
    BY <2>1
  <2> HIDE DEF exit
  <2> QED
    BY <1>0, <1>3, <2>2 DEF exit
<1> QED
  BY <1>1, <1>2, <1>3

\* With the prices as differences from the fill.
LEMMA SeenFromFill ==
    ASSUME NEW d \in {1, -1}, NEW a \in Int, NEW p \in Int, NEW f \in Int
    PROVE  /\ d * (a - f) \in Int /\ d * (p - f) \in Int
           /\ d * a <= d * p => d * (a - f) <= d * (p - f)
           /\ f + d * (d * (p - f)) = p
<1>1. d = 1 \/ d = -1
  OBVIOUS
<1> QED
  BY <1>1

LEMMA ResultSeen ==
    ASSUME NEW s \in Specs, NEW path \in Seq(DayBars), Evaluate(s, path).outcome \in Resolved
    PROVE  LET e == Evaluate(s, path) IN
           /\ e.worst <= e.result /\ e.result <= e.best
           /\ e.outcome = "stop" => AtOrBelow(s, e.fill + Dir(s) * e.result, s.stop)
           /\ StopHit(s, path[e.on]) => e.outcome = "stop"
<1> DEFINE t == TriggerBar(s, path)
           j == Min(Endings(s, path, t))
           onFill == j = t
           exit == ExitOf(s, path[j], onFill)
           fill == Fill(s, path[t])
           e == Evaluate(s, path)
<1>1. s.entry # s.stop /\ path # <<>> /\ t # 0 /\ Endings(s, path, t) # {}
  BY DEF Evaluate, Resolved, Pending
<1>2. e = [outcome |-> exit.outcome, on |-> j, fill |-> fill, result |-> Dir(s) * (exit.price - fill),
           best |-> BestOf(s, path, t, j), worst |-> WorstOf(s, path, t, j)]
  BY <1>1 DEF Evaluate
<1>3. t \in 1 .. Len(path) /\ Len(path) \in Nat /\ DayBars # {}
  <2>1. path[1] \in DayBars /\ Len(path) \in Nat
    BY <1>1
  <2> HIDE DEF t
  <2>2. t \in 0 .. Len(path)
    BY <1>1, <2>1, TriggerStands DEF t
  <2> QED
    BY <1>1, <2>1, <2>2
<1> HIDE DEF t
<1>4. j \in t .. Len(path)
  BY <1>1, <1>3, EndingsStand
<1> HIDE DEF j, e
<1>5. /\ t \in Int /\ j \in Int /\ j \in t .. j /\ t \in t .. j
      /\ path[j] \in DayBars /\ \A i \in t .. j : path[i] \in DayBars
  BY <1>3, <1>4
<1>6. /\ fill \in Int /\ Dir(s) \in {1, -1} /\ Dir(s) \in Int
      /\ path[j].close \in Int /\ Favourable(s, path[j]) \in Int /\ Adverse(s, path[j]) \in Int
  BY <1>5, BarFields
<1>7. /\ exit.price \in Int
      /\ Dir(s) * Adverse(s, path[j]) <= Dir(s) * exit.price
      /\ Dir(s) * exit.price <= Dir(s) * Favourable(s, path[j])
      /\ exit.outcome = "stop" => Dir(s) * (exit.price - s.stop) <= 0
      /\ StopHit(s, path[j]) => exit.outcome = "stop"
      /\ onFill /\ FillsInside(s, path[j]) =>
            Dir(s) * (exit.price - s.entry) <= 0 \/ exit.price = path[j].close
  BY <1>5, ExitWithin
<1> HIDE DEF exit
<1>8. WorstOf(s, path, t, j) <= Dir(s) * (exit.price - fill)
  <2> DEFINE f == [i \in t .. j |-> Dir(s) * (Adverse(s, path[i]) - Fill(s, path[t]))]
  <2>1. \A i \in t .. j : f[i] \in Int
    <3> SUFFICES ASSUME NEW i \in t .. j PROVE f[i] \in Int
      OBVIOUS
    <3>1. Adverse(s, path[i]) \in Int
      BY <1>5, BarFields
    <3>2. Dir(s) * (Adverse(s, path[i]) - fill) \in Int
      BY <1>6, <3>1, SeenFromFill
    <3> QED
      BY <3>2
  <2>2. WorstOf(s, path, t, j) <= f[j] /\ WorstOf(s, path, t, j) \in Int
    <3>1. WorstOf(s, path, t, j) = Min({f[k] : k \in t .. j})
      BY DEF WorstOf
    <3>2. f \in [t .. j -> Int]
      BY <2>1
    <3> HIDE DEF f
    <3> QED
      BY <1>5, <3>1, <3>2, WithinExtremes
  <2>3. f[j] = Dir(s) * (Adverse(s, path[j]) - fill)
    BY <1>5
  <2>4. Dir(s) * (Adverse(s, path[j]) - fill) <= Dir(s) * (exit.price - fill)
    BY <1>6, <1>7, SeenFromFill
  <2> HIDE DEF f
  <2>6. Dir(s) * (Adverse(s, path[j]) - fill) \in Int /\ Dir(s) * (exit.price - fill) \in Int
    BY <1>6, <1>7, SeenFromFill
  <2> QED
    BY <2>2, <2>3, <2>4, <2>6
<1>9. Dir(s) * (exit.price - fill) <= BestOf(s, path, t, j)
  <2> DEFINE f == [i \in t .. j |-> IF i = t /\ FillsInside(s, path[t])
                                    THEN Max({0, Dir(s) * (path[i].close - Fill(s, path[t]))})
                                    ELSE Dir(s) * (Favourable(s, path[i]) - Fill(s, path[t]))]
  <2>1. \A i \in t .. j : f[i] \in Int
    <3> SUFFICES ASSUME NEW i \in t .. j PROVE f[i] \in Int
      OBVIOUS
    <3>1. path[i].close \in Int /\ Favourable(s, path[i]) \in Int
      BY <1>5, BarFields
    <3>2. Dir(s) * (path[i].close - fill) \in Int /\ Dir(s) * (Favourable(s, path[i]) - fill) \in Int
      BY <1>6, <3>1, SeenFromFill
    <3>3. Max({0, Dir(s) * (path[i].close - fill)}) \in Int
      <4> DEFINE x == Dir(s) * (path[i].close - fill)
      <4>1. x \in Int /\ 0 \in Int
        BY <3>2
      <4> HIDE DEF x
      <4>2. Max({0, x}) = IF 0 <= x THEN x ELSE 0
        BY <4>1, TwoExtremes
      <4>3. Max({0, x}) \in Int
        BY <4>1, <4>2
      <4> QED
        BY <4>3 DEF x
    <3> QED
      BY <3>2, <3>3
  <2>2. f[j] <= BestOf(s, path, t, j) /\ BestOf(s, path, t, j) \in Int
    <3>1. BestOf(s, path, t, j) = Max({f[k] : k \in t .. j})
      BY DEF BestOf
    <3>2. f \in [t .. j -> Int]
      BY <2>1
    <3> HIDE DEF f
    <3> QED
      BY <1>5, <3>1, <3>2, WithinExtremes
  <2>4. Dir(s) * (exit.price - fill) <= f[j]
    <3>1. CASE j = t /\ FillsInside(s, path[t])
      <4>1. f[j] = Max({0, Dir(s) * (path[j].close - fill)})
        BY <1>5, <3>1
      <4>2. fill = s.entry
        BY <1>5, <3>1, BarFields
      <4>3. Dir(s) * (exit.price - fill) <= 0 \/ exit.price = path[j].close
        BY <1>7, <3>1, <4>2
      <4>4. Dir(s) * (path[j].close - fill) \in Int /\ Dir(s) * (exit.price - fill) \in Int
        BY <1>6, <1>7, SeenFromFill
      <4> DEFINE x == Dir(s) * (path[j].close - fill)
                 y == Dir(s) * (exit.price - fill)
      <4>5. y <= 0 \/ y = x
        BY <4>2, <4>3
      <4>6. x \in Int /\ y \in Int /\ 0 \in Int
        BY <4>4
      <4>7. f[j] = Max({0, x})
        BY <4>1
      <4> HIDE DEF f, x, y
      <4>8. Max({0, x}) = IF 0 <= x THEN x ELSE 0
        BY <4>6, TwoExtremes
      <4>9. y <= f[j]
        BY <4>5, <4>6, <4>7, <4>8
      <4> QED
        BY <4>9 DEF y
    <3>2. CASE ~(j = t /\ FillsInside(s, path[t]))
      <4>1. f[j] = Dir(s) * (Favourable(s, path[j]) - fill)
        BY <1>5, <3>2
      <4>2. Dir(s) * (exit.price - fill) <= Dir(s) * (Favourable(s, path[j]) - fill)
        BY <1>6, <1>7, SeenFromFill
      <4> HIDE DEF f
      <4> QED
        BY <4>1, <4>2
    <3> QED
      BY <3>1, <3>2
  <2>5. f[j] \in Int /\ Dir(s) * (exit.price - fill) \in Int
    BY <1>5, <1>6, <1>7, <2>1, SeenFromFill
  <2> HIDE DEF f
  <2> QED
    BY <2>2, <2>4, <2>5
<1>10. fill + Dir(s) * (Dir(s) * (exit.price - fill)) = exit.price
  <2> HIDE DEF fill
  <2>1. \A d \in {1, -1}, p, f \in Int : f + d * (d * (p - f)) = p
    BY SeenFromFill
  <2> QED
    BY <1>6, <1>7, <2>1
<1>11. /\ e.outcome = exit.outcome /\ e.on = j /\ e.fill = fill /\ e.result = Dir(s) * (exit.price - fill)
       /\ e.best = BestOf(s, path, t, j) /\ e.worst = WorstOf(s, path, t, j)
  BY <1>2
<1> HIDE DEF fill
<1> QED
  BY <1>7, <1>8, <1>9, <1>10, <1>11 DEF AtOrBelow, e

\* What the track record keeps of a trade stands whatever days follow, and is within what the trade saw
\* after its fill: for every trade, every path of bars, every window and hold (gex/scan/outcomes.py).
THEOREM TrackRecordHoldsHolds == OutcomesSpec => TrackRecordHolds
<1> DEFINE Inv == spec \in Specs /\ days \in Seq(DayBars)
<1>1. OutcomesInit => Inv
  BY DEF OutcomesInit
<1>2. Inv /\ [DayCloses]_outcomeVars => Inv'
  BY DEF DayCloses, outcomeVars
<1>3. Inv /\ [DayCloses]_outcomeVars
        => [Scored.outcome # "pending" => Evaluate(spec, days') = Scored]_outcomeVars
  <2> SUFFICES ASSUME Inv, DayCloses, Scored.outcome # "pending" PROVE Evaluate(spec, days') = Scored
    OBVIOUS
  <2>1. PICK bar \in DayBars : days' = Append(days, bar)
    BY DEF DayCloses
  <2> QED
    BY <2>1, ScoreStands DEF Scored
<1>4. Inv => ResultIsSeen
  BY ResultSeen DEF ResultIsSeen, Scored
<1> QED
  BY <1>1, <1>2, <1>3, <1>4, PTL DEF OutcomesSpec, TrackRecordHolds, ScoreIsFinal

-----------------------------------------------------------------------------
\* The touches of a wall.

\* Of the bars up to the n-th that bounce, those that come after the confirming bar of the one before.
AreTouched(T, bouncing, n) ==
    /\ T \subseteq 2 .. n
    /\ \A t \in 2 .. n : t \in T <=> t \in bouncing /\ t - 1 \notin T /\ t - 2 \notin T

LEMMA LeastOf ==
    ASSUME NEW a \in Int, NEW n \in Int, NEW D, D \subseteq a .. n, D # {}
    PROVE  Min(D) \in D /\ \A t \in D : Min(D) <= t
<1>1. IsFiniteSet(a .. n)
  BY FS_Interval
<1>2. D \in SUBSET Int
  OBVIOUS
<1>3. IsFiniteSet(D)
  BY <1>1, FS_Subset
<1> QED
  BY <1>2, <1>3, FiniteMin

\* Those up to a bar do not depend on the bars after it.
LEMMA TouchedAgree ==
    ASSUME NEW n \in Int, NEW m \in Int, n <= m, NEW T, NEW U, NEW B, NEW C,
           AreTouched(T, B, n), AreTouched(U, C, m), \A t \in 2 .. n : t \in B <=> t \in C
    PROVE  \A t \in 2 .. n : t \in T <=> t \in U
<1> DEFINE D == {t \in 2 .. n : ~(t \in T <=> t \in U)}
<1>1. SUFFICES ASSUME D # {} PROVE FALSE
  OBVIOUS
<1>2. D \subseteq 2 .. n
  OBVIOUS
<1> DEFINE d == Min(D)
<1>3. d \in D /\ \A t \in D : d <= t
  <2>1. 2 \in Int
    OBVIOUS
  <2> HIDE DEF D
  <2>2. Min(D) \in D /\ \A t \in D : Min(D) <= t
    BY <1>1, <1>2, <2>1, LeastOf
  <2> QED
    BY <2>2
<1> HIDE DEF d
<1>4. d \in 2 .. n /\ d \in Int /\ d - 1 \in Int /\ d - 2 \in Int /\ d - 1 < d /\ d - 2 < d
  BY <1>3
<1>5. \A t \in Int : t < d => (t \in T <=> t \in U)
  <2> SUFFICES ASSUME NEW t \in Int, t < d PROVE t \in T <=> t \in U
    OBVIOUS
  <2>1. t \notin D
    BY <1>2, <1>3
  <2>2. CASE t \in 2 .. n
    BY <2>1, <2>2
  <2>3. CASE t \notin 2 .. n
    <3>1. t < 2
      BY <1>4, <2>3
    <3>2. t \notin 2 .. n /\ t \notin 2 .. m
      BY <3>1
    <3> QED
      BY <3>2 DEF AreTouched
  <2> QED
    BY <2>2, <2>3
<1>6. d \in T <=> d \in B /\ d - 1 \notin T /\ d - 2 \notin T
  BY <1>4 DEF AreTouched
<1>7. d \in U <=> d \in C /\ d - 1 \notin U /\ d - 2 \notin U
  <2>1. d \in 2 .. m
    BY <1>4
  <2> QED
    BY <2>1 DEF AreTouched
<1>8. d \in T <=> d \in U
  BY <1>4, <1>5, <1>6, <1>7
<1> QED
  BY <1>3, <1>8

\* One by one up to the n-th, each from those before it.
LEMMA UpTo ==
    ASSUME NEW n \in Nat, NEW S, 0 \in S, \A k \in 0 .. n - 1 : k \in S => k + 1 \in S
    PROVE  n \in S
<1> DEFINE D == {k \in 0 .. n : k \notin S}
<1>1. SUFFICES ASSUME n \notin S PROVE FALSE
  OBVIOUS
<1>2. D \subseteq 0 .. n /\ D # {}
  BY <1>1
<1> DEFINE d == Min(D)
<1>3. d \in D /\ \A t \in D : d <= t
  <2>1. 0 \in Int /\ n \in Int
    OBVIOUS
  <2> HIDE DEF D
  <2>2. Min(D) \in D /\ \A t \in D : Min(D) <= t
    BY <1>2, <2>1, LeastOf
  <2> QED
    BY <2>2
<1> HIDE DEF d
<1>4. d \in 0 .. n /\ d \notin S /\ d # 0
  BY <1>3
<1>5. d - 1 \in 0 .. n - 1 /\ d - 1 \in 0 .. n /\ d - 1 < d /\ d - 1 + 1 = d
  BY <1>4
<1>6. d - 1 \in S
  <2>1. d - 1 \notin D
    BY <1>3, <1>4, <1>5
  <2> QED
    BY <1>5, <2>1
<1>7. d - 1 + 1 \in S
  BY <1>5, <1>6
<1> QED
  BY <1>4, <1>5, <1>7

LEMMA TouchedExist ==
    ASSUME NEW n \in Int, NEW B
    PROVE  \E T \in SUBSET (2 .. n) : AreTouched(T, B, n)
<1> DEFINE S == {k \in Nat : \E T \in SUBSET (2 .. k) : AreTouched(T, B, k)}
<1>1. ASSUME NEW k \in Int, k < 2 PROVE \E T \in SUBSET (2 .. k) : AreTouched(T, B, k)
  <2>1. 2 .. k = {}
    BY <1>1
  <2>2. AreTouched({}, B, k)
    BY <2>1 DEF AreTouched
  <2> QED
    BY <2>2
<1>2. ASSUME NEW k \in Nat, k \in S PROVE k + 1 \in S
  <2>1. CASE k + 1 < 2
    BY <1>1, <2>1
  <2>2. CASE k + 1 >= 2
    <3>1. PICK T \in SUBSET (2 .. k) : AreTouched(T, B, k)
      BY <1>2
    <3> DEFINE U == T \cup {t \in {k + 1} : t \in B /\ t - 1 \notin T /\ t - 2 \notin T}
    <3>2. U \in SUBSET (2 .. (k + 1))
      <4>1. T \subseteq 2 .. (k + 1)
        OBVIOUS
      <4>2. {k + 1} \subseteq 2 .. (k + 1)
        BY <2>2
      <4> QED
        BY <4>1, <4>2
    <3>3. \A t \in 2 .. k : (t \in U <=> t \in T) /\ (t - 1 \in U <=> t - 1 \in T) /\ (t - 2 \in U <=> t - 2 \in T)
      OBVIOUS
    <3>4. /\ k + 1 \in U <=> k + 1 \in B /\ k + 1 - 1 \notin T /\ k + 1 - 2 \notin T
          /\ k + 1 - 1 \in U <=> k + 1 - 1 \in T
          /\ k + 1 - 2 \in U <=> k + 1 - 2 \in T
      <4>1. k + 1 \notin T /\ k + 1 - 1 # k + 1 /\ k + 1 - 2 # k + 1
        OBVIOUS
      <4> QED
        BY <4>1
    <3> HIDE DEF U
    <3>5. ASSUME NEW t \in 2 .. (k + 1)
          PROVE  t \in U <=> t \in B /\ t - 1 \notin U /\ t - 2 \notin U
      <4>1. t \in 2 .. k \/ t = k + 1
        OBVIOUS
      <4>2. CASE t \in 2 .. k
        BY <3>1, <3>3, <4>2 DEF AreTouched
      <4>3. CASE t = k + 1
        BY <3>4, <4>3
      <4> QED
        BY <4>1, <4>2, <4>3
    <3>6. AreTouched(U, B, k + 1)
      BY <3>2, <3>5 DEF AreTouched
    <3> QED
      BY <3>2, <3>6
  <2> QED
    BY <2>1, <2>2
<1>3. CASE n < 0
  BY <1>1, <1>3
<1>4. CASE n >= 0
  <2>1. 0 \in S
    BY <1>1
  <2>2. n \in Nat
    BY <1>4
  <2> HIDE DEF S
  <2>3. n \in S
    BY <1>2, <2>1, <2>2, UpTo
  <2> QED
    BY <2>3 DEF S
<1> QED
  BY <1>3, <1>4

Bouncing == {t \in Tried : Bounces(t, LevelAt(t))}

LEMMA TouchedAre ==
    ASSUME Len(bars) \in Nat
    PROVE  AreTouched(Touched, Bouncing, Len(bars) - 2)
<1>1. PICK T \in SUBSET Tried : AreTouched(T, Bouncing, Len(bars) - 2)
  <2> DEFINE n == Len(bars) - 2
  <2>1. n \in Int
    OBVIOUS
  <2>2. Tried = 2 .. n
    BY DEF Tried
  <2> HIDE DEF n
  <2>3. \E T \in SUBSET (2 .. n) : AreTouched(T, Bouncing, n)
    BY <2>1, TouchedExist
  <2> QED
    BY <2>2, <2>3 DEF n
<1>2. \A t \in Tried : t \in T <=> Bounces(t, LevelAt(t)) /\ t - 1 \notin T /\ t - 2 \notin T
  BY <1>1 DEF AreTouched, Bouncing, Tried
<1> DEFINE Is(U) == \A t \in Tried : t \in U <=> Bounces(t, LevelAt(t)) /\ t - 1 \notin U /\ t - 2 \notin U
<1>3. Touched = CHOOSE U \in SUBSET Tried : Is(U)
  BY DEF Touched
<1>4. Is(T)
  BY <1>2
<1> HIDE DEF Is
<1>5. Touched \in SUBSET Tried /\ Is(Touched)
  BY <1>1, <1>3, <1>4
<1> QED
  BY <1>5 DEF Is, AreTouched, Bouncing, Tried

-----------------------------------------------------------------------------
\* What a rule says of the closed bars stands.

LevelInv ==
    /\ kind \in Kinds
    /\ bars \in Seq(Bars(kind)) /\ captures \in Seq([from : Nat, level : Int])
    /\ points \in Seq(Int)

LEMMA LevelInvInitially == LevelInit => LevelInv
BY DEF LevelInit, LevelInv

LEMMA LevelInvStays == LevelInv /\ [LevelNext]_ruleVars => LevelInv'
<1> SUFFICES ASSUME LevelInv, [LevelNext]_ruleVars PROVE LevelInv'
  OBVIOUS
<1> USE DEF LevelInv
<1>1. CASE BarCloses
  <2>1. PICK bar \in Bars(kind) : bars' = Append(bars, bar)
    BY <1>1 DEF BarCloses
  <2>2. Bars(kind') = Bars(kind) /\ bars' \in Seq(Bars(kind))
    BY <1>1, <2>1 DEF BarCloses
  <2> QED
    BY <1>1, <2>2 DEF BarCloses
<1>2. CASE CaptureTaken
  <2>1. PICK level \in {Mirror(kind) * w : w \in Levels} \cup {NoLevel} :
            captures' = Append(captures, [from |-> Len(bars) + 1, level |-> level])
    BY <1>2 DEF CaptureTaken
  <2>2. Mirror(kind) \in Int /\ Levels \subseteq Int /\ NoLevel \in Int
    BY LevelAssumption DEF Mirror, NoLevel
  <2>3. level \in Int
    BY <2>2
  <2>4. [from |-> Len(bars) + 1, level |-> level] \in [from : Nat, level : Int]
    BY <2>3
  <2> QED
    BY <1>2, <2>1, <2>4 DEF CaptureTaken
<1>3. CASE PathMoves
  <2>1. PICK x \in Points : points' = Append(points, x)
    BY <1>3 DEF PathMoves
  <2> QED
    BY <1>3, <2>1, LevelAssumption DEF PathMoves
<1>4. CASE UNCHANGED ruleVars
  BY <1>4 DEF ruleVars
<1> QED
  BY <1>1, <1>2, <1>3, <1>4 DEF LevelNext

\* A session grows by a bar, or by a capture for the bars to come.
Grows ==
    /\ UNCHANGED <<kind, points>>
    /\ \/ UNCHANGED captures /\ \E bar \in Bars(kind) : bars' = Append(bars, bar)
       \/ UNCHANGED bars /\ \E c \in [from : Nat, level : Int] : c.from = Len(bars) + 1 /\ captures' = Append(captures, c)

LEMMA LevelStands ==
    ASSUME LevelInv, Grows, NEW i \in 1 .. Len(bars)
    PROVE  i \in 1 .. Len(bars') /\ bars'[i] = bars[i] /\ LevelAt(i)' = LevelAt(i) /\ Side(i)' = Side(i)
<1> DEFINE taken == {c \in 1 .. Len(captures) : captures[c].level # NoLevel /\ captures[c].from <= i}
           takenNext == {c \in 1 .. Len(captures') : captures'[c].level # NoLevel /\ captures'[c].from <= i}
<1>1. Len(bars) \in Nat /\ Len(captures) \in Nat /\ i \in Int
  BY DEF LevelInv
<1>2. i \in 1 .. Len(bars') /\ bars'[i] = bars[i]
  <2>1. bars \in Seq(Bars(kind)) /\ (bars' = bars \/ \E bar \in Bars(kind) : bars' = Append(bars, bar))
    BY DEF Grows, LevelInv
  <2> QED
    BY <2>1
<1>3. \A c \in 1 .. Len(captures) : c \in 1 .. Len(captures') /\ captures'[c] = captures[c]
  <2>1. /\ captures \in Seq([from : Nat, level : Int])
        /\ captures' = captures \/ \E c \in [from : Nat, level : Int] : captures' = Append(captures, c)
    BY DEF Grows, LevelInv
  <2>2. CASE captures' = captures
    BY <2>2
  <2>3. ASSUME NEW x \in [from : Nat, level : Int], captures' = Append(captures, x)
        PROVE  \A c \in 1 .. Len(captures) : c \in 1 .. Len(captures') /\ captures'[c] = captures[c]
    <3>1. Len(captures') = Len(captures) + 1
      BY <2>1, <2>3
    <3>2. \A c \in 1 .. Len(captures) : captures'[c] = captures[c]
      BY <2>1, <2>3
    <3> QED
      BY <1>1, <3>1, <3>2
  <2> QED
    BY <2>1, <2>2, <2>3
<1>4. ASSUME NEW c \in 1 .. Len(captures'), c \notin 1 .. Len(captures) PROVE ~(captures'[c].from <= i)
  <2>1. PICK x \in [from : Nat, level : Int] : x.from = Len(bars) + 1 /\ captures' = Append(captures, x)
    BY <1>4 DEF Grows
  <2>2. c = Len(captures) + 1 /\ captures'[c] = x
    BY <1>1, <1>4, <2>1 DEF LevelInv
  <2> QED
    BY <1>1, <2>1, <2>2
<1>5. takenNext = taken
  BY <1>3, <1>4
<1>6. taken # {} => Max(taken) \in taken
  <2>1. taken \in SUBSET Int /\ taken \subseteq 1 .. Len(captures) /\ IsFiniteSet(1 .. Len(captures))
    BY <1>1, FS_Interval
  <2> HIDE DEF taken
  <2> QED
    BY <2>1, FS_Subset, FiniteMax
<1>7. LevelAt(i)' = IF takenNext = {} THEN NoLevel ELSE captures'[Max(takenNext)].level
  BY DEF LevelAt, NoLevel
<1>8. LevelAt(i) = IF taken = {} THEN NoLevel ELSE captures[Max(taken)].level
  BY DEF LevelAt
<1>9. LevelAt(i)' = LevelAt(i)
  <2> HIDE DEF taken, takenNext
  <2>1. taken # {} => Max(taken) \in 1 .. Len(captures)
    BY <1>6 DEF taken
  <2> QED
    BY <1>3, <1>5, <1>7, <1>8, <2>1
<1>10. Side(i)' = Side(i)
  BY <1>2, <1>9 DEF Side, Sign
<1> QED
  BY <1>2, <1>9, <1>10

LEMMA BarsGrow ==
    ASSUME LevelInv, Grows
    PROVE  Len(bars) \in Nat /\ Len(bars') \in Nat /\ Len(bars') \in {Len(bars), Len(bars) + 1}
BY DEF LevelInv, Grows

LEMMA ThreesGrow ==
    ASSUME LevelInv, Grows
    PROVE  /\ Threes \subseteq Threes'
           /\ \A r \in Threes' : r[3] \in 1 .. Len(bars) => r \in Threes
           /\ \A r \in Threes : r[1] \in 1 .. Len(bars) /\ r[2] \in 1 .. Len(bars) /\ r[3] \in 1 .. Len(bars)
           /\ \A r \in Threes' : r[3] \in 1 .. Len(bars) \/ r[3] = Len(bars')
<1>1. Len(bars) \in Nat /\ Len(bars') \in Nat /\ Len(bars') \in {Len(bars), Len(bars) + 1}
  BY BarsGrow
<1>2. \A i \in 1 .. Len(bars) : i \in 1 .. Len(bars') /\ LevelAt(i)' = LevelAt(i)
  BY LevelStands
<1>3. \A i \in 1 .. Len(bars) : i \in Leveled <=> i \in Leveled'
  BY <1>2 DEF Leveled, NoLevel
<1>4. Leveled \subseteq 1 .. Len(bars) /\ Leveled' \subseteq 1 .. Len(bars')
  BY DEF Leveled
<1>5. \A i, j \in 1 .. Len(bars) : InARow(i, j) <=> InARow(i, j)'
  BY <1>1, <1>3, <1>4 DEF InARow
<1>6. Threes \subseteq Threes'
  <2> SUFFICES ASSUME NEW r \in Threes PROVE r \in Threes'
    OBVIOUS
  <2>1. /\ r \in Leveled \X Leveled \X Leveled
        /\ r[1] \in Leveled /\ r[2] \in Leveled /\ r[3] \in Leveled
        /\ InARow(r[1], r[2]) /\ InARow(r[2], r[3])
    BY DEF Threes
  <2>2. r \in Leveled' \X Leveled' \X Leveled'
    BY <1>3, <1>4, <2>1
  <2>3. InARow(r[1], r[2])' /\ InARow(r[2], r[3])'
    BY <1>4, <1>5, <2>1
  <2> QED
    BY <2>2, <2>3 DEF Threes
<1>7. ASSUME NEW r \in Threes', r[3] \in 1 .. Len(bars) PROVE r \in Threes
  <2>1. /\ r \in Leveled' \X Leveled' \X Leveled'
        /\ r[1] \in Leveled' /\ r[2] \in Leveled' /\ r[3] \in Leveled'
        /\ InARow(r[1], r[2])' /\ InARow(r[2], r[3])'
    BY DEF Threes
  <2>2. r[1] \in 1 .. Len(bars) /\ r[2] \in 1 .. Len(bars)
    <3>1. r[1] \in 1 .. Len(bars') /\ r[2] \in 1 .. Len(bars')
      BY <1>4, <2>1
    <3>2. r[1] < r[2] /\ r[2] < r[3]
      BY <2>1 DEF InARow
    <3> HIDE <2>1
    <3> QED
      BY <1>1, <1>7, <3>1, <3>2
  <2>3. r \in Leveled \X Leveled \X Leveled
    BY <1>3, <1>7, <2>1, <2>2
  <2>4. InARow(r[1], r[2]) /\ InARow(r[2], r[3])
    BY <1>5, <1>7, <2>1, <2>2
  <2> QED
    BY <2>3, <2>4 DEF Threes
<1>8. \A r \in Threes : r[1] \in 1 .. Len(bars) /\ r[2] \in 1 .. Len(bars) /\ r[3] \in 1 .. Len(bars)
  BY <1>4 DEF Threes
<1>9. \A r \in Threes' : r[3] \in 1 .. Len(bars')
  BY <1>4 DEF Threes
<1> QED
  BY <1>1, <1>6, <1>7, <1>8, <1>9

\* Of a set of events found at threes, those that come are at the bar that has just closed.
Stand(found) ==
    /\ found \subseteq found'
    /\ \A e \in found' : e \in found \/ e.bar = Len(bars')

LEMMA CrossesStand == LevelInv /\ Grows => Stand(Crosses)
<1> SUFFICES ASSUME LevelInv, Grows PROVE Stand(Crosses)
  OBVIOUS
<1> DEFINE Name(side) == IF side > 0 THEN "FLIP_CROSS_UP" ELSE "FLIP_CROSS_DOWN"
           IsCross(r) == Side(r[3]) # 0 /\ Side(r[2]) = Side(r[3]) /\ Side(r[1]) = -Side(r[3])
<1>1. \A r \in Threes : r \in Threes'
  BY ThreesGrow
<1>2. \A r \in Threes' : r \in Threes \/ r[3] = Len(bars')
  BY ThreesGrow
<1>3. ASSUME NEW r \in Threes
      PROVE  /\ Side(r[1])' = Side(r[1]) /\ Side(r[2])' = Side(r[2]) /\ Side(r[3])' = Side(r[3])
             /\ LevelAt(r[3])' = LevelAt(r[3])
  BY <1>3, ThreesGrow, LevelStands
<1>4. ASSUME NEW e \in Crosses PROVE e \in Crosses'
  <2>1. PICK r \in Threes : IsCross(r) /\ e = Found(r[3], Name(Side(r[3])), LevelAt(r[3]))
    BY <1>4 DEF Crosses
  <2>2. r \in Threes' /\ IsCross(r)' /\ e = Found(r[3], Name(Side(r[3])'), LevelAt(r[3])')
    BY <1>1, <1>3, <2>1
  <2> QED
    BY <2>2 DEF Crosses, Found
<1>5. ASSUME NEW e \in Crosses' PROVE e \in Crosses \/ e.bar = Len(bars')
  <2>1. PICK r \in Threes' : IsCross(r)' /\ e = Found(r[3], Name(Side(r[3])'), LevelAt(r[3])')
    BY <1>5 DEF Crosses, Found
  <2>2. CASE r \in Threes
    <3>1. IsCross(r) /\ e = Found(r[3], Name(Side(r[3])), LevelAt(r[3]))
      BY <1>3, <2>1, <2>2
    <3> QED
      BY <2>2, <3>1 DEF Crosses
  <2>3. CASE r[3] = Len(bars')
    BY <2>1, <2>3 DEF Found
  <2> QED
    BY <1>2, <2>2, <2>3
<1> QED
  BY <1>4, <1>5 DEF Stand

LEMMA BreaksStand == LevelInv /\ Grows => Stand(Breaks)
<1> SUFFICES ASSUME LevelInv, Grows PROVE Stand(Breaks)
  OBVIOUS
<1> DEFINE IsBreak(r) == /\ Side(r[3]) = BreakSide /\ Side(r[2]) = BreakSide /\ Side(r[1]) = -BreakSide
                         /\ LevelAt(r[2]) = LevelAt(r[3]) /\ LevelAt(r[1]) = LevelAt(r[3])
<1>1. \A r \in Threes : r \in Threes'
  BY ThreesGrow
<1>2. \A r \in Threes' : r \in Threes \/ r[3] = Len(bars')
  BY ThreesGrow
<1>3. ASSUME NEW r \in Threes
      PROVE  /\ Side(r[1])' = Side(r[1]) /\ Side(r[2])' = Side(r[2]) /\ Side(r[3])' = Side(r[3])
             /\ LevelAt(r[1])' = LevelAt(r[1]) /\ LevelAt(r[2])' = LevelAt(r[2])
             /\ LevelAt(r[3])' = LevelAt(r[3])
  BY <1>3, ThreesGrow, LevelStands
<1>4. BreakSide' = BreakSide
  BY DEF Grows, BreakSide
<1>5. ASSUME NEW e \in Breaks PROVE e \in Breaks'
  <2>1. PICK r \in Threes : IsBreak(r) /\ e = Found(r[3], "BREAK", LevelAt(r[3]))
    BY <1>5 DEF Breaks
  <2>2. r \in Threes' /\ IsBreak(r)' /\ e = Found(r[3], "BREAK", LevelAt(r[3])')
    BY <1>1, <1>3, <1>4, <2>1
  <2> QED
    BY <2>2 DEF Breaks, Found
<1>6. ASSUME NEW e \in Breaks' PROVE e \in Breaks \/ e.bar = Len(bars')
  <2>1. PICK r \in Threes' : IsBreak(r)' /\ e = Found(r[3], "BREAK", LevelAt(r[3])')
    BY <1>6 DEF Breaks, Found
  <2>2. CASE r \in Threes
    <3>1. IsBreak(r) /\ e = Found(r[3], "BREAK", LevelAt(r[3]))
      BY <1>3, <1>4, <2>1, <2>2
    <3> QED
      BY <2>2, <3>1 DEF Breaks
  <2>3. CASE r[3] = Len(bars')
    BY <2>1, <2>3 DEF Found
  <2> QED
    BY <1>2, <2>2, <2>3
<1> QED
  BY <1>5, <1>6 DEF Stand

LEMMA BouncesStand == LevelInv /\ Grows => Stand(WallBounces)
<1> SUFFICES ASSUME LevelInv, Grows PROVE Stand(WallBounces)
  OBVIOUS
<1> DEFINE n == Len(bars) - 2
           m == Len(bars') - 2
<1>1. n \in Int /\ m \in Int /\ m \in {n, n + 1} /\ Len(bars) \in Nat /\ Len(bars') \in Nat
  BY BarsGrow
<1>2. AreTouched(Touched, Bouncing, n)
  BY <1>1, TouchedAre
<1>3. AreTouched(Touched', Bouncing', m)
  <2>1. (Len(bars) \in Nat => AreTouched(Touched, Bouncing, Len(bars) - 2))'
    BY TouchedAre, PTL
  <2> QED
    BY <1>1, <2>1 DEF AreTouched
<1>4. \A i \in 1 .. Len(bars) : bars'[i] = bars[i] /\ LevelAt(i)' = LevelAt(i)
  BY LevelStands
<1>5. Away' = Away
  BY DEF Grows, Away, BreakSide
<1>6. ASSUME NEW t \in 2 .. n PROVE t \in Bouncing <=> t \in Bouncing'
  <2>1. t - 1 \in 1 .. Len(bars) /\ t \in 1 .. Len(bars) /\ t + 1 \in 1 .. Len(bars) /\ t + 2 \in 1 .. Len(bars)
    BY <1>1
  <2>2. t \in Tried /\ t \in Tried'
    BY <1>1 DEF Tried
  <2>3. Bounces(t, LevelAt(t)) <=> Bounces(t, LevelAt(t))'
    BY <1>4, <1>5, <2>1 DEF Bounces, NoLevel
  <2> QED
    BY <2>2, <2>3 DEF Bouncing
<1>7. \A t \in 2 .. n : t \in Touched <=> t \in Touched'
  <2>1. n <= m
    BY <1>1
  <2> HIDE DEF n, m
  <2> QED
    BY <1>1, <1>2, <1>3, <1>6, <2>1, TouchedAgree
<1>8. ASSUME NEW t \in 2 .. n PROVE LevelAt(t)' = LevelAt(t)
  BY <1>1, <1>4
<1>9. Touched \subseteq 2 .. n /\ Touched' \subseteq 2 .. m
  BY <1>2, <1>3 DEF AreTouched
<1>10. ASSUME NEW e \in WallBounces PROVE e \in WallBounces'
  <2>1. PICK t \in Touched : e = Found(t + 2, "BOUNCE", LevelAt(t))
    BY <1>10 DEF WallBounces
  <2>2. t \in Touched' /\ e = Found(t + 2, "BOUNCE", LevelAt(t)')
    BY <1>7, <1>8, <1>9, <2>1
  <2> QED
    BY <2>2 DEF WallBounces, Found
<1>11. ASSUME NEW e \in WallBounces' PROVE e \in WallBounces \/ e.bar = Len(bars')
  <2>1. PICK t \in Touched' : e = Found(t + 2, "BOUNCE", LevelAt(t)')
    BY <1>11 DEF WallBounces, Found
  <2>2. CASE t \in 2 .. n
    BY <1>7, <1>8, <2>1, <2>2 DEF WallBounces
  <2>3. CASE t \notin 2 .. n
    <3>1. t + 2 = Len(bars')
      BY <1>1, <1>9, <2>1, <2>3
    <3> QED
      BY <2>1, <3>1 DEF Found
  <2> QED
    BY <2>2, <2>3
<1> QED
  BY <1>10, <1>11 DEF Stand

LEMMA EventsStand == LevelInv /\ [LevelNext]_ruleVars => (points' = points =>
                        /\ EventsSoFar \subseteq EventsSoFar'
                        /\ \A e \in EventsSoFar' \ EventsSoFar : e.bar = Len(bars'))
<1> SUFFICES ASSUME LevelInv, [LevelNext]_ruleVars, points' = points
             PROVE  /\ EventsSoFar \subseteq EventsSoFar'
                    /\ \A e \in EventsSoFar' \ EventsSoFar : e.bar = Len(bars')
  OBVIOUS
<1>1. ASSUME Grows
      PROVE  /\ EventsSoFar \subseteq EventsSoFar'
             /\ \A e \in EventsSoFar' \ EventsSoFar : e.bar = Len(bars')
  <2>1. kind' = kind
    BY <1>1 DEF Grows
  <2>2. Stand(Crosses) /\ Stand(Breaks) /\ Stand(WallBounces)
    BY <1>1, CrossesStand, BreaksStand, BouncesStand
  <2> QED
    BY <2>1, <2>2 DEF EventsSoFar, Stand
<1>2. CASE BarCloses
  <2>1. Grows
    BY <1>2 DEF BarCloses, Grows
  <2> QED
    BY <1>1, <2>1
<1>3. CASE CaptureTaken
  <2>1. PICK level \in {Mirror(kind) * w : w \in Levels} \cup {NoLevel} :
            captures' = Append(captures, [from |-> Len(bars) + 1, level |-> level])
    BY <1>3 DEF CaptureTaken
  <2>2. level \in Int
    BY LevelAssumption DEF Mirror, NoLevel
  <2>3. [from |-> Len(bars) + 1, level |-> level] \in [from : Nat, level : Int]
    BY <2>2 DEF LevelInv
  <2>4. Grows
    BY <1>3, <2>1, <2>3 DEF CaptureTaken, Grows
  <2> QED
    BY <1>1, <2>4
<1>4. CASE PathMoves
  <2>1. PICK x \in Points : points' = Append(points, x)
    BY <1>4 DEF PathMoves
  <2>2. Len(points') = Len(points) + 1 /\ Len(points) \in Nat
    BY <2>1, LevelAssumption DEF LevelInv
  <2> QED
    BY <2>2
<1>5. CASE UNCHANGED ruleVars
  <2>1. EventsSoFar' = EventsSoFar
    BY <1>5 DEF ruleVars, EventsSoFar, Crosses, Breaks, WallBounces, Threes, Leveled, InARow, Side, LevelAt,
                NoLevel, Touched, Tried, Bounces, Away, BreakSide, Found
  <2> QED
    BY <2>1
<1> QED
  BY <1>2, <1>3, <1>4, <1>5 DEF LevelNext

-----------------------------------------------------------------------------
\* The leg under way.

\* f says where the leg is after each of the first k points.
Legs(f, path, k) == f = [n \in 0 .. k |-> IF n = 0 THEN FreshLeg ELSE Step(f[n - 1], path[n])]

LEMMA LegsExist ==
    ASSUME NEW path, NEW k \in Nat
    PROVE  \E f : Legs(f, path, k)
<1> DEFINE S == {n \in Nat : \E f : Legs(f, path, n)}
<1>1. 0 \in S
  <2> DEFINE f == [n \in {0} |-> FreshLeg]
  <2>1. 0 .. 0 = {0}
    OBVIOUS
  <2>2. f = [n \in 0 .. 0 |-> IF n = 0 THEN FreshLeg ELSE Step(f[n - 1], path[n])]
    BY <2>1
  <2> QED
    BY <2>2 DEF Legs
<1>2. ASSUME NEW n \in Nat, n \in S PROVE n + 1 \in S
  <2>1. PICK f : Legs(f, path, n)
    BY <1>2
  <2> DEFINE g == [m \in 0 .. n + 1 |-> IF m = n + 1 THEN Step(f[n], path[n + 1]) ELSE f[m]]
  <2>2. ASSUME NEW m \in 0 .. n + 1
        PROVE  g[m] = IF m = 0 THEN FreshLeg ELSE Step(g[m - 1], path[m])
    <3>1. CASE m = n + 1
      <4>1. m - 1 = n /\ n \in 0 .. n + 1 /\ n # n + 1 /\ m # 0
        BY <3>1
      <4>2. g[m] = Step(f[n], path[n + 1]) /\ g[m - 1] = f[n]
        BY <3>1, <4>1
      <4> QED
        BY <3>1, <4>1, <4>2
    <3>2. CASE m = 0
      <4>1. m \in 0 .. n /\ m # n + 1
        BY <3>2
      <4> QED
        BY <2>1, <3>2, <4>1 DEF Legs
    <3>3. CASE m # n + 1 /\ m # 0
      <4>1. m \in 0 .. n /\ m - 1 \in 0 .. n /\ m - 1 \in 0 .. n + 1 /\ m - 1 # n + 1
        BY <3>3
      <4>2. f[m] = Step(f[m - 1], path[m])
        BY <2>1, <3>3, <4>1 DEF Legs
      <4>3. g[m] = f[m] /\ g[m - 1] = f[m - 1]
        BY <3>3, <4>1
      <4> QED
        BY <3>3, <4>2, <4>3
    <3> QED
      BY <3>1, <3>2, <3>3
  <2>3. g = [m \in 0 .. n + 1 |-> g[m]]
    OBVIOUS
  <2> HIDE DEF g
  <2>4. Legs(g, path, n + 1)
    BY <2>2, <2>3 DEF Legs
  <2> QED
    BY <2>4
<1> HIDE DEF S
<1>3. k \in S
  BY <1>1, <1>2, UpTo
<1> QED
  BY <1>3 DEF S

\* Where the leg is depends on the points so far only.
LEMMA LegsAgree ==
    ASSUME NEW p, NEW q, NEW k \in Nat, NEW m \in Nat, k <= m, NEW f, NEW g,
           Legs(f, p, k), Legs(g, q, m), \A n \in 1 .. k : p[n] = q[n]
    PROVE  f[k] = g[k]
<1> DEFINE S == {n \in 0 .. k : f[n] = g[n]}
<1>1. 0 \in S
  <2>1. f[0] = FreshLeg /\ g[0] = FreshLeg
    BY DEF Legs
  <2> QED
    BY <2>1
<1>2. ASSUME NEW n \in 0 .. k - 1, n \in S PROVE n + 1 \in S
  <2>1. n + 1 \in 0 .. k /\ n + 1 \in 0 .. m /\ n + 1 # 0 /\ n + 1 - 1 = n /\ n + 1 \in 1 .. k
    OBVIOUS
  <2>2. f[n + 1] = Step(f[n], p[n + 1])
    <3>1. f[n + 1] = Step(f[n + 1 - 1], p[n + 1])
      BY <2>1 DEF Legs
    <3> QED
      BY <2>1, <3>1
  <2>3. g[n + 1] = Step(g[n], q[n + 1])
    <3>1. g[n + 1] = Step(g[n + 1 - 1], q[n + 1])
      BY <2>1 DEF Legs
    <3> QED
      BY <2>1, <3>1
  <2>4. f[n] = g[n] /\ p[n + 1] = q[n + 1]
    BY <1>2, <2>1
  <2> QED
    BY <2>1, <2>2, <2>3, <2>4
<1> HIDE DEF S
<1>3. k \in S
  BY <1>1, <1>2, UpTo
<1> QED
  BY <1>3 DEF S

LEMMA LegOfIs ==
    ASSUME NEW path, Len(path) \in Nat
    PROVE  \E f : Legs(f, path, Len(path)) /\ LegOf(path) = f[Len(path)]
<1> DEFINE leg == CHOOSE f : Legs(f, path, Len(path))
<1>1. Legs(leg, path, Len(path))
  <2>1. \E f : Legs(f, path, Len(path))
    BY LegsExist
  <2> QED
    BY <2>1
<1>2. LegOf(path) = leg[Len(path)]
  BY DEF LegOf, Legs
<1> QED
  BY <1>1, <1>2

LEMMA LegOfNone == LegOf(<<>>) = FreshLeg
<1>1. Len(<<>>) = 0
  OBVIOUS
<1>2. PICK f : Legs(f, <<>>, 0) /\ LegOf(<<>>) = f[0]
  BY <1>1, LegOfIs
<1>3. f[0] = FreshLeg
  BY <1>2 DEF Legs
<1> QED
  BY <1>2, <1>3

LEMMA LegOfMore ==
    ASSUME NEW path \in Seq(Int), NEW x \in Int
    PROVE  LegOf(Append(path, x)) = Step(LegOf(path), x)
<1> DEFINE longer == Append(path, x)
           k == Len(path)
<1>1. k \in Nat /\ Len(longer) = k + 1 /\ k + 1 \in Nat /\ longer[k + 1] = x /\ \A n \in 1 .. k : path[n] = longer[n]
  OBVIOUS
<1> HIDE DEF longer
<1>2. PICK f : Legs(f, path, k) /\ LegOf(path) = f[k]
  BY <1>1, LegOfIs
<1>3. PICK g : Legs(g, longer, k + 1) /\ LegOf(longer) = g[k + 1]
  BY <1>1, LegOfIs
<1> HIDE DEF k
<1>4. g[k + 1] = Step(g[k], x)
  <2>1. k + 1 \in 0 .. k + 1 /\ k + 1 # 0 /\ k + 1 - 1 = k
    BY <1>1
  <2>2. g[k + 1] = Step(g[k], longer[k + 1])
    <3> DEFINE m == k + 1
    <3>1. m \in Nat /\ m \in 0 .. m /\ m # 0 /\ m - 1 = k
      BY <1>1, <2>1
    <3>2. Legs(g, longer, m)
      BY <1>3
    <3> HIDE DEF m
    <3>3. g[m] = Step(g[m - 1], longer[m])
      BY <3>1, <3>2 DEF Legs
    <3> QED
      BY <3>1, <3>3 DEF m
  <2> QED
    BY <1>1, <2>2
<1>5. f[k] = g[k]
  <2>1. k <= k + 1
    BY <1>1
  <2> QED
    BY <1>1, <1>2, <1>3, <2>1, LegsAgree
<1>6. LegOf(longer) = Step(LegOf(path), x)
  BY <1>2, <1>3, <1>4, <1>5
<1> QED
  BY <1>6 DEF longer

-----------------------------------------------------------------------------
\* The swings.

Begins(s, t) == Len(s) <= Len(t) /\ \A i \in 1 .. Len(s) : s[i] = t[i]

LEMMA BeginsIsPrefix ==
    ASSUME NEW s \in Seq(Int), NEW t \in Seq(Int), Begins(s, t)
    PROVE  IsPrefix(s, t)
<1>1. Len(s) \in Nat /\ Len(t) \in Nat /\ Len(s) <= Len(t)
  BY DEF Begins
<1> DEFINE k == Len(s)
<1>2. /\ SubSeq(s, 1, k) = [i \in 1 .. k |-> s[i]]
      /\ SubSeq(t, 1, k) = [i \in 1 .. k |-> t[i]]
  <2>1. \A i \in 1 .. k : i + 1 - 1 = i
    BY <1>1
  <2> QED
    BY <1>1, <2>1
<1>3. SubSeq(s, 1, k) = SubSeq(t, 1, k)
  BY <1>2 DEF Begins
<1> QED
  BY <1>1, <1>3 DEF IsPrefix

\* Each at least a unit from the one before, and back the other way.
Alternate(s) ==
    /\ \A i \in 1 .. Len(s) - 1 : AbsOf(s[i + 1] - s[i]) >= Unit
    /\ \A i \in 1 .. Len(s) - 2 : Sign(s[i + 1] - s[i]) = -Sign(s[i + 2] - s[i + 1])

\* The leg under way goes a unit from the last swing, the other way than the one before.
WellTurned(leg) ==
    /\ leg \in [dir : {-1, 0, 1}, ext : Int, lo : Int, hi : Int, swings : Seq(Int)]
    /\ leg.dir = 0 => leg.swings = <<>>
    /\ Alternate(leg.swings)
    /\ leg.swings # <<>> => leg.dir * (leg.ext - leg.swings[Len(leg.swings)]) >= Unit
    /\ Len(leg.swings) > 1 =>
            Sign(leg.swings[Len(leg.swings)] - leg.swings[Len(leg.swings) - 1]) = -leg.dir

LEMMA AlternateMore ==
    ASSUME NEW s \in Seq(Int), NEW x \in Int, NEW d \in {-1, 1}, Alternate(s),
           s # <<>> => d * (x - s[Len(s)]) >= Unit,
           Len(s) > 1 => Sign(s[Len(s)] - s[Len(s) - 1]) = -d
    PROVE  Alternate(Append(s, x)) /\ (s # <<>> => Sign(x - s[Len(s)]) = d)
<1> DEFINE t == Append(s, x)
           k == Len(s)
<1>1. k \in Nat /\ Len(t) = k + 1 /\ t[k + 1] = x /\ \A i \in 1 .. k : t[i] = s[i] /\ s[i] \in Int
  OBVIOUS
<1>2. s # <<>> <=> k > 0
  OBVIOUS
<1>3. Unit \in Nat \ {0}
  BY LevelAssumption
<1>4. k > 0 => Sign(x - s[k]) = d /\ AbsOf(x - s[k]) >= Unit
  <2>1. k > 0 => s[k] \in Int
    BY <1>1
  <2>2. CASE d = 1
    BY <1>2, <1>3, <2>1, <2>2 DEF Sign, AbsOf
  <2>3. CASE d = -1
    BY <1>2, <1>3, <2>1, <2>3 DEF Sign, AbsOf
  <2> QED
    BY <2>2, <2>3
<1> HIDE DEF t
<1>5. ASSUME NEW i \in 1 .. Len(t) - 1 PROVE AbsOf(t[i + 1] - t[i]) >= Unit
  <2>1. CASE i = k
    <3>1. k > 0 /\ t[i + 1] = x /\ t[i] = s[k]
      BY <1>1, <2>1
    <3> QED
      BY <1>4, <3>1
  <2>2. CASE i # k
    <3>1. i \in 1 .. k - 1 /\ i \in 1 .. k /\ i + 1 \in 1 .. k
      BY <1>1, <2>2
    <3>2. AbsOf(s[i + 1] - s[i]) >= Unit
      BY <3>1 DEF Alternate
    <3> QED
      BY <1>1, <3>1, <3>2
  <2> QED
    BY <2>1, <2>2
<1>6. ASSUME NEW i \in 1 .. Len(t) - 2 PROVE Sign(t[i + 1] - t[i]) = -Sign(t[i + 2] - t[i + 1])
  <2>1. CASE i = k - 1
    <3>1. k > 1 /\ i + 1 = k /\ i + 2 = k + 1 /\ i \in 1 .. k /\ i + 1 \in 1 .. k /\ i = k - 1
      BY <1>1, <2>1
    <3>2. t[i] = s[k - 1] /\ t[i + 1] = s[k] /\ t[i + 2] = x
      BY <1>1, <3>1
    <3>3. Sign(x - s[k]) = d /\ Sign(s[k] - s[k - 1]) = -d
      BY <1>4, <3>1
    <3> QED
      BY <3>2, <3>3
  <2>2. CASE i # k - 1
    <3>1. i \in 1 .. k - 2 /\ i \in 1 .. k /\ i + 1 \in 1 .. k /\ i + 2 \in 1 .. k
      <4>1. i \in 1 .. k - 1 /\ k \in Nat
        BY <1>1
      <4> HIDE DEF k
      <4> QED
        BY <2>2, <4>1
    <3>2. Sign(s[i + 1] - s[i]) = -Sign(s[i + 2] - s[i + 1])
      BY <3>1 DEF Alternate
    <3> QED
      BY <1>1, <3>1, <3>2
  <2> QED
    BY <2>1, <2>2
<1>7. Alternate(t)
  BY <1>5, <1>6 DEF Alternate
<1> QED
  BY <1>2, <1>4, <1>7 DEF t

LEMMA FewAlternate ==
    ASSUME NEW s \in Seq(Int), Len(s) <= 1
    PROVE  Alternate(s)
<1>1. Len(s) \in Nat /\ 1 .. Len(s) - 1 = {} /\ 1 .. Len(s) - 2 = {}
  OBVIOUS
<1> QED
  BY <1>1 DEF Alternate

LEMMA StepTurnsWell ==
    ASSUME NEW leg, NEW x \in Int, WellTurned(leg)
    PROVE  WellTurned(Step(leg, x)) /\ Begins(leg.swings, Step(leg, x).swings)
<1> DEFINE next == Step(leg, x)
<1>1. Unit \in Nat \ {0}
  BY LevelAssumption
<1>2. /\ leg \in [dir : {-1, 0, 1}, ext : Int, lo : Int, hi : Int, swings : Seq(Int)]
      /\ leg.dir \in {-1, 0, 1} /\ leg.ext \in Int /\ leg.lo \in Int /\ leg.hi \in Int /\ leg.swings \in Seq(Int)
      /\ Len(leg.swings) \in Nat
  BY DEF WellTurned
<1>3. CASE leg.dir = 0
  <2> DEFINE lo == IF x < leg.lo THEN x ELSE leg.lo
             hi == IF x > leg.hi THEN x ELSE leg.hi
             up == x - lo >= Unit
             down == hi - x >= Unit
  <2>1. lo \in Int /\ hi \in Int /\ lo <= x /\ x <= hi /\ up \in BOOLEAN /\ down \in BOOLEAN
    BY <1>2
  <2>2. next = [dir |-> IF up THEN 1 ELSE IF down THEN -1 ELSE 0,
                ext |-> IF up \/ down THEN x ELSE 0,
                lo |-> lo, hi |-> hi,
                swings |-> IF up /\ lo <= -Unit THEN <<lo>>
                           ELSE IF ~up /\ down /\ hi >= Unit THEN <<hi>> ELSE <<>>]
    BY <1>3 DEF Step, Opening
  <2> DEFINE dir == IF up THEN 1 ELSE IF down THEN -1 ELSE 0
             ext == IF up \/ down THEN x ELSE 0
             swings == IF up /\ lo <= -Unit THEN <<lo>>
                       ELSE IF ~up /\ down /\ hi >= Unit THEN <<hi>> ELSE <<>>
  <2>3. dir \in {-1, 0, 1} /\ ext \in Int
    OBVIOUS
  <2>4. swings \in Seq(Int) /\ Len(swings) <= 1 /\ (dir = 0 => swings = <<>>)
    <3>1. <<lo>> \in Seq(Int) /\ <<hi>> \in Seq(Int) /\ <<>> \in Seq(Int)
      BY <2>1
    <3>2. Len(<<lo>>) = 1 /\ Len(<<hi>>) = 1 /\ Len(<<>>) = 0
      OBVIOUS
    <3> QED
      BY <3>1, <3>2
  <2>5. swings # <<>> => dir * (ext - swings[Len(swings)]) >= Unit
    <3>1. <<lo>>[Len(<<lo>>)] = lo /\ <<hi>>[Len(<<hi>>)] = hi
      OBVIOUS
    <3>2. CASE up
      <4>1. dir = 1 /\ ext = x /\ (swings = <<lo>> \/ swings = <<>>)
        BY <3>2
      <4>2. 1 * (x - lo) >= Unit
        BY <1>1, <2>1, <3>2
      <4> QED
        BY <3>1, <4>1, <4>2
    <3>3. CASE ~up /\ down
      <4>1. dir = -1 /\ ext = x /\ (swings = <<hi>> \/ swings = <<>>)
        BY <3>3
      <4>2. (-1) * (x - hi) >= Unit
        BY <1>1, <2>1, <3>3
      <4> QED
        BY <3>1, <4>1, <4>2
    <3>4. CASE ~up /\ ~down
      BY <3>4
    <3> QED
      BY <3>2, <3>3, <3>4
  <2> HIDE DEF lo, hi, up, down, dir, ext, swings
  <2>6. next = [dir |-> dir, ext |-> ext, lo |-> lo, hi |-> hi, swings |-> swings]
    BY <2>2 DEF dir, ext, swings
  <2>7. Alternate(swings)
    BY <2>4, FewAlternate
  <2>8. ~(Len(swings) > 1)
    BY <2>4
  <2> HIDE DEF next
  <2>9. WellTurned(next)
    BY <2>1, <2>3, <2>4, <2>5, <2>6, <2>7, <2>8 DEF WellTurned
  <2>10. Begins(leg.swings, next.swings)
    <3>1. leg.swings = <<>>
      BY <1>3 DEF WellTurned
    <3>2. Len(<<>>) = 0 /\ 1 .. 0 = {} /\ Len(swings) \in Nat
      BY <2>4
    <3> QED
      BY <2>6, <3>1, <3>2 DEF Begins
  <2> QED
    BY <2>9, <2>10 DEF next
<1>4. CASE leg.dir # 0 /\ Turns(leg, x)
  <2> DEFINE s == leg.swings
             t == Append(s, leg.ext)
  <2>1. next = [leg EXCEPT !.swings = t, !.dir = -leg.dir, !.ext = x]
    BY <1>4 DEF Step
  <2>2. leg.dir \in {-1, 1} /\ -leg.dir \in {-1, 1}
    BY <1>2, <1>4
  <2>3. leg.dir * (leg.ext - x) >= Unit
    BY <1>4 DEF Turns
  <2>4. t \in Seq(Int) /\ Len(t) = Len(s) + 1 /\ t[Len(t)] = leg.ext /\ t # <<>>
    BY <1>2
  <2>5. Alternate(t) /\ (s # <<>> => Sign(leg.ext - s[Len(s)]) = leg.dir)
    BY <1>2, <2>2, AlternateMore DEF WellTurned
  <2>6. (-leg.dir) * (x - leg.ext) >= Unit
    <3>1. CASE leg.dir = 1
      BY <1>2, <2>3, <3>1
    <3>2. CASE leg.dir = -1
      BY <1>2, <2>3, <3>2
    <3> QED
      BY <2>2, <3>1, <3>2
  <2>7. Len(t) > 1 => Sign(t[Len(t)] - t[Len(t) - 1]) = leg.dir
    <3> SUFFICES ASSUME Len(t) > 1 PROVE Sign(t[Len(t)] - t[Len(t) - 1]) = leg.dir
      OBVIOUS
    <3>1. s # <<>> /\ Len(s) > 0
      BY <1>2, <2>4
    <3>2. Len(t) - 1 = Len(s) /\ t[Len(s)] = s[Len(s)]
      BY <1>2, <2>4, <3>1
    <3> QED
      BY <2>4, <2>5, <3>1, <3>2
  <2>8. Begins(s, t)
    <3>1. \A i \in 1 .. Len(s) : s[i] = t[i]
      BY <1>2
    <3> QED
      BY <1>2, <2>4, <3>1 DEF Begins
  <2> HIDE DEF t, s
  <2>9. /\ next.swings = t /\ next.dir = -leg.dir /\ next.ext = x
        /\ next \in [dir : {-1, 0, 1}, ext : Int, lo : Int, hi : Int, swings : Seq(Int)]
    BY <1>2, <2>1, <2>2, <2>4
  <2> HIDE DEF next
  <2>10. WellTurned(next)
    <3>1. next.dir # 0 /\ -next.dir = leg.dir
      BY <2>2, <2>9
    <3>2. next.dir * (next.ext - next.swings[Len(next.swings)]) >= Unit
      BY <2>4, <2>6, <2>9
    <3> QED
      BY <2>4, <2>5, <2>7, <2>9, <3>1, <3>2 DEF WellTurned
  <2> QED
    BY <2>8, <2>9, <2>10 DEF next, s
<1>5. CASE leg.dir # 0 /\ ~Turns(leg, x)
  <2> DEFINE ext == IF leg.dir * (x - leg.ext) > 0 THEN x ELSE leg.ext
  <2>1. next = [leg EXCEPT !.ext = ext]
    BY <1>5 DEF Step
  <2>2. leg.dir \in {-1, 1} /\ ext \in Int
    BY <1>2, <1>5
  <2>3. leg.swings # <<>> => leg.dir * (ext - leg.swings[Len(leg.swings)]) >= Unit
    <3> SUFFICES ASSUME leg.swings # <<>> PROVE leg.dir * (ext - leg.swings[Len(leg.swings)]) >= Unit
      OBVIOUS
    <3>1. leg.swings[Len(leg.swings)] \in Int
      <4>1. Len(leg.swings) \in 1 .. Len(leg.swings)
        BY <1>2
      <4> QED
        BY <1>2, <4>1
    <3>2. leg.dir * (leg.ext - leg.swings[Len(leg.swings)]) >= Unit
      BY DEF WellTurned
    <3>3. CASE leg.dir = 1
      BY <1>1, <1>2, <3>1, <3>2, <3>3
    <3>4. CASE leg.dir = -1
      BY <1>1, <1>2, <3>1, <3>2, <3>4
    <3> QED
      BY <2>2, <3>3, <3>4
  <2> HIDE DEF ext
  <2>4. /\ next.swings = leg.swings /\ next.dir = leg.dir /\ next.ext = ext
        /\ next \in [dir : {-1, 0, 1}, ext : Int, lo : Int, hi : Int, swings : Seq(Int)]
    BY <1>2, <2>1, <2>2
  <2> HIDE DEF next
  <2>5. WellTurned(next)
    BY <2>3, <2>4 DEF WellTurned
  <2>6. Begins(leg.swings, next.swings)
    BY <1>2, <2>4 DEF Begins
  <2> QED
    BY <2>5, <2>6 DEF next
<1> QED
  BY <1>3, <1>4, <1>5

\* Of every part of the path: it turns well, and its swings are the first of those that follow.
SwingsInv ==
    /\ WellTurned(LegOf(points))
    /\ \A n \in 0 .. Len(points) :
            /\ LegOf(SubSeq(points, 1, n)).swings \in Seq(Int)
            /\ Begins(LegOf(SubSeq(points, 1, n)).swings, LegOf(points).swings)

LEMMA SwingsInvInitially == LevelInit => SwingsInv
<1> SUFFICES ASSUME LevelInit PROVE SwingsInv
  OBVIOUS
<1>1. points = <<>> /\ Len(points) = 0
  BY DEF LevelInit
<1>2. LegOf(points) = FreshLeg
  BY <1>1, LegOfNone
<1>3. FreshLeg.swings = <<>> /\ FreshLeg.swings \in Seq(Int) /\ FreshLeg.dir = 0 /\ Len(FreshLeg.swings) = 0
  BY DEF FreshLeg
<1>4. FreshLeg \in [dir : {-1, 0, 1}, ext : Int, lo : Int, hi : Int, swings : Seq(Int)]
  BY DEF FreshLeg
<1>5. WellTurned(FreshLeg)
  <2>1. Alternate(FreshLeg.swings)
    <3>1. Len(FreshLeg.swings) <= 1 /\ FreshLeg.swings \in Seq(Int)
      BY <1>3
    <3> QED
      BY <3>1, FewAlternate
  <2> HIDE DEF FreshLeg
  <2> QED
    BY <1>3, <1>4, <2>1 DEF WellTurned
<1>6. ASSUME NEW n \in 0 .. Len(points) PROVE SubSeq(points, 1, n) = points
  <2>1. n = 0 /\ SubSeq(<<>>, 1, 0) = <<>>
    BY <1>1
  <2> QED
    BY <1>1, <2>1
<1>7. Begins(FreshLeg.swings, FreshLeg.swings)
  BY <1>3 DEF Begins
<1> QED
  BY <1>2, <1>3, <1>5, <1>6, <1>7 DEF SwingsInv

LEMMA SwingsInvStays == SwingsInv /\ LevelInv /\ [LevelNext]_ruleVars => SwingsInv'
<1> SUFFICES ASSUME SwingsInv, LevelInv, [LevelNext]_ruleVars PROVE SwingsInv'
  OBVIOUS
<1>1. CASE points' = points
  BY <1>1 DEF SwingsInv
<1>2. ASSUME NEW x \in Int, points' = Append(points, x) PROVE SwingsInv'
  <2> DEFINE leg == LegOf(points)
             next == LegOf(points')
  <2>1. points \in Seq(Int) /\ points' \in Seq(Int) /\ Len(points) \in Nat /\ Len(points') = Len(points) + 1
    BY <1>2 DEF LevelInv
  <2>2. next = Step(leg, x)
    BY <1>2, <2>1, LegOfMore
  <2>3. WellTurned(next) /\ Begins(leg.swings, next.swings)
    BY <2>2, StepTurnsWell DEF SwingsInv
  <2>4. leg.swings \in Seq(Int) /\ next.swings \in Seq(Int)
    BY <2>3 DEF WellTurned, SwingsInv
  <2>5. ASSUME NEW n \in 0 .. Len(points')
        PROVE  /\ LegOf(SubSeq(points', 1, n)).swings \in Seq(Int)
               /\ Begins(LegOf(SubSeq(points', 1, n)).swings, next.swings)
    <3>1. CASE n \in 0 .. Len(points)
      <4>1. SubSeq(points', 1, n) = SubSeq(points, 1, n)
        <5>1. \A i \in 1 .. n : i \in 1 .. Len(points) /\ points'[i] = points[i]
          BY <1>2, <2>1, <3>1
        <5>2. /\ SubSeq(points', 1, n) = [i \in 1 .. n |-> points'[i]]
              /\ SubSeq(points, 1, n) = [i \in 1 .. n |-> points[i]]
          <6>1. \A i \in 1 .. n : i + 1 - 1 = i
            BY <3>1
          <6>2. n - 1 + 1 = n /\ n \in Int /\ n >= 0
            BY <3>1
          <6> QED
            BY <2>1, <3>1, <6>1, <6>2
        <5> QED
          BY <5>1, <5>2
      <4> DEFINE part == LegOf(SubSeq(points, 1, n)).swings
      <4>2. part \in Seq(Int) /\ Begins(part, leg.swings)
        BY <3>1 DEF SwingsInv
      <4> HIDE DEF part, leg, next
      <4>3. Begins(part, next.swings)
        BY <2>3, <2>4, <4>2 DEF Begins
      <4> QED
        BY <4>1, <4>2, <4>3 DEF part
    <3>2. CASE n = Len(points')
      <4>1. SubSeq(points', 1, n) = points'
        BY <2>1, <3>2
      <4>2. Begins(next.swings, next.swings)
        BY <2>4 DEF Begins
      <4> QED
        BY <2>4, <4>1, <4>2
    <3> QED
      BY <2>1, <3>1, <3>2
  <2> QED
    BY <2>3, <2>5 DEF SwingsInv
<1>3. CASE PathMoves
  BY <1>2, <1>3, LevelAssumption DEF PathMoves
<1> QED
  BY <1>1, <1>3 DEF LevelNext, BarCloses, CaptureTaken, ruleVars

LEMMA SwingsInvImplies == SwingsInv => SwingsAreFinal
<1> SUFFICES ASSUME SwingsInv PROVE SwingsAreFinal
  OBVIOUS
<1> DEFINE leg == LegOf(points)
<1>1. WellTurned(leg) /\ leg.swings \in Seq(Int) /\ leg.ext \in Int /\ leg.dir \in {-1, 0, 1}
  BY DEF SwingsInv, WellTurned
<1>2. Swings \in Seq(Int) /\ Alternate(Swings) /\ Begins(leg.swings, Swings)
  <2>1. CASE leg.dir = 0
    <3>1. Swings = leg.swings
      BY <2>1 DEF Swings, SwingsOf
    <3>2. Begins(leg.swings, leg.swings)
      BY <1>1 DEF Begins
    <3> QED
      BY <1>1, <3>1, <3>2 DEF WellTurned
  <2>2. CASE leg.dir # 0
    <3>1. Swings = Append(leg.swings, leg.ext)
      BY <2>2 DEF Swings, SwingsOf
    <3>2. leg.dir \in {-1, 1}
      BY <1>1, <2>2
    <3> HIDE DEF leg
    <3>3. Alternate(Append(leg.swings, leg.ext))
      BY <1>1, <3>2, AlternateMore DEF WellTurned
    <3>4. Append(leg.swings, leg.ext) \in Seq(Int) /\ Begins(leg.swings, Append(leg.swings, leg.ext))
      BY <1>1 DEF Begins
    <3> QED
      BY <3>1, <3>3, <3>4
  <2> QED
    BY <2>1, <2>2
<1>3. ASSUME NEW n \in 0 .. Len(points)
      PROVE  IsPrefix(LegOf(SubSeq(points, 1, n)).swings, Swings)
  <2> DEFINE part == LegOf(SubSeq(points, 1, n)).swings
  <2>1. part \in Seq(Int) /\ Begins(part, leg.swings)
    BY DEF SwingsInv
  <2> HIDE DEF part, leg
  <2>2. Begins(part, Swings)
    BY <1>1, <1>2, <2>1 DEF Begins
  <2>3. IsPrefix(part, Swings)
    BY <1>2, <2>1, <2>2, BeginsIsPrefix
  <2> QED
    BY <2>3 DEF part
<1> QED
  BY <1>2, <1>3 DEF SwingsAreFinal, Alternate

\* The level events a history shows and the swings of a path stay as they are when bars, captures
\* and points come: nothing found is taken back, and what comes is at the bar that has just closed.
THEOREM FindingsAreFinalHolds == LevelSpec => FindingsAreFinal
<1>1. LevelInit => LevelInv /\ SwingsInv
  BY LevelInvInitially, SwingsInvInitially
<1>2. LevelInv /\ SwingsInv /\ [LevelNext]_ruleVars => (LevelInv /\ SwingsInv)'
  BY LevelInvStays, SwingsInvStays
<1>3. LevelInv /\ [LevelNext]_ruleVars =>
        (points' = points =>
            /\ EventsSoFar \subseteq EventsSoFar'
            /\ \A e \in EventsSoFar' \ EventsSoFar : e.bar = Len(bars'))
  BY EventsStand
<1>4. SwingsInv => SwingsAreFinal
  BY SwingsInvImplies
<1> QED
  BY <1>1, <1>2, <1>3, <1>4, PTL DEF LevelSpec, FindingsAreFinal, EventsAreFinal
=============================================================================
