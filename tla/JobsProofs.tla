----------------------------- MODULE JobsProofs -----------------------------
(***************************************************************************)
(* Proofs about the jobs: the level events are told at most once, kept     *)
(* apart and scored once; a capture belongs to the last trading day, and   *)
(* the watchdog speaks; a recorded decision stands, and what a run         *)
(* inserted is told; the terminal's vintages hold.  The eight jobs of one  *)
(* run are each what its own specification allows; and the table of        *)
(* closures is the exchange's rules.                                       *)
(***************************************************************************)
EXTENDS MCJobs, IngestProofs

\* What the proofs need of the types.
RowsTyped ==
    /\ openBar \in Nat
    /\ Stored \subseteq Events
    /\ rows \in [Stored -> [alerted : BOOLEAN, recorded : Nat]]

-----------------------------------------------------------------------------
LEMMA RowsTypedInitially == LevelEventsInit => RowsTyped
BY DEF LevelEventsInit, RowsTyped, Stored

LEMMA RowsTypedStay == RowsTyped /\ [LevelEventsNext]_levelVars => RowsTyped'
<1> SUFFICES ASSUME RowsTyped, [LevelEventsNext]_levelVars PROVE RowsTyped'
  OBVIOUS
<1> USE DEF RowsTyped, Stored
<1>1. CASE Record
  <2>1. PICK found \in SUBSET Findable : \E chosen \in SUBSET NewOf(found), run \in 1 .. MaxEvents :
            rows' = [e \in Stored \cup NewOf(found) |->
                        IF e \in Stored THEN rows[e] ELSE [alerted |-> e \in chosen, recorded |-> run]]
    BY <1>1 DEF Record
  <2>2. PICK chosen \in SUBSET NewOf(found), run \in 1 .. MaxEvents :
            rows' = [e \in Stored \cup NewOf(found) |->
                        IF e \in Stored THEN rows[e] ELSE [alerted |-> e \in chosen, recorded |-> run]]
    BY <2>1
  <2>3. NewOf(found) \subseteq Events
    BY DEF NewOf, Findable
  <2>4. run \in Nat
    BY LevelEventsAssumption
  <2> QED
    BY <1>1, <2>2, <2>3, <2>4 DEF Record
<1>2. CASE Send \/ Crash \/ Score \/ BarsPolled \/ MinutesArrive
  BY <1>2 DEF Send, Crash, Score, BarsPolled, MinutesArrive
<1>3. CASE BarPasses
  BY <1>3 DEF BarPasses
<1>4. CASE UNCHANGED levelVars
  BY <1>4 DEF levelVars
<1> QED
  BY <1>1, <1>2, <1>3, <1>4 DEF LevelEventsNext

-----------------------------------------------------------------------------
\* Told once.

LEMMA LevelStepOnce ==
    RowsTyped /\ [LevelEventsNext]_levelVars => [Once!Next]_(Once!vars)
<1> SUFFICES ASSUME RowsTyped, [LevelEventsNext]_levelVars PROVE Once!Next \/ UNCHANGED Once!vars
  OBVIOUS
<1>1. CASE Record
  <2>1. PICK found \in SUBSET Findable : \E chosen \in SUBSET NewOf(found), run \in 1 .. MaxEvents :
            /\ DOMAIN rows' = Stored \cup NewOf(found)
            /\ alertsDue' = chosen
    BY <1>1 DEF Record
  <2>2. Stored' = Stored \cup NewOf(found) /\ alertsDue' \subseteq NewOf(found)
    BY <2>1 DEF Stored
  <2>3. Stored' \subseteq Events
    BY RowsTypedStay DEF RowsTyped
  <2>4. Once!Learn
    BY <1>1, <2>2, <2>3 DEF Record, Once!Learn, NewOf
  <2> QED
    BY <2>4 DEF Once!Next
<1>2. CASE Send
  <2>1. PICK e \in alertsDue : alertsTold' = alertsTold \cup {e} /\ alertsDue' = alertsDue \ {e}
    BY <1>2 DEF Send
  <2>2. Once!Tell
    BY <1>2, <2>1 DEF Send, Once!Tell, Stored
  <2> QED
    BY <2>2 DEF Once!Next
<1>3. CASE Crash
  BY <1>3 DEF Crash, Once!Next, Once!Forget, Stored
<1>4. CASE Score \/ BarsPolled \/ MinutesArrive \/ BarPasses \/ UNCHANGED levelVars
  BY <1>4 DEF Score, BarsPolled, MinutesArrive, BarPasses, levelVars, Once!vars, Stored
<1> QED
  BY <1>1, <1>2, <1>3, <1>4 DEF LevelEventsNext

\* Every behaviour of the jobs is one of TellOnce: an event is stored before anybody is told and
\* told at most once, for any symbols, bounds and number of crashes.
THEOREM LevelEventsToldOnce == LevelEventsSpec => EventsToldOnce
<1>1. LevelEventsInit => Once!Init
  BY DEF LevelEventsInit, Once!Init, Stored
<1>2. LevelEventsInit => RowsTyped
  BY RowsTypedInitially
<1>3. RowsTyped /\ [LevelEventsNext]_levelVars => RowsTyped'
  BY RowsTypedStay
<1>4. RowsTyped /\ [LevelEventsNext]_levelVars => [Once!Next]_(Once!vars)
  BY LevelStepOnce
<1> QED
  BY <1>1, <1>2, <1>3, <1>4, PTL DEF LevelEventsSpec, EventsToldOnce, Once!Spec

-----------------------------------------------------------------------------
\* Kept apart.

\* A later run sees the alerts of the earlier ones, and within a run an alert sees those before it.
LEMMA RecordKeepsApart ==
    ASSUME RowsTyped, AlertsKeepApart, Record
    PROVE  AlertsKeepApart'
<1>1. PICK found \in SUBSET Findable : \E chosen \in SUBSET NewOf(found), run \in 1 .. MaxEvents :
          /\ Selects(chosen, NewOf(found), {e \in Stored : rows[e].alerted}) /\ IsNextRun(run)
          /\ rows' = [e \in Stored \cup NewOf(found) |->
                        IF e \in Stored THEN rows[e] ELSE [alerted |-> e \in chosen, recorded |-> run]]
  BY DEF Record
<1>2. PICK chosen \in SUBSET NewOf(found), run \in 1 .. MaxEvents :
          /\ Selects(chosen, NewOf(found), {e \in Stored : rows[e].alerted}) /\ IsNextRun(run)
          /\ rows' = [e \in Stored \cup NewOf(found) |->
                        IF e \in Stored THEN rows[e] ELSE [alerted |-> e \in chosen, recorded |-> run]]
  BY <1>1
<1> DEFINE new == NewOf(found)
<1>3. Stored' = Stored \cup new /\ new \cap Stored = {} /\ Stored' \subseteq Events
  BY <1>2, RowsTypedStay DEF Stored, NewOf, RowsTyped, LevelEventsNext
<1> SUFFICES ASSUME NEW a \in Stored', NEW b \in Stored',
                    rows'[a].alerted, rows'[b].alerted, Precedes(a, b),
                    rows'[a].recorded <= rows'[b].recorded,
                    FamilyOf(a.symbol) \in Blockers(FamilyOf(b.symbol))
             PROVE  EntryOf(b) - EntryOf(a) >= Gap
  BY DEF AlertsKeepApart
<1>4. EntryOf(a) \in Int /\ EntryOf(b) \in Int /\ EntryOf(b) - EntryOf(a) >= 0 /\ Gap \in Nat
  BY <1>3, LevelEventsAssumption DEF EntryOf, Events, Precedes
<1>5. CASE b \in Stored
  <2>1. a \in Stored
    <3> SUFFICES ASSUME a \notin Stored PROVE FALSE
      OBVIOUS
    <3>1. rows'[a].recorded = run /\ rows'[b].recorded = rows[b].recorded
      BY <1>2, <1>3, <1>5
    <3>2. rows[b].recorded < run /\ rows[b].recorded \in Nat /\ run \in Nat
      BY <1>2, <1>5, LevelEventsAssumption DEF IsNextRun, RowsTyped
    <3> QED
      BY <3>1, <3>2
  <2>2. rows'[a] = rows[a] /\ rows'[b] = rows[b]
    BY <1>2, <1>5, <2>1
  <2> QED
    BY <1>5, <2>1, <2>2 DEF AlertsKeepApart
<1>6. CASE b \notin Stored
  <2> DEFINE before == {e \in Stored : rows[e].alerted} \cup {s \in chosen : Precedes(s, b)}
  <2>1. b \in new /\ b \in chosen
    BY <1>2, <1>3, <1>6
  <2>2. ~Blocked(b, before)
    BY <1>2, <2>1 DEF Selects
  <2>3. a \in before
    BY <1>2, <1>3
  <2> QED
    BY <1>4, <2>2, <2>3 DEF Blocked
<1> QED
  BY <1>5, <1>6

\* Two alerts of families that block one another are at least the gap apart, over runs and crashes,
\* for every relation of families, every gap and every session.
THEOREM AlertsKeepApartHolds == LevelEventsSpec => []AlertsKeepApart
<1>1. LevelEventsInit => RowsTyped /\ AlertsKeepApart
  BY RowsTypedInitially DEF LevelEventsInit, AlertsKeepApart, Stored
<1>2. RowsTyped /\ AlertsKeepApart /\ [LevelEventsNext]_levelVars => AlertsKeepApart'
  <2> SUFFICES ASSUME RowsTyped, AlertsKeepApart, [LevelEventsNext]_levelVars PROVE AlertsKeepApart'
    OBVIOUS
  <2>1. CASE Record
    BY <2>1, RecordKeepsApart
  <2>2. CASE UNCHANGED rows
    BY <2>2 DEF AlertsKeepApart, Stored
  <2> QED
    BY <2>1, <2>2
    DEF LevelEventsNext, Send, Crash, Score, BarsPolled, MinutesArrive, BarPasses, levelVars
<1>3. RowsTyped /\ [LevelEventsNext]_levelVars => RowsTyped'
  BY RowsTypedStay
<1> QED
  BY <1>1, <1>2, <1>3, PTL DEF LevelEventsSpec

-----------------------------------------------------------------------------
\* Scored once.

SaysOfPath(e, path) ==
    CASE path = "no CFD" -> e.symbol \in Unmapped
      [] path = "incomplete" -> openBar >= Close + Wait /\ FamilyOf(e.symbol) \notin minutes
      [] OTHER -> FamilyOf(e.symbol) \in minutes

ScoreIsFinal ==
    \A e \in DOMAIN scores' :
        IF e \in DOMAIN scores THEN scores'[e] = scores[e]
        ELSE CASE scores'[e].path = "no CFD" -> e.symbol \in Unmapped
               [] scores'[e].path = "incomplete" -> openBar >= Close + Wait /\ FamilyOf(e.symbol) \notin minutes
               [] OTHER -> FamilyOf(e.symbol) \in minutes

LEMMA SessionNumbers == Close \in Nat /\ Wait \in Nat
<1>1. LastBar \in Nat /\ Wait \in Nat
  BY LevelEventsAssumption DEF LevelEventsAssumption
<1>2. LastBar + 1 \in Nat
  BY <1>1
<1> QED
  BY <1>1, <1>2 DEF Close

LEMMA PathIsSaid ==
    ASSUME RowsTyped, NEW e, NEW history, PathOf(e, history) # "not yet"
    PROVE  PathOf(e, history) \in Paths /\ SaysOfPath(e, PathOf(e, history))
<1>0. openBar \in Nat /\ Close \in Nat /\ Wait \in Nat
  BY SessionNumbers DEF RowsTyped
<1>1. CASE e.symbol \in Unmapped
  <2>1. PathOf(e, history) = "no CFD"
    BY <1>1 DEF PathOf
  <2> QED
    BY <1>1, <2>1 DEF SaysOfPath, Paths
<1>2. CASE e.symbol \notin Unmapped /\ FamilyOf(e.symbol) \notin minutes
  <2>1. PathOf(e, history) = "incomplete" /\ ~(openBar - Close < Wait)
    BY <1>2 DEF PathOf
  <2>2. openBar >= Close + Wait
    BY <1>0, <2>1
  <2> QED
    BY <1>2, <2>1, <2>2 DEF SaysOfPath, Paths
<1>3. CASE e.symbol \notin Unmapped /\ FamilyOf(e.symbol) \in minutes
  <2>1. PathOf(e, history) \in {"measured", "no history"}
    BY <1>3 DEF PathOf
  <2> QED
    BY <1>3, <2>1 DEF SaysOfPath, Paths
<1> QED
  BY <1>1, <1>2, <1>3

\* What a run of score_level_events writes: scores of stored events that have none.
LEMMA ScoreWrites ==
    ASSUME RowsTyped, Score
    PROVE  \E written \in SUBSET (Stored \ DOMAIN scores) :
              /\ DOMAIN scores' = DOMAIN scores \cup written
              /\ \A e \in DOMAIN scores : scores'[e] = scores[e]
              /\ \A e \in written : /\ scores'[e] = [whole |-> polled[e.symbol] > LastBar, path |-> scores'[e].path]
                                     /\ scores'[e].path \in Paths /\ SaysOfPath(e, scores'[e].path)
<1> DEFINE ready == {e \in Stored \ DOMAIN scores : openBar >= Close + 1 /\ PathOf(e, {}) # "not yet"}
           row(e, history) == [whole |-> polled[e.symbol] > LastBar, path |-> PathOf(e, history)]
<1>1. PICK written \in SUBSET ready : \E history \in SUBSET Cfds :
         scores' = [e \in DOMAIN scores \cup written |-> IF e \in written THEN row(e, history) ELSE scores[e]]
  BY DEF Score
<1>2. PICK history \in SUBSET Cfds :
         scores' = [e \in DOMAIN scores \cup written |-> IF e \in written THEN row(e, history) ELSE scores[e]]
  BY <1>1
<1>3. written \in SUBSET (Stored \ DOMAIN scores) /\ \A e \in written : PathOf(e, {}) # "not yet"
  OBVIOUS
<1>4. ASSUME NEW e \in written PROVE PathOf(e, history) \in Paths /\ SaysOfPath(e, PathOf(e, history))
  <2>1. PathOf(e, history) # "not yet"
    <3>1. CASE e.symbol \in Unmapped
      BY <3>1 DEF PathOf
    <3>2. CASE e.symbol \notin Unmapped /\ FamilyOf(e.symbol) \notin minutes
      BY <1>3, <3>2 DEF PathOf
    <3>3. CASE e.symbol \notin Unmapped /\ FamilyOf(e.symbol) \in minutes
      BY <3>3 DEF PathOf
    <3> QED
      BY <3>1, <3>2, <3>3
  <2> QED
    BY <2>1, PathIsSaid
<1>5. ASSUME NEW e \in written PROVE scores'[e] = row(e, history) /\ scores'[e].path = PathOf(e, history)
  BY <1>2
<1>6. DOMAIN scores' = DOMAIN scores \cup written /\ \A e \in DOMAIN scores : scores'[e] = scores[e]
  BY <1>2, <1>3
<1> HIDE DEF ready
<1>7. ASSUME NEW e \in written
      PROVE  /\ scores'[e] = [whole |-> polled[e.symbol] > LastBar, path |-> scores'[e].path]
             /\ scores'[e].path \in Paths /\ SaysOfPath(e, scores'[e].path)
  BY <1>4, <1>5
<1> QED
  BY <1>3, <1>6, <1>7

\* A score is written once, and says that the path is incomplete only when the minutes of the CFD were
\* waited for in vain, for every wait and every session.
THEOREM ScoresWaitForPathHolds == LevelEventsSpec => ScoresWaitForPath
<1>1. RowsTyped /\ [LevelEventsNext]_levelVars => [ScoreIsFinal]_levelVars
  <2> SUFFICES ASSUME RowsTyped, [LevelEventsNext]_levelVars PROVE ScoreIsFinal \/ UNCHANGED levelVars
    OBVIOUS
  <2>1. CASE Score
    <3>1. PICK written \in SUBSET (Stored \ DOMAIN scores) :
              /\ DOMAIN scores' = DOMAIN scores \cup written
              /\ \A e \in DOMAIN scores : scores'[e] = scores[e]
              /\ \A e \in written : SaysOfPath(e, scores'[e].path)
      BY <2>1, ScoreWrites
    <3> QED
      BY <3>1 DEF ScoreIsFinal, SaysOfPath
  <2>2. CASE UNCHANGED scores
    BY <2>2 DEF ScoreIsFinal
  <2> QED
    BY <2>1, <2>2
    DEF LevelEventsNext, Record, Send, Crash, BarsPolled, MinutesArrive, BarPasses, levelVars
<1>2. LevelEventsInit => RowsTyped
  BY RowsTypedInitially
<1>3. RowsTyped /\ [LevelEventsNext]_levelVars => RowsTyped'
  BY RowsTypedStay
<1> QED
  BY <1>1, <1>2, <1>3, PTL DEF LevelEventsSpec, ScoresWaitForPath, ScoreIsFinal

-----------------------------------------------------------------------------
\* The calendar.

\* d is the last trading day before n.
LastBefore(d, n) == d \in n - 6 .. n - 1 /\ IsTradingDay(d) /\ \A e \in d + 1 .. n - 1 : ~IsTradingDay(e)

LEMMA PreviousIsLast ==
    ASSUME NEW n \in FirstDay .. LastDay + 1
    PROVE  /\ LastBefore(PreviousTradingDay(n), n)
           /\ \A d : LastBefore(d, n) => d = PreviousTradingDay(n)
<1>0. n \in Int /\ FirstDay \in Int /\ LastDay \in Int
  BY CalendarAssumption DEF CalendarAssumption
<1>1. PICK x \in n - 6 .. n - 1 : IsTradingDay(x)
  BY ClosuresAreShort DEF ClosuresAreShort
<1>2. \E d : LastBefore(d, n)
  <2>0. x \in Int /\ n - 6 <= x /\ x <= n - 1
    BY <1>0, <1>1
  <2>1. CASE IsTradingDay(n - 1)
    BY <1>0, <2>1 DEF LastBefore
  <2>2. CASE ~IsTradingDay(n - 1) /\ IsTradingDay(n - 2)
    <3>1. \A e \in (n - 2) + 1 .. n - 1 : e = n - 1
      BY <1>0
    <3> QED
      BY <1>0, <2>2, <3>1 DEF LastBefore
  <2>3. CASE ~IsTradingDay(n - 1) /\ ~IsTradingDay(n - 2) /\ IsTradingDay(n - 3)
    <3>1. \A e \in (n - 3) + 1 .. n - 1 : e = n - 1 \/ e = n - 2
      BY <1>0
    <3> QED
      BY <1>0, <2>3, <3>1 DEF LastBefore
  <2>4. CASE ~IsTradingDay(n - 1) /\ ~IsTradingDay(n - 2) /\ ~IsTradingDay(n - 3) /\ IsTradingDay(n - 4)
    <3>1. \A e \in (n - 4) + 1 .. n - 1 : e = n - 1 \/ e = n - 2 \/ e = n - 3
      BY <1>0
    <3> QED
      BY <1>0, <2>4, <3>1 DEF LastBefore
  <2>5. CASE /\ ~IsTradingDay(n - 1) /\ ~IsTradingDay(n - 2) /\ ~IsTradingDay(n - 3) /\ ~IsTradingDay(n - 4)
             /\ IsTradingDay(n - 5)
    <3>1. \A e \in (n - 5) + 1 .. n - 1 : e = n - 1 \/ e = n - 2 \/ e = n - 3 \/ e = n - 4
      BY <1>0
    <3> QED
      BY <1>0, <2>5, <3>1 DEF LastBefore
  <2>6. CASE /\ ~IsTradingDay(n - 1) /\ ~IsTradingDay(n - 2) /\ ~IsTradingDay(n - 3) /\ ~IsTradingDay(n - 4)
             /\ ~IsTradingDay(n - 5)
    <3>1. \A e \in (n - 6) + 1 .. n - 1 : e = n - 1 \/ e = n - 2 \/ e = n - 3 \/ e = n - 4 \/ e = n - 5
      BY <1>0
    <3>2. x = n - 6
      <4>1. x = n - 1 \/ x = n - 2 \/ x = n - 3 \/ x = n - 4 \/ x = n - 5 \/ x = n - 6
        BY <1>0, <2>0
      <4> QED
        BY <1>1, <2>6, <4>1
    <3> QED
      BY <1>0, <1>1, <2>6, <3>1, <3>2 DEF LastBefore
  <2> QED
    BY <2>1, <2>2, <2>3, <2>4, <2>5, <2>6
<1>3. LastBefore(PreviousTradingDay(n), n)
  <2>1. PreviousTradingDay(n) =
          CHOOSE d \in n - 6 .. n - 1 : IsTradingDay(d) /\ \A e \in d + 1 .. n - 1 : ~IsTradingDay(e)
    BY DEF PreviousTradingDay
  <2> QED
    BY <1>2, <2>1 DEF LastBefore
<1>4. ASSUME NEW d, NEW f, LastBefore(d, n), LastBefore(f, n), d < f PROVE FALSE
  BY <1>0, <1>4 DEF LastBefore
<1>5. ASSUME NEW d, LastBefore(d, n) PROVE d = PreviousTradingDay(n)
  <2>1. PICK f : f = PreviousTradingDay(n) /\ LastBefore(f, n)
    BY <1>3
  <2>2. d \in Int /\ f \in Int
    BY <1>0, <1>5, <2>1 DEF LastBefore
  <2>3. ~(d < f) /\ ~(f < d)
    BY <1>4, <1>5, <2>1
  <2> QED
    BY <2>1, <2>2, <2>3
<1> QED
  BY <1>3, <1>5

LEMMA NextMorning ==
    ASSUME NEW n \in FirstDay .. LastDay
    PROVE  PreviousTradingDay(n + 1) = IF IsTradingDay(n) THEN n ELSE PreviousTradingDay(n)
<1>0. n \in Int /\ n \in FirstDay .. LastDay + 1 /\ n + 1 \in FirstDay .. LastDay + 1
  BY CalendarAssumption DEF CalendarAssumption
<1>1. CASE IsTradingDay(n)
  <2>1. LastBefore(n, n + 1)
    BY <1>0, <1>1 DEF LastBefore
  <2> QED
    BY <1>0, <1>1, <2>1, PreviousIsLast
<1>2. CASE ~IsTradingDay(n)
  <2>1. PICK d : d = PreviousTradingDay(n + 1) /\ LastBefore(d, n + 1)
    BY <1>0, PreviousIsLast
  <2>2. d \in n - 5 .. n /\ d # n /\ IsTradingDay(d) /\ \A e \in d + 1 .. n - 1 : ~IsTradingDay(e)
    BY <1>0, <1>2, <2>1 DEF LastBefore
  <2>3. LastBefore(d, n)
    BY <1>0, <2>2 DEF LastBefore
  <2> QED
    BY <1>0, <1>2, <2>1, <2>3, PreviousIsLast
<1> QED
  BY <1>1, <1>2

CalendarInv ==
    /\ day \in FirstDay .. LastDay /\ part \in Parts
    /\ opened = IF IsTradingDay(day) /\ part >= Session THEN day ELSE PreviousTradingDay(day)
    /\ closed = IF IsTradingDay(day) /\ part >= After THEN day ELSE PreviousTradingDay(day)

LEMMA CalendarInitially == ASSUME FirstDay <= LastDay PROVE CalendarInit => CalendarInv
BY CalendarAssumption DEF CalendarAssumption, CalendarInit, CalendarInv, Parts, Before, Session, After

LEMMA CalendarStep == CalendarInv /\ PartPasses => CalendarInv'
<1> SUFFICES ASSUME CalendarInv, PartPasses PROVE CalendarInv'
  OBVIOUS
<1> USE DEF Before, Session, After, Evening, Parts
<1>0. day \in Int /\ day \in FirstDay .. LastDay /\ part \in 0 .. 3 /\ FirstDay \in Int /\ LastDay \in Int
  BY CalendarAssumption DEF CalendarInv, CalendarAssumption
<1>1. CASE part = Evening
  <2>1. day' = day + 1 /\ day' \in FirstDay .. LastDay /\ part' = 0 /\ opened' = opened /\ closed' = closed
    BY <1>0, <1>1 DEF PartPasses
  <2>2. PreviousTradingDay(day') = IF IsTradingDay(day) THEN day ELSE PreviousTradingDay(day)
    BY <1>0, <2>1, NextMorning
  <2> QED
    BY <1>0, <1>1, <2>1, <2>2 DEF CalendarInv
<1>2. CASE part = Before
  BY <1>0, <1>2 DEF PartPasses, CalendarInv
<1>3. CASE part = Session
  BY <1>0, <1>3 DEF PartPasses, CalendarInv
<1>4. CASE part = After
  BY <1>0, <1>4 DEF PartPasses, CalendarInv
<1> QED
  BY <1>0, <1>1, <1>2, <1>3, <1>4

\* A capture belongs to the last session that has opened, whatever weekend or holiday it falls on
\* (session_date, effective_data_time).
THEOREM CaptureBelongsToLastOpenHolds ==
    ASSUME FirstDay <= LastDay PROVE CalendarSpec => []CaptureBelongsToLastOpen
<1>1. CalendarInv => CaptureBelongsToLastOpen
  <2> SUFFICES ASSUME CalendarInv PROVE CaptureBelongsToLastOpen
    OBVIOUS
  <2>1. day \in FirstDay .. LastDay + 1 /\ day \in Int /\ part \in 0 .. 3
    BY CalendarAssumption DEF CalendarInv, CalendarAssumption, Parts
  <2>2. PreviousTradingDay(day) # day
    BY <2>1, PreviousIsLast DEF LastBefore
  <2> QED
    BY <2>1, <2>2 DEF CalendarInv, CaptureBelongsToLastOpen, SessionDate, EffectiveDate, IsRegularSession,
                      Before, Session, After, Evening
<1>2. CalendarInv /\ [PartPasses]_calendarVars => CalendarInv'
  <2>1. CalendarInv /\ UNCHANGED calendarVars => CalendarInv'
    BY DEF CalendarInv, calendarVars
  <2> QED
    BY <2>1, CalendarStep
<1> QED
  BY <1>1, <1>2, CalendarInitially, PTL DEF CalendarSpec
-----------------------------------------------------------------------------
\* The watchdog of the capture.

\* What the watchdog has said and what it remembers of it.  A session is captured or silent
\* before its UTC day is over; a pass of the day after has told a silent one; and what the memory
\* holds of today was said today.
WatchdogInv ==
    /\ CalendarInv
    /\ {lastAlert, lastNote, passed} \subseteq Int /\ said \in Nat
    /\ lastAlert <= Today /\ lastNote <= Today /\ passed <= Today /\ lastNote <= said
    /\ silent \subseteq {d \in FirstDay .. LastDay : IsTradingDay(d)} /\ silent \cap captured = {}
    /\ \A d \in FirstDay - 20 .. Today - 1 : IsTradingDay(d) => d \in captured \cup silent
    /\ \A d \in silent :
        d + 1 < Today \/ (d + 1 = Today /\ passed = Today) => d + 1 \in toldDays /\ d \in named
    /\ lastAlert = Today => Missing(Today) \subseteq named /\ said = Today
    /\ named \subseteq {d \in silent : d < Today}
    /\ NeverSilent

LEMMA Moments ==
    ASSUME CalendarInv
    PROVE  /\ day \in Int /\ day \in FirstDay .. LastDay /\ part \in 0 .. 3
           /\ FirstDay \in Int /\ LastDay \in Int /\ FirstDay > 6
           /\ Today \in FirstDay .. LastDay + 1 /\ Today \in Int
           /\ HeartbeatDays \in Int /\ HeartbeatDays > 0 /\ LookbackSessions \in Int /\ LookbackSessions > 0
BY CalendarAssumption, CaptureWatchAssumption
   DEF CalendarInv, Parts, CalendarAssumption, CaptureWatchAssumption, Today, Evening

\* The sessions found missing are silent and over, and yesterday's is looked at.
LEMMA MissingAreSilent ==
    ASSUME CalendarInv, silent \subseteq {d \in FirstDay .. LastDay : IsTradingDay(d)}, silent \cap captured = {},
           \A d \in FirstDay - 20 .. Today - 1 : IsTradingDay(d) => d \in captured \cup silent
    PROVE  /\ Missing(Today) \subseteq {d \in silent : d < Today}
           /\ \A d \in silent : d + 1 = Today => d \in Missing(Today)
<1>0. Today \in Int /\ FirstDay \in Int /\ LastDay \in Int /\ Today >= FirstDay
      /\ LookbackSessions \in Int /\ LookbackSessions > 0
  BY Moments
<1>1. ASSUME NEW d \in Missing(Today) PROVE d \in silent /\ d < Today
  <2>1. d \in Today - 20 .. Today - 1 /\ IsTradingDay(d) /\ d \notin captured
    BY <1>1 DEF Missing, RecentSessions, SessionsBefore
  <2>2. d \in FirstDay - 20 .. Today - 1 /\ d < Today
    BY <1>0, <2>1
  <2> QED
    BY <2>1, <2>2
<1>2. ASSUME NEW d \in silent, d + 1 = Today PROVE d \in Missing(Today)
  <2>1. d \in Int /\ IsTradingDay(d) /\ d \notin captured
    BY <1>0
  <2>2. d \in Today - 20 .. Today - 1 /\ \A e \in Today - 20 .. Today - 1 : ~(e > d)
    BY <1>0, <1>2, <2>1
  <2>3. d \in SessionsBefore(Today) /\ {e \in SessionsBefore(Today) : e > d} = {}
    BY <2>1, <2>2 DEF SessionsBefore
  <2>4. Cardinality({e \in SessionsBefore(Today) : e > d}) < LookbackSessions
    BY <1>0, <2>3, FS_EmptySet
  <2> QED
    BY <2>1, <2>3, <2>4 DEF Missing, RecentSessions
<1> QED
  BY <1>1, <1>2

LEMMA WatchdogInitially == ASSUME FirstDay <= LastDay PROVE CaptureWatchInit => WatchdogInv
<1> SUFFICES ASSUME CaptureWatchInit PROVE WatchdogInv
  OBVIOUS
<1>1. CalendarInv
  BY CalendarInitially DEF CaptureWatchInit
<1>2. day = FirstDay /\ Today = FirstDay /\ FirstDay \in Int /\ LastDay \in Int /\ FirstDay > 6
  BY CalendarAssumption DEF CaptureWatchInit, CalendarInit, Today, Before, Evening, CalendarAssumption
<1>3. silent \subseteq {d \in FirstDay .. LastDay : IsTradingDay(d)}
      /\ captured = {d \in FirstDay - 20 .. FirstDay - 1 : IsTradingDay(d)}
  BY DEF CaptureWatchInit
<1>4. silent \cap captured = {} /\ \A d \in silent : d >= FirstDay /\ d \in Int
  BY <1>2, <1>3
<1>5. /\ lastAlert = -1 /\ lastNote = -1 /\ passed = -1 /\ said = FirstDay /\ toldDays = {} /\ named = {}
  BY DEF CaptureWatchInit, NoUtcDay
<1> QED
  BY <1>1, <1>2, <1>3, <1>4, <1>5 DEF WatchdogInv, NeverSilent

LEMMA CaptureKeepsWatchdog == WatchdogInv /\ Capture => WatchdogInv'
<1> SUFFICES ASSUME WatchdogInv, Capture PROVE WatchdogInv'
  OBVIOUS
<1>1. UNCHANGED <<calendarVars, silent, lastAlert, lastNote, passed, watchRestarts, said, toldDays, named>>
      /\ captured' = captured \cup {SessionDate(day, part)} /\ SessionDate(day, part) \notin silent
  BY DEF Capture
<1>2. CalendarInv' /\ Today' = Today
  BY <1>1 DEF WatchdogInv, CalendarInv, calendarVars, Today
<1>3. Missing(Today)' \subseteq Missing(Today)
  BY <1>1, <1>2 DEF Missing, RecentSessions, SessionsBefore
<1> QED
  BY <1>1, <1>2, <1>3 DEF WatchdogInv, NeverSilent

LEMMA CheckKeepsWatchdog == WatchdogInv /\ Check => WatchdogInv'
<1> SUFFICES ASSUME WatchdogInv, Check PROVE WatchdogInv'
  OBVIOUS
<1>1. UNCHANGED <<calendarVars, captured, silent, watchRestarts>> /\ passed' = Today
  BY DEF Check
<1>2. CalendarInv' /\ Today' = Today /\ Today \in Int /\ Today > 6 /\ HeartbeatDays \in Int /\ HeartbeatDays > 0
  BY <1>1, Moments DEF WatchdogInv, CalendarInv, calendarVars, Today
<1>3. Missing(Today)' = Missing(Today)
  BY <1>1, <1>2 DEF Missing, RecentSessions, SessionsBefore
<1>4. Missing(Today) \subseteq {d \in silent : d < Today} /\ \A d \in silent : d + 1 = Today => d \in Missing(Today)
  BY MissingAreSilent DEF WatchdogInv
<1>5. CASE Missing(Today) # {}
  <2>1. lastAlert' = Today /\ toldDays' = toldDays \cup {Today} /\ lastNote' = lastNote
    BY <1>5 DEF Check
  <2>2. said' = Today /\ named' \subseteq named \cup Missing(Today) /\ named \cup Missing(Today) \subseteq named'
    <3>1. CASE Alerts
      BY <1>5, <3>1 DEF Check
    <3>2. CASE ~Alerts
      BY <1>5, <3>2 DEF Check, Alerts, WatchdogInv
    <3> QED
      BY <3>1, <3>2
  <2>3. \A d \in silent : d + 1 < Today \/ d + 1 = Today => d + 1 \in toldDays' /\ d \in named'
    BY <1>4, <2>1, <2>2 DEF WatchdogInv
  <2> QED
    BY <1>1, <1>2, <1>3, <1>4, <2>1, <2>2, <2>3 DEF WatchdogInv, NeverSilent
<1>6. CASE Missing(Today) = {}
  <2>1. lastAlert' = -1 /\ UNCHANGED <<toldDays, named>>
        /\ lastNote' = (IF NoteIsDue THEN Today ELSE lastNote) /\ said' = IF NoteIsDue THEN Today ELSE said
    BY <1>6 DEF Check, NoUtcDay
  <2>2. \A d \in silent : d + 1 # Today
    BY <1>4, <1>6
  <2>3. lastNote' \in Int /\ said' \in Nat /\ lastNote' <= Today /\ lastNote' <= said' /\ Today - said' < HeartbeatDays
    <3>1. CASE NoteIsDue
      BY <1>2, <2>1, <3>1
    <3>2. CASE ~NoteIsDue
      <4>1. Today - lastNote < HeartbeatDays /\ lastNote \in Int /\ said \in Nat /\ lastNote <= said /\ lastNote <= Today
        BY <1>2, <3>2 DEF NoteIsDue, WatchdogInv
      <4> QED
        BY <1>2, <2>1, <3>2, <4>1
    <3> QED
      BY <3>1, <3>2
  <2> QED
    BY <1>1, <1>2, <1>3, <2>1, <2>2, <2>3 DEF WatchdogInv, NeverSilent
<1> QED
  BY <1>5, <1>6

LEMMA RestartKeepsWatchdog == WatchdogInv /\ CaptureWatchRestarts => WatchdogInv'
<1> SUFFICES ASSUME WatchdogInv, CaptureWatchRestarts PROVE WatchdogInv'
  OBVIOUS
<1>1. UNCHANGED <<calendarVars, captured, silent, said, toldDays, named>>
      /\ lastAlert' = -1 /\ lastNote' = -1 /\ passed' = -1
  BY DEF CaptureWatchRestarts, NoUtcDay
<1>2. CalendarInv' /\ Today' = Today /\ Today \in Int /\ Today > 6
  BY <1>1, Moments DEF WatchdogInv, CalendarInv, calendarVars, Today
<1> QED
  BY <1>1, <1>2 DEF WatchdogInv, NeverSilent

LEMMA TimeKeepsWatchdog == WatchdogInv /\ TimePasses => WatchdogInv'
<1> SUFFICES ASSUME WatchdogInv, TimePasses PROVE WatchdogInv'
  OBVIOUS
<1>1. UNCHANGED captureWatchVars /\ PartPasses
  BY DEF TimePasses
<1>2. CalendarInv /\ CalendarInv'
  BY <1>1, CalendarStep DEF WatchdogInv
<1>3. day \in Int /\ part \in 0 .. 3 /\ FirstDay \in Int /\ Today \in Int /\ Today >= FirstDay
  BY <1>2, Moments
<1>4. CASE part = After
  <2>1. Today = day /\ Today' = Today + 1 /\ passed = Today
    BY <1>1, <1>3, <1>4 DEF TimePasses, PartPasses, Today, After, Evening
  <2>2. IsTradingDay(Today) => Today \in captured \cup silent
    BY <1>4, <2>1 DEF TimePasses
  <2>3. \A d \in FirstDay - 20 .. Today' - 1 : d = Today \/ d \in FirstDay - 20 .. Today - 1
    BY <1>3, <2>1
  <2>4. \A d \in FirstDay - 20 .. Today' - 1 : IsTradingDay(d) => d \in captured \cup silent
    BY <2>2, <2>3 DEF WatchdogInv
  <2>5. \A d \in silent : d \in Int
    BY Moments DEF WatchdogInv
  <2>6. \A d \in silent : d + 1 < Today' => d + 1 \in toldDays /\ d \in named
    <3>1. \A d \in silent : d + 1 < Today' => d + 1 < Today \/ (d + 1 = Today /\ passed = Today)
      BY <1>3, <2>1, <2>5
    <3> QED
      BY <3>1 DEF WatchdogInv
  <2>7. named \subseteq {d \in silent : d < Today'}
    BY <1>3, <2>1, <2>5 DEF WatchdogInv
  <2> QED
    BY <1>1, <1>2, <1>3, <2>1, <2>4, <2>6, <2>7 DEF WatchdogInv, NeverSilent, captureWatchVars
<1>5. CASE part # After
  <2>1. Today' = Today
    BY <1>1, <1>3, <1>5 DEF PartPasses, Today, After, Evening
  <2>2. Missing(Today)' = Missing(Today)
    BY <1>1, <2>1 DEF Missing, RecentSessions, SessionsBefore, captureWatchVars
  <2> QED
    BY <1>1, <1>2, <2>1, <2>2 DEF WatchdogInv, NeverSilent, captureWatchVars
<1> QED
  BY <1>4, <1>5

LEMMA WatchdogStep == WatchdogInv /\ [CaptureWatchNext]_<<calendarVars, captureWatchVars>> => WatchdogInv'
<1> SUFFICES ASSUME WatchdogInv, [CaptureWatchNext]_<<calendarVars, captureWatchVars>> PROVE WatchdogInv'
  OBVIOUS
<1>1. CASE UNCHANGED <<calendarVars, captureWatchVars>>
  <2>1. UNCHANGED calendarVars /\ UNCHANGED captureWatchVars
    BY <1>1
  <2>2. CalendarInv' /\ Today' = Today
    BY <2>1 DEF WatchdogInv, CalendarInv, calendarVars, Today
  <2>3. Missing(Today)' = Missing(Today)
    BY <2>1, <2>2 DEF Missing, RecentSessions, SessionsBefore, captureWatchVars
  <2> QED
    BY <2>1, <2>2, <2>3 DEF WatchdogInv, NeverSilent, captureWatchVars
<1>2. CASE CaptureWatchNext
  BY <1>2, CaptureKeepsWatchdog, CheckKeepsWatchdog, RestartKeepsWatchdog, TimeKeepsWatchdog DEF CaptureWatchNext
<1> QED
  BY <1>1, <1>2

\* The watchdog speaks of every outage and of no other, and is heard even when there is none: for
\* every walk of days, every set of silent sessions and every restart (run_check).
THEOREM WatchdogSpeaksHolds ==
    ASSUME FirstDay <= LastDay PROVE CaptureWatchSpec => []WatchdogSpeaks
<1>1. WatchdogInv => WatchdogSpeaks
  <2> SUFFICES ASSUME WatchdogInv PROVE WatchdogSpeaks
    OBVIOUS
  <2>1. CalendarInv /\ day \in FirstDay .. LastDay + 1 /\ day \in Int /\ part \in 0 .. 3
    BY Moments DEF WatchdogInv
  <2>2. ASSUME NEW d \in named PROVE d \in silent /\ d <= closed
    <3>1. d \in silent /\ d < Today /\ d \in Int /\ IsTradingDay(d)
      BY Moments, <2>1 DEF WatchdogInv
    <3>2. CASE closed = day
      BY <2>1, <3>1, <3>2 DEF Today, Evening
    <3>3. CASE closed # day
      <4>1. closed = PreviousTradingDay(day) /\ ~(IsTradingDay(day) /\ part >= After)
        BY <2>1, <3>3 DEF CalendarInv
      <4>2. LastBefore(closed, day)
        BY <2>1, <4>1, PreviousIsLast
      <4>3. d <= day - 1
        BY <2>1, <3>1, <4>1 DEF Today, Evening, After
      <4> QED
        BY <2>1, <3>1, <4>2, <4>3 DEF LastBefore
    <3> QED
      BY <3>2, <3>3
  <2> QED
    BY <2>2 DEF WatchdogInv, WatchdogSpeaks, OutageIsTold
<1> QED
  BY <1>1, WatchdogStep, WatchdogInitially, PTL DEF CaptureWatchSpec

-----------------------------------------------------------------------------
\* The recorded decisions.

DecisionRows == [snapshot : Nat, day : Days, key : Opportunities, says : {"trade", "reject"}, outcome : {"pending", "hit"}]
RunRows == [at : {"idle", "insert", "read", "tell", "score"}, mark : Nat, unseen : SUBSET DecisionRows,
            mine : SUBSET Nat, fresh : SUBSET Nat, todo : Seq(Nat), verdict : {"none", "pending", "hit"},
            alone : BOOLEAN]

\* What a run knows of the table: the rows it inserted, until it has told them; alone, that the rows
\* it has still to score are open.
RunKnows(run, table) ==
    /\ run.at \notin {"read", "tell"} => run.mine = {}
    /\ run.at \in {"insert", "read"} => run.mark <= Len(table) /\ run.fresh = {}
    /\ run.at = "insert" =>
        /\ IsFiniteSet(run.unseen)
        /\ \A p, q \in run.unseen : p # q => ~SameKey(p, q)
    /\ run.at = "read" => \A i \in run.mine : i \in DOMAIN table /\ i > run.mark
    /\ run.at = "tell" => run.mine \subseteq run.fresh /\ run.fresh \subseteq DOMAIN table
    /\ run.at = "score" =>
        /\ \A k \in DOMAIN run.todo : run.todo[k] \in DOMAIN table
        /\ \A k, l \in DOMAIN run.todo : k # l => run.todo[k] # run.todo[l]
        /\ run.alone => \A k \in DOMAIN run.todo : table[run.todo[k]].outcome = "pending"
    /\ run.verdict # "none" => run.at = "score" /\ run.todo # <<>>

\* Whether a run may still tell a row: its watermark is below it, or it has read it.
CanTell(run, i) == (run.at \in {"insert", "read"} /\ i > run.mark) \/ (run.at = "tell" /\ i \in run.fresh)
Chance(run, i) == IF CanTell(run, i) THEN 1 ELSE 0
Cap(mixed, row, i) == IF i \in mixed \/ row.says # "trade" THEN 2 ELSE 1

AloneIsAlone(states) ==
    \A r, q \in Recorders : states[r].alone /\ states[r].at # "idle" /\ q # r => states[q].at = "idle"

\* One row per snapshot and key.
OneEach(table) == \A i, j \in DOMAIN table : i # j => ~SameKey(table[i], table[j])

DecisionsInv ==
    /\ session \in Days /\ snapshot \in [id : Nat, day : Days]
    /\ decisions \in Seq(DecisionRows) /\ tellings \in Seq(Nat) /\ Len(tellings) = Len(decisions)
    /\ OneEach(decisions)
    /\ recording \in [Recorders -> RunRows]
    /\ \A r \in Recorders : RunKnows(recording[r], decisions)
    /\ AloneIsAlone(recording)
    /\ \A i \in Ids : tellings[i] + Chance(recording["nightly"], i) + Chance(recording["manual"], i) <= Cap(shared, decisions[i], i)

\* A step of the table: a row keeps what it says, and its resolved score unless rescored.
Stands ==
    /\ OneEach(decisions')
    /\ \A i \in Ids :
         /\ [decisions'[i] EXCEPT !.outcome = "pending"] = [decisions[i] EXCEPT !.outcome = "pending"]
         /\ \/ decisions[i].outcome \in {"pending", decisions'[i].outcome}
            \/ Rescore
            \/ \E r \in Recorders : recording'[r] # recording[r] /\ ~recording[r].alone

LEMMA ListOfSet ==
    ASSUME NEW S, IsFiniteSet(S)
    PROVE  /\ Cardinality(S) \in Nat
           /\ SetToSeq(S) \in [1 .. Cardinality(S) -> S]
           /\ \A k, l \in 1 .. Cardinality(S) : k # l => SetToSeq(S)[k] # SetToSeq(S)[l]
<1>1. Cardinality(S) \in Nat /\ ExistsBijection(1 .. Cardinality(S), S)
  BY FS_CardinalityType
<1>2. \E f \in [1 .. Cardinality(S) -> S] : IsInjective(f)
  BY <1>1 DEF ExistsBijection, Bijection, Injection
<1>3. SetToSeq(S) \in [1 .. Cardinality(S) -> S] /\ IsInjective(SetToSeq(S))
  BY <1>2 DEF SetToSeq
<1> QED
  BY <1>1, <1>3 DEF IsInjective

LEMMA ListIsSeq ==
    ASSUME NEW S, NEW n \in Nat, NEW s \in [1 .. n -> S]
    PROVE  s \in Seq(S) /\ Len(s) = n /\ DOMAIN s = 1 .. n
OBVIOUS

LEMMA JoinIsSeq ==
    ASSUME NEW S, NEW s \in Seq(S), NEW t \in Seq(S)
    PROVE  /\ s \o t \in Seq(S) /\ Len(s \o t) = Len(s) + Len(t)
           /\ \A i \in 1 .. Len(s) : (s \o t)[i] = s[i]
           /\ \A i \in 1 .. Len(t) : (s \o t)[Len(s) + i] = t[i]
OBVIOUS

\* What a run knows stands while the table grows, and a run that is not disturbed finds its rows as
\* they were.
LEMMA KnowsStands ==
    ASSUME NEW run \in RunRows, NEW run2 \in RunRows, NEW table, NEW table2,
           RunKnows(run, table), Len(table) \in Nat, Len(table2) \in Nat, Len(table) <= Len(table2),
           DOMAIN table = 1 .. Len(table), DOMAIN table2 = 1 .. Len(table2),
           run2 = run \/ run2 = [run EXCEPT !.alone = FALSE],
           run2.alone /\ run.at = "score" => \A i \in DOMAIN table : table2[i].outcome = table[i].outcome
    PROVE  RunKnows(run2, table2)
<1>1. /\ run2.at = run.at /\ run2.mark = run.mark /\ run2.unseen = run.unseen /\ run2.mine = run.mine
      /\ run2.fresh = run.fresh /\ run2.todo = run.todo /\ run2.verdict = run.verdict
      /\ run2.alone => run.alone
  BY DEF RunRows
<1>2. DOMAIN table \subseteq DOMAIN table2
  OBVIOUS
<1>3. run.mark \in Nat
  BY DEF RunRows
<1> QED
  BY <1>1, <1>2, <1>3 DEF RunKnows

LEMMA ChanceStands ==
    ASSUME NEW run \in RunRows, NEW run2, run2 = run \/ run2 = [run EXCEPT !.alone = FALSE], NEW i
    PROVE  Chance(run2, i) = Chance(run, i)
BY DEF RunRows, Chance, CanTell

LEMMA ChanceIs == ASSUME NEW run, NEW i PROVE Chance(run, i) \in {0, 1}
BY DEF Chance

LEMMA DecisionsAre ==
    ASSUME DecisionsInv
    PROVE  /\ Ids = 1 .. Len(decisions) /\ DOMAIN tellings = Ids /\ Len(decisions) \in Nat
           /\ \A i \in Ids : decisions[i] \in DecisionRows /\ tellings[i] \in Nat /\ i \in Nat
           /\ \A r \in Recorders : recording[r] \in RunRows /\ RunKnows(recording[r], decisions)
BY DEF DecisionsInv, Ids

LEMMA DecisionsInitially == DecisionsInit => DecisionsInv
<1> SUFFICES ASSUME DecisionsInit PROVE DecisionsInv
  OBVIOUS
<1>1. session = 1 /\ snapshot = [id |-> 1, day |-> 1] /\ decisions = <<>> /\ tellings = <<>> /\ recording = [r \in Recorders |-> NotRecording]
  BY DEF DecisionsInit
<1>2. session \in Days /\ snapshot \in [id : Nat, day : Days]
  BY <1>1, DecisionsAssumption DEF DecisionsAssumption, Days
<1>3. NotRecording \in RunRows /\ NotRecording.at = "idle" /\ NotRecording.verdict = "none" /\ NotRecording.mine = {}
  BY DEF NotRecording, RunRows
<1>4. RunKnows(NotRecording, decisions)
  BY <1>3 DEF RunKnows
<1>5. OneEach(decisions) /\ Ids = {}
  BY <1>1 DEF OneEach, Ids
<1>6. AloneIsAlone(recording)
  BY <1>1, <1>3 DEF AloneIsAlone
<1> QED
  BY <1>1, <1>2, <1>3, <1>4, <1>5, <1>6 DEF DecisionsInv

\* Rows that stay as they are stand.
LEMMA SameRowsStand == DecisionsInv /\ decisions' = decisions => Stands
<1> SUFFICES ASSUME DecisionsInv, decisions' = decisions PROVE Stands
  OBVIOUS
<1> QED
  BY DEF DecisionsInv, Stands, OneEach

\* A step of one run alone, which leaves the table and what was told.
LEMMA OneRunMoves ==
    ASSUME DecisionsInv, NEW r \in Recorders, NEW run \in RunRows,
           recording' = [recording EXCEPT ![r] = run], UNCHANGED <<session, snapshot, decisions, tellings, shared>>,
           RunKnows(run, decisions), \A i \in Ids : Chance(run, i) <= Chance(recording[r], i),
           run.at = "idle" \/ (recording[r].at # "idle" /\ run.alone = recording[r].alone)
    PROVE  DecisionsInv' /\ Stands
<1>1. recording' \in [Recorders -> RunRows] /\ recording'[r] = run /\ \A q \in Recorders : q # r => recording'[q] = recording[q]
  BY DEF DecisionsInv
<1>2. \A q \in Recorders : RunKnows(recording'[q], decisions')
  BY <1>1 DEF DecisionsInv
<1>3. AloneIsAlone(recording')
  BY <1>1 DEF AloneIsAlone, DecisionsInv
<1>4. ASSUME NEW i \in Ids'
      PROVE  tellings'[i] + Chance(recording'["nightly"], i) + Chance(recording'["manual"], i) <= Cap(shared', decisions'[i], i)
  <2>1. i \in Ids /\ tellings'[i] = tellings[i] /\ tellings[i] \in Nat
        /\ tellings[i] + Chance(recording["nightly"], i) + Chance(recording["manual"], i) <= Cap(shared, decisions[i], i)
    BY <1>4, DecisionsAre DEF DecisionsInv, Ids
  <2>2. \A q \in Recorders : Chance(recording'[q], i) <= Chance(recording[q], i)
    <3> SUFFICES ASSUME NEW q \in Recorders PROVE Chance(recording'[q], i) <= Chance(recording[q], i)
      OBVIOUS
    <3>1. CASE q = r
      BY <1>1, <2>1, <3>1
    <3>2. CASE q # r
      BY <1>1, <3>2, ChanceIs
    <3> QED
      BY <3>1, <3>2
  <2>3. /\ Chance(recording'["nightly"], i) <= Chance(recording["nightly"], i)
        /\ Chance(recording'["manual"], i) <= Chance(recording["manual"], i)
    BY <2>2 DEF Recorders
  <2>4. /\ Chance(recording["nightly"], i) \in Int /\ Chance(recording["manual"], i) \in Int
        /\ Chance(recording'["nightly"], i) \in Int /\ Chance(recording'["manual"], i) \in Int
    BY ChanceIs
  <2>5. Cap(shared', decisions'[i], i) = Cap(shared, decisions[i], i) /\ Cap(shared, decisions[i], i) \in Nat
    BY DEF Cap
  <2> QED
    BY <2>1, <2>3, <2>4, <2>5
<1>5. Stands
  BY SameRowsStand
<1> QED
  BY <1>1, <1>2, <1>3, <1>4, <1>5 DEF DecisionsInv

LEMMA RunReadsStands == ASSUME DecisionsInv, NEW r \in Recorders, RunReads(r) PROVE DecisionsInv' /\ Stands
<1> DEFINE run == recording[r]
<1>1. run \in RunRows /\ RunKnows(run, decisions) /\ run.at = "read" /\ run.mark \in Nat
  BY DecisionsAre DEF RunReads, RunRows
<1>2. Ids = 1 .. Len(decisions) /\ Len(decisions) \in Nat
  BY DecisionsAre
<1>3. UNCHANGED <<session, snapshot, decisions, tellings, shared>>
  BY DEF RunReads
<1>4. CASE recording' = [recording EXCEPT ![r].at = "tell", ![r].mark = 0, ![r].fresh = ReadBack(recording[r].mark)]
  <2>1. PICK next : next = [run EXCEPT !.at = "tell", !.mark = 0, !.fresh = ReadBack(run.mark)]
    OBVIOUS
  <2>2. ReadBack(run.mark) = {i \in Ids : i > run.mark} /\ ReadBack(run.mark) \in SUBSET Nat
    BY <1>2 DEF ReadBack
  <2>3. next \in RunRows /\ next.at = "tell" /\ next.fresh = ReadBack(run.mark) /\ next.mine = run.mine
        /\ next.verdict = run.verdict /\ next.alone = run.alone
    BY <1>1, <2>1, <2>2 DEF RunRows
  <2>4. RunKnows(next, decisions)
    BY <1>1, <2>2, <2>3 DEF RunKnows, Ids
  <2>5. \A i \in Ids : Chance(next, i) <= Chance(run, i)
    BY <1>1, <2>2, <2>3 DEF Chance, CanTell
  <2>6. recording' = [recording EXCEPT ![r] = next]
    BY <1>4, <2>1
  <2> QED
    BY <1>1, <1>3, <2>3, <2>4, <2>5, <2>6, OneRunMoves
<1>5. CASE recording' = [recording EXCEPT ![r].at = "tell", ![r].mark = 0, ![r].mine = {}]
  <2>1. PICK next : next = [run EXCEPT !.at = "tell", !.mark = 0, !.mine = {}]
    OBVIOUS
  <2>2. run.fresh = {}
    BY <1>1 DEF RunKnows
  <2>3. next \in RunRows /\ next.at = "tell" /\ next.fresh = run.fresh /\ next.mine = {}
        /\ next.verdict = run.verdict /\ next.alone = run.alone
    BY <1>1, <2>1 DEF RunRows
  <2>4. RunKnows(next, decisions)
    BY <1>1, <2>2, <2>3 DEF RunKnows
  <2>5. \A i \in Ids : Chance(next, i) <= Chance(run, i)
    BY <1>1, <2>2, <2>3 DEF Chance, CanTell
  <2>6. recording' = [recording EXCEPT ![r] = next]
    BY <1>5, <2>1
  <2> QED
    BY <1>1, <1>3, <2>3, <2>4, <2>5, <2>6, OneRunMoves
<1> QED
  BY <1>4, <1>5 DEF RunReads

LEMMA VerdictIs == ASSUME NEW d, NEW history PROVE ScoreOf(d, history) \in {"pending", "hit"}
BY DEF ScoreOf

LEMMA RunJudgesStands == ASSUME DecisionsInv, NEW r \in Recorders, RunJudges(r) PROVE DecisionsInv' /\ Stands
<1> DEFINE run == recording[r]
<1>1. run \in RunRows /\ RunKnows(run, decisions) /\ run.at = "score" /\ run.todo # <<>>
      /\ UNCHANGED <<session, snapshot, decisions, tellings, shared>>
  BY DecisionsAre DEF RunJudges, toldVars
<1>2. PICK verdict \in {"pending", "hit"} : recording' = [recording EXCEPT ![r].verdict = verdict]
  BY VerdictIs DEF RunJudges
<1>3. PICK next : next = [run EXCEPT !.verdict = verdict]
  OBVIOUS
<1>4. next \in RunRows /\ next.at = "score" /\ next.todo = run.todo /\ next.mine = run.mine /\ next.alone = run.alone
      /\ next.fresh = run.fresh /\ next.verdict = verdict
  BY <1>1, <1>3 DEF RunRows
<1>5. RunKnows(next, decisions)
  BY <1>1, <1>4 DEF RunKnows
<1>6. \A i \in Ids : Chance(next, i) <= Chance(run, i)
  BY <1>1, <1>4 DEF Chance, CanTell
<1>7. recording' = [recording EXCEPT ![r] = next]
  BY <1>2, <1>3
<1> QED
  BY <1>1, <1>4, <1>5, <1>6, <1>7, OneRunMoves

LEMMA RunEndsStands == ASSUME DecisionsInv, NEW r \in Recorders, RunEnds(r) PROVE DecisionsInv' /\ Stands
<1>1. NotRecording \in RunRows /\ NotRecording.at = "idle" /\ NotRecording.verdict = "none" /\ NotRecording.mine = {}
  BY DEF NotRecording, RunRows
<1>2. RunKnows(NotRecording, decisions)
  BY <1>1 DEF RunKnows
<1>3. \A i \in Ids : Chance(NotRecording, i) <= Chance(recording[r], i)
  BY <1>1, ChanceIs DEF Chance, CanTell
<1> QED
  BY <1>1, <1>2, <1>3, OneRunMoves DEF RunEnds

\* The proposals of a run are as many as there are keys at most.
LEMMA ProposalsAreFinite ==
    ASSUME NEW proposed \in SUBSET Proposals, \A a, b \in proposed : a # b => ~SameKey(a, b)
    PROVE  IsFiniteSet(proposed)
<1> DEFINE f == [p \in proposed |-> p.key]
<1>1. f \in [proposed -> Opportunities] /\ \A p, q \in proposed : f[p] = f[q] => p = q
  BY DEF Proposals, SameKey
<1>2. f \in Injection(proposed, Opportunities)
  BY <1>1 DEF Injection, IsInjective
<1> QED
  BY <1>2, FS_Injection, DecisionsAssumption DEF DecisionsAssumption

LEMMA RunBeginsStands == ASSUME DecisionsInv, NEW r \in Recorders, RunBegins(r) PROVE DecisionsInv' /\ Stands
<1>1. UNCHANGED <<session, snapshot, daily, decisions, tellings, shared>> /\ recording[r].at = "idle"
  BY DEF RunBegins, toldVars
<1>2. PICK proposed \in SUBSET Proposals :
          /\ \A a, b \in proposed : a # b => ~SameKey(a, b)
          /\ recording' = [q \in Recorders |->
                IF q # r THEN Disturbed(q)
                ELSE [NotRecording EXCEPT
                        !.at = "insert", !.mark = Len(decisions), !.unseen = Unseen(proposed),
                        !.alone = \A p \in Recorders : recording[p].at = "idle"]]
  BY DEF RunBegins
<1>3. PICK next : next = [NotRecording EXCEPT
                            !.at = "insert", !.mark = Len(decisions), !.unseen = Unseen(proposed),
                            !.alone = \A p \in Recorders : recording[p].at = "idle"]
  OBVIOUS
<1>4. Len(decisions) \in Nat /\ Ids = 1 .. Len(decisions)
  BY DecisionsAre
<1>5. Unseen(proposed) \subseteq proposed /\ Unseen(proposed) \in SUBSET DecisionRows
  BY DEF Unseen, Proposals, DecisionRows, DecisionsInv
<1>6. IsFiniteSet(Unseen(proposed))
  BY <1>2, <1>5, ProposalsAreFinite, FS_Subset
<1>7. /\ next.at = "insert" /\ next.mark = Len(decisions) /\ next.unseen = Unseen(proposed)
      /\ next.alone = (\A p \in Recorders : recording[p].at = "idle")
      /\ next.mine = {} /\ next.fresh = {} /\ next.todo = <<>> /\ next.verdict = "none"
  BY <1>3 DEF NotRecording
<1>8. next \in RunRows
  <2>1. PICK alone \in BOOLEAN : alone = (\A p \in Recorders : recording[p].at = "idle")
    OBVIOUS
  <2>2. PICK unseen \in SUBSET DecisionRows : unseen = Unseen(proposed)
    BY <1>5
  <2>3. next = [at |-> "insert", mark |-> Len(decisions), unseen |-> unseen, mine |-> {}, fresh |-> {}, todo |-> <<>>,
                verdict |-> "none", alone |-> alone]
    BY <1>3, <2>1, <2>2 DEF NotRecording
  <2> QED
    BY <1>4, <2>3 DEF RunRows
<1>9. RunKnows(next, decisions)
  <2>1. \A p, q \in next.unseen : p # q => ~SameKey(p, q)
    BY <1>2, <1>5, <1>7
  <2>2. IsFiniteSet(next.unseen) /\ next.mark <= Len(decisions)
    BY <1>4, <1>6, <1>7
  <2> QED
    BY <1>7, <2>1, <2>2 DEF RunKnows
<1>10. recording'[r] = next
  BY <1>2, <1>3
<1>11. ASSUME NEW q \in Recorders, q # r
       PROVE  /\ recording'[q] \in RunRows /\ RunKnows(recording'[q], decisions)
              /\ \A i : Chance(recording'[q], i) = Chance(recording[q], i)
              /\ recording'[q].at = recording[q].at
              /\ recording'[q].at # "idle" => ~recording'[q].alone
  <2>1. recording'[q] = Disturbed(q) /\ recording[q] \in RunRows /\ RunKnows(recording[q], decisions)
    BY <1>2, <1>11, DecisionsAre
  <2>2. CASE recording[q].at = "idle"
    BY <2>1, <2>2 DEF Disturbed
  <2>3. CASE recording[q].at # "idle"
    <3>1. recording'[q] = [recording[q] EXCEPT !.alone = FALSE]
      BY <2>1, <2>3 DEF Disturbed
    <3>2. recording'[q] \in RunRows /\ recording'[q].at = recording[q].at /\ ~recording'[q].alone
      BY <2>1, <3>1 DEF RunRows
    <3>3. RunKnows(recording'[q], decisions) /\ \A i : Chance(recording'[q], i) = Chance(recording[q], i)
      <4>1. DOMAIN decisions = 1 .. Len(decisions) /\ Len(decisions) \in Nat /\ Len(decisions) <= Len(decisions)
        BY DecisionsAre DEF Ids
      <4>3. PICK run : run = recording[q]
        OBVIOUS
      <4>4. PICK run2 : run2 = recording'[q]
        OBVIOUS
      <4>5. run \in RunRows /\ run2 \in RunRows /\ RunKnows(run, decisions) /\ run2 = [run EXCEPT !.alone = FALSE]
        BY <2>1, <3>1, <3>2, <4>3, <4>4
      <4>6. RunKnows(run2, decisions)
        BY <4>1, <4>5, KnowsStands
      <4>7. \A i : Chance(run2, i) = Chance(run, i)
        BY <4>5, ChanceStands
      <4> QED
        BY <4>3, <4>4, <4>6, <4>7
    <3> QED
      BY <3>2, <3>3
  <2> QED
    BY <2>2, <2>3
<1>12. recording' \in [Recorders -> RunRows]
  BY <1>2, <1>8, <1>10, <1>11
<1>13. \A q \in Recorders : RunKnows(recording'[q], decisions')
  BY <1>1, <1>9, <1>10, <1>11
<1>14. AloneIsAlone(recording')
  BY <1>1, <1>7, <1>10, <1>11 DEF AloneIsAlone
<1>15. \A i \in Ids : Chance(next, i) = 0
  BY <1>4, <1>7 DEF Chance, CanTell
<1>16. \A i \in Ids : \A q \in Recorders : Chance(recording'[q], i) <= Chance(recording[q], i)
  BY <1>10, <1>11, <1>15, ChanceIs
<1>17. ASSUME NEW i \in Ids'
       PROVE  tellings'[i] + Chance(recording'["nightly"], i) + Chance(recording'["manual"], i) <= Cap(shared', decisions'[i], i)
  <2>1. i \in Ids /\ tellings'[i] = tellings[i] /\ tellings[i] \in Nat
        /\ tellings[i] + Chance(recording["nightly"], i) + Chance(recording["manual"], i) <= Cap(shared, decisions[i], i)
    BY <1>1, <1>17, DecisionsAre DEF DecisionsInv, Ids
  <2>2. /\ Chance(recording'["nightly"], i) <= Chance(recording["nightly"], i)
        /\ Chance(recording'["manual"], i) <= Chance(recording["manual"], i)
    BY <1>16, <2>1 DEF Recorders
  <2>3. /\ Chance(recording["nightly"], i) \in Int /\ Chance(recording["manual"], i) \in Int
        /\ Chance(recording'["nightly"], i) \in Int /\ Chance(recording'["manual"], i) \in Int
    BY ChanceIs
  <2>4. Cap(shared', decisions'[i], i) = Cap(shared, decisions[i], i) /\ Cap(shared, decisions[i], i) \in Nat
    BY <1>1 DEF Cap
  <2> QED
    BY <2>1, <2>2, <2>3, <2>4
<1> QED
  BY <1>1, <1>12, <1>13, <1>14, <1>17, SameRowsStand DEF DecisionsInv

\* The run of a step and those beside it: what DecisionsInv asks of the runs.
LEMMA RunsStand ==
    ASSUME DecisionsInv, NEW r \in Recorders, NEW run \in RunRows, recording' = [recording EXCEPT ![r] = run],
           RunKnows(run, decisions'), recording[r].at # "idle", run.alone = recording[r].alone,
           Len(decisions') \in Nat, Len(decisions) <= Len(decisions'), DOMAIN decisions' = 1 .. Len(decisions'),
           \A q \in Recorders : q # r /\ recording[q].alone /\ recording[q].at = "score"
              => \A i \in Ids : decisions'[i].outcome = decisions[i].outcome
    PROVE  /\ recording' \in [Recorders -> RunRows] /\ AloneIsAlone(recording')
           /\ \A q \in Recorders : RunKnows(recording'[q], decisions')
           /\ \A q \in Recorders : q # r => recording'[q] = recording[q]
           /\ recording'[r] = run
<1>1. recording' \in [Recorders -> RunRows] /\ recording'[r] = run /\ \A q \in Recorders : q # r => recording'[q] = recording[q]
  BY DEF DecisionsInv
<1>2. AloneIsAlone(recording')
  BY <1>1 DEF AloneIsAlone, DecisionsInv
<1>3. ASSUME NEW q \in Recorders, q # r PROVE RunKnows(recording'[q], decisions')
  <2>1. PICK other : other = recording[q]
    OBVIOUS
  <2>2. other \in RunRows /\ RunKnows(other, decisions) /\ recording'[q] = other
    BY <1>1, <1>3, <2>1, DecisionsAre
  <2>3. DOMAIN decisions = 1 .. Len(decisions) /\ Len(decisions) \in Nat
    BY DecisionsAre DEF Ids
  <2>5. other.alone /\ other.at = "score" => \A i \in DOMAIN decisions : decisions'[i].outcome = decisions[i].outcome
    BY <1>3, <2>1 DEF Ids
  <2>6. RunKnows(other, decisions')
    BY <2>2, <2>3, <2>5, KnowsStands
  <2> QED
    BY <2>2, <2>6
<1> QED
  BY <1>1, <1>2, <1>3

LEMMA RunTellsStands == ASSUME DecisionsInv, NEW r \in Recorders, RunTells(r) PROVE DecisionsInv' /\ Stands
<1> DEFINE run == recording[r]
           tells(i) == IF i \in run.fresh /\ decisions[i].says = "trade" THEN tellings[i] + 1 ELSE tellings[i]
<1>1. /\ run \in RunRows /\ RunKnows(run, decisions) /\ run.at = "tell" /\ UNCHANGED <<session, snapshot, decisions, shared>>
      /\ tellings' = [i \in Ids |-> tells(i)]
      /\ recording' = [recording EXCEPT ![r].fresh = {}, ![r].mine = {},
                                        ![r].todo = SetToSeq(Unresolved), ![r].at = "score"]
  BY DecisionsAre DEF RunTells
<1>2. Ids = 1 .. Len(decisions) /\ Len(decisions) \in Nat /\ \A i \in Ids : tellings[i] \in Nat /\ i \in Nat
  BY DecisionsAre
<1>3. \A i \in Ids : tellings'[i] = tells(i) /\ tells(i) \in Nat /\ tellings[i] <= tells(i)
  BY <1>1, <1>2
<1>4. tellings' \in Seq(Nat) /\ Len(tellings') = Len(decisions')
  <2>1. tellings' \in [1 .. Len(decisions) -> Nat]
    BY <1>1, <1>2, <1>3
  <2> QED
    BY <1>1, <1>2, <2>1, ListIsSeq
<1>5. PICK list : list = SetToSeq(Unresolved)
  OBVIOUS
<1>6. /\ list \in Seq(Nat) /\ \A k \in DOMAIN list : list[k] \in Ids /\ decisions[list[k]].outcome = "pending"
      /\ \A k, l \in DOMAIN list : k # l => list[k] # list[l]
  <2>1. IsFiniteSet(Unresolved) /\ Unresolved \subseteq Nat /\ \A i \in Unresolved : i \in Ids /\ decisions[i].outcome = "pending"
    <3>1. Unresolved \subseteq Ids /\ \A i \in Unresolved : i \in Ids /\ decisions[i].outcome = "pending"
      BY DEF Unresolved
    <3>2. IsFiniteSet(1 .. Len(decisions))
      BY <1>2, FS_Interval
    <3>3. IsFiniteSet(Unresolved)
      BY <1>2, <3>1, <3>2, FS_Subset
    <3> QED
      BY <1>2, <3>1, <3>3
  <2>2. PICK n \in Nat : list \in [1 .. n -> Unresolved] /\ \A k, l \in 1 .. n : k # l => list[k] # list[l]
    BY <1>5, <2>1, ListOfSet
  <2>3. list \in [1 .. n -> Nat]
    BY <2>1, <2>2
  <2> QED
    BY <2>1, <2>2, <2>3, ListIsSeq
<1>7. PICK next : next = [run EXCEPT !.fresh = {}, !.mine = {}, !.todo = list, !.at = "score"]
  OBVIOUS
<1>8. /\ next \in RunRows /\ next.at = "score" /\ next.fresh = {} /\ next.todo = list /\ next.mine = {}
      /\ next.alone = run.alone /\ next.verdict = run.verdict
  BY <1>1, <1>6, <1>7 DEF RunRows
<1>9. run.fresh \subseteq Ids /\ run.verdict = "none"
  BY <1>1 DEF RunKnows, Ids
<1>10. RunKnows(next, decisions')
  BY <1>1, <1>6, <1>8, <1>9 DEF RunKnows, Ids
<1>11. recording' = [recording EXCEPT ![r] = next]
  BY <1>1, <1>5, <1>7
<1>12. /\ recording' \in [Recorders -> RunRows] /\ AloneIsAlone(recording')
       /\ \A q \in Recorders : RunKnows(recording'[q], decisions')
       /\ \A q \in Recorders : q # r => recording'[q] = recording[q]
       /\ recording'[r] = next
  <2>1. Len(decisions') \in Nat /\ Len(decisions) <= Len(decisions') /\ DOMAIN decisions' = 1 .. Len(decisions')
    BY <1>1, <1>2 DEF Ids
  <2>3. \A i \in Ids : decisions'[i].outcome = decisions[i].outcome
    BY <1>1
  <2>4. recording[r].at # "idle" /\ next.alone = recording[r].alone
    BY <1>1, <1>8
  <2> QED
    BY <1>8, <1>10, <1>11, <2>1, <2>3, <2>4, RunsStand
<1>13. ASSUME NEW i \in Ids'
       PROVE  tellings'[i] + Chance(recording'["nightly"], i) + Chance(recording'["manual"], i) <= Cap(shared', decisions'[i], i)
  <2>1. i \in Ids /\ tellings[i] \in Nat
        /\ tellings[i] + Chance(recording["nightly"], i) + Chance(recording["manual"], i) <= Cap(shared, decisions[i], i)
    BY <1>1, <1>13, DecisionsAre DEF DecisionsInv, Ids
  <2>2. tellings'[i] = tells(i) /\ Chance(next, i) = 0 /\ (tells(i) = tellings[i] \/ Chance(run, i) = 1)
        /\ (tells(i) = tellings[i] \/ tells(i) = tellings[i] + 1)
    BY <1>1, <1>3, <1>8, <2>1 DEF Chance, CanTell
  <2>3. \A q \in Recorders : Chance(recording[q], i) \in {0, 1}
    BY ChanceIs
  <2>6. Cap(shared', decisions'[i], i) = Cap(shared, decisions[i], i) /\ Cap(shared, decisions[i], i) \in Nat
    BY <1>1 DEF Cap
  <2>4. CASE r = "nightly"
    BY <1>12, <2>1, <2>2, <2>3, <2>4, <2>6 DEF Recorders
  <2>5. CASE r = "manual"
    BY <1>12, <2>1, <2>2, <2>3, <2>5, <2>6 DEF Recorders
  <2> QED
    BY <2>4, <2>5 DEF Recorders
<1> QED
  BY <1>1, <1>4, <1>12, <1>13, SameRowsStand DEF DecisionsInv

\* A row whose score is written says what it said.
LEMMA ScoredRow ==
    ASSUME DecisionsInv, NEW h \in Ids, NEW verdict \in {"pending", "hit"},
           decisions' = [decisions EXCEPT ![h].outcome = verdict]
    PROVE  /\ decisions' \in Seq(DecisionRows) /\ Len(decisions') = Len(decisions) /\ Ids' = Ids
           /\ \A i \in Ids : i # h => decisions'[i] = decisions[i]
           /\ \A i \in Ids : decisions'[i].says = decisions[i].says
           /\ \A i \in Ids : [decisions'[i] EXCEPT !.outcome = "pending"] = [decisions[i] EXCEPT !.outcome = "pending"]
           /\ OneEach(decisions')
<1>1. Ids = 1 .. Len(decisions) /\ Len(decisions) \in Nat /\ \A i \in Ids : decisions[i] \in DecisionRows
  BY DecisionsAre
<1>2. PICK row : row = [decisions[h] EXCEPT !.outcome = verdict]
  OBVIOUS
<1>3. decisions[h] \in DecisionRows
  BY <1>1
<1>4. /\ row \in DecisionRows /\ row.day = decisions[h].day /\ row.key = decisions[h].key /\ row.says = decisions[h].says
      /\ row.snapshot = decisions[h].snapshot
      /\ [row EXCEPT !.outcome = "pending"] = [decisions[h] EXCEPT !.outcome = "pending"]
  BY <1>2, <1>3 DEF DecisionRows
<1>5. decisions' = [decisions EXCEPT ![h] = row]
  BY <1>2
<1>6. decisions \in Seq(DecisionRows)
  BY DEF DecisionsInv
<1>7. decisions' \in Seq(DecisionRows) /\ Len(decisions') = Len(decisions) /\ Ids' = Ids
  BY <1>1, <1>4, <1>5, <1>6 DEF Ids
<1>8. decisions'[h] = row /\ \A i \in Ids : i # h => decisions'[i] = decisions[i]
  BY <1>5 DEF Ids
<1>9. \A i \in Ids : decisions'[i].snapshot = decisions[i].snapshot /\ decisions'[i].key = decisions[i].key
  BY <1>4, <1>8
<1>10. OneEach(decisions')
  BY <1>7, <1>9 DEF OneEach, DecisionsInv, SameKey, Ids
<1> QED
  BY <1>4, <1>7, <1>8, <1>10

LEMMA RunScoresStands ==
    ASSUME DecisionsInv, NEW r \in Recorders, RunScores(r)
    PROVE  DecisionsInv' /\ Stands /\ Ids' = Ids /\ \A i \in Ids : decisions'[i].says = decisions[i].says
<1> DEFINE run == recording[r]
<1>1. /\ run \in RunRows /\ RunKnows(run, decisions) /\ run.verdict # "none"
      /\ UNCHANGED <<session, snapshot, tellings, shared>>
      /\ decisions' = [decisions EXCEPT ![Head(run.todo)].outcome = run.verdict]
      /\ recording' = [recording EXCEPT ![r].todo = Tail(@), ![r].verdict = "none"]
  BY DecisionsAre DEF RunScores, toldVars
<1>2. run.at = "score" /\ run.todo # <<>> /\ run.todo \in Seq(Nat) /\ run.verdict \in {"pending", "hit"}
  BY <1>1 DEF RunKnows, RunRows
<1>3. PICK todo : todo = run.todo
  OBVIOUS
<1>4. PICK h : h = Head(todo)
  OBVIOUS
<1>5. /\ h \in Ids /\ Tail(todo) \in Seq(Nat)
      /\ \A k \in DOMAIN Tail(todo) : k \in Nat /\ k + 1 \in DOMAIN todo /\ Tail(todo)[k] = todo[k + 1] /\ k + 1 # 1 /\ 1 \in DOMAIN todo
      /\ h = todo[1] /\ 1 \in DOMAIN todo
  <2>1. todo \in Seq(Nat) /\ todo # <<>>
    BY <1>2, <1>3
  <2>2. 1 \in DOMAIN todo /\ h = todo[1] /\ Tail(todo) \in Seq(Nat)
    BY <1>4, <2>1
  <2>3. \A k \in DOMAIN Tail(todo) : k \in Nat /\ k + 1 \in DOMAIN todo /\ Tail(todo)[k] = todo[k + 1] /\ k + 1 # 1
    BY <2>1
  <2>4. h \in Ids
    BY <1>1, <1>2, <1>3, <2>2 DEF RunKnows, Ids
  <2> QED
    BY <2>2, <2>3, <2>4
<1>6. /\ \A k \in DOMAIN todo : todo[k] \in Ids
      /\ \A k, l \in DOMAIN todo : k # l => todo[k] # todo[l]
      /\ run.alone => \A k \in DOMAIN todo : decisions[todo[k]].outcome = "pending"
  BY <1>1, <1>2, <1>3 DEF RunKnows, Ids
<1>7. /\ decisions' \in Seq(DecisionRows) /\ Len(decisions') = Len(decisions) /\ Ids' = Ids
      /\ \A i \in Ids : i # h => decisions'[i] = decisions[i]
      /\ \A i \in Ids : decisions'[i].says = decisions[i].says
      /\ \A i \in Ids : [decisions'[i] EXCEPT !.outcome = "pending"] = [decisions[i] EXCEPT !.outcome = "pending"]
      /\ OneEach(decisions')
  BY <1>1, <1>2, <1>3, <1>4, <1>5, ScoredRow
<1>8. PICK next : next = [run EXCEPT !.todo = Tail(todo), !.verdict = "none"]
  OBVIOUS
<1>9. /\ next \in RunRows /\ next.at = "score" /\ next.todo = Tail(todo) /\ next.verdict = "none" /\ next.mine = {}
      /\ next.alone = run.alone /\ next.fresh = run.fresh
  BY <1>1, <1>2, <1>5, <1>8 DEF RunRows, RunKnows
<1>10. RunKnows(next, decisions')
  <2>2. \A k \in DOMAIN next.todo : next.todo[k] \in Ids' /\ next.todo[k] # h
    BY <1>5, <1>6, <1>7, <1>9
  <2>3. \A k, l \in DOMAIN next.todo : k # l => next.todo[k] # next.todo[l]
    <3> SUFFICES ASSUME NEW k \in DOMAIN Tail(todo), NEW l \in DOMAIN Tail(todo), k # l PROVE Tail(todo)[k] # Tail(todo)[l]
      BY <1>9
    <3>1. k + 1 # l + 1
      BY <1>5
    <3> QED
      BY <1>5, <1>6, <3>1
  <2>4. next.alone => \A k \in DOMAIN next.todo : decisions'[next.todo[k]].outcome = "pending"
    <3> SUFFICES ASSUME run.alone, NEW k \in DOMAIN Tail(todo) PROVE decisions'[Tail(todo)[k]].outcome = "pending"
      BY <1>9
    <3>1. k + 1 \in DOMAIN todo /\ Tail(todo)[k] = todo[k + 1]
      BY <1>5
    <3>2. decisions[todo[k + 1]].outcome = "pending" /\ todo[k + 1] \in Ids
      BY <1>6, <3>1
    <3>3. Tail(todo)[k] # h
      BY <1>9, <2>2
    <3> QED
      BY <1>7, <3>1, <3>2, <3>3
  <2>5. \A k \in DOMAIN next.todo : next.todo[k] \in DOMAIN decisions'
    BY <2>2 DEF Ids
  <2> QED
    BY <1>9, <2>3, <2>4, <2>5 DEF RunKnows
<1>11. recording' = [recording EXCEPT ![r] = next]
  BY <1>1, <1>3, <1>8
<1>12. /\ recording' \in [Recorders -> RunRows] /\ AloneIsAlone(recording')
       /\ \A q \in Recorders : RunKnows(recording'[q], decisions')
       /\ \A q \in Recorders : q # r => recording'[q] = recording[q]
       /\ recording'[r] = next
  <2>1. Len(decisions') \in Nat /\ Len(decisions) <= Len(decisions') /\ DOMAIN decisions' = 1 .. Len(decisions')
    BY <1>7, DecisionsAre DEF Ids
  <2>3. \A q \in Recorders : q # r /\ recording[q].alone /\ recording[q].at = "score"
              => \A i \in Ids : decisions'[i].outcome = decisions[i].outcome
    BY <1>2 DEF DecisionsInv, AloneIsAlone
  <2>4. recording[r].at # "idle" /\ next.alone = recording[r].alone
    BY <1>2, <1>9
  <2> QED
    BY <1>9, <1>10, <1>11, <2>1, <2>3, <2>4, RunsStand
<1>13. \A i : \A q \in Recorders : Chance(recording'[q], i) = Chance(recording[q], i)
  <2>1. \A i : Chance(next, i) = Chance(run, i)
    BY <1>2, <1>9 DEF Chance, CanTell
  <2> QED
    BY <1>12, <2>1
<1>14. \A i \in Ids' : tellings'[i] + Chance(recording'["nightly"], i) + Chance(recording'["manual"], i) <= Cap(shared', decisions'[i], i)
  <2>1. \A i \in Ids : Cap(shared', decisions'[i], i) = Cap(shared, decisions[i], i)
    BY <1>1, <1>7 DEF Cap
  <2> QED
    BY <1>1, <1>7, <1>13, <2>1 DEF DecisionsInv, Recorders
<1>15. Stands
  <2>1. ASSUME NEW i \in Ids
        PROVE  \/ decisions[i].outcome \in {"pending", decisions'[i].outcome}
               \/ \E q \in Recorders : recording'[q] # recording[q] /\ ~recording[q].alone
    <3>1. CASE i # h
      BY <1>7, <3>1
    <3>2. CASE i = h /\ run.alone
      BY <1>5, <1>6, <3>2
    <3>3. CASE ~run.alone
      <4>1. recording'[r] # recording[r]
        BY <1>1, <1>9, <1>12
      <4> QED
        BY <3>3, <4>1
    <3> QED
      BY <3>1, <3>2, <3>3
  <2> QED
    BY <1>7, <2>1 DEF Stands
<1>16. session' \in Days /\ snapshot' \in [id : Nat, day : Days] /\ tellings' \in Seq(Nat) /\ Len(tellings') = Len(decisions')
  BY <1>1, <1>7 DEF DecisionsInv
<1> QED
  BY <1>7, <1>12, <1>14, <1>15, <1>16 DEF DecisionsInv

LEMMA RunInsertsStands ==
    ASSUME DecisionsInv, NEW r \in Recorders, RunInserts(r)
    PROVE  DecisionsInv' /\ Stands /\ Ids \subseteq Ids' /\ \A i \in Ids : decisions'[i] = decisions[i] /\ tellings'[i] = tellings[i]
<1> DEFINE run == recording[r]
<1>1. PICK added : added = IF \E p \in run.unseen : \E i \in Ids : SameKey(p, decisions[i]) THEN {} ELSE run.unseen
  OBVIOUS
<1>2. PICK list : list = SetToSeq(added)
  OBVIOUS
<1>3. PICK n : n = Cardinality(added)
  OBVIOUS
<1>4. PICK zeros : zeros = [i \in 1 .. n |-> 0]
  OBVIOUS
<1>5. /\ run \in RunRows /\ RunKnows(run, decisions) /\ run.at = "insert" /\ session' = session /\ snapshot' = snapshot
      /\ shared' = IF \E q \in Recorders \ {r} : TakesForItsOwn(q)
                   THEN shared \cup {i \in DOMAIN decisions' \ Ids : decisions'[i].says = "trade"} ELSE shared
      /\ decisions' = decisions \o list /\ tellings' = tellings \o zeros
      /\ recording' = [recording EXCEPT ![r].unseen = {},
                                        ![r].mine = {i \in DOMAIN decisions' \ Ids : decisions'[i].says = "trade"},
                                        ![r].at = IF added = {} THEN "tell" ELSE "read"]
  BY <1>1, <1>2, <1>3, <1>4, DecisionsAre DEF RunInserts
<1>6. /\ run.mark <= Len(decisions) /\ run.mark \in Nat /\ run.fresh = {} /\ run.mine = {} /\ run.verdict = "none"
      /\ IsFiniteSet(run.unseen) /\ run.unseen \subseteq DecisionRows
      /\ \A p, q \in run.unseen : p # q => ~SameKey(p, q)
  BY <1>5 DEF RunKnows, RunRows
<1>7. /\ added \subseteq run.unseen /\ IsFiniteSet(added)
      /\ \A p \in added : \A i \in Ids : ~SameKey(p, decisions[i])
  <2>1. added \subseteq run.unseen /\ \A p \in added : \A i \in Ids : ~SameKey(p, decisions[i])
    BY <1>1
  <2> QED
    BY <1>6, <2>1, FS_Subset
<1>8. n \in Nat /\ list \in [1 .. n -> added] /\ \A k, l \in 1 .. n : k # l => list[k] # list[l]
  BY <1>2, <1>3, <1>7, ListOfSet
<1>9. list \in Seq(DecisionRows) /\ Len(list) = n /\ zeros \in Seq(Nat) /\ Len(zeros) = n
      /\ \A k \in 1 .. n : list[k] \in added /\ zeros[k] = 0
  <2>1. list \in [1 .. n -> DecisionRows] /\ zeros \in [1 .. n -> Nat]
    BY <1>4, <1>6, <1>7, <1>8
  <2> QED
    BY <1>4, <1>8, <2>1, ListIsSeq
<1>10. Ids = 1 .. Len(decisions) /\ Len(decisions) \in Nat /\ Len(tellings) = Len(decisions)
       /\ decisions \in Seq(DecisionRows) /\ tellings \in Seq(Nat) /\ \A i \in Ids : tellings[i] \in Nat /\ i \in Nat
  BY DecisionsAre DEF DecisionsInv
<1>11. /\ decisions' \in Seq(DecisionRows) /\ Len(decisions') = Len(decisions) + n /\ tellings' \in Seq(Nat)
       /\ Len(tellings') = Len(decisions')
       /\ \A i \in Ids : decisions'[i] = decisions[i] /\ tellings'[i] = tellings[i]
       /\ \A k \in 1 .. n : decisions'[Len(decisions) + k] = list[k] /\ tellings'[Len(decisions) + k] = 0
  <2>1. /\ decisions' \in Seq(DecisionRows) /\ Len(decisions') = Len(decisions) + n
        /\ \A i \in 1 .. Len(decisions) : decisions'[i] = decisions[i]
        /\ \A k \in 1 .. n : decisions'[Len(decisions) + k] = list[k]
    <3>1. PICK table \in Seq(DecisionRows) : table = decisions
      BY <1>10
    <3>2. PICK new \in Seq(DecisionRows) : new = list
      BY <1>9
    <3>3. /\ table \o new \in Seq(DecisionRows) /\ Len(table \o new) = Len(table) + Len(new)
          /\ \A i \in 1 .. Len(table) : (table \o new)[i] = table[i]
          /\ \A i \in 1 .. Len(new) : (table \o new)[Len(table) + i] = new[i]
      BY JoinIsSeq
    <3>4. decisions' = table \o new /\ Len(new) = n
      BY <1>5, <1>9, <3>1, <3>2
    <3> QED
      BY <3>1, <3>2, <3>3, <3>4
  <2>2. /\ tellings' \in Seq(Nat) /\ Len(tellings') = Len(tellings) + n
        /\ \A i \in 1 .. Len(tellings) : tellings'[i] = tellings[i]
        /\ \A k \in 1 .. n : tellings'[Len(tellings) + k] = zeros[k]
    <3>1. PICK tells \in Seq(Nat) : tells = tellings
      BY <1>10
    <3>2. PICK none \in Seq(Nat) : none = zeros
      BY <1>9
    <3>3. /\ tells \o none \in Seq(Nat) /\ Len(tells \o none) = Len(tells) + Len(none)
          /\ \A i \in 1 .. Len(tells) : (tells \o none)[i] = tells[i]
          /\ \A i \in 1 .. Len(none) : (tells \o none)[Len(tells) + i] = none[i]
      BY JoinIsSeq
    <3>4. tellings' = tells \o none /\ Len(none) = n
      BY <1>5, <1>9, <3>1, <3>2
    <3> QED
      BY <3>1, <3>2, <3>3, <3>4
  <2> QED
    BY <1>9, <1>10, <2>1, <2>2
<1>12. /\ DOMAIN decisions' = 1 .. Len(decisions) + n /\ Ids' = 1 .. Len(decisions) + n
       /\ \A i \in Ids' : i \in Ids \/ (i \notin Ids /\ i - Len(decisions) \in 1 .. n /\ i = Len(decisions) + (i - Len(decisions)))
  BY <1>8, <1>10, <1>11 DEF Ids
<1>13. ASSUME NEW i \in Ids', i \notin Ids
       PROVE  tellings'[i] = 0 /\ decisions'[i] \in added /\ i > Len(decisions)
              /\ \E k \in 1 .. n : i = Len(decisions) + k /\ decisions'[i] = list[k]
  <2>1. PICK k \in 1 .. n : i = Len(decisions) + k
    BY <1>12, <1>13
  <2>2. decisions'[i] = list[k] /\ tellings'[i] = 0
    BY <1>11, <2>1
  <2> QED
    BY <1>8, <1>9, <1>10, <2>1, <2>2
<1>14. OneEach(decisions')
  <2> SUFFICES ASSUME NEW i \in Ids', NEW j \in Ids', i # j PROVE ~SameKey(decisions'[i], decisions'[j])
    BY <1>12 DEF OneEach
  <2>1. CASE i \in Ids /\ j \in Ids
    BY <1>11, <2>1 DEF DecisionsInv, OneEach, Ids
  <2>2. CASE i \in Ids /\ j \notin Ids
    <3>1. ~SameKey(decisions'[j], decisions[i]) /\ decisions'[i] = decisions[i]
      BY <1>7, <1>11, <1>13, <2>2
    <3> QED
      BY <3>1 DEF SameKey
  <2>3. CASE i \notin Ids /\ j \in Ids
    BY <1>7, <1>11, <1>13, <2>3
  <2>4. CASE i \notin Ids /\ j \notin Ids
    <3>1. PICK k \in 1 .. n : i = Len(decisions) + k /\ decisions'[i] = list[k]
      BY <1>13, <2>4
    <3>2. PICK l \in 1 .. n : j = Len(decisions) + l /\ decisions'[j] = list[l]
      BY <1>13, <2>4
    <3>3. k # l /\ list[k] # list[l]
      BY <1>8, <3>1, <3>2
    <3> QED
      BY <1>6, <1>7, <1>9, <3>1, <3>2, <3>3
  <2> QED
    BY <2>1, <2>2, <2>3, <2>4
<1>15. PICK mine : mine = {i \in DOMAIN decisions' \ Ids : decisions'[i].says = "trade"}
  OBVIOUS
<1>16. mine \in SUBSET Nat /\ (\A i \in mine : i \in DOMAIN decisions' /\ i > Len(decisions)) /\ (added = {} => mine = {})
  <2>1. \A i \in mine : i \in Ids' /\ i \notin Ids /\ i \in Nat
    BY <1>8, <1>10, <1>12, <1>15
  <2>2. \A i \in mine : i > Len(decisions) /\ decisions'[i] \in added
    BY <1>13, <2>1
  <2> QED
    BY <1>12, <2>1, <2>2
<1>17. PICK at \in {"tell", "read"} : at = IF added = {} THEN "tell" ELSE "read"
  OBVIOUS
<1>18. PICK next : next = [run EXCEPT !.unseen = {}, !.mine = mine, !.at = at]
  OBVIOUS
<1>19. /\ next \in RunRows /\ next.at = at /\ next.mine = mine /\ next.mark = run.mark /\ next.fresh = {}
       /\ next.alone = run.alone /\ next.verdict = "none"
  BY <1>5, <1>6, <1>16, <1>17, <1>18 DEF RunRows
<1>20. RunKnows(next, decisions')
  <2>1. \A i \in mine : i \in DOMAIN decisions' /\ i > run.mark
    BY <1>6, <1>10, <1>12, <1>16
  <2>2. run.mark <= Len(decisions')
    BY <1>6, <1>8, <1>10, <1>11
  <2>3. at = "tell" => mine = {}
    BY <1>16, <1>17
  <2> QED
    BY <1>17, <1>19, <2>1, <2>2, <2>3 DEF RunKnows
<1>21. recording' = [recording EXCEPT ![r] = next]
  BY <1>5, <1>15, <1>17, <1>18
<1>22. /\ recording' \in [Recorders -> RunRows] /\ AloneIsAlone(recording')
       /\ \A q \in Recorders : RunKnows(recording'[q], decisions')
       /\ \A q \in Recorders : q # r => recording'[q] = recording[q]
       /\ recording'[r] = next
  <2>1. Len(decisions') \in Nat /\ Len(decisions) <= Len(decisions') /\ DOMAIN decisions' = 1 .. Len(decisions')
    BY <1>8, <1>10, <1>11, <1>12
  <2>3. \A i \in Ids : decisions'[i].outcome = decisions[i].outcome
    BY <1>11
  <2>4. recording[r].at # "idle" /\ next.alone = recording[r].alone
    BY <1>5, <1>19
  <2> QED
    BY <1>19, <1>20, <1>21, <2>1, <2>3, <2>4, RunsStand
<1>23. \A i \in Ids : \A q \in Recorders : Chance(recording'[q], i) <= Chance(recording[q], i)
  <2>1. \A i \in Ids : Chance(next, i) <= Chance(run, i)
    <3>1. run.at = "insert"
      BY <1>5
    <3> QED
      BY <1>17, <1>19, <3>1 DEF Chance, CanTell
  <2>2. \A i \in Ids : \A q \in Recorders : q # r => Chance(recording'[q], i) <= Chance(recording[q], i)
    BY <1>22, ChanceIs
  <2> QED
    BY <1>22, <2>1, <2>2
<1>24. ASSUME NEW i \in Ids'
       PROVE  tellings'[i] + Chance(recording'["nightly"], i) + Chance(recording'["manual"], i) <= Cap(shared', decisions'[i], i)
  <2>1. /\ Chance(recording["nightly"], i) \in {0, 1} /\ Chance(recording["manual"], i) \in {0, 1}
        /\ Chance(recording'["nightly"], i) \in {0, 1} /\ Chance(recording'["manual"], i) \in {0, 1}
    BY ChanceIs
  <2>2. CASE i \in Ids
    <3>1. tellings'[i] = tellings[i] /\ tellings[i] \in Nat
          /\ tellings[i] + Chance(recording["nightly"], i) + Chance(recording["manual"], i) <= Cap(shared, decisions[i], i)
      BY <1>10, <1>11, <2>2 DEF DecisionsInv
    <3>2. /\ Chance(recording'["nightly"], i) <= Chance(recording["nightly"], i)
          /\ Chance(recording'["manual"], i) <= Chance(recording["manual"], i)
      BY <1>23, <2>2 DEF Recorders
    <3>3. /\ Cap(shared, decisions[i], i) <= Cap(shared', decisions'[i], i)
          /\ Cap(shared, decisions[i], i) \in Nat /\ Cap(shared', decisions'[i], i) \in Nat
      <4>1. decisions'[i] = decisions[i] /\ (i \in shared => i \in shared')
        BY <1>5, <1>11, <2>2
      <4> QED
        BY <4>1 DEF Cap
    <3> QED
      BY <2>1, <3>1, <3>2, <3>3
  <2>3. CASE i \notin Ids /\ \E q \in Recorders \ {r} : TakesForItsOwn(q)
    <3>1. i \in shared' \/ decisions'[i].says # "trade"
      BY <1>5, <1>12, <2>3 DEF Ids
    <3> QED
      BY <1>13, <2>1, <2>3, <3>1 DEF Cap
  <2>4. CASE i \notin Ids /\ ~\E q \in Recorders \ {r} : TakesForItsOwn(q)
    <3>1. ASSUME NEW q \in Recorders, q # r PROVE Chance(recording'[q], i) = 0
      <4>1. recording[q].at \notin {"insert", "read"} /\ recording'[q] = recording[q] /\ RunKnows(recording[q], decisions)
        BY <1>22, <2>4, <3>1, DecisionsAre DEF TakesForItsOwn
      <4> QED
        BY <2>4, <4>1 DEF RunKnows, Chance, CanTell, Ids
    <3>2. tellings'[i] = 0 /\ (Chance(recording'["nightly"], i) = 0 \/ Chance(recording'["manual"], i) = 0)
      BY <1>13, <2>4, <3>1 DEF Recorders
    <3> QED
      BY <2>1, <3>2 DEF Cap
  <2> QED
    BY <2>2, <2>3, <2>4
<1>25. Stands
  BY <1>11, <1>14 DEF Stands
<1>26. Ids \subseteq Ids'
  BY <1>8, <1>10, <1>12
<1> QED
  BY <1>5, <1>11, <1>14, <1>22, <1>24, <1>25, <1>26 DEF DecisionsInv

\* A rescore writes one score beside every run under way, which it disturbs.
LEMMA RescoreStands == ASSUME DecisionsInv, Rescore PROVE DecisionsInv' /\ Stands
<1>1. UNCHANGED <<session, snapshot, daily, tellings, shared>> /\ recording' = [q \in Recorders |-> Disturbed(q)]
  BY DEF Rescore, toldVars
<1>2. PICK h \in Ids : decisions' = [decisions EXCEPT ![h].outcome = ScoreOf(decisions[h].day, daily)]
  BY DEF Rescore
<1>3. PICK verdict \in {"pending", "hit"} : decisions' = [decisions EXCEPT ![h].outcome = verdict]
  BY <1>2, VerdictIs
<1>4. /\ decisions' \in Seq(DecisionRows) /\ Len(decisions') = Len(decisions) /\ Ids' = Ids
      /\ \A i \in Ids : decisions'[i].says = decisions[i].says
      /\ \A i \in Ids : [decisions'[i] EXCEPT !.outcome = "pending"] = [decisions[i] EXCEPT !.outcome = "pending"]
      /\ OneEach(decisions')
  BY <1>3, ScoredRow
<1>5. /\ DOMAIN decisions = 1 .. Len(decisions) /\ DOMAIN decisions' = 1 .. Len(decisions')
      /\ Len(decisions) \in Nat /\ Len(decisions') \in Nat /\ Len(decisions) <= Len(decisions')
  <2>1. Len(decisions) \in Nat /\ DOMAIN decisions = 1 .. Len(decisions)
    BY DecisionsAre DEF Ids
  <2> QED
    BY <1>4, <2>1 DEF Ids
<1>6. ASSUME NEW q \in Recorders
      PROVE  /\ recording'[q] \in RunRows /\ RunKnows(recording'[q], decisions')
             /\ \A i : Chance(recording'[q], i) = Chance(recording[q], i)
             /\ recording'[q].at # "idle" => ~recording'[q].alone
  <2>1. PICK run : run = recording[q]
    OBVIOUS
  <2>2. PICK run2 : run2 = recording'[q]
    OBVIOUS
  <2>3. run \in RunRows /\ RunKnows(run, decisions) /\ run2 = IF run.at = "idle" THEN run ELSE [run EXCEPT !.alone = FALSE]
    BY <1>1, <2>1, <2>2, DecisionsAre DEF Disturbed
  <2>4. /\ run2 = run \/ run2 = [run EXCEPT !.alone = FALSE]
        /\ run2 \in RunRows /\ (run2.at # "idle" => ~run2.alone) /\ run2.at = run.at
    BY <2>3 DEF RunRows
  <2>5. ~(run2.alone /\ run.at = "score")
    BY <2>4
  <2>6. RunKnows(run2, decisions')
    <3>1. PICK table : table = decisions
      OBVIOUS
    <3>3. PICK table2 : table2 = decisions'
      OBVIOUS
    <3>5. /\ RunKnows(run, table) /\ Len(table) \in Nat /\ Len(table2) \in Nat /\ Len(table) <= Len(table2)
          /\ DOMAIN table = 1 .. Len(table) /\ DOMAIN table2 = 1 .. Len(table2)
      BY <1>5, <2>3, <3>1, <3>3
    <3>6. run \in RunRows
      BY <2>1, DecisionsAre
    <3>7. RunKnows(run2, table2)
      BY <2>4, <2>5, <3>5, <3>6, KnowsStands
    <3> QED
      BY <3>3, <3>7
  <2>7. \A i : Chance(run2, i) = Chance(run, i)
    BY <2>3, <2>4, ChanceStands
  <2> QED
    BY <2>1, <2>2, <2>4, <2>6, <2>7
<1>7. recording' \in [Recorders -> RunRows]
  BY <1>1, <1>6
<1>8. AloneIsAlone(recording')
  BY <1>6 DEF AloneIsAlone
<1>9. \A i \in Ids' : tellings'[i] + Chance(recording'["nightly"], i) + Chance(recording'["manual"], i) <= Cap(shared', decisions'[i], i)
  <2>1. \A i \in Ids : Cap(shared', decisions'[i], i) = Cap(shared, decisions[i], i)
    BY <1>1, <1>4 DEF Cap
  <2> QED
    BY <1>1, <1>4, <1>6, <2>1 DEF DecisionsInv, Recorders
<1>10. session' \in Days /\ snapshot' \in [id : Nat, day : Days] /\ tellings' \in Seq(Nat) /\ Len(tellings') = Len(decisions')
  BY <1>1, <1>4 DEF DecisionsInv
<1>11. Stands
  BY <1>4 DEF Stands
<1> QED
  BY <1>4, <1>6, <1>7, <1>8, <1>9, <1>10, <1>11 DEF DecisionsInv

\* A step that leaves the table, the runs and what was told.
LEMMA QuietStands ==
    ASSUME DecisionsInv, UNCHANGED <<decisions, recording, tellings, shared>>, session' \in Days,
           snapshot' \in [id : Nat, day : Days]
    PROVE  DecisionsInv' /\ Stands
<1>1. Ids' = Ids
  BY DEF Ids
<1> QED
  BY <1>1, SameRowsStand DEF DecisionsInv

LEMMA DecisionsStep == DecisionsInv /\ [DecisionsNext]_decisionsVars => DecisionsInv' /\ Stands
<1> SUFFICES ASSUME DecisionsInv, [DecisionsNext]_decisionsVars PROVE DecisionsInv' /\ Stands
  OBVIOUS
<1>1. CASE DayEnds
  <2>1. session' \in Days
    BY <1>1, DecisionsAssumption DEF DayEnds, DecisionsInv, DecisionsAssumption, Days
  <2> QED
    BY <1>1, <2>1, QuietStands DEF DayEnds, toldVars, DecisionsInv
<1>2. CASE BarsUpdate
  BY <1>2, QuietStands DEF BarsUpdate, toldVars, DecisionsInv
<1>3. CASE Rescore
  BY <1>3, RescoreStands
<1>4. ASSUME NEW r \in Recorders, RunBegins(r) PROVE DecisionsInv' /\ Stands
  BY <1>4, RunBeginsStands
<1>5. ASSUME NEW r \in Recorders, RunInserts(r) PROVE DecisionsInv' /\ Stands
  BY <1>5, RunInsertsStands
<1>6. ASSUME NEW r \in Recorders, RunReads(r) PROVE DecisionsInv' /\ Stands
  BY <1>6, RunReadsStands
<1>7. ASSUME NEW r \in Recorders, RunTells(r) PROVE DecisionsInv' /\ Stands
  BY <1>7, RunTellsStands
<1>8. ASSUME NEW r \in Recorders, RunJudges(r) PROVE DecisionsInv' /\ Stands
  BY <1>8, RunJudgesStands
<1>9. ASSUME NEW r \in Recorders, RunScores(r) PROVE DecisionsInv' /\ Stands
  BY <1>9, RunScoresStands
<1>10. ASSUME NEW r \in Recorders, RunEnds(r) PROVE DecisionsInv' /\ Stands
  BY <1>10, RunEndsStands
<1>11. CASE UNCHANGED decisionsVars
  BY <1>11, QuietStands DEF decisionsVars, toldVars, DecisionsInv
<1>12. CASE Captured
  <2>1. snapshot' \in [id : Nat, day : Days]
    BY <1>12 DEF Captured, DecisionsInv
  <2> QED
    BY <1>12, <2>1, QuietStands DEF Captured, toldVars, DecisionsInv
<1> QED
  BY <1>1, <1>2, <1>3, <1>4, <1>5, <1>6, <1>7, <1>8, <1>9, <1>10, <1>11, <1>12 DEF DecisionsNext

LEMMA DecisionsInvHolds == DecisionsSpec => []DecisionsInv
<1>1. DecisionsInv /\ [DecisionsNext]_decisionsVars => DecisionsInv'
  BY DecisionsStep
<1> QED
  BY <1>1, DecisionsInitially, PTL DEF DecisionsSpec

\* A recorded row stands: it says what it said, there is one per snapshot and key, and only a
\* rescore or a run that had company rewrites a resolved score.
THEOREM CommitmentsStandHolds == DecisionsSpec => CommitmentsStand
<1> DEFINE Kept ==
       /\ \A i, j \in DOMAIN decisions' : i # j => ~SameKey(decisions'[i], decisions'[j])
       /\ \A i \in Ids :
            /\ [decisions'[i] EXCEPT !.outcome = "pending"] = [decisions[i] EXCEPT !.outcome = "pending"]
            /\ decisions[i].outcome \in {"pending", decisions'[i].outcome}
                  \/ Rescore
                  \/ \E r \in Recorders : recording'[r] # recording[r] /\ ~recording[r].alone
<1>1. DecisionsInv /\ [DecisionsNext]_decisionsVars => [Kept]_decisionsVars
  BY DecisionsStep DEF Stands, OneEach
<1>2. CommitmentsStand <=> [][Kept]_decisionsVars
  BY DEF CommitmentsStand
<1> QED
  BY <1>1, <1>2, DecisionsInvHolds, PTL DEF DecisionsSpec

\* Every row worth a message has been in one, is on its way there or is known to have lost it.
Accounted ==
    /\ untold \subseteq Ids /\ shared \subseteq Ids
    /\ \A i \in Ids : decisions[i].says = "trade" => tellings[i] > 0 \/ OnItsWay(i) \/ i \in untold

\* A step that only adds rows keeps the account if the rows it adds are on their way, and those that
\* were on their way still are, or are told, or are known to be lost.
LEMMA AccountStands ==
    ASSUME DecisionsInv, Accounted, Ids \subseteq Ids',
           untold \subseteq untold', untold' \subseteq Ids', shared' \subseteq Ids',
           \A i \in Ids : decisions'[i].says = decisions[i].says /\ tellings'[i] \in Nat /\ tellings[i] <= tellings'[i],
           \A i \in Ids' : i \notin Ids /\ decisions'[i].says = "trade" => \E r \in Recorders : i \in recording'[r].mine,
           \A r \in Recorders : \A i \in recording[r].mine :
              decisions[i].says = "trade" => tellings'[i] > 0 \/ i \in recording'[r].mine \/ i \in untold'
    PROVE  Accounted'
<1> SUFFICES ASSUME NEW i \in Ids', decisions'[i].says = "trade"
             PROVE  tellings'[i] > 0 \/ i \in untold' \/ \E r \in Recorders : i \in recording'[r].mine
  BY DEF Accounted, OnItsWay
<1>1. CASE i \notin Ids
  BY <1>1
<1>2. CASE i \in Ids
  <2>1. tellings[i] \in Nat /\ tellings'[i] \in Nat /\ tellings[i] <= tellings'[i] /\ decisions[i].says = "trade"
    BY <1>2, DecisionsAre
  <2>2. tellings[i] > 0 \/ i \in untold \/ \E r \in Recorders : i \in recording[r].mine
    BY <1>2, <2>1 DEF Accounted, OnItsWay
  <2> QED
    BY <2>1, <2>2
<1> QED
  BY <1>1, <1>2

\* A run that does not touch its own rows, or has none, changes nothing in the account.
LEMMA AccountUntouched ==
    ASSUME DecisionsInv, Accounted, Ids' = Ids, UNCHANGED <<tellings, untold, shared>>,
           \A i \in Ids : decisions'[i].says = decisions[i].says,
           \A r \in Recorders : recording[r].mine \subseteq recording'[r].mine
    PROVE  Accounted'
<1>1. \A i \in Ids : decisions'[i].says = decisions[i].says /\ tellings'[i] \in Nat /\ tellings[i] <= tellings'[i]
  BY DecisionsAre
<1> QED
  BY <1>1, AccountStands DEF Accounted

LEMMA MineAreRows ==
    ASSUME DecisionsInv, NEW r \in Recorders
    PROVE  /\ recording[r].mine \subseteq Ids
           /\ recording[r].at \notin {"read", "tell"} => recording[r].mine = {}
           /\ recording[r].at = "tell" => recording[r].mine \subseteq recording[r].fresh
BY DecisionsAre DEF RunKnows, Ids

LEMMA AccountStep == DecisionsInv /\ Accounted /\ [DecisionsNext]_decisionsVars => Accounted'
<1> SUFFICES ASSUME DecisionsInv, Accounted, [DecisionsNext]_decisionsVars PROVE Accounted'
  OBVIOUS
<1>0. recording \in [Recorders -> RunRows] /\ \A i \in Ids : tellings[i] \in Nat
  BY DecisionsAre DEF DecisionsInv
<1>1. CASE DayEnds \/ Captured \/ BarsUpdate \/ UNCHANGED decisionsVars
  <2>1. UNCHANGED <<decisions, recording, tellings, untold, shared>>
    BY <1>1 DEF DayEnds, Captured, BarsUpdate, decisionsVars, toldVars
  <2>2. Ids' = Ids
    BY <2>1 DEF Ids
  <2> QED
    BY <2>1, <2>2, AccountUntouched
<1>2. CASE Rescore
  <2>1. UNCHANGED <<tellings, untold, shared>> /\ recording' = [q \in Recorders |-> Disturbed(q)]
    BY <1>2 DEF Rescore, toldVars
  <2>2. PICK h \in Ids, verdict \in {"pending", "hit"} : decisions' = [decisions EXCEPT ![h].outcome = verdict]
    BY <1>2, VerdictIs DEF Rescore
  <2>3. Ids' = Ids /\ \A i \in Ids : decisions'[i].says = decisions[i].says
    BY <2>2, ScoredRow
  <2>4. \A r \in Recorders : recording'[r].mine = recording[r].mine
    BY <1>0, <2>1 DEF Disturbed, RunRows
  <2> QED
    BY <2>1, <2>3, <2>4, AccountUntouched
<1>3. ASSUME NEW r \in Recorders, RunBegins(r) PROVE Accounted'
  <2>1. UNCHANGED <<decisions, tellings, untold, shared>> /\ recording[r].at = "idle"
    BY <1>3 DEF RunBegins, toldVars
  <2>2. \A q \in Recorders : q # r => recording'[q] = Disturbed(q)
    BY <1>3 DEF RunBegins
  <2>3. \A q \in Recorders : recording[q].mine \subseteq recording'[q].mine
    BY <1>0, <2>1, <2>2, MineAreRows DEF Disturbed, RunRows
  <2> QED
    BY <2>1, <2>3, AccountUntouched DEF Ids
<1>4. ASSUME NEW r \in Recorders, RunInserts(r) PROVE Accounted'
  <2>1. UNCHANGED untold /\ recording[r].at = "insert"
        /\ \/ shared' = shared
           \/ shared' = shared \cup {i \in DOMAIN decisions' \ Ids : decisions'[i].says = "trade"}
    BY <1>4 DEF RunInserts
  <2>2. PICK list, zeros : /\ decisions' = decisions \o list /\ tellings' = tellings \o zeros
                           /\ DecisionsInv'
                           /\ \E at : recording' = [recording EXCEPT
                                ![r].unseen = {},
                                ![r].mine = {i \in DOMAIN decisions' \ Ids : decisions'[i].says = "trade"},
                                ![r].at = at]
    BY <1>4, RunInsertsStands DEF RunInserts
  <2>3. /\ recording'[r].mine = {i \in DOMAIN decisions' \ Ids : decisions'[i].says = "trade"}
        /\ \A q \in Recorders : q # r => recording'[q] = recording[q]
    BY <1>0, <2>2 DEF RunRows
  <2>4. /\ Ids \subseteq Ids'
        /\ \A i \in Ids : decisions'[i].says = decisions[i].says /\ tellings'[i] \in Nat /\ tellings[i] <= tellings'[i]
    BY <1>0, <1>4, RunInsertsStands
  <2>5. recording[r].mine = {}
    BY <2>1, MineAreRows
  <2>6. \A q \in Recorders : \A i \in recording[q].mine : i \in recording'[q].mine
    BY <2>3, <2>5
  <2>7. untold' \subseteq Ids' /\ shared' \subseteq Ids' /\ untold \subseteq untold'
    BY <2>1, <2>4 DEF Accounted, Ids
  <2>8. \A i \in Ids' : i \notin Ids /\ decisions'[i].says = "trade" => \E q \in Recorders : i \in recording'[q].mine
    BY <2>3 DEF Ids
  <2> QED
    BY <2>4, <2>6, <2>7, <2>8, AccountStands
<1>5. ASSUME NEW r \in Recorders, RunReads(r) PROVE Accounted'
  <2>1. UNCHANGED <<decisions, tellings, shared>> /\ Ids' = Ids
    BY <1>5 DEF RunReads, Ids
  <2>2. \A q \in Recorders : q # r => recording'[q] = recording[q]
    BY <1>0, <1>5 DEF RunReads
  <2>3. \/ recording'[r].mine = recording[r].mine /\ untold' = untold
        \/ untold' = untold \cup recording[r].mine
    BY <1>0, <1>5 DEF RunReads, RunRows
  <2>4. untold \subseteq untold' /\ untold' \subseteq Ids' /\ shared' \subseteq Ids'
    BY <2>1, <2>3, MineAreRows DEF Accounted
  <2>5. \A q \in Recorders : \A i \in recording[q].mine : i \in recording'[q].mine \/ i \in untold'
    BY <2>2, <2>3
  <2>6. \A i \in Ids : decisions'[i].says = decisions[i].says /\ tellings'[i] \in Nat /\ tellings[i] <= tellings'[i]
    BY <1>0, <2>1
  <2> QED
    BY <2>1, <2>4, <2>5, <2>6, AccountStands
<1>6. ASSUME NEW r \in Recorders, RunTells(r) PROVE Accounted'
  <2>1. /\ UNCHANGED <<decisions, untold, shared>> /\ Ids' = Ids /\ recording[r].at = "tell"
        /\ \A i \in Ids : tellings'[i] = IF i \in recording[r].fresh /\ decisions[i].says = "trade"
                                        THEN tellings[i] + 1 ELSE tellings[i]
    BY <1>6 DEF RunTells, Ids
  <2>2. \A q \in Recorders : q # r => recording'[q] = recording[q]
    BY <1>0, <1>6 DEF RunTells
  <2>3. \A i \in Ids : decisions'[i].says = decisions[i].says /\ tellings'[i] \in Nat /\ tellings[i] <= tellings'[i]
    BY <1>0, <2>1
  <2>4. ASSUME NEW i \in recording[r].mine, decisions[i].says = "trade" PROVE tellings'[i] > 0
    <3>1. i \in Ids /\ i \in recording[r].fresh
      BY <2>1, MineAreRows
    <3> QED
      BY <1>0, <2>1, <2>4, <3>1
  <2>5. \A q \in Recorders : \A i \in recording[q].mine :
           decisions[i].says = "trade" => tellings'[i] > 0 \/ i \in recording'[q].mine \/ i \in untold'
    BY <2>2, <2>4
  <2> QED
    BY <2>1, <2>3, <2>5, AccountStands DEF Accounted
<1>7. ASSUME NEW r \in Recorders, RunJudges(r) PROVE Accounted'
  <2>1. UNCHANGED <<decisions, tellings, untold, shared>> /\ Ids' = Ids
    BY <1>7 DEF RunJudges, toldVars, Ids
  <2>2. \A q \in Recorders : recording'[q].mine = recording[q].mine
    BY <1>0, <1>7 DEF RunJudges, RunRows
  <2> QED
    BY <2>1, <2>2, AccountUntouched
<1>8. ASSUME NEW r \in Recorders, RunScores(r) PROVE Accounted'
  <2>1. UNCHANGED <<tellings, untold, shared>> /\ recording[r].verdict # "none"
    BY <1>8 DEF RunScores, toldVars
  <2>2. recording[r].at = "score" /\ recording[r].mine = {}
    BY <2>1, DecisionsAre DEF RunKnows
  <2>3. \A q \in Recorders : q # r => recording'[q] = recording[q]
    BY <1>0, <1>8 DEF RunScores
  <2>4. \A q \in Recorders : recording[q].mine \subseteq recording'[q].mine
    BY <2>2, <2>3
  <2>5. Ids' = Ids /\ \A i \in Ids : decisions'[i].says = decisions[i].says
    BY <1>8, RunScoresStands
  <2> QED
    BY <2>1, <2>4, <2>5, AccountUntouched
<1>9. ASSUME NEW r \in Recorders, RunEnds(r) PROVE Accounted'
  <2>1. UNCHANGED <<decisions, tellings, shared>> /\ Ids' = Ids /\ untold' = untold \cup recording[r].mine
    BY <1>9 DEF RunEnds, Ids
  <2>2. \A q \in Recorders : q # r => recording'[q] = recording[q]
    BY <1>0, <1>9 DEF RunEnds
  <2>3. untold \subseteq untold' /\ untold' \subseteq Ids' /\ shared' \subseteq Ids'
    BY <2>1, MineAreRows DEF Accounted
  <2>4. \A q \in Recorders : \A i \in recording[q].mine : i \in recording'[q].mine \/ i \in untold'
    BY <2>1, <2>2
  <2>5. \A i \in Ids : decisions'[i].says = decisions[i].says /\ tellings'[i] \in Nat /\ tellings[i] <= tellings'[i]
    BY <1>0, <2>1
  <2> QED
    BY <2>1, <2>3, <2>4, <2>5, AccountStands
<1> QED
  BY <1>1, <1>2, <1>3, <1>4, <1>5, <1>6, <1>7, <1>8, <1>9 DEF DecisionsNext

LEMMA AccountedHolds == DecisionsSpec => []Accounted
<1>1. DecisionsInit => Accounted
  BY DEF DecisionsInit, Accounted, Ids
<1> QED
  BY <1>1, AccountStep, DecisionsInvHolds, PTL DEF DecisionsSpec

\* Every recorded row worth a message has been in one, is on its run's way to one, or is one of those
\* whose run could not read them back or died; no row is told twice but those inserted while another
\* run had its watermark below them.
THEOREM InsertedAreToldHolds == DecisionsSpec => []InsertedAreTold
<1>1. DecisionsInv /\ Accounted => InsertedAreTold
  <2> SUFFICES ASSUME DecisionsInv, Accounted PROVE InsertedAreTold
    OBVIOUS
  <2>2. Cardinality(Recorders) = 2
    <3>1. IsFiniteSet({"nightly"}) /\ Cardinality({"nightly"}) = 1
      BY FS_Singleton
    <3>2. Cardinality({"nightly"} \cup {"manual"}) = 2
      BY <3>1, FS_AddElement
    <3> QED
      BY <3>2 DEF Recorders
  <2>3. \A i \in Ids : decisions[i].says = "trade" => tellings[i] <= IF i \in shared THEN 2 ELSE 1
    <3> SUFFICES ASSUME NEW i \in Ids, decisions[i].says = "trade" PROVE tellings[i] <= IF i \in shared THEN 2 ELSE 1
      OBVIOUS
    <3>1. /\ tellings[i] \in Nat
          /\ tellings[i] + Chance(recording["nightly"], i) + Chance(recording["manual"], i) <= Cap(shared, decisions[i], i)
      BY DecisionsAre DEF DecisionsInv
    <3>2. Chance(recording["nightly"], i) \in {0, 1} /\ Chance(recording["manual"], i) \in {0, 1}
      BY ChanceIs
    <3>3. tellings[i] <= Cap(shared, decisions[i], i)
      BY <3>1, <3>2 DEF Cap
    <3> QED
      BY <3>3 DEF Cap
  <2> QED
    BY <2>2, <2>3 DEF InsertedAreTold, Accounted
<1> QED
  BY <1>1, DecisionsInvHolds, AccountedHolds, PTL


-----------------------------------------------------------------------------
\* The terminal's vintages.

\* A row has these fields and no others; of one key there is one row.
IsRow(r) == r = [series |-> r.series, on |-> r.on, asOf |-> r.asOf, value |-> r.value]
RowsOf(rs) == \A r \in rs : IsRow(r)
OneOfAKey(rs) == \A o, p \in rs : KeyedAs(o, p) => o = p

StoreRow == [series : StoreSeries, on : StoreDays, asOf : StoreDays, value : 1 .. MaxPublished]
StoreVintage == [on : StoreDays, asOf : StoreDays, value : 1 .. MaxPublished]

PublishedTyped ==
    /\ storeDay \in StoreDays
    /\ published \in [StoreSeries -> SUBSET StoreVintage]
    /\ \A s \in StoreSeries :
          /\ IsFiniteSet(published[s])
          /\ \A v, w \in published[s] : v.on = w.on /\ v.asOf = w.asOf => v = w

NightTyped ==
    night \in [source : 0 .. Len(Sources) + 1, request : Nat, offered : SUBSET StoreRow, failed : BOOLEAN]

\* What makes the store's promise inductive: a row has its type and its key once, published or stored,
\* and what the source under way was offered and did not refuse is stored.
VintagesInv ==
    /\ PublishedTyped /\ NightTyped
    /\ observations \subseteq StoreRow /\ OneOfAKey(observations)
    /\ RowsOf(derived) /\ OneOfAKey(derived)
    /\ \A o \in derived : o.on \in StoreDays /\ o.asOf \in StoreDays
    /\ night.offered \subseteq observations

LEMMA StoreDaysAreFinite ==
    /\ IsFiniteSet(StoreDays) /\ StoreDays \subseteq Int
    /\ \A d \in StoreDays : d \in Nat /\ d <= LastStoreDay
<1>1. LastStoreDay \in Nat
  BY VintagesAssumption DEF VintagesAssumption
<1> QED
  BY <1>1, FS_Interval DEF StoreDays

\* Of vintages whose as_of are days there is a newest.
LEMMA NewestExists ==
    ASSUME NEW V, V # {}, \A v \in V : v.asOf \in StoreDays
    PROVE  NewestOf(V) \in V /\ \A w \in V : w.asOf <= NewestOf(V).asOf
<1> DEFINE D == {v.asOf : v \in V}
<1>1. D \in SUBSET Int /\ IsFiniteSet(D) /\ D # {}
  <2>1. D \subseteq StoreDays /\ D # {}
    OBVIOUS
  <2> HIDE DEF D
  <2> QED
    BY <2>1, StoreDaysAreFinite, FS_Subset
<1> HIDE DEF D
<1>2. Max(D) \in D /\ \A d \in D : d <= Max(D)
  BY <1>1, Extremes
<1>3. \E v \in V : \A w \in V : w.asOf <= v.asOf
  BY <1>2 DEF D
<1> QED
  BY <1>3 DEF NewestOf

-----------------------------------------------------------------------------
\* A persist takes nothing away and keeps one row of a key; it stores all it is given, unless one of the
\* rows is stored with another value.
LEMMA PersistKeeps ==
    ASSUME NEW stored, NEW offered, RowsOf(stored), RowsOf(offered), OneOfAKey(stored), OneOfAKey(offered),
           \A c \in offered : ~Earlier(c, c),
           NEW result \in Persisted(offered, stored)
    PROVE  /\ stored \subseteq result /\ result \subseteq stored \cup offered
           /\ RowsOf(result) /\ OneOfAKey(result)
           /\ Conflicts(offered, stored) = {} => offered \subseteq result
<1> DEFINE conflicts == Conflicts(offered, stored)
           before == {r \in offered : \A c \in conflicts : Earlier(r, c)}
           beside == {r \in offered \ conflicts : /\ \A c \in conflicts : ~Earlier(c, r)
                                               /\ \E c \in conflicts : ~Earlier(r, c)}
<1>1. PICK kept \in SUBSET beside : result = stored \cup before \cup kept
  BY DEF Persisted
<1>2. conflicts \subseteq offered
  BY DEF Conflicts
<1>3. before \cap conflicts = {} /\ kept \cap conflicts = {} /\ before \subseteq offered /\ kept \subseteq offered
  BY <1>2
<1>4. \A r \in offered \ conflicts : \A o \in stored : KeyedAs(r, o) => o = r
  BY DEF Conflicts, KeyedAs, RowsOf, IsRow
<1> HIDE DEF conflicts, before, beside
<1>5. OneOfAKey(result)
  <2> SUFFICES ASSUME NEW o \in result, NEW p \in result, KeyedAs(o, p) PROVE o = p
    BY DEF OneOfAKey
  <2>1. KeyedAs(p, o)
    BY DEF KeyedAs
  <2>2. o \in stored \/ o \in offered \ conflicts
    BY <1>1, <1>3
  <2>3. p \in stored \/ p \in offered \ conflicts
    BY <1>1, <1>3
  <2> QED
    BY <1>4, <2>1, <2>2, <2>3 DEF OneOfAKey
<1>6. conflicts = {} => offered \subseteq result
  BY <1>1 DEF before
<1>7. RowsOf(result)
  BY <1>1, <1>3 DEF RowsOf
<1> QED
  BY <1>1, <1>3, <1>5, <1>6, <1>7 DEF conflicts

\* What a source is read as, of one date: rows of that series and date, each as_of once.
LEMMA RowsOnTyped ==
    ASSUME PublishedTyped, NEW s \in StoreSeries, NEW on \in StoreDays
    PROVE  /\ RowsOn(s, on) \subseteq StoreRow
           /\ \A r \in RowsOn(s, on) : r.series = s /\ r.on = on
           /\ \A o, p \in RowsOn(s, on) : o.asOf = p.asOf => o = p
<1>1. OfDate(s, on) \subseteq StoreVintage
  BY DEF OfDate, PublishedTyped
<1>2. OfDate(s, on) # {} => NewestOf(OfDate(s, on)) \in OfDate(s, on)
  BY <1>1, NewestExists DEF StoreVintage
<1>3. ASSUME NEW at, OfDate(s, on) # {} => at \in StoreDays
      PROVE  /\ NewestAt(s, on, at) \subseteq StoreRow
             /\ \A r \in NewestAt(s, on, at) : r.series = s /\ r.on = on
             /\ \A o, p \in NewestAt(s, on, at) : o = p
  <2>1. CASE OfDate(s, on) = {}
    BY <2>1 DEF NewestAt
  <2>2. CASE OfDate(s, on) # {}
    <3>1. at \in StoreDays /\ NewestOf(OfDate(s, on)).value \in 1 .. MaxPublished
      BY <1>1, <1>2, <1>3, <2>2 DEF StoreVintage
    <3> QED
      BY <2>2, <3>1 DEF NewestAt, StoreRow
  <2> QED
    BY <2>1, <2>2
<1>4. /\ WithVintages(s, on) \subseteq StoreRow
      /\ \A r \in WithVintages(s, on) : r.series = s /\ r.on = on
      /\ \A o, p \in WithVintages(s, on) : o.asOf = p.asOf => o = p
  <2>1. \A v, w \in OfDate(s, on) : v.asOf = w.asOf => v = w
    BY DEF OfDate, PublishedTyped
  <2> QED
    BY <1>1, <2>1 DEF WithVintages, StoreRow, StoreVintage
<1>5. on < ArchiveStart[s] => ArchiveStart[s] \in StoreDays
  <2>1. ArchiveStart[s] \in 0 .. LastStoreDay /\ on \in Nat /\ on >= 1 /\ LastStoreDay \in Nat
    BY VintagesAssumption, StoreDaysAreFinite DEF VintagesAssumption, StoreSeries, StoreDays
  <2> QED
    BY <2>1 DEF StoreDays
<1>6. CASE AdapterOf[s] = "fred"
  <2>1. RowsOn(s, on) = FredRows(s, on)
    BY <1>6 DEF RowsOn
  <2>2. FredRows(s, on) = WithoutVintages(s, on) \/ (on < ArchiveStart[s] /\ FredRows(s, on) = PreArchive(s, on))
        \/ FredRows(s, on) = WithVintages(s, on)
    BY DEF FredRows
  <2> QED
    BY <1>3, <1>4, <1>5, <2>1, <2>2 DEF WithoutVintages, PreArchive
<1>7. CASE AdapterOf[s] = "desk_gex"
  <2>1. RowsOn(s, on) = DeskGexRows(s, on)
    BY <1>7 DEF RowsOn
  <2>2. OfDate(s, on) # {} => NewestOf(OfDate(s, on)).asOf \in StoreDays
    BY <1>1, <1>2 DEF StoreVintage
  <2>3. OfDate(s, on) # {} => DeskGexRows(s, on) = NewestAt(s, on, NewestOf(OfDate(s, on)).asOf)
    BY DEF DeskGexRows
  <2>4. OfDate(s, on) = {} => DeskGexRows(s, on) = {}
    BY DEF DeskGexRows
  <2> QED
    BY <1>3, <2>1, <2>2, <2>3, <2>4
<1>8. CASE AdapterOf[s] = "prices"
  <2>1. RowsOn(s, on) = NewestAt(s, on, on)
    BY <1>8 DEF RowsOn, PricesRows
  <2> QED
    BY <1>3, <2>1
<1> QED
  BY <1>6, <1>7, <1>8, VintagesAssumption DEF VintagesAssumption, StoreSeries

LEMMA OfferedTyped ==
    ASSUME PublishedTyped, NEW request \in SUBSET StoreSeries
    PROVE  Offered(request) \subseteq StoreRow /\ OneOfAKey(Offered(request))
<1>1. \A on \in 1 .. storeDay : on \in StoreDays
  <2>1. LastStoreDay \in Nat /\ storeDay \in 1 .. LastStoreDay
    BY VintagesAssumption DEF VintagesAssumption, PublishedTyped, StoreDays
  <2> QED
    BY <2>1 DEF StoreDays
<1>2. \A r \in Offered(request) : \E s \in request, on \in 1 .. storeDay : r \in RowsOn(s, on)
  BY DEF Offered
<1>3. Offered(request) \subseteq StoreRow
  BY <1>1, <1>2, RowsOnTyped
<1>4. ASSUME NEW o \in Offered(request), NEW p \in Offered(request), KeyedAs(o, p) PROVE o = p
  <2>1. PICK s \in request, on \in 1 .. storeDay : o \in RowsOn(s, on)
    BY <1>2
  <2>2. PICK t \in request, of \in 1 .. storeDay : p \in RowsOn(t, of)
    BY <1>2
  <2>3. s = t /\ on = of
    BY <1>1, <1>4, <2>1, <2>2, RowsOnTyped DEF KeyedAs
  <2> QED
    BY <1>1, <1>4, <2>1, <2>2, <2>3, RowsOnTyped DEF KeyedAs
<1> QED
  BY <1>3, <1>4 DEF OneOfAKey

LEMMA NothingBeforeItself ==
    ASSUME NEW c, c.on \in StoreDays, c.asOf \in StoreDays
    PROVE  ~Earlier(c, c)
<1>1. c.on \in Int /\ c.asOf \in Int
  BY StoreDaysAreFinite
<1>2. \A i \in Int : ~(i < i)
  OBVIOUS
<1> QED
  BY <1>1, <1>2 DEF Earlier

-----------------------------------------------------------------------------
\* What is known of a date is its newest vintage, and that one stays the newest known on its own as_of.

KnownTyped == observations \subseteq StoreRow /\ OneOfAKey(observations)

LEMMA NewestKnown ==
    ASSUME KnownTyped, NEW s, NEW on, NEW by, KnownOn(s, on, by) # {}
    PROVE  /\ NewestOf(KnownOn(s, on, by)) \in KnownOn(s, on, by)
           /\ \A o \in KnownOn(s, on, by) : o.asOf <= NewestOf(KnownOn(s, on, by)).asOf
           /\ NewestOf(KnownOn(s, on, by)).asOf \in StoreDays
<1>1. \A o \in KnownOn(s, on, by) : o.asOf \in StoreDays
  BY DEF KnownOn, KnownTyped, StoreRow
<1>2. /\ NewestOf(KnownOn(s, on, by)) \in KnownOn(s, on, by)
      /\ \A o \in KnownOn(s, on, by) : o.asOf <= NewestOf(KnownOn(s, on, by)).asOf
  BY <1>1, NewestExists
<1> QED
  BY <1>1, <1>2

LEMMA NewestStays ==
    ASSUME KnownTyped, NEW s, NEW on, NEW by \in StoreDays, NEW at \in StoreDays, at <= by,
           KnownOn(s, on, by) # {}, NewestOf(KnownOn(s, on, by)).asOf <= at
    PROVE  KnownOn(s, on, at) # {} /\ NewestOf(KnownOn(s, on, at)) = NewestOf(KnownOn(s, on, by))
<1> DEFINE n == NewestOf(KnownOn(s, on, by))
           m == NewestOf(KnownOn(s, on, at))
<1>1. n \in KnownOn(s, on, by) /\ n.asOf \in StoreDays /\ \A o \in KnownOn(s, on, by) : o.asOf <= n.asOf
  BY NewestKnown
<1>2. \A o \in observations : o.asOf \in Int
  BY StoreDaysAreFinite DEF KnownTyped, StoreRow
<1>3. by \in Int /\ at \in Int
  BY StoreDaysAreFinite
<1>4. KnownOn(s, on, at) \subseteq KnownOn(s, on, by)
  BY <1>2, <1>3 DEF KnownOn
<1>5. n \in KnownOn(s, on, at)
  BY <1>1 DEF KnownOn
<1>6. m \in KnownOn(s, on, at) /\ \A o \in KnownOn(s, on, at) : o.asOf <= m.asOf
  BY <1>5, NewestKnown
<1>7. m \in observations /\ n \in observations /\ m.series = n.series /\ m.on = n.on
  BY <1>5, <1>6 DEF KnownOn
<1>8. m.asOf = n.asOf
  <2>1. m.asOf <= n.asOf /\ n.asOf <= m.asOf
    BY <1>1, <1>4, <1>5, <1>6
  <2>2. m.asOf \in Int /\ n.asOf \in Int
    BY <1>2, <1>7
  <2> HIDE DEF m, n
  <2> QED
    BY <2>1, <2>2
<1>9. m = n
  BY <1>7, <1>8 DEF KnownTyped, OneOfAKey, KeyedAs
<1> QED
  BY <1>5, <1>9

\* The dates between a date and another that all inputs have.
Between(d, on, by) == {e \in JoinedDates(by) : d < e /\ e <= on}

LEMMA JoinedAreFinite ==
    ASSUME NEW d, NEW on, NEW by
    PROVE  /\ JoinedDates(by) \subseteq StoreDays /\ IsFiniteSet(JoinedDates(by))
           /\ IsFiniteSet(Between(d, on, by)) /\ Cardinality(Between(d, on, by)) \in Nat
<1>1. JoinedDates(by) \subseteq StoreDays
  BY DEF JoinedDates
<1>2. Between(d, on, by) \subseteq StoreDays
  BY <1>1 DEF Between
<1> QED
  BY <1>1, <1>2, StoreDaysAreFinite, FS_Subset, FS_CardinalityType

\* If every date of a window is joined as of an earlier day too, and no other date is, the window is
\* the same as of that day: the dates before it have as many dates after them.
LEMMA WindowStands ==
    ASSUME NEW on \in StoreDays, NEW by \in StoreDays, NEW at \in StoreDays,
           JoinedDates(at) \subseteq JoinedDates(by), WindowTo(on, by) \subseteq JoinedDates(at)
    PROVE  WindowTo(on, at) = WindowTo(on, by)
<1>1. \A d, b : WindowTo(on, b) = {x \in JoinedDates(b) : x <= on /\ Cardinality(Between(x, on, b)) < DeriveWindow}
  BY DEF WindowTo, Between
<1>2. DeriveWindow \in Nat
  BY VintagesAssumption DEF VintagesAssumption
<1>3. \A x : Between(x, on, at) \subseteq Between(x, on, by)
  BY DEF Between
<1>4. \A x : Cardinality(Between(x, on, at)) <= Cardinality(Between(x, on, by))
  BY <1>3, JoinedAreFinite, FS_Subset
<1>5. ASSUME NEW x \in WindowTo(on, by) PROVE x \in WindowTo(on, at)
  <2>1. x \in JoinedDates(at) /\ x <= on /\ Cardinality(Between(x, on, by)) < DeriveWindow
    BY <1>1, <1>5
  <2>2. Cardinality(Between(x, on, at)) < DeriveWindow
    BY <1>2, <1>4, <2>1, JoinedAreFinite
  <2> QED
    BY <1>1, <2>1, <2>2
<1>6. ASSUME NEW x \in WindowTo(on, at), x \notin WindowTo(on, by) PROVE FALSE
  <2> DEFINE Out == {d \in JoinedDates(by) : d <= on /\ ~(Cardinality(Between(d, on, by)) < DeriveWindow)}
             last == Max(Out)
  <2>1. x \in JoinedDates(at) /\ x <= on /\ Cardinality(Between(x, on, at)) < DeriveWindow
    BY <1>1, <1>6
  <2>2. x \in Out
    BY <1>1, <1>6, <2>1
  <2>3. Out \in SUBSET Int /\ IsFiniteSet(Out)
    <3>1. Out \subseteq JoinedDates(by)
      OBVIOUS
    <3> HIDE DEF Out
    <3> QED
      BY <3>1, JoinedAreFinite, StoreDaysAreFinite, FS_Subset
  <2>4. last \in Out /\ \A d \in Out : d <= last
    <3> HIDE DEF Out
    <3> QED
      BY <2>2, <2>3, Extremes
  <2>5. last \in JoinedDates(by) /\ last <= on /\ ~(Cardinality(Between(last, on, by)) < DeriveWindow)
    BY <2>4
  <2>6. \A d \in JoinedDates(by) : last < d /\ d <= on => d \in WindowTo(on, by)
    <3> SUFFICES ASSUME NEW d \in JoinedDates(by), last < d, d <= on, d \notin WindowTo(on, by) PROVE FALSE
      OBVIOUS
    <3>1. d \in Out
      BY <1>1
    <3>2. last \in Int /\ d \in Int /\ d <= last
      BY <2>3, <2>4, <3>1
    <3> HIDE DEF last, Out
    <3> QED
      BY <3>2
  <2>7. last \in Int /\ x \in Int /\ x <= last
    BY <2>2, <2>3, <2>4
  <2> HIDE DEF Out, last
  <2>8. Between(last, on, by) \subseteq Between(x, on, at)
    <3> SUFFICES ASSUME NEW e \in Between(last, on, by) PROVE e \in Between(x, on, at)
      OBVIOUS
    <3>1. e \in JoinedDates(by) /\ last < e /\ e <= on /\ e \in Int
      BY JoinedAreFinite, StoreDaysAreFinite DEF Between
    <3>2. e \in JoinedDates(at)
      BY <2>6, <3>1
    <3> QED
      BY <2>7, <3>1, <3>2 DEF Between
  <2>9. Cardinality(Between(last, on, by)) <= Cardinality(Between(x, on, at))
    BY <2>8, JoinedAreFinite, FS_Subset
  <2> QED
    BY <1>2, <2>1, <2>5, <2>9, JoinedAreFinite
<1> QED
  BY <1>5, <1>6

\* A value derived from what is known by a day is worth the same as of the newest vintage in its window.
LEMMA DerivedStands ==
    ASSUME KnownTyped, NEW by \in StoreDays, NEW on \in JoinedDates(by)
    PROVE  LET at == AsOfWindow(on, by)
           IN  at \in StoreDays /\ on \in JoinedDates(at) /\ ValueOn(on, at) = ValueOn(on, by)
<1> DEFINE at == AsOfWindow(on, by)
           W == WindowTo(on, by)
           newest(s, d) == NewestOf(KnownOn(s, d, by))
           D == {newest(s, d).asOf : s \in Inputs, d \in W}
<1>1. on \in StoreDays /\ W \subseteq JoinedDates(by) /\ W \subseteq StoreDays
  BY DEF WindowTo, JoinedDates
<1>2. on \in W
  <2>1. {e \in JoinedDates(by) : on < e /\ e <= on} = {}
    <3>1. \A e \in JoinedDates(by) : e \in Int /\ on \in Int
      BY <1>1, JoinedAreFinite, StoreDaysAreFinite
    <3> QED
      BY <3>1
  <2>2. Cardinality({e \in JoinedDates(by) : on < e /\ e <= on}) < DeriveWindow
    <3>1. DeriveWindow \in Nat \ {0} /\ Cardinality({}) = 0
      BY FS_EmptySet, VintagesAssumption DEF VintagesAssumption
    <3> QED
      BY <2>1, <3>1
  <2>3. on <= on
    <3>1. on \in Int /\ \A i \in Int : i <= i
      BY <1>1, StoreDaysAreFinite
    <3> QED
      BY <3>1
  <2> QED
    BY <2>2, <2>3 DEF WindowTo
<1>3. \A s \in Inputs, d \in JoinedDates(by) : KnownOn(s, d, by) # {}
  BY DEF JoinedDates
<1>4. \A s \in Inputs, d \in JoinedDates(by) : newest(s, d) \in KnownOn(s, d, by) /\ newest(s, d).asOf \in StoreDays
  BY <1>3, NewestKnown
<1>5. D \subseteq StoreDays /\ D # {}
  <2>1. \E s \in Inputs : TRUE
    BY VintagesAssumption DEF VintagesAssumption
  <2>2. PICK t \in Inputs : TRUE
    BY <2>1
  <2> HIDE DEF W, newest
  <2>3. newest(t, on).asOf \in D
    BY <1>2
  <2>4. \A s \in Inputs, d \in W : newest(s, d).asOf \in StoreDays
    BY <1>1, <1>4
  <2>5. D \subseteq StoreDays
    BY <2>4
  <2> HIDE DEF D
  <2> QED
    BY <2>3, <2>5
<1>6. at = Max(D)
  BY DEF AsOfWindow
<1>7. at \in StoreDays /\ at \in D /\ \A x \in D : x <= at
  <2> HIDE DEF D, at
  <2>1. D \in SUBSET Int /\ IsFiniteSet(D)
    BY <1>5, StoreDaysAreFinite, FS_Subset
  <2> QED
    BY <1>5, <1>6, <2>1, Extremes
<1>8. at <= by
  <2>1. PICK s \in Inputs, d \in W : at = newest(s, d).asOf
    BY <1>7
  <2> QED
    BY <1>1, <1>4, <2>1 DEF KnownOn
<1>9. \A s \in Inputs, d \in W : KnownOn(s, d, at) # {} /\ NewestOf(KnownOn(s, d, at)) = newest(s, d)
  <2> SUFFICES ASSUME NEW s \in Inputs, NEW d \in W
               PROVE  KnownOn(s, d, at) # {} /\ NewestOf(KnownOn(s, d, at)) = newest(s, d)
    OBVIOUS
  <2>1. newest(s, d).asOf <= at /\ KnownOn(s, d, by) # {}
    BY <1>1, <1>3, <1>7
  <2> HIDE DEF at, W
  <2> QED
    BY <1>7, <1>8, <2>1, NewestStays
<1> HIDE DEF D, newest, at
<1>10. W \subseteq JoinedDates(at)
  BY <1>1, <1>9 DEF JoinedDates
<1>11. JoinedDates(at) \subseteq JoinedDates(by)
  <2>1. \A o \in observations : o.asOf \in Int
    BY StoreDaysAreFinite DEF KnownTyped, StoreRow
  <2>2. by \in Int /\ at \in Int
    BY <1>7, StoreDaysAreFinite
  <2>3. \A s, d : KnownOn(s, d, at) \subseteq KnownOn(s, d, by)
    BY <1>8, <2>1, <2>2 DEF KnownOn
  <2> QED
    BY <2>3 DEF JoinedDates
<1>12. WindowTo(on, at) = W
  BY <1>1, <1>7, <1>10, <1>11, WindowStands
<1>13. ValueOn(on, at) = ValueOn(on, by)
  BY <1>9, <1>12 DEF ValueOn, newest
<1> QED
  BY <1>2, <1>7, <1>10, <1>13 DEF at

-----------------------------------------------------------------------------
\* The steps.

VintagesKept ==
    /\ observations \subseteq observations' /\ derived \subseteq derived'
    /\ \A o, p \in observations' : KeyedAs(o, p) => o = p
    /\ \A o, p \in derived' : KeyedAs(o, p) => o = p
    /\ \A i \in DOMAIN Sources :
          batches[i] = "running" /\ batches'[i] = "ok" => night.offered \subseteq observations'
    /\ \A o \in derived' \ derived :
          o.on \in JoinedDates(o.asOf) /\ o.value = ValueOn(o.on, o.asOf)

LEMMA StoreRowsAreRows ==
    ASSUME NEW given \in SUBSET StoreRow
    PROVE  RowsOf(given) /\ \A c \in given : ~Earlier(c, c)
BY NothingBeforeItself DEF RowsOf, IsRow, StoreRow

\* What a request is asked for are series of the store.
LEMMA AskedAreSeries ==
    ASSUME NightTyped, Asking
    PROVE  Asked[night.request] \in SUBSET StoreSeries
<1>1. Sources \in Seq(DOMAIN Requests) /\ night.source \in DOMAIN Sources
  BY VintagesAssumption DEF VintagesAssumption, Asking, Working
<1>2. Sources[night.source] \in DOMAIN Requests
  BY <1>1
<1>3. Asked \in Seq(SUBSET DOMAIN AdapterOf) /\ night.request \in DOMAIN Asked
  BY <1>2, VintagesAssumption DEF VintagesAssumption, Asked, Asking
<1> HIDE DEF Asked
<1> QED
  BY <1>3 DEF StoreSeries

LEMMA RequestPersists ==
    ASSUME VintagesInv, Asking, NEW given \in SUBSET Offered(Asked[night.request]),
           NEW result \in Persisted(given, observations)
    PROVE  /\ observations \subseteq result /\ result \subseteq StoreRow /\ OneOfAKey(result)
           /\ given \subseteq StoreRow
           /\ Conflicts(given, observations) = {} => given \subseteq result
<1>1. Offered(Asked[night.request]) \subseteq StoreRow /\ OneOfAKey(Offered(Asked[night.request]))
  BY AskedAreSeries, OfferedTyped DEF VintagesInv
<1>2. given \subseteq StoreRow /\ OneOfAKey(given)
  BY <1>1 DEF OneOfAKey
<1>3. RowsOf(given) /\ (\A c \in given : ~Earlier(c, c)) /\ RowsOf(observations)
  BY <1>2, StoreRowsAreRows DEF VintagesInv
<1>4. OneOfAKey(observations) /\ observations \subseteq StoreRow
  BY DEF VintagesInv
<1> QED
  BY <1>2, <1>3, <1>4, PersistKeeps

LEMMA DerivationPersists ==
    ASSUME VintagesInv, NEW given \in SUBSET Computed(storeDay), NEW result \in Persisted(given, derived)
    PROVE  /\ derived \subseteq result /\ RowsOf(result) /\ OneOfAKey(result)
           /\ \A o \in result : o.on \in StoreDays /\ o.asOf \in StoreDays
           /\ \A o \in result \ derived : o.on \in JoinedDates(o.asOf) /\ o.value = ValueOn(o.on, o.asOf)
<1>1. KnownTyped /\ storeDay \in StoreDays
  BY DEF VintagesInv, KnownTyped, PublishedTyped
<1>2. ASSUME NEW o \in Computed(storeDay)
      PROVE  /\ IsRow(o) /\ o.series = "derived" /\ o.on \in StoreDays /\ o.asOf \in StoreDays
             /\ o.on \in JoinedDates(o.asOf) /\ o.value = ValueOn(o.on, o.asOf)
             /\ o = [series |-> "derived", on |-> o.on, asOf |-> AsOfWindow(o.on, storeDay), value |-> ValueOn(o.on, storeDay)]
  <2>1. PICK on \in JoinedDates(storeDay) :
            o = [series |-> "derived", on |-> on, asOf |-> AsOfWindow(on, storeDay), value |-> ValueOn(on, storeDay)]
    BY DEF Computed
  <2>2. /\ AsOfWindow(on, storeDay) \in StoreDays /\ on \in JoinedDates(AsOfWindow(on, storeDay))
        /\ ValueOn(on, AsOfWindow(on, storeDay)) = ValueOn(on, storeDay)
    BY <1>1, DerivedStands
  <2>3. on \in StoreDays
    BY DEF JoinedDates
  <2> QED
    BY <2>1, <2>2, <2>3 DEF IsRow
<1>3. RowsOf(given) /\ OneOfAKey(given) /\ \A c \in given : ~Earlier(c, c)
  <2>1. RowsOf(given)
    BY <1>2 DEF RowsOf
  <2>2. OneOfAKey(given)
    <3> SUFFICES ASSUME NEW o \in given, NEW p \in given, KeyedAs(o, p) PROVE o = p
      BY DEF OneOfAKey
    <3>1. o.on = p.on
      BY DEF KeyedAs
    <3> QED
      BY <1>2, <3>1
  <2>3. \A c \in given : ~Earlier(c, c)
    BY <1>2, NothingBeforeItself
  <2> QED
    BY <2>1, <2>2, <2>3
<1>4. RowsOf(derived) /\ OneOfAKey(derived) /\ \A o \in derived : o.on \in StoreDays /\ o.asOf \in StoreDays
  BY DEF VintagesInv
<1>5. derived \subseteq result /\ result \subseteq derived \cup given /\ RowsOf(result) /\ OneOfAKey(result)
  BY <1>3, <1>4, PersistKeeps
<1> QED
  BY <1>2, <1>4, <1>5

LEMMA VintagesInvInitially == VintagesInit => VintagesInv /\ VintagesTypeOK
<1> SUFFICES ASSUME VintagesInit PROVE VintagesInv /\ VintagesTypeOK
  OBVIOUS
<1>1. FirstStoreDay \in StoreDays /\ Len(Sources) \in Nat
  BY VintagesAssumption DEF VintagesAssumption, StoreDays
<1>2. PublishedTyped
  BY <1>1, FS_EmptySet DEF VintagesInit, PublishedTyped
<1>3. NightTyped
  BY <1>1 DEF VintagesInit, NightTyped, NoNight
<1>4. 0 \in 0 .. Len(Sources) + 1
  BY <1>1
<1> QED
  BY <1>1, <1>2, <1>3, <1>4 DEF VintagesInit, VintagesInv, OneOfAKey, RowsOf, VintagesTypeOK, NoNight

LEMMA VintagesTyped == VintagesInv => VintagesTypeOK
BY DEF VintagesInv, VintagesTypeOK, PublishedTyped, NightTyped, StoreRow

\* A new value is counted among those there are.
LEMMA PublishesTyped ==
    ASSUME PublishedTyped, NEW s \in StoreSeries, NEW on \in StoreDays, Publishes(s, on)
    PROVE  PublishedTyped'
<1> DEFINE U == UNION {{t} \X published[t] : t \in StoreSeries}
           v == [on |-> on, asOf |-> storeDay, value |-> Cardinality(OfDate(s, on)) + 1]
<1>1. IsFiniteSet(U)
  <2>1. IsFiniteSet(StoreSeries)
    BY VintagesAssumption DEF VintagesAssumption, StoreSeries
  <2>2. \A t \in StoreSeries : IsFiniteSet({t} \X published[t])
    BY FS_Singleton, FS_Product DEF PublishedTyped
  <2>3. IsFiniteSet({{t} \X published[t] : t \in StoreSeries})
    <3> DEFINE T == {{t} \X published[t] : t \in StoreSeries}
               f == [t \in StoreSeries |-> {t} \X published[t]]
    <3>1. f \in Surjection(StoreSeries, T)
      BY DEF Surjection
    <3> QED
      BY <2>1, <3>1, FS_Surjection
  <2> QED
    BY <2>2, <2>3, FS_UNION
<1>2. OfDate(s, on) \subseteq published[s] /\ IsFiniteSet(published[s])
  BY DEF OfDate, PublishedTyped
<1>3. IsFiniteSet(OfDate(s, on)) /\ IsFiniteSet({s}) /\ Cardinality({s}) = 1
  BY <1>2, FS_Subset, FS_Singleton
<1>4. Cardinality({s} \X OfDate(s, on)) = 1 * Cardinality(OfDate(s, on)) /\ Cardinality(OfDate(s, on)) \in Nat
  BY <1>3, FS_Product, FS_CardinalityType
<1>5. {s} \X OfDate(s, on) \subseteq U
  BY <1>2
<1>6. Cardinality({s} \X OfDate(s, on)) <= Cardinality(U) /\ Cardinality(U) \in Nat
  BY <1>1, <1>5, FS_Subset, FS_CardinalityType
<1>7. Cardinality(U) < MaxPublished /\ MaxPublished \in Nat
  BY VintagesAssumption DEF VintagesAssumption, Publishes
<1>8. v \in StoreVintage
  <2>1. v.value \in 1 .. MaxPublished
    BY <1>4, <1>6, <1>7
  <2> HIDE DEF U
  <2> QED
    BY <2>1 DEF StoreVintage, PublishedTyped
<1>9. published' = [published EXCEPT ![s] = @ \cup {v}] /\ storeDay' = storeDay
  BY DEF Publishes
<1>10. ~\E w \in published[s] : w.on = v.on /\ w.asOf = v.asOf
  BY DEF Publishes
<1> HIDE DEF v, U
<1>11. \A t \in StoreSeries : published'[t] = IF t = s THEN published[t] \cup {v} ELSE published[t]
  BY <1>9 DEF PublishedTyped
<1>12. published' \in [StoreSeries -> SUBSET StoreVintage]
  BY <1>8, <1>9 DEF PublishedTyped
<1>13. \A t \in StoreSeries : IsFiniteSet(published'[t])
  <2>1. \A t \in StoreSeries : IsFiniteSet(published[t]) /\ IsFiniteSet(published[t] \cup {v})
    BY FS_AddElement DEF PublishedTyped
  <2> QED
    BY <1>11, <2>1
<1>14. \A t \in StoreSeries : \A x, w \in published'[t] : x.on = w.on /\ x.asOf = w.asOf => x = w
  <2> SUFFICES ASSUME NEW t \in StoreSeries, NEW x \in published'[t], NEW w \in published'[t],
                      x.on = w.on, x.asOf = w.asOf
               PROVE  x = w
    OBVIOUS
  <2>1. x \in published[t] /\ w \in published[t] => x = w
    BY DEF PublishedTyped
  <2>2. t # s => x = w
    BY <1>11, <2>1
  <2>3. t = s => (x \in published[s] \/ x = v) /\ (w \in published[s] \/ w = v)
    BY <1>11
  <2> QED
    BY <1>10, <2>1, <2>2, <2>3
<1> QED
  BY <1>9, <1>12, <1>13, <1>14 DEF PublishedTyped

LEMMA VintagesStep ==
    VintagesInv /\ [VintagesNext]_vintageVars => VintagesInv' /\ VintagesKept
<1> SUFFICES ASSUME VintagesInv, [VintagesNext]_vintageVars PROVE VintagesInv' /\ VintagesKept
  OBVIOUS
<1>1. ASSUME UNCHANGED <<observations, derived>>, PublishedTyped', NightTyped', night'.offered \subseteq night.offered
      PROVE  VintagesInv' /\ VintagesKept
  BY <1>1 DEF VintagesInv, VintagesKept, OneOfAKey, RowsOf, IsRow, KeyedAs
<1>2. Len(Sources) \in Nat /\ DOMAIN Sources = 1 .. Len(Sources)
  BY VintagesAssumption DEF VintagesAssumption
<1>3. ASSUME NEW status, GoOn(status), Working PROVE NightTyped' /\ night'.offered = {}
  <2>1. night.source + 1 \in 0 .. Len(Sources) + 1
    BY <1>2, <1>3 DEF Working
  <2> QED
    BY <1>3, <2>1 DEF GoOn, NoNight, NightTyped
<1>4. CASE StoreDayPasses
  <2>1. storeDay' \in StoreDays
    BY <1>4, VintagesAssumption DEF VintagesAssumption, StoreDayPasses, VintagesInv, PublishedTyped, StoreDays
  <2> QED
    BY <1>1, <1>4, <2>1 DEF StoreDayPasses, VintagesInv, PublishedTyped, NightTyped
<1>5. CASE NightBegins
  <2>1. NightTyped' /\ night'.offered = {}
    <3>1. 1 \in 0 .. Len(Sources) + 1
      BY <1>2
    <3>2. night' = [source |-> 1, request |-> 1, offered |-> {}, failed |-> FALSE]
      BY <1>5 DEF NightBegins, NoNight
    <3> QED
      BY <3>1, <3>2 DEF NightTyped
  <2> QED
    BY <1>1, <1>5, <2>1 DEF NightBegins, VintagesInv, PublishedTyped
<1>6. CASE RequestIsRead
  <2> DEFINE given == Offered(Asked[night.request])
  <2>1. Asking /\ observations' \in Persisted(given, observations) /\ UNCHANGED <<storeDay, published, derived>>
    BY <1>6 DEF RequestIsRead
  <2>2. /\ observations \subseteq observations' /\ observations' \subseteq StoreRow /\ OneOfAKey(observations')
        /\ given \subseteq StoreRow
        /\ Conflicts(given, observations) = {} => given \subseteq observations'
    BY <2>1, RequestPersists
  <2>3. NightTyped' /\ night'.offered \subseteq observations'
    <3>1. CASE Conflicts(given, observations) = {}
      <4>1. night' = [night EXCEPT !.request = @ + 1, !.offered = night.offered \cup given,
                                   !.failed = @ \/ given = {}]
        BY <1>6, <3>1 DEF RequestIsRead
      <4>2. night.offered \cup given \in SUBSET StoreRow /\ night.offered \cup given \subseteq observations'
        BY <2>2, <3>1 DEF VintagesInv, NightTyped
      <4> HIDE DEF given
      <4>3. (night.failed \/ given = {}) \in BOOLEAN /\ night.request + 1 \in Nat
        BY DEF VintagesInv, NightTyped
      <4> QED
        BY <4>1, <4>2, <4>3 DEF VintagesInv, NightTyped
    <3>2. CASE Conflicts(given, observations) # {}
      <4>1. GoOn("failed")
        BY <1>6, <3>2 DEF RequestIsRead
      <4> QED
        BY <1>3, <2>1, <4>1 DEF Asking
    <3> QED
      BY <3>1, <3>2
  <2>4. night.offered \subseteq observations'
    BY <2>2 DEF VintagesInv
  <2>5. PublishedTyped'
    BY <2>1 DEF VintagesInv, PublishedTyped
  <2> HIDE DEF given
  <2>6. VintagesInv'
    BY <2>1, <2>2, <2>3, <2>5 DEF VintagesInv, OneOfAKey, RowsOf, IsRow, KeyedAs
  <2>7. VintagesKept
    BY <2>1, <2>2, <2>4 DEF VintagesKept, VintagesInv, OneOfAKey
  <2> QED
    BY <2>6, <2>7
<1>7. CASE RequestIsRefused
  <2>1. NightTyped' /\ night'.offered = night.offered
    <3>1. night' = [night EXCEPT !.request = @ + 1, !.failed = TRUE]
      BY <1>7 DEF RequestIsRefused
    <3>2. NightTyped
      BY DEF VintagesInv
    <3>3. night.request + 1 \in Nat
      BY <3>2 DEF NightTyped
    <3>4. night' \in [source : 0 .. Len(Sources) + 1, request : Nat, offered : SUBSET StoreRow, failed : BOOLEAN]
      BY <3>1, <3>2, <3>3 DEF NightTyped
    <3>5. night'.offered = night.offered
      BY <3>1, <3>2 DEF NightTyped
    <3>6. StoreRow' = StoreRow
      OBVIOUS
    <3> QED
      BY <3>4, <3>5 DEF NightTyped
  <2> QED
    BY <1>1, <1>7, <2>1 DEF RequestIsRefused, VintagesInv, PublishedTyped
<1>8. CASE SourceFails
  <2>1. NightTyped' /\ night'.offered = {}
    BY <1>3, <1>8 DEF SourceFails, Asking
  <2> QED
    BY <1>1, <1>8, <2>1 DEF SourceFails, VintagesInv, PublishedTyped
<1>9. CASE SourceEnds
  <2>1. NightTyped' /\ night'.offered = {}
    BY <1>3, <1>9 DEF SourceEnds
  <2> QED
    BY <1>1, <1>9, <2>1 DEF SourceEnds, VintagesInv, PublishedTyped
<1>10. ASSUME NEW given \in SUBSET Computed(storeDay), derived' \in Persisted(given, derived),
              UNCHANGED <<storeDay, published, observations>>, night' = NoNight
       PROVE  VintagesInv' /\ VintagesKept
  <2>1. /\ derived \subseteq derived' /\ RowsOf(derived') /\ OneOfAKey(derived')
        /\ \A o \in derived' : o.on \in StoreDays /\ o.asOf \in StoreDays
        /\ \A o \in derived' \ derived : o.on \in JoinedDates(o.asOf) /\ o.value = ValueOn(o.on, o.asOf)
    BY <1>10, DerivationPersists
  <2>2. PublishedTyped' /\ NightTyped' /\ night'.offered = {}
    BY <1>2, <1>10 DEF VintagesInv, PublishedTyped, NightTyped, NoNight
  <2>3. VintagesInv'
    BY <1>10, <2>1, <2>2 DEF VintagesInv, OneOfAKey, RowsOf, IsRow, KeyedAs
  <2>4. VintagesKept
    BY <1>10, <2>1 DEF VintagesKept, VintagesInv, OneOfAKey
  <2> QED
    BY <2>3, <2>4
<1>11. CASE DeriveRuns
  BY <1>10, <1>11 DEF DeriveRuns
<1>12. CASE NightDies
  <2>1. PICK cut \in [on : StoreDays, asOf : StoreDays] :
          /\ observations' \in IF Asking THEN Persisted({r \in Offered(Asked[night.request]) : Earlier(r, cut)}, observations)
                               ELSE {observations}
          /\ derived' \in IF Working THEN {derived}
                          ELSE Persisted({r \in Computed(storeDay) : Earlier(r, cut)}, derived)
    BY <1>12 DEF NightDies
  <2>2. night' = NoNight /\ UNCHANGED <<storeDay, published, batches>>
    BY <1>12 DEF NightDies
  <2>3. CASE ~Working
    <3>1. observations' = observations
      BY <2>1, <2>3 DEF Asking
    <3> QED
      BY <1>10, <2>1, <2>2, <2>3, <3>1
  <2>4. CASE Working
    <3>1. derived' = derived
      BY <2>1, <2>4
    <3>2. NightTyped' /\ night'.offered = {} /\ PublishedTyped'
      BY <1>2, <2>2 DEF VintagesInv, PublishedTyped, NightTyped, NoNight
    <3>3. observations \subseteq observations' /\ observations' \subseteq StoreRow /\ OneOfAKey(observations')
      <4>1. CASE Asking
        BY <2>1, <4>1, RequestPersists
      <4>2. CASE ~Asking
        BY <2>1, <4>2 DEF VintagesInv
      <4> QED
        BY <4>1, <4>2
    <3>4. night.offered \subseteq observations'
      BY <3>3 DEF VintagesInv
    <3>5. VintagesInv'
      BY <3>1, <3>2, <3>3 DEF VintagesInv, OneOfAKey, RowsOf, IsRow, KeyedAs
    <3>6. VintagesKept
      BY <3>1, <3>3, <3>4 DEF VintagesKept, VintagesInv, OneOfAKey
    <3> QED
      BY <3>5, <3>6
  <2> QED
    BY <2>3, <2>4
<1>13. ASSUME NEW s \in StoreSeries, NEW on \in StoreDays, Publishes(s, on) PROVE VintagesInv' /\ VintagesKept
  <2>1. PublishedTyped'
    BY <1>13, PublishesTyped DEF VintagesInv
  <2> QED
    BY <1>1, <1>13, <2>1 DEF Publishes, VintagesInv, NightTyped
<1>14. CASE UNCHANGED vintageVars
  BY <1>1, <1>14 DEF vintageVars, VintagesInv, PublishedTyped, NightTyped
<1> QED
  BY <1>4, <1>5, <1>6, <1>7, <1>8, <1>9, <1>11, <1>12, <1>13, <1>14 DEF VintagesNext

\* What was known then stays as it was: a vintage has one value for ever, a batch that ends ok has stored
\* what it was offered, and a derived row is what its inputs were worth as of its own as_of
\* (store/loader.py, derive.py).
THEOREM VintagesHoldHolds == VintagesSpec => VintagesHold
<1>1. VintagesInit => VintagesInv
  BY VintagesInvInitially
<1>2. VintagesInv /\ [VintagesNext]_vintageVars => VintagesInv' /\ [VintagesKept]_vintageVars
  BY VintagesStep
<1> QED
  BY <1>1, <1>2, PTL DEF VintagesSpec, VintagesHold, VintagesKept


-----------------------------------------------------------------------------
\* The eight jobs of one run.

\* The walk's locals; a walk back has a chunk left, or ends with the first one it reads.
WalkTypes ==
    /\ WalkTypeOK /\ hour \in 0 .. MaxHour
    /\ walk.at = "backward" => walk.left > 0 \/ EmptyChunks = 0

WalkLocals == [at : {"idle", "forward", "backward"}, now : Nat, to : Int, empty : Nat, left : Nat, tries : Nat]

LEMMA StartsBackTyped ==
    ASSUME NEW stored \in SUBSET Hours, walk \in WalkLocals, NEW start, start = StartsBack(stored)
    PROVE  start \in WalkLocals /\ (start.at = "backward" => start.left > 0 \/ EmptyChunks = 0)
<1>1. CASE stored = {} \/ deepened = DayOf(walk.now)
  BY <1>1 DEF StartsBack, Idle, WalkLocals
<1>2. CASE ~(stored = {} \/ deepened = DayOf(walk.now))
  <2> DEFINE oldest == Min(stored)
             left == Max({Budget, EmptyChunks})
  <2>1. oldest \in Int
    BY <1>2, HoursAreFinite, Extremes
  <2>2. left \in Nat /\ left >= EmptyChunks /\ EmptyChunks \in Nat
    <3>1. {Budget, EmptyChunks} \subseteq Nat
      BY WalkAssumption DEF WalkAssumption
    <3>2. Budget \in Nat /\ EmptyChunks \in Nat
      BY <3>1
    <3>3. \E m \in {Budget, EmptyChunks} : \A s \in {Budget, EmptyChunks} : m >= s
      BY <3>2
    <3>4. left \in {Budget, EmptyChunks} /\ \A s \in {Budget, EmptyChunks} : left >= s
      BY <3>3 DEF Max
    <3> QED
      BY <3>2, <3>4
  <2> HIDE DEF oldest, left
  <2>3. start = [Idle EXCEPT !.at = "backward", !.now = walk.now, !.to = oldest, !.left = left]
    BY <1>2 DEF StartsBack, oldest, left
  <2>4. walk.now \in Nat
    BY DEF WalkLocals
  <2>5. start = [at |-> "backward", now |-> walk.now, to |-> oldest, empty |-> 0, left |-> left, tries |-> 0]
    BY <2>3 DEF Idle
  <2> QED
    BY <2>1, <2>2, <2>4, <2>5 DEF WalkLocals
<1> QED
  BY <1>1, <1>2

LEMMA WalkTypesStay == WalkTypes /\ [WalkNext]_walkVars => WalkTypes'
<1> SUFFICES ASSUME WalkTypes, [WalkNext]_walkVars PROVE WalkTypes'
  OBVIOUS
<1>1. /\ hour \in 0 .. MaxHour /\ hour \in Nat /\ restarts \in Nat /\ loaded \subseteq {Page(h) : h \in Hours}
      /\ bars \subseteq Hours /\ denied \subseteq Hours /\ walk \in WalkLocals /\ deepened \in Int
  BY DEF WalkTypes, WalkTypeOK, WalkLocals
<1>2. Chunk \in Int /\ EmptyChunks \in Nat /\ MaxHour \in Nat /\ Retries \in Nat
  BY WalkAssumption DEF WalkAssumption
<1>3. walk.now \in Nat /\ walk.to \in Int /\ walk.empty \in Nat /\ walk.left \in Nat /\ walk.tries \in Nat
  BY <1>1 DEF WalkLocals
<1>4. DayOf(walk.now) \in Int /\ NotDeepened \in Int
  BY <1>3, DaysGrow DEF NotDeepened
<1>5. Idle \in WalkLocals /\ Idle.at = "idle"
  BY DEF Idle, WalkLocals
<1>6. ASSUME walk' \in WalkLocals, walk'.at = "backward" => walk'.left > 0 \/ EmptyChunks = 0,
             hour' \in 0 .. MaxHour, restarts' \in Nat, loaded' \subseteq {Page(h) : h \in Hours},
             bars' \subseteq Hours, denied' \subseteq Hours, deepened' \in Int
      PROVE  WalkTypes'
  BY <1>2, <1>6 DEF WalkTypes, WalkTypeOK, WalkLocals, Hours, Page
<1>7. CASE MinuteBegins
  <2>1. StartForward \in Int
    <3>1. CASE bars = {}
      BY <1>1, <1>2, <3>1 DEF StartForward
    <3>2. CASE bars # {}
      BY <1>1, <3>2, HoursAreFinite, Extremes DEF StartForward
    <3> QED
      BY <3>1, <3>2
  <2>2. walk' \in WalkLocals /\ walk'.at = "forward"
    BY <1>1, <1>7, <2>1 DEF MinuteBegins, Idle, WalkLocals
  <2> QED
    BY <1>1, <1>6, <1>7, <2>2 DEF MinuteBegins
<1>8. CASE Forward
  <2> DEFINE end == Min({walk.to + Chunk, walk.now})
             stored == bars \cup Rates(walk.to, end, walk.now)
  <2>1. end \in Int
    BY <1>2, <1>3, SmallerOfTwo
  <2>2. stored \subseteq Hours /\ denied \cup Missed(walk.to, end) \subseteq Hours
    BY <1>1 DEF Rates, Missed
  <2> HIDE DEF end, stored
  <2>3. bars' = stored /\ denied' \subseteq Hours
    BY <1>8, <2>2 DEF Forward, end, stored
  <2>4. walk' = IF end < walk.now THEN [walk EXCEPT !.to = end] ELSE StartsBack(stored)
    BY <1>8 DEF Forward, end, stored
  <2>5. walk' \in WalkLocals /\ (walk'.at = "backward" => walk'.left > 0 \/ EmptyChunks = 0)
    <3>1. CASE end < walk.now
      BY <1>1, <1>8, <2>1, <2>4, <3>1 DEF Forward, WalkLocals
    <3>2. CASE ~(end < walk.now)
      BY <1>1, <2>2, <2>4, <3>2, StartsBackTyped
    <3> QED
      BY <3>1, <3>2
  <2> QED
    BY <1>1, <1>6, <1>8, <2>2, <2>3, <2>5 DEF Forward
<1>9. CASE ForwardDone
  <2>1. walk' \in WalkLocals /\ (walk'.at = "backward" => walk'.left > 0 \/ EmptyChunks = 0)
    BY <1>1, <1>9, StartsBackTyped DEF ForwardDone
  <2> QED
    BY <1>1, <1>6, <1>9, <2>1 DEF ForwardDone
<1>10. CASE BackAgain
  <2>1. walk' \in WalkLocals /\ walk'.at = walk.at /\ walk'.left = walk.left
    BY <1>1, <1>3, <1>10 DEF BackAgain, WalkLocals
  <2> QED
    BY <1>1, <1>6, <1>10, <2>1 DEF BackAgain, WalkTypes
<1>11. CASE Back
  <2> DEFINE coarse == CoarseIn(Older, DayOf(walk.to))
             start == coarse # {} \/ EmptyRun(Older) >= EmptyChunks
             chunk == [walk EXCEPT !.to = @ - Chunk, !.empty = EmptyRun(Older), !.tries = 0, !.left = @ - 1]
  <2>1. Older \subseteq Hours /\ Missed(walk.to - Chunk, walk.to) \subseteq Hours
    BY DEF Older, Rates, Missed
  <2>2. EmptyRun(Older) \in Nat
    BY <1>3 DEF EmptyRun
  <2>3. walk.left > 0 \/ EmptyChunks = 0
    BY <1>11 DEF Back, WalkTypes
  <2> HIDE DEF coarse
  <2>4. ASSUME ~start, walk.left # 1
        PROVE  chunk \in WalkLocals /\ chunk.left > 0
    <3>1. EmptyChunks # 0
      BY <1>2, <2>2, <2>4
    <3>2. walk.left - 1 \in Nat /\ walk.left - 1 > 0
      BY <1>3, <2>3, <2>4, <3>1
    <3>3. walk.to - Chunk \in Int
      BY <1>2, <1>3
    <3> QED
      BY <1>1, <2>2, <3>2, <3>3 DEF WalkLocals
  <2> HIDE DEF start, chunk
  <2>5. walk' = IF start \/ walk.left = 1 THEN Idle ELSE chunk
    BY <1>11 DEF Back, start, chunk, coarse
  <2>6. /\ bars' = bars \cup (Older \ coarse) /\ denied' = denied \cup Missed(walk.to - Chunk, walk.to)
        /\ deepened' = (IF start THEN DayOf(walk.now) ELSE deepened) /\ UNCHANGED <<hour, loaded, restarts>>
    BY <1>11 DEF Back, start, coarse
  <2>7. walk' \in WalkLocals /\ (walk'.at = "backward" => walk'.left > 0 \/ EmptyChunks = 0)
    BY <1>5, <2>4, <2>5
  <2>8. bars' \subseteq Hours /\ denied' \subseteq Hours /\ deepened' \in Int
    BY <1>1, <1>4, <2>1, <2>6
  <2> QED
    BY <1>1, <1>6, <2>6, <2>7, <2>8
<1>12. CASE RequestFails
  BY <1>1, <1>5, <1>6, <1>12 DEF RequestFails
<1>13. CASE WorkerRestarts
  <2>1. restarts' \in Nat
    BY <1>1, <1>13 DEF WorkerRestarts
  <2> QED
    BY <1>1, <1>4, <1>5, <1>6, <1>13, <2>1 DEF WorkerRestarts
<1>14. CASE HourPasses
  <2>1. hour' \in 0 .. MaxHour
    BY <1>1, <1>2, <1>14 DEF HourPasses
  <2> QED
    BY <1>1, <1>6, <1>14, <2>1 DEF HourPasses, WalkTypes
<1>15. CASE Download
  <2>1. PICK p \in {Page(h) : h \in 0 .. hour} \ loaded : loaded' = loaded \cup {p}
    BY <1>15 DEF Download
  <2>2. \A h \in 0 .. hour : h \in 0 .. MaxHour
    BY <1>1, <1>2
  <2>3. loaded' \subseteq {Page(h) : h \in Hours}
    BY <1>1, <2>1, <2>2 DEF Hours
  <2> QED
    BY <1>1, <1>6, <1>15, <2>3 DEF Download, WalkTypes
<1>16. CASE UNCHANGED walkVars
  BY <1>1, <1>6, <1>16 DEF walkVars, WalkTypes
<1> QED
  BY <1>7, <1>8, <1>9, <1>10, <1>11, <1>12, <1>13, <1>14, <1>15, <1>16 DEF WalkNext

LEMMA WalkTypesHold == WalkSpec => []WalkTypeOK
<1>1. WalkInit => WalkTypes
  <2> SUFFICES ASSUME WalkInit PROVE WalkTypes
    OBVIOUS
  <2>1. Begin \in Nat /\ MaxHour \in Nat /\ Begin <= MaxHour
    BY WalkNumbers
  <2>2. loaded \subseteq {Page(h) : h \in Hours} /\ hour \in 0 .. MaxHour /\ hour \in Nat
    BY <2>1 DEF WalkInit, Hours
  <2>3. walk \in WalkLocals /\ walk.at = "idle"
    BY DEF WalkInit, Idle, WalkLocals
  <2> QED
    BY <2>2, <2>3 DEF WalkInit, WalkTypes, WalkTypeOK, WalkLocals, NotDeepened
<1>2. WalkTypes => WalkTypeOK
  BY DEF WalkTypes
<1> QED
  BY <1>1, <1>2, WalkTypesStay, PTL DEF WalkSpec

LEMMA WatchTypesHold == WatchSpec => []WatchTypeOK
<1>1. WatchInv => WatchTypeOK
  BY DEF WatchInv
<1> QED
  BY <1>1, WatchInvInitially, WatchStep, PTL DEF WatchSpec

LEMMA CaptureWatchTypesHold == ASSUME FirstDay <= LastDay PROVE CaptureWatchSpec => []CaptureWatchTypeOK
<1>1. CaptureWatchInit => CaptureWatchTypeOK
  <2> SUFFICES ASSUME CaptureWatchInit PROVE CaptureWatchTypeOK
    OBVIOUS
  <2>1. FirstDay \in Nat /\ LastDay \in Nat /\ MaxWatchRestarts \in Nat
    BY CalendarAssumption, CaptureWatchAssumption DEF CalendarAssumption, CaptureWatchAssumption
  <2>2. captured \subseteq Int /\ silent \subseteq Nat
    BY <2>1 DEF CaptureWatchInit
  <2> QED
    BY <2>1, <2>2 DEF CaptureWatchInit, CaptureWatchTypeOK, NoUtcDay
<1>2. WatchdogInv /\ CaptureWatchTypeOK /\ [CaptureWatchNext]_<<calendarVars, captureWatchVars>> => CaptureWatchTypeOK'
  <2> SUFFICES ASSUME WatchdogInv, CaptureWatchTypeOK, [CaptureWatchNext]_<<calendarVars, captureWatchVars>>
               PROVE  CaptureWatchTypeOK'
    OBVIOUS
  <2>1. CalendarInv /\ Today \in Nat /\ day \in FirstDay .. LastDay /\ day \in Int /\ MaxWatchRestarts \in Nat
    BY Moments, CaptureWatchAssumption DEF WatchdogInv, CaptureWatchAssumption
  <2>2. CASE Capture
    <3>1. SessionDate(day, part) \in Int
      <4>1. day \in FirstDay .. LastDay + 1
        BY <2>1, CalendarAssumption DEF CalendarAssumption
      <4>2. PreviousTradingDay(day) \in Int
        BY <2>1, <4>1, PreviousIsLast DEF LastBefore
      <4> QED
        BY <2>1, <4>2 DEF SessionDate
    <3> QED
      BY <2>2, <3>1 DEF Capture, CaptureWatchTypeOK
  <2>3. CASE Check
    <3>1. Missing(Today) \subseteq Nat
      <4>1. Missing(Today) \subseteq silent
        BY <2>1, MissingAreSilent DEF WatchdogInv
      <4> QED
        BY <4>1 DEF CaptureWatchTypeOK
    <3>2. passed' \in Nat /\ UNCHANGED <<captured, silent, watchRestarts>>
      BY <2>1, <2>3 DEF Check
    <3>3. lastAlert' \in Nat \cup {NoUtcDay} /\ lastNote' \in Nat \cup {NoUtcDay} /\ said' \in Nat
      BY <2>1, <2>3 DEF Check, CaptureWatchTypeOK
    <3>4. toldDays' \subseteq Nat /\ named' \subseteq Nat
      BY <2>1, <2>3, <3>1 DEF Check, CaptureWatchTypeOK
    <3> QED
      BY <3>2, <3>3, <3>4 DEF CaptureWatchTypeOK
  <2>4. CASE CaptureWatchRestarts
    <3>1. watchRestarts' \in 0 .. MaxWatchRestarts
      BY <2>1, <2>4 DEF CaptureWatchRestarts, CaptureWatchTypeOK
    <3> QED
      BY <2>4, <3>1 DEF CaptureWatchRestarts, CaptureWatchTypeOK
  <2>5. CASE TimePasses \/ UNCHANGED <<calendarVars, captureWatchVars>>
    <3>1. UNCHANGED captureWatchVars
      BY <2>5 DEF TimePasses
    <3> QED
      BY <3>1 DEF captureWatchVars, CaptureWatchTypeOK
  <2> QED
    BY <2>2, <2>3, <2>4, <2>5 DEF CaptureWatchNext
<1> QED
  BY <1>1, <1>2, WatchdogInitially, WatchdogStep, PTL DEF CaptureWatchSpec

LEMMA LevelEventsTypesHold == LevelEventsSpec => []LevelEventsTypeOK
<1>0. LastBar \in Nat /\ MaxTime \in Nat /\ MaxTime > 0 /\ MaxEvents \in Nat /\ MaxJobCrashes \in Nat
  BY LevelEventsAssumption DEF LevelEventsAssumption
<1>1. LevelEventsInit => LevelEventsTypeOK
  <2> SUFFICES ASSUME LevelEventsInit PROVE LevelEventsTypeOK
    OBVIOUS
  <2>1. /\ Stored \subseteq Events /\ rows \in [Stored -> [alerted : BOOLEAN, recorded : 1 .. MaxEvents]]
        /\ Stored = {}
    BY DEF LevelEventsInit, Stored
  <2>2. scores \in [DOMAIN scores -> [whole : BOOLEAN, path : Paths]] /\ DOMAIN scores = {}
    BY DEF LevelEventsInit
  <2>3. openBar \in 1 .. MaxTime /\ polled \in [Names -> 0 .. MaxTime] /\ jobCrashes \in 0 .. MaxJobCrashes
    BY <1>0 DEF LevelEventsInit
  <2> QED
    BY <2>1, <2>2, <2>3 DEF LevelEventsInit, LevelEventsTypeOK
<1>2. LevelEventsTypeOK /\ [LevelEventsNext]_levelVars => LevelEventsTypeOK'
  <2> SUFFICES ASSUME LevelEventsTypeOK, [LevelEventsNext]_levelVars PROVE LevelEventsTypeOK'
    OBVIOUS
  <2> USE DEF LevelEventsTypeOK, Stored
  <2>1. CASE Record
    <3>0. PICK found \in SUBSET Findable : \E chosen \in SUBSET NewOf(found), run \in 1 .. MaxEvents :
             /\ rows' = [e \in Stored \cup NewOf(found) |->
                            IF e \in Stored THEN rows[e] ELSE [alerted |-> e \in chosen, recorded |-> run]]
             /\ alertsDue' = chosen
      BY <2>1 DEF Record
    <3>1. PICK chosen \in SUBSET NewOf(found), run \in 1 .. MaxEvents :
             /\ rows' = [e \in Stored \cup NewOf(found) |->
                            IF e \in Stored THEN rows[e] ELSE [alerted |-> e \in chosen, recorded |-> run]]
             /\ alertsDue' = chosen
      BY <3>0
    <3>2. NewOf(found) \subseteq Events
      BY DEF NewOf, Findable
    <3>3. /\ Stored' \subseteq Events /\ Stored \subseteq Stored'
          /\ rows' \in [Stored' -> [alerted : BOOLEAN, recorded : 1 .. MaxEvents]]
      BY <3>1, <3>2
    <3>4. alertsDue' \subseteq Events
      BY <3>1, <3>2
    <3> QED
      BY <2>1, <3>3, <3>4 DEF Record, Events, Names
  <2>2. CASE Send
    BY <2>2 DEF Send, Events, Names
  <2>3. CASE Crash
    <3>1. jobCrashes' \in 0 .. MaxJobCrashes
      BY <1>0, <2>3 DEF Crash
    <3> QED
      BY <2>3, <3>1 DEF Crash, Events, Names
  <2>4. CASE Score
    <3>1. RowsTyped
      BY DEF RowsTyped
    <3>2. PICK written \in SUBSET (Stored \ DOMAIN scores) :
              /\ DOMAIN scores' = DOMAIN scores \cup written
              /\ \A e \in DOMAIN scores : scores'[e] = scores[e]
              /\ \A e \in written : /\ scores'[e] = [whole |-> polled[e.symbol] > LastBar, path |-> scores'[e].path]
                                     /\ scores'[e].path \in Paths
      BY <2>4, <3>1, ScoreWrites
    <3>4. \A e \in DOMAIN scores' : scores'[e] \in [whole : BOOLEAN, path : Paths]
      <4> SUFFICES ASSUME NEW e \in DOMAIN scores' PROVE scores'[e] \in [whole : BOOLEAN, path : Paths]
        OBVIOUS
      <4>1. CASE e \in DOMAIN scores
        BY <3>2, <4>1
      <4>2. CASE e \in written
        <5>1. [whole |-> polled[e.symbol] > LastBar, path |-> scores'[e].path] \in [whole : BOOLEAN, path : Paths]
          BY <3>2, <4>2
        <5> QED
          BY <3>2, <4>2, <5>1
      <4> QED
        BY <3>2, <4>1, <4>2
    <3>5. scores' = [e \in DOMAIN scores' |-> scores'[e]]
      BY <2>4 DEF Score
    <3>3. scores' \in [DOMAIN scores' -> [whole : BOOLEAN, path : Paths]] /\ DOMAIN scores' \subseteq Stored
      BY <3>2, <3>4, <3>5
    <3> QED
      BY <2>4, <3>3 DEF Score, Events, Names
  <2>5. CASE BarsPolled
    <3>1. PICK s \in Names : polled' = [polled EXCEPT ![s] = openBar]
      BY <2>5 DEF BarsPolled
    <3>2. polled' \in [Names -> 0 .. MaxTime]
      BY <1>0, <3>1
    <3> QED
      BY <2>5, <3>2 DEF BarsPolled, Events, Names
  <2>6. CASE MinutesArrive
    BY <2>6 DEF MinutesArrive, Events, Names, Cfds
  <2>7. CASE BarPasses
    <3>1. openBar' \in 1 .. MaxTime
      BY <1>0, <2>7 DEF BarPasses
    <3> QED
      BY <2>7, <3>1 DEF BarPasses, Events, Names
  <2>8. CASE UNCHANGED levelVars
    BY <2>8 DEF levelVars, Events, Names
  <2> QED
    BY <2>1, <2>2, <2>3, <2>4, <2>5, <2>6, <2>7, <2>8 DEF LevelEventsNext
<1> QED
  BY <1>1, <1>2, PTL DEF LevelEventsSpec

LEMMA DecisionsTypesHold == DecisionsSpec => []DecisionsTypeOK
<1> DEFINE BarsTyped == daily \in [Scored -> DayBars]
<1>1. DecisionsInit => BarsTyped
  BY DEF DecisionsInit, DayBars
<1>2. BarsTyped /\ [DecisionsNext]_decisionsVars => BarsTyped'
  <2> SUFFICES ASSUME BarsTyped, [DecisionsNext]_decisionsVars PROVE BarsTyped'
    OBVIOUS
  <2>1. CASE BarsUpdate
    <3>0. PICK served \in SUBSET {d \in Scored : Newest - Overlap <= d /\ d <= session} :
             \E bar \in [served -> {"quiet", "hit"}] :
                daily' = [d \in Scored |-> IF d \in served THEN bar[d] ELSE daily[d]]
      BY <2>1 DEF BarsUpdate
    <3>1. PICK bar \in [served -> {"quiet", "hit"}] :
                daily' = [d \in Scored |-> IF d \in served THEN bar[d] ELSE daily[d]]
      BY <3>0
    <3> QED
      BY <3>1 DEF DayBars
  <2>2. CASE daily' = daily
    BY <2>2
  <2> QED
    BY <2>1, <2>2 DEF DecisionsNext, DayEnds, Captured, Rescore, RunBegins, RunInserts, RunReads, RunTells, RunJudges, RunScores,
                      RunEnds, decisionsVars
<1>3. BarsTyped /\ DecisionsInv /\ Accounted => DecisionsTypeOK
  <2> SUFFICES ASSUME BarsTyped, DecisionsInv, Accounted PROVE DecisionsTypeOK
    OBVIOUS
  <2>1. \A i \in Ids : decisions[i] \in DecisionRows
    BY DecisionsAre
  <2> QED
    BY <2>1 DEF DecisionsInv, DecisionsTypeOK, DecisionRows, Accounted
<1> QED
  BY <1>1, <1>2, <1>3, DecisionsInvHolds, AccountedHolds, PTL DEF DecisionsSpec

LEMMA VintagesTypesHold == VintagesSpec => []VintagesTypeOK
<1>1. VintagesInit => VintagesInv
  BY VintagesInvInitially
<1>2. VintagesInv /\ [VintagesNext]_vintageVars => VintagesInv'
  BY VintagesStep
<1> QED
  BY <1>1, <1>2, VintagesTyped, PTL DEF VintagesSpec

\* In every behaviour of the run each of the eight jobs behaves as its own specification allows, so that what
\* is proved of a job by itself holds of the run.
THEOREM JobsAreTheirOwn ==
    Spec => /\ GateSpec /\ WalkSpec /\ TickSpec /\ WatchSpec
            /\ CaptureWatchSpec /\ LevelEventsSpec /\ DecisionsSpec /\ VintagesSpec
<1> DEFINE all == <<job, gateVars, walkVars, tickVars, watchVars, calendarVars, captureWatchVars, levelVars,
                    decisionsVars, vintageVars>>
<1>1. Init => /\ GateInit /\ WalkInit /\ TickInit /\ WatchInit
              /\ CaptureWatchInit /\ LevelEventsInit /\ DecisionsInit /\ VintagesInit
  BY DEF Init
<1>2. [Next]_all =>
        /\ [GateNext]_gateVars /\ [WalkNext]_walkVars /\ [TickNext]_tickVars /\ [WatchNext]_watchVars
        /\ [CaptureWatchNext]_<<calendarVars, captureWatchVars>> /\ [LevelEventsNext]_levelVars
        /\ [DecisionsNext]_decisionsVars /\ [VintagesNext]_vintageVars
  <2> SUFFICES ASSUME [Next]_all
               PROVE  /\ [GateNext]_gateVars /\ [WalkNext]_walkVars /\ [TickNext]_tickVars /\ [WatchNext]_watchVars
                      /\ [CaptureWatchNext]_<<calendarVars, captureWatchVars>> /\ [LevelEventsNext]_levelVars
                      /\ [DecisionsNext]_decisionsVars /\ [VintagesNext]_vintageVars
    OBVIOUS
  <2>1. CASE UNCHANGED all
    BY <2>1
  <2>2. CASE Next
    BY <2>2 DEF Next, OthersStill
  <2> QED
    BY <2>1, <2>2
<1> QED
  BY <1>1, <1>2, PTL DEF Spec, GateSpec, WalkSpec, TickSpec, WatchSpec, CaptureWatchSpec, LevelEventsSpec,
                         DecisionsSpec, VintagesSpec

\* Every reachable state of the eight jobs is well typed, for every value of their constants for which the
\* days walked over are some.
THEOREM JobsTypesHold ==
    ASSUME FirstDay <= LastDay
    PROVE  Spec => []TypeOK
<1>1. Spec => /\ []GateTypeOK /\ []WalkTypeOK /\ []TickTypeOK /\ []WatchTypeOK
              /\ []CaptureWatchTypeOK /\ []LevelEventsTypeOK /\ []DecisionsTypeOK /\ []VintagesTypeOK
  BY JobsAreTheirOwn, GateTypesHold, WalkTypesHold, TickTypesHold, WatchTypesHold, CaptureWatchTypesHold,
     LevelEventsTypesHold, DecisionsTypesHold, VintagesTypesHold
<1>2. GateTypeOK /\ WalkTypeOK /\ TickTypeOK /\ WatchTypeOK /\ CaptureWatchTypeOK /\ LevelEventsTypeOK
      /\ DecisionsTypeOK /\ VintagesTypeOK => TypeOK
  BY DEF TypeOK
<1> QED
  BY <1>1, <1>2, PTL

-----------------------------------------------------------------------------
\* The table of closures.

\* The days of a common year before each month.
BeforeMonth == <<0, 31, 59, 90, 120, 151, 181, 212, 243, 273, 304, 334>>

LeapDay(y) == IF Leap(y) THEN 1 ELSE 0

TableDays(y) == {Date(y, md[1], md[2]) : md \in HolidayTable[y]}

LEMMA DateIs ==
    ASSUME NEW y \in 2021 .. 2027, NEW m \in 1 .. 12, NEW d \in 1 .. 31
    PROVE  Date(y, m, d) = YearStart(y) + BeforeMonth[m] + (IF m > 2 THEN LeapDay(y) ELSE 0) + d - 1
<1> DEFINE s == YearStart(y)
           Is(f) == f = [n \in 1 .. 12 |-> IF n = 1 THEN s ELSE f[n - 1] + MonthLength(y)[n - 1]]
           g == [n \in 1 .. 12 |-> s + BeforeMonth[n] + (IF n > 2 THEN LeapDay(y) ELSE 0)]
<1>0. s \in Int
  BY DEF YearStart
<1> HIDE DEF s
<1>1. \A n \in 2 .. 12 : g[n] = g[n - 1] + MonthLength(y)[n - 1]
  <2> SUFFICES ASSUME NEW n \in 2 .. 12 PROVE g[n] = g[n - 1] + MonthLength(y)[n - 1]
    OBVIOUS
  <2>1. n \in {2, 3, 4, 5, 6, 7, 8, 9, 10, 11, 12} /\ n - 1 \in 1 .. 12 /\ n \in 1 .. 12
    OBVIOUS
  <2> QED
    BY <1>0, <2>1 DEF BeforeMonth, MonthLength, LeapDay
<1>2. g[1] = s
  BY <1>0 DEF BeforeMonth, LeapDay
<1>3. Is(g)
  BY <1>1, <1>2
<1> HIDE DEF g
<1> DEFINE f == CHOOSE f : Is(f)
<1> HIDE DEF Is
<1>4. Is(f)
  BY <1>3
<1>5. MonthStart(y) = f
  BY DEF MonthStart, s, Is
<1> HIDE DEF f
<1> USE DEF Is
<1>6. \A n \in 1 .. 12 : f[n] = g[n]
  <2>1. f[1] = g[1]
    BY <1>2, <1>4
  <2>2. ASSUME NEW n \in 2 .. 12, f[n - 1] = g[n - 1] PROVE f[n] = g[n]
    <3>1. f[n] = f[n - 1] + MonthLength(y)[n - 1]
      BY <1>4
    <3> QED
      BY <1>1, <2>2, <3>1
  <2>3. f[2] = g[2] /\ f[3] = g[3] /\ f[4] = g[4]
    BY <2>1, <2>2
  <2>4. f[5] = g[5] /\ f[6] = g[6] /\ f[7] = g[7]
    BY <2>2, <2>3
  <2>5. f[8] = g[8] /\ f[9] = g[9] /\ f[10] = g[10]
    BY <2>2, <2>4
  <2>6. f[11] = g[11] /\ f[12] = g[12]
    BY <2>2, <2>5
  <2>7. \A n \in 1 .. 12 : n \in {1, 2, 3, 4, 5, 6, 7, 8, 9, 10, 11, 12}
    OBVIOUS
  <2> QED
    BY <2>1, <2>3, <2>4, <2>5, <2>6, <2>7
<1> QED
  BY <1>5, <1>6 DEF Date, g, s

\* The dates of a year, from the day it begins on.
LEMMA DatesAre ==
    ASSUME NEW y \in 2021 .. 2027, NEW first, YearStart(y) = first, NEW leap, LeapDay(y) = leap
    PROVE  \A d \in 1 .. 31 :
              /\ Date(y, 1, d) = first + d - 1
              /\ Date(y, 2, d) = first + 31 + d - 1
              /\ Date(y, 3, d) = first + 59 + leap + d - 1
              /\ Date(y, 4, d) = first + 90 + leap + d - 1
              /\ Date(y, 5, d) = first + 120 + leap + d - 1
              /\ Date(y, 6, d) = first + 151 + leap + d - 1
              /\ Date(y, 7, d) = first + 181 + leap + d - 1
              /\ Date(y, 8, d) = first + 212 + leap + d - 1
              /\ Date(y, 9, d) = first + 243 + leap + d - 1
              /\ Date(y, 10, d) = first + 273 + leap + d - 1
              /\ Date(y, 11, d) = first + 304 + leap + d - 1
              /\ Date(y, 12, d) = first + 334 + leap + d - 1
<1> SUFFICES ASSUME NEW d \in 1 .. 31
    PROVE  /\ Date(y, 1, d) = first + d - 1
           /\ Date(y, 2, d) = first + 31 + d - 1
           /\ Date(y, 3, d) = first + 59 + leap + d - 1
           /\ Date(y, 4, d) = first + 90 + leap + d - 1
           /\ Date(y, 5, d) = first + 120 + leap + d - 1
           /\ Date(y, 6, d) = first + 151 + leap + d - 1
           /\ Date(y, 7, d) = first + 181 + leap + d - 1
           /\ Date(y, 8, d) = first + 212 + leap + d - 1
           /\ Date(y, 9, d) = first + 243 + leap + d - 1
           /\ Date(y, 10, d) = first + 273 + leap + d - 1
           /\ Date(y, 11, d) = first + 304 + leap + d - 1
           /\ Date(y, 12, d) = first + 334 + leap + d - 1
  OBVIOUS
<1>1. \A m \in 1 .. 12 : Date(y, m, d) = first + BeforeMonth[m] + (IF m > 2 THEN LeapDay(y) ELSE 0) + d - 1
  BY DateIs
<1>2. first \in Int /\ leap \in Int
  BY DEF YearStart, LeapDay
<1>3. Date(y, 1, d) = first + d - 1
  BY <1>1, <1>2 DEF BeforeMonth
<1>4. Date(y, 2, d) = first + 31 + d - 1
  BY <1>1, <1>2 DEF BeforeMonth
<1>5. Date(y, 3, d) = first + 59 + leap + d - 1
  BY <1>1, <1>2 DEF BeforeMonth
<1>6. Date(y, 4, d) = first + 90 + leap + d - 1
  BY <1>1, <1>2 DEF BeforeMonth
<1>7. Date(y, 5, d) = first + 120 + leap + d - 1
  BY <1>1, <1>2 DEF BeforeMonth
<1>8. Date(y, 6, d) = first + 151 + leap + d - 1
  BY <1>1, <1>2 DEF BeforeMonth
<1>9. Date(y, 7, d) = first + 181 + leap + d - 1
  BY <1>1, <1>2 DEF BeforeMonth
<1>10. Date(y, 8, d) = first + 212 + leap + d - 1
  BY <1>1, <1>2 DEF BeforeMonth
<1>11. Date(y, 9, d) = first + 243 + leap + d - 1
  BY <1>1, <1>2 DEF BeforeMonth
<1>12. Date(y, 10, d) = first + 273 + leap + d - 1
  BY <1>1, <1>2 DEF BeforeMonth
<1>13. Date(y, 11, d) = first + 304 + leap + d - 1
  BY <1>1, <1>2 DEF BeforeMonth
<1>14. Date(y, 12, d) = first + 334 + leap + d - 1
  BY <1>1, <1>2 DEF BeforeMonth
<1> QED
  BY <1>3, <1>4, <1>5, <1>6, <1>7, <1>8, <1>9, <1>10, <1>11, <1>12, <1>13, <1>14

\* Of seven days in a row one is the given weekday.
LEMMA OneOfSeven ==
    ASSUME NEW a \in Int, NEW weekday \in 0 .. 6
    PROVE  \E d \in a .. a + 6 : (d + 4) % 7 = weekday
<1> DEFINE d == a + ((weekday - a - 4) % 7)
<1>1. d \in a .. a + 6
  OBVIOUS
<1>2. (d + 4) % 7 = weekday
  OBVIOUS
<1> QED
  BY <1>1, <1>2

LEMMA NthIs ==
    ASSUME NEW y, NEW m, NEW weekday \in 0 .. 6, NEW n \in Int, Date(y, m, 1) \in Int
    PROVE  /\ Nth(y, m, weekday, n) \in Date(y, m, 1) + 7 * (n - 1) .. Date(y, m, 1) + 7 * n - 1
           /\ (Nth(y, m, weekday, n) + 4) % 7 = weekday /\ Nth(y, m, weekday, n) \in Int
<1> DEFINE a == Date(y, m, 1) + 7 * (n - 1)
<1>1. a \in Int /\ a + 6 = Date(y, m, 1) + 7 * n - 1
  OBVIOUS
<1>2. \E d \in a .. a + 6 : (d + 4) % 7 = weekday
  BY <1>1, OneOfSeven
<1> QED
  BY <1>1, <1>2 DEF Nth, Weekday

LEMMA LastMondayIs ==
    ASSUME NEW y, NEW m, Date(y, m, 25) \in Int, Date(y, m, 31) = Date(y, m, 25) + 6
    PROVE  LastMonday(y, m) \in Date(y, m, 25) .. Date(y, m, 31) /\ (LastMonday(y, m) + 4) % 7 = 0
<1>1. \E d \in Date(y, m, 25) .. Date(y, m, 25) + 6 : (d + 4) % 7 = 0
  <2>1. 0 \in 0 .. 6
    OBVIOUS
  <2> QED
    BY <2>1, OneOfSeven
<1> QED
  BY <1>1 DEF LastMonday, Weekday

LEMMA Closures2021 == TableDays(2021) = RuleHolidays(2021)
<1>1. YearStart(2021) = 0 /\ ~Leap(2021) /\ 2021 \in 2021 .. 2027
  BY DEF YearStart, Leap
<1>d. \A d \in 1 .. 31 :
         /\ Date(2021, 1, d) = 0 + d - 1
         /\ Date(2021, 2, d) = 31 + d - 1
         /\ Date(2021, 3, d) = 59 + d - 1
         /\ Date(2021, 4, d) = 90 + d - 1
         /\ Date(2021, 5, d) = 120 + d - 1
         /\ Date(2021, 6, d) = 151 + d - 1
         /\ Date(2021, 7, d) = 181 + d - 1
         /\ Date(2021, 8, d) = 212 + d - 1
         /\ Date(2021, 9, d) = 243 + d - 1
         /\ Date(2021, 10, d) = 273 + d - 1
         /\ Date(2021, 11, d) = 304 + d - 1
         /\ Date(2021, 12, d) = 334 + d - 1
  BY <1>1, DatesAre DEF LeapDay
<1>2. TableDays(2021) = {0, 17, 45, 91, 150, 185, 248, 328, 357}
  <2>1. /\ Date(2021, 1, 1) = 0
        /\ Date(2021, 1, 18) = 17
        /\ Date(2021, 2, 15) = 45
        /\ Date(2021, 4, 2) = 91
        /\ Date(2021, 5, 31) = 150
        /\ Date(2021, 7, 5) = 185
        /\ Date(2021, 9, 6) = 248
        /\ Date(2021, 11, 25) = 328
        /\ Date(2021, 12, 24) = 357
    BY <1>d
  <2>2. HolidayTable[2021] = {<<1,1>>, <<1,18>>, <<2,15>>, <<4,2>>, <<5,31>>, <<7,5>>, <<9,6>>, <<11,25>>, <<12,24>>}
    BY <1>1 DEF HolidayTable
  <2> QED
    BY <2>1, <2>2 DEF TableDays
<1>3. /\ Date(2021, 1, 1) = 0
      /\ Date(2021, 2, 1) = 31
      /\ Date(2021, 5, 25) = 144
      /\ Date(2021, 5, 31) = 150
      /\ Date(2021, 6, 19) = 169
      /\ Date(2021, 7, 4) = 184
      /\ Date(2021, 9, 1) = 243
      /\ Date(2021, 11, 1) = 304
      /\ Date(2021, 12, 25) = 358
      /\ Date(2021, 4, 4) = 93
  BY <1>d
<1>4. /\ Nth(2021, 1, 0, 3) = 17 /\ Nth(2021, 2, 0, 3) = 45
      /\ Nth(2021, 9, 0, 1) = 248 /\ Nth(2021, 11, 3, 4) = 328
  <2>0. {0, 3} \subseteq 0 .. 6 /\ {1, 3, 4} \subseteq Int /\ Date(2021, 1, 1) \in Int /\ Date(2021, 2, 1) \in Int /\ Date(2021, 9, 1) \in Int /\ Date(2021, 11, 1) \in Int
    BY <1>3
  <2>1. Nth(2021, 1, 0, 3) \in Date(2021, 1, 1) + 7 * (3 - 1) .. Date(2021, 1, 1) + 7 * 3 - 1 /\ (Nth(2021, 1, 0, 3) + 4) % 7 = 0
    BY <2>0, NthIs
  <2>2. Nth(2021, 2, 0, 3) \in Date(2021, 2, 1) + 7 * (3 - 1) .. Date(2021, 2, 1) + 7 * 3 - 1 /\ (Nth(2021, 2, 0, 3) + 4) % 7 = 0
    BY <2>0, NthIs
  <2>3. Nth(2021, 9, 0, 1) \in Date(2021, 9, 1) + 7 * (1 - 1) .. Date(2021, 9, 1) + 7 * 1 - 1 /\ (Nth(2021, 9, 0, 1) + 4) % 7 = 0
    BY <2>0, NthIs
  <2>4. Nth(2021, 11, 3, 4) \in Date(2021, 11, 1) + 7 * (4 - 1) .. Date(2021, 11, 1) + 7 * 4 - 1 /\ (Nth(2021, 11, 3, 4) + 4) % 7 = 3
    BY <2>0, NthIs
  <2> QED
    BY <1>3, <2>1, <2>2, <2>3, <2>4
<1>5. LastMonday(2021, 5) = 150
  BY <1>3, LastMondayIs
<1>6. GoodFriday(2021) = 91
  BY <1>3 DEF GoodFriday
<1>7. /\ Observed(184) = 185 /\ Observed(358) = 357
      /\ Observed(0) = 0 /\ Observed(169) = 168
      /\ Weekday(0) # 5
  BY DEF Observed, Weekday
<1> QED
  BY <1>2, <1>3, <1>4, <1>5, <1>6, <1>7 DEF RuleHolidays

LEMMA Closures2022 == TableDays(2022) = RuleHolidays(2022)
<1>1. YearStart(2022) = 365 /\ ~Leap(2022) /\ 2022 \in 2021 .. 2027
  BY DEF YearStart, Leap
<1>d. \A d \in 1 .. 31 :
         /\ Date(2022, 1, d) = 365 + d - 1
         /\ Date(2022, 2, d) = 396 + d - 1
         /\ Date(2022, 3, d) = 424 + d - 1
         /\ Date(2022, 4, d) = 455 + d - 1
         /\ Date(2022, 5, d) = 485 + d - 1
         /\ Date(2022, 6, d) = 516 + d - 1
         /\ Date(2022, 7, d) = 546 + d - 1
         /\ Date(2022, 8, d) = 577 + d - 1
         /\ Date(2022, 9, d) = 608 + d - 1
         /\ Date(2022, 10, d) = 638 + d - 1
         /\ Date(2022, 11, d) = 669 + d - 1
         /\ Date(2022, 12, d) = 699 + d - 1
  BY <1>1, DatesAre DEF LeapDay
<1>2. TableDays(2022) = {381, 416, 469, 514, 535, 549, 612, 692, 724}
  <2>1. /\ Date(2022, 1, 17) = 381
        /\ Date(2022, 2, 21) = 416
        /\ Date(2022, 4, 15) = 469
        /\ Date(2022, 5, 30) = 514
        /\ Date(2022, 6, 20) = 535
        /\ Date(2022, 7, 4) = 549
        /\ Date(2022, 9, 5) = 612
        /\ Date(2022, 11, 24) = 692
        /\ Date(2022, 12, 26) = 724
    BY <1>d
  <2>2. HolidayTable[2022] = {<<1,17>>, <<2,21>>, <<4,15>>, <<5,30>>, <<6,20>>, <<7,4>>, <<9,5>>, <<11,24>>, <<12,26>>}
    BY <1>1 DEF HolidayTable
  <2> QED
    BY <2>1, <2>2 DEF TableDays
<1>3. /\ Date(2022, 1, 1) = 365
      /\ Date(2022, 2, 1) = 396
      /\ Date(2022, 5, 25) = 509
      /\ Date(2022, 5, 31) = 515
      /\ Date(2022, 6, 19) = 534
      /\ Date(2022, 7, 4) = 549
      /\ Date(2022, 9, 1) = 608
      /\ Date(2022, 11, 1) = 669
      /\ Date(2022, 12, 25) = 723
      /\ Date(2022, 4, 17) = 471
  BY <1>d
<1>4. /\ Nth(2022, 1, 0, 3) = 381 /\ Nth(2022, 2, 0, 3) = 416
      /\ Nth(2022, 9, 0, 1) = 612 /\ Nth(2022, 11, 3, 4) = 692
  <2>0. {0, 3} \subseteq 0 .. 6 /\ {1, 3, 4} \subseteq Int /\ Date(2022, 1, 1) \in Int /\ Date(2022, 2, 1) \in Int /\ Date(2022, 9, 1) \in Int /\ Date(2022, 11, 1) \in Int
    BY <1>3
  <2>1. Nth(2022, 1, 0, 3) \in Date(2022, 1, 1) + 7 * (3 - 1) .. Date(2022, 1, 1) + 7 * 3 - 1 /\ (Nth(2022, 1, 0, 3) + 4) % 7 = 0
    BY <2>0, NthIs
  <2>2. Nth(2022, 2, 0, 3) \in Date(2022, 2, 1) + 7 * (3 - 1) .. Date(2022, 2, 1) + 7 * 3 - 1 /\ (Nth(2022, 2, 0, 3) + 4) % 7 = 0
    BY <2>0, NthIs
  <2>3. Nth(2022, 9, 0, 1) \in Date(2022, 9, 1) + 7 * (1 - 1) .. Date(2022, 9, 1) + 7 * 1 - 1 /\ (Nth(2022, 9, 0, 1) + 4) % 7 = 0
    BY <2>0, NthIs
  <2>4. Nth(2022, 11, 3, 4) \in Date(2022, 11, 1) + 7 * (4 - 1) .. Date(2022, 11, 1) + 7 * 4 - 1 /\ (Nth(2022, 11, 3, 4) + 4) % 7 = 3
    BY <2>0, NthIs
  <2> QED
    BY <1>3, <2>1, <2>2, <2>3, <2>4
<1>5. LastMonday(2022, 5) = 514
  BY <1>3, LastMondayIs
<1>6. GoodFriday(2022) = 469
  BY <1>3 DEF GoodFriday
<1>7. /\ Observed(549) = 549 /\ Observed(723) = 724
      /\ Observed(365) = 364 /\ Observed(534) = 535
      /\ Weekday(365) = 5
  BY DEF Observed, Weekday
<1> QED
  BY <1>2, <1>3, <1>4, <1>5, <1>6, <1>7 DEF RuleHolidays

LEMMA Closures2023 == TableDays(2023) = RuleHolidays(2023)
<1>1. YearStart(2023) = 730 /\ ~Leap(2023) /\ 2023 \in 2021 .. 2027
  BY DEF YearStart, Leap
<1>d. \A d \in 1 .. 31 :
         /\ Date(2023, 1, d) = 730 + d - 1
         /\ Date(2023, 2, d) = 761 + d - 1
         /\ Date(2023, 3, d) = 789 + d - 1
         /\ Date(2023, 4, d) = 820 + d - 1
         /\ Date(2023, 5, d) = 850 + d - 1
         /\ Date(2023, 6, d) = 881 + d - 1
         /\ Date(2023, 7, d) = 911 + d - 1
         /\ Date(2023, 8, d) = 942 + d - 1
         /\ Date(2023, 9, d) = 973 + d - 1
         /\ Date(2023, 10, d) = 1003 + d - 1
         /\ Date(2023, 11, d) = 1034 + d - 1
         /\ Date(2023, 12, d) = 1064 + d - 1
  BY <1>1, DatesAre DEF LeapDay
<1>2. TableDays(2023) = {731, 745, 780, 826, 878, 899, 914, 976, 1056, 1088}
  <2>1. /\ Date(2023, 1, 2) = 731
        /\ Date(2023, 1, 16) = 745
        /\ Date(2023, 2, 20) = 780
        /\ Date(2023, 4, 7) = 826
        /\ Date(2023, 5, 29) = 878
        /\ Date(2023, 6, 19) = 899
        /\ Date(2023, 7, 4) = 914
        /\ Date(2023, 9, 4) = 976
        /\ Date(2023, 11, 23) = 1056
        /\ Date(2023, 12, 25) = 1088
    BY <1>d
  <2>2. HolidayTable[2023] = {<<1,2>>, <<1,16>>, <<2,20>>, <<4,7>>, <<5,29>>, <<6,19>>, <<7,4>>, <<9,4>>, <<11,23>>, <<12,25>>}
    BY <1>1 DEF HolidayTable
  <2> QED
    BY <2>1, <2>2 DEF TableDays
<1>3. /\ Date(2023, 1, 1) = 730
      /\ Date(2023, 2, 1) = 761
      /\ Date(2023, 5, 25) = 874
      /\ Date(2023, 5, 31) = 880
      /\ Date(2023, 6, 19) = 899
      /\ Date(2023, 7, 4) = 914
      /\ Date(2023, 9, 1) = 973
      /\ Date(2023, 11, 1) = 1034
      /\ Date(2023, 12, 25) = 1088
      /\ Date(2023, 4, 9) = 828
  BY <1>d
<1>4. /\ Nth(2023, 1, 0, 3) = 745 /\ Nth(2023, 2, 0, 3) = 780
      /\ Nth(2023, 9, 0, 1) = 976 /\ Nth(2023, 11, 3, 4) = 1056
  <2>0. {0, 3} \subseteq 0 .. 6 /\ {1, 3, 4} \subseteq Int /\ Date(2023, 1, 1) \in Int /\ Date(2023, 2, 1) \in Int /\ Date(2023, 9, 1) \in Int /\ Date(2023, 11, 1) \in Int
    BY <1>3
  <2>1. Nth(2023, 1, 0, 3) \in Date(2023, 1, 1) + 7 * (3 - 1) .. Date(2023, 1, 1) + 7 * 3 - 1 /\ (Nth(2023, 1, 0, 3) + 4) % 7 = 0
    BY <2>0, NthIs
  <2>2. Nth(2023, 2, 0, 3) \in Date(2023, 2, 1) + 7 * (3 - 1) .. Date(2023, 2, 1) + 7 * 3 - 1 /\ (Nth(2023, 2, 0, 3) + 4) % 7 = 0
    BY <2>0, NthIs
  <2>3. Nth(2023, 9, 0, 1) \in Date(2023, 9, 1) + 7 * (1 - 1) .. Date(2023, 9, 1) + 7 * 1 - 1 /\ (Nth(2023, 9, 0, 1) + 4) % 7 = 0
    BY <2>0, NthIs
  <2>4. Nth(2023, 11, 3, 4) \in Date(2023, 11, 1) + 7 * (4 - 1) .. Date(2023, 11, 1) + 7 * 4 - 1 /\ (Nth(2023, 11, 3, 4) + 4) % 7 = 3
    BY <2>0, NthIs
  <2> QED
    BY <1>3, <2>1, <2>2, <2>3, <2>4
<1>5. LastMonday(2023, 5) = 878
  BY <1>3, LastMondayIs
<1>6. GoodFriday(2023) = 826
  BY <1>3 DEF GoodFriday
<1>7. /\ Observed(914) = 914 /\ Observed(1088) = 1088
      /\ Observed(730) = 731 /\ Observed(899) = 899
      /\ Weekday(730) # 5
  BY DEF Observed, Weekday
<1> QED
  BY <1>2, <1>3, <1>4, <1>5, <1>6, <1>7 DEF RuleHolidays

LEMMA Closures2024 == TableDays(2024) = RuleHolidays(2024)
<1>1. YearStart(2024) = 1095 /\ Leap(2024) /\ 2024 \in 2021 .. 2027
  BY DEF YearStart, Leap
<1>d. \A d \in 1 .. 31 :
         /\ Date(2024, 1, d) = 1095 + d - 1
         /\ Date(2024, 2, d) = 1126 + d - 1
         /\ Date(2024, 3, d) = 1155 + d - 1
         /\ Date(2024, 4, d) = 1186 + d - 1
         /\ Date(2024, 5, d) = 1216 + d - 1
         /\ Date(2024, 6, d) = 1247 + d - 1
         /\ Date(2024, 7, d) = 1277 + d - 1
         /\ Date(2024, 8, d) = 1308 + d - 1
         /\ Date(2024, 9, d) = 1339 + d - 1
         /\ Date(2024, 10, d) = 1369 + d - 1
         /\ Date(2024, 11, d) = 1400 + d - 1
         /\ Date(2024, 12, d) = 1430 + d - 1
  BY <1>1, DatesAre DEF LeapDay
<1>2. TableDays(2024) = {1095, 1109, 1144, 1183, 1242, 1265, 1280, 1340, 1427, 1454}
  <2>1. /\ Date(2024, 1, 1) = 1095
        /\ Date(2024, 1, 15) = 1109
        /\ Date(2024, 2, 19) = 1144
        /\ Date(2024, 3, 29) = 1183
        /\ Date(2024, 5, 27) = 1242
        /\ Date(2024, 6, 19) = 1265
        /\ Date(2024, 7, 4) = 1280
        /\ Date(2024, 9, 2) = 1340
        /\ Date(2024, 11, 28) = 1427
        /\ Date(2024, 12, 25) = 1454
    BY <1>d
  <2>2. HolidayTable[2024] = {<<1,1>>, <<1,15>>, <<2,19>>, <<3,29>>, <<5,27>>, <<6,19>>, <<7,4>>, <<9,2>>, <<11,28>>, <<12,25>>}
    BY <1>1 DEF HolidayTable
  <2> QED
    BY <2>1, <2>2 DEF TableDays
<1>3. /\ Date(2024, 1, 1) = 1095
      /\ Date(2024, 2, 1) = 1126
      /\ Date(2024, 5, 25) = 1240
      /\ Date(2024, 5, 31) = 1246
      /\ Date(2024, 6, 19) = 1265
      /\ Date(2024, 7, 4) = 1280
      /\ Date(2024, 9, 1) = 1339
      /\ Date(2024, 11, 1) = 1400
      /\ Date(2024, 12, 25) = 1454
      /\ Date(2024, 3, 31) = 1185
  BY <1>d
<1>4. /\ Nth(2024, 1, 0, 3) = 1109 /\ Nth(2024, 2, 0, 3) = 1144
      /\ Nth(2024, 9, 0, 1) = 1340 /\ Nth(2024, 11, 3, 4) = 1427
  <2>0. {0, 3} \subseteq 0 .. 6 /\ {1, 3, 4} \subseteq Int /\ Date(2024, 1, 1) \in Int /\ Date(2024, 2, 1) \in Int /\ Date(2024, 9, 1) \in Int /\ Date(2024, 11, 1) \in Int
    BY <1>3
  <2>1. Nth(2024, 1, 0, 3) \in Date(2024, 1, 1) + 7 * (3 - 1) .. Date(2024, 1, 1) + 7 * 3 - 1 /\ (Nth(2024, 1, 0, 3) + 4) % 7 = 0
    BY <2>0, NthIs
  <2>2. Nth(2024, 2, 0, 3) \in Date(2024, 2, 1) + 7 * (3 - 1) .. Date(2024, 2, 1) + 7 * 3 - 1 /\ (Nth(2024, 2, 0, 3) + 4) % 7 = 0
    BY <2>0, NthIs
  <2>3. Nth(2024, 9, 0, 1) \in Date(2024, 9, 1) + 7 * (1 - 1) .. Date(2024, 9, 1) + 7 * 1 - 1 /\ (Nth(2024, 9, 0, 1) + 4) % 7 = 0
    BY <2>0, NthIs
  <2>4. Nth(2024, 11, 3, 4) \in Date(2024, 11, 1) + 7 * (4 - 1) .. Date(2024, 11, 1) + 7 * 4 - 1 /\ (Nth(2024, 11, 3, 4) + 4) % 7 = 3
    BY <2>0, NthIs
  <2> QED
    BY <1>3, <2>1, <2>2, <2>3, <2>4
<1>5. LastMonday(2024, 5) = 1242
  BY <1>3, LastMondayIs
<1>6. GoodFriday(2024) = 1183
  BY <1>3 DEF GoodFriday
<1>7. /\ Observed(1280) = 1280 /\ Observed(1454) = 1454
      /\ Observed(1095) = 1095 /\ Observed(1265) = 1265
      /\ Weekday(1095) # 5
  BY DEF Observed, Weekday
<1> QED
  BY <1>2, <1>3, <1>4, <1>5, <1>6, <1>7 DEF RuleHolidays

LEMMA Closures2025 == TableDays(2025) = RuleHolidays(2025) \cup {1469}
<1>1. YearStart(2025) = 1461 /\ ~Leap(2025) /\ 2025 \in 2021 .. 2027
  BY DEF YearStart, Leap
<1>d. \A d \in 1 .. 31 :
         /\ Date(2025, 1, d) = 1461 + d - 1
         /\ Date(2025, 2, d) = 1492 + d - 1
         /\ Date(2025, 3, d) = 1520 + d - 1
         /\ Date(2025, 4, d) = 1551 + d - 1
         /\ Date(2025, 5, d) = 1581 + d - 1
         /\ Date(2025, 6, d) = 1612 + d - 1
         /\ Date(2025, 7, d) = 1642 + d - 1
         /\ Date(2025, 8, d) = 1673 + d - 1
         /\ Date(2025, 9, d) = 1704 + d - 1
         /\ Date(2025, 10, d) = 1734 + d - 1
         /\ Date(2025, 11, d) = 1765 + d - 1
         /\ Date(2025, 12, d) = 1795 + d - 1
  BY <1>1, DatesAre DEF LeapDay
<1>2. TableDays(2025) = {1461, 1469, 1480, 1508, 1568, 1606, 1630, 1645, 1704, 1791, 1819}
  <2>1. /\ Date(2025, 1, 1) = 1461
        /\ Date(2025, 1, 9) = 1469
        /\ Date(2025, 1, 20) = 1480
        /\ Date(2025, 2, 17) = 1508
        /\ Date(2025, 4, 18) = 1568
        /\ Date(2025, 5, 26) = 1606
        /\ Date(2025, 6, 19) = 1630
        /\ Date(2025, 7, 4) = 1645
        /\ Date(2025, 9, 1) = 1704
        /\ Date(2025, 11, 27) = 1791
        /\ Date(2025, 12, 25) = 1819
    BY <1>d
  <2>2. HolidayTable[2025] = {<<1,1>>, <<1,9>>, <<1,20>>, <<2,17>>, <<4,18>>, <<5,26>>, <<6,19>>, <<7,4>>, <<9,1>>, <<11,27>>, <<12,25>>}
    BY <1>1 DEF HolidayTable
  <2> QED
    BY <2>1, <2>2 DEF TableDays
<1>3. /\ Date(2025, 1, 1) = 1461
      /\ Date(2025, 2, 1) = 1492
      /\ Date(2025, 5, 25) = 1605
      /\ Date(2025, 5, 31) = 1611
      /\ Date(2025, 6, 19) = 1630
      /\ Date(2025, 7, 4) = 1645
      /\ Date(2025, 9, 1) = 1704
      /\ Date(2025, 11, 1) = 1765
      /\ Date(2025, 12, 25) = 1819
      /\ Date(2025, 4, 20) = 1570
  BY <1>d
<1>4. /\ Nth(2025, 1, 0, 3) = 1480 /\ Nth(2025, 2, 0, 3) = 1508
      /\ Nth(2025, 9, 0, 1) = 1704 /\ Nth(2025, 11, 3, 4) = 1791
  <2>0. {0, 3} \subseteq 0 .. 6 /\ {1, 3, 4} \subseteq Int /\ Date(2025, 1, 1) \in Int /\ Date(2025, 2, 1) \in Int /\ Date(2025, 9, 1) \in Int /\ Date(2025, 11, 1) \in Int
    BY <1>3
  <2>1. Nth(2025, 1, 0, 3) \in Date(2025, 1, 1) + 7 * (3 - 1) .. Date(2025, 1, 1) + 7 * 3 - 1 /\ (Nth(2025, 1, 0, 3) + 4) % 7 = 0
    BY <2>0, NthIs
  <2>2. Nth(2025, 2, 0, 3) \in Date(2025, 2, 1) + 7 * (3 - 1) .. Date(2025, 2, 1) + 7 * 3 - 1 /\ (Nth(2025, 2, 0, 3) + 4) % 7 = 0
    BY <2>0, NthIs
  <2>3. Nth(2025, 9, 0, 1) \in Date(2025, 9, 1) + 7 * (1 - 1) .. Date(2025, 9, 1) + 7 * 1 - 1 /\ (Nth(2025, 9, 0, 1) + 4) % 7 = 0
    BY <2>0, NthIs
  <2>4. Nth(2025, 11, 3, 4) \in Date(2025, 11, 1) + 7 * (4 - 1) .. Date(2025, 11, 1) + 7 * 4 - 1 /\ (Nth(2025, 11, 3, 4) + 4) % 7 = 3
    BY <2>0, NthIs
  <2> QED
    BY <1>3, <2>1, <2>2, <2>3, <2>4
<1>5. LastMonday(2025, 5) = 1606
  BY <1>3, LastMondayIs
<1>6. GoodFriday(2025) = 1568
  BY <1>3 DEF GoodFriday
<1>7. /\ Observed(1645) = 1645 /\ Observed(1819) = 1819
      /\ Observed(1461) = 1461 /\ Observed(1630) = 1630
      /\ Weekday(1461) # 5
  BY DEF Observed, Weekday
<1> QED
  BY <1>2, <1>3, <1>4, <1>5, <1>6, <1>7 DEF RuleHolidays

LEMMA Closures2026 == TableDays(2026) = RuleHolidays(2026)
<1>1. YearStart(2026) = 1826 /\ ~Leap(2026) /\ 2026 \in 2021 .. 2027
  BY DEF YearStart, Leap
<1>d. \A d \in 1 .. 31 :
         /\ Date(2026, 1, d) = 1826 + d - 1
         /\ Date(2026, 2, d) = 1857 + d - 1
         /\ Date(2026, 3, d) = 1885 + d - 1
         /\ Date(2026, 4, d) = 1916 + d - 1
         /\ Date(2026, 5, d) = 1946 + d - 1
         /\ Date(2026, 6, d) = 1977 + d - 1
         /\ Date(2026, 7, d) = 2007 + d - 1
         /\ Date(2026, 8, d) = 2038 + d - 1
         /\ Date(2026, 9, d) = 2069 + d - 1
         /\ Date(2026, 10, d) = 2099 + d - 1
         /\ Date(2026, 11, d) = 2130 + d - 1
         /\ Date(2026, 12, d) = 2160 + d - 1
  BY <1>1, DatesAre DEF LeapDay
<1>2. TableDays(2026) = {1826, 1844, 1872, 1918, 1970, 1995, 2009, 2075, 2155, 2184}
  <2>1. /\ Date(2026, 1, 1) = 1826
        /\ Date(2026, 1, 19) = 1844
        /\ Date(2026, 2, 16) = 1872
        /\ Date(2026, 4, 3) = 1918
        /\ Date(2026, 5, 25) = 1970
        /\ Date(2026, 6, 19) = 1995
        /\ Date(2026, 7, 3) = 2009
        /\ Date(2026, 9, 7) = 2075
        /\ Date(2026, 11, 26) = 2155
        /\ Date(2026, 12, 25) = 2184
    BY <1>d
  <2>2. HolidayTable[2026] = {<<1,1>>, <<1,19>>, <<2,16>>, <<4,3>>, <<5,25>>, <<6,19>>, <<7,3>>, <<9,7>>, <<11,26>>, <<12,25>>}
    BY <1>1 DEF HolidayTable
  <2> QED
    BY <2>1, <2>2 DEF TableDays
<1>3. /\ Date(2026, 1, 1) = 1826
      /\ Date(2026, 2, 1) = 1857
      /\ Date(2026, 5, 25) = 1970
      /\ Date(2026, 5, 31) = 1976
      /\ Date(2026, 6, 19) = 1995
      /\ Date(2026, 7, 4) = 2010
      /\ Date(2026, 9, 1) = 2069
      /\ Date(2026, 11, 1) = 2130
      /\ Date(2026, 12, 25) = 2184
      /\ Date(2026, 4, 5) = 1920
  BY <1>d
<1>4. /\ Nth(2026, 1, 0, 3) = 1844 /\ Nth(2026, 2, 0, 3) = 1872
      /\ Nth(2026, 9, 0, 1) = 2075 /\ Nth(2026, 11, 3, 4) = 2155
  <2>0. {0, 3} \subseteq 0 .. 6 /\ {1, 3, 4} \subseteq Int /\ Date(2026, 1, 1) \in Int /\ Date(2026, 2, 1) \in Int /\ Date(2026, 9, 1) \in Int /\ Date(2026, 11, 1) \in Int
    BY <1>3
  <2>1. Nth(2026, 1, 0, 3) \in Date(2026, 1, 1) + 7 * (3 - 1) .. Date(2026, 1, 1) + 7 * 3 - 1 /\ (Nth(2026, 1, 0, 3) + 4) % 7 = 0
    BY <2>0, NthIs
  <2>2. Nth(2026, 2, 0, 3) \in Date(2026, 2, 1) + 7 * (3 - 1) .. Date(2026, 2, 1) + 7 * 3 - 1 /\ (Nth(2026, 2, 0, 3) + 4) % 7 = 0
    BY <2>0, NthIs
  <2>3. Nth(2026, 9, 0, 1) \in Date(2026, 9, 1) + 7 * (1 - 1) .. Date(2026, 9, 1) + 7 * 1 - 1 /\ (Nth(2026, 9, 0, 1) + 4) % 7 = 0
    BY <2>0, NthIs
  <2>4. Nth(2026, 11, 3, 4) \in Date(2026, 11, 1) + 7 * (4 - 1) .. Date(2026, 11, 1) + 7 * 4 - 1 /\ (Nth(2026, 11, 3, 4) + 4) % 7 = 3
    BY <2>0, NthIs
  <2> QED
    BY <1>3, <2>1, <2>2, <2>3, <2>4
<1>5. LastMonday(2026, 5) = 1970
  BY <1>3, LastMondayIs
<1>6. GoodFriday(2026) = 1918
  BY <1>3 DEF GoodFriday
<1>7. /\ Observed(2010) = 2009 /\ Observed(2184) = 2184
      /\ Observed(1826) = 1826 /\ Observed(1995) = 1995
      /\ Weekday(1826) # 5
  BY DEF Observed, Weekday
<1> QED
  BY <1>2, <1>3, <1>4, <1>5, <1>6, <1>7 DEF RuleHolidays

LEMMA Closures2027 == TableDays(2027) = RuleHolidays(2027)
<1>1. YearStart(2027) = 2191 /\ ~Leap(2027) /\ 2027 \in 2021 .. 2027
  BY DEF YearStart, Leap
<1>d. \A d \in 1 .. 31 :
         /\ Date(2027, 1, d) = 2191 + d - 1
         /\ Date(2027, 2, d) = 2222 + d - 1
         /\ Date(2027, 3, d) = 2250 + d - 1
         /\ Date(2027, 4, d) = 2281 + d - 1
         /\ Date(2027, 5, d) = 2311 + d - 1
         /\ Date(2027, 6, d) = 2342 + d - 1
         /\ Date(2027, 7, d) = 2372 + d - 1
         /\ Date(2027, 8, d) = 2403 + d - 1
         /\ Date(2027, 9, d) = 2434 + d - 1
         /\ Date(2027, 10, d) = 2464 + d - 1
         /\ Date(2027, 11, d) = 2495 + d - 1
         /\ Date(2027, 12, d) = 2525 + d - 1
  BY <1>1, DatesAre DEF LeapDay
<1>2. TableDays(2027) = {2191, 2208, 2236, 2275, 2341, 2359, 2376, 2439, 2519, 2548}
  <2>1. /\ Date(2027, 1, 1) = 2191
        /\ Date(2027, 1, 18) = 2208
        /\ Date(2027, 2, 15) = 2236
        /\ Date(2027, 3, 26) = 2275
        /\ Date(2027, 5, 31) = 2341
        /\ Date(2027, 6, 18) = 2359
        /\ Date(2027, 7, 5) = 2376
        /\ Date(2027, 9, 6) = 2439
        /\ Date(2027, 11, 25) = 2519
        /\ Date(2027, 12, 24) = 2548
    BY <1>d
  <2>2. HolidayTable[2027] = {<<1,1>>, <<1,18>>, <<2,15>>, <<3,26>>, <<5,31>>, <<6,18>>, <<7,5>>, <<9,6>>, <<11,25>>, <<12,24>>}
    BY <1>1 DEF HolidayTable
  <2> QED
    BY <2>1, <2>2 DEF TableDays
<1>3. /\ Date(2027, 1, 1) = 2191
      /\ Date(2027, 2, 1) = 2222
      /\ Date(2027, 5, 25) = 2335
      /\ Date(2027, 5, 31) = 2341
      /\ Date(2027, 6, 19) = 2360
      /\ Date(2027, 7, 4) = 2375
      /\ Date(2027, 9, 1) = 2434
      /\ Date(2027, 11, 1) = 2495
      /\ Date(2027, 12, 25) = 2549
      /\ Date(2027, 3, 28) = 2277
  <2>1. /\ Date(2027, 1, 1) = 2191
        /\ Date(2027, 2, 1) = 2222
        /\ Date(2027, 5, 25) = 2335
        /\ Date(2027, 5, 31) = 2341
        /\ Date(2027, 6, 19) = 2360
    BY <1>d
  <2>2. /\ Date(2027, 7, 4) = 2375
        /\ Date(2027, 9, 1) = 2434
        /\ Date(2027, 11, 1) = 2495
        /\ Date(2027, 12, 25) = 2549
        /\ Date(2027, 3, 28) = 2277
    BY <1>d
  <2> QED
    BY <2>1, <2>2
<1>4. /\ Nth(2027, 1, 0, 3) = 2208 /\ Nth(2027, 2, 0, 3) = 2236
      /\ Nth(2027, 9, 0, 1) = 2439 /\ Nth(2027, 11, 3, 4) = 2519
  <2>0. {0, 3} \subseteq 0 .. 6 /\ {1, 3, 4} \subseteq Int /\ Date(2027, 1, 1) \in Int /\ Date(2027, 2, 1) \in Int /\ Date(2027, 9, 1) \in Int /\ Date(2027, 11, 1) \in Int
    BY <1>3
  <2>1. Nth(2027, 1, 0, 3) \in Date(2027, 1, 1) + 7 * (3 - 1) .. Date(2027, 1, 1) + 7 * 3 - 1 /\ (Nth(2027, 1, 0, 3) + 4) % 7 = 0
    BY <2>0, NthIs
  <2>2. Nth(2027, 2, 0, 3) \in Date(2027, 2, 1) + 7 * (3 - 1) .. Date(2027, 2, 1) + 7 * 3 - 1 /\ (Nth(2027, 2, 0, 3) + 4) % 7 = 0
    BY <2>0, NthIs
  <2>3. Nth(2027, 9, 0, 1) \in Date(2027, 9, 1) + 7 * (1 - 1) .. Date(2027, 9, 1) + 7 * 1 - 1 /\ (Nth(2027, 9, 0, 1) + 4) % 7 = 0
    BY <2>0, NthIs
  <2>4. Nth(2027, 11, 3, 4) \in Date(2027, 11, 1) + 7 * (4 - 1) .. Date(2027, 11, 1) + 7 * 4 - 1 /\ (Nth(2027, 11, 3, 4) + 4) % 7 = 3
    BY <2>0, NthIs
  <2> QED
    BY <1>3, <2>1, <2>2, <2>3, <2>4
<1>5. LastMonday(2027, 5) = 2341
  BY <1>3, LastMondayIs
<1>6. GoodFriday(2027) = 2275
  BY <1>3 DEF GoodFriday
<1>7. /\ Observed(2375) = 2376 /\ Observed(2549) = 2548
      /\ Observed(2191) = 2191 /\ Observed(2360) = 2359
      /\ Weekday(2191) # 5
  BY DEF Observed, Weekday
<1> QED
  BY <1>2, <1>3, <1>4, <1>5, <1>6, <1>7 DEF RuleHolidays

LEMMA TableIsRules == Holidays = Closures
<1>1. DOMAIN HolidayTable = {2021, 2022, 2023, 2024, 2025, 2026, 2027}
  <2>1. 2021 .. 2027 = {2021, 2022, 2023, 2024, 2025, 2026, 2027}
    OBVIOUS
  <2> QED
    BY <2>1 DEF HolidayTable
<1>2. Holidays = UNION {TableDays(y) : y \in {2021, 2022, 2023, 2024, 2025, 2026, 2027}}
  BY <1>1 DEF Holidays, TableDays
<1>3. Date(2025, 1, 9) = 1469
  <2>1. YearStart(2025) = 1461 /\ ~Leap(2025) /\ 2025 \in 2021 .. 2027
    BY DEF YearStart, Leap
  <2> QED
    BY <2>1, DateIs DEF BeforeMonth
<1>4. Closures = {1469} \cup UNION {RuleHolidays(y) : y \in {2021, 2022, 2023, 2024, 2025, 2026, 2027}}
  BY <1>1, <1>3 DEF Closures, Extraordinary
<1> QED
  BY <1>2, <1>4, Closures2021, Closures2022, Closures2023, Closures2024, Closures2025, Closures2026, Closures2027

\* The table of closures says what the exchange's rules say, for whatever days are walked over
\* (_HOLIDAYS_BY_YEAR).
THEOREM TableFollowsRulesHolds == CalendarSpec => []TableFollowsRules
<1>1. TableFollowsRules
  BY TableIsRules DEF TableFollowsRules, IsHoliday
<1> QED
  BY <1>1, PTL DEF CalendarSpec
=============================================================================
