---------------------------- MODULE IngestProofs ----------------------------
(***************************************************************************)
(* Proofs about the broker ingest and the executor's watchdog: the clock   *)
(* gate lets no bar be written after a disagreement, the minute bars have  *)
(* no hole and no early end, no hour of ticks is half recorded, and a leg  *)
(* that nobody sends is told.                                              *)
(***************************************************************************)
EXTENDS ClockGate, TickFiles, BarWalk, ExecutorWatch, FiniteSetTheorems, WellFoundedInduction, TLAPS

-----------------------------------------------------------------------------
\* The clock gate.

\* Every reachable state of the gate is well typed, for every set of verdicts and clocks.
THEOREM GateTypesHold == GateSpec => []GateTypeOK
<1>1. GateInit => GateTypeOK
  BY DEF GateInit, GateTypeOK, FreshGate, Verdicts, NoTime, Jobs, Lates
<1>2. GateTypeOK /\ [GateNext]_gateVars => GateTypeOK'
  <2> SUFFICES ASSUME GateTypeOK, [GateNext]_gateVars PROVE GateTypeOK'
    OBVIOUS
  <2> USE DEF GateTypeOK, Verdicts, Jobs
  <2>1. ASSUME NEW reading \in Readings, MinuteStarts(reading) PROVE GateTypeOK'
    <3> DEFINE verdict == Verdict(reading)
    <3>1. verdict \in Verdicts
      BY DEF Verdict, Measured
    <3>2. gate' \in [seen : BOOLEAN, verdict : Verdicts, recorded : Int]
      BY <2>1, <3>1 DEF MinuteStarts
    <3>3. check' \in [at : Int, verdict : Verdicts]
      BY <2>1, <3>1 DEF MinuteStarts
    <3>4. jobs' \in [Jobs -> {"idle", "writing"}]
      BY <2>1 DEF MinuteStarts
    <3>5. measured' \in [verdict : Verdicts, unwritten : BOOLEAN]
      BY <2>1, <3>1 DEF MinuteStarts
    <3> QED
      BY <2>1, <3>2, <3>3, <3>4, <3>5 DEF MinuteStarts
  <2>2. CASE MinuteRaises
    BY <2>2 DEF MinuteRaises, Measured
  <2>3. ASSUME NEW j \in Jobs, HourStarts(j) \/ Writes(j) \/ Ends(j) PROVE GateTypeOK'
    BY <2>3 DEF HourStarts, Writes, Ends, Lates
  <2>4. CASE GateRestarts
    BY <2>4 DEF GateRestarts, FreshGate, NoTime
  <2>5. CASE BrokerChanges
    BY <2>5 DEF BrokerChanges
  <2>6. CASE Tick
    BY <2>6 DEF Tick
  <2>7. CASE UNCHANGED gateVars
    BY <2>7 DEF gateVars
  <2> QED
    BY <2>1, <2>2, <2>3, <2>4, <2>5, <2>6, <2>7 DEF GateNext
<1> QED
  BY <1>1, <1>2, PTL DEF GateSpec

\* A minute job that was let in writes under an agreement until it ends.
MinuteAgrees == jobs["minute"] = "writing" => check.verdict = "agrees"

\* The newest row is the last measurement, or that one could not be written.
RowIsLastMeasurement ==
    measured.verdict # "none" /\ ~measured.unwritten => check.verdict = measured.verdict

GateInv == RowIsLastVerdict /\ RowIsLastMeasurement /\ MinuteAgrees /\ BarsNeedAgreement

\* No bar is written while the last measurement is a disagreement that could be written down, for
\* every interval of the records, every trust, any number of restarts and changes of the broker's
\* clock, and rows that could not be written in between.
THEOREM BarsNeedAgreementHolds == GateSpec => []BarsNeedAgreement
<1>1. GateInit => GateInv
  BY DEF GateInit, GateInv, RowIsLastVerdict, RowIsLastMeasurement, MinuteAgrees, BarsNeedAgreement,
         FreshGate, Jobs
<1>2. GateTypeOK /\ GateInv /\ [GateNext]_gateVars => GateInv'
  <2> SUFFICES ASSUME GateTypeOK, GateInv, [GateNext]_gateVars PROVE GateInv'
    OBVIOUS
  <2> USE DEF GateTypeOK, GateInv, RowIsLastVerdict, RowIsLastMeasurement, MinuteAgrees,
              BarsNeedAgreement, Jobs, Verdicts
  <2>1. ASSUME NEW reading \in Readings, MinuteStarts(reading) PROVE GateInv'
    <3> DEFINE verdict == Verdict(reading)
    <3>1. RowIsLastVerdict'
      BY <2>1 DEF MinuteStarts, Records
    <3>2. jobs'["minute"] = "writing" => check'.verdict = "agrees"
      BY <2>1 DEF MinuteStarts, Allows
    <3>3. RowIsLastMeasurement'
      <4>1. CASE verdict = "none"
        BY <2>1, <4>1 DEF MinuteStarts, Records
      <4>2. CASE verdict # "none" /\ Records(verdict)
        BY <2>1, <4>2 DEF MinuteStarts
      <4>3. CASE verdict # "none" /\ ~Records(verdict)
        BY <2>1, <4>3 DEF MinuteStarts, Records
      <4> QED
        BY <4>1, <4>2, <4>3
    <3>4. BarsNeedAgreement'
      BY <2>1 DEF MinuteStarts
    <3> QED
      BY <3>1, <3>2, <3>3, <3>4
  <2>2. CASE MinuteRaises
    <3>1. /\ UNCHANGED <<clock, follows, changes, check, gate, jobs, late>> /\ measured'.unwritten
      BY <2>2 DEF MinuteRaises
    <3> QED
      BY <3>1
  <2>3. ASSUME NEW j \in Jobs, HourStarts(j) PROVE GateInv'
    BY <2>3 DEF HourStarts
  <2>4. ASSUME NEW j \in Jobs, Writes(j) PROVE GateInv'
    BY <2>4 DEF Writes
  <2>5. ASSUME NEW j \in Jobs, Ends(j) PROVE GateInv'
    BY <2>5 DEF Ends
  <2>6. CASE GateRestarts
    BY <2>6 DEF GateRestarts, FreshGate
  <2>7. CASE BrokerChanges
    BY <2>7 DEF BrokerChanges
  <2>8. CASE Tick
    BY <2>8 DEF Tick
  <2>9. CASE UNCHANGED gateVars
    BY <2>9 DEF gateVars
  <2> QED
    BY <2>1, <2>2, <2>3, <2>4, <2>5, <2>6, <2>7, <2>8, <2>9 DEF GateNext
<1>3. GateInv => BarsNeedAgreement
  BY DEF GateInv
<1> QED
  BY <1>1, <1>2, <1>3, GateTypesHold, PTL DEF GateSpec

-----------------------------------------------------------------------------
\* The hours of ticks.

\* The hours a run still has to read are over.
TodoIsOver == \A r \in Runs : \A h \in runs[r].todo : h < wall

TickInv == TickTypeOK /\ TodoIsOver /\ TickHourIsWhole

LEMMA TickInvInitially == TickInit => TickInv
<1> SUFFICES ASSUME TickInit PROVE TickInv
  OBVIOUS
<1>1. FirstHour \in Nat /\ LastHour \in Nat /\ FirstHour <= LastHour
  BY TickAssumption
<1> QED
  BY <1>1 DEF TickInit, TickInv, TickTypeOK, TodoIsOver, TickHourIsWhole, TickSlots, Runs, Resting

\* An hour that is read has closed, and what is recorded of it is what the terminal has.
LEMMA HourReadKeeps ==
    ASSUME TickInv, NEW r \in Runs, HourRead(r)
    PROVE  TickInv'
<1> USE DEF TickInv, TickTypeOK, TodoIsOver
<1>1. PICK h \in runs[r].todo :
        /\ files' = [files EXCEPT ![h] = IF h \in fetched \ Quiet THEN "ticks" ELSE "empty"]
        /\ unready' = unready \cup ({h} \ fetched)
        /\ runs' = [runs EXCEPT ![r].todo = @ \ {h}]
        /\ UNCHANGED <<wall, fetched, contract, specs>>
  BY DEF HourRead
<1>2. h \in TickSlots /\ h < wall
  OBVIOUS
<1>3. TickTypeOK'
  <2>1. runs' \in [Runs -> [now : Nat, todo : SUBSET TickSlots]]
    BY <1>1
  <2> QED
    BY <1>1, <1>2, <2>1 DEF TickSlots
<1>4. TodoIsOver'
  BY <1>1
<1>5. TickHourIsWhole'
  BY <1>1, <1>2 DEF TickHourIsWhole
<1> QED
  BY <1>3, <1>4, <1>5

LEMMA TickInvStays == TickInv /\ [TickNext]_tickVars => TickInv'
<1> SUFFICES ASSUME TickInv, [TickNext]_tickVars PROVE TickInv'
  OBVIOUS
<1> USE DEF TickInv, TickTypeOK, TodoIsOver, TickHourIsWhole
<1>1. LastHour \in Nat /\ TickHours \in Nat /\ wall \in Nat
  BY TickAssumption DEF TickSlots
<1>2. ASSUME NEW r \in Runs, HourBegins(r) PROVE TickInv'
  <2>1. HoursDue \subseteq TickSlots /\ \A h \in HoursDue : h < wall
    BY <1>1 DEF HoursDue, TickSlots
  <2>2. [now |-> wall, todo |-> HoursDue] \in [now : Nat, todo : SUBSET TickSlots]
    BY <1>1, <2>1
  <2>3. runs' \in [Runs -> [now : Nat, todo : SUBSET TickSlots]] /\ TodoIsOver'
    <3>1. CASE runs' = [runs EXCEPT ![r] = [now |-> wall, todo |-> HoursDue]]
      BY <1>2, <2>1, <2>2, <3>1 DEF HourBegins
    <3>2. CASE UNCHANGED runs
      BY <1>2, <3>2 DEF HourBegins
    <3> QED
      BY <1>2, <3>1, <3>2 DEF HourBegins
  <2>4. specs' \in Seq(Contracts)
    BY <1>2 DEF HourBegins, WithSpec
  <2> QED
    BY <1>2, <2>3, <2>4 DEF HourBegins
<1>3. ASSUME NEW r \in Runs, HourRead(r) PROVE TickInv'
  BY <1>3, HourReadKeeps
<1>4. ASSUME NEW r \in Runs, HourFails(r) PROVE TickInv'
  BY <1>4 DEF HourFails, Resting
<1>5. CASE TickRestarts
  BY <1>5 DEF TickRestarts, Resting
<1>6. CASE WallPasses
  <2>1. wall' \in TickSlots /\ wall' = wall + 1 /\ wall \in TickSlots
    BY <1>1, <1>6 DEF WallPasses, TickSlots
  <2>2. fetched' \subseteq TickSlots
    BY <1>6, <2>1 DEF WallPasses
  <2>3. \A h \in TickSlots : h < wall => h < wall'
    BY <1>1, <2>1 DEF TickSlots
  <2> QED
    BY <1>6, <2>1, <2>2, <2>3 DEF WallPasses
<1>7. CASE TicksArrive
  <2>1. fetched' \subseteq TickSlots
    BY <1>1, <1>7 DEF TicksArrive, TickSlots
  <2> QED
    BY <1>7, <2>1 DEF TicksArrive
<1>8. CASE ContractChanges
  BY <1>8 DEF ContractChanges
<1>9. CASE UNCHANGED tickVars
  BY <1>9 DEF tickVars
<1> QED
  BY <1>2, <1>3, <1>4, <1>5, <1>6, <1>7, <1>8, <1>9 DEF TickNext

\* Every reachable state of the tick files and their record is well typed.
THEOREM TickTypesHold == TickSpec => []TickTypeOK
<1>1. TickInv => TickTypeOK
  BY DEF TickInv
<1> QED
  BY <1>1, TickInvInitially, TickInvStays, PTL DEF TickSpec

\* An hour of ticks on record has closed, and is as the terminal has it unless it was asked for too
\* early, for every window, whoever runs and restarts.
THEOREM TickHourIsWholeHolds == TickSpec => []TickHourIsWhole
<1>1. TickInv => TickHourIsWhole
  BY DEF TickInv
<1> QED
  BY <1>1, TickInvInitially, TickInvStays, PTL DEF TickSpec

-----------------------------------------------------------------------------
\* The minute bars.

\* Minute history is never closed for as long as the walk back needs to give up.
ClosuresEnd ==
    \A h \in FirstMinute .. MaxHour : \E g \in h .. h + EmptyChunks * Chunk - 1 : g \notin Closed

\* A function on a finite set has a largest value: the subsets above its points have a least one.
LEMMA FiniteLargest ==
    ASSUME NEW S, IsFiniteSet(S), S # {}, NEW f \in [S -> Int]
    PROVE  \E m \in S : \A s \in S : f[s] <= f[m]
<1> DEFINE Above(m) == {s \in S : f[s] > f[m]}
           Sets == {Above(m) : m \in S}
<1>1. Sets \subseteq FiniteSubsetsOf(S) /\ Sets # {}
  <2>1. \A m \in S : Above(m) \subseteq S /\ IsFiniteSet(Above(m))
    BY FS_Subset
  <2> HIDE DEF Above
  <2>2. Sets \subseteq FiniteSubsetsOf(S)
    BY <2>1 DEF FiniteSubsetsOf
  <2> QED
    BY <2>2
<1>2. PICK X \in Sets : \A Y \in Sets : ~(<<Y, X>> \in StrictSubsetOrdering(S))
  BY <1>1, FS_StrictSubsetOrderingWellFounded, WFMin
<1>3. PICK m \in S : X = Above(m)
  BY <1>2
<1>4. ASSUME NEW s \in S, f[s] > f[m] PROVE FALSE
  <2>1. Above(s) \subseteq Above(m) /\ s \in Above(m) /\ s \notin Above(s)
    <3>1. \A i, j, k \in Int : i > j /\ j > k => i > k
      OBVIOUS
    <3>2. \A x \in S : f[x] \in Int
      OBVIOUS
    <3>3. ~(f[s] > f[s])
      BY <3>2
    <3> QED
      BY <1>4, <3>1, <3>2, <3>3
  <2>2. Above(s) \in SUBSET S /\ Above(m) \in SUBSET S
    OBVIOUS
  <2>3. <<Above(s), Above(m)>> \in StrictSubsetOrdering(S)
    BY <2>1, <2>2 DEF StrictSubsetOrdering
  <2> QED
    BY <1>2, <1>3, <2>3
<1>5. \A s \in S : f[s] \in Int
  OBVIOUS
<1> QED
  BY <1>4, <1>5

LEMMA Extremes ==
    ASSUME NEW S \in SUBSET Int, IsFiniteSet(S), S # {}
    PROVE  /\ Max(S) \in S /\ Min(S) \in S
           /\ \A s \in S : Min(S) <= s /\ s <= Max(S)
<1>1. \E m \in S : \A s \in S : m >= s
  <2> DEFINE f == [s \in S |-> s]
  <2>1. f \in [S -> Int]
    OBVIOUS
  <2>2. PICK m \in S : \A s \in S : f[s] <= f[m]
    BY <2>1, FiniteLargest
  <2> QED
    BY <2>2
<1>2. \E m \in S : \A s \in S : m <= s
  <2> DEFINE f == [s \in S |-> 0 - s]
  <2>1. f \in [S -> Int]
    OBVIOUS
  <2>2. PICK m \in S : \A s \in S : f[s] <= f[m]
    BY <2>1, FiniteLargest
  <2> QED
    BY <2>2
<1> QED
  BY <1>1, <1>2 DEF Max, Min

LEMMA HoursAreFinite ==
    ASSUME NEW S \in SUBSET Hours
    PROVE  S \subseteq Int /\ IsFiniteSet(S)
<1>1. MaxHour \in Nat
  BY WalkAssumption DEF WalkAssumption
<1>2. IsFiniteSet(0 .. MaxHour) /\ \A h \in 0 .. MaxHour : h \in Int
  BY <1>1, FS_Interval
<1> QED
  BY <1>2, FS_Subset DEF Hours

LEMMA SmallerOfTwo ==
    ASSUME NEW a \in Int, NEW b \in Int
    PROVE  Min({a, b}) \in Int /\ Min({a, b}) = IF a <= b THEN a ELSE b
<1>1. Min({a, b}) \in {a, b} /\ \A s \in {a, b} : Min({a, b}) <= s
  <2>1. \E m \in {a, b} : \A s \in {a, b} : m <= s
    OBVIOUS
  <2> QED
    BY <2>1 DEF Min
<1> QED
  BY <1>1

LEMMA DaysGrow ==
    ASSUME NEW h \in Nat, NEW g \in Nat
    PROVE  DayOf(h) \in Nat /\ (DayOf(h) < DayOf(g) => h < g)
<1> DEFINE P == HoursPerDay
           d == DayOf(h)
           e == DayOf(g)
<1>1. P \in Nat \ {0}
  BY WalkAssumption DEF WalkAssumption
<1>2. d \in Nat /\ h < (d + 1) * P /\ (d + 1) * P \in Nat
  BY <1>1 DEF DayOf
<1>3. e \in Nat /\ e * P <= g /\ e * P \in Nat
  BY <1>1 DEF DayOf
<1> HIDE DEF d, e
<1>4. ASSUME d < e PROVE h < g
  <2>1. PICK x \in Nat : e = (d + 1) + x
    <3>1. e - (d + 1) \in Nat /\ e = (d + 1) + (e - (d + 1))
      BY <1>2, <1>3, <1>4
    <3> QED
      BY <3>1
  <2>2. e * P = (d + 1) * P + x * P /\ x * P \in Nat
    BY <1>1, <1>2, <2>1
  <2> QED
    BY <1>2, <1>3, <2>2
<1> QED
  BY <1>2, <1>4 DEF d, e

\* What _drop_coarse_days drops is no minute, or older than everything it keeps.
LEMMA CoarseIsOlder ==
    ASSUME NEW answer \in SUBSET Hours, NEW keepDay
    PROVE  /\ \A h \in CoarseIn(answer, keepDay) : Trades(h) => \A g \in answer \ CoarseIn(answer, keepDay) : h < g
           /\ (\A h \in answer : Trades(h)) => CoarseIn(answer, keepDay) = {}
<1> DEFINE coarse == {h \in answer : /\ DayOf(h) # keepDay
                                     /\ \A g \in answer : DayOf(g) = DayOf(h) => g < FirstMinute}
           kept == {DayOf(h) : h \in answer \ coarse}
<1>1. CoarseIn(answer, keepDay) =
          IF coarse = {} \/ kept = {} \/ Min(kept) = keepDay THEN coarse
          ELSE coarse \cup {h \in answer : DayOf(h) = Min(kept)}
  BY DEF CoarseIn
<1>2. FirstMinute \in Nat /\ \A h \in answer : h \in Nat
  BY WalkAssumption DEF WalkAssumption, Hours
<1>3. \A h \in coarse : ~Trades(h)
  <2> SUFFICES ASSUME NEW h \in coarse PROVE ~Trades(h)
    OBVIOUS
  <2>1. h \in answer /\ h < FirstMinute /\ h \in Nat
    BY <1>2
  <2> QED
    BY <1>2, <2>1 DEF Trades
<1>4. ASSUME NEW h \in CoarseIn(answer, keepDay), Trades(h), NEW g \in answer \ CoarseIn(answer, keepDay)
      PROVE  h < g
  <2> HIDE DEF coarse
  <2>1. h \notin coarse
    BY <1>3, <1>4
  <2>2. h \in answer /\ DayOf(h) = Min(kept) /\ g \in answer \ coarse /\ DayOf(g) # Min(kept)
    BY <1>1, <1>4, <2>1
  <2>3. \E x \in kept : \A y \in kept : x <= y
    <3> DEFINE f == [x \in answer \ coarse |-> 0 - DayOf(x)]
    <3>1. IsFiniteSet(answer \ coarse) /\ answer \ coarse # {}
      BY <2>2, HoursAreFinite, FS_Subset
    <3>2. \A x \in answer \ coarse : DayOf(x) \in Int
      BY <1>2, DaysGrow
    <3>3. f \in [answer \ coarse -> Int]
      BY <3>2
    <3>4. PICK m \in answer \ coarse : \A x \in answer \ coarse : f[x] <= f[m]
      BY <3>1, <3>3, FiniteLargest
    <3>5. \A x \in answer \ coarse : DayOf(m) <= DayOf(x)
      BY <3>2, <3>4
    <3> QED
      BY <3>5
  <2>4. DayOf(g) \in kept
    BY <2>2
  <2>5. Min(kept) <= DayOf(g)
    BY <2>3, <2>4 DEF Min
  <2> QED
    <3>1. DayOf(h) \in Nat /\ DayOf(g) \in Nat /\ h \in Nat /\ g \in Nat
      BY <1>2, <2>2, DaysGrow
    <3>2. DayOf(h) < DayOf(g)
      BY <2>2, <2>5, <3>1
    <3> QED
      BY <3>1, <3>2, DaysGrow
<1>5. (\A h \in answer : Trades(h)) => coarse = {}
  BY <1>3
<1> QED
  <2> HIDE DEF coarse
  <2> QED
    BY <1>1, <1>4, <1>5
-----------------------------------------------------------------------------
\* Every trading hour from one on, up to the newest bar, is stored or was denied.
Covered(from, to) == \A h \in Hours : from <= h /\ h < to /\ Trades(h) => h \in bars \cup denied

\* Without a denial and without coarser data, no hour of these trades.
Still(from, to) == denied = {} /\ ~Coarse => \A h \in Hours : from <= h /\ h < to => ~Trades(h)

\* What is stored is whole between any two bars; forward, up to where the run is; back, from where
\* the walk is, below which the chunks counted empty hold no minute; and a walk that gave up for
\* the day had found the start.
WalkInv ==
    /\ hour \in 0 .. MaxHour /\ bars \subseteq Hours
    /\ \A b \in bars : b + 1 <= hour
    /\ \A b, c \in bars : Covered(b, c)
    /\ walk.at \in {"idle", "forward", "backward"}
    /\ walk.at # "idle" =>
        /\ walk.now \in Int /\ walk.now <= hour /\ walk.to \in Int /\ walk.empty \in Nat
        /\ \A b \in bars : b + 1 <= walk.now
    /\ walk.at = "forward" => \A b \in bars : b <= walk.to /\ Covered(b, walk.to)
    /\ walk.at = "backward" =>
        /\ bars # {}
        /\ \A b \in bars : walk.to + walk.empty * Chunk <= b /\ Covered(walk.to, b)
        /\ Still(walk.to, walk.to + walk.empty * Chunk)
    /\ deepened # NotDeepened =>
        /\ bars # {}
        /\ denied = {} /\ ~Coarse => \A h \in Hours : Trades(h) => \E b \in bars : b <= h

LEMMA WalkNumbers ==
    /\ Chunk \in Nat /\ Chunk > 0 /\ MaxHour \in Nat /\ EmptyChunks \in Nat /\ FirstMinute \in Nat
    /\ Begin \in Nat /\ Begin <= MaxHour
    /\ \A h \in Hours : h \in Int /\ h >= 0
    /\ \A h : h \in Hours <=> h \in Int /\ 0 <= h /\ h <= MaxHour
    /\ \A n \in Nat : n * Chunk \in Nat /\ (n + 1) * Chunk = n * Chunk + Chunk
BY WalkAssumption DEF WalkAssumption, Hours

LEMMA WalkInitially == WalkInit => WalkInv
<1> SUFFICES ASSUME WalkInit PROVE WalkInv
  OBVIOUS
<1>1. hour = Begin /\ bars = {} /\ walk.at = "idle" /\ deepened = NotDeepened
  BY DEF WalkInit, Idle
<1>2. hour \in 0 .. MaxHour
  BY <1>1, WalkNumbers
<1> QED
  BY <1>1, <1>2 DEF WalkInv

\* The bars that an answer adds.
LEMMA AnswerIs ==
    ASSUME NEW from \in Int, NEW to \in Int, NEW now \in Int
    PROVE  /\ \A h \in Rates(from, to, now) : h \in Hours /\ from <= h /\ h < to /\ h + 1 <= now
           /\ \A h \in Hours : from <= h /\ h < to /\ h + 1 <= now /\ Trades(h)
                => h \in Rates(from, to, now) \cup Missed(from, to)
           /\ ~Coarse => \A h \in Rates(from, to, now) : Trades(h)
BY DEF Rates, Missed, DayBar

LEMMA BeginKeepsWalk == WalkInv /\ MinuteBegins => WalkInv'
<1> SUFFICES ASSUME WalkInv, MinuteBegins PROVE WalkInv'
  OBVIOUS
<1>1. UNCHANGED <<hour, loaded, bars, deepened, restarts, denied>> /\ walk.at = "idle"
      /\ walk' = [Idle EXCEPT !.at = "forward", !.now = hour, !.to = StartForward]
  BY DEF MinuteBegins
<1>2. walk'.at = "forward" /\ walk'.now = hour /\ walk'.to = StartForward /\ walk'.empty = 0
  BY <1>1 DEF Idle
<1>3. hour \in Int /\ StartForward \in Int /\ \A b \in bars : b <= StartForward /\ Covered(b, StartForward)
  <2>0. hour \in Int
    BY WalkNumbers DEF WalkInv
  <2>1. CASE bars = {}
    BY <2>0, <2>1, WalkNumbers DEF StartForward
  <2>2. CASE bars # {}
    <3>1. StartForward = Max(bars) /\ Max(bars) \in bars /\ \A b \in bars : b <= Max(bars)
      BY <2>2, HoursAreFinite, Extremes DEF StartForward, WalkInv
    <3>2. Max(bars) \in Int
      BY <3>1, HoursAreFinite DEF WalkInv
    <3> QED
      BY <2>0, <3>1, <3>2 DEF WalkInv
  <2> QED
    BY <2>1, <2>2
<1> QED
  BY <1>1, <1>2, <1>3 DEF WalkInv, Covered

\* The walk back starts at the oldest stored bar.
LEMMA BackStarts ==
    ASSUME NEW stored \in SUBSET Hours, NEW start, start = StartsBack(stored)
    PROVE  \/ start.at = "idle"
           \/ /\ start.at = "backward" /\ start.now = walk.now /\ start.empty = 0
              /\ stored # {} /\ start.to \in stored /\ \A b \in stored : start.to <= b
<1>1. CASE stored = {} \/ deepened = DayOf(walk.now)
  BY <1>1 DEF StartsBack, Idle
<1>2. CASE ~(stored = {} \/ deepened = DayOf(walk.now))
  <2>1. start.at = "backward" /\ start.now = walk.now /\ start.empty = 0 /\ start.to = Min(stored)
    BY <1>2 DEF StartsBack, Idle
  <2>2. Min(stored) \in stored /\ \A b \in stored : Min(stored) <= b
    BY <1>2, HoursAreFinite, Extremes
  <2> QED
    BY <1>2, <2>1, <2>2
<1> QED
  BY <1>1, <1>2

\* What a walk that gave up has found stands: bars and denials only grow.
LEMMA StartStands ==
    ASSUME WalkInv, deepened' = deepened, bars \subseteq bars', denied \subseteq denied'
    PROVE  (deepened # NotDeepened =>
              /\ bars # {}
              /\ denied = {} /\ ~Coarse => \A h \in Hours : Trades(h) => \E b \in bars : b <= h)'
BY DEF WalkInv, Trades, Hours

\* A walk that starts back from bars that are whole.
LEMMA WalkTurns ==
    ASSUME bars' \subseteq Hours, \A b \in bars' : \A c \in bars' : Covered(b, c)', walk' = StartsBack(bars'),
           hour' = hour, hour \in 0 .. MaxHour, walk.now \in Int, walk.now <= hour, \A b \in bars' : b + 1 <= walk.now
    PROVE  /\ walk'.at \in {"idle", "backward"}
           /\ walk'.at # "idle" =>
                /\ walk'.now \in Int /\ walk'.now <= hour' /\ walk'.to \in Int /\ walk'.empty \in Nat
                /\ \A b \in bars' : b + 1 <= walk'.now
           /\ walk'.at = "backward" =>
                /\ bars' # {}
                /\ \A b \in bars' : walk'.to + walk'.empty * Chunk <= b /\ Covered(walk.to, b)'
                /\ Still(walk.to, walk.to + walk.empty * Chunk)'
<1>1. CASE walk'.at = "idle"
  BY <1>1
<1>2. CASE walk'.at # "idle"
  <2>1. /\ walk'.at = "backward" /\ walk'.now = walk.now /\ walk'.empty = 0
        /\ bars' # {} /\ walk'.to \in bars' /\ \A b \in bars' : walk'.to <= b
    BY <1>2, BackStarts
  <2>2. walk'.to \in Int /\ walk'.to + walk'.empty * Chunk = walk'.to
    <3>1. walk'.to \in Int
      BY <2>1, WalkNumbers
    <3>2. 0 * Chunk = 0
      BY WalkNumbers
    <3> QED
      BY <2>1, <3>1, <3>2
  <2>3. PICK to : to = walk'.to
    OBVIOUS
  <2>4. Still(walk.to, walk.to + walk.empty * Chunk)'
    BY <2>2, WalkNumbers DEF Still, Hours
  <2> QED
    BY <2>1, <2>2, <2>4
<1> QED
  BY <1>1, <1>2

LEMMA ForwardKeepsWalk == WalkInv /\ Forward => WalkInv'
<1> SUFFICES ASSUME WalkInv, Forward PROVE WalkInv'
  OBVIOUS
<1>0a. PICK from : from = walk.to
  OBVIOUS
<1>0b. PICK now : now = walk.now
  OBVIOUS
<1>0c. PICK end : end = Min({from + Chunk, now})
  OBVIOUS
<1>0d. PICK answer : answer = Rates(from, end, now)
  OBVIOUS
<1>0e. PICK missed : missed = Missed(from, end)
  OBVIOUS
<1>1. /\ walk.at = "forward" /\ from < now /\ from \in Int /\ now \in Int /\ walk.empty \in Nat
      /\ now <= hour /\ hour \in 0 .. MaxHour /\ hour \in Int
      /\ \A b \in bars : b <= from /\ Covered(b, from)
      /\ UNCHANGED <<hour, loaded, deepened, restarts>>
      /\ bars' = bars \cup answer /\ denied' = denied \cup missed
      /\ walk' = IF end < now THEN [walk EXCEPT !.to = end] ELSE StartsBack(bars')
  BY <1>0a, <1>0b, <1>0c, <1>0d, <1>0e, WalkNumbers DEF Forward, WalkInv
<1>2. end \in Int /\ from < end /\ end <= now
  <2>1. from + Chunk \in Int /\ from < from + Chunk
    BY <1>1, WalkNumbers
  <2>2. end \in Int /\ end = IF from + Chunk <= now THEN from + Chunk ELSE now
    BY <1>0c, <1>1, <2>1, SmallerOfTwo
  <2> QED
    BY <1>1, <2>1, <2>2
<1>3. /\ \A h \in answer : h \in Hours /\ from <= h /\ h < end /\ h + 1 <= now
      /\ \A h \in Hours : from <= h /\ h < end /\ h + 1 <= now /\ Trades(h) => h \in answer \cup missed
  BY <1>0d, <1>0e, <1>1, <1>2, AnswerIs
<1>4. bars' \subseteq Hours /\ \A b \in bars' : b + 1 <= now /\ b + 1 <= hour' /\ b <= end
  <2>1. \A b \in bars : b \in Hours /\ b + 1 <= now /\ b <= end
    BY <1>1, <1>2, WalkNumbers DEF WalkInv
  <2>2. \A b \in answer : b \in Hours /\ b + 1 <= now /\ b <= end
    BY <1>2, <1>3, WalkNumbers
  <2> QED
    BY <1>1, <2>1, <2>2, WalkNumbers
<1>5. ASSUME NEW b \in bars', NEW h \in Hours, b <= h, h < end, Trades(h)
      PROVE  h \in bars' \cup denied'
  <2>0. b \in Int /\ h \in Int
    BY <1>4, <1>5, WalkNumbers
  <2>1. CASE h < from
    <3>1. b \in bars
      BY <1>1, <1>3, <1>5, <2>0, <2>1
    <3> QED
      BY <1>1, <1>5, <2>1, <3>1 DEF Covered
  <2>2. CASE ~(h < from)
    BY <1>1, <1>2, <1>3, <1>5, <2>0, <2>2
  <2> QED
    BY <2>1, <2>2
<1>6. \A b \in bars' : Covered(b, end)'
  BY <1>5 DEF Covered, Trades, Hours
<1>7. \A b, c \in bars' : Covered(b, c)'
  <2> SUFFICES ASSUME NEW b \in bars', NEW c \in bars', NEW h \in Hours, b <= h, h < c, Trades(h)
               PROVE  h \in bars' \cup denied'
    BY DEF Covered, Trades, Hours
  <2>1. h < end
    BY <1>2, <1>4, WalkNumbers
  <2> QED
    BY <1>5, <2>1
<1>8. CASE end < now
  <2>1. walk'.at = "forward" /\ walk'.to = end /\ walk'.now = now /\ walk'.empty = walk.empty
    <3>1. walk' = [walk EXCEPT !.to = end]
      BY <1>1, <1>8
    <3>2. walk.at = "forward" /\ walk.empty \in Nat
      BY <1>1
    <3> QED
      BY <3>1, <3>2, <1>0b
  <2> QED
    BY <1>1, <1>2, <1>4, <1>6, <1>7, <2>1, StartStands DEF WalkInv
<1>9. CASE ~(end < now)
  <2>1. walk' = StartsBack(bars')
    BY <1>1, <1>9
  <2>2. walk.now \in Int /\ walk.now <= hour /\ \A b \in bars' : b + 1 <= walk.now
    BY <1>0b, <1>1, <1>4
  <2> QED
    BY <1>1, <1>4, <1>7, <2>1, <2>2, StartStands, WalkTurns DEF WalkInv
<1> QED
  BY <1>8, <1>9

LEMMA ForwardDoneKeepsWalk == WalkInv /\ ForwardDone => WalkInv'
<1> SUFFICES ASSUME WalkInv, ForwardDone PROVE WalkInv'
  OBVIOUS
<1>1. UNCHANGED <<hour, loaded, bars, deepened, restarts, denied>> /\ walk' = StartsBack(bars') /\ walk.at = "forward"
  BY DEF ForwardDone
<1>2. \A b, c \in bars' : Covered(b, c)'
  BY <1>1 DEF WalkInv, Covered
<1> QED
  BY <1>1, <1>2, WalkTurns, StartStands DEF WalkInv

LEMMA WaitKeepsWalk ==
    WalkInv /\ (BackAgain \/ RequestFails \/ WorkerRestarts \/ HourPasses \/ Download \/ UNCHANGED walkVars) => WalkInv'
<1> SUFFICES ASSUME WalkInv, BackAgain \/ RequestFails \/ WorkerRestarts \/ HourPasses \/ Download \/ UNCHANGED walkVars
             PROVE  WalkInv'
  OBVIOUS
<1>0. hour \in Int /\ MaxHour \in Int /\ 0 <= hour /\ hour <= MaxHour /\ \A b \in bars : b \in Int
  BY WalkNumbers DEF WalkInv
<1>1. CASE BackAgain
  <2>1. UNCHANGED <<hour, loaded, bars, deepened, restarts, denied>> /\ walk' = [walk EXCEPT !.tries = @ + 1]
    BY <1>1 DEF BackAgain
  <2>2. walk'.at = walk.at /\ walk'.now = walk.now /\ walk'.to = walk.to /\ walk'.empty = walk.empty
    BY <2>1
  <2> QED
    BY <2>1, <2>2 DEF WalkInv, Covered, Still
<1>2. CASE RequestFails \/ WorkerRestarts
  <2>1. UNCHANGED <<hour, bars, denied>> /\ walk'.at = "idle" /\ deepened' \in {deepened, NotDeepened}
    BY <1>2 DEF RequestFails, WorkerRestarts, Idle
  <2> QED
    BY <2>1 DEF WalkInv, Covered
<1>3. CASE HourPasses
  <2>1. UNCHANGED <<loaded, bars, walk, deepened, restarts, denied>> /\ hour' = hour + 1 /\ hour' \in 0 .. MaxHour
    BY <1>0, <1>3 DEF HourPasses
  <2>2. \A b \in bars : b + 1 <= hour'
    BY <1>0, <2>1 DEF WalkInv
  <2>3. walk.at # "idle" => walk.now <= hour'
    BY <1>0, <2>1 DEF WalkInv
  <2> QED
    BY <2>1, <2>2, <2>3 DEF WalkInv, Covered, Still
<1>4. CASE Download
  <2>1. UNCHANGED <<hour, bars, walk, deepened, restarts, denied>>
    BY <1>4 DEF Download
  <2> QED
    BY <2>1 DEF WalkInv, Covered, Still
<1>5. CASE UNCHANGED walkVars
  BY <1>5 DEF walkVars, WalkInv, Covered, Still
<1> QED
  BY <1>1, <1>2, <1>3, <1>4, <1>5

LEMMA BackKeepsWalk == ASSUME ClosuresEnd PROVE WalkInv /\ Back => WalkInv'
<1> SUFFICES ASSUME WalkInv, Back PROVE WalkInv'
  OBVIOUS
<1>0a. PICK to : to = walk.to
  OBVIOUS
<1>0b. PICK now : now = walk.now
  OBVIOUS
<1>0c. PICK answer : answer = Rates(to - Chunk, to, now)
  OBVIOUS
<1>0d. PICK missed : missed = Missed(to - Chunk, to)
  OBVIOUS
<1>0e. PICK coarse : coarse = CoarseIn(answer, DayOf(to))
  OBVIOUS
<1>0f. PICK empty : empty = EmptyRun(answer)
  OBVIOUS
<1>0g. PICK low : low = to - Chunk
  OBVIOUS
<1>1. /\ walk.at = "backward" /\ to \in Int /\ now \in Int /\ walk.empty \in Nat
      /\ now <= hour /\ hour \in 0 .. MaxHour /\ hour \in Int
      /\ bars # {} /\ \A b \in bars : b \in Int /\ b + 1 <= now /\ to + walk.empty * Chunk <= b /\ Covered(to, b)
      /\ Still(to, to + walk.empty * Chunk)
      /\ low \in Int /\ low < to /\ to = low + Chunk
  BY <1>0a, <1>0b, <1>0g, WalkNumbers DEF Back, WalkInv
<1>2. /\ UNCHANGED <<hour, loaded, restarts>>
      /\ bars' = bars \cup (answer \ coarse) /\ denied' = denied \cup missed
      /\ deepened' = IF coarse # {} \/ empty >= EmptyChunks THEN DayOf(now) ELSE deepened
      /\ walk' = IF (coarse # {} \/ empty >= EmptyChunks) \/ walk.left = 1 THEN Idle
                 ELSE [walk EXCEPT !.to = @ - Chunk, !.empty = empty, !.tries = 0, !.left = @ - 1]
  BY <1>0a, <1>0b, <1>0c, <1>0d, <1>0e, <1>0f DEF Back, Older
<1>3. walk.empty * Chunk \in Nat /\ (walk.empty + 1) * Chunk = walk.empty * Chunk + Chunk /\ 0 * Chunk = 0
  BY <1>1, WalkNumbers
<1>4. \A b \in bars : to <= b
  BY <1>1, <1>3
<1>5. \A h : h < to /\ h \in Int => h + 1 <= now
  BY <1>1, <1>4
<1>6. /\ \A h \in answer : h \in Hours /\ low <= h /\ h < to /\ h + 1 <= now
      /\ \A h \in Hours : low <= h /\ h < to /\ Trades(h) => h \in answer \cup missed
      /\ ~Coarse => \A h \in answer : Trades(h)
  BY <1>0c, <1>0d, <1>0g, <1>1, <1>5, AnswerIs, WalkNumbers
<1>7. /\ \A h \in coarse : Trades(h) => \A g \in answer \ coarse : h < g
      /\ (\A h \in answer : Trades(h)) => coarse = {}
  BY <1>0e, <1>6, CoarseIsOlder
<1>8. bars' \subseteq Hours /\ \A b \in bars' : b \in Int /\ b + 1 <= now /\ b + 1 <= hour' /\ low <= b
  BY <1>1, <1>2, <1>4, <1>6, WalkNumbers DEF WalkInv
\* What is new is covered from the oldest of it on.
<1>9. ASSUME NEW b \in bars', NEW h \in Hours, b <= h, Trades(h), NEW c \in bars', h < c
      PROVE  h \in bars' \cup denied'
  <2>0. b \in Int /\ c \in Int /\ h \in Int
    BY <1>8, WalkNumbers
  <2>1. CASE h < to
    <3>1. b \in answer \ coarse /\ low <= h
      BY <1>2, <1>4, <1>8, <1>9, <1>1, <2>0, <2>1
    <3>2. h \in answer \cup missed
      BY <1>6, <1>9, <2>1, <3>1
    <3>3. h \in coarse => h < b
      BY <1>7, <1>9, <3>1
    <3>4. h \notin coarse
      BY <1>9, <2>0, <3>3
    <3> QED
      BY <1>2, <3>2, <3>4
  <2>2. CASE ~(h < to)
    <3>1. c \in bars /\ to <= h
      BY <1>1, <1>2, <1>6, <1>9, <2>0, <2>2
    <3> QED
      BY <1>1, <1>2, <1>9, <3>1 DEF Covered
  <2> QED
    BY <2>1, <2>2
<1>10. \A b, c \in bars' : Covered(b, c)'
  BY <1>9 DEF Covered, Trades, Hours
\* The hours that the chunks counted empty hold.
<1>11. /\ empty \in Nat /\ empty * Chunk \in Nat
       /\ \A b \in bars : low + empty * Chunk <= b
       /\ denied' = {} /\ ~Coarse => \A h \in Hours : low <= h /\ h < low + empty * Chunk => ~Trades(h)
       /\ empty # 0 => answer = {}
  <2>1. CASE answer \subseteq bars
    <3>1. answer = {}
      BY <1>1, <1>4, <1>6, <2>1, WalkNumbers
    <3>2. empty = walk.empty + 1 /\ empty \in Nat /\ low + empty * Chunk = to + walk.empty * Chunk
      <4>1. empty = walk.empty + 1 /\ empty \in Nat
        BY <1>0f, <1>1, <2>1 DEF EmptyRun
      <4>2. empty * Chunk = walk.empty * Chunk + Chunk
        BY <1>3, <4>1
      <4> QED
        BY <1>1, <1>3, <4>1, <4>2, WalkNumbers
    <3>3. ASSUME denied' = {}, ~Coarse, NEW h \in Hours, low <= h, h < low + empty * Chunk
          PROVE  ~Trades(h)
      <4>1. CASE h < to
        BY <1>2, <1>6, <3>1, <3>3, <4>1
      <4>2. CASE ~(h < to)
        <5>1. denied = {} /\ to <= h /\ h < to + walk.empty * Chunk
          BY <1>1, <1>2, <3>2, <3>3, <4>2, WalkNumbers
        <5> QED
          BY <1>1, <3>3, <5>1 DEF Still
      <4> QED
        BY <4>1, <4>2
    <3>4. empty * Chunk \in Nat
      BY <3>2, WalkNumbers
    <3> QED
      BY <1>1, <3>1, <3>2, <3>3, <3>4
  <2>2. CASE ~(answer \subseteq bars)
    <3>1. empty = 0 /\ empty * Chunk = 0
      BY <1>0f, <1>3, <2>2 DEF EmptyRun
    <3>2. \A h \in Hours : ~(low <= h /\ h < low + 0)
      BY <1>1, WalkNumbers
    <3> QED
      BY <1>1, <1>4, <3>1, <3>2
  <2> QED
    BY <2>1, <2>2
\* Where the walk gives up there is nothing older.
<1>12. ASSUME coarse # {} \/ empty >= EmptyChunks, denied' = {}, ~Coarse, NEW h \in Hours, Trades(h)
       PROVE  \E b \in bars' : b <= h
  <2>1. coarse = {} /\ empty >= EmptyChunks /\ denied = {} /\ missed = {} /\ bars' = bars \cup answer
    BY <1>2, <1>6, <1>7, <1>12
  <2>2. PICK c \in bars : TRUE
    BY <1>1
  <2>3. h \in Int /\ c \in Int /\ c \in bars' /\ 0 <= h /\ h >= FirstMinute /\ FirstMinute \in Nat /\ low <= c
        /\ c <= MaxHour /\ MaxHour \in Nat
    BY <1>1, <1>2, <1>8, <1>12, <2>2, WalkNumbers DEF Trades, WalkInv
  <2>4. CASE h >= to
    <3>1. h < c => h \in bars
      BY <1>1, <1>12, <2>1, <2>4, <2>2 DEF Covered
    <3> QED
      BY <2>1, <2>3, <3>1
  <2>5. CASE low <= h /\ h < to
    BY <1>6, <1>12, <2>1, <2>3, <2>5
  <2>6. CASE h < low
    <3>1. low \in FirstMinute .. MaxHour
      BY <1>1, <2>3, <2>6
    <3>2. PICK g \in low .. low + EmptyChunks * Chunk - 1 : g \notin Closed
      BY <3>1 DEF ClosuresEnd
    <3>3. EmptyChunks * Chunk <= empty * Chunk /\ EmptyChunks * Chunk \in Nat
      <4>1. PICK n \in Nat : empty = EmptyChunks + n
        <5>1. empty - EmptyChunks \in Nat /\ empty = EmptyChunks + (empty - EmptyChunks)
          BY <1>11, <2>1, WalkNumbers
        <5> QED
          BY <5>1
      <4>2. empty * Chunk = EmptyChunks * Chunk + n * Chunk /\ n * Chunk \in Nat /\ EmptyChunks * Chunk \in Nat
        BY <4>1, WalkNumbers
      <4> QED
        BY <4>2
    <3>4. g \in Int /\ low <= g /\ g < low + empty * Chunk
      BY <1>1, <1>11, <3>2, <3>3
    <3>5. g < c
      BY <1>1, <1>11, <2>2, <2>3, <3>4
    <3>6. g \in Hours /\ Trades(g)
      BY <1>1, <2>3, <2>6, <3>2, <3>4, <3>5, WalkNumbers DEF Trades
    <3> QED
      BY <1>11, <1>12, <3>4, <3>6
  <2> QED
    BY <1>1, <2>3, <2>4, <2>5, <2>6
<1>13. (deepened # NotDeepened =>
          /\ bars # {}
          /\ denied = {} /\ ~Coarse => \A h \in Hours : Trades(h) => \E b \in bars : b <= h)'
  <2>1. CASE coarse # {} \/ empty >= EmptyChunks
    BY <1>1, <1>2, <1>12, <2>1 DEF Trades, Hours
  <2>2. CASE ~(coarse # {} \/ empty >= EmptyChunks)
    BY <1>2, <2>2, StartStands
  <2> QED
    BY <2>1, <2>2
<1>14. CASE (coarse # {} \/ empty >= EmptyChunks) \/ walk.left = 1
  <2>1. walk'.at = "idle"
    BY <1>2, <1>14 DEF Idle
  <2> QED
    BY <1>1, <1>2, <1>8, <1>10, <1>13, <2>1 DEF WalkInv
<1>15. CASE ~((coarse # {} \/ empty >= EmptyChunks) \/ walk.left = 1)
  <2>1. coarse = {} /\ walk'.at = "backward" /\ walk'.now = now /\ walk'.to = low /\ walk'.empty = empty
    <3>1. walk' = [walk EXCEPT !.to = @ - Chunk, !.empty = empty, !.tries = 0, !.left = @ - 1] /\ coarse = {}
      BY <1>2, <1>15
    <3>2. walk'.at = walk.at /\ walk'.now = walk.now /\ walk'.to = walk.to - Chunk /\ walk'.empty = empty
      BY <3>1
    <3> QED
      BY <1>0a, <1>0b, <1>0g, <1>1, <3>1, <3>2
  <2>2. \A b \in bars' : low + empty * Chunk <= b
    <3>1. CASE empty = 0
      BY <1>1, <1>3, <1>8, <3>1
    <3>2. CASE empty # 0
      BY <1>2, <1>11, <3>2
    <3> QED
      BY <3>1, <3>2
  <2>3. ASSUME NEW b \in bars', NEW h \in Hours, low <= h, h < b, Trades(h) PROVE h \in bars' \cup denied'
    <3>1. CASE h < to
      BY <1>2, <1>6, <2>1, <2>3, <3>1
    <3>2. CASE ~(h < to)
      <4>0. b \in Int /\ h \in Int
        BY <1>8, WalkNumbers
      <4>1. b \in bars /\ to <= h
        BY <1>1, <1>2, <1>6, <2>3, <3>2, <4>0
      <4> QED
        BY <1>1, <1>2, <2>3, <4>1 DEF Covered
    <3> QED
      BY <3>1, <3>2
  <2>4. \A b \in bars' : Covered(walk.to, b)'
    BY <2>1, <2>3 DEF Covered, Trades, Hours
  <2>5. Still(walk.to, walk.to + walk.empty * Chunk)'
    BY <1>11, <2>1 DEF Still, Trades, Hours
  <2>6. bars' # {}
    BY <1>1, <1>2
  <2> QED
    BY <1>1, <1>2, <1>8, <1>10, <1>11, <1>13, <2>1, <2>2, <2>4, <2>5, <2>6 DEF WalkInv
<1> QED
  BY <1>14, <1>15

\* If minute history is never closed for as long as the walk back needs to give up, the stored
\* history has no hole the terminal did not make and no early end, whatever fails, restarts or is
\* downloaded between two requests (bars_forward, bars_backward).
THEOREM HistoryIsWholeHolds == ASSUME ClosuresEnd PROVE WalkSpec => []HistoryIsWhole
<1>1. WalkInv => HistoryIsWhole
  <2> SUFFICES ASSUME WalkInv PROVE HistoryIsWhole
    OBVIOUS
  <2>1. bars # {} => Max(bars) \in bars /\ Min(bars) \in bars /\ \A b \in bars : Min(bars) <= b
    BY HoursAreFinite, Extremes DEF WalkInv
  <2>2. GapWasDenied
    BY <2>1, WalkNumbers DEF GapWasDenied, WalkInv, Covered
  <2>3. WalkEndsAtStart
    <3> SUFFICES ASSUME deepened # NotDeepened, denied = {}, ~Coarse, NEW h \in Hours, Trades(h) PROVE h >= Min(bars)
      BY DEF WalkEndsAtStart
    <3>1. PICK b \in bars : b <= h
      BY DEF WalkInv
    <3>2. Min(bars) \in Int /\ b \in Int /\ h \in Int /\ Min(bars) <= b
      BY <2>1, WalkNumbers DEF WalkInv
    <3> QED
      BY <3>1, <3>2
  <2> QED
    BY <2>2, <2>3 DEF HistoryIsWhole
<1>2. WalkInv /\ [WalkNext]_walkVars => WalkInv'
  BY BeginKeepsWalk, ForwardKeepsWalk, ForwardDoneKeepsWalk, BackKeepsWalk, WaitKeepsWalk DEF WalkNext
<1> QED
  BY <1>1, <1>2, WalkInitially, PTL DEF WalkSpec

-----------------------------------------------------------------------------
\* The executor's watchdog.

LEMMA DayBounds ==
    ASSUME NEW t \in Nat
    PROVE  /\ Day(t) \in Nat
           /\ \A d \in Nat : d * Slots <= t => d <= Day(t)
           /\ \A d \in Nat : t < d * Slots => Day(t) < d
<1> DEFINE P == Slots
           e == Day(t)
<1>1. P \in Nat \ {0}
  BY WatchAssumption DEF WatchAssumption
<1>2. e \in Nat /\ e * P <= t /\ t < (e + 1) * P /\ e * P \in Nat /\ (e + 1) * P \in Nat
  BY <1>1 DEF Day
<1> HIDE DEF e
<1>3. ASSUME NEW a \in Nat, NEW b \in Nat, a <= b PROVE a * P <= b * P /\ a * P \in Nat /\ b * P \in Nat
  <2>1. PICK x \in Nat : b = a + x
    <3>1. b - a \in Nat /\ b = a + (b - a)
      BY <1>3
    <3> QED
      BY <3>1
  <2>2. b * P = a * P + x * P /\ x * P \in Nat /\ a * P \in Nat
    BY <1>1, <2>1
  <2> QED
    BY <2>2
<1>4. ASSUME NEW d \in Nat, d * P <= t, ~(d <= e) PROVE FALSE
  <2>1. e + 1 <= d /\ e + 1 \in Nat
    BY <1>2, <1>4
  <2>2. (e + 1) * P <= d * P /\ d * P \in Nat
    BY <1>3, <2>1
  <2> QED
    BY <1>2, <1>4, <2>2
<1>5. ASSUME NEW d \in Nat, t < d * P, ~(e < d) PROVE FALSE
  <2>1. d * P <= e * P /\ d * P \in Nat
    BY <1>2, <1>3, <1>5
  <2> QED
    BY <1>2, <1>5, <2>1
<1> QED
  BY <1>2, <1>4, <1>5 DEF e

LEMMA BoundsAreNumbers == LastSlot \in Nat /\ MaxDay \in Nat /\ MaxFaults \in Nat /\ StaleAfter \in Nat
<1>1. Slots \in Nat \ {0} /\ MaxDay \in Nat /\ MaxFaults \in Nat /\ StaleAfter \in Nat
  BY WatchAssumption DEF WatchAssumption
<1>2. (MaxDay + 1) * Slots = MaxDay * Slots + Slots /\ MaxDay * Slots \in Nat
  BY <1>1
<1> QED
  BY <1>1, <1>2 DEF LastSlot

\* What a leg is made of.
LEMMA LegFacts ==
    ASSUME NEW leg \in Legs
    PROVE  /\ leg.day \in 0 .. MaxDay /\ leg.day \in Nat /\ leg \in LegsOf(leg.day)
           /\ leg.due \in Nat /\ leg.ready \in Nat /\ leg.until \in Nat /\ leg.expires \in Nat
           /\ leg.day * Slots <= leg.due /\ leg.due <= leg.ready
           /\ leg.until <= leg.expires => leg.until - leg.ready > StaleAfter
<1>1. PICK d \in 0 .. MaxDay : leg \in LegsOf(d)
  BY DEF Legs
<1>2. /\ Slots \in Nat \ {0} /\ Entry \in Nat /\ Exit \in Nat /\ EntryWindow \in Nat /\ ExitWindow \in Nat
      /\ MaxDay \in Nat /\ StaleAfter \in Nat /\ EntryWindow > StaleAfter /\ ExitWindow > StaleAfter
      /\ BinEnd \in Nat /\ DecideWindow \in Nat /\ ActWithin \in Nat /\ ActWithin > StaleAfter
  BY WatchAssumption DEF WatchAssumption
<1>3. d \in Nat /\ d * Slots \in Nat
  BY <1>2
<1>4. LastSlot \in Nat
  BY BoundsAreNumbers
<1>5. CASE leg \in SessionLegs(d)
  <2>1. PICK e \in {Entry, Exit}, w \in {EntryWindow, ExitWindow} :
          leg = [day |-> d, due |-> d * Slots + e, ready |-> d * Slots + e,
                 until |-> d * Slots + e + w, expires |-> d * Slots + e + w]
    BY <1>5 DEF SessionLegs, Leg
  <2>2. e \in Nat /\ w \in Nat /\ w > StaleAfter
    BY <1>2
  <2> QED
    BY <1>1, <1>2, <1>3, <2>1, <2>2
<1>6. CASE leg \in DecideLegs(d)
  <2> DEFINE due == d * Slots + BinEnd
  <2>1. PICK bar \in FirstBar(due) :
          leg = [day |-> d, due |-> due, ready |-> bar,
                 until |-> bar + (IF bar > due + DecideWindow THEN LastSlot ELSE ActWithin),
                 expires |-> due + DecideWindow]
    BY <1>6 DEF DecideLegs, Leg
  <2>2. due \in Nat /\ bar \in Nat /\ due <= bar /\ d * Slots <= due
    BY <1>2, <1>3 DEF FirstBar
  <2> HIDE DEF due
  <2> QED
    BY <1>1, <1>2, <1>4, <2>1, <2>2
<1> QED
  BY <1>1, <1>5, <1>6 DEF LegsOf

\* While a leg that is followed can be acted on, its session is looked at.
LEMMA FollowedIsSeen ==
    ASSUME NEW leg \in Legs, IsFollowed(leg), NEW t \in Nat, leg.ready <= t, t <= leg.until
    PROVE  Day(t) \in {leg.day, leg.day + 1}
<1>1. Slots \in Nat \ {0}
  BY WatchAssumption DEF WatchAssumption
<1>2. /\ leg.day \in Nat /\ leg.ready \in Nat /\ leg.until \in Nat /\ leg.due \in Nat
      /\ leg.day * Slots \in Nat /\ leg.day * Slots <= t
  BY <1>1, LegFacts
<1>3. PICK n \in Nat : n = leg.day + 2
  BY <1>2
<1>4. n * Slots \in Nat
  BY <1>1
<1>5. Day(leg.until) \in Nat /\ Day(leg.until) < n
  BY <1>2, <1>3, DayBounds DEF IsFollowed
<1>6. t < n * Slots
  <2>1. n * Slots <= leg.until => n <= Day(leg.until)
    BY <1>2, DayBounds
  <2> QED
    BY <1>2, <1>4, <1>5, <2>1
<1>7. Day(t) \in Nat /\ leg.day <= Day(t) /\ Day(t) < n
  BY <1>2, <1>6, DayBounds
<1> QED
  BY <1>2, <1>3, <1>7

LEMMA SlotIsOfADay ==
    ASSUME NEW t \in 0 .. LastSlot
    PROVE  Day(t) \in 0 .. MaxDay
<1>1. Slots \in Nat \ {0} /\ MaxDay \in Nat
  BY WatchAssumption DEF WatchAssumption
<1>2. PICK n \in Nat : n = MaxDay + 1
  BY <1>1
<1>3. t \in Nat /\ t < n * Slots
  BY <1>1, <1>2 DEF LastSlot
<1>4. Day(t) \in Nat /\ Day(t) < n
  BY <1>3, DayBounds
<1> QED
  BY <1>1, <1>2, <1>4

\* What a tick looks at: the legs of today and yesterday.
LEMMA TickLooksAt ==
    ASSUME WatchTypeOK
    PROVE  /\ LooksAt \subseteq Legs
           /\ \A leg \in Legs : Day(slot) \in {leg.day, leg.day + 1} => leg \in LooksAt
<1>1. Slots \in Nat \ {0} /\ MaxDay \in Nat /\ slot \in Nat /\ Day(slot) \in 0 .. MaxDay
  BY WatchAssumption, SlotIsOfADay DEF WatchAssumption, WatchTypeOK, LastSlot
<1>2. \A d \in Nat : 1 <= d => d * Slots >= Slots
  <2> SUFFICES ASSUME NEW d \in Nat, 1 <= d PROVE d * Slots >= Slots
    OBVIOUS
  <2>1. d * Slots = (d - 1) * Slots + Slots /\ (d - 1) * Slots \in Nat
    <3>1. d - 1 \in Nat
      OBVIOUS
    <3>2. PICK x \in Nat : d = x + 1
      BY <3>1
    <3>3. (x + 1) * Slots = x * Slots + Slots /\ x * Slots \in Nat
      BY <1>1
    <3> QED
      BY <1>1, <3>2, <3>3
  <2> QED
    BY <1>1, <2>1
<1>3. slot >= Slots <=> Day(slot) >= 1
  <2>1. Day(slot) * Slots <= slot
    BY <1>1 DEF Day
  <2>3. 1 * Slots = Slots
    BY <1>1
  <2>4. Day(slot) >= 1 => Day(slot) * Slots >= Slots
    BY <1>1, <1>2
  <2>5. 1 * Slots <= slot => 1 <= Day(slot)
    BY <1>1, DayBounds
  <2> QED
    BY <1>1, <2>1, <2>3, <2>4, <2>5
<1>4. \A d \in 0 .. MaxDay : LegsOf(d) \subseteq Legs
  BY DEF Legs
<1>5. \A leg \in Legs : leg.day \in 0 .. MaxDay /\ leg \in LegsOf(leg.day)
  BY LegFacts
<1>6. Day(slot) >= 1 => Day(slot) - 1 \in 0 .. MaxDay
  BY <1>1
<1>7. ASSUME NEW leg \in Legs, Day(slot) \in {leg.day, leg.day + 1}
      PROVE  leg \in LegsOf(Day(slot)) \/ (slot >= Slots /\ leg \in LegsOf(Day(slot) - 1))
  <2>1. CASE Day(slot) = leg.day
    BY <1>5, <2>1
  <2>2. CASE Day(slot) = leg.day + 1
    <3>1. Day(slot) - 1 = leg.day /\ Day(slot) >= 1
      BY <1>5, <2>2
    <3> QED
      BY <1>3, <1>5, <3>1
  <2> QED
    BY <1>7, <2>1, <2>2
<1> QED
  BY <1>1, <1>3, <1>4, <1>6, <1>7 DEF LooksAt

\* What the watchdog and the executor leave behind.
WatchInv ==
    /\ WatchTypeOK
    /\ beat <= slot
    /\ \A leg \in expired : leg.until < slot
    /\ sent \subseteq tried
    /\ \A leg \in Legs \ tried : IsFollowed(leg) => ~(leg.ready <= beat /\ beat <= leg.until)
    /\ alerted # NotTold => word = "out" /\ alerted \in told.days
    /\ checked /\ slot \notin blind /\ IsOutage => alerted = Day(slot)
    /\ seen \subseteq told.legs
    /\ checked /\ slot \notin blind /\ beat < slot => RecentlyExpired \subseteq told.legs

LEMMA WatchInvInitially == WatchInit => WatchInv
<1> SUFFICES ASSUME WatchInit PROVE WatchInv
  OBVIOUS
<1>1. 0 \in 0 .. LastSlot /\ NoBeat \in NoBeat .. LastSlot /\ NotTold \in NotTold .. MaxDay /\ 0 \in 0 .. MaxFaults
  BY BoundsAreNumbers DEF NoBeat, NotTold
<1>2. WatchTypeOK
  BY <1>1 DEF WatchInit, WatchTypeOK
<1>3. \A leg \in Legs : leg.ready \in Nat
  BY LegFacts
<1> QED
  BY <1>2, <1>3 DEF WatchInit, WatchInv, NoBeat, NotTold

LEMMA TickKeeps ==
    ASSUME WatchInv, ExecutorTicks
    PROVE  WatchInv'
<1> DEFINE known == pending \cup (LooksAt \ (sent \cup expired))
           ready == {leg \in known : leg.ready <= slot}
           tooLate == {leg \in ready : leg.until < slot}
<1>1. PICK kept \in SUBSET (ready \ tooLate) :
        /\ sent' = sent \cup ((ready \ tooLate) \ kept)
        /\ pending' = (known \ ready) \cup kept
        /\ expired' = expired \cup tooLate
        /\ tried' = tried \cup (ready \ tooLate)
        /\ beat' = slot
        /\ UNCHANGED <<slot, checked, alerted, seen, faults, blind, word, told>>
  BY DEF ExecutorTicks
<1>2. LooksAt \subseteq Legs /\ \A leg \in Legs : Day(slot) \in {leg.day, leg.day + 1} => leg \in LooksAt
  BY TickLooksAt DEF WatchInv
<1>3. slot \in 0 .. LastSlot /\ slot \in Nat /\ StaleAfter \in Nat
  BY WatchAssumption DEF WatchInv, WatchTypeOK, WatchAssumption
<1>4. WatchTypeOK'
  <2>1. known \subseteq Legs /\ ready \subseteq known /\ tooLate \subseteq ready
    BY <1>2 DEF WatchInv, WatchTypeOK
  <2> HIDE DEF known, ready, tooLate
  <2> QED
    BY <1>1, <1>3, <2>1 DEF WatchInv, WatchTypeOK, NoBeat
<1>5. ASSUME NEW leg \in Legs \ tried', IsFollowed(leg), leg.ready <= slot, slot <= leg.until PROVE FALSE
  <2>1. Day(slot) \in {leg.day, leg.day + 1} /\ leg.until \in Nat /\ leg.ready \in Nat
    BY <1>3, <1>5, LegFacts, FollowedIsSeen
  <2>2. leg \in LooksAt
    BY <1>2, <1>5, <2>1
  <2>3. leg \notin expired /\ leg \notin sent
    BY <1>1, <1>3, <1>5, <2>1 DEF WatchInv
  <2>4. leg \in ready \ tooLate
    BY <1>3, <1>5, <2>1, <2>2, <2>3
  <2> QED
    BY <1>1, <1>5, <2>4
<1>6. \A leg \in expired' : leg.until < slot'
  BY <1>1 DEF WatchInv
<1>7. sent' \subseteq tried'
  BY <1>1 DEF WatchInv
<1>8. ~Stale'
  BY <1>1, <1>3 DEF Stale, NoBeat
<1>9. beat' = slot /\ slot' = slot /\ UNCHANGED <<alerted, seen, blind, word, told>>
  BY <1>1
<1> HIDE DEF known, ready, tooLate
<1>10. \A leg \in Legs \ tried' : IsFollowed(leg) => ~(leg.ready <= slot /\ slot <= leg.until)
  BY <1>5
<1>11. \A leg \in Legs : IsFollowed(leg)' = IsFollowed(leg)
  BY DEF IsFollowed, Day
<1> QED
  BY <1>3, <1>4, <1>6, <1>7, <1>8, <1>9, <1>10, <1>11 DEF WatchInv, IsOutage

LEMMA WatchStep == WatchInv /\ [WatchNext]_watchVars => WatchInv'
<1> SUFFICES ASSUME WatchInv, [WatchNext]_watchVars PROVE WatchInv'
  OBVIOUS
<1>0. /\ slot \in 0 .. LastSlot /\ slot \in Nat /\ beat \in Int /\ StaleAfter \in Nat /\ MaxFaults \in Nat
      /\ Day(slot) \in 0 .. MaxDay /\ Day(slot) # NotTold /\ LastSlot \in Nat /\ MaxDay \in Nat
  BY BoundsAreNumbers, SlotIsOfADay DEF WatchInv, WatchTypeOK, NoBeat, NotTold
<1>1. CASE ExecutorTicks
  BY <1>1, TickKeeps
<1>2. CASE ExecutorCheck
  <2>1. UNCHANGED <<slot, beat, pending, sent, expired, faults, tried, blind>>
    BY <1>2 DEF ExecutorCheck
  <2>2. IsOutage' = IsOutage /\ RecentlyExpired' = RecentlyExpired /\ Day(slot)' = Day(slot)
    BY <2>1 DEF IsOutage, Watched, LooksAt, Stale, RecentlyExpired, Day
  <2>3. WatchTypeOK'
    <3>1. told' \in [days : SUBSET (0 .. MaxDay), legs : SUBSET Legs]
      <4>1. told.days \subseteq 0 .. MaxDay /\ told.legs \subseteq Legs /\ RecentlyExpired \subseteq Legs
        BY DEF WatchInv, WatchTypeOK, RecentlyExpired
      <4> QED
        BY <1>0, <1>2, <4>1 DEF ExecutorCheck
    <3>2. alerted' \in NotTold .. MaxDay
      BY <1>0, <1>2 DEF WatchInv, WatchTypeOK, ExecutorCheck, NotTold
    <3> QED
      BY <1>2, <2>1, <3>1, <3>2 DEF WatchInv, WatchTypeOK, ExecutorCheck, RecentlyExpired
  <2>4. alerted' # NotTold => word' = "out" /\ alerted' \in told'.days
    BY <1>2 DEF WatchInv, ExecutorCheck, TellsBack, TellsOutage, WatchTypeOK
  <2>5. IsOutage => alerted' = Day(slot)
    BY <1>2 DEF ExecutorCheck, TellsOutage, TellsBack
  <2>6. seen' \subseteq told'.legs /\ RecentlyExpired \subseteq told'.legs
    BY <1>2 DEF WatchInv, ExecutorCheck
  <2> QED
    BY <2>1, <2>2, <2>3, <2>4, <2>5, <2>6 DEF WatchInv
<1>3. CASE CheckFails
  BY <1>0, <1>3 DEF CheckFails, WatchInv, WatchTypeOK, IsOutage, Watched, LooksAt, Stale, RecentlyExpired, Day
<1>4. CASE WatchRestarts
  <2>1. NotTold \in NotTold .. MaxDay /\ faults' \in 0 .. MaxFaults
    BY <1>0, <1>4 DEF WatchRestarts, WatchInv, WatchTypeOK, NotTold
  <2> QED
    BY <1>4, <2>1 DEF WatchRestarts, WatchInv, WatchTypeOK
<1>5. CASE SlotPasses
  <2>1. /\ slot' = slot + 1 /\ slot' \in 0 .. LastSlot /\ checked' = FALSE
        /\ UNCHANGED <<beat, pending, sent, expired, alerted, seen, faults, tried, blind, word, told>>
    BY <1>0, <1>5 DEF SlotPasses
  <2>2. \A leg \in expired : leg.until < slot'
    <3>1. \A leg \in expired : leg.until \in Nat /\ leg.until < slot
      BY LegFacts DEF WatchInv, WatchTypeOK
    <3> QED
      BY <1>0, <2>1, <3>1
  <2>3. beat <= slot'
    BY <1>0, <2>1 DEF WatchInv
  <2>4. WatchTypeOK'
    BY <2>1 DEF WatchInv, WatchTypeOK
  <2> QED
    BY <2>1, <2>2, <2>3, <2>4 DEF WatchInv
<1>6. CASE UNCHANGED watchVars
  BY <1>6 DEF watchVars, WatchInv, WatchTypeOK, IsOutage, Watched, LooksAt, Stale, RecentlyExpired, Day
<1> QED
  BY <1>1, <1>2, <1>3, <1>4, <1>5, <1>6 DEF WatchNext

\* A leg that was not acted on is over before the executor beats again, and that is longer than
\* STALE_AFTER.
LEMMA MissIsTold ==
    ASSUME WatchInv, NEW leg \in Legs, IsFollowed(leg)
    PROVE  ~PassesSilently(leg)
<1> SUFFICES ASSUME checked, slot = leg.until, leg \notin tried, blind \cap Window(leg) = {}
             PROVE  word = "out" /\ \E t \in Window(leg) : Day(t) \in told.days
  BY DEF PassesSilently
<1>1. /\ slot \in Nat /\ beat \in Int /\ beat <= slot /\ StaleAfter \in Nat /\ Lead \in Nat
      /\ leg.due \in Nat /\ leg.ready \in Nat /\ leg.due <= leg.ready /\ leg.expires \in Nat
      /\ leg.until <= leg.expires /\ leg.until - leg.ready > StaleAfter
  BY WatchAssumption, LegFacts DEF WatchInv, WatchTypeOK, WatchAssumption, NoBeat, IsFollowed
<1>2. Day(slot) \in {leg.day, leg.day + 1}
  BY <1>1, FollowedIsSeen
<1>3. slot \in Window(leg)
  BY <1>1 DEF Window
<1>4. leg \in Watched
  BY <1>1, <1>2, TickLooksAt DEF Watched, WatchInv
<1>5. Stale
  BY <1>1 DEF WatchInv, Stale
<1>6. alerted = Day(slot) /\ Day(slot) # NotTold
  BY <1>1, <1>3, <1>4, <1>5, DayBounds DEF WatchInv, IsOutage, NotTold
<1> QED
  BY <1>3, <1>6 DEF WatchInv

\* Whatever the heartbeat does and whoever restarts, a leg that is over by the day after its session and that no
\* tick acted on has been told as an outage on a day of its window, and what the executor gave up on is told by the next pass (run_executor_check).
THEOREM MissesAreToldHolds == WatchSpec => []MissesAreTold
<1>1. WatchInv => MissesAreTold
  BY MissIsTold DEF WatchInv, MissesAreTold, NoSilentMiss, ExpiredIsTold, RecentlyExpired
<1> QED
  BY <1>1, WatchInvInitially, WatchStep, PTL DEF WatchSpec
=============================================================================
