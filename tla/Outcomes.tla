------------------------------ MODULE Outcomes ------------------------------
(***************************************************************************)
(* How a recorded opportunity is scored (modules/gex/scan/outcomes.py):    *)
(* against the daily bars after its decision it fills or does not, and a   *)
(* filled trade ends at its stop, its target, or its last day.             *)
(*                                                                         *)
(* Prices are integers and results are kept in price, not divided by the   *)
(* risk.  The bars are appended one at a time and the same rule is applied *)
(* each evening to all there are.                                          *)
(***************************************************************************)
EXTENDS Integers, Sequences, FiniteSets, FiniteSetsExt

CONSTANTS
    TriggerWindow,  \* TRIGGER_WINDOW_BARS
    MaxHold,        \* MAX_HOLD_BARS
    Specs,          \* the trades scored: [setup, side, entry, stop, target]
    DayBars,        \* the bars a day may have: [open, high, low, close]
    MaxDays         \* bound

ASSUME OutcomesAssumption ==
    /\ TriggerWindow \in Nat \ {0} /\ MaxHold \in Nat \ {0} /\ MaxDays \in Nat
    /\ \A s \in Specs : s.side \in {"LONG", "SHORT"} /\ {s.entry, s.stop, s.target} \subseteq Int
    /\ \A s \in Specs : s.side = "LONG" => s.stop <= s.entry /\ s.entry < s.target
    /\ \A s \in Specs : s.side = "SHORT" => s.target < s.entry /\ s.entry <= s.stop
    /\ \A b \in DayBars : {b.open, b.high, b.low, b.close} \subseteq Int
    /\ \A b \in DayBars : b.low <= Min({b.open, b.close}) /\ Max({b.open, b.close}) <= b.high

VARIABLES
    spec,  \* the trade, constant
    days   \* the daily bars after the decision date

outcomeVars == <<spec, days>>

Resolved == {"target", "stop", "expired"}

-----------------------------------------------------------------------------
\* Where a level lies for this side: the better of two prices, the worse, at or beyond.
Dir(s) == IF s.side = "LONG" THEN 1 ELSE -1
Better(s, a, b) == IF Dir(s) * (a - b) >= 0 THEN a ELSE b
Worse(s, a, b) == IF Dir(s) * (a - b) >= 0 THEN b ELSE a
Favourable(s, bar) == IF Dir(s) > 0 THEN bar.high ELSE bar.low
Adverse(s, bar) == IF Dir(s) > 0 THEN bar.low ELSE bar.high
AtOrPast(s, price, level) == Dir(s) * (price - level) >= 0
AtOrBelow(s, price, level) == Dir(s) * (price - level) <= 0

\* A plausible bug: the resting limit of a fade is never taken back.
TouchedEver(s, bars) ==
    IF s.setup = "continuation" THEN 1
    ELSE LET touched == {i \in 1 .. Len(bars) : AtOrBelow(s, Adverse(s, bars[i]), s.entry)}
         IN  IF touched = {} THEN 0 ELSE Min(touched)

\* The bar a fade's resting limit is touched on within the window, or 0.  A continuation fills at
\* the first open.
TriggerBar(s, bars) ==
    IF s.setup = "continuation" THEN 1
    ELSE LET touched == {i \in 1 .. Min({Len(bars), TriggerWindow}) : AtOrBelow(s, Adverse(s, bars[i]), s.entry)}
         IN  IF touched = {} THEN 0 ELSE Min(touched)

\* A gap through the limit fills at the open, the better price.
Fill(s, bar) == IF s.setup = "continuation" THEN bar.open ELSE Worse(s, bar.open, s.entry)

\* Filled inside the bar: what the bar did for the trade before the fill is not known.
FillsInside(s, bar) == s.setup # "continuation" /\ Fill(s, bar) = s.entry

StopHit(s, bar) == AtOrBelow(s, Adverse(s, bar), s.stop)
TargetTouched(s, bar) == AtOrPast(s, Favourable(s, bar), s.target)

TargetHit(s, bar, onFill) == TargetTouched(s, bar) /\ ~(onFill /\ FillsInside(s, bar))

\* What the trade's bars say, from the fill: the first bar that ends it.  A bar that hits both
\* levels is a stop, for daily bars carry no order.
Endings(s, bars, t) ==
    {j \in t .. Len(bars) :
        StopHit(s, bars[j]) \/ TargetHit(s, bars[j], j = t) \/ j - t + 1 >= MaxHold}

ExitOf(s, bar, onFill) ==
    IF StopHit(s, bar) THEN [outcome |-> "stop", price |-> Worse(s, s.stop, bar.open)]
    ELSE IF TargetHit(s, bar, onFill) THEN [outcome |-> "target", price |-> Better(s, s.target, bar.open)]
    ELSE [outcome |-> "expired", price |-> bar.close]

\* The best and worst excursion: of the fill bar only its adverse side and its close follow the fill.
BestOf(s, bars, t, j) ==
    LET gain(p) == Dir(s) * (p - Fill(s, bars[t])) IN
    Max({IF i = t /\ FillsInside(s, bars[t]) THEN Max({0, gain(bars[i].close)})
         ELSE gain(Favourable(s, bars[i])) : i \in t .. j})
WorstOf(s, bars, t, j) == Min({Dir(s) * (Adverse(s, bars[i]) - Fill(s, bars[t])) : i \in t .. j})

Pending == [outcome |-> "pending"]

\* evaluate: a trade without risk has no unit to be scored in.
Evaluate(s, bars) ==
    IF s.entry = s.stop THEN [outcome |-> "invalid"]
    ELSE IF bars = <<>> THEN Pending
    ELSE LET t == TriggerBar(s, bars) IN
         IF t = 0 THEN IF Len(bars) >= TriggerWindow THEN [outcome |-> "untriggered"] ELSE Pending
         ELSE IF Endings(s, bars, t) = {} THEN Pending
         ELSE LET j == Min(Endings(s, bars, t))
                  exit == ExitOf(s, bars[j], j = t)
              IN  [outcome |-> exit.outcome, on |-> j, fill |-> Fill(s, bars[t]),
                   result |-> Dir(s) * (exit.price - Fill(s, bars[t])),
                   best |-> BestOf(s, bars, t, j), worst |-> WorstOf(s, bars, t, j)]

-----------------------------------------------------------------------------
OutcomesInit == spec \in Specs /\ days = <<>>

DayCloses ==
    /\ Len(days) < MaxDays
    /\ \E bar \in DayBars : days' = Append(days, bar)
    /\ UNCHANGED spec

OutcomesSpec == OutcomesInit /\ [][DayCloses]_outcomeVars

-----------------------------------------------------------------------------
\* Properties.

Scored == Evaluate(spec, days)

\* A score is final: once the bars resolve a trade, or leave it untriggered, no later bar changes
\* anything of it, so that the nightly job may stop looking.
ScoreIsFinal == [][Scored.outcome # "pending" => Evaluate(spec, days') = Scored]_outcomeVars

\* The record never flatters: a result lies between the worst and the best the trade saw after its
\* fill, gaps included, a stop never gains over the stop's price nor a target loses to it, and
\* the day that touched both is not a gain.
ResultIsSeen ==
    Scored.outcome \in Resolved =>
        /\ Scored.worst <= Scored.result /\ Scored.result <= Scored.best
        /\ Scored.outcome = "stop" => AtOrBelow(spec, Scored.fill + Dir(spec) * Scored.result, spec.stop)
        /\ StopHit(spec, days[Scored.on]) => Scored.outcome = "stop"

\* What the track record keeps of a trade: a result it saw, and for good.
TrackRecordHolds == ScoreIsFinal /\ []ResultIsSeen
=============================================================================
