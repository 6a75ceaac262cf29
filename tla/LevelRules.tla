----------------------------- MODULE LevelRules -----------------------------
(***************************************************************************)
(* The rules of the level events (modules/gex/scan/level_events.py): when  *)
(* the bars of a session cross the flip, bounce off a wall or break        *)
(* through one, given the captures taken so far, and the swings of the     *)
(* path after an entry.                                                    *)
(*                                                                         *)
(* A session grows bar by bar and capture by capture, and the path point   *)
(* by point; the rules are applied to what there is.  Prices and levels    *)
(* are small integers, a capture counts from the first bar that closes     *)
(* after it was taken.                                                     *)
(***************************************************************************)
EXTENDS Integers, Sequences, FiniteSets, SequencesExt

CONSTANTS
    Prices, Levels,  \* small sets of integers
    Touches,         \* where a bar's extreme may be, besides its close
    Points, Unit,    \* the path's excursions, and the size of a swing
    MaxBars, MaxCaptures, MaxPoints  \* bounds

NoLevel == -100

ASSUME LevelAssumption ==
    /\ Prices \subseteq Int /\ Levels \subseteq Int /\ Points \subseteq Int /\ Touches \subseteq Int
    /\ Unit \in Nat \ {0}
    /\ {MaxBars, MaxCaptures, MaxPoints} \subseteq Nat

VARIABLES
    kind,      \* the level this session is read for, constant: flip, put_wall, call_wall
    bars,      \* the closed bars
    captures,  \* the captures, in order, with the first bar they count for
    points     \* the excursions after an entry

ruleVars == <<kind, bars, captures, points>>

Kinds == {"flip", "put_wall", "call_wall"}

\* A bar as the rule for this level sees it: its close, and the extreme on the wall's side.  The
\* call wall is approached from below: its prices are mirrored.
Mirror(k) == IF k = "call_wall" THEN -1 ELSE 1
Bars(k) ==
    IF k = "flip" THEN [close : Prices, extreme : {0}]
    ELSE {[close |-> Mirror(k) * b[1], extreme |-> Mirror(k) * b[2]] :
             b \in {b \in Prices \X (Prices \cup Touches) : b[2] <= b[1] /\ b[2] \in {b[1]} \cup Touches}}

LevelInit ==
    /\ kind \in Kinds
    /\ bars = <<>> /\ captures = <<>> /\ points = <<>>

-----------------------------------------------------------------------------
Sign(x) == IF x > 0 THEN 1 ELSE IF x < 0 THEN -1 ELSE 0
AbsOf(x) == IF x < 0 THEN -x ELSE x

\* A plausible bug: the newest capture is used, whenever it was taken.
NewestLevel(i) ==
    LET known == {c \in 1 .. Len(captures) : captures[c].level # NoLevel}
    IN  IF known = {} THEN NoLevel ELSE captures[Max(known)].level

\* _latest: the level of the newest capture taken by the close of bar i that has one.
LevelAt(i) ==
    LET known == {c \in 1 .. Len(captures) : captures[c].level # NoLevel /\ captures[c].from <= i}
    IN  IF known = {} THEN NoLevel ELSE captures[Max(known)].level

\* side_at: the bar closed above the level, below it or on it.
Side(i) == Sign(bars[i].close - LevelAt(i))

\* The bars that have a level, and each three of them in a row.
Leveled == {i \in 1 .. Len(bars) : LevelAt(i) # NoLevel}
InARow(i, j) == i < j /\ ~\E k \in Leveled : i < k /\ k < j
Threes == {r \in Leveled \X Leveled \X Leveled : InARow(r[1], r[2]) /\ InARow(r[2], r[3])}

Found(i, name, level) == [bar |-> i, key |-> name, level |-> level]

\* detect_crosses: two closes on a side after one on the other.
Crosses ==
    {Found(r[3], IF Side(r[3]) > 0 THEN "FLIP_CROSS_UP" ELSE "FLIP_CROSS_DOWN", LevelAt(r[3])) :
        r \in {r \in Threes : Side(r[3]) # 0 /\ Side(r[2]) = Side(r[3]) /\ Side(r[1]) = -Side(r[3])}}

\* detect_wall_breaks: the same, to the side the wall gives way to, of a wall that stood still.
BreakSide == IF kind = "put_wall" THEN -1 ELSE 1
Breaks ==
    {Found(r[3], "BREAK", LevelAt(r[3])) :
        r \in {r \in Threes :
                  /\ Side(r[3]) = BreakSide /\ Side(r[2]) = BreakSide /\ Side(r[1]) = -BreakSide
                  /\ LevelAt(r[2]) = LevelAt(r[3]) /\ LevelAt(r[1]) = LevelAt(r[3])}}

\* A bar touched the wall from the right side and closed back on it, and two closes went away.
Away == -BreakSide
Bounces(t, w) ==
    /\ w # NoLevel
    /\ Away * (bars[t - 1].close - w) > 0
    /\ Away * (bars[t].extreme - w) <= 0
    /\ Away * (bars[t].close - w) > 0
    /\ Away * (bars[t + 1].close - bars[t].close) > 0
    /\ Away * (bars[t + 2].close - bars[t + 1].close) > 0

\* detect_wall_bounces, from left to right: the next touch comes after the confirming bar.
Tried == 2 .. Len(bars) - 2
Touched ==
    CHOOSE T \in SUBSET Tried :
        \A t \in Tried : t \in T <=> Bounces(t, LevelAt(t)) /\ t - 1 \notin T /\ t - 2 \notin T

WallBounces == {Found(t + 2, "BOUNCE", LevelAt(t)) : t \in Touched}

EventsSoFar == IF kind = "flip" THEN Crosses ELSE Breaks \cup WallBounces

\* horizon_returns: the closes a fixed number of bars after the entry that exist, and the last.
HorizonCloses(bar, horizons) == [h \in {h \in horizons : bar + h <= Len(bars)} |-> bars[bar + h].close]

-----------------------------------------------------------------------------
\* The leg under way turned back by a unit: its extreme is a swing.
Turns(leg, x) == leg.dir # 0 /\ leg.dir * (leg.ext - x) >= Unit

FreshLeg == [dir |-> 0, ext |-> 0, lo |-> 0, hi |-> 0, swings |-> <<>>]

\* Before the first swing: the worst and the best so far; the one price turns back from by a unit
\* is the first swing, if it is itself a unit from the entry.
Opening(leg, x) ==
    LET lo == IF x < leg.lo THEN x ELSE leg.lo
        hi == IF x > leg.hi THEN x ELSE leg.hi
        up == x - lo >= Unit
        down == hi - x >= Unit
    IN  [dir |-> IF up THEN 1 ELSE IF down THEN -1 ELSE 0,
         ext |-> IF up \/ down THEN x ELSE 0,
         lo |-> lo, hi |-> hi,
         swings |-> IF up /\ lo <= -Unit THEN <<lo>>
                    ELSE IF ~up /\ down /\ hi >= Unit THEN <<hi>> ELSE <<>>]

Step(leg, x) ==
    IF leg.dir = 0 THEN Opening(leg, x)
    ELSE IF Turns(leg, x)
    THEN [leg EXCEPT !.swings = Append(@, leg.ext), !.dir = -leg.dir, !.ext = x]
    ELSE [leg EXCEPT !.ext = IF leg.dir * (x - leg.ext) > 0 THEN x ELSE @]

\* excursion_path: the confirmed swings, and the extreme of the leg still open.
LegOf(path) ==
    LET leg[n \in 0 .. Len(path)] == IF n = 0 THEN FreshLeg ELSE Step(leg[n - 1], path[n])
    IN  leg[Len(path)]
SwingsOf(leg) == IF leg.dir = 0 THEN leg.swings ELSE Append(leg.swings, leg.ext)
Swings == SwingsOf(LegOf(points))

-----------------------------------------------------------------------------
BarCloses ==
    /\ points = <<>>
    /\ Len(bars) < MaxBars
    /\ \E bar \in Bars(kind) : bars' = Append(bars, bar)
    /\ UNCHANGED <<kind, captures, points>>

\* A capture counts for the bar that is open now; a session has one per bar at most (a bound).
CaptureTaken ==
    /\ points = <<>>
    /\ Len(captures) < MaxCaptures
    /\ \A i \in 1 .. Len(captures) : captures[i].from # Len(bars) + 1
    /\ \E level \in {Mirror(kind) * w : w \in Levels} \cup {NoLevel} :
          captures' = Append(captures, [from |-> Len(bars) + 1, level |-> level])
    /\ UNCHANGED <<kind, bars, points>>

PathMoves ==
    /\ kind = "flip" /\ bars = <<>> /\ captures = <<>>
    /\ Len(points) < MaxPoints
    /\ \E x \in Points : points' = Append(points, x)
    /\ UNCHANGED <<kind, bars, captures>>

LevelNext == BarCloses \/ CaptureTaken \/ PathMoves

LevelSpec == LevelInit /\ [][LevelNext]_ruleVars

-----------------------------------------------------------------------------
\* Properties.

\* An event is what was knowable at the bar that confirmed it: the bars and the captures that come
\* later neither change nor remove it, nor add one to a bar that has closed.  The rows written
\* once by the job depend on it, and so does the backtest it is compared with.
EventsAreFinal ==
    [][points' = points =>
        /\ EventsSoFar \subseteq EventsSoFar'
        /\ \A e \in EventsSoFar' \ EventsSoFar : e.bar = Len(bars')]_ruleVars

\* The swings alternate, each at least a unit from the one before, and once a swing is confirmed
\* the path that follows does not move it: only the leg still open changes.
SwingsAreFinal ==
    /\ \A i \in 1 .. Len(Swings) - 1 : AbsOf(Swings[i + 1] - Swings[i]) >= Unit
    /\ \A i \in 1 .. Len(Swings) - 2 :
            Sign(Swings[i + 1] - Swings[i]) = -Sign(Swings[i + 2] - Swings[i + 1])
    /\ \A n \in 0 .. Len(points) :
            IsPrefix(LegOf(SubSeq(points, 1, n)).swings, Swings)

\* What was found on a history stays found when it grows: events and swings.
FindingsAreFinal == EventsAreFinal /\ []SwingsAreFinal
=============================================================================
