------------------------------ MODULE MCRules ------------------------------
(***************************************************************************)
(* The rules the desk applies again and again to a history that grows, and *)
(* the feeds it grows from, for TLC, in one run: the initial state picks   *)
(* one and the others stand still.                                         *)
(***************************************************************************)
EXTENDS Calendar, Signals, LevelRules, Outcomes, DailyBars, Chains, FlowRows, Watchlist,
        Releases

VARIABLE rule  \* the rules this behaviour is about

\* Two fades and two continuations, a long and a short of each, and a trade without risk.
tradesScored ==
    {[setup |-> setup, side |-> "LONG", entry |-> 3, stop |-> 2, target |-> 4] :
        setup \in {"fade", "continuation"}}
    \cup {[setup |-> setup, side |-> "SHORT", entry |-> 3, stop |-> 4, target |-> 2] :
        setup \in {"fade", "continuation"}}
    \cup {[setup |-> "fade", side |-> "LONG", entry |-> 3, stop |-> 3, target |-> 4]}

\* Quiet days at each price, days that reach one level or both, and gaps over them.
dayShapes ==
    {[open |-> p, high |-> p, low |-> p, close |-> p] : p \in 1 .. 5}
    \cup {[open |-> 3, high |-> 4, low |-> 2, close |-> c] : c \in 2 .. 4}
    \cup {[open |-> 4, high |-> 4, low |-> 2, close |-> c] : c \in {2, 3}}
    \cup {[open |-> 2, high |-> 4, low |-> 2, close |-> c] : c \in {3, 4}}
    \cup {[open |-> o, high |-> 5, low |-> 1, close |-> 3] : o \in {1, 3, 5}}

excursions == -3 .. 3

chainRoots == <<"SPX", "SPXW">>
issuers == <<"spdr", "uscf">>
issuersFunds == [spdr |-> {"SPY"}, uscf |-> {"USO"}]

hypotheses == [t \in Trials |-> IF t = "t3" THEN "trend" ELSE "breakout"]
filesOf == [t \in Trials |-> "daily"]

\* One of two days, two of one day, and one moved back a day's half with its consensus gone.
event(title, at, consensus) == [title |-> title, at |-> at, consensus |-> consensus]
weeks == {
    {event("cpi", 2, "c1"), event("cpi", 4, "c1")},
    {event("fed", 3, "c1"), event("fed", 4, "c1")},
    {event("cpi", 1, "c1"), event("fed", 3, "c1"), event("cpi", 4, "none")}}

OthersStand(name) ==
    /\ rule = name
    /\ name # "calendar" => UNCHANGED calendarVars
    /\ name # "signals" => UNCHANGED signalVars
    /\ name # "levels" => UNCHANGED ruleVars
    /\ name # "outcomes" => UNCHANGED outcomeVars
    /\ name # "bars" => UNCHANGED dailyVars
    /\ name # "chains" => UNCHANGED chainVars
    /\ name # "flows" => UNCHANGED flowVars
    /\ name # "search" => UNCHANGED searchVars
    /\ name # "releases" => UNCHANGED releaseVars

Init ==
    /\ rule \in {"calendar", "signals", "levels", "outcomes", "bars", "chains", "flows", "search",
                "releases"}
    /\ CalendarInit /\ SignalsInit /\ LevelInit /\ OutcomesInit
    /\ DailyBarsInit /\ ChainsInit /\ FlowRowsInit /\ WatchlistInit /\ ReleasesInit
    /\ rule # "signals" => family = "zscore"
    /\ rule # "levels" => kind = "flip"
    /\ rule # "outcomes" => spec = CHOOSE s \in Specs : TRUE
    /\ rule # "bars" => provider = "yahoo"
    /\ rule # "chains" => feed = "cboe"
    /\ rule # "releases" => listed = CHOOSE records \in Feeds : TRUE

Next ==
    /\ UNCHANGED rule
    /\ \/ OthersStand("calendar") /\ PartPasses
       \/ OthersStand("signals") /\ SignalsNext
       \/ OthersStand("levels") /\ LevelNext
       \/ OthersStand("outcomes") /\ DayCloses
       \/ OthersStand("bars") /\ DailyBarsNext
       \/ OthersStand("chains") /\ ChainsNext
       \/ OthersStand("flows") /\ FlowsNext
       \/ OthersStand("search") /\ WatchlistNext
       \/ OthersStand("releases") /\ ReleasesNext

Spec ==
    Init /\ [][Next]_<<rule, calendarVars, signalVars, ruleVars, outcomeVars, dailyVars, chainVars,
                       flowVars, searchVars, releaseVars>>
=============================================================================
