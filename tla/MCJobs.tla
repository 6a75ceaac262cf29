------------------------------- MODULE MCJobs -------------------------------
(***************************************************************************)
(* Eight jobs that share nothing, for TLC, in one run: the initial state   *)
(* picks one and the others stand still.  What is checked of each is what  *)
(* its own specification allows.                                           *)
(***************************************************************************)
EXTENDS ClockGate, BarWalk, TickFiles, ExecutorWatch, CaptureWatch, LevelEvents, Decisions,
        Vintages

VARIABLE job  \* the job this behaviour is about

\* Two families: an alert of the first also blocks the second, not the other way round.  The second
\* is a symbol without a CFD, so that the scores of both kinds are met.
deskSymbols == <<"SPX", "DIA">>
cfdOf(symbol) == IF symbol = "SPX" THEN "US500" ELSE symbol
blockersOf(family) == {family} \cup (IF family = "DIA" THEN {"US500"} ELSE {})

\* Two series with vintages, one from the second day on, and one that shows its newest value, asked for
\* after a code its source does not know.  As in derive.py, what has a window has one input.
terminalSources == <<"fred", "prices">>
seriesAsked == [fred |-> <<{"a"}, {"f"}>>, prices |-> <<{}, {"p"}>>]
adapterOf == [a |-> "fred", f |-> "fred", p |-> "prices"]
archivesStart == [a |-> 2, f |-> 1, p |-> NoArchive]
derivedFrom == {"f"}

OthersStill(name) ==
    /\ job = name
    /\ name # "gate" => UNCHANGED gateVars
    /\ name # "walk" => UNCHANGED walkVars
    /\ name # "ticks" => UNCHANGED tickVars
    /\ name # "executor watch" => UNCHANGED watchVars
    /\ name # "capture watch" => UNCHANGED <<calendarVars, captureWatchVars>>
    /\ name # "level events" => UNCHANGED levelVars
    /\ name # "decisions" => UNCHANGED decisionsVars
    /\ name # "vintages" => UNCHANGED vintageVars

\* A job that does not run has one initial state: the first of each choice its Init has.
Init ==
    /\ job \in {"gate", "walk", "ticks", "executor watch", "capture watch", "level events", "decisions",
               "vintages"}
    /\ GateInit /\ WalkInit /\ TickInit /\ WatchInit /\ CaptureWatchInit /\ LevelEventsInit
    /\ DecisionsInit /\ VintagesInit
    /\ job # "gate" => follows
    /\ job # "walk" => loaded = {}
    /\ job # "ticks" => fetched = {} /\ contract = CHOOSE c \in Contracts : TRUE
    /\ job # "capture watch" => silent = {}

Next ==
    /\ UNCHANGED job
    /\ \/ OthersStill("gate") /\ GateNext
       \/ OthersStill("walk") /\ WalkNext
       \/ OthersStill("ticks") /\ TickNext
       \/ OthersStill("executor watch") /\ WatchNext
       \/ OthersStill("capture watch") /\ CaptureWatchNext
       \/ OthersStill("level events") /\ LevelEventsNext
       \/ OthersStill("decisions") /\ DecisionsNext
       \/ OthersStill("vintages") /\ VintagesNext

Spec ==
    /\ Init
    /\ [][Next]_<<job, gateVars, walkVars, tickVars, watchVars, calendarVars, captureWatchVars, levelVars,
             decisionsVars, vintageVars>>

\* The types of the job at hand; the others stand still.
TypeOK ==
    /\ job = "gate" => GateTypeOK
    /\ job = "walk" => WalkTypeOK
    /\ job = "ticks" => TickTypeOK
    /\ job = "executor watch" => WatchTypeOK
    /\ job = "capture watch" => CaptureWatchTypeOK
    /\ job = "level events" => LevelEventsTypeOK
    /\ job = "decisions" => DecisionsTypeOK
    /\ job = "vintages" => VintagesTypeOK
=============================================================================
