------------------------------ MODULE Signals ------------------------------
(***************************************************************************)
(* The price signals of the research module (research/signals.py,          *)
(* jobs/signals.py, storage/signal_events.py): after every bar a run       *)
(* re-reads a window of bars, reports every change of position in it,      *)
(* stores the ones it has not stored yet, and sends one message about      *)
(* those that happened on the newest bar.                                  *)
(*                                                                         *)
(* Two families.  The z-score dip is a latch over the whole history:       *)
(* entered, left, and gated by the regime.  The continuation proxy is a    *)
(* simulation of trades, one at a time, that starts SimulationBars before  *)
(* the window.  A bar is what those need to know of it.                    *)
(***************************************************************************)
EXTENDS Integers, Sequences, FiniteSets, SequencesExt

CONSTANTS
    Window,          \* DEFAULT_WINDOW
    SimulationBars,  \* SIMULATION_BARS
    MaxTradeBars,         \* MAX_HOLD_BARS
    Families,        \* which families run: subset of {"zscore", "continuation"}
    MaxHistory,         \* bound: the length of the history
    MaxWorkerCrashes       \* bound

ASSUME SignalsAssumption ==
    /\ {Window, SimulationBars, MaxHistory, MaxWorkerCrashes} \subseteq Nat
    /\ MaxTradeBars \in Nat \ {0}
    /\ Families \subseteq {"zscore", "continuation"}

VARIABLES
    family,   \* the family of this run's signal, constant
    history,     \* the history
    ranOn,    \* the length of the history at the last run
    stored,   \* research.signal_events
    digest,      \* the fresh events of the run under way, not sent yet
    sentRows,     \* history: the events sent
    workerCrashes

signalVars == <<family, history, ranOn, stored, digest, sentRows, workerCrashes>>

ZBars == [wants : BOOLEAN, leaves : BOOLEAN, on : BOOLEAN]
\* A day may signal an entry; a trade entered there takes so many bars to resolve.
Days == {[signals |-> FALSE, holds |-> 1]} \cup [signals : {TRUE}, holds : 1 .. MaxTradeBars]
Actions == {"ENTER", "EXIT"}
Keys == [bar : 1 .. MaxHistory, action : Actions]

KeyOf(row) == [bar |-> row.bar, action |-> row.action]
KeysOf(rows) == {KeyOf(row) : row \in rows}

SignalsTypeOK ==
    /\ family \in Families
    /\ history \in Seq(ZBars \cup Days) /\ Len(history) <= MaxHistory /\ ranOn \in 0 .. Len(history)
    /\ stored \subseteq [bar : 1 .. MaxHistory, action : Actions, late : BOOLEAN]
    /\ digest \subseteq Keys /\ sentRows \subseteq Keys
    /\ workerCrashes \in 0 .. MaxWorkerCrashes

SignalsInit ==
    /\ family \in Families
    /\ history = <<>> /\ ranOn = 0
    /\ stored = {} /\ digest = {} /\ sentRows = {}
    /\ workerCrashes = 0

-----------------------------------------------------------------------------
Larger(a, b) == IF a >= b THEN a ELSE b
Event(i, action) == [bar |-> i, action |-> action, late |-> i # Len(history)]

\* The z-score latch, in from a dip until the mean is near, the way _stateful fills it forward, and
\* flat while the regime is off.
Holds ==
    [i \in 1 .. Len(history) |->
        /\ history[i].on
        /\ \E j \in 1 .. i : history[j].wants /\ \A k \in j .. i : ~history[k].leaves]

\* A plausible bug: only the newest bar is looked at, so a run that was missed loses its bars.
NewestOnly ==
    {Event(i, IF Holds[i] THEN "ENTER" ELSE "EXIT") :
        i \in {i \in 2 .. Len(history) : i = Len(history) /\ Holds[i] # Holds[i - 1]}}

\* zscore_events: every change of position in the window.
ZScoreEvents ==
    {Event(i, IF Holds[i] THEN "ENTER" ELSE "EXIT") :
        i \in {i \in Larger(2, Len(history) - Window + 1) .. Len(history) : Holds[i] # Holds[i - 1]}}

\* continuation_events: trades one after another, each from its signal to the bar that resolved
\* it, which may signal again.  What happens before the window is simulated, not reported.
ContinuationEvents ==
    LET last == Len(history)
        reported == Larger(1, last - Window + 1)
        from[i \in 1 .. last + MaxTradeBars] ==
            IF i > last THEN {}
            ELSE IF ~history[i].signals THEN from[i + 1]
            ELSE LET exit == i + history[i].holds
                 IN  {Event(i, "ENTER")}
                     \cup (IF exit > last THEN {} ELSE {Event(exit, "EXIT")} \cup from[exit])
        simulated == from[Larger(1, last - Window - SimulationBars + 1)]
    IN  {e \in [bar : reported .. last, action : Actions, late : BOOLEAN] : e \in simulated}

FoundRows == IF history = <<>> THEN {}
         ELSE IF family = "zscore" THEN ZScoreEvents ELSE ContinuationEvents

-----------------------------------------------------------------------------
\* A bar closes.  The worker is never down for longer than the window.
SignalBarCloses ==
    /\ Len(history) < MaxHistory
    /\ Len(history) - ranOn < Window
    /\ \E bar \in IF family = "zscore" THEN ZBars ELSE Days : history' = Append(history, bar)
    /\ UNCHANGED <<family, ranOn, stored, digest, sentRows, workerCrashes>>

\* record_events: insert when unseen, never an upsert; committed before anything is sent.
Recorded == stored \cup {row \in FoundRows : KeyOf(row) \notin KeysOf(stored)}

\* A plausible bug: everything in the window that is on the newest bar is sent.
FreshOfWindow == {row \in FoundRows : ~row.late}

Fresh == {row \in Recorded \ stored : ~row.late}

Run ==
    /\ digest = {}
    /\ ranOn' = Len(history)
    /\ stored' = Recorded
    /\ digest' = KeysOf(Fresh)
    /\ UNCHANGED <<family, history, sentRows, workerCrashes>>

\* The digest goes out: one message about all of them.
Digest ==
    /\ digest # {}
    /\ sentRows' = sentRows \cup digest
    /\ digest' = {}
    /\ UNCHANGED <<family, history, ranOn, stored, workerCrashes>>

\* The worker dies between the commit and the message.
SignalsCrash ==
    /\ workerCrashes < MaxWorkerCrashes
    /\ digest # {}
    /\ workerCrashes' = workerCrashes + 1
    /\ digest' = {}
    /\ UNCHANGED <<family, history, ranOn, stored, sentRows>>

SignalsNext == SignalBarCloses \/ Run \/ Digest \/ SignalsCrash

SignalsSpec == SignalsInit /\ [][SignalsNext]_signalVars

-----------------------------------------------------------------------------
\* Properties.

\* A worker that was down for less than a window loses no change of position: what is stored of a
\* z-score signal is every entry and every exit up to the last run, so they alternate.
NoTransitionLost ==
    family = "zscore" =>
        KeysOf(stored) =
            {[bar |-> i, action |-> IF Holds[i] THEN "ENTER" ELSE "EXIT"] :
                i \in {i \in 2 .. ranOn : Holds[i] # Holds[i - 1]}}

\* Insert when unseen: a row that was stored is never rewritten, in particular its late flag,
\* which says whether the event could have been traded.
RowsStand == [][stored \subseteq stored']_signalVars

\* Nobody is told twice, and nobody is told of what is not stored: the run implements TellOnce,
\* and its rows stand.
OnceSent == INSTANCE TellOnce WITH Events <- Keys, known <- KeysOf(stored), due <- digest, told <- sentRows
TellsOnce == RowsStand /\ OnceSent!Spec

\* "Trades last at most 10 sessions, so the state at the window's start no longer depends on where
\* the simulation began" (signals.py:57): a signal holds one trade at a time, so between two
\* stored entries there is an exit.
OneTradeAtATime ==
    \A a, b \in stored :
        (a.action = "ENTER" /\ b.action = "ENTER" /\ a.bar < b.bar) =>
            \E c \in stored : c.action = "EXIT" /\ a.bar < c.bar /\ c.bar <= b.bar
=============================================================================
