---------------------------- MODULE CaptureWatch ----------------------------
(***************************************************************************)
(* The capture's watchdog (workers/capture_watch.py run_check,             *)
(* modules/gex/jobs/outage.py): it looks for sessions of the last few that *)
(* left nothing in gex.snapshots, tells the owner once a UTC day while     *)
(* there are any, and, if it is asked to, sends a note every HeartbeatDays *)
(* days so that silence means something.                                   *)
(*                                                                         *)
(* Passes come several times a day; the query may fail; the process may    *)
(* restart and forget what it has told.                                    *)
(***************************************************************************)
EXTENDS Calendar

CONSTANTS
    LookbackSessions,  \* LOOKBACK_SESSIONS
    HeartbeatDays,     \* CAPTURE_WATCH_HEARTBEAT_DAYS, not 0
    MaxSilent,         \* bound: sessions the capture leaves out
    MaxWatchRestarts        \* bound

ASSUME CaptureWatchAssumption ==
    /\ LookbackSessions \in Nat \ {0} /\ HeartbeatDays \in Nat \ {0}
    /\ MaxSilent \in Nat /\ MaxWatchRestarts \in Nat

VARIABLES
    captured,    \* the session_dates of gex.snapshots
    silent,      \* the sessions the capture leaves out
    lastAlert,   \* _last_alert
    lastNote,    \* _last_heartbeat
    passed,      \* the last UTC day a pass could read the database
    watchRestarts,
    said,        \* history: the UTC day of the last message of either kind
    toldDays,    \* history: the UTC days an outage was told
    named        \* history: the sessions that alerts named

captureWatchVars == <<captured, silent, lastAlert, lastNote, passed, watchRestarts, said, toldDays, named>>

NoUtcDay == -1

\* The UTC date of the moment.
Today == IF part = Evening THEN day + 1 ELSE day

\* A plausible bug: the session under way is looked at too.
SessionsUpTo(today) == {d \in today - 20 .. today : IsTradingDay(d)}

\* recent_trading_sessions: the last so many trading days strictly before today.
SessionsBefore(today) == {d \in today - 20 .. today - 1 : IsTradingDay(d)}
RecentSessions(today) ==
    {d \in SessionsBefore(today) :
        Cardinality({e \in SessionsBefore(today) : e > d}) < LookbackSessions}

\* check_capture_outage: the sessions with no snapshot at all.
Missing(today) == RecentSessions(today) \ captured

CaptureWatchInit ==
    /\ CalendarInit
    /\ captured = {d \in FirstDay - 20 .. FirstDay - 1 : IsTradingDay(d)}
    /\ silent \in {s \in SUBSET {d \in FirstDay .. LastDay : IsTradingDay(d)} :
                      Cardinality(s) <= MaxSilent}
    /\ lastAlert = NoUtcDay /\ lastNote = NoUtcDay /\ passed = NoUtcDay /\ watchRestarts = 0
    /\ said = FirstDay /\ toldDays = {} /\ named = {}

\* A capture of the chain: it belongs to the session whose book is served.
Capture ==
    /\ SessionDate(day, part) \notin silent \cup captured
    /\ captured' = captured \cup {SessionDate(day, part)}
    /\ UNCHANGED <<calendarVars, silent, lastAlert, lastNote, passed, watchRestarts, said, toldDays, named>>

NoteIsDue == lastNote = NoUtcDay \/ Today - lastNote >= HeartbeatDays

Alerts == Missing(Today) # {} /\ lastAlert # Today

\* run_check.  An alert that was not delivered counts as told: it is in the log.
Check ==
    /\ passed' = Today
    /\ IF Missing(Today) # {}
       THEN /\ lastAlert' = Today
            /\ said' = IF Alerts THEN Today ELSE said
            /\ toldDays' = toldDays \cup {Today}
            /\ named' = IF Alerts THEN named \cup Missing(Today) ELSE named
            /\ UNCHANGED lastNote
       ELSE /\ lastAlert' = NoUtcDay
            /\ lastNote' = IF NoteIsDue THEN Today ELSE lastNote
            /\ said' = IF NoteIsDue THEN Today ELSE said
            /\ UNCHANGED <<toldDays, named>>
    /\ UNCHANGED <<calendarVars, captured, silent, watchRestarts>>

\* The container watchRestarts; main makes a pass at once.
CaptureWatchRestarts ==
    /\ watchRestarts < MaxWatchRestarts
    /\ watchRestarts' = watchRestarts + 1
    /\ lastAlert' = NoUtcDay /\ lastNote' = NoUtcDay /\ passed' = NoUtcDay
    /\ UNCHANGED <<calendarVars, captured, silent, said, toldDays, named>>

\* Time passes: the capture has left nothing out but the silent sessions, and in every UTC day a
\* pass has read the database.
TimePasses ==
    /\ PartPasses
    /\ part = After /\ IsTradingDay(day) => day \in captured \cup silent
    /\ part = After => passed = Today
    /\ UNCHANGED captureWatchVars

CaptureWatchNext == Capture \/ Check \/ CaptureWatchRestarts \/ TimePasses

CaptureWatchSpec == CaptureWatchInit /\ [][CaptureWatchNext]_<<calendarVars, captureWatchVars>>

CaptureWatchTypeOK ==
    /\ captured \subseteq Int /\ silent \subseteq Nat /\ toldDays \subseteq Nat /\ named \subseteq Nat
    /\ {lastAlert, lastNote, passed} \subseteq Nat \cup {NoUtcDay}
    /\ watchRestarts \in 0 .. MaxWatchRestarts /\ said \in Nat

-----------------------------------------------------------------------------
\* Properties.

\* A session with no snapshot at all is told the next day, whatever weekend or holiday follows
\* it, and an alert names only sessions that are over and stayed silent: neither the session
\* under way nor a closed day, though the watchdog counts UTC days and the sessions are New
\* York's.
OutageIsTold ==
    /\ \A d \in silent :
        (d + 1 < Today /\ d \notin captured) => d + 1 \in toldDays /\ d \in named
    /\ \A d \in named : d \in silent /\ d <= closed

\* With the heartbeat on, the watchdog is never silent for longer than HeartbeatDays, whatever
\* outages begin and end in between: an outage is told daily, and its end starts no new count.
NeverSilent == passed = Today => Today - said < HeartbeatDays

\* The watchdog speaks of every outage and of no other, and is heard even when there is none.
WatchdogSpeaks == OutageIsTold /\ NeverSilent
=============================================================================
