--------------------------- MODULE ExecutorWatch ---------------------------
(***************************************************************************)
(* The executor's watchdog (workers/capture_watch.py run_executor_check,   *)
(* modules/broker/watch.py): another container that reads the executor's   *)
(* heartbeat and its journal, and tells the owner when a leg is due and    *)
(* nobody beats.                                                           *)
(*                                                                         *)
(* Time is counted in slots of which Slots make a New York day; in every   *)
(* slot the executor may or may not complete ticks, before or after the    *)
(* watchdog's pass.  The pass comes every slot (its interval is shorter    *)
(* than STALE_AFTER), its query may fail, and the process may restart,     *)
(* which forgets what it has told.                                         *)
(***************************************************************************)
EXTENDS Integers, FiniteSets

CONSTANTS
    Slots,        \* slots of a New York day
    Entry, Exit,  \* when a session's two legs are due, in slots after its midnight
    EntryWindow, ExitWindow,  \* Strategy.entry_window, exit_window
    SessionDays,  \* the days that have those two legs
    BinEnd,       \* when a 4h bin ends, in slots after midnight
    BinDays,      \* the days with a decision on that bin
    DecideWindow, \* decide_window of the 4h strategy
    ActWithin,    \* act_within
    NoBars,       \* the slots in which no M1 bar opens: weekends and holidays
    Lead,         \* LEAD
    StaleAfter,   \* STALE_AFTER
    Lookback,     \* EXPIRED_LOOKBACK
    MaxDay,       \* bound: the last day
    MaxFaults     \* bound: restarts of the watchdog and failed queries

ASSUME WatchAssumption ==
    /\ Slots \in Nat \ {0}
    /\ {Entry, Exit, EntryWindow, ExitWindow, Lead, Lookback, MaxDay, MaxFaults} \subseteq Nat
    /\ {BinEnd, DecideWindow, ActWithin} \subseteq Nat
    \* the pass after the heartbeat went stale falls into the window
    /\ StaleAfter \in Nat
    /\ EntryWindow > StaleAfter /\ ExitWindow > StaleAfter /\ ActWithin > StaleAfter

VARIABLES
    slot,     \* the time
    beat,     \* broker.executor_heartbeat
    pending,  \* the legs journalled and not yet settled
    sent,     \* the legs the executor sent, decided or skipped
    expired,  \* the legs it journalled expired
    checked,  \* whether this slot's pass has been made
    alerted,  \* _executor_alerted: the day an outage was told, or NotTold
    seen,     \* _expired_seen
    faults,   \* how many faults there were
    tried,    \* history: the legs a tick acted on within their time, sent or not
    blind,    \* history: the slots whose pass failed
    word,     \* history: the last message about the heartbeat
    told      \* history: the days an outage was told, the expired legs told

watchVars == <<slot, beat, pending, sent, expired, checked, alerted, seen, faults, tried, blind,
               word, told>>

NotTold == -1
NoBeat == -1

Day(t) == t \div Slots
LastSlot == (MaxDay + 1) * Slots - 1

\* A leg can be acted on from ready to until; what the journal and the watchdog know is due and expires.
Leg(day, due, ready, until, window) ==
    [day |-> day, due |-> due, ready |-> ready, until |-> until, expires |-> due + window]

\* Strategy.legs: the entry of a session and its close, which may fall on the next morning.
SessionLegs(day) ==
    LET entry == day * Slots + Entry
        exit == day * Slots + Exit
    IN {Leg(day, entry, entry, entry + EntryWindow, EntryWindow),
        Leg(day, exit, exit, exit + ExitWindow, ExitWindow)}

\* The first slot with a bar from t on; one after the decide window when there is none in it.
FirstBar(t) ==
    {u \in t .. t + DecideWindow + 1 :
        /\ u \notin NoBars \/ u = t + DecideWindow + 1
        /\ \A v \in t .. u - 1 : v \in NoBars}

\* The decision of the 4h strategy: at the first bar after the bin, on Sunday for a bin that ended
\* on Friday, and not later than act_within of it.  Without such a bar it is skipped, whenever.
DecideLegs(day) ==
    LET due == day * Slots + BinEnd
        Until(bar) == bar + (IF bar > due + DecideWindow THEN LastSlot ELSE ActWithin)
    IN {Leg(day, due, bar, Until(bar), DecideWindow) : bar \in FirstBar(due)}

LegsOf(day) ==
    (IF day \in SessionDays THEN SessionLegs(day) ELSE {})
        \cup (IF day \in BinDays THEN DecideLegs(day) ELSE {})
Legs == UNION {LegsOf(day) : day \in 0 .. MaxDay}

WatchTypeOK ==
    /\ slot \in 0 .. LastSlot
    /\ beat \in NoBeat .. LastSlot
    /\ pending \subseteq Legs /\ sent \subseteq Legs /\ expired \subseteq Legs
    /\ tried \subseteq Legs /\ seen \subseteq Legs
    /\ checked \in BOOLEAN
    /\ alerted \in NotTold .. MaxDay
    /\ faults \in 0 .. MaxFaults
    /\ blind \subseteq 0 .. LastSlot
    /\ word \in {"none", "out", "back"}
    /\ told \in [days : SUBSET (0 .. MaxDay), legs : SUBSET Legs]

WatchInit ==
    /\ slot = 0 /\ beat = NoBeat
    /\ pending = {} /\ sent = {} /\ expired = {} /\ tried = {}
    /\ checked = FALSE /\ alerted = NotTold /\ seen = {}
    /\ faults = 0
    /\ blind = {} /\ word = "none" /\ told = [days |-> {}, legs |-> {}]

-----------------------------------------------------------------------------
\* The sessions of yesterday and today, as schedule and legs_in_window go through them.
LooksAt == LegsOf(Day(slot)) \cup (IF slot >= Slots THEN LegsOf(Day(slot) - 1) ELSE {})

\* A completed tick of the executor: it journals the legs of yesterday and today, acts on every
\* pending row whose time has come, some of which stay (an error of the bridge, a bar that is
\* late), journals as expired what it is too late for, and beats.
ExecutorTicks ==
    LET known == pending \cup (LooksAt \ (sent \cup expired))
        ready == {leg \in known : leg.ready <= slot}
        tooLate == {leg \in ready : leg.until < slot}
    IN
    /\ beat # slot
    /\ \E kept \in SUBSET (ready \ tooLate) :
        /\ sent' = sent \cup ((ready \ tooLate) \ kept)
        /\ pending' = (known \ ready) \cup kept
    /\ expired' = expired \cup tooLate
    /\ tried' = tried \cup (ready \ tooLate)
    /\ beat' = slot
    /\ UNCHANGED <<slot, checked, alerted, seen, faults, blind, word, told>>

-----------------------------------------------------------------------------
\* legs_in_window: of the sessions of yesterday, for a close falls on the next morning, and today.
Watched == {leg \in LooksAt : leg.due - Lead <= slot /\ slot <= leg.expires}

\* A plausible bug: an executor that has never beaten is not missed.
OldBeat == beat # NoBeat /\ slot - beat > StaleAfter

\* The heartbeat is missing or old.
Stale == beat = NoBeat \/ slot - beat > StaleAfter
IsOutage == Watched # {} /\ Stale

\* check_executor's second query.
RecentlyExpired == {leg \in expired : leg.expires >= slot - Lookback}

TellsOutage == IsOutage /\ alerted # Day(slot)
TellsBack == ~IsOutage /\ ~Stale /\ alerted # NotTold

\* run_executor_check: expired legs first, then the heartbeat.  Whether a message was delivered
\* changes nothing (notify.send never raises).
ExecutorCheck ==
    /\ ~checked
    /\ checked' = TRUE
    /\ seen' = seen \cup RecentlyExpired
    /\ alerted' = IF TellsOutage THEN Day(slot) ELSE IF TellsBack THEN NotTold ELSE alerted
    /\ word' = IF TellsOutage THEN "out" ELSE IF TellsBack THEN "back" ELSE word
    /\ told' = [days |-> IF TellsOutage THEN told.days \cup {Day(slot)} ELSE told.days,
                legs |-> told.legs \cup (RecentlyExpired \ seen)]
    /\ UNCHANGED <<slot, beat, pending, sent, expired, faults, tried, blind>>

\* The query failed: logged, and left to the next interval.
CheckFails ==
    /\ ~checked
    /\ faults < MaxFaults
    /\ faults' = faults + 1
    /\ checked' = TRUE
    /\ blind' = blind \cup {slot}
    /\ UNCHANGED <<slot, beat, pending, sent, expired, alerted, seen, tried, word, told>>

\* The container restarts: main makes a pass at once, with nothing remembered.
WatchRestarts ==
    /\ faults < MaxFaults
    /\ faults' = faults + 1
    /\ checked' = FALSE
    /\ alerted' = NotTold
    /\ seen' = {}
    /\ UNCHANGED <<slot, beat, pending, sent, expired, tried, blind, word, told>>

SlotPasses ==
    /\ checked
    /\ slot < LastSlot
    /\ slot' = slot + 1
    /\ checked' = FALSE
    /\ UNCHANGED <<beat, pending, sent, expired, alerted, seen, faults, tried, blind, word, told>>

WatchNext == ExecutorTicks \/ ExecutorCheck \/ CheckFails \/ WatchRestarts \/ SlotPasses

WatchSpec == WatchInit /\ [][WatchNext]_watchVars

-----------------------------------------------------------------------------
\* Properties.

Window(leg) == leg.due - Lead .. leg.until

\* Whether the leg's time is over while it is looked at: the day of its session or the next, and
\* before it expires.  A close on the next morning is; the decision on Friday's last bin, which
\* Sunday's first bar makes possible, is not.
IsFollowed(leg) == Day(leg.until) <= leg.day + 1 /\ leg.until <= leg.expires

\* A leg passes that no tick acted on, under the eyes of a watchdog that could read the database,
\* and no outage was told on a day of its window, or that is not the last word.
PassesSilently(leg) ==
    /\ checked /\ slot = leg.until /\ leg \notin tried
    /\ blind \cap Window(leg) = {}
    /\ ~(word = "out" /\ \E t \in Window(leg) : Day(t) \in told.days)

\* No leg that is over by the day after its session passes in silence.  The heartbeat may have
\* stopped before, inside or between windows, an alert of the day may have been followed by a
\* recovery, the close falls on another day than its session, the bin's next bar comes after a
\* shut market, and a restart has forgotten everything.
NoSilentMiss == \A leg \in Legs : IsFollowed(leg) => ~PassesSilently(leg)

\* "A heartbeat missing or older than STALE_AFTER while any enabled strategy has a leg in its
\* window is an outage" (watch.py:10), for every leg: not so for a decision that waits for a bar
\* longer than the day after its session.  Nobody looks at that session any more.
EveryLegIsWatched == \A leg \in Legs : ~PassesSilently(leg)

\* "A fresh heartbeat after an alert says so" (capture_watch.py:110): once a pass has found the
\* executor beating, the last word is not that it is not running.
BackIsTold == [][ExecutorCheck /\ ~Stale => word' # "out"]_watchVars

\* "Each expired leg alerts once per process; a restart within EXPIRED_LOOKBACK repeats it": what
\* the executor journalled is told by the next pass that can read it, whoever restarts, unless
\* it expired longer ago than the lookback when the executor came back.
ExpiredIsTold ==
    checked /\ slot \notin blind =>
        \A leg \in expired : leg.expires >= slot - Lookback /\ beat < slot => leg \in told.legs

\* What the executor let pass is told: the legs it was not there for, and those it gave up on.
MissesAreTold == NoSilentMiss /\ ExpiredIsTold
=============================================================================
