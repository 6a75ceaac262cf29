------------------------------ MODULE BarWalk ------------------------------
(***************************************************************************)
(* The broker's minute bars (Ingestor.run_minute of                        *)
(* modules/broker/ingest.py) of one symbol: forward from the newest stored *)
(* bar to now, and back, a chunk at a time, to the start of history.       *)
(*                                                                         *)
(* Time is in hours.  The terminal downloads history in pages: a range it  *)
(* has not downloaded yet is answered with nothing.  Where it has no       *)
(* minute bars it answers with one bar a day, which is to be kept out.     *)
(* A restart, a failed request and the clock come between any two          *)
(* requests.  The gate that the job asks first is in ClockGate.            *)
(***************************************************************************)
EXTENDS Integers, FiniteSets, FiniteSetsExt

CONSTANTS
    HoursPerDay,   \* the length of a day
    Chunk,         \* CHUNK: the hours of one rates_range request
    EmptyChunks,   \* EMPTY_CHUNKS_TO_STOP
    Retries,       \* EMPTY_RETRIES
    Budget,        \* BACKWARD_CHUNKS_PER_RUN
    PageSize,      \* the hours the terminal downloads at once
    Closed,        \* the hours in which the market is closed
    FirstMinute,   \* where the broker's minute history starts
    Coarse,        \* whether it serves daily bars before that
    Begin,         \* the hour of the first start
    MaxRestarts,   \* bound: how many restarts happen
    MaxHour        \* bound: where the clock stops

ASSUME WalkAssumption ==
    /\ {HoursPerDay, Chunk, PageSize} \subseteq Nat \ {0}
    /\ {EmptyChunks, Retries, Budget, FirstMinute, Begin, MaxHour, MaxRestarts} \subseteq Nat
    /\ Begin <= MaxHour
    /\ Coarse \in BOOLEAN

VARIABLES
    hour,      \* the clock
    loaded,    \* the pages the terminal has downloaded
    bars,      \* broker.bars: the hours whose bars are stored
    walk,      \* run_minute: where it is and its locals
    deepened,  \* _deepened_on: the day whose walk back is done
    restarts,  \* restarts so far
    denied     \* history: hours asked for while the terminal had not downloaded them

walkVars == <<hour, loaded, bars, walk, deepened, restarts, denied>>

Hours == 0 .. MaxHour
NotDeepened == -1
DayOf(h) == h \div HoursPerDay
Page(h) == h \div PageSize

Trades(h) == h >= FirstMinute /\ h \notin Closed
DayBar(h) == Coarse /\ h < FirstMinute /\ h % HoursPerDay = 0

\* rates_range of [from, to) and _fetch: bars that have closed and were downloaded.
Rates(from, to, now) ==
    {h \in Hours : /\ from <= h /\ h < to /\ h + 1 <= now
                   /\ Page(h) \in loaded
                   /\ Trades(h) \/ DayBar(h)}
Missed(from, to) == {h \in Hours : from <= h /\ h < to /\ Page(h) \notin loaded}

Idle == [at |-> "idle", now |-> 0, to |-> 0, empty |-> 0, left |-> 0, tries |-> 0]

WalkTypeOK ==
    /\ hour \in Nat /\ restarts \in Nat
    /\ loaded \subseteq {Page(h) : h \in Hours}
    /\ bars \subseteq Hours /\ denied \subseteq Hours
    /\ walk \in [at : {"idle", "forward", "backward"}, now : Nat, to : Int,
                 empty : Nat, left : Nat, tries : Nat]
    /\ deepened \in Int

WalkInit ==
    /\ hour = Begin
    /\ loaded \in SUBSET {Page(h) : h \in 0 .. Begin}
    /\ bars = {} /\ denied = {}
    /\ walk = Idle
    /\ deepened = NotDeepened
    /\ restarts = 0

-----------------------------------------------------------------------------
\* A plausible bug: the run starts a chunk ago, whatever is stored.
StartAChunkAgo == hour - Chunk

\* bars_forward starts at the newest stored bar, or a chunk ago.
StartForward == IF bars = {} THEN hour - Chunk ELSE Max(bars)

MinuteBegins ==
    /\ walk.at = "idle"
    /\ walk' = [Idle EXCEPT !.at = "forward", !.now = hour, !.to = StartForward]
    /\ UNCHANGED <<hour, loaded, bars, deepened, restarts, denied>>

\* The walk back is for a symbol that has bars, until its start was found that day.
StartsBack(stored) ==
    IF stored = {} \/ deepened = DayOf(walk.now) THEN Idle
    ELSE [Idle EXCEPT !.at = "backward", !.now = walk.now, !.to = Min(stored),
                      !.left = Max({Budget, EmptyChunks})]

\* One chunk is fetched and upserted; the next starts where it ends.
Forward ==
    LET from == walk.to
        end == Min({from + Chunk, walk.now})
        stored == bars \cup Rates(from, end, walk.now)
    IN
    /\ walk.at = "forward" /\ from < walk.now
    /\ bars' = stored
    /\ denied' = denied \cup Missed(from, end)
    /\ walk' = IF end < walk.now THEN [walk EXCEPT !.to = end] ELSE StartsBack(stored)
    /\ UNCHANGED <<hour, loaded, deepened, restarts>>

Older == Rates(walk.to - Chunk, walk.to, walk.now)

\* An empty chunk is asked for again, a little later.
BackAgain ==
    /\ walk.at = "backward"
    /\ Older = {} /\ walk.tries < Retries
    /\ walk' = [walk EXCEPT !.tries = @ + 1]
    /\ UNCHANGED <<hour, loaded, bars, deepened, restarts, denied>>

\* _drop_coarse_days: a day without an hour of minutes is not minute data.  The day the chunk
\* ends in is not judged, and the first day that is kept may be a daily bar and minutes.
CoarseIn(answer, keepDay) ==
    LET coarse == {h \in answer : /\ DayOf(h) # keepDay
                                  /\ \A g \in answer : DayOf(g) = DayOf(h) => g < FirstMinute}
        kept == {DayOf(h) : h \in answer \ coarse}
    IN IF coarse = {} \/ kept = {} \/ Min(kept) = keepDay THEN coarse
       ELSE coarse \cup {h \in answer : DayOf(h) = Min(kept)}

\* Enough empty chunks in a row, or coarser data, are the start of history.
EmptyRun(answer) == IF answer \subseteq bars THEN walk.empty + 1 ELSE 0

\* One chunk of bars_backward; the budget ends the walk for this run.
Back ==
    LET answer == Older
        coarse == CoarseIn(answer, DayOf(walk.to))
        start == coarse # {} \/ EmptyRun(answer) >= EmptyChunks
    IN
    /\ walk.at = "backward"
    /\ answer # {} \/ walk.tries = Retries
    /\ bars' = bars \cup (answer \ coarse)
    /\ denied' = denied \cup Missed(walk.to - Chunk, walk.to)
    /\ deepened' = IF start THEN DayOf(walk.now) ELSE deepened
    /\ walk' = IF start \/ walk.left = 1 THEN Idle
               ELSE [walk EXCEPT !.to = @ - Chunk, !.empty = EmptyRun(answer), !.tries = 0,
                                 !.left = @ - 1]
    /\ UNCHANGED <<hour, loaded, restarts>>

\* Nothing to read forward, or a request that fails: the rest is left for the next run.
ForwardDone ==
    /\ walk.at = "forward" /\ walk.to >= walk.now
    /\ walk' = StartsBack(bars)
    /\ UNCHANGED <<hour, loaded, bars, deepened, restarts, denied>>

RequestFails ==
    /\ walk.at # "idle"
    /\ walk' = Idle
    /\ UNCHANGED <<hour, loaded, bars, deepened, restarts, denied>>

-----------------------------------------------------------------------------
\* The worker restarts, hours pass, the terminal downloads a page.

WorkerRestarts ==
    /\ restarts < MaxRestarts
    /\ restarts' = restarts + 1
    /\ walk' = Idle
    /\ deepened' = NotDeepened
    /\ UNCHANGED <<hour, loaded, bars, denied>>

HourPasses ==
    /\ hour < MaxHour
    /\ hour' = hour + 1
    /\ UNCHANGED <<loaded, bars, walk, deepened, restarts, denied>>

Download ==
    /\ \E p \in {Page(h) : h \in 0 .. hour} \ loaded : loaded' = loaded \cup {p}
    /\ UNCHANGED <<hour, bars, walk, deepened, restarts, denied>>

WalkNext ==
    \/ MinuteBegins \/ Forward \/ ForwardDone \/ BackAgain \/ Back \/ RequestFails
    \/ WorkerRestarts \/ HourPasses \/ Download

WalkSpec == WalkInit /\ [][WalkNext]_walkVars

-----------------------------------------------------------------------------
\* Properties.

\* "A missed poll costs nothing because the next one starts from what is stored": between the
\* oldest and the newest stored bar nothing is missing but what the terminal was asked for
\* before it had downloaded it, whatever failed or restarted in between.
GapWasDenied ==
    \A h \in Hours :
        bars # {} /\ Min(bars) < h /\ h < Max(bars) /\ Trades(h) => h \in bars \cup denied

\* The walk back gives up for a day only where history starts: if the terminal had everything,
\* no minute is older than the oldest stored one.  A closed market does not stop it.
WalkEndsAtStart ==
    deepened # NotDeepened /\ denied = {} /\ ~Coarse => \A h \in Hours : Trades(h) => h >= Min(bars)

\* The stored history has no hole the terminal did not make, and no early end.
HistoryIsWhole == GapWasDenied /\ WalkEndsAtStart

\* A daily bar is never stored as a minute ("those were being stored as minutes").
OnlyMinutes == \A h \in bars : h >= FirstMinute
=============================================================================
