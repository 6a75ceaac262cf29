------------------------------ MODULE Releases ------------------------------
(***************************************************************************)
(* The economic calendar: what a source lists, the refreshes that fetch it *)
(* and the vintages they add (modules/terminal/releases.py, fomc.py,       *)
(* adapters/faireconomy.py, cli.py calendar, workers/terminal_ingest.py).  *)
(*                                                                         *)
(* The worker's refresh and one by hand may run together; every row is a   *)
(* transaction of its own.  Two instants make a day.                       *)
(***************************************************************************)
EXTENDS Integers, FiniteSets, FiniteSetsExt

CONSTANTS
    Feeds,        \* what the source may list: sets of [title, at, consensus]
    Refreshers,   \* the worker, and whoever refreshes by hand
    MinInterval,  \* calendar_min_interval_minutes
    LastInstant, MaxRefreshCrashes  \* bounds

ASSUME ReleasesAssumption ==
    /\ {MinInterval, MaxRefreshCrashes} \subseteq Nat /\ LastInstant \in Nat \ {0}
    /\ \A records \in Feeds :
          /\ IsFiniteSet(records)
          /\ \A r \in records : r = [title |-> r.title, at |-> r.at, consensus |-> r.consensus] /\ r.at \in Nat

VARIABLES
    instant, listed,  \* the time, and what the source lists now
    vintages,    \* terminal.releases
    attempts,    \* ingest_batches: when each was started
    refreshes,   \* the refresh each is in
    newest,      \* history: the newest refresh that wrote, and whether it ended and no older one wrote after it
    refreshCrashes

releaseVars == <<instant, listed, vintages, attempts, refreshes, newest, refreshCrashes>>

NoConsensus == "none"
NoRefresh == [at |-> "none", asOf |-> 0, records |-> {}]

ReleasesTypeOK ==
    /\ instant \in 1 .. LastInstant /\ listed \in Feeds
    /\ \A v \in vintages :
          /\ v.asOf \in 1 .. LastInstant /\ v.status \in {"scheduled", "removed"}
          /\ \A w \in vintages : v.id = w.id /\ v.asOf = w.asOf => v = w
    /\ \A p \in Refreshers : refreshes[p].at \in {"none", "begun", "fetched"}

ReleasesInit ==
    /\ instant = 1 /\ listed \in Feeds
    /\ vintages = {} /\ attempts = {}
    /\ refreshes = [p \in Refreshers |-> NoRefresh]
    /\ newest = [asOf |-> 0, records |-> {}, last |-> TRUE]
    /\ refreshCrashes = 0

-----------------------------------------------------------------------------
InstantPasses ==
    /\ instant < LastInstant /\ instant' = instant + 1
    /\ UNCHANGED <<listed, vintages, attempts, refreshes, newest, refreshCrashes>>

SourceLists(records) ==
    /\ listed # records /\ listed' = records
    /\ UNCHANGED <<instant, vintages, attempts, refreshes, newest, refreshCrashes>>

CalendarDay(at) == (at + 1) \div 2

\* make_release_id and disambiguate: the title and the day, and the time when the fetch has another
\* of the day.
ReleaseId(r, records) ==
    LET others == {s \in records : s.title = r.title /\ CalendarDay(s.at) = CalendarDay(r.at)}
    IN  <<r.title, CalendarDay(r.at), IF Cardinality(others) > 1 THEN r.at ELSE 0>>

IdsIn(rows) == {v.id : v \in rows}

\* latest_vintages.
LatestOf(rows) == {v \in rows : \A w \in rows : w.id = v.id => w.asOf <= v.asOf}

\* too_soon, unless forced.  fetched_at is taken before the request is sent; no two are of one moment.
RefreshBegins(p) ==
    /\ refreshes[p].at = "none" /\ instant \notin attempts
    /\ \E force \in BOOLEAN : force \/ \A a \in attempts : instant - a >= MinInterval
    /\ attempts' = attempts \cup {instant}
    /\ refreshes' = [refreshes EXCEPT ![p] = [NoRefresh EXCEPT !.at = "begun", !.asOf = instant]]
    /\ UNCHANGED <<instant, listed, vintages, newest, refreshCrashes>>

SourceAnswers(p) ==
    /\ refreshes[p].at = "begun"
    /\ refreshes' = [refreshes EXCEPT ![p].at = "fetched", ![p].records = listed]
    /\ UNCHANGED <<instant, listed, vintages, attempts, newest, refreshCrashes>>

Vintage(id, r, asOf, status) ==
    [id |-> id, asOf |-> asOf, title |-> r.title, at |-> r.at, status |-> status,
     consensus |-> IF r.at <= asOf \/ status = "removed" THEN NoConsensus ELSE r.consensus]

\* comparable.
SameVintage(v, w) == [v EXCEPT !.asOf = 0] = [w EXCEPT !.asOf = 0]

\* A plausible bug: an event that is listed is planned whenever it differs.
AddsThawed(f) ==
    LET rows == {Vintage(ReleaseId(r, f.records), r, f.asOf, "scheduled") : r \in f.records}
        latest == LatestOf(vintages)
    IN  {v \in rows : ~\E w \in latest : SameVintage(v, w)}

\* plan_vintages: a release not seen before; one still ahead that changed.
Adds(f) ==
    LET rows == {Vintage(ReleaseId(r, f.records), r, f.asOf, "scheduled") : r \in f.records}
        latest == LatestOf(vintages)
    IN  {v \in rows : v.id \notin IdsIn(latest) \/ (v.at > f.asOf /\ ~\E w \in latest : SameVintage(v, w))}

Spanned(at, records) == (\E r \in records : r.at <= at) /\ (\E r \in records : at <= r.at)

\* One that is no longer listed, in the span of the fetch and still ahead of it.
Removes(f) ==
    LET ids == {ReleaseId(r, f.records) : r \in f.records}
    IN  {Vintage(v.id, v, f.asOf, "removed") :
            v \in {w \in LatestOf(vintages) : /\ w.id \notin ids /\ w.status = "scheduled"
                                              /\ Spanned(w.at, f.records) /\ w.at > f.asOf}}

Planned(f) == Adds(f) \cup Removes(f)

\* persist, which plans against what is stored by then; a consensus that is not from before its event
\* would raise.
RefreshEnds(p) ==
    LET f == refreshes[p] IN
    /\ f.at = "fetched"
    /\ vintages' = vintages \cup Planned(f)
    /\ newest' = IF f.asOf > newest.asOf THEN [asOf |-> f.asOf, records |-> f.records, last |-> TRUE]
                 ELSE [newest EXCEPT !.last = FALSE]
    /\ refreshes' = [refreshes EXCEPT ![p] = NoRefresh]
    /\ UNCHANGED <<instant, listed, attempts, refreshCrashes>>

\* The fetch or the parser fails, or the process dies between two rows: those removed are last.
RefreshFails(p) ==
    LET f == refreshes[p] IN
    /\ f.at # "none" /\ refreshCrashes < MaxRefreshCrashes
    /\ \E written \in SUBSET Planned(f) :
          /\ (\E v \in written : v.status = "removed") =>
                {v \in Planned(f) : v.status = "scheduled"} \subseteq written
          /\ vintages' = vintages \cup written
          /\ newest' = IF written = {} THEN newest
                        ELSE [newest EXCEPT !.last = FALSE, !.asOf = Max({@, f.asOf})]
    /\ refreshes' = [refreshes EXCEPT ![p] = NoRefresh]
    /\ refreshCrashes' = refreshCrashes + 1
    /\ UNCHANGED <<instant, listed, attempts>>

ReleasesNext ==
    \/ InstantPasses
    \/ \E records \in Feeds : SourceLists(records)
    \/ \E p \in Refreshers :
          RefreshBegins(p) \/ SourceAnswers(p) \/ RefreshEnds(p) \/ RefreshFails(p)

ReleasesSpec == ReleasesInit /\ [][ReleasesNext]_releaseVars

-----------------------------------------------------------------------------
\* Properties.

\* upcoming, from a moment on.
Upcoming(from) == {v \in LatestOf(vintages) : v.status = "scheduled" /\ v.at > from}

\* The calendar shows what the newest refresh was shown, for what was ahead of it in its span: each
\* event once, at its time and with its consensus, whatever ids it went by and whichever rows an
\* earlier refresh that died had written.  An event moved forward to a time already over stays where
\* it was.
ShowsNewest ==
    newest.last =>
        LET over == {ReleaseId(r, newest.records) : r \in {s \in newest.records : s.at <= newest.asOf}}
            ahead == {v \in Upcoming(newest.asOf) : v.id \notin over /\ Spanned(v.at, newest.records)} IN
        /\ {[title |-> v.title, at |-> v.at, consensus |-> v.consensus] : v \in ahead}
              = {r \in newest.records : r.at > newest.asOf}
        /\ \A v, w \in ahead : v.title = w.title /\ v.at = w.at => v = w

\* A consensus is from before its event.
NoHindsight == \A v \in vintages : v.consensus # NoConsensus => v.asOf < v.at

\* A vintage stays as it is, and an event that is over gets another only when it was put off.
VintagesStand ==
    /\ vintages \subseteq vintages'
    /\ \A v \in LatestOf(vintages), w \in vintages' \ vintages :
          v.id = w.id /\ v.at <= w.asOf /\ v.asOf < w.asOf => w.at > w.asOf /\ w.at > v.at

CalendarHolds == [](ShowsNewest /\ NoHindsight) /\ [][VintagesStand]_releaseVars
=============================================================================
