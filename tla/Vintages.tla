------------------------------ MODULE Vintages ------------------------------
(***************************************************************************)
(* The point-in-time store of the terminal: what its sources publish and   *)
(* revise, the nightly ingest of them and the series derived from what is  *)
(* stored (modules/terminal/cli.py ingest and derive, store/loader.py,     *)
(* store/query.py, derive.py, adapters/, workers/terminal_ingest.py).      *)
(*                                                                         *)
(* Every row is a transaction of its own.  A day is a moment: what is      *)
(* known of a day on that day has its as_of.                               *)
(***************************************************************************)
EXTENDS Integers, Sequences, FiniteSets, FiniteSetsExt

CONSTANTS
    Sources,       \* the sources, in their order
    Requests,      \* the sets of series each is asked for, one request each
    AdapterOf,     \* the adapter that reads each series
    ArchiveStart,  \* archive_start: the first day FRED has vintages of
    FirstStoreDay, \* the first night
    Inputs,        \* of the derivation
    DeriveWindow,  \* its window, in dates
    LastStoreDay, MaxPublished, MaxOutages  \* bounds

ASSUME VintagesAssumption ==
    /\ {LastStoreDay, MaxPublished, MaxOutages} \subseteq Nat
    /\ FirstStoreDay \in 1 .. LastStoreDay /\ DeriveWindow \in Nat \ {0}
    /\ IsFiniteSet(DOMAIN AdapterOf)
    /\ \A s \in DOMAIN AdapterOf : AdapterOf[s] \in {"fred", "desk_gex", "prices"}
    /\ Sources \in Seq(DOMAIN Requests)
    /\ \A name \in DOMAIN Requests : Requests[name] \in Seq(SUBSET DOMAIN AdapterOf)
    /\ ArchiveStart \in [DOMAIN AdapterOf -> 0 .. LastStoreDay]
    /\ Inputs \subseteq DOMAIN AdapterOf /\ Inputs # {}

VARIABLES
    storeDay,
    published,    \* the vintages of each series and date there are
    observations, \* terminal.observations of the fetched series
    derived,      \* and of the derived one
    batches,      \* ingest_batches: the last of each source
    night,        \* the run under way: the source and the request it is at, and what it was offered
    outages

vintageVars == <<storeDay, published, observations, derived, batches, night, outages>>

StoreDays == 1 .. LastStoreDay
StoreSeries == DOMAIN AdapterOf
NoArchive == 0
NoNight == [source |-> 0, request |-> 1, offered |-> {}, failed |-> FALSE]

VintagesTypeOK ==
    /\ storeDay \in StoreDays
    /\ observations \subseteq [series : StoreSeries, on : StoreDays, asOf : StoreDays, value : 1 .. MaxPublished]
    /\ \A o \in derived : o.on \in StoreDays /\ o.asOf \in StoreDays
    /\ night.source \in 0 .. Len(Sources) + 1

VintagesInit ==
    /\ storeDay = FirstStoreDay
    /\ published = [s \in StoreSeries |-> {}]
    /\ observations = {} /\ derived = {}
    /\ batches = [i \in DOMAIN Sources |-> "none"]
    /\ night = NoNight /\ outages = 0

-----------------------------------------------------------------------------
StoreDayPasses ==
    /\ storeDay < LastStoreDay /\ storeDay' = storeDay + 1
    /\ UNCHANGED <<published, observations, derived, batches, night, outages>>

NewestOf(vintages) == CHOOSE v \in vintages : \A w \in vintages : w.asOf <= v.asOf

OfDate(s, on) == {v \in published[s] : v.on = on}

\* A date's first value, or a revision of it.
Publishes(s, on) ==
    /\ on <= storeDay /\ Cardinality(UNION {{t} \X published[t] : t \in StoreSeries}) < MaxPublished
    /\ ~\E v \in published[s] : v.on = on /\ v.asOf = storeDay
    /\ published' = [published EXCEPT ![s] = @ \cup
          {[on |-> on, asOf |-> storeDay, value |-> Cardinality(OfDate(s, on)) + 1]}]
    /\ UNCHANGED <<storeDay, observations, derived, batches, night, outages>>

-----------------------------------------------------------------------------
NewestAt(s, on, at) ==
    IF OfDate(s, on) = {} THEN {}
    ELSE {[series |-> s, on |-> on, asOf |-> at, value |-> NewestOf(OfDate(s, on)).value]}

\* ALFRED has every vintage of the dates since its archive of the series began; of an earlier date the
\* newest value, known by that day at the latest; of a series without archive the newest, as of its date.
WithVintages(s, on) ==
    {[series |-> s, on |-> on, asOf |-> v.asOf, value |-> v.value] : v \in OfDate(s, on)}
PreArchive(s, on) == NewestAt(s, on, ArchiveStart[s])
WithoutVintages(s, on) == NewestAt(s, on, on)

FredRows(s, on) ==
    IF ArchiveStart[s] = NoArchive THEN WithoutVintages(s, on)
    ELSE IF on < ArchiveStart[s] THEN PreArchive(s, on)
    ELSE WithVintages(s, on)

\* The desk's own levels: the newest of the date, as of when it was computed.
DeskGexRows(s, on) ==
    IF OfDate(s, on) = {} THEN {} ELSE NewestAt(s, on, NewestOf(OfDate(s, on)).asOf)

\* A plausible bug: a close is stored as known before its day is over.
PricesAhead(s, on) == NewestAt(s, on, on - 1)

\* The closes of the daily bars, and the files that show one value of a date: as of their date.
PricesRows(s, on) == NewestAt(s, on, on)

RowsOn(s, on) ==
    CASE AdapterOf[s] = "fred" -> FredRows(s, on)
      [] AdapterOf[s] = "desk_gex" -> DeskGexRows(s, on)
      [] AdapterOf[s] = "prices" -> PricesRows(s, on)

Offered(request) == UNION {RowsOn(s, on) : s \in request, on \in 1 .. storeDay}

KeyedAs(r, o) == r.series = o.series /\ r.on = o.on /\ r.asOf = o.asOf
Earlier(r, c) == r.on < c.on \/ (r.on = c.on /\ r.asOf < c.asOf)

\* The rows a persist meets stored with another value.
Conflicts(rows, stored) == {r \in rows : \E o \in stored : KeyedAs(r, o) /\ o.value # r.value}

\* persist, row by row in their order up to one that conflicts: what may be stored after it.
Persisted(rows, stored) ==
    LET conflicts == Conflicts(rows, stored)
        before == {r \in rows : \A c \in conflicts : Earlier(r, c)}
        beside == {r \in rows \ conflicts : /\ \A c \in conflicts : ~Earlier(c, r)
                                            /\ \E c \in conflicts : ~Earlier(r, c)}
    IN  {stored \cup before \cup kept : kept \in SUBSET beside}

Working == night.source \in DOMAIN Sources
Asked == Requests[Sources[night.source]]
Asking == Working /\ night.request \in DOMAIN Asked

NightBegins ==
    /\ night.source = 0
    /\ night' = [NoNight EXCEPT !.source = 1]
    /\ batches' = [batches EXCEPT ![1] = "running"]
    /\ UNCHANGED <<storeDay, published, observations, derived, outages>>

\* The next source is begun, or the derivation is next.
GoOn(status) ==
    /\ night' = [NoNight EXCEPT !.source = night.source + 1]
    /\ batches' = [i \in DOMAIN Sources |->
          CASE i = night.source -> status [] i = night.source + 1 -> "running" [] OTHER -> batches[i]]

\* fetch and persist: nothing, or a code the source does not know, is recorded and the next is asked;
\* anything else ends the source.
RequestIsRead ==
    LET rows == Offered(Asked[night.request])
        offered == night.offered \cup rows
    IN  /\ Asking
        /\ observations' \in Persisted(rows, observations)
        /\ IF Conflicts(rows, observations) = {}
           THEN night' = [night EXCEPT !.request = @ + 1, !.offered = offered,
                                       !.failed = @ \/ rows = {}] /\ UNCHANGED batches
           ELSE GoOn("failed")
        /\ UNCHANGED <<storeDay, published, derived, outages>>

RequestIsRefused ==
    /\ Asking /\ outages < MaxOutages
    /\ outages' = outages + 1
    /\ night' = [night EXCEPT !.request = @ + 1, !.failed = TRUE]
    /\ UNCHANGED <<storeDay, published, observations, derived, batches>>

SourceFails ==
    /\ Asking /\ outages < MaxOutages
    /\ outages' = outages + 1 /\ GoOn("failed")
    /\ UNCHANGED <<storeDay, published, observations, derived>>

SourceEnds ==
    /\ Working /\ ~Asking
    /\ GoOn(IF night.failed THEN "failed" ELSE "ok")
    /\ UNCHANGED <<storeDay, published, observations, derived, outages>>

-----------------------------------------------------------------------------
\* get: of each date the newest vintage known by then.
KnownOn(s, on, by) == {o \in observations : o.series = s /\ o.on = on /\ o.asOf <= by}
JoinedDates(by) == {on \in StoreDays : \A s \in Inputs : KnownOn(s, on, by) # {}}
WindowTo(on, by) ==
    {d \in JoinedDates(by) : d <= on /\ Cardinality({e \in JoinedDates(by) : d < e /\ e <= on}) < DeriveWindow}

\* The value of a date is of every input on every date of its window.
ValueOn(on, by) ==
    [d \in WindowTo(on, by) |-> [s \in Inputs |-> NewestOf(KnownOn(s, d, by)).value]]

\* A plausible bug: the as_of of a date's own inputs, not of its window's.
AsOfDate(on, by) == Max({NewestOf(KnownOn(s, on, by)).asOf : s \in Inputs})

AsOfWindow(on, by) == Max({NewestOf(KnownOn(s, d, by)).asOf : s \in Inputs, d \in WindowTo(on, by)})

\* compute: the dates all inputs have; none is filled.
Computed(by) ==
    {[series |-> "derived", on |-> on, asOf |-> AsOfWindow(on, by), value |-> ValueOn(on, by)] :
        on \in JoinedDates(by)}

DeriveRuns ==
    /\ night.source = Len(Sources) + 1
    /\ derived' \in Persisted(Computed(storeDay), derived)
    /\ night' = NoNight
    /\ UNCHANGED <<storeDay, published, observations, batches, outages>>

\* The process dies between two rows.
NightDies ==
    /\ night # NoNight /\ outages < MaxOutages
    /\ outages' = outages + 1 /\ night' = NoNight
    /\ \E cut \in [on : StoreDays, asOf : StoreDays] :
          /\ observations' \in IF Asking THEN Persisted({r \in Offered(Asked[night.request]) : Earlier(r, cut)}, observations)
                               ELSE {observations}
          /\ derived' \in IF Working THEN {derived}
                          ELSE Persisted({r \in Computed(storeDay) : Earlier(r, cut)}, derived)
    /\ UNCHANGED <<storeDay, published, batches>>

VintagesNext ==
    \/ StoreDayPasses \/ NightBegins \/ RequestIsRead \/ RequestIsRefused
    \/ SourceFails \/ SourceEnds \/ DeriveRuns \/ NightDies
    \/ \E s \in StoreSeries, on \in StoreDays : Publishes(s, on)

VintagesSpec == VintagesInit /\ [][VintagesNext]_vintageVars

-----------------------------------------------------------------------------
\* Properties.

\* What was known then stays as it was, whatever is revised, refused or cut short: a vintage has one
\* value and is never taken back, a batch that ends ok has stored every row it was offered as it was
\* offered, and a derived row is what its inputs, read as of its own as_of, are worth: over its
\* window no value of it was known later.
VintagesHold ==
    [][/\ observations \subseteq observations' /\ derived \subseteq derived'
       /\ \A o, p \in observations' : KeyedAs(o, p) => o = p
       /\ \A o, p \in derived' : KeyedAs(o, p) => o = p
       /\ \A i \in DOMAIN Sources :
             batches[i] = "running" /\ batches'[i] = "ok" => night.offered \subseteq observations'
       /\ \A o \in derived' \ derived :
             o.on \in JoinedDates(o.asOf) /\ o.value = ValueOn(o.on, o.asOf)]_vintageVars
=============================================================================
