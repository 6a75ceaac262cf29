----------------------------- MODULE DailyBars -----------------------------
(***************************************************************************)
(* The daily bars of one symbol: what a vendor shows of each day and when, *)
(* the nightly job and the backfill that store it, and the provider that   *)
(* is configured for the symbol (modules/gex/jobs/bars.py,                 *)
(* bars_backfill.py, providers/yahoo.py, tiingo.py, cboe_index.py,         *)
(* storage/bars_repository.py).                                            *)
(*                                                                         *)
(* A bar is "forming" while its session runs, then "final"; the vendor may *)
(* revise it, and may show a day as null until it has it.                  *)
(***************************************************************************)
EXTENDS Fetching, FiniteSets

CONSTANTS
    BarOverlap,     \* _OVERLAP_DAYS
    UpToDate,       \* _UP_TO_DATE_WITHIN_DAYS
    MaxAttempts,    \* _DEFAULT_MAX_RETRIES
    Weekend,        \* days without a session
    LastBarDay      \* bound: days

ASSUME DailyBarsAssumption ==
    /\ {BarOverlap, UpToDate} \subseteq Nat /\ {MaxAttempts, LastBarDay} \subseteq Nat \ {0}
    \* a backfill that reached less far back than the nightly job would pass over days
    /\ BarOverlap <= UpToDate /\ Weekend \subseteq Nat

VARIABLES
    provider,    \* BAR_PROVIDER_GROUPS: who serves the symbol
    today, settled,  \* the day, and whether its session has been over for _SETTLE_BUFFER_MINUTES
    shown,       \* what the vendor has of each day
    barRows,     \* daily_bars
    offered      \* history: days a good run was offered, see BarsJob

dailyVars == <<provider, today, settled, shown, barRows, offered>>

BarDays == 1 .. LastBarDay
Versions == {"forming", "final", "revised"}

DailyBarsTypeOK ==
    /\ provider \in {"yahoo", "tiingo", "cboe_index"}
    /\ today \in BarDays /\ settled \in BOOLEAN
    /\ shown \in [BarDays -> Versions \cup {"null"}]
    /\ barRows \in [BarDays -> Versions \cup {"none"}]
    /\ offered \subseteq BarDays

DailyBarsInit ==
    /\ provider \in {"yahoo", "tiingo", "cboe_index"}
    /\ today = 1 /\ settled = FALSE
    /\ shown = [d \in BarDays |-> "null"]
    /\ barRows = [d \in BarDays |-> "none"]
    /\ offered = {}

-----------------------------------------------------------------------------
\* The vendor.  Yahoo shows the session under way as a row; the other two publish closed days.

IsSession(d) == d \notin Weekend
Over(d) == d < today \/ (d = today /\ settled)

NextDay ==
    /\ today < LastBarDay /\ (settled \/ ~IsSession(today))
    /\ today' = today + 1 /\ settled' = FALSE
    /\ UNCHANGED <<provider, shown, barRows, offered>>

SessionSettles ==
    /\ ~settled /\ IsSession(today)
    /\ settled' = TRUE
    /\ shown' = [shown EXCEPT ![today] = IF @ = "forming" THEN "final" ELSE @]
    /\ UNCHANGED <<provider, today, barRows, offered>>

VendorShows(d) ==
    /\ IsSession(d) /\ d <= today
    /\ \/ shown[d] = "null" /\ ~Over(d) /\ provider = "yahoo" /\ shown' = [shown EXCEPT ![d] = "forming"]
       \/ shown[d] = "null" /\ Over(d) /\ shown' = [shown EXCEPT ![d] = "final"]
       \/ shown[d] = "final" /\ shown' = [shown EXCEPT ![d] = "revised"]
    /\ UNCHANGED <<provider, today, settled, barRows, offered>>

-----------------------------------------------------------------------------
\* last_bar_date, and a day before everything when there is none.
StoredTo == Max({d \in BarDays : barRows[d] # "none"} \cup {-LastBarDay - BarOverlap})

\* BarProviderRegistry.for_symbol: one request, as the provider's client makes it.
BarFetch(answers) ==
    CASE provider = "yahoo" -> YahooFetch(answers)
      [] provider = "tiingo" -> TiingoFetch(answers)
      [] provider = "cboe_index" -> CboeIndexFetch(answers)

\* today_is_settled: a row of today counts once its session is over, and none of tomorrow.
YahooKeeps(d) == d < today \/ (d = today /\ IsSession(today) /\ settled)

\* The rows a provider makes of a body: a day that is null is skipped.
YahooRows(start) == {d \in BarDays : d >= start /\ shown[d] # "null" /\ YahooKeeps(d)}
TiingoRows(start) == {d \in BarDays : d >= start /\ shown[d] # "null"}
CboeIndexRows(start) == {d \in BarDays : d >= start /\ shown[d] # "null"}

ParsedRows(start) ==
    CASE provider = "yahoo" -> YahooRows(start)
      [] provider = "tiingo" -> TiingoRows(start)
      [] provider = "cboe_index" -> CboeIndexRows(start)

\* upsert_bars.
Upsert(days) == barRows' = [d \in BarDays |-> IF d \in days THEN shown[d] ELSE barRows[d]]

\* A plausible bug: a run starts after the newest bar it has.
AfterStored == StoredTo + 1

\* update_one_symbol: some days before the newest stored bar, or _DEFAULT_LOOKBACK_YEARS.
StartOfUpdate == StoredTo - BarOverlap

\* A run that fails changes nothing; the others of the universe go on.
BarsRun(start, answers) ==
    IF BarFetch(answers) = "rows"
    THEN /\ Upsert(ParsedRows(start))
         /\ offered' = offered \cup {d \in BarDays : shown[d] \in {"final", "revised"} /\ d >= StoredTo - BarOverlap}
    ELSE UNCHANGED <<barRows, offered>>

BarsJob ==
    /\ \E answers \in [1 .. MaxAttempts -> Answers] : BarsRun(StartOfUpdate, answers)
    /\ UNCHANGED <<provider, today, settled, shown>>

\* bars_backfill: a symbol that is up to date is left alone unless forced; it is caught up from its
\* newest bar, or deepened from the start.
Backfill ==
    /\ \E answers \in [1 .. MaxAttempts -> Answers], force \in BOOLEAN :
          /\ force \/ StoredTo < today - UpToDate
          /\ BarsRun(IF force THEN -LastBarDay ELSE StoredTo - UpToDate, answers)
    /\ UNCHANGED <<provider, today, settled, shown>>

DailyBarsNext ==
    \/ NextDay \/ SessionSettles \/ BarsJob \/ Backfill
    \/ \E d \in BarDays : VendorShows(d)

DailyBarsSpec == DailyBarsInit /\ [][DailyBarsNext]_dailyVars

-----------------------------------------------------------------------------
\* Properties.

\* A day a good run was offered while its newest bar was at most the overlap ahead is stored, late
\* as it came, whatever failed in between; a stored bar is of a session that is over, and a run
\* at any hour never takes the session under way for a day.
BarsAreWhole ==
    /\ \A d \in offered : barRows[d] \in {"final", "revised"}
    /\ \A d \in BarDays : barRows[d] # "none" => Over(d) /\ barRows[d] # "forming"
=============================================================================
