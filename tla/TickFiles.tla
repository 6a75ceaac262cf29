----------------------------- MODULE TickFiles -----------------------------
(***************************************************************************)
(* The hour job of the broker ingest (Ingestor.run_hour of                 *)
(* modules/broker/ingest.py) of one symbol: its contract spec, one row per *)
(* change, and its ticks, one file and one row per closed hour.            *)
(*                                                                         *)
(* Two runs may overlap: the scheduler's and the one the worker makes when *)
(* it starts (workers/broker_ingest.py:84).  Each has read which hours are *)
(* on record before it asks for the rest, one request an hour.  The        *)
(* terminal answers an hour it has not downloaded yet with nothing.        *)
(***************************************************************************)
EXTENDS Integers, Sequences, FiniteSets

CONSTANTS
    TickHours,    \* BROKER_TICK_HOURS
    Quiet,        \* the hours without ticks
    Contracts,    \* the specs a symbol may have
    FirstHour,    \* the hour of the first start
    LastHour,     \* bound: where the clock stops
    MaxSpecs      \* bound: rows of symbol_specs

ASSUME TickAssumption ==
    /\ {TickHours, FirstHour, LastHour, MaxSpecs} \subseteq Nat
    /\ FirstHour <= LastHour

VARIABLES
    wall,      \* the hour
    fetched,   \* the hours the terminal has downloaded
    contract,  \* the symbol's spec at the broker
    specs,     \* broker.symbol_specs by observed_at
    files,     \* broker.tick_files: what is on record of each hour
    runs,      \* run_hour: when it began and the hours it has left
    unready    \* history: hours asked for before the terminal had downloaded them

tickVars == <<wall, fetched, contract, specs, files, runs, unready>>

TickSlots == 0 .. LastHour
Runs == {"boot", "cron"}
Resting == [now |-> 0, todo |-> {}]

TickTypeOK ==
    /\ wall \in TickSlots
    /\ fetched \subseteq TickSlots /\ unready \subseteq TickSlots
    /\ contract \in Contracts
    /\ specs \in Seq(Contracts)
    /\ files \in [TickSlots -> {"none", "empty", "ticks"}]
    /\ runs \in [Runs -> [now : Nat, todo : SUBSET TickSlots]]

TickInit ==
    /\ wall = FirstHour
    /\ fetched \in SUBSET (0 .. FirstHour - 1)
    /\ contract \in Contracts
    /\ specs = <<>>
    /\ files = [h \in TickSlots |-> "none"]
    /\ runs = [r \in Runs |-> Resting]
    /\ unready = {}

\* spec: a row is added when the digest differs from that of the newest row.
WithSpec == IF specs # <<>> /\ specs[Len(specs)] = contract THEN specs ELSE Append(specs, contract)

\* The closed hours of the window that are not on record.
HoursDue == {h \in TickSlots : wall - TickHours <= h /\ h <= wall - 1 /\ files[h] = "none"}

\* The spec request may fail, and the gate (ClockGate) may be shut.
HourBegins(r) ==
    /\ runs[r].todo = {}
    /\ specs' \in {specs, WithSpec}
    /\ Len(specs') <= MaxSpecs
    /\ \/ runs' = [runs EXCEPT ![r] = [now |-> wall, todo |-> HoursDue]]
       \/ UNCHANGED runs
    /\ UNCHANGED <<wall, fetched, contract, files, unready>>

\* One hour: the file, then its row, which replaces one that another run has written.
HourRead(r) ==
    \E h \in runs[r].todo :
        /\ \A g \in runs[r].todo : h <= g
        /\ files' = [files EXCEPT ![h] = IF h \in fetched \ Quiet THEN "ticks" ELSE "empty"]
        /\ unready' = unready \cup ({h} \ fetched)
        /\ runs' = [runs EXCEPT ![r].todo = @ \ {h}]
        /\ UNCHANGED <<wall, fetched, contract, specs>>

\* A plausible bug: an hour whose request failed is recorded as one without ticks.
FailsRecorded(r) ==
    \E h \in runs[r].todo :
        /\ files' = [files EXCEPT ![h] = "empty"]
        /\ runs' = [runs EXCEPT ![r] = Resting]
        /\ UNCHANGED <<wall, fetched, contract, specs, unready>>

\* The request fails or the file cannot be written: the hours left are for the next run.
HourFails(r) ==
    /\ runs[r].todo # {}
    /\ runs' = [runs EXCEPT ![r] = Resting]
    /\ UNCHANGED <<wall, fetched, contract, specs, files, unready>>

TickRestarts ==
    /\ \E r \in Runs : runs[r].todo # {}
    /\ runs' = [r \in Runs |-> Resting]
    /\ UNCHANGED <<wall, fetched, contract, specs, files, unready>>

\* An hour's ticks are downloaded as they come when the terminal is connected, or later.
WallPasses ==
    /\ wall < LastHour
    /\ wall' = wall + 1
    /\ fetched' \in {fetched, fetched \cup {wall}}
    /\ UNCHANGED <<contract, specs, files, runs, unready>>

TicksArrive ==
    /\ \E h \in 0 .. wall - 1 : h \notin fetched /\ fetched' = fetched \cup {h}
    /\ UNCHANGED <<wall, contract, specs, files, runs, unready>>

ContractChanges ==
    /\ contract' \in Contracts \ {contract}
    /\ UNCHANGED <<wall, fetched, specs, files, runs, unready>>

TickNext ==
    \/ \E r \in Runs : HourBegins(r) \/ HourRead(r) \/ HourFails(r)
    \/ TickRestarts \/ WallPasses \/ TicksArrive \/ ContractChanges

TickSpec == TickInit /\ [][TickNext]_tickVars

-----------------------------------------------------------------------------
\* Properties.

\* An hour on record has its ticks, unless the terminal was asked before it had downloaded them:
\* no hour is read before it closes, and a run that fails leaves none half recorded.
TickHourIsWhole ==
    \A h \in TickSlots :
        files[h] # "none" => h < wall /\ ((files[h] = "ticks") = (h \notin Quiet) \/ h \in unready)
=============================================================================
