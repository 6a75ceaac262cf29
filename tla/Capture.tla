------------------------------ MODULE Capture ------------------------------
(***************************************************************************)
(* The capture of one underlying's option chain (modules/gex/jobs/): the   *)
(* jobs that fetch it from the vendor, index it in gex.snapshots, store    *)
(* its levels and tell the open tabs.                                      *)
(*                                                                         *)
(* The worker process (workers/gex_capture.py) runs the intraday and the   *)
(* 16:20 job, the 20:00 safety net, the catch-up at its start and the      *)
(* nightly prune; the API process runs a capture someone asks for.  Jobs   *)
(* overlap at every await: a capture fetches, reads the index, inserts,    *)
(* computes and publishes in five steps.  A snapshot's Parquet file is     *)
(* written before its row and read only through it, so it has no variable. *)
(*                                                                         *)
(* A day has three phases: the session, the evening from 16:20 and the     *)
(* late evening from 20:00.  A vendor timestamp is a number that tells its *)
(* phase, and a book (the chain's content) is named by the timestamp it    *)
(* first appeared under.                                                   *)
(***************************************************************************)
EXTENDS Stream, FiniteSets

CONSTANTS
    TradingDays,      \* the days the exchange is open
    StampsPerPhase,   \* bound: timestamps the vendor issues in a phase
    Keep,             \* phases an intraday row keeps its strikes
    ManualEod,        \* whether a person's capture may ask for an EOD row
    Repairs,          \* whether a person runs the backfill
    FaultKinds,       \* the faults that may happen
    MaxFaults,        \* bound: how many faults happen
    MaxTime           \* bound: where the clock stops

ASSUME CaptureAssumption ==
    /\ TradingDays \subseteq Nat
    /\ StampsPerPhase \in Nat \ {0}
    /\ Keep \in Nat
    /\ ManualEod \subseteq BOOLEAN
    /\ Repairs \in BOOLEAN
    /\ FaultKinds \subseteq {"vendor", "store", "engine", "crash", "sleep"}
    /\ MaxFaults \in Nat
    /\ MaxTime \in Nat

VARIABLES
    clock,      \* the phase
    vendor,     \* the chain the vendor serves: its timestamp and its book
    book,       \* gex.snapshots: the content_hash of each row, by captured_at
    eod,        \* the rows with is_eod
    levels,     \* the rows with gex_levels
    strikes,    \* the rows with gex_by_strike
    worker,     \* "up", "down", or "asleep": a host that sleeps with its process
    due,        \* the worker's jobs that have fired and not begun
    job,        \* what each job is doing
    doomed,     \* the rows the prune has read and not yet deleted from
    faults,     \* faults so far
    vouched     \* history: the books an EOD capture or a catch-up said are kept

indexVars == <<book, eod, levels, strikes>>
workVars == <<worker, due, job, doomed>>
envVars == <<clock, vendor, faults>>
vars == <<streamVars, indexVars, workVars, envVars, vouched>>

-----------------------------------------------------------------------------
\* Days, timestamps and rows.

Day(t) == t \div 3
Session(t) == t % 3 = 0
Open(t) == Session(t) /\ Day(t) \in TradingDays
AfterCutoff(t) == ~Session(t)

Taken(stamp) == (stamp - 1) \div StampsPerPhase
FirstStamp(t) == t * StampsPerPhase + 1
LastStamp(t) == (t + 1) * StampsPerPhase

Stamps == 1 .. LastStamp(MaxTime)
NoBook == 0

Rows == {s \in Stamps : book[s] # NoBook}
Latest == {s \in Rows : \A r \in Rows : r <= s}
Newest == {s \in levels : \A r \in levels : r <= s}

\* What GET levels/history ends with.
NewestLevels == IF levels = {} THEN {0} ELSE Newest

\* has_eod_snapshot_today: by the calendar day of captured_at.
HasEod(day) == \E s \in eod : Day(Taken(s)) = day

CatchUps == {"net", "boot"}
Scheduled == {"eod", "intraday"}
WorkerJobs == Scheduled \cup CatchUps \cup {"prune"}
Jobs == WorkerJobs \cup {"manual"}

Chain == [stamp : Nat, book : Nat]
NoChain == [stamp |-> 0, book |-> NoBook]
Places == {"off", "fetch", "store", "insert", "levels", "publish", "delete"}
Work == [at : Places, eod : BOOLEAN, chain : Chain]
Off == [at |-> "off", eod |-> FALSE, chain |-> NoChain]

CaptureTypeOK ==
    /\ StreamTypeOK
    /\ clock \in Nat
    /\ vendor \in Chain
    /\ book \in [Stamps -> Nat]
    /\ eod \subseteq Rows /\ levels \subseteq Rows /\ strikes \subseteq Rows
    /\ worker \in {"up", "down", "asleep"}
    /\ due \subseteq WorkerJobs
    /\ job \in [Jobs -> Work]
    /\ doomed \subseteq Rows
    /\ faults \in Nat
    /\ vouched \subseteq Nat

Init ==
    /\ StreamInit
    /\ clock = 0
    /\ vendor = [stamp |-> 1, book |-> 1]
    /\ book = [s \in Stamps |-> NoBook]
    /\ eod = {}
    /\ levels = {}
    /\ strikes = {}
    /\ worker = "down"
    /\ due = {}
    /\ job = [j \in Jobs |-> Off]
    /\ doomed = {}
    /\ faults = 0
    /\ vouched = {}

-----------------------------------------------------------------------------
\* Steps the jobs share.

Fault(kind) ==
    /\ kind \in FaultKinds
    /\ faults < MaxFaults
    /\ faults' = faults + 1

Running(j) == job[j].at # "off"
At(j, place) == job[j].at = place /\ (j \in WorkerJobs => worker = "up")
Goes(j, place) == job' = [job EXCEPT ![j].at = place]
Ends(j) == job' = [job EXCEPT ![j] = Off]

\* The scheduler begins a job that has fired, one instance of each at a time.
Begins(j) ==
    /\ worker = "up"
    /\ j \in due
    /\ ~Running(j)
    /\ due' = due \ {j}

Starts(j, asEod) == job' = [job EXCEPT ![j] = [Off EXCEPT !.at = "fetch", !.eod = asEod]]

Vouch(books) == vouched' = vouched \cup books
VouchIfEod(j) == Vouch(IF job[j].eod THEN {job[j].chain.book} ELSE {})

-----------------------------------------------------------------------------
\* The jobs' beginnings (jobs/scheduler.py, jobs/catchup.py, api/snapshots.py).

\* capture_eod_job and capture_intraday_job.
BeginCapture(j) ==
    /\ j \in Scheduled
    /\ Begins(j)
    /\ IF Day(clock) \in TradingDays THEN Starts(j, j = "eod") ELSE UNCHANGED job
    /\ UNCHANGED <<streamVars, indexVars, worker, doomed, envVars, vouched>>

\* catch_up_missed_eod, not on a trading day or before 16:20.
CatchUpTooEarly(j) ==
    /\ j \in CatchUps
    /\ Begins(j)
    /\ Day(clock) \notin TradingDays \/ ~AfterCutoff(clock)
    /\ UNCHANGED <<streamVars, indexVars, worker, job, doomed, envVars, vouched>>

\* The day has its EOD row: nothing to do, and nothing said to be missing.
CatchUpNoop(j) ==
    /\ j \in CatchUps
    /\ Begins(j)
    /\ Day(clock) \in TradingDays /\ AfterCutoff(clock)
    /\ HasEod(Day(clock))
    /\ Vouch({vendor.book})
    /\ UNCHANGED <<streamVars, indexVars, worker, job, doomed, envVars>>

CatchUpFires(j) ==
    /\ j \in CatchUps
    /\ Begins(j)
    /\ Day(clock) \in TradingDays /\ AfterCutoff(clock)
    /\ ~HasEod(Day(clock))
    /\ Starts(j, TRUE)
    /\ UNCHANGED <<streamVars, indexVars, worker, doomed, envVars, vouched>>

\* trigger_capture, at any time, in the API process.
ManualCapture ==
    /\ ~Running("manual")
    /\ \E asEod \in ManualEod : Starts("manual", asEod)
    /\ UNCHANGED <<streamVars, indexVars, worker, due, doomed, envVars, vouched>>

-----------------------------------------------------------------------------
\* capture_snapshot (jobs/capture.py).

Fetch(j) ==
    /\ At(j, "fetch")
    /\ job' = [job EXCEPT ![j].at = "store", ![j].chain = vendor]
    /\ UNCHANGED <<streamVars, indexVars, worker, due, doomed, envVars, vouched>>

\* The row a chain duplicates: its own timestamp's, or else the newest row if that
\* has the same content.
Existing(chain) ==
    IF book[chain.stamp] # NoBook
    THEN {chain.stamp}
    ELSE {s \in Latest : book[s] = chain.book}

\* Mutant: the EOD capture of a chain that is stored already leaves its row as it is.
DuplicateUnpromoted(j) ==
    /\ At(j, "store")
    /\ \E s \in Existing(job[j].chain) :
        job' = [job EXCEPT ![j].at = "levels", ![j].chain = [stamp |-> s, book |-> book[s]]]
    /\ VouchIfEod(j)
    /\ UNCHANGED <<streamVars, indexVars, worker, due, doomed, envVars>>

\* Mutant: a duplicate's levels are taken to be there.
DuplicateHasLevels(j) ==
    /\ At(j, "store")
    /\ \E s \in Existing(job[j].chain) :
        /\ eod' = IF job[j].eod THEN eod \cup {s} ELSE eod
        /\ job' = [job EXCEPT ![j].at = "publish", ![j].chain = [stamp |-> s, book |-> book[s]]]
    /\ VouchIfEod(j)
    /\ UNCHANGED <<streamVars, book, levels, strikes, worker, due, doomed, envVars>>

\* _persist_sync skips the write; an EOD capture promotes the row it found.
Duplicate(j) ==
    /\ At(j, "store")
    /\ \E s \in Existing(job[j].chain) :
        /\ eod' = IF job[j].eod THEN eod \cup {s} ELSE eod
        /\ job' = [job EXCEPT ![j].at = "levels", ![j].chain = [stamp |-> s, book |-> book[s]]]
    /\ VouchIfEod(j)
    /\ UNCHANGED <<streamVars, book, levels, strikes, worker, due, doomed, envVars>>

\* Nothing like it is stored: the file is written, and the row comes next.
Fresh(j) ==
    /\ At(j, "store")
    /\ Existing(job[j].chain) = {}
    /\ Goes(j, "insert")
    /\ UNCHANGED <<streamVars, indexVars, worker, due, doomed, envVars, vouched>>

Insert(j) ==
    /\ At(j, "insert")
    /\ LET chain == job[j].chain
       IN  /\ book[chain.stamp] = NoBook
           /\ book' = [book EXCEPT ![chain.stamp] = chain.book]
           /\ eod' = IF job[j].eod THEN eod \cup {chain.stamp} ELSE eod
    /\ Goes(j, "levels")
    /\ VouchIfEod(j)
    /\ UNCHANGED <<streamVars, levels, strikes, worker, due, doomed, envVars>>

\* Another job inserted the timestamp since: uq_snapshots_underlying_captured_at.
LostRace(j) ==
    /\ At(j, "insert")
    /\ book[job[j].chain.stamp] # NoBook
    /\ Ends(j)
    /\ UNCHANGED <<streamVars, indexVars, worker, due, doomed, envVars, vouched>>

\* CaptureResult(ok=False): the vendor, the disk or the database failed.
CaptureFails(j) ==
    /\ \/ At(j, "fetch") /\ Fault("vendor")
       \/ At(j, "store") /\ Fault("store")
       \/ At(j, "insert") /\ Fault("store")
    /\ Ends(j)
    /\ UNCHANGED <<streamVars, indexVars, worker, due, doomed, clock, vendor, vouched>>

\* compute_and_store replaces the row's levels and strikes in one transaction.
ComputeLevels(j) ==
    /\ At(j, "levels")
    /\ levels' = levels \cup {job[j].chain.stamp}
    /\ strikes' = strikes \cup {job[j].chain.stamp}
    /\ Goes(j, "publish")
    /\ UNCHANGED <<streamVars, book, eod, worker, due, doomed, envVars, vouched>>

\* The engine fails, or the levels another job committed meanwhile are in the way
\* (uq_gex_levels_snapshot_filter): logged, the capture stays a success.
LevelsFail(j) ==
    /\ At(j, "levels")
    /\ \/ Fault("engine")
       \/ /\ \E k \in Jobs : At(k, "publish") /\ job[k].chain = job[j].chain
          /\ UNCHANGED faults
    /\ Ends(j)
    /\ UNCHANGED <<streamVars, indexVars, worker, due, doomed, clock, vendor, vouched>>

\* broker.publish, in the process the capture runs in: the tabs are subscribers of
\* the API's broker, and the worker's has none.
Publish(j) ==
    /\ At(j, "publish")
    /\ IF j = "manual" THEN Deliver(job[j].chain.stamp) ELSE UNCHANGED streamVars
    /\ Ends(j)
    /\ UNCHANGED <<indexVars, worker, due, doomed, envVars, vouched>>

-----------------------------------------------------------------------------
\* The prune (jobs/retention.py) and the repair (gex/backfill.py).

\* Mutant: every old row is stale.
StaleByAge == {s \in strikes : Taken(s) + Keep < clock}

Stale == {s \in strikes \ eod : Taken(s) + Keep < clock}

PruneReads ==
    /\ Begins("prune")
    /\ doomed' = Stale
    /\ Goes("prune", "delete")
    /\ UNCHANGED <<streamVars, indexVars, worker, envVars, vouched>>

PruneDeletes ==
    /\ At("prune", "delete")
    /\ strikes' = strikes \ doomed
    /\ doomed' = {}
    /\ Ends("prune")
    /\ UNCHANGED <<streamVars, book, eod, levels, worker, due, envVars, vouched>>

\* A command a person runs, with or without --recompute: one row at a time.
Backfill ==
    /\ Repairs
    /\ \E s \in Rows : levels' = levels \cup {s} /\ strikes' = strikes \cup {s}
    /\ UNCHANGED <<streamVars, book, eod, workVars, envVars, vouched>>

-----------------------------------------------------------------------------
\* The processes.

\* run: the scheduler starts and the catch-up is fired beside it.
Boot ==
    /\ worker = "down"
    /\ worker' = "up"
    /\ due' = {"boot"}
    /\ UNCHANGED <<streamVars, indexVars, job, doomed, envVars, vouched>>

\* The job store is memory: what had fired is forgotten.
WorkerDies ==
    /\ worker = "up"
    /\ Fault("crash")
    /\ worker' = "down"
    /\ due' = {}
    /\ job' = [j \in Jobs |-> IF j \in WorkerJobs THEN Off ELSE job[j]]
    /\ doomed' = {}
    /\ UNCHANGED <<streamVars, indexVars, clock, vendor, vouched>>

ApiDies ==
    /\ Fault("crash")
    /\ DropAll
    /\ Ends("manual")
    /\ UNCHANGED <<indexVars, worker, due, doomed, clock, vendor, vouched>>

\* The host sleeps between two jobs.
Sleep ==
    /\ worker = "up"
    /\ due = {}
    /\ \A j \in WorkerJobs : ~Running(j)
    /\ Fault("sleep")
    /\ worker' = "asleep"
    /\ UNCHANGED <<streamVars, indexVars, due, job, doomed, clock, vendor, vouched>>

\* On waking the captures that fell due run, once each, however late
\* (misfire_grace_time=None); a late intraday slot or prune is dropped.
Wake ==
    /\ worker = "asleep"
    /\ worker' = "up"
    /\ due' = due \ {"intraday", "prune"}
    /\ UNCHANGED <<streamVars, indexVars, job, doomed, envVars, vouched>>

-----------------------------------------------------------------------------
\* The environment.

\* build_scheduler: what fires when a phase begins.
Fires(t) ==
    CASE t % 3 = 0 -> {"intraday"}
      [] t % 3 = 1 -> {"eod"}
      [] t % 3 = 2 -> {"net", "prune"}

\* A job ends within the phase it began in, but for one that runs from the session
\* into the evening; a process that is up begins what has fired.  The book moves
\* when a session begins.
Advance ==
    /\ clock < MaxTime
    /\ Session(clock) \/ \A j \in Jobs : ~Running(j)
    /\ worker = "up" => due = {}
    /\ clock' = clock + 1
    /\ due' = IF worker = "down" THEN due ELSE due \cup Fires(clock')
    /\ vendor' = IF Open(clock')
                 THEN [stamp |-> FirstStamp(clock'), book |-> FirstStamp(clock')]
                 ELSE vendor
    /\ UNCHANGED <<streamVars, indexVars, worker, job, doomed, faults, vouched>>

\* The vendor stamps a chain anew; only in a session need it be another one.
Refresh ==
    /\ vendor.stamp < LastStamp(clock)
    /\ LET next == IF vendor.stamp < FirstStamp(clock) THEN FirstStamp(clock) ELSE vendor.stamp + 1
       IN  \E b \in (IF Open(clock) THEN {vendor.book, next} ELSE {vendor.book}) :
               vendor' = [stamp |-> next, book |-> b]
    /\ UNCHANGED <<streamVars, indexVars, workVars, clock, faults, vouched>>

TabSteps ==
    /\ \/ \E s \in NewestLevels : Subscribe(s) \/ Refetch(s)
       \/ Unsubscribe
    /\ UNCHANGED <<indexVars, workVars, envVars, vouched>>

-----------------------------------------------------------------------------
JobStep(j) ==
    \/ BeginCapture(j) \/ CatchUpTooEarly(j) \/ CatchUpNoop(j) \/ CatchUpFires(j)
    \/ Fetch(j) \/ Duplicate(j) \/ Fresh(j) \/ Insert(j) \/ LostRace(j) \/ CaptureFails(j)
    \/ ComputeLevels(j) \/ LevelsFail(j) \/ Publish(j)

Next ==
    \/ \E j \in Jobs : JobStep(j)
    \/ ManualCapture \/ PruneReads \/ PruneDeletes \/ Backfill
    \/ Boot \/ WorkerDies \/ ApiDies \/ Sleep \/ Wake
    \/ Advance \/ Refresh \/ TabSteps

Spec == Init /\ [][Next]_vars

-----------------------------------------------------------------------------
\* A close that an EOD capture reported stored, or that the catch-up found nothing
\* missing of, is in a row that readers of the day's close will find: the vendor has
\* no history, so a close nobody kept is gone.
CloseIsKept == \A b \in vouched : \E s \in eod : book[s] = b

\* The snapshot an event names has its levels: a tab that fetches at once finds them.
EventHasLevels ==
    \A t \in Subscribed : \A i \in DOMAIN queue[t] : queue[t][i] \in levels

\* An EOD row keeps the strikes its levels came with.
EodKeepsStrikes == eod \cap levels \subseteq strikes

\* A tab that has taken every event shows the newest levels, unless a capture is
\* about to publish them.
TabSeesLevels ==
    \A t \in Subscribed :
        \/ queue[t] # <<>>
        \/ view[t] \in NewestLevels
        \/ \E j \in Jobs : job[j].at = "publish" /\ job[j].chain.stamp \in NewestLevels

=============================================================================
