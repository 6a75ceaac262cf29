----------------------------- MODULE ClockGate -----------------------------
(***************************************************************************)
(* The clock gate of the broker ingest (modules/broker/ingest.py and       *)
(* servertime.py): server time is converted with the New York close        *)
(* convention only while fresh quotes confirm it.                          *)
(*                                                                         *)
(* A measurement needs a tick that changed since the poll before, so the   *)
(* first poll after a start measures nothing.  A verdict is written when   *)
(* it changes and once every RecordEvery; what the gate then asks is the   *)
(* newest written verdict, and how old it is.                              *)
(*                                                                         *)
(* Two jobs ask it before they write: the minute job right after the poll, *)
(* the hour job with what the minute job left.  What they write is in      *)
(* BarWalk and TickFiles.                                                  *)
(***************************************************************************)
EXTENDS Integers

CONSTANTS
    TrustFor,      \* CLOCK_TRUST_DAYS
    RecordEvery,   \* CLOCK_RECORD_EVERY
    MaxChanges,    \* bound: restarts and changes of the broker's clock
    MaxClock       \* bound: where the clock stops

ASSUME GateAssumption ==
    /\ TrustFor \in Nat
    /\ RecordEvery \in Nat
    /\ MaxChanges \in Nat
    /\ MaxClock \in Nat

VARIABLES
    clock,    \* the hour
    follows,  \* whether the broker's clock follows the convention
    changes,  \* restarts and changes of the broker's clock so far
    check,    \* the newest row of broker.clock_checks
    gate,     \* ClockGate's fields: was a tick seen, the last verdict, when it was written
    jobs,     \* run_minute and the two run_hour (the start's and the scheduler's): who is writing
    measured,     \* history: the last measurement, and whether its row could not be written
    late      \* history: what was written although the last measurement disagreed

gateVars == <<clock, follows, changes, check, gate, jobs, measured, late>>

NoTime == -1
Verdicts == {"none", "agrees", "disagrees"}
FreshGate == [seen |-> FALSE, verdict |-> "none", recorded |-> NoTime]
Jobs == {"minute", "boot", "hour"}
Lates == [what : {"bars", "ticks"}, unwritten : BOOLEAN]

GateTypeOK ==
    /\ clock \in Nat /\ changes \in Nat
    /\ follows \in BOOLEAN
    /\ check \in [at : Int, verdict : Verdicts]
    /\ gate \in [seen : BOOLEAN, verdict : Verdicts, recorded : Int]
    /\ jobs \in [Jobs -> {"idle", "writing"}]
    /\ measured \in [verdict : Verdicts, unwritten : BOOLEAN]
    /\ late \subseteq Lates

GateInit ==
    /\ clock = 0 /\ changes = 0
    /\ follows \in BOOLEAN
    /\ check = [at |-> NoTime, verdict |-> "none"]
    /\ gate = FreshGate
    /\ jobs = [j \in Jobs |-> "idle"]
    /\ measured = [verdict |-> "none", unwritten |-> FALSE]
    /\ late = {}

-----------------------------------------------------------------------------
\* measure_offset of a tick that changed, against model_offset.
Measured == IF follows THEN "agrees" ELSE "disagrees"

\* What the poll of the quotes may come to: no answer, the same tick or a reading that is not
\* clean, or a tick that moved.
Readings == {"fails", "same", "moved"}

Verdict(reading) == IF reading = "moved" /\ gate.seen THEN Measured ELSE "none"

IsDue == gate.recorded = NoTime \/ clock - gate.recorded >= RecordEvery

\* A plausible bug: a verdict is written once an hour only.
RecordsHourly(verdict) == verdict # "none" /\ IsDue

Records(verdict) == verdict # "none" /\ (verdict # gate.verdict \/ IsDue)

\* allowed: the newest row agrees and is fresh enough.
Allows(row) == row.verdict = "agrees" /\ clock - row.at <= TrustFor

\* run_minute: the poll, its verdict written when it changed or is due, then the gate.
MinuteStarts(reading) ==
    LET verdict == Verdict(reading) IN
    /\ jobs["minute"] = "idle"
    /\ gate' = [seen |-> gate.seen \/ reading # "fails",
                verdict |-> IF verdict = "none" THEN gate.verdict ELSE verdict,
                recorded |-> IF Records(verdict) THEN clock ELSE gate.recorded]
    /\ check' = IF Records(verdict) THEN [at |-> clock, verdict |-> verdict] ELSE check
    /\ jobs' = IF Allows(check') THEN [jobs EXCEPT !["minute"] = "writing"] ELSE jobs
    /\ measured' = IF verdict = "none" THEN measured ELSE [verdict |-> verdict, unwritten |-> FALSE]
    /\ UNCHANGED <<clock, follows, changes, late>>

\* The row could not be written: the run is raised out of before it keeps its verdict, with the
\* tick remembered.
MinuteRaises ==
    /\ jobs["minute"] = "idle"
    /\ Records(Verdict("moved"))
    /\ measured' = [verdict |-> Measured, unwritten |-> TRUE]
    /\ UNCHANGED <<clock, follows, changes, check, gate, jobs, late>>

\* run_hour asks once, after the specs.
HourStarts(j) ==
    /\ j # "minute"
    /\ jobs[j] = "idle"
    /\ Allows(check)
    /\ jobs' = [jobs EXCEPT ![j] = "writing"]
    /\ UNCHANGED <<clock, follows, changes, check, gate, measured, late>>

\* A chunk of bars or an hour of ticks is converted and stored.
Writes(j) ==
    /\ jobs[j] = "writing"
    /\ late' = IF measured.verdict # "disagrees" THEN late
               ELSE late \cup {[what |-> IF j = "minute" THEN "bars" ELSE "ticks",
                               unwritten |-> measured.unwritten]}
    /\ UNCHANGED <<clock, follows, changes, check, gate, jobs, measured>>

Ends(j) ==
    /\ jobs[j] = "writing"
    /\ jobs' = [jobs EXCEPT ![j] = "idle"]
    /\ UNCHANGED <<clock, follows, changes, check, gate, measured, late>>

GateRestarts ==
    /\ changes < MaxChanges
    /\ changes' = changes + 1
    /\ gate' = FreshGate
    /\ jobs' = [j \in Jobs |-> "idle"]
    /\ UNCHANGED <<clock, follows, check, measured, late>>

BrokerChanges ==
    /\ changes < MaxChanges
    /\ changes' = changes + 1
    /\ follows' = ~follows
    /\ UNCHANGED <<clock, check, gate, jobs, measured, late>>

Tick ==
    /\ clock < MaxClock
    /\ clock' = clock + 1
    /\ UNCHANGED <<follows, changes, check, gate, jobs, measured, late>>

GateNext ==
    \/ \E reading \in Readings : MinuteStarts(reading)
    \/ MinuteRaises
    \/ \E j \in Jobs : HourStarts(j) \/ Writes(j) \/ Ends(j)
    \/ GateRestarts \/ BrokerChanges \/ Tick

GateSpec == GateInit /\ [][GateNext]_gateVars

-----------------------------------------------------------------------------
\* Properties.

\* No bar is converted while the last measurement is a disagreement that could be written down,
\* whichever process made it: though the gate reads rows that are written only when the verdict
\* changes or an hour has passed, and forgets its last verdict at a restart.
BarsNeedAgreement == [what |-> "bars", unwritten |-> FALSE] \notin late

\* "A disagreement stops all bar and tick writes until a measurement agrees again" (ingest.py:9),
\* for bars: not so when its row could not be written.  The verdict is kept after the commit, so
\* the run that raised leaves the old agreement behind, and the next poll without a measurement,
\* or the next process, lets bars be written.
DisagreementStopsBars == \A l \in late : l.what # "bars"

\* The same of ticks, whose job asks once: not so even when every row is written.
DisagreementStopsTicks == \A l \in late : l.what # "ticks"

\* What the gate trusts is what was measured last: after a run of the minute job that measured,
\* the newest row says so.
RowIsLastVerdict == gate.verdict # "none" => check.verdict = gate.verdict
=============================================================================
