------------------------------ MODULE Executor ------------------------------
(***************************************************************************)
(* The executor (modules/broker/executor.py, workers/executor.py): the one *)
(* process that places orders.  Every 20 seconds a tick writes the legs of *)
(* yesterday's and today's sessions to the journal (broker.order_intents), *)
(* reads the legs that are due and carries them out one after the other.   *)
(*                                                                         *)
(* A tick awaits the bridge many times.  Between two awaits the clock      *)
(* moves, the broker's stop fires, a person edits the database, a commit   *)
(* fails (the tick raises) or the process dies, so a handler is cut where  *)
(* it awaits; the reads that lead to one request (positions, account,      *)
(* tick) are one step with it, since the bridge serves one at a time.      *)
(* A database commit is atomic with the step that makes it;                *)
(* what a step assigned without a commit is lost with the session, so it   *)
(* has no variable.                                                        *)
(*                                                                         *)
(* Kinds of strategy: a "fixed" one schedules an open and a close leg per  *)
(* session (GoldAsiaDrift), a "daily" one a decide leg that writes the     *)
(* open or the close it calls for (NasMeanReversion).  "h4" strategies     *)
(* (Nas4hAtr3) decide in ExecutorH4, which extends this module.            *)
(***************************************************************************)
EXTENDS Bridge, FiniteSets

CONSTANTS
    Volumes,        \* the lot sizes the settings may name
    Kind,           \* the kind of each strategy
    PhasesPerDay,   \* the clock counts phases of a day
    OpenPhase,      \* the phase in which a fixed open leg is due
    ClosePhase,     \* the next day's phase in which a fixed close leg is due
    DecidePhase,    \* the phase in which a decide leg is due
    EntryWindow,    \* phases after its due phase in which an open is still sent
    DecideWindow,   \* ... and in which a decision is still made
    DisasterStop,   \* the level of the stop a fixed or daily open carries
    MaxStreak,      \* the losing streak that trips the kill rule
    Configs,        \* the settings a start of the process may read
    FaultKinds,     \* the faults that may happen
    MaxFaults,      \* bound: how many faults happen
    BarTimes,       \* bound: the phases whose bars a decision looks for
    MaxTime         \* bound: where the clock stops

ASSUME ExecutorAssumption ==
    /\ Strategies # {}
    /\ Sessions # {}
    /\ Volumes \subseteq Nat
    /\ Kind \in [Strategies -> {"fixed", "daily", "h4"}]
    /\ PhasesPerDay \in Nat \ {0}
    /\ {OpenPhase, ClosePhase, DecidePhase, EntryWindow, DecideWindow} \subseteq Nat
    /\ DisasterStop \in Levels
    /\ MaxStreak \in Nat \ {0}
    /\ Configs # {}
    /\ Configs \subseteq [enabled : BOOLEAN, strategies : SUBSET Strategies,
                          volume : Volumes, cap : Volumes]
    /\ \A c \in Configs : c.volume <= c.cap
    /\ FaultKinds \subseteq {"crash", "raise", "refuse", "silent", "deaf", "stop"}
    /\ MaxFaults \in Nat
    /\ BarTimes \subseteq Nat
    /\ MaxTime \in Nat

VARIABLES
    clock,        \* the wall clock, in phases
    bars,         \* the phases whose M1 bars broker.bars has
    journal,      \* broker.order_intents, by key
    paused,       \* broker.strategy_state: "no", or who paused the strategy
    config,       \* the settings the running process was started with
    pc,           \* where the tick is
    now,          \* the instant the tick was given when it started
    due,          \* the due rows the tick has read and not yet reached
    cur,          \* the row the tick works on
    todo,         \* the positions a close has listed and not yet closed
    nextTicket,   \* the ticket of the next order
    beat,         \* broker.executor_heartbeat
    faults,       \* faults so far
    told,         \* history: the tickets a person was told about
    old           \* history: the closes a person's resume left behind

dbVars == <<journal, paused, beat>>
tickVars == <<pc, now, due, cur, todo>>
envVars == <<clock, bars, config, nextTicket, faults>>
historyVars == <<told, old>>
vars == <<bridgeVars, dbVars, tickVars, envVars, historyVars>>

-----------------------------------------------------------------------------
\* The journal.

Key == [strat : Strategies, session : Sessions,
        leg : {"decide", "open", "close", "modify", "stopped"}]

\* Where the tick's locals rest between two ticks.
NoKey == CHOOSE k \in Key : TRUE

Final == {"filled", "rejected", "expired", "skipped", "decided"}

Row == [status : {"absent", "pending"} \cup Final, due : Nat, volume : Nat,
        sl : Levels, ticket : Nat, pnl : {"none", "win", "loss"}]

NoTicket == 0

PendingRow(at, vol) == [status |-> "pending", due |-> at, volume |-> vol,
                        sl |-> DisasterStop, ticket |-> NoTicket, pnl |-> "none"]

Absent == [PendingRow(0, 0) EXCEPT !.status = "absent"]

\* OrderIntent.action: a broker's stop-out is journalled as a close.
Action(k) == IF k.leg = "stopped" THEN "close" ELSE k.leg

RowsOf(s, action, status) ==
    {k \in Key : k.strat = s /\ Action(k) = action /\ journal[k].status \in status}

Written == {"pending"} \cup Final
FilledOpens(s) == RowsOf(s, "open", {"filled"})

\* Mutant: only a close still to come counts, not one that is done.
ClosedIsHeld(s) ==
    \E o \in FilledOpens(s) :
        \A c \in RowsOf(s, "close", {"pending"}) : journal[c].due <= journal[o].due

\* Executor.holding: a filled open with no close row, of any status, due after it.
Holding(s) ==
    \E o \in FilledOpens(s) :
        \A c \in RowsOf(s, "close", Written) : journal[c].due <= journal[o].due

\* Executor._opening: the opens a close can belong to; at most one.
Opening(k) ==
    LET same == [k EXCEPT !.leg = "open"]
        before == {o \in FilledOpens(k.strat) : journal[o].due < journal[k].due}
    IN  IF k.leg = "close" /\ journal[same].status # "absent"
        THEN {same}
        ELSE {o \in before : \A x \in before : journal[x].due <= journal[o].due}

OpeningFilled(k) == \E o \in Opening(k) : journal[o].status = "filled"

\* Executor.closed_trades, and the losing streak every kill(trades) counts.
ClosedTrades(s) == {k \in RowsOf(s, "close", {"filled"}) : journal[k].pnl # "none"}

Losing(trades) ==
    {k \in trades : \A j \in trades :
        journal[j].due >= journal[k].due => journal[j].pnl = "loss"}

Tripped(trades) == Cardinality(Losing(trades)) >= MaxStreak

-----------------------------------------------------------------------------
\* Sessions and time.

Day(t) == t \div PhasesPerDay

\* The legs a strategy schedules, and when each is due.
Leg(s) == IF Kind[s] = "fixed" THEN {"open", "close"} ELSE {"decide"}

DueAt(k) ==
    CASE k.leg = "open"   -> k.session * PhasesPerDay + OpenPhase
      [] k.leg = "close"  -> (k.session + 1) * PhasesPerDay + ClosePhase
      [] OTHER            -> k.session * PhasesPerDay + DecidePhase

Expired(k) ==
    now > journal[k].due + (IF k.leg = "decide" THEN DecideWindow ELSE EntryWindow)

\* The keys Executor.schedule writes at instant t: yesterday's and today's, if absent.
Unwritten(t) ==
    {k \in Key : /\ k.strat \in config.strategies
                 /\ k.leg \in Leg(k.strat)
                 /\ Day(t) \in {k.session, k.session + 1}
                 /\ journal[k].status = "absent"}

Scheduled(keys) ==
    [k \in Key |-> IF k \in keys THEN PendingRow(DueAt(k), config.volume) ELSE journal[k]]

-----------------------------------------------------------------------------
DbTypeOK ==
    /\ journal \in [Key -> Row]
    /\ paused \in [Strategies -> {"no", "person", "kill"}]
    /\ beat \in Nat

TickTypeOK ==
    /\ pc \in {"down", "idle", "next", "leg", "opening", "ordering", "closing",
               "kill", "trailing", "stopped", "flat"}
    /\ now \in Nat
    /\ due \subseteq Key
    /\ cur \in Key
    /\ todo \subseteq Position

EnvTypeOK ==
    /\ clock \in Nat
    /\ bars \subseteq BarTimes
    /\ config \in Configs
    /\ nextTicket \in Nat \ {0}
    /\ faults \in Nat

HistoryTypeOK ==
    /\ told \subseteq Nat
    /\ old \subseteq Key

TypeOK == BridgeTypeOK /\ DbTypeOK /\ TickTypeOK /\ EnvTypeOK /\ HistoryTypeOK

Init ==
    /\ BridgeInit
    /\ clock = 0
    /\ bars = {}
    /\ config \in Configs
    /\ journal = [k \in Key |-> Absent]
    /\ paused = [s \in Strategies |-> "no"]
    /\ pc = "down"
    /\ now = 0
    /\ due = {}
    /\ cur = NoKey
    /\ todo = {}
    /\ nextTicket = 1
    /\ beat = 0
    /\ faults = 0
    /\ told = {}
    /\ old = {}

-----------------------------------------------------------------------------
\* Steps shared by the handlers.

Finish(status) == journal' = [journal EXCEPT ![cur].status = status]

\* On to the next due row: `for intent in due`.
Onward ==
    /\ pc' = "next"
    /\ cur' = NoKey
    /\ UNCHANGED <<now, due>>

Rest(place) ==
    /\ pc' = place
    /\ now' = 0
    /\ due' = {}
    /\ cur' = NoKey
    /\ todo' = {}

Fault(kind) ==
    /\ kind \in FaultKinds
    /\ faults < MaxFaults
    /\ faults' = faults + 1

At(place, leg) == pc = place /\ cur.leg = leg /\ cur.strat \in config.strategies

\* A handler ends by finishing its row, with nothing sent.
FinishRow(status) ==
    /\ Finish(status)
    /\ Onward
    /\ UNCHANGED <<bridgeVars, paused, beat, todo, clock, bars, config, nextTicket, old>>

\* A handler leaves its row as it is.
LeaveRow ==
    /\ Onward
    /\ todo' = {}
    /\ UNCHANGED <<dbVars, clock, bars, config, nextTicket, historyVars>>

-----------------------------------------------------------------------------
\* The tick.

\* Executor.tick: schedule the legs, then read the due rows once.
Tick ==
    /\ pc = "idle"
    /\ journal' = Scheduled(Unwritten(clock))
    /\ now' = clock
    /\ due' = {k \in Key : journal'[k].status = "pending" /\ journal'[k].due <= clock}
    /\ pc' = "next"
    /\ UNCHANGED <<bridgeVars, paused, beat, cur, todo, envVars, historyVars>>

\* Executor.schedule commits leg by leg: a crash or a failed commit leaves a part.
ScheduleDies ==
    /\ pc = "idle"
    /\ \E keys \in SUBSET Unwritten(clock) : journal' = Scheduled(keys)
    /\ \/ Fault("crash") /\ pc' = "down"
       \/ Fault("raise") /\ pc' = "idle"
    /\ UNCHANGED <<bridgeVars, paused, beat, now, due, cur, todo,
                   clock, bars, config, nextTicket, historyVars>>

\* The rows are taken in the order they fell due.
NextLeg ==
    /\ pc = "next"
    /\ \E k \in due :
        /\ \A j \in due : journal[k].due <= journal[j].due
        /\ cur' = k
        /\ due' = due \ {k}
    /\ pc' = "leg"
    /\ UNCHANGED <<bridgeVars, dbVars, now, todo, envVars, historyVars>>

\* A row whose strategy is no longer in EXECUTOR_STRATEGIES, its close included.
SkipUnlisted ==
    /\ pc = "leg"
    /\ cur.strat \notin config.strategies
    /\ FinishRow("skipped")
    /\ UNCHANGED <<faults, told>>

\* Executor.heartbeat, last: a tick that raised does not beat.
EndTick ==
    /\ pc = "next"
    /\ due = {}
    /\ beat' = now
    /\ Rest("idle")
    /\ UNCHANGED <<bridgeVars, journal, paused, envVars, historyVars>>

-----------------------------------------------------------------------------
\* Executor._decide, for a "daily" strategy.

AtDaily == At("leg", "decide") /\ Kind[cur.strat] = "daily"

\* The bar of the instant the decision is due.
BarIn == journal[cur].due \in bars

\* Past the window nothing is decided any more.  Without its 16:00 bar the session
\* was a holiday ("skipped") or the bar is late ("expired").
DecideMissed ==
    /\ AtDaily
    /\ Expired(cur)
    /\ \/ FinishRow("expired")
       \/ ~BarIn /\ FinishRow("skipped")
    /\ UNCHANGED <<faults, told>>

DecideWaits ==
    /\ AtDaily
    /\ ~Expired(cur)
    /\ ~BarIn
    /\ LeaveRow
    /\ UNCHANGED <<bridgeVars, faults>>

Decidable == AtDaily /\ ~Expired(cur) /\ BarIn

DecideNothing ==
    /\ Decidable
    /\ FinishRow("decided")
    /\ UNCHANGED <<faults, told>>

\* The leg and the decision are one commit; the leg is then carried out at once.
DecideLeg ==
    /\ Decidable
    /\ LET leg == [cur EXCEPT !.leg = IF Holding(cur.strat) THEN "close" ELSE "open"]
       IN  /\ journal' = [journal EXCEPT ![leg] = PendingRow(now, config.volume),
                                         ![cur].status = "decided"]
           /\ cur' = leg
    /\ UNCHANGED <<bridgeVars, paused, beat, pc, now, due, todo, envVars, historyVars>>

-----------------------------------------------------------------------------
\* Executor._open.

\* Mutant: an open past its window is passed over, its row left pending.
OpenForgotten ==
    /\ At("leg", "open")
    /\ Expired(cur)
    /\ LeaveRow
    /\ UNCHANGED <<bridgeVars, faults>>

OpenExpires ==
    /\ At("leg", "open")
    /\ Expired(cur)
    /\ FinishRow("expired")
    /\ UNCHANGED <<faults, told>>

OpenPaused ==
    /\ At("leg", "open")
    /\ ~Expired(cur)
    /\ paused[cur.strat] # "no"
    /\ FinishRow("skipped")
    /\ UNCHANGED <<faults, told>>

\* The row was written under a larger EXECUTOR_VOLUME than the cap now allows.
OpenTooLarge ==
    /\ At("leg", "open")
    /\ ~Expired(cur)
    /\ paused[cur.strat] = "no"
    /\ journal[cur].volume > config.cap
    /\ FinishRow("rejected")
    /\ UNCHANGED <<faults, told>>

OpenDry ==
    /\ At("leg", "open")
    /\ ~Expired(cur)
    /\ paused[cur.strat] = "no"
    /\ journal[cur].volume <= config.cap
    /\ ~config.enabled
    /\ FinishRow("skipped")
    /\ UNCHANGED <<faults, told>>

\* Mutant: the pause is not looked at.
OpenThoughPaused ==
    /\ At("leg", "open")
    /\ ~Expired(cur)
    /\ journal[cur].volume <= config.cap
    /\ config.enabled
    /\ pc' = "opening"
    /\ UNCHANGED <<bridgeVars, dbVars, now, due, cur, todo, envVars, historyVars>>

\* Mutant: the cap is held against the settings' volume, not the row's.
OpenOverCap ==
    /\ At("leg", "open")
    /\ ~Expired(cur)
    /\ paused[cur.strat] = "no"
    /\ config.volume <= config.cap
    /\ config.enabled
    /\ pc' = "opening"
    /\ UNCHANGED <<bridgeVars, dbVars, now, due, cur, todo, envVars, historyVars>>

\* Everything the database and the settings can forbid is checked before the first
\* await, and not again after it.
OpenMay ==
    /\ At("leg", "open")
    /\ ~Expired(cur)
    /\ paused[cur.strat] = "no"
    /\ journal[cur].volume <= config.cap
    /\ config.enabled
    /\ pc' = "opening"
    /\ UNCHANGED <<bridgeVars, dbVars, now, due, cur, todo, envVars, historyVars>>

\* The bridge cannot list the positions, or name the account or the price.
OpenUnreadable ==
    /\ pc = "opening"
    /\ Fault("silent")
    /\ FinishRow("rejected")
    /\ UNCHANGED told

OpenTaken ==
    /\ pc = "opening"
    /\ BridgeReadable
    /\ PositionsOf(cur.strat) # {}
    /\ FinishRow("skipped")
    /\ UNCHANGED <<faults, told>>

\* Mutant: the order is sent without a look at the positions.
OpenSendBlind ==
    /\ pc = "opening"
    /\ BridgeReadable
    /\ Send("order", [ticket |-> nextTicket, strat |-> cur.strat,
                      session |-> cur.session, volume |-> journal[cur].volume,
                      sl |-> journal[cur].sl])
    /\ nextTicket' = nextTicket + 1
    /\ pc' = "ordering"
    /\ UNCHANGED <<positions, reply, dbVars, now, due, cur, todo,
                   clock, bars, config, faults, historyVars>>

\* Flat: the order goes out.  attempts and sent_at are not committed before it.
OpenSend ==
    /\ pc = "opening"
    /\ BridgeReadable
    /\ PositionsOf(cur.strat) = {}
    /\ Send("order", [ticket |-> nextTicket, strat |-> cur.strat,
                      session |-> cur.session, volume |-> journal[cur].volume,
                      sl |-> journal[cur].sl])
    /\ nextTicket' = nextTicket + 1
    /\ pc' = "ordering"
    /\ UNCHANGED <<positions, reply, dbVars, now, due, cur, todo,
                   clock, bars, config, faults, historyVars>>

\* The fill is written to the row the order came from.
OpenFilled ==
    /\ pc = "ordering"
    /\ reply = "done"
    /\ journal' = [journal EXCEPT
         ![cur] = [@ EXCEPT !.status = "filled", !.ticket = nextTicket - 1]]
    /\ reply' = "none"
    /\ Onward
    /\ UNCHANGED <<positions, inbox, paused, beat, todo, envVars, historyVars>>

\* Mutant: no one is told of the rejection.
OpenRejectedQuietly ==
    /\ pc = "ordering"
    /\ \/ reply = "error" /\ UNCHANGED faults
       \/ reply # "error" /\ Fault("silent")
    /\ Finish("rejected")
    /\ HangUp
    /\ Onward
    /\ UNCHANGED <<positions, paused, beat, todo, clock, bars, config, nextTicket, historyVars>>

\* The bridge refused, or its answer did not come: BridgeError either way.  The
\* person is told that the open was rejected.
OpenRejected ==
    /\ pc = "ordering"
    /\ \/ reply = "error" /\ UNCHANGED faults
       \/ reply # "error" /\ Fault("silent")
    /\ Finish("rejected")
    /\ told' = told \cup {nextTicket - 1}
    /\ HangUp
    /\ Onward
    /\ UNCHANGED <<positions, paused, beat, todo, clock, bars, config, nextTicket, old>>

-----------------------------------------------------------------------------
\* Executor._close and Executor._check_kill.

\* Mutant: a bridge that does not answer reads as a strategy with no position.
SilentMeansFlat ==
    /\ At("leg", "close")
    /\ Fault("silent")
    /\ FinishRow("skipped")
    /\ UNCHANGED told

\* _retry: the row stays pending and the next tick tries again.
CloseUnreadable ==
    /\ At("leg", "close")
    /\ Fault("silent")
    /\ LeaveRow
    /\ UNCHANGED bridgeVars

CloseNothing ==
    /\ At("leg", "close")
    /\ BridgeReadable
    /\ PositionsOf(cur.strat) = {}
    /\ FinishRow("skipped")
    /\ UNCHANGED <<faults, told>>

\* EXECUTOR_ENABLED is false: the position is left open, the row pending.
CloseDry ==
    /\ At("leg", "close")
    /\ BridgeReadable
    /\ PositionsOf(cur.strat) # {}
    /\ ~config.enabled
    /\ LeaveRow
    /\ UNCHANGED <<bridgeVars, faults>>

\* Every listed position is closed, one request at a time, in the order listed.
FirstOf(listed, p) == p \in listed /\ \A q \in listed : p.ticket <= q.ticket

CloseStart ==
    /\ At("leg", "close")
    /\ BridgeReadable
    /\ config.enabled
    /\ todo' = PositionsOf(cur.strat)
    /\ \E p \in todo' : FirstOf(todo', p) /\ Send("close", p)
    /\ pc' = "closing"
    /\ UNCHANGED <<positions, reply, dbVars, now, due, cur, envVars, historyVars>>

CloseAnother ==
    /\ pc = "closing"
    /\ reply = "done"
    /\ \E p \in todo : FirstOf(todo, p) /\ todo' = todo \ {p}
    /\ \E p \in todo' : FirstOf(todo', p) /\ Send("close", p)
    /\ reply' = "none"
    /\ UNCHANGED <<positions, dbVars, pc, now, due, cur, envVars, historyVars>>

\* All closed: the row is filled, with the round trip's result when the open it
\* belongs to was filled.  The kill rule is checked after this commit.
CloseFilled ==
    /\ pc = "closing"
    /\ reply = "done"
    /\ \E last \in todo, pnl \in {"none", "win", "loss"} :
        /\ todo = {last}
        /\ (pnl # "none") = OpeningFilled(cur)
        /\ journal' = [journal EXCEPT
             ![cur] = [@ EXCEPT !.status = "filled", !.pnl = pnl, !.ticket = last.ticket]]
    /\ reply' = "none"
    /\ todo' = {}
    /\ pc' = "kill"
    /\ UNCHANGED <<positions, inbox, paused, beat, now, due, cur, envVars, historyVars>>

\* Mutant: a close that fails is final.
CloseGivesUp ==
    /\ pc = "closing"
    /\ \/ reply = "error" /\ UNCHANGED faults
       \/ reply # "error" /\ Fault("silent")
    /\ HangUp
    /\ Finish("rejected")
    /\ Onward
    /\ todo' = {}
    /\ UNCHANGED <<positions, paused, beat, clock, bars, config, nextTicket, historyVars>>

CloseRejected ==
    /\ pc = "closing"
    /\ \/ reply = "error" /\ UNCHANGED faults
       \/ reply # "error" /\ Fault("silent")
    /\ HangUp
    /\ LeaveRow
    /\ UNCHANGED positions

\* Executor._check_kill: a commit of its own, after the close's.
CheckKill ==
    /\ pc = "kill"
    /\ paused' = IF Tripped(ClosedTrades(cur.strat))
                 THEN [paused EXCEPT ![cur.strat] = "kill"]
                 ELSE paused
    /\ Onward
    /\ UNCHANGED <<bridgeVars, journal, beat, todo, envVars, historyVars>>

-----------------------------------------------------------------------------
\* The process.

\* Executor.reconcile's `covered`: a pending close, or a decision to come.
Covered(s) ==
    \/ RowsOf(s, "close", {"pending"}) # {}
    \/ Kind[s] # "fixed" /\ Holding(s)

\* workers/executor.py main: reconcile reports the positions nothing covers.  When
\* the bridge does not answer at boot, there is no reconcile.
Boot ==
    /\ pc = "down"
    /\ config' \in Configs
    /\ \/ /\ BridgeReadable
          /\ told' = told \cup {p.ticket : p \in {q \in positions :
                         q.strat \in config'.strategies /\ ~Covered(q.strat)}}
          /\ UNCHANGED faults
       \/ /\ Fault("deaf")
          /\ UNCHANGED told
    /\ pc' = "idle"
    /\ UNCHANGED <<bridgeVars, dbVars, now, due, cur, todo, clock, bars, nextTicket, old>>

\* The process dies, in a tick or between two.
Crash ==
    /\ pc # "down"
    /\ Fault("crash")
    /\ Rest("down")
    /\ HangUp
    /\ UNCHANGED <<positions, dbVars, clock, bars, config, nextTicket, historyVars>>

\* The tick raises (a commit fails): run() logs it, the session rolls back.
TickRaises ==
    /\ pc \notin {"down", "idle"}
    /\ Fault("raise")
    /\ Rest("idle")
    /\ HangUp
    /\ UNCHANGED <<positions, dbVars, clock, bars, config, nextTicket, historyVars>>

-----------------------------------------------------------------------------
\* The environment.

Serve ==
    /\ \E r \in inbox : FillOrder(r) \/ ClosePosition(r) \/ MoveStop(r) \/ KeepStop(r) \/ PositionGone(r)
    /\ UNCHANGED <<dbVars, tickVars, envVars, historyVars>>

Rejects ==
    /\ \E r \in inbox : Refuse(r)
    /\ Fault("refuse")
    /\ UNCHANGED <<dbVars, tickVars, clock, bars, config, nextTicket, historyVars>>

Stopped ==
    /\ \E p \in positions : StopOut(p)
    /\ Fault("stop")
    /\ UNCHANGED <<dbVars, tickVars, clock, bars, config, nextTicket, historyVars>>

\* Broker ingest writes the M1 bars of a phase that has begun, or never does: it reads
\* forward from the newest stored bar (Ingest.bars_forward).
BarArrives ==
    /\ \E t \in BarTimes :
        /\ t <= clock
        /\ \A u \in bars : u < t
        /\ bars' = bars \cup {t}
    /\ UNCHANGED <<bridgeVars, dbVars, tickVars, clock, config, nextTicket, faults, historyVars>>

\* Time passes.  A tick overruns into the next phase at most, and a request no one
\* waits on any more is carried out or lost before the phase ends.
Advance ==
    /\ clock < MaxTime
    /\ pc \in {"down", "idle"} \/ clock = now
    /\ \A r \in inbox : r.waiting
    /\ clock' = clock + 1
    /\ UNCHANGED <<bridgeVars, dbVars, tickVars, bars, config, nextTicket, faults, historyVars>>

\* A person pauses or resumes a strategy, in SQL.
PersonPauses(s) ==
    /\ paused[s] = "no"
    /\ paused' = [paused EXCEPT ![s] = "person"]
    /\ UNCHANGED old

PersonResumes(s) ==
    /\ paused[s] # "no"
    /\ paused' = [paused EXCEPT ![s] = "no"]
    /\ old' = old \cup ClosedTrades(s)

Person ==
    /\ \E s \in Strategies : PersonPauses(s) \/ PersonResumes(s)
    /\ UNCHANGED <<bridgeVars, journal, beat, tickVars, envVars, told>>

-----------------------------------------------------------------------------
Decide == DecideMissed \/ DecideWaits \/ DecideNothing \/ DecideLeg

Open ==
    \/ OpenExpires \/ OpenPaused \/ OpenTooLarge \/ OpenDry \/ OpenMay
    \/ OpenUnreadable \/ OpenTaken \/ OpenSend \/ OpenFilled \/ OpenRejected

Close ==
    \/ CloseUnreadable \/ CloseNothing \/ CloseDry \/ CloseStart \/ CloseAnother
    \/ CloseFilled \/ CloseRejected \/ CheckKill

Process ==
    \/ Tick \/ NextLeg \/ SkipUnlisted \/ EndTick
    \/ Decide \/ Open \/ Close \/ Boot

Failures == ScheduleDies \/ Crash \/ TickRaises \/ Rejects \/ Stopped

Next == Process \/ Failures \/ Serve \/ BarArrives \/ Advance \/ Person

Spec == Init /\ [][Next]_vars

\* The scheduler keeps starting ticks and the process is restarted, the terminal
\* works off what it was sent, and time goes on.
Fairness == WF_vars(Process) /\ WF_vars(Serve) /\ WF_vars(Advance)

FairSpec == Spec /\ Fairness

-----------------------------------------------------------------------------
\* At most one position per strategy, whatever fails and wherever a restart falls:
\* the bridge lists the strategy's positions before every order (_open).
OnePosition == \A p, q \in positions : p.strat = q.strat => p = q

\* A fixed strategy's position always has a pending close leg to end it, even one
\* the journal does not know of (a lost answer, a crash after the order): a close
\* leg is written with its open, and ends only when nothing is left to close.
FixedIsCovered ==
    \A p \in positions :
        Kind[p.strat] = "fixed" => RowsOf(p.strat, "close", {"pending"}) # {}

\* A position that no close, decision or open row will come back to has been named
\* to a person: by "open REJECTED", or by the report at the next start.
OrphanIsTold ==
    \A p \in positions :
        \/ p.ticket \in told
        \/ Covered(p.strat)
        \/ RowsOf(p.strat, "open", {"pending"}) # {}
        \/ pc = "down"

\* The journal has a filled open for every position no order is in flight for.
PositionIsJournalled ==
    \A p \in positions :
        \/ \E o \in FilledOpens(p.strat) : journal[o].ticket = p.ticket
        \/ pc = "ordering" /\ p.ticket = nextTicket - 1

\* Every finished round trip of a fixed strategy is a closed trade the kill rules
\* see: a filled open whose close leg is done has a result.
RoundTripIsCounted ==
    \A s \in Strategies : Kind[s] = "fixed" =>
        \A o \in FilledOpens(s) :
            LET close == [o EXCEPT !.leg = "close"]
            IN  journal[close].status \in Final => journal[close].pnl # "none"

\* No order is at the bridge for a strategy whose closed trades, since a person
\* last resumed it, trip its kill rule.
KillStopsOrders ==
    \A r \in inbox : r.op = "order" => ~Tripped(ClosedTrades(r.pos.strat) \ old)

\* No position is larger than the cap the running process was started with allows,
\* at the moment its order is sent, whatever volume its row was written with.
OrderIsUnderCap ==
    [][\A r \in inbox' \ inbox : r.op = "order" => r.pos.volume <= config.cap]_vars

\* A close leg that has been written ends only when the strategy has no position.
CloseEndsFlat ==
    [][\A k \in Key :
        (k.leg = "close" /\ journal[k].status = "pending" /\ journal'[k].status # "pending")
            => PositionsOf(k.strat) = {}]_vars

\* A kill rule trips on the trades made since a person last resumed the strategy.
KillIsOnFreshSample ==
    [][\A s \in Strategies :
        (paused[s] # "kill" /\ paused'[s] = "kill") => Tripped(ClosedTrades(s) \ old)]_vars

\* A fixed strategy's position is always closed in the end.
FixedPositionEnds ==
    \A s \in Strategies : Kind[s] = "fixed" => (PositionsOf(s) # {}) ~> (PositionsOf(s) = {})

\* A leg that is due is always settled in the end: sent, skipped or expired.
DueLegSettles ==
    \A k \in Key : (journal[k].status = "pending" /\ journal[k].due <= clock)
                       ~> (journal[k].status \in Final)

=============================================================================
