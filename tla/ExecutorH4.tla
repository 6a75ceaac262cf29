----------------------------- MODULE ExecutorH4 -----------------------------
(***************************************************************************)
(* The executor with 4h strategies (Nas4hAtr3): Executor plus _decide_h4   *)
(* and what it calls.  A session is a 4h bin; its decide leg is due when   *)
(* the bin ends and is decided on the first bar after it.  The position's  *)
(* stop stays at the broker, is trailed by "modify" legs, and a position   *)
(* the stop has taken is journalled as a close by the next decision.       *)
(***************************************************************************)
EXTENDS Executor

CONSTANT ActWithin    \* phases after the next bar in which a decision is made

ASSUME ExecutorH4Assumption == ActWithin \in Nat

-----------------------------------------------------------------------------
AtH4 == At("leg", "decide") /\ Kind[cur.strat] = "h4"

\* first_bar(end): the bars at or after the end of the bin, and those in it.
NextBars == {t \in bars : t >= journal[cur].due}
BinBars == {t \in bars : t < journal[cur].due /\ t + PhasesPerDay >= journal[cur].due}

InTime == \E t \in NextBars : (\A u \in NextBars : t <= u) /\ now <= t + ActWithin

\* The strategy's latest filled open.
LastOpen(s) ==
    {o \in FilledOpens(s) : \A x \in FilledOpens(s) : journal[x].due <= journal[o].due}

\* Executor._stop_now: the stop as journalled, the latest filled modify's or the open's.
StopNow(o) ==
    LET trails == {m \in RowsOf(o.strat, "modify", {"filled"}) : journal[m].due > journal[o].due}
    IN  IF trails = {}
        THEN journal[o].sl
        ELSE LET last == CHOOSE m \in trails : \A x \in trails : journal[x].due <= journal[m].due
             IN  journal[last].sl

\* The leg a decision writes beside itself, in the same commit.
Write(leg, row) ==
    journal' = [journal EXCEPT ![[cur EXCEPT !.leg = leg]] = row, ![cur].status = "decided"]

-----------------------------------------------------------------------------
\* Executor._decide_h4, before the position is looked at.

H4Waits ==
    /\ AtH4
    /\ NextBars = {}
    /\ ~Expired(cur)
    /\ LeaveRow
    /\ UNCHANGED <<bridgeVars, faults>>

\* No bar after the bin in the whole window, or none in the bin: the market was shut.
H4Shut ==
    /\ AtH4
    /\ \/ NextBars = {} /\ Expired(cur)
       \/ NextBars # {} /\ BinBars = {}
    /\ FinishRow("skipped")
    /\ UNCHANGED <<faults, told>>

H4Late ==
    /\ AtH4
    /\ NextBars # {}
    /\ BinBars # {}
    /\ ~InTime
    /\ FinishRow("expired")
    /\ UNCHANGED <<faults, told>>

H4Decidable == AtH4 /\ BinBars # {} /\ InTime

-----------------------------------------------------------------------------
\* Executor._held and Executor._stopped.

H4Unreadable ==
    /\ H4Decidable
    /\ Holding(cur.strat)
    /\ Fault("silent")
    /\ LeaveRow
    /\ UNCHANGED bridgeVars

\* The journal has a position the broker has not: its stop closed it.  The close is
\* journalled, at the price the deals report, before the kill rule is checked.
H4StoppedOut ==
    /\ H4Decidable
    /\ BridgeReadable
    /\ PositionsOf(cur.strat) = {}
    /\ \E o \in LastOpen(cur.strat), pnl \in {"win", "loss"} :
        /\ Holding(cur.strat)
        /\ journal' = [journal EXCEPT ![[o EXCEPT !.leg = "stopped"]] =
             [PendingRow(now, journal[o].volume) EXCEPT
                !.status = "filled", !.ticket = journal[o].ticket, !.pnl = pnl]]
    /\ pc' = "stopped"
    /\ UNCHANGED <<bridgeVars, paused, beat, now, due, cur, todo, envVars, historyVars>>

H4StopKill ==
    /\ pc = "stopped"
    /\ paused' = IF Tripped(ClosedTrades(cur.strat))
                 THEN [paused EXCEPT ![cur.strat] = "kill"]
                 ELSE paused
    /\ pc' = "flat"
    /\ UNCHANGED <<bridgeVars, journal, beat, now, due, cur, todo, envVars, historyVars>>

-----------------------------------------------------------------------------
\* The decision.

H4Flat == pc = "flat" \/ (H4Decidable /\ ~Holding(cur.strat))

H4Held ==
    /\ H4Decidable
    /\ Holding(cur.strat)
    /\ BridgeReadable
    /\ PositionsOf(cur.strat) # {}

H4Nothing ==
    /\ H4Flat \/ H4Held
    /\ FinishRow("decided")
    /\ UNCHANGED <<faults, told>>

\* Flat and the entry is on: an open leg, its stop anchored at the candle's low.
H4Open ==
    /\ H4Flat
    /\ \E low \in Levels : Write("open", [PendingRow(now, config.volume) EXCEPT !.sl = low])
    /\ cur' = [cur EXCEPT !.leg = "open"]
    /\ pc' = "leg"
    /\ UNCHANGED <<bridgeVars, paused, beat, now, due, todo, envVars, historyVars>>

H4Close ==
    /\ H4Held
    /\ Write("close", PendingRow(now, config.volume))
    /\ cur' = [cur EXCEPT !.leg = "close"]
    /\ UNCHANGED <<bridgeVars, paused, beat, pc, now, due, todo, envVars, historyVars>>

\* The trail: a modify leg to a stop above the journalled one, sent once.
H4Trail ==
    /\ H4Held
    /\ \E o \in LastOpen(cur.strat), stop \in Levels, p \in PositionsOf(cur.strat) :
        /\ stop > StopNow(o)
        /\ Write("modify", [PendingRow(now, config.volume) EXCEPT
                              !.sl = stop, !.ticket = p.ticket,
                              !.status = IF config.enabled THEN "pending" ELSE "skipped"])
        /\ IF config.enabled
           THEN /\ Send("modify", [p EXCEPT !.sl = stop])
                /\ cur' = [cur EXCEPT !.leg = "modify"]
                /\ pc' = "trailing"
           ELSE /\ pc' = "next"
                /\ cur' = NoKey
                /\ UNCHANGED inbox
    /\ UNCHANGED <<positions, reply, paused, beat, now, due, todo, envVars, historyVars>>

TrailFilled ==
    /\ pc = "trailing"
    /\ reply = "done"
    /\ Finish("filled")
    /\ reply' = "none"
    /\ Onward
    /\ UNCHANGED <<positions, inbox, paused, beat, todo, envVars, historyVars>>

\* Mutant: the trail counts as made even when the bridge says it was not.
TrailTaken ==
    /\ pc = "trailing"
    /\ \/ reply = "error" /\ UNCHANGED faults
       \/ reply # "error" /\ Fault("silent")
    /\ Finish("filled")
    /\ HangUp
    /\ Onward
    /\ UNCHANGED <<positions, paused, beat, todo, clock, bars, config, nextTicket, historyVars>>

TrailRejected ==
    /\ pc = "trailing"
    /\ \/ reply = "error" /\ UNCHANGED faults
       \/ reply # "error" /\ Fault("silent")
    /\ Finish("rejected")
    /\ HangUp
    /\ Onward
    /\ UNCHANGED <<positions, paused, beat, todo, clock, bars, config, nextTicket, historyVars>>

\* Executor.tick: a modify row still pending is never sent late.
ModifyExpires ==
    /\ At("leg", "modify")
    /\ FinishRow("expired")
    /\ UNCHANGED <<faults, told>>

\* _open's gap rule: the stop is not below the bid any more.
H4Gap ==
    /\ pc = "opening"
    /\ Kind[cur.strat] = "h4"
    /\ BridgeReadable
    /\ PositionsOf(cur.strat) = {}
    /\ FinishRow("skipped")
    /\ UNCHANGED <<faults, told>>

-----------------------------------------------------------------------------
H4Decide ==
    \/ H4Waits \/ H4Shut \/ H4Late \/ H4Unreadable \/ H4StoppedOut \/ H4StopKill
    \/ H4Nothing \/ H4Open \/ H4Close \/ H4Trail
    \/ TrailFilled \/ TrailRejected \/ ModifyExpires \/ H4Gap

NextH4 == Next \/ H4Decide

SpecH4 == Init /\ [][NextH4]_vars

-----------------------------------------------------------------------------
\* A position's stop at the broker only ever rises, whatever requests are late.
StopOnlyRises ==
    [][\A p \in positions, q \in positions' : p.ticket = q.ticket => q.sl >= p.sl]_positions

\* The journalled stop of a position is never above the broker's: a fallback exit
\* price is never better than the stop, and a trail the executor holds back was
\* never needed.
JournalledStopIsSafe ==
    \A p \in positions : \A o \in FilledOpens(p.strat) :
        journal[o].ticket = p.ticket => StopNow(o) <= p.sl

\* A close leg the failures of a bridge left pending took a position opened after it.
StaleClose(k) ==
    \E o \in FilledOpens(k.strat) :
        journal[o].ticket = journal[k].ticket /\ journal[k].due < journal[o].due

\* A position leaves the journal once, by its close or by its stop-out and never by
\* both, unless a close leg older than the position took it.
OneExitPerPosition ==
    \A s \in Strategies : \A j, k \in RowsOf(s, "close", {"filled"}) :
        journal[j].ticket = journal[k].ticket => j = k \/ StaleClose(j) \/ StaleClose(k)

=============================================================================
