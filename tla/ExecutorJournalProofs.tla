----------------------- MODULE ExecutorJournalProofs -----------------------
(***************************************************************************)
(* Theorems about the journal of the strategies that decide ("daily" and   *)
(* "h4") and the positions behind it, whatever fails and wherever a        *)
(* restart falls: a stop only rises and its journalled level is never      *)
(* above the broker's, a position leaves the journal once, and a position  *)
(* nothing comes back to has been named to a person.                       *)
(*                                                                         *)
(* What they share is an order: two decisions of a strategy never fall     *)
(* into the same moment, so the rows they write are due in the order of    *)
(* their sessions, and an open that a failure left pending is carried out  *)
(* before the next decision is made.                                       *)
(***************************************************************************)
EXTENDS ExecutorCoverProofs

-----------------------------------------------------------------------------
\* When a decision is made.

\* The rows a decision writes, and the decision behind a row.
Decided(k) == Kind[k.strat] # "fixed" /\ k.leg # "decide"

DecideOf(k) == [k EXCEPT !.leg = "decide"]

BinHas(k) == \E t \in bars : t < DueAt(k) /\ t + PhasesPerDay >= DueAt(k)

FirstBar(k, b) == b \in bars /\ b >= DueAt(k) /\ \A u \in bars : u >= DueAt(k) => b <= u

\* The decision k may be made at instant n.
Ripe(k, n) ==
    /\ DueAt(k) <= n
    /\ Kind[k.strat] = "daily" => n <= DueAt(k) + DecideWindow
    /\ Kind[k.strat] = "h4" => BinHas(k) /\ \E b \in bars : FirstBar(k, b) /\ n <= b + ActWithin

\* A daily decision is over before the next is due.
DailyWindow == \A s \in Strategies : Kind[s] = "daily" => DecideWindow < PhasesPerDay

\* After a gap in the bars the first one does not come in the last moments of a bin, so that a
\* late decision on the bin before the gap is made before the bin ends.
BarsBeginEarly ==
    \A j, k \in Key :
        /\ Kind[j.strat] = "h4" /\ j.strat = k.strat
        /\ j.leg = "decide" /\ k.leg = "decide"
        => \A b \in bars : FirstBar(j, b) /\ b < DueAt(k) => b + ActWithin < DueAt(k)

\* Decisions are due a day (a bin) apart.
LEMMA DecidesApart ==
    ASSUME NEW j \in Key, NEW k \in Key, j.leg = "decide", k.leg = "decide", j.session < k.session
    PROVE  DueAt(j) + PhasesPerDay <= DueAt(k)
<1> DEFINE m == j.session
           n == k.session
           P == PhasesPerDay
<1>1. m \in Nat /\ n \in Nat /\ P \in Nat /\ DecidePhase \in Nat
  BY ExecutorAssumption, BridgeAssumption DEF Key, ExecutorAssumption, BridgeAssumption
<1>2. DueAt(j) = m * P + DecidePhase /\ DueAt(k) = n * P + DecidePhase
  BY DEF DueAt
<1>3. PICK x \in Nat : n = m + 1 + x
  <2>1. n - (m + 1) \in Nat /\ n = m + 1 + (n - (m + 1))
    BY <1>1
  <2> QED
    BY <2>1
<1>4. n * P = m * P + P + x * P /\ x * P \in Nat /\ m * P \in Nat
  BY <1>1, <1>3
<1> QED
  BY <1>1, <1>2, <1>4

\* Of two decisions of a strategy the one made first was over before the other was due.
LEMMA RipeApart ==
    ASSUME BarsBeginEarly, DailyWindow, bars \subseteq Nat,
           NEW j \in Key, NEW k \in Key, j.leg = "decide", k.leg = "decide", j # k,
           j.strat = k.strat, Kind[j.strat] # "fixed",
           NEW m \in Nat, NEW n \in Nat, Ripe(j, m), Ripe(k, n), m <= n
    PROVE  j.session < k.session /\ m < DueAt(k)
<1>1. /\ DueAt(j) \in Nat /\ DueAt(k) \in Nat /\ j.session \in Nat /\ k.session \in Nat
      /\ PhasesPerDay \in Nat /\ DecideWindow \in Nat /\ ActWithin \in Nat
      /\ Kind[j.strat] \in {"daily", "h4"}
  BY DueTypes, ExecutorAssumption, BridgeAssumption, ExecutorH4Assumption
     DEF Key, ExecutorAssumption, BridgeAssumption
<1>2. j.session # k.session
  BY DEF Key
<1>3. ASSUME NEW x \in Key, NEW y \in Key, x.leg = "decide", y.leg = "decide", x.strat = y.strat,
             Kind[x.strat] \in {"daily", "h4"}, x.session < y.session, NEW t \in Nat, Ripe(x, t), Ripe(y, n) \/ Ripe(y, m)
      PROVE  t < DueAt(y)
  <2>1. DueAt(x) + PhasesPerDay <= DueAt(y) /\ DueAt(x) \in Nat /\ DueAt(y) \in Nat
    BY <1>3, DecidesApart, DueTypes
  <2>2. CASE Kind[x.strat] = "daily"
    <3>1. DecideWindow < PhasesPerDay
      BY <1>3, <2>2 DEF DailyWindow, Key
    <3> QED
      BY <1>1, <1>3, <2>1, <2>2, <3>1 DEF Ripe
  <2>3. CASE Kind[x.strat] = "h4"
    <3>1. PICK b \in bars : FirstBar(x, b) /\ t <= b + ActWithin
      BY <1>3, <2>3 DEF Ripe
    <3>2. PICK u \in bars : u < DueAt(y) /\ u + PhasesPerDay >= DueAt(y)
      BY <1>3, <2>3 DEF Ripe, BinHas
    <3>3. b <= u /\ b \in Nat /\ u \in Nat
      BY <1>1, <2>1, <3>1, <3>2 DEF FirstBar
    <3>4. b + ActWithin < DueAt(y)
      BY <1>1, <1>3, <2>1, <2>3, <3>1, <3>2, <3>3 DEF BarsBeginEarly
    <3> QED
      BY <1>1, <2>1, <3>1, <3>3, <3>4
  <2> QED
    BY <1>3, <2>2, <2>3
<1>4. ~(k.session < j.session)
  <2> SUFFICES ASSUME k.session < j.session PROVE FALSE
    OBVIOUS
  <2>1. n < DueAt(j)
    BY <1>1, <1>3
  <2>2. DueAt(j) <= m
    BY DEF Ripe
  <2> QED
    BY <1>1, <2>1, <2>2
<1>5. j.session < k.session
  BY <1>1, <1>2, <1>4
<1> QED
  BY <1>1, <1>3, <1>5

\* New bars come after the ones there are, so a decision that was ripe stays so.
LEMMA RipeStays ==
    ASSUME bars \subseteq Nat, bars' \subseteq Nat, bars \subseteq bars',
           \A t \in bars' \ bars : \A u \in bars : u < t,
           NEW k \in Key, NEW n \in Nat, Ripe(k, n)
    PROVE  Ripe(k, n)'
<1>1. DueAt(k)' = DueAt(k) /\ DueAt(k) \in Nat
  BY DueTypes DEF DueAt
<1>2. ASSUME Kind[k.strat] = "h4"
      PROVE  BinHas(k)' /\ \E b \in bars' : FirstBar(k, b)' /\ n <= b + ActWithin
  <2>1. BinHas(k)'
    BY <1>1, <1>2 DEF Ripe, BinHas
  <2>2. PICK b \in bars : FirstBar(k, b) /\ n <= b + ActWithin
    BY <1>2 DEF Ripe
  <2>3. ASSUME NEW u \in bars', u >= DueAt(k) PROVE b <= u
    BY <2>2, <2>3 DEF FirstBar
  <2>4. FirstBar(k, b)'
    BY <1>1, <2>2, <2>3 DEF FirstBar
  <2> QED
    BY <2>1, <2>2, <2>4
<1> QED
  BY <1>1, <1>2 DEF Ripe

-----------------------------------------------------------------------------
\* The steps, as far as the rows are concerned.  Every action is one of these.

\* The places of a tick that has a row in hand, and the rows it has read and not yet settled.
Working == {"leg", "opening", "ordering", "closing", "trailing", "stopped", "flat"}

Unsettled == due \cup (IF pc \in Working THEN {cur} ELSE {})

PlaceInv ==
    /\ pc \in {"opening", "ordering"} => cur.leg = "open"
    /\ pc = "closing" => cur.leg = "close"
    /\ pc = "trailing" => cur.leg = "modify"
    /\ pc \in {"stopped", "flat"} => cur.leg = "decide" /\ Kind[cur.strat] = "h4"

\* The row in hand is finished, its instant unchanged.
SettleStep ==
    /\ pc \in Working
    /\ pc' \in {"next", "kill"}
    /\ \E row \in Row : /\ journal' = [journal EXCEPT ![cur] = row]
                        /\ row.due = journal[cur].due
                        /\ row.status \in Final
    /\ UNCHANGED <<now, due, clock, bars>>

\* A decision writes the leg it calls for, and carries it out at once or never.
WriteStep ==
    /\ pc \in {"leg", "flat"}
    /\ cur.leg = "decide" /\ Kind[cur.strat] # "fixed" /\ Ripe(cur, now)
    /\ \E leg \in {"open", "close", "modify"}, row \in Row :
         /\ journal' = [journal EXCEPT ![[cur EXCEPT !.leg = leg]] = row, ![cur].status = "decided"]
         /\ row.due = now
         /\ leg = "modify" => Kind[cur.strat] = "h4"
         /\ \/ row.status = "pending" /\ cur' = [cur EXCEPT !.leg = leg] /\ pc' \in {"leg", "trailing"}
            \/ row.status = "skipped" /\ leg = "modify" /\ pc' = "next"
    /\ UNCHANGED <<now, due, clock, bars>>

\* A decision finds that the stop has taken the position.
StopStep ==
    /\ pc = "leg" /\ pc' = "stopped"
    /\ cur.leg = "decide" /\ Kind[cur.strat] = "h4" /\ Ripe(cur, now)
    /\ Holding(cur.strat)
    /\ PositionsOf(cur.strat) = {} /\ inbox = {}
    /\ \E o \in LastOpen(cur.strat), row \in Row :
         /\ journal' = [journal EXCEPT ![[o EXCEPT !.leg = "stopped"]] = row]
         /\ row.due = now /\ row.status = "filled" /\ row.ticket = journal[o].ticket
    /\ UNCHANGED <<now, due, cur, clock, bars, positions, inbox>>

\* The tick takes the next row, goes on with the one in hand or leaves it for the next tick.
MoveStep ==
    /\ UNCHANGED <<journal, now, clock, bars>>
    /\ \/ /\ pc = "next" /\ pc' = "leg"
          /\ \E k \in due : /\ \A j \in due : journal[k].due <= journal[j].due
                            /\ cur' = k /\ due' = due \ {k}
       \/ /\ pc \in {"leg", "closing"} /\ pc' = "next" /\ due' = due
          /\ cur.leg \in {"decide", "close"}
       \/ /\ pc \in Working /\ cur' = cur /\ due' = due
          /\ \/ pc' \in {"opening", "ordering", "closing"}
             \/ pc = "stopped" /\ pc' = "flat"
       \/ /\ pc = "kill" /\ pc' = "next" /\ due' = due
       \/ /\ pc = "down" /\ pc' = "idle" /\ due' = due

\* The tick ends, as it should or not.
RestStep ==
    /\ pc' \in {"idle", "down"}
    /\ due' = {}
    /\ now' = 0
    /\ UNCHANGED <<journal, clock, bars>>

\* Time, bars, the terminal and people leave the rows alone.
OutsideStep ==
    /\ UNCHANGED <<journal, pc, now, due, cur>>
    /\ clock <= clock'
    /\ bars \subseteq bars'
    /\ \A t \in bars' \ bars : \A u \in bars : u < t

PartScheduled ==
    /\ pc = "idle" /\ pc' \in {"down", "idle"}
    /\ \E keys \in SUBSET Unwritten(clock) : journal' = Scheduled(keys)
    /\ UNCHANGED <<now, due, cur, clock, bars>>

\* The step of a place that only its own actions leave.
LEMMA PlaceStep == TypeOK /\ PlaceInv /\ [NextH4]_vars => PlaceInv'
<1> SUFFICES ASSUME TypeOK, PlaceInv, [NextH4]_vars PROVE PlaceInv'
  OBVIOUS
<1> USE DEF bridgeVars, dbVars, tickVars, envVars, historyVars, PlaceInv
<1>1. CASE Tick \/ ScheduleDies \/ NextLeg \/ SkipUnlisted \/ EndTick \/ Decide \/ Boot \/ Crash \/ TickRaises
  BY <1>1 DEF Tick, ScheduleDies, NextLeg, SkipUnlisted, EndTick, Boot, Crash, TickRaises, Rest,
              Decide, DecideMissed, DecideWaits, DecideNothing, DecideLeg, Decidable, AtDaily, At,
              FinishRow, LeaveRow, Onward
<1>2. CASE Open
  BY <1>2 DEF Open, OpenExpires, OpenPaused, OpenTooLarge, OpenDry, OpenMay, OpenUnreadable, OpenTaken,
              OpenSend, OpenFilled, OpenRejected, At, FinishRow, Onward
<1>3. CASE Close
  BY <1>3 DEF Close, CloseUnreadable, CloseNothing, CloseDry, CloseStart, CloseAnother, CloseFilled,
              CloseRejected, CheckKill, At, FinishRow, LeaveRow, Onward
<1>4. CASE Serve \/ Rejects \/ Stopped \/ BarArrives \/ Advance \/ Person \/ UNCHANGED vars
  <2>1. UNCHANGED <<pc, cur>>
    BY <1>4 DEF Serve, Rejects, Stopped, BarArrives, Advance, Person, vars
  <2> QED
    BY <2>1
<1>5. CASE H4Waits \/ H4Shut \/ H4Late \/ H4Unreadable \/ H4StoppedOut \/ H4StopKill \/ H4Nothing
           \/ TrailFilled \/ TrailRejected \/ ModifyExpires \/ H4Gap
  BY <1>5 DEF H4Waits, H4Shut, H4Late, H4Unreadable, H4StoppedOut, H4StopKill, H4Nothing, TrailFilled,
              TrailRejected, ModifyExpires, H4Gap, H4Decidable, AtH4, At, FinishRow, LeaveRow, Onward
<1>6. CASE H4Open \/ H4Close \/ H4Trail
  BY <1>6 DEF H4Open, H4Close, H4Trail, H4Held, H4Decidable, AtH4, At, TypeOK, TickTypeOK, Key
<1> QED
  BY <1>1, <1>2, <1>3, <1>4, <1>5, <1>6 DEF NextH4, H4Decide, Next, Process, Failures

\* What the rows say while the tick goes through them.
UnsettledInv ==
    /\ now <= clock
    /\ \A k \in Unsettled : journal[k].status = "pending" /\ journal[k].due <= now
    /\ pc \in Working => cur \notin due

\* A decision is due at its instant, and a row it writes is due when it is written.
TimesInv ==
    /\ \A k \in Key : k.leg = "decide" /\ journal[k].status # "absent" => journal[k].due = DueAt(k)
    /\ \A k \in Key : Decided(k) /\ journal[k].status # "absent" =>
          journal[k].due <= clock /\ (pc \notin {"idle", "down"} => journal[k].due <= now)

\* The decision on a 4h bin is made on the bars: H4Decidable is Ripe.
LEMMA DecidableIsRipe ==
    ASSUME TypeOK, UnsettledInv, TimesInv, pc \in Working, cur.leg = "decide",
           \/ Kind[cur.strat] = "daily" /\ ~Expired(cur)
           \/ Kind[cur.strat] = "h4" /\ BinBars # {} /\ InTime
    PROVE  Ripe(cur, now)
<1>1. cur \in Key /\ cur \in Unsettled /\ now \in Nat
  BY DEF TypeOK, TickTypeOK, Unsettled
<1>2. journal[cur].due = DueAt(cur) /\ DueAt(cur) <= now
  BY <1>1 DEF UnsettledInv, TimesInv
<1>3. CASE Kind[cur.strat] = "daily" /\ ~Expired(cur)
  BY <1>1, <1>2, <1>3, ExecutorAssumption, DueTypes DEF Ripe, Expired, ExecutorAssumption
<1>4. CASE Kind[cur.strat] = "h4" /\ BinBars # {} /\ InTime
  BY <1>1, <1>2, <1>4 DEF Ripe, BinHas, FirstBar, BinBars, InTime, NextBars
<1> QED
  BY <1>3, <1>4

\* A row that is finished is a row, due when it was.
LEMMA FinishSettles ==
    ASSUME TypeOK, NEW st \in Final, Finish(st)
    PROVE  \E row \in Row : /\ journal' = [journal EXCEPT ![cur] = row]
                            /\ row.due = journal[cur].due /\ row.status \in Final
<1> DEFINE row == [journal[cur] EXCEPT !.status = st]
<1>1. journal[cur] \in Row
  BY DEF TypeOK, DbTypeOK, TickTypeOK
<1>2. row \in Row /\ row.due = journal[cur].due /\ row.status \in Final
  BY <1>1 DEF Row, Final
<1>3. journal' = [journal EXCEPT ![cur] = row]
  BY DEF Finish
<1> QED
  BY <1>2, <1>3

\* After a stop-out the decision goes on, at the instant the tick was given.
RipeWhenFlat == pc \in {"stopped", "flat"} => Ripe(cur, now)

RowStep ==
    \/ Tick \/ PartScheduled \/ SettleStep \/ WriteStep \/ StopStep \/ MoveStep \/ RestStep
    \/ OutsideStep

\* Every action is one of these steps.
LEMMA RowSteps ==
    ASSUME Fifo, TypeOK, PlaceInv, UnsettledInv, TimesInv, RipeWhenFlat, [NextH4]_vars
    PROVE  RowStep
<1> USE DEF bridgeVars, dbVars, tickVars, envVars, historyVars
<1>1. CASE ScheduleDies
  BY <1>1 DEF ScheduleDies, PartScheduled, RowStep
<1>2. CASE NextLeg
  BY <1>2 DEF NextLeg, MoveStep, RowStep
<1>3. CASE \/ SkipUnlisted \/ DecideMissed \/ DecideNothing \/ OpenExpires \/ OpenPaused \/ OpenTooLarge
           \/ OpenDry \/ OpenUnreadable \/ OpenTaken \/ OpenRejected \/ CloseNothing \/ H4Shut \/ H4Late
           \/ H4Nothing \/ TrailFilled \/ TrailRejected \/ ModifyExpires \/ H4Gap
  <2>1. PICK st \in Final : Finish(st)
    BY <1>3 DEF SkipUnlisted, DecideMissed, DecideNothing, OpenExpires, OpenPaused, OpenTooLarge, OpenDry,
                OpenUnreadable, OpenTaken, OpenRejected, CloseNothing, H4Shut, H4Late, H4Nothing,
                TrailFilled, TrailRejected, ModifyExpires, H4Gap, FinishRow, Final
  <2>2. pc \in Working /\ pc' = "next" /\ UNCHANGED <<now, due, clock, bars>>
    BY <1>3 DEF SkipUnlisted, DecideMissed, DecideNothing, Decidable, AtDaily, OpenExpires, OpenPaused,
                OpenTooLarge, OpenDry, OpenUnreadable, OpenTaken, OpenRejected, CloseNothing, H4Shut, H4Late,
                H4Nothing, H4Flat, H4Held, H4Decidable, AtH4, TrailFilled, TrailRejected, ModifyExpires,
                H4Gap, At, FinishRow, Onward, Working
  <2> QED
    BY <2>1, <2>2, FinishSettles DEF SettleStep, RowStep
<1>4. CASE OpenFilled
  <2> DEFINE row == [journal[cur] EXCEPT !.status = "filled", !.ticket = nextTicket - 1]
  <2>1. journal[cur] \in Row /\ nextTicket - 1 \in Nat
    BY DEF TypeOK, DbTypeOK, TickTypeOK, EnvTypeOK
  <2>2. row \in Row /\ row.due = journal[cur].due /\ row.status \in Final
    BY <2>1 DEF Row, Final
  <2>3. journal' = [journal EXCEPT ![cur] = row]
    BY <1>4 DEF OpenFilled
  <2> HIDE DEF row
  <2> QED
    BY <2>2, <2>3, <1>4 DEF OpenFilled, Onward, SettleStep, RowStep, Working
<1>5. CASE CloseFilled
  <2>1. PICK last \in todo, pnl \in {"none", "win", "loss"} :
          journal' = [journal EXCEPT
            ![cur] = [@ EXCEPT !.status = "filled", !.pnl = pnl, !.ticket = last.ticket]]
    BY <1>5 DEF CloseFilled
  <2> DEFINE row == [journal[cur] EXCEPT !.status = "filled", !.pnl = pnl, !.ticket = last.ticket]
  <2>2. journal[cur] \in Row /\ last.ticket \in Nat
    BY DEF TypeOK, DbTypeOK, TickTypeOK, Position
  <2>3. row \in Row /\ row.due = journal[cur].due /\ row.status \in Final
    BY <2>2 DEF Row, Final
  <2>4. journal' = [journal EXCEPT ![cur] = row]
    BY <2>1
  <2> HIDE DEF row
  <2> QED
    BY <2>3, <2>4, <1>5 DEF CloseFilled, SettleStep, RowStep, Working
<1>6. CASE \/ DecideWaits \/ CloseUnreadable \/ CloseDry \/ CloseRejected \/ H4Waits \/ H4Unreadable
  <2>1. /\ UNCHANGED <<journal, now, clock, bars>> /\ pc' = "next" /\ due' = due
        /\ pc \in {"leg", "closing"} /\ cur.leg \in {"decide", "close"}
    BY <1>6 DEF DecideWaits, AtDaily, CloseUnreadable, CloseDry, CloseRejected, H4Waits, H4Unreadable,
                H4Decidable, AtH4, At, LeaveRow, Onward, PlaceInv
  <2> QED
    BY <2>1 DEF MoveStep, RowStep
<1>7. CASE \/ OpenMay \/ OpenSend \/ CloseStart \/ CloseAnother \/ H4StopKill \/ CheckKill \/ Boot
  BY <1>7 DEF OpenMay, OpenSend, CloseStart, CloseAnother, H4StopKill, CheckKill, Boot, At, Onward,
              MoveStep, RowStep, Working
<1>8. CASE EndTick \/ Crash \/ TickRaises
  BY <1>8 DEF EndTick, Crash, TickRaises, Rest, RestStep, RowStep
<1>9. CASE DecideLeg
  <2> DEFINE leg == IF Holding(cur.strat) THEN "close" ELSE "open"
             row == PendingRow(now, config.volume)
  <2>1. journal' = [journal EXCEPT ![[cur EXCEPT !.leg = leg]] = row, ![cur].status = "decided"]
        /\ cur' = [cur EXCEPT !.leg = leg] /\ leg \in {"open", "close", "modify"} /\ leg # "modify"
    BY <1>9 DEF DecideLeg
  <2>2. row \in Row /\ row.due = now /\ row.status = "pending"
    BY RowTypes, ConfigTypes DEF PendingRow, TypeOK, TickTypeOK, EnvTypeOK
  <2>3. /\ pc = "leg" /\ pc' = pc /\ cur.leg = "decide" /\ Kind[cur.strat] = "daily" /\ ~Expired(cur)
        /\ UNCHANGED <<now, due, clock, bars>>
    BY <1>9 DEF DecideLeg, Decidable, AtDaily, At
  <2>4. Ripe(cur, now)
    BY <2>3, DecidableIsRipe DEF Working
  <2> HIDE DEF leg, row
  <2> QED
    BY <2>1, <2>2, <2>3, <2>4 DEF WriteStep, RowStep
<1>10. CASE H4StoppedOut
  <2>1. PICK o \in LastOpen(cur.strat), pnl \in {"win", "loss"} :
          journal' = [journal EXCEPT ![[o EXCEPT !.leg = "stopped"]] =
             [PendingRow(now, journal[o].volume) EXCEPT
                !.status = "filled", !.ticket = journal[o].ticket, !.pnl = pnl]]
    BY <1>10 DEF H4StoppedOut
  <2> DEFINE row == [PendingRow(now, journal[o].volume) EXCEPT
                        !.status = "filled", !.ticket = journal[o].ticket, !.pnl = pnl]
  <2>2. journal[o].volume \in Nat /\ journal[o].ticket \in Nat /\ now \in Nat
    BY DEF LastOpen, FilledOpens, RowsOf, TypeOK, DbTypeOK, TickTypeOK, Row
  <2>3. row \in Row /\ row.due = now /\ row.status = "filled" /\ row.ticket = journal[o].ticket
    <3>1. PendingRow(now, journal[o].volume) \in Row
      BY <2>2, RowTypes
    <3>2. PendingRow(now, journal[o].volume).due = now
      BY DEF PendingRow
    <3> QED
      BY <2>2, <3>1, <3>2 DEF Row, Final
  <2>4. journal' = [journal EXCEPT ![[o EXCEPT !.leg = "stopped"]] = row]
    BY <2>1
  <2>5. Ripe(cur, now)
    BY <1>10, DecidableIsRipe DEF H4StoppedOut, H4Decidable, AtH4, At, Working
  <2>6. inbox = {}
    BY <1>10, ReadableIsIdle DEF H4StoppedOut
  <2> HIDE DEF row
  <2> QED
    BY <2>3, <2>4, <2>5, <2>6, <1>10 DEF H4StoppedOut, H4Decidable, AtH4, At, StopStep, RowStep
<1>11. CASE H4Open \/ H4Close \/ H4Trail
  <2>1. /\ cur.leg = "decide" /\ Kind[cur.strat] = "h4" /\ pc \in {"leg", "flat"}
        /\ UNCHANGED <<now, due, clock, bars>>
    BY <1>11 DEF H4Open, H4Close, H4Trail, H4Flat, H4Held, H4Decidable, AtH4, At, PlaceInv
  <2>2. Ripe(cur, now)
    BY <1>11, <2>1, DecidableIsRipe DEF H4Open, H4Close, H4Trail, H4Flat, H4Held, H4Decidable, AtH4, At, Working, RipeWhenFlat
  <2>3. now \in Nat /\ config.volume \in Nat /\ PendingRow(now, config.volume) \in Row
        /\ PendingRow(now, config.volume).due = now /\ PendingRow(now, config.volume).status = "pending"
    BY RowTypes, ConfigTypes DEF TypeOK, TickTypeOK, EnvTypeOK, PendingRow
  <2>4. CASE H4Open
    <3>1. PICK low \in Levels : Write("open", [PendingRow(now, config.volume) EXCEPT !.sl = low])
      BY <2>4 DEF H4Open
    <3> DEFINE row == [PendingRow(now, config.volume) EXCEPT !.sl = low]
    <3>2. row \in Row /\ row.due = now /\ row.status = "pending"
      BY <2>3 DEF Row
    <3>3. journal' = [journal EXCEPT ![[cur EXCEPT !.leg = "open"]] = row, ![cur].status = "decided"]
      BY <3>1 DEF Write
    <3> HIDE DEF row
    <3> QED
      BY <2>1, <2>2, <2>4, <3>2, <3>3 DEF H4Open, WriteStep, RowStep
  <2>5. CASE H4Close
    <3> DEFINE row == PendingRow(now, config.volume)
    <3>1. journal' = [journal EXCEPT ![[cur EXCEPT !.leg = "close"]] = row, ![cur].status = "decided"]
      BY <2>5 DEF H4Close, Write
    <3>2. row \in Row /\ row.due = now /\ row.status = "pending"
      BY <2>3
    <3> HIDE DEF row
    <3> QED
      BY <2>1, <2>2, <2>5, <3>1, <3>2 DEF H4Close, H4Held, H4Decidable, AtH4, At, WriteStep, RowStep
  <2>6. CASE H4Trail
    <3> DEFINE trail(stop, p) == [PendingRow(now, config.volume) EXCEPT
                  !.sl = stop, !.ticket = p.ticket, !.status = IF config.enabled THEN "pending" ELSE "skipped"]
    <3>1. PICK stop \in Levels, p \in PositionsOf(cur.strat) :
            /\ Write("modify", trail(stop, p))
            /\ \/ config.enabled /\ cur' = [cur EXCEPT !.leg = "modify"] /\ pc' = "trailing"
               \/ ~config.enabled /\ pc' = "next"
      BY <2>6 DEF H4Trail
    <3>2. trail(stop, p) \in Row /\ trail(stop, p).due = now
          /\ trail(stop, p).status = IF config.enabled THEN "pending" ELSE "skipped"
      BY <2>3 DEF Row, Final, PositionsOf, TypeOK, BridgeTypeOK, Position
    <3>3. journal' = [journal EXCEPT ![[cur EXCEPT !.leg = "modify"]] = trail(stop, p), ![cur].status = "decided"]
      BY <3>1 DEF Write
    <3> HIDE DEF trail
    <3> QED
      BY <2>1, <2>2, <3>1, <3>2, <3>3 DEF WriteStep, RowStep
  <2> QED
    BY <1>11, <2>4, <2>5, <2>6
<1>12. CASE Serve \/ Rejects \/ Stopped \/ BarArrives \/ Advance \/ Person \/ UNCHANGED vars
  <2>1. UNCHANGED <<journal, pc, now, due, cur>> /\ bars \subseteq bars'
        /\ \A t \in bars' \ bars : \A u \in bars : u < t
    BY <1>12 DEF Serve, Rejects, Stopped, BarArrives, Advance, Person, vars
  <2>2. clock <= clock'
    BY <1>12 DEF Serve, Rejects, Stopped, BarArrives, Advance, Person, vars, TypeOK, EnvTypeOK
  <2> QED
    BY <2>1, <2>2 DEF OutsideStep, RowStep
<1>13. CASE Tick
  BY <1>13 DEF RowStep
<1> QED
  BY <1>1, <1>2, <1>3, <1>4, <1>5, <1>6, <1>7, <1>8, <1>9, <1>10, <1>11, <1>12, <1>13
     DEF NextH4, H4Decide, Next, Process, Decide, Open, Close, Failures

-----------------------------------------------------------------------------
\* The order of the rows.

\* A decision that has written its leg is done.
DecidedOnce ==
    \A k \in Key :
        Decided(k) /\ k.leg # "stopped" /\ journal[k].status # "absent"
            => journal[DecideOf(k)].status \in Final

\* Only a 4h strategy trails its stop or is stopped out, and a stop-out is settled when it is written.
LegKinds ==
    /\ \A k \in Key : k.leg \in {"modify", "stopped"} /\ journal[k].status # "absent" => Kind[k.strat] = "h4"
    /\ \A k \in Key : k.leg = "stopped" => journal[k].status \in {"absent", "filled"}

\* A tick has every open still to come in hand.
OpensAreReached ==
    pc \notin {"idle", "down"} =>
        \A k \in Key : Decided(k) /\ k.leg = "open" /\ journal[k].status = "pending" => k \in Unsettled

EarliestFirst ==
    pc \in {"leg", "stopped", "flat"} /\ cur.leg = "decide" =>
        \A j \in due : journal[cur].due <= journal[j].due

\* What a decision wrote was written when the decision was ripe.
RowsAreRipe ==
    \A k \in Key :
        Decided(k) /\ k.leg # "stopped" /\ journal[k].status # "absent" => Ripe(DecideOf(k), journal[k].due)

\* An open still to come is the latest thing its strategy decided.
PendingOpenIsNewest ==
    \A o, k \in Key :
        /\ Decided(o) /\ o.leg = "open" /\ journal[o].status = "pending"
        /\ k.strat = o.strat /\ Decided(k) /\ journal[k].status # "absent"
        => journal[k].due <= journal[o].due

RowsInOrder ==
    /\ UnsettledInv /\ TimesInv /\ RipeWhenFlat
    /\ DecidedOnce /\ LegKinds /\ OpensAreReached /\ EarliestFirst
    /\ RowsAreRipe /\ PendingOpenIsNewest

\* When a decision is made its strategy has no open still to come.
LEMMA NoOpenToCome ==
    ASSUME BarsBeginEarly, DailyWindow, TypeOK, RowsInOrder,
           pc \in {"leg", "stopped", "flat"}, cur.leg = "decide", Kind[cur.strat] # "fixed", Ripe(cur, now),
           NEW o \in Key, o.strat = cur.strat, o.leg = "open", journal[o].status = "pending"
    PROVE  FALSE
<1>1. /\ cur \in Key /\ now \in Nat /\ journal[o].due \in Nat /\ DueAt(cur) \in Nat
      /\ bars \subseteq Nat
  BY ExecutorAssumption, DueTypes DEF TypeOK, TickTypeOK, DbTypeOK, EnvTypeOK, Row, ExecutorAssumption
<1>2. Decided(o) /\ DecideOf(o) \in Key /\ DecideOf(o).leg = "decide" /\ DecideOf(o).strat = cur.strat
  BY DEF Decided, DecideOf, Key
<1>3. cur \in Unsettled /\ o \in due
  BY <1>2 DEF RowsInOrder, OpensAreReached, Unsettled, Working
<1>4. journal[cur].due = DueAt(cur) /\ DueAt(cur) <= journal[o].due /\ journal[o].due <= now
  BY <1>1, <1>3 DEF RowsInOrder, UnsettledInv, TimesInv, EarliestFirst, Unsettled
<1>5. DecideOf(o) # cur
  <2>1. journal[DecideOf(o)].status \in Final
    BY <1>2 DEF RowsInOrder, DecidedOnce
  <2>2. journal[cur].status = "pending"
    BY <1>3 DEF RowsInOrder, UnsettledInv
  <2> QED
    BY <2>1, <2>2 DEF Final
<1>6. Ripe(DecideOf(o), journal[o].due)
  BY <1>2 DEF RowsInOrder, RowsAreRipe
<1>7. journal[o].due < DueAt(cur)
  BY <1>1, <1>2, <1>4, <1>5, <1>6, RipeApart
<1> QED
  BY <1>1, <1>4, <1>7

\* Nothing the rows say is changed by a step that leaves the rows, and what is in hand, alone.
LEMMA OrderedByMove ==
    ASSUME TypeOK, RowsInOrder, MoveStep
    PROVE  RowsInOrder'
<1>1. Unsettled' \subseteq Unsettled /\ UNCHANGED <<journal, now, clock, bars>>
  BY DEF MoveStep, Unsettled, Working
<1>2. UnsettledInv'
  BY <1>1 DEF MoveStep, RowsInOrder, UnsettledInv, Working, Unsettled
<1>3. TimesInv'
  BY <1>1 DEF MoveStep, RowsInOrder, TimesInv, DueAt, Decided, Working
<1>4. RipeWhenFlat'
  BY <1>1 DEF MoveStep, RowsInOrder, RipeWhenFlat, Ripe, BinHas, FirstBar, DueAt, Working
<1>5. DecidedOnce' /\ LegKinds'
  BY <1>1 DEF RowsInOrder, DecidedOnce, LegKinds, Decided, DecideOf
<1>6. OpensAreReached'
  BY <1>1 DEF MoveStep, RowsInOrder, OpensAreReached, Unsettled, Working, Decided
<1>7. EarliestFirst'
  BY <1>1 DEF MoveStep, RowsInOrder, EarliestFirst, Working
<1>8. RowsAreRipe' /\ PendingOpenIsNewest'
  BY <1>1 DEF RowsInOrder, RowsAreRipe, PendingOpenIsNewest, Decided, DecideOf, Ripe, BinHas, FirstBar, DueAt
<1> QED
  BY <1>2, <1>3, <1>4, <1>5, <1>6, <1>7, <1>8 DEF RowsInOrder

LEMMA OrderedByRest ==
    ASSUME TypeOK, RowsInOrder, RestStep
    PROVE  RowsInOrder'
<1>1. Unsettled' = {} /\ UNCHANGED <<journal, clock, bars>> /\ now' = 0 /\ clock \in Nat
  BY DEF RestStep, Unsettled, Working, TypeOK, EnvTypeOK
<1>2. UnsettledInv'
  BY <1>1 DEF RestStep, UnsettledInv, Working
<1>3. TimesInv'
  BY <1>1 DEF RestStep, RowsInOrder, TimesInv, DueAt, Decided
<1>4. RipeWhenFlat' /\ OpensAreReached' /\ EarliestFirst'
  BY DEF RestStep, RipeWhenFlat, OpensAreReached, EarliestFirst
<1>5. DecidedOnce' /\ LegKinds'
  BY <1>1 DEF RowsInOrder, DecidedOnce, LegKinds, Decided, DecideOf
<1>6. RowsAreRipe' /\ PendingOpenIsNewest'
  BY <1>1 DEF RowsInOrder, RowsAreRipe, PendingOpenIsNewest, Decided, DecideOf, Ripe, BinHas, FirstBar, DueAt
<1> QED
  BY <1>2, <1>3, <1>4, <1>5, <1>6 DEF RowsInOrder

LEMMA OrderedByOutside ==
    ASSUME TypeOK, TypeOK', RowsInOrder, OutsideStep
    PROVE  RowsInOrder'
<1>1. /\ Unsettled' = Unsettled /\ UNCHANGED <<journal, now, pc, cur, due>>
      /\ clock \in Nat /\ clock' \in Nat /\ clock <= clock' /\ now \in Nat
      /\ bars \subseteq Nat /\ bars' \subseteq Nat
  BY ExecutorAssumption DEF OutsideStep, Unsettled, TypeOK, EnvTypeOK, TickTypeOK, ExecutorAssumption
<1>2. \A k \in Key : journal[k].due \in Nat
  BY DEF TypeOK, DbTypeOK, Row
<1>3. \A k \in Key, n \in Nat : Ripe(k, n) => Ripe(k, n)'
  BY <1>1, RipeStays DEF OutsideStep
<1>4. UnsettledInv'
  BY <1>1 DEF RowsInOrder, UnsettledInv
<1>5. TimesInv'
  BY <1>1, <1>2 DEF RowsInOrder, TimesInv, DueAt, Decided
<1>6. RipeWhenFlat'
  BY <1>1, <1>3 DEF RowsInOrder, RipeWhenFlat, TypeOK, TickTypeOK
<1>7. OpensAreReached' /\ EarliestFirst' /\ DecidedOnce' /\ LegKinds' /\ PendingOpenIsNewest'
  BY <1>1 DEF RowsInOrder, OpensAreReached, EarliestFirst, DecidedOnce, LegKinds, PendingOpenIsNewest,
              Decided, DecideOf
<1>8. RowsAreRipe'
  <2> SUFFICES ASSUME NEW k \in Key, Decided(k), k.leg # "stopped", journal[k].status # "absent"
               PROVE  Ripe(DecideOf(k), journal[k].due)'
    BY <1>1 DEF RowsAreRipe, Decided
  <2>1. Ripe(DecideOf(k), journal[k].due) /\ DecideOf(k) \in Key
    BY DEF RowsInOrder, RowsAreRipe, DecideOf, Key
  <2>2. PICK d \in Key, n \in Nat : d = DecideOf(k) /\ n = journal[k].due /\ n = journal'[k].due
    BY <1>1, <1>2, <2>1
  <2>3. Ripe(d, n)'
    BY <1>3, <2>1, <2>2
  <2> QED
    BY <2>2, <2>3 DEF Ripe, BinHas, FirstBar, DueAt, DecideOf
<1> QED
  BY <1>4, <1>5, <1>6, <1>7, <1>8 DEF RowsInOrder

LEMMA OrderedBySettle ==
    ASSUME TypeOK, RowsInOrder, SettleStep
    PROVE  RowsInOrder'
<1>1. PICK row \in Row : journal' = [journal EXCEPT ![cur] = row] /\ row.due = journal[cur].due /\ row.status \in Final
  BY DEF SettleStep
<1>2. cur \in Key /\ cur \in Unsettled /\ cur \notin due /\ journal[cur].status = "pending" /\ pc \in Working
  BY DEF SettleStep, TypeOK, TickTypeOK, RowsInOrder, UnsettledInv, Unsettled
<1>3. \A k \in Key : /\ k # cur => journal'[k] = journal[k]
                     /\ journal'[k].due = journal[k].due
  BY <1>1, <1>2 DEF TypeOK, DbTypeOK
<1>4. journal'[cur].status \in Final
  BY <1>1, <1>2 DEF TypeOK, DbTypeOK
<1>5. /\ Unsettled' = due /\ Unsettled = due \cup {cur}
      /\ UNCHANGED <<now, due, clock, bars>>
      /\ pc' \in {"next", "kill"}
  BY <1>2 DEF SettleStep, Unsettled, Working
<1>6. UnsettledInv'
  BY <1>2, <1>3, <1>5 DEF RowsInOrder, UnsettledInv, TypeOK, TickTypeOK, Working
<1>7. TimesInv'
  BY <1>2, <1>3, <1>4, <1>5 DEF RowsInOrder, TimesInv, DueAt, Decided, Working
<1>8. RipeWhenFlat' /\ EarliestFirst'
  BY <1>5 DEF RipeWhenFlat, EarliestFirst
<1>9. DecidedOnce'
  <2> SUFFICES ASSUME NEW k \in Key, Decided(k), k.leg # "stopped", journal'[k].status # "absent"
               PROVE  journal'[DecideOf(k)].status \in Final
    BY DEF DecidedOnce, Decided
  <2>1. DecideOf(k) \in Key /\ journal[k].status # "absent"
    BY <1>2, <1>3 DEF DecideOf, Key
  <2> QED
    BY <1>3, <1>4, <2>1 DEF RowsInOrder, DecidedOnce
<1>10. LegKinds'
  BY <1>2, <1>3 DEF RowsInOrder, LegKinds
<1>11. OpensAreReached'
  <2> SUFFICES ASSUME NEW k \in Key, Decided(k), k.leg = "open", journal'[k].status = "pending"
               PROVE  k \in due
    BY <1>5 DEF OpensAreReached, Decided
  <2>1. k # cur
    BY <1>4 DEF Final
  <2> QED
    BY <1>2, <1>3, <1>5, <2>1 DEF RowsInOrder, OpensAreReached, Working
<1>12. RowsAreRipe'
  BY <1>2, <1>3, <1>5 DEF RowsInOrder, RowsAreRipe, Decided, DecideOf, Ripe, BinHas, FirstBar, DueAt
<1>13. PendingOpenIsNewest'
  <2> SUFFICES ASSUME NEW o \in Key, NEW k \in Key, Decided(o), o.leg = "open", journal'[o].status = "pending",
                      k.strat = o.strat, Decided(k), journal'[k].status # "absent"
               PROVE  journal'[k].due <= journal'[o].due
    BY DEF PendingOpenIsNewest, Decided
  <2>1. journal[o].status = "pending" /\ journal[k].status # "absent"
    BY <1>2, <1>3, <1>4 DEF Final
  <2> QED
    BY <1>3, <2>1 DEF RowsInOrder, PendingOpenIsNewest
<1> QED
  BY <1>6, <1>7, <1>8, <1>9, <1>10, <1>11, <1>12, <1>13 DEF RowsInOrder

\* The stop-out is written beside rows that stay as they are.
LEMMA OrderedByStop ==
    ASSUME BarsBeginEarly, DailyWindow, TypeOK, RowsInOrder, StopStep
    PROVE  RowsInOrder'
<1>1. PICK o \in LastOpen(cur.strat), row \in Row :
        /\ journal' = [journal EXCEPT ![[o EXCEPT !.leg = "stopped"]] = row]
        /\ row.due = now /\ row.status = "filled"
  BY DEF StopStep
<1> DEFINE st == [o EXCEPT !.leg = "stopped"]
<1>2. st \in Key /\ st.leg = "stopped" /\ st.strat = cur.strat
  BY DEF LastOpen, FilledOpens, RowsOf, Key
<1>3. /\ \A k \in Key : k # st => journal'[k] = journal[k]
      /\ journal'[st].due = now /\ journal'[st].status = "filled"
  BY <1>1, <1>2 DEF TypeOK, DbTypeOK
<1> HIDE DEF st
<1>4. /\ pc = "leg" /\ pc' = "stopped" /\ cur.leg = "decide" /\ Kind[cur.strat] = "h4" /\ Ripe(cur, now)
      /\ UNCHANGED <<now, due, cur, clock, bars>> /\ Unsettled' = Unsettled
      /\ cur \in Key /\ now \in Nat /\ clock \in Nat
  BY DEF StopStep, Unsettled, Working, TypeOK, TickTypeOK, EnvTypeOK
<1>5. st \notin Unsettled /\ Unsettled \subseteq Key
  BY <1>2 DEF RowsInOrder, LegKinds, UnsettledInv, Unsettled, TypeOK, TickTypeOK
<1>6. UnsettledInv'
  BY <1>3, <1>4, <1>5 DEF RowsInOrder, UnsettledInv, Working
<1>7. TimesInv'
  BY <1>2, <1>3, <1>4 DEF RowsInOrder, TimesInv, UnsettledInv, DueAt, Decided
<1>8. RipeWhenFlat'
  BY <1>4 DEF RipeWhenFlat, Ripe, BinHas, FirstBar, DueAt
<1>9. DecidedOnce'
  <2> SUFFICES ASSUME NEW k \in Key, Decided(k), k.leg # "stopped", journal'[k].status # "absent"
               PROVE  journal'[DecideOf(k)].status \in Final
    BY DEF DecidedOnce, Decided
  <2>1. DecideOf(k) \in Key /\ DecideOf(k) # st /\ k # st
    BY <1>2 DEF DecideOf, Key
  <2> QED
    BY <1>3, <2>1 DEF RowsInOrder, DecidedOnce
<1>10. LegKinds'
  BY <1>2, <1>3, <1>4 DEF RowsInOrder, LegKinds
<1>11. OpensAreReached'
  BY <1>2, <1>3, <1>4 DEF RowsInOrder, OpensAreReached, Decided
<1>12. EarliestFirst'
  <2>1. due \subseteq Unsettled /\ cur \in Unsettled
    BY <1>4 DEF Unsettled, Working
  <2> QED
    BY <1>3, <1>4, <1>5, <2>1 DEF RowsInOrder, EarliestFirst
<1>13. RowsAreRipe'
  BY <1>2, <1>3, <1>4 DEF RowsInOrder, RowsAreRipe, Decided, DecideOf, Ripe, BinHas, FirstBar, DueAt
<1>14. PendingOpenIsNewest'
  <2> SUFFICES ASSUME NEW o2 \in Key, NEW k \in Key, Decided(o2), o2.leg = "open", journal'[o2].status = "pending",
                      k.strat = o2.strat, Decided(k), journal'[k].status # "absent"
               PROVE  journal'[k].due <= journal'[o2].due
    BY DEF PendingOpenIsNewest, Decided
  <2>1. o2 # st /\ journal[o2].status = "pending" /\ journal'[o2] = journal[o2]
    BY <1>2, <1>3
  <2>2. k # st
    BY <1>2, <1>4, <2>1, NoOpenToCome
  <2> QED
    BY <1>3, <2>1, <2>2 DEF RowsInOrder, PendingOpenIsNewest
<1> QED
  BY <1>6, <1>7, <1>8, <1>9, <1>10, <1>11, <1>12, <1>13, <1>14 DEF RowsInOrder

\* The leg a decision writes is its first, and an open it writes is the strategy's newest row.
LEMMA OrderedByWrite ==
    ASSUME BarsBeginEarly, DailyWindow, TypeOK, RowsInOrder, WriteStep
    PROVE  RowsInOrder'
<1>1. PICK leg \in {"open", "close", "modify"}, row \in Row :
        /\ journal' = [journal EXCEPT ![[cur EXCEPT !.leg = leg]] = row, ![cur].status = "decided"]
        /\ row.due = now
        /\ leg = "modify" => Kind[cur.strat] = "h4"
        /\ \/ row.status = "pending" /\ cur' = [cur EXCEPT !.leg = leg] /\ pc' \in {"leg", "trailing"}
           \/ row.status = "skipped" /\ leg = "modify" /\ pc' = "next"
  BY DEF WriteStep
<1> DEFINE l == [cur EXCEPT !.leg = leg]
<1>2. /\ pc \in {"leg", "flat"} /\ cur.leg = "decide" /\ Kind[cur.strat] # "fixed" /\ Ripe(cur, now)
      /\ UNCHANGED <<now, due, clock, bars>>
      /\ cur \in Key /\ now \in Nat /\ clock \in Nat
  BY DEF WriteStep, TypeOK, TickTypeOK, EnvTypeOK
<1>3. l \in Key /\ l.leg = leg /\ l.strat = cur.strat /\ l # cur /\ DecideOf(l) = cur /\ Decided(l)
  BY <1>2 DEF Key, DecideOf, Decided
<1>4. /\ \A k \in Key : k # l /\ k # cur => journal'[k] = journal[k]
      /\ journal'[l] = row /\ journal'[cur].due = journal[cur].due /\ journal'[cur].status = "decided"
  <2>1. [journal EXCEPT ![l] = row][cur] = journal[cur] /\ journal[cur] \in Row
    BY <1>2, <1>3 DEF TypeOK, DbTypeOK
  <2> QED
    BY <1>1, <1>2, <1>3, <2>1 DEF TypeOK, DbTypeOK, Row
<1>5. Unsettled = due \cup {cur} /\ journal[cur].status = "pending" /\ cur \notin due /\ due \subseteq Key
  BY <1>2 DEF RowsInOrder, UnsettledInv, Unsettled, Working, TypeOK, TickTypeOK
<1>6. journal[l].status = "absent"
  BY <1>2, <1>3, <1>5 DEF RowsInOrder, DecidedOnce, Final
<1>7. l \notin due
  BY <1>5, <1>6 DEF RowsInOrder, UnsettledInv
<1>8. \/ cur' = l /\ pc' \in {"leg", "trailing"} /\ row.status = "pending" /\ Unsettled' = due \cup {l}
      \/ pc' = "next" /\ row.status = "skipped" /\ leg = "modify" /\ Unsettled' = due
  BY <1>1, <1>2 DEF Unsettled, Working
<1> HIDE DEF l
<1>0. /\ row.due = now /\ row.status \in {"pending", "skipped"} /\ leg \in {"open", "close", "modify"}
      /\ leg = "modify" => Kind[cur.strat] = "h4"
  BY <1>1
<1>9. \A k \in due : k # l /\ k # cur /\ journal'[k] = journal[k]
  BY <1>4, <1>5, <1>7
<1>10. UnsettledInv'
  <2>1. \A k \in Unsettled' : k = l \/ k \in due
    BY <1>8
  <2>2. \A k \in Unsettled' : journal'[k].status = "pending" /\ journal'[k].due <= now
    BY <1>0, <1>2, <1>4, <1>5, <1>8, <1>9, <2>1 DEF RowsInOrder, UnsettledInv
  <2>3. pc' \in Working => cur' \notin due'
    BY <1>2, <1>7, <1>8 DEF Working
  <2>4. now' <= clock'
    BY <1>2 DEF RowsInOrder, UnsettledInv
  <2> QED
    BY <1>2, <2>2, <2>3, <2>4 DEF UnsettledInv
<1>11. TimesInv'
  <2>1. ASSUME NEW k \in Key, k.leg = "decide", journal'[k].status # "absent" PROVE journal'[k].due = DueAt(k)
    BY <1>1, <1>3, <1>4, <1>5, <2>1 DEF RowsInOrder, TimesInv
  <2>2. ASSUME NEW k \in Key, Decided(k), journal'[k].status # "absent" PROVE journal'[k].due <= clock /\ journal'[k].due <= now
    <3>1. k # cur
      BY <1>2, <2>2 DEF Decided
    <3> QED
      BY <1>0, <1>2, <1>4, <2>2, <3>1 DEF RowsInOrder, TimesInv, UnsettledInv
  <2> QED
    BY <1>2, <2>1, <2>2 DEF TimesInv, DueAt, Decided
<1>12. RipeWhenFlat' /\ EarliestFirst'
  BY <1>1, <1>3, <1>8 DEF RipeWhenFlat, EarliestFirst
<1>13. DecidedOnce'
  <2> SUFFICES ASSUME NEW k \in Key, Decided(k), k.leg # "stopped", journal'[k].status # "absent"
               PROVE  journal'[DecideOf(k)].status \in Final
    BY DEF DecidedOnce, Decided
  <2>1. DecideOf(k) \in Key /\ DecideOf(k) # l /\ k # cur
    BY <1>1, <1>2, <1>3 DEF DecideOf, Key, Decided
  <2>2. journal'[cur].status \in Final
    BY <1>4 DEF Final
  <2>3. DecideOf(k) # cur => k # l
    BY <1>3
  <2> QED
    BY <1>4, <2>1, <2>2, <2>3 DEF RowsInOrder, DecidedOnce
<1>14. LegKinds'
  BY <1>0, <1>2, <1>3, <1>4, <1>5 DEF RowsInOrder, LegKinds
<1>15. OpensAreReached'
  <2> SUFFICES ASSUME NEW k \in Key, Decided(k), k.leg = "open", journal'[k].status = "pending"
               PROVE  k \in Unsettled'
    BY DEF OpensAreReached, Decided
  <2>1. CASE k = l
    BY <1>1, <1>3, <1>8, <2>1
  <2>2. CASE k # l
    BY <1>2, <1>4, <1>5, <1>8, <2>2 DEF RowsInOrder, OpensAreReached
  <2> QED
    BY <2>1, <2>2
<1>16. RowsAreRipe'
  <2> SUFFICES ASSUME NEW k \in Key, Decided(k), k.leg # "stopped", journal'[k].status # "absent"
               PROVE  Ripe(DecideOf(k), journal'[k].due)
    BY <1>2 DEF RowsAreRipe, Decided, DecideOf, Ripe, BinHas, FirstBar, DueAt
  <2>1. CASE k = l
    BY <1>1, <1>2, <1>3, <1>4, <2>1
  <2>2. CASE k # l
    BY <1>2, <1>4, <2>2 DEF RowsInOrder, RowsAreRipe, Decided
  <2> QED
    BY <2>1, <2>2
<1>17. PendingOpenIsNewest'
  <2> SUFFICES ASSUME NEW o \in Key, NEW k \in Key, Decided(o), o.leg = "open", journal'[o].status = "pending",
                      k.strat = o.strat, Decided(k), journal'[k].status # "absent"
               PROVE  journal'[k].due <= journal'[o].due
    BY DEF PendingOpenIsNewest, Decided
  <2>1. o # cur /\ k # cur
    BY <1>2 DEF Decided
  <2>2. CASE o = l
    BY <1>0, <1>2, <1>4, <2>1, <2>2 DEF RowsInOrder, TimesInv
  <2>3. CASE o # l /\ k = l
    BY <1>2, <1>3, <1>4, <2>1, <2>3, NoOpenToCome
  <2>4. CASE o # l /\ k # l
    BY <1>4, <2>1, <2>4 DEF RowsInOrder, PendingOpenIsNewest
  <2> QED
    BY <2>2, <2>3, <2>4
<1> QED
  BY <1>10, <1>11, <1>12, <1>13, <1>14, <1>15, <1>16, <1>17 DEF RowsInOrder

\* The schedule writes no row a decision writes.
LEMMA ScheduledRows ==
    ASSUME TypeOK, NEW keys \in SUBSET Unwritten(clock), journal' = Scheduled(keys)
    PROVE  /\ \A k \in Key : journal[k].status # "absent" => journal'[k] = journal[k]
           /\ \A k \in Key : Decided(k) \/ k.leg \in {"modify", "stopped"} => journal'[k] = journal[k]
           /\ \A k \in Key : journal'[k] = journal[k] \/ (journal'[k].status = "pending" /\ journal'[k].due = DueAt(k))
<1>1. \A k \in keys : k \in Key /\ journal[k].status = "absent" /\ k.leg \in Leg(k.strat)
  BY DEF Unwritten
<1>2. \A k \in Key : journal'[k] = IF k \in keys THEN PendingRow(DueAt(k), config.volume) ELSE journal[k]
  BY DEF Scheduled
<1>3. ASSUME NEW k \in keys PROVE journal'[k].due = DueAt(k) /\ journal'[k].status = "pending"
  <2>1. journal'[k] = PendingRow(DueAt(k), config.volume)
    BY <1>1, <1>2
  <2> QED
    BY <2>1 DEF PendingRow
<1>4. \A k \in keys : ~Decided(k) /\ k.leg \notin {"modify", "stopped"}
  BY <1>1 DEF Leg, Decided
<1>5. \A k \in Key : k \notin keys => journal'[k] = journal[k]
  BY <1>2
<1>6. \A k \in Key : journal[k].status # "absent" => journal'[k] = journal[k]
  BY <1>1, <1>5
<1>7. ASSUME NEW k \in Key, Decided(k) \/ k.leg \in {"modify", "stopped"} PROVE journal'[k] = journal[k]
  BY <1>4, <1>5, <1>7
<1>8. \A k \in Key : journal'[k] = journal[k] \/ (journal'[k].status = "pending" /\ journal'[k].due = DueAt(k))
  BY <1>3, <1>5
<1> QED
  BY <1>6, <1>7, <1>8

\* What does not depend on the place of the tick.
LEMMA OrderedRows ==
    ASSUME TypeOK, RowsInOrder, NEW keys \in SUBSET Unwritten(clock), journal' = Scheduled(keys),
           UNCHANGED <<clock, bars>>
    PROVE  /\ DecidedOnce' /\ LegKinds' /\ RowsAreRipe' /\ PendingOpenIsNewest'
           /\ \A k \in Key : k.leg = "decide" /\ journal'[k].status # "absent" => journal'[k].due = DueAt(k)
           /\ \A k \in Key : Decided(k) /\ journal'[k].status # "absent" => journal'[k].due <= clock
<1>1. /\ \A k \in Key : journal[k].status # "absent" => journal'[k] = journal[k]
      /\ \A k \in Key : Decided(k) \/ k.leg \in {"modify", "stopped"} => journal'[k] = journal[k]
      /\ \A k \in Key : journal'[k] = journal[k] \/ (journal'[k].status = "pending" /\ journal'[k].due = DueAt(k))
  BY ScheduledRows
<1>2. DecidedOnce'
  <2> SUFFICES ASSUME NEW k \in Key, Decided(k), k.leg # "stopped", journal'[k].status # "absent"
               PROVE  journal'[DecideOf(k)].status \in Final
    BY DEF DecidedOnce, Decided
  <2>1. DecideOf(k) \in Key /\ journal[DecideOf(k)].status \in Final
    BY <1>1 DEF RowsInOrder, DecidedOnce, DecideOf, Key
  <2> QED
    BY <1>1, <2>1 DEF Final
<1>3. LegKinds'
  BY <1>1 DEF RowsInOrder, LegKinds
<1>4. RowsAreRipe'
  BY <1>1 DEF RowsInOrder, RowsAreRipe, Decided, DecideOf, Ripe, BinHas, FirstBar, DueAt
<1>5. PendingOpenIsNewest'
  BY <1>1 DEF RowsInOrder, PendingOpenIsNewest, Decided
<1>6. \A k \in Key : k.leg = "decide" /\ journal'[k].status # "absent" => journal'[k].due = DueAt(k)
  BY <1>1 DEF RowsInOrder, TimesInv
<1>7. \A k \in Key : Decided(k) /\ journal'[k].status # "absent" => journal'[k].due <= clock
  BY <1>1 DEF RowsInOrder, TimesInv
<1> QED
  BY <1>2, <1>3, <1>4, <1>5, <1>6, <1>7

LEMMA OrderedBySchedule ==
    ASSUME TypeOK, RowsInOrder, PartScheduled
    PROVE  RowsInOrder'
<1>1. PICK keys \in SUBSET Unwritten(clock) : journal' = Scheduled(keys)
  BY DEF PartScheduled
<1>2. /\ pc' \in {"down", "idle"} /\ pc = "idle" /\ UNCHANGED <<now, due, cur, clock, bars>>
      /\ Unsettled' = due /\ Unsettled = due /\ due \subseteq Key
  BY DEF PartScheduled, Unsettled, Working, TypeOK, TickTypeOK
<1>3. /\ DecidedOnce' /\ LegKinds' /\ RowsAreRipe' /\ PendingOpenIsNewest'
      /\ \A k \in Key : k.leg = "decide" /\ journal'[k].status # "absent" => journal'[k].due = DueAt(k)
      /\ \A k \in Key : Decided(k) /\ journal'[k].status # "absent" => journal'[k].due <= clock
  BY <1>1, <1>2, OrderedRows
<1>4. \A k \in Key : journal[k].status # "absent" => journal'[k] = journal[k]
  BY <1>1, ScheduledRows
<1>5. UnsettledInv'
  BY <1>2, <1>4 DEF RowsInOrder, UnsettledInv, Working
<1>6. TimesInv'
  BY <1>2, <1>3 DEF TimesInv, DueAt, Decided
<1>7. RipeWhenFlat' /\ OpensAreReached' /\ EarliestFirst'
  BY <1>2 DEF RipeWhenFlat, OpensAreReached, EarliestFirst
<1> QED
  BY <1>3, <1>5, <1>6, <1>7 DEF RowsInOrder

LEMMA OrderedByTick ==
    ASSUME TypeOK, RowsInOrder, Tick
    PROVE  RowsInOrder'
<1> USE DEF bridgeVars, dbVars, tickVars, envVars, historyVars
<1>1. /\ journal' = Scheduled(Unwritten(clock)) /\ now' = clock /\ pc' = "next"
      /\ UNCHANGED <<cur, clock, bars>> /\ clock \in Nat
      /\ Unsettled' = {k \in Key : journal'[k].status = "pending" /\ journal'[k].due <= clock}
  BY DEF Tick, Unsettled, Working, TypeOK, EnvTypeOK
<1>2. /\ DecidedOnce' /\ LegKinds' /\ RowsAreRipe' /\ PendingOpenIsNewest'
      /\ \A k \in Key : k.leg = "decide" /\ journal'[k].status # "absent" => journal'[k].due = DueAt(k)
      /\ \A k \in Key : Decided(k) /\ journal'[k].status # "absent" => journal'[k].due <= clock
  BY <1>1, OrderedRows
<1>3. UnsettledInv'
  BY <1>1 DEF UnsettledInv, Working
<1>4. TimesInv'
  BY <1>1, <1>2 DEF TimesInv, DueAt, Decided
<1>5. RipeWhenFlat' /\ EarliestFirst'
  BY <1>1 DEF RipeWhenFlat, EarliestFirst
<1>6. OpensAreReached'
  BY <1>1, <1>2 DEF OpensAreReached, Decided
<1> QED
  BY <1>2, <1>3, <1>4, <1>5, <1>6 DEF RowsInOrder

LEMMA OrderInit == Init => PlaceInv /\ RowsInOrder
<1> SUFFICES ASSUME Init PROVE PlaceInv /\ RowsInOrder
  OBVIOUS
<1>1. \A k \in Key : journal[k].status = "absent"
  BY DEF Init, Absent, PendingRow
<1>2. pc = "down" /\ due = {} /\ now = 0 /\ clock = 0
  BY DEF Init
<1> QED
  BY <1>1, <1>2 DEF PlaceInv, RowsInOrder, UnsettledInv, Unsettled, Working, TimesInv, RipeWhenFlat, DecidedOnce,
                    LegKinds, OpensAreReached, EarliestFirst, RowsAreRipe, PendingOpenIsNewest

LEMMA OrderStep ==
    ASSUME Fifo, DailyWindow, BarsBeginEarly, TypeOK, TypeOK', PlaceInv, RowsInOrder, [NextH4]_vars
    PROVE  RowsInOrder' /\ RowStep
<1>1. RowStep
  BY RowSteps DEF RowsInOrder
<1> QED
  BY <1>1, OrderedByTick, OrderedBySchedule, OrderedBySettle, OrderedByWrite, OrderedByStop, OrderedByMove,
     OrderedByRest, OrderedByOutside DEF RowStep

-----------------------------------------------------------------------------
\* Tickets.  A ticket names one position for good, so what a request names is what it meant.

AccountInv ==
    /\ \A p, q \in positions : p.ticket = q.ticket => p = q
    /\ \A p \in positions \cup todo : p.ticket < nextTicket
    /\ \A r \in inbox :
          /\ r.pos.ticket < nextTicket
          /\ r.op = "order" => \A p \in positions : p.ticket # r.pos.ticket
    /\ \A r, q \in inbox : r.op = "order" /\ q.op = "order" /\ r.pos.ticket = q.pos.ticket => r = q

StopsRise == \A p \in positions, q \in positions' : p.ticket = q.ticket => q.sl >= p.sl

AccountTypes == positions \subseteq Position /\ todo \subseteq Position /\ inbox \subseteq Request
                /\ nextTicket \in Nat \ {0}

LEMMA AccountTypesHold == TypeOK => AccountTypes
BY DEF TypeOK, BridgeTypeOK, TickTypeOK, EnvTypeOK, AccountTypes

LEMMA StopsStay == TypeOK /\ AccountInv /\ positions' \subseteq positions => StopsRise
<1> SUFFICES ASSUME TypeOK, AccountInv, positions' \subseteq positions,
                    NEW p \in positions, NEW q \in positions', p.ticket = q.ticket
             PROVE  q.sl >= p.sl
  BY DEF StopsRise
<1>1. p = q
  BY DEF AccountInv
<1>2. p.sl \in Nat
  BY AccountTypesHold, BridgeAssumption DEF AccountTypes, Position, BridgeAssumption
<1> QED
  BY <1>1, <1>2

\* Nothing is sent and nothing is filled.
LEMMA AccountKept ==
    ASSUME TypeOK, AccountInv, positions' \subseteq positions, inbox' \subseteq inbox \/ HangUp,
           todo' \subseteq todo, nextTicket' = nextTicket
    PROVE  AccountInv' /\ StopsRise
<1>1. AccountTypes
  BY AccountTypesHold
<1>2. \A x \in inbox' : \E r \in inbox : x.op = r.op /\ x.pos = r.pos /\ (x = r \/ x = [r EXCEPT !.waiting = FALSE])
  BY <1>1 DEF HangUp, AccountTypes, Request
<1>4. StopsRise
  BY StopsStay
<1>5. ASSUME NEW x \in inbox', NEW y \in inbox', x.op = "order", y.op = "order", x.pos.ticket = y.pos.ticket
      PROVE  x = y
  <2>1. CASE inbox' \subseteq inbox
    BY <1>5, <2>1 DEF AccountInv
  <2>2. CASE HangUp
    <3>1. PICK r \in inbox, q \in inbox : x = [r EXCEPT !.waiting = FALSE] /\ y = [q EXCEPT !.waiting = FALSE]
      BY <2>2 DEF HangUp
    <3>2. r.op = "order" /\ q.op = "order" /\ r.pos.ticket = q.pos.ticket
      BY <1>1, <1>5, <3>1 DEF AccountTypes, Request
    <3>3. r = q
      BY <3>2 DEF AccountInv
    <3> QED
      BY <3>1, <3>3
  <2> QED
    BY <2>1, <2>2
<1> QED
  BY <1>2, <1>4, <1>5 DEF AccountInv

\* A request that is no order goes out for a position there is, or was listed.
LEMMA AccountAsks ==
    ASSUME TypeOK, AccountInv, NEW op \in {"close", "modify"}, NEW pos, Send(op, pos),
           UNCHANGED <<positions, nextTicket>>, todo' \subseteq todo \cup positions,
           \E p \in positions \cup todo : pos.ticket = p.ticket
    PROVE  AccountInv' /\ StopsRise
<1>1. AccountTypes
  BY AccountTypesHold
<1> DEFINE ask == [op |-> op, pos |-> pos, waiting |-> TRUE]
<1>2. inbox' = inbox \cup {ask} /\ ask.op = op /\ ask.pos = pos
  BY DEF Send
<1> HIDE DEF ask
<1>3. pos.ticket < nextTicket
  BY DEF AccountInv
<1>4. StopsRise
  BY StopsStay
<1>5. /\ \A p, q \in positions' : p.ticket = q.ticket => p = q
      /\ \A p \in positions' \cup todo' : p.ticket < nextTicket'
  BY DEF AccountInv
<1>6. \A r \in inbox' : r.pos.ticket < nextTicket'
                        /\ (r.op = "order" => r \in inbox /\ \A p \in positions' : p.ticket # r.pos.ticket)
  BY <1>2, <1>3 DEF AccountInv
<1> QED
  BY <1>4, <1>5, <1>6 DEF AccountInv

\* An order goes out under a ticket no one has had.
LEMMA AccountOrders ==
    ASSUME TypeOK, AccountInv, NEW pos, Send("order", pos), pos.ticket = nextTicket,
           nextTicket' = nextTicket + 1, UNCHANGED <<positions, todo>>
    PROVE  AccountInv' /\ StopsRise
<1>1. AccountTypes
  BY AccountTypesHold
<1> DEFINE order == [op |-> "order", pos |-> pos, waiting |-> TRUE]
<1>2. inbox' = inbox \cup {order} /\ order.op = "order" /\ order.pos = pos
  BY DEF Send
<1> HIDE DEF order
<1>3. /\ \A p \in positions \cup todo : p.ticket \in Nat /\ p.ticket < nextTicket
      /\ \A r \in inbox : r.pos.ticket \in Nat /\ r.pos.ticket < nextTicket
      /\ nextTicket \in Nat
  BY <1>1 DEF AccountInv, AccountTypes, Position, Request
<1>4. StopsRise
  BY StopsStay
<1>5. /\ \A p, q \in positions' : p.ticket = q.ticket => p = q
      /\ \A p \in positions' \cup todo' : p.ticket < nextTicket'
  BY <1>3 DEF AccountInv
<1>6. \A r \in inbox' : r.pos.ticket < nextTicket'
                        /\ (r.op = "order" => \A p \in positions' : p.ticket # r.pos.ticket)
  BY <1>2, <1>3 DEF AccountInv
<1>7. ASSUME NEW r \in inbox', NEW q \in inbox', r.op = "order", q.op = "order", r.pos.ticket = q.pos.ticket
      PROVE  r = q
  BY <1>2, <1>3, <1>7 DEF AccountInv
<1> QED
  BY <1>4, <1>5, <1>6, <1>7 DEF AccountInv

\* The terminal works one request off.
LEMMA AccountServes ==
    ASSUME TypeOK, AccountInv, NEW r \in inbox, UNCHANGED <<todo, nextTicket>>,
           FillOrder(r) \/ ClosePosition(r) \/ MoveStop(r) \/ KeepStop(r) \/ PositionGone(r) \/ Refuse(r)
    PROVE  AccountInv' /\ StopsRise
<1>1. AccountTypes
  BY AccountTypesHold
<1>2. inbox' = inbox \ {r}
  BY DEF FillOrder, ClosePosition, MoveStop, KeepStop, PositionGone, Refuse, Answer
<1>3. \A p \in positions : p.sl \in Nat
  BY <1>1, BridgeAssumption DEF AccountTypes, Position, BridgeAssumption
<1>4. CASE FillOrder(r)
  <2>1. positions' = positions \cup {r.pos} /\ r.op = "order"
    BY <1>4 DEF FillOrder
  <2>2. \A p \in positions : p.ticket # r.pos.ticket
    BY <2>1 DEF AccountInv
  <2>3. StopsRise
    BY <1>3, <2>1, <2>2 DEF AccountInv, StopsRise
  <2>4. AccountInv'
    BY <1>2, <2>1, <2>2 DEF AccountInv
  <2> QED
    BY <2>3, <2>4
<1>5. CASE MoveStop(r)
  <2>1. PICK p \in positions : /\ p.ticket = r.pos.ticket /\ r.pos.sl > p.sl
                               /\ positions' = (positions \ {p}) \cup {[p EXCEPT !.sl = r.pos.sl]}
    BY <1>5 DEF MoveStop
  <2> DEFINE moved == [p EXCEPT !.sl = r.pos.sl]
  <2>2. moved.ticket = p.ticket /\ moved.sl = r.pos.sl /\ r.pos.sl \in Nat /\ p.sl \in Nat
    BY <1>1, <1>3, BridgeAssumption DEF AccountTypes, Position, Request, BridgeAssumption
  <2>3. positions' = (positions \ {p}) \cup {moved}
    BY <2>1
  <2> HIDE DEF moved
  <2>4. StopsRise
    BY <1>3, <2>1, <2>2, <2>3 DEF AccountInv, StopsRise
  <2>5. /\ \A x, y \in positions' : x.ticket = y.ticket => x = y
        /\ \A x \in positions' \cup todo' : x.ticket < nextTicket'
    BY <2>2, <2>3 DEF AccountInv
  <2>6. \A x \in positions' : \E y \in positions : x.ticket = y.ticket
    BY <2>2, <2>3
  <2>7. AccountInv'
    BY <1>2, <2>5, <2>6 DEF AccountInv
  <2> QED
    BY <2>4, <2>7
<1>6. CASE ClosePosition(r) \/ KeepStop(r) \/ PositionGone(r) \/ Refuse(r)
  <2>1. positions' \subseteq positions
    BY <1>6 DEF ClosePosition, KeepStop, PositionGone, Refuse
  <2> QED
    BY <1>2, <2>1, AccountKept
<1> QED
  BY <1>4, <1>5, <1>6

LEMMA AccountStep == TypeOK /\ AccountInv /\ [NextH4]_vars => AccountInv' /\ StopsRise
<1> SUFFICES ASSUME TypeOK, AccountInv, [NextH4]_vars PROVE AccountInv' /\ StopsRise
  OBVIOUS
<1> USE DEF bridgeVars, dbVars, tickVars, envVars, historyVars
<1>1. CASE OpenSend
  <2> DEFINE pos == [ticket |-> nextTicket, strat |-> cur.strat, session |-> cur.session,
                     volume |-> journal[cur].volume, sl |-> journal[cur].sl]
  <2>1. Send("order", pos) /\ pos.ticket = nextTicket /\ nextTicket' = nextTicket + 1
        /\ UNCHANGED <<positions, todo>>
    BY <1>1 DEF OpenSend
  <2> HIDE DEF pos
  <2> QED
    BY <2>1, AccountOrders
<1>2. CASE CloseStart \/ CloseAnother
  <2>1. PICK p \in todo' : Send("close", p)
    BY <1>2 DEF CloseStart, CloseAnother
  <2>2. todo' \subseteq todo \cup positions /\ UNCHANGED <<positions, nextTicket>>
    BY <1>2 DEF CloseStart, CloseAnother, PositionsOf
  <2> QED
    BY <2>1, <2>2, AccountAsks
<1>3. CASE H4Trail
  <2>1. CASE config.enabled
    <3>1. PICK stop \in Levels, p \in PositionsOf(cur.strat) : Send("modify", [p EXCEPT !.sl = stop])
      BY <1>3, <2>1 DEF H4Trail
    <3> DEFINE pos == [p EXCEPT !.sl = stop]
    <3>2. p \in positions /\ pos.ticket = p.ticket /\ Send("modify", pos)
      BY <3>1 DEF PositionsOf, TypeOK, BridgeTypeOK, Position
    <3>3. UNCHANGED <<positions, nextTicket, todo>>
      BY <1>3 DEF H4Trail
    <3> HIDE DEF pos
    <3> QED
      BY <3>2, <3>3, AccountAsks
  <2>2. CASE ~config.enabled
    BY <1>3, <2>2, AccountKept DEF H4Trail
  <2> QED
    BY <2>1, <2>2
<1>4. CASE Serve \/ Rejects
  BY <1>4, AccountServes DEF Serve, Rejects
<1>5. CASE OpenRejected \/ CloseRejected \/ Crash \/ TickRaises \/ TrailRejected
  <2>1. UNCHANGED <<positions, nextTicket>> /\ HangUp /\ todo' \subseteq todo
    BY <1>5 DEF OpenRejected, CloseRejected, Crash, TickRaises, TrailRejected, LeaveRow, Rest
  <2> QED
    BY <2>1, AccountKept
<1>6. CASE \/ Tick \/ ScheduleDies \/ NextLeg \/ SkipUnlisted \/ EndTick \/ Decide \/ Boot
           \/ OpenExpires \/ OpenPaused \/ OpenTooLarge \/ OpenDry \/ OpenMay \/ OpenUnreadable \/ OpenTaken
           \/ OpenFilled \/ CloseUnreadable \/ CloseNothing \/ CloseDry \/ CloseFilled \/ CheckKill
  <2>1. UNCHANGED <<positions, inbox, nextTicket>> /\ todo' \subseteq todo
    BY <1>6 DEF Tick, ScheduleDies, NextLeg, SkipUnlisted, EndTick, Rest, Decide, DecideMissed, DecideWaits,
                DecideNothing, DecideLeg, Boot, OpenExpires, OpenPaused, OpenTooLarge, OpenDry, OpenMay,
                OpenUnreadable, OpenTaken, OpenFilled, CloseUnreadable, CloseNothing, CloseDry, CloseFilled,
                CheckKill, FinishRow, LeaveRow
  <2> QED
    BY <2>1, AccountKept
<1>7. CASE \/ H4Waits \/ H4Shut \/ H4Late \/ H4Unreadable \/ H4StoppedOut \/ H4StopKill \/ H4Nothing
           \/ H4Open \/ H4Close \/ TrailFilled \/ ModifyExpires \/ H4Gap
  <2>1. UNCHANGED <<positions, inbox, nextTicket>> /\ todo' \subseteq todo
    BY <1>7 DEF H4Waits, H4Shut, H4Late, H4Unreadable, H4StoppedOut, H4StopKill, H4Nothing, H4Open, H4Close,
                TrailFilled, ModifyExpires, H4Gap, FinishRow, LeaveRow
  <2> QED
    BY <2>1, AccountKept
<1>8. CASE Stopped \/ BarArrives \/ Advance \/ Person \/ UNCHANGED vars
  <2>1. positions' \subseteq positions /\ UNCHANGED <<inbox, todo, nextTicket>>
    BY <1>8 DEF Stopped, StopOut, BarArrives, Advance, Person, vars
  <2> QED
    BY <2>1, AccountKept
<1> QED
  BY <1>1, <1>2, <1>3, <1>4, <1>5, <1>6, <1>7, <1>8 DEF NextH4, H4Decide, Next, Process, Open, Close, Failures

\* A position's stop at the broker only ever rises, whatever requests are late or come twice and in
\* whatever order the bridge serves them (op_modify_sl compares with the stop it finds).
THEOREM StopOnlyRisesHolds == SpecH4 => StopOnlyRises
<1> DEFINE Rise == \A p \in positions, q \in positions' : p.ticket = q.ticket => q.sl >= p.sl
<1>1. Init => AccountInv
  BY DEF Init, BridgeInit, AccountInv
<1>2. TypeOK /\ AccountInv /\ [NextH4]_vars => AccountInv' /\ [Rise]_positions
  BY AccountStep DEF StopsRise
<1>3. SpecH4 => [][Rise]_positions
  BY <1>1, <1>2, TypesHoldH4, PTL DEF SpecH4
<1> QED
  BY <1>3 DEF StopOnlyRises

-----------------------------------------------------------------------------
\* A row is filled once, by the handler that carries it out.

FilledKept(k) == (journal[k].status = "filled" \/ journal'[k].status = "filled") => journal'[k] = journal[k]

\* A row in hand that ends unfilled was not filled before.
LEMMA UnfilledKeeps ==
    ASSUME TypeOK, UnsettledInv, pc \in Working, NEW st, st # "filled", Finish(st)
    PROVE  \A k \in Key : FilledKept(k)
<1>1. cur \in Key /\ journal[cur].status = "pending" /\ journal \in [Key -> Row]
  BY DEF TypeOK, TickTypeOK, DbTypeOK, UnsettledInv, Unsettled
<1>2. /\ \A k \in Key : k # cur => journal'[k] = journal[k]
      /\ journal'[cur].status = st
  BY <1>1 DEF Finish, Row
<1> QED
  BY <1>1, <1>2 DEF FilledKept

LEMMA WriteKeeps ==
    ASSUME TypeOK, RowsInOrder, WriteStep
    PROVE  \A k \in Key : FilledKept(k)
<1>1. PICK leg \in {"open", "close", "modify"}, row \in Row :
        /\ journal' = [journal EXCEPT ![[cur EXCEPT !.leg = leg]] = row, ![cur].status = "decided"]
        /\ row.status \in {"pending", "skipped"}
  BY DEF WriteStep
<1> DEFINE l == [cur EXCEPT !.leg = leg]
<1>2. /\ cur \in Key /\ cur.leg = "decide" /\ l \in Key /\ l.leg = leg /\ l # cur /\ DecideOf(l) = cur /\ Decided(l)
      /\ pc \in Working
  BY DEF WriteStep, TypeOK, TickTypeOK, Key, DecideOf, Decided, Working
<1>3. journal[cur].status = "pending"
  BY <1>2 DEF RowsInOrder, UnsettledInv, Unsettled
<1>4. journal[l].status = "absent"
  BY <1>2, <1>3 DEF RowsInOrder, DecidedOnce, Final
<1>5. /\ \A k \in Key : k # l /\ k # cur => journal'[k] = journal[k]
      /\ journal'[l] = row /\ journal'[cur].status = "decided"
  <2>1. [journal EXCEPT ![l] = row][cur] = journal[cur] /\ journal[cur] \in Row
    BY <1>2 DEF TypeOK, DbTypeOK
  <2> QED
    BY <1>1, <1>2, <2>1 DEF TypeOK, DbTypeOK, Row
<1> HIDE DEF l
<1> QED
  BY <1>1, <1>2, <1>3, <1>4, <1>5 DEF FilledKept

\* What fills a row: an order that filled, a close, a trail, or a stop-out the next decision finds.
LEMMA FilledSteps ==
    ASSUME Fifo, TypeOK, PlaceInv, RowsInOrder, [NextH4]_vars,
           NEW k \in Key, ~FilledKept(k)
    PROVE  \/ OpenFilled /\ k = cur /\ k.leg = "open" /\ journal[k].status = "pending"
           \/ CloseFilled /\ k = cur /\ k.leg = "close" /\ journal[k].status = "pending"
           \/ TrailFilled /\ k = cur /\ k.leg = "modify" /\ journal[k].status = "pending"
           \/ H4StoppedOut /\ k.leg = "stopped" /\ k.strat = cur.strat
<1> USE DEF bridgeVars, dbVars, tickVars, envVars, historyVars
<1>1. CASE Tick \/ ScheduleDies
  <2>1. PICK keys \in SUBSET Unwritten(clock) : journal' = Scheduled(keys)
    BY <1>1 DEF Tick, ScheduleDies
  <2> QED
    BY <2>1, ScheduledRows DEF FilledKept
<1>2. CASE \/ SkipUnlisted \/ DecideMissed \/ DecideNothing \/ OpenExpires \/ OpenPaused \/ OpenTooLarge
           \/ OpenDry \/ OpenUnreadable \/ OpenTaken \/ OpenRejected \/ CloseNothing \/ H4Shut \/ H4Late
           \/ H4Nothing \/ TrailRejected \/ ModifyExpires \/ H4Gap
  <2>1. (\E st : st # "filled" /\ Finish(st)) /\ pc \in Working
    BY <1>2 DEF SkipUnlisted, DecideMissed, DecideNothing, Decidable, AtDaily, OpenExpires, OpenPaused,
                OpenTooLarge, OpenDry, OpenUnreadable, OpenTaken, OpenRejected, CloseNothing, H4Shut, H4Late,
                H4Nothing, H4Flat, H4Held, H4Decidable, AtH4, TrailRejected, ModifyExpires,
                H4Gap, At, FinishRow, Working
  <2> QED
    BY <2>1, UnfilledKeeps DEF RowsInOrder
<1>3. CASE OpenFilled \/ CloseFilled \/ TrailFilled
  <2>1. /\ pc \in Working /\ cur \in Key
        /\ OpenFilled => cur.leg = "open"
        /\ CloseFilled => cur.leg = "close"
        /\ TrailFilled => cur.leg = "modify"
    BY <1>3 DEF OpenFilled, CloseFilled, TrailFilled, PlaceInv, Working, TypeOK, TickTypeOK
  <2>2. journal[cur].status = "pending"
    BY <2>1 DEF RowsInOrder, UnsettledInv, Unsettled
  <2>3. \E row : journal' = [journal EXCEPT ![cur] = row]
    BY <1>3 DEF OpenFilled, CloseFilled, TrailFilled, Finish
  <2>4. k = cur
    BY <2>1, <2>3 DEF FilledKept, TypeOK, DbTypeOK
  <2> QED
    BY <1>3, <2>1, <2>2, <2>4
<1>4. CASE H4StoppedOut
  <2>1. PICK o \in LastOpen(cur.strat) : \E row : journal' = [journal EXCEPT ![[o EXCEPT !.leg = "stopped"]] = row]
    BY <1>4 DEF H4StoppedOut
  <2>2. k = [o EXCEPT !.leg = "stopped"]
    BY <2>1 DEF FilledKept, TypeOK, DbTypeOK
  <2>3. k.leg = "stopped" /\ k.strat = cur.strat
    BY <2>2 DEF LastOpen, FilledOpens, RowsOf, Key
  <2> QED
    BY <1>4, <2>3
<1>5. CASE DecideLeg \/ H4Open \/ H4Close \/ H4Trail
  <2>1. RowStep
    BY RowSteps DEF RowsInOrder
  <2>2. /\ cur.leg = "decide" /\ pc \in {"leg", "flat"} /\ UNCHANGED <<now, clock, bars>>
        /\ pc' \in {"leg", "trailing", "next"}
        /\ journal'[cur].status = "decided" /\ cur \in Key
    <3>1. /\ cur.leg = "decide" /\ pc \in {"leg", "flat"} /\ UNCHANGED <<now, clock, bars>>
          /\ pc' \in {"leg", "trailing", "next"}
      BY <1>5 DEF DecideLeg, Decidable, AtDaily, At, H4Open, H4Close, H4Trail, H4Flat, H4Held, H4Decidable, AtH4, PlaceInv
    <3>2. PICK leg \in {"open", "close", "modify"} : \E row : Write(leg, row)
      BY <1>5 DEF DecideLeg, H4Open, H4Close, H4Trail, Write
    <3>3. PICK row : Write(leg, row)
      BY <3>2
    <3>4. cur \in Key /\ [cur EXCEPT !.leg = leg] # cur /\ journal[cur] \in Row /\ journal \in [Key -> Row]
      BY <3>1, <3>3 DEF TypeOK, TickTypeOK, DbTypeOK, Key
    <3> DEFINE l == [cur EXCEPT !.leg = leg]
               first == [journal EXCEPT ![l] = row]
    <3>5. first[cur] = journal[cur] /\ cur \in DOMAIN first
      BY <3>4
    <3>6. journal' = [first EXCEPT ![cur].status = "decided"]
      BY <3>3 DEF Write
    <3> HIDE DEF l, first
    <3>7. journal'[cur].status = "decided"
      BY <3>4, <3>5, <3>6 DEF Row
    <3> QED
      BY <3>1, <3>4, <3>7
  <2>3. journal[cur].status = "pending"
    BY <2>2 DEF RowsInOrder, UnsettledInv, Unsettled, Working
  <2>4. CASE WriteStep
    BY <2>4, WriteKeeps
  <2>5. CASE SettleStep
    <3>1. journal'[cur].status = "decided" /\ \E row : journal' = [journal EXCEPT ![cur] = row]
      BY <2>2, <2>5 DEF SettleStep
    <3> QED
      BY <2>2, <2>3, <3>1 DEF FilledKept, TypeOK, DbTypeOK
  <2>6. ~Tick /\ ~PartScheduled /\ ~StopStep /\ ~RestStep
    BY <2>2 DEF Tick, PartScheduled, StopStep, RestStep
  <2>7. ~MoveStep /\ ~OutsideStep
    <3>1. journal' # journal
      BY <2>2, <2>3
    <3> QED
      BY <3>1 DEF MoveStep, OutsideStep
  <2> QED
    BY <2>1, <2>4, <2>5, <2>6, <2>7 DEF RowStep
<1>6. CASE \/ NextLeg \/ EndTick \/ DecideWaits \/ OpenMay \/ OpenSend \/ CloseUnreadable \/ CloseDry
           \/ CloseStart \/ CloseAnother \/ CloseRejected \/ CheckKill \/ Boot \/ Crash \/ TickRaises
           \/ H4Waits \/ H4Unreadable \/ H4StopKill
  <2>1. UNCHANGED journal
    BY <1>6 DEF NextLeg, EndTick, DecideWaits, OpenMay, OpenSend, CloseUnreadable, CloseDry,
                CloseStart, CloseAnother, CloseRejected, CheckKill, Boot, Crash, TickRaises, H4Waits,
                H4Unreadable, H4StopKill, LeaveRow
  <2> QED
    BY <2>1 DEF FilledKept
<1>7. CASE Serve \/ Rejects \/ Stopped \/ BarArrives \/ Advance \/ Person \/ UNCHANGED vars
  <2>1. UNCHANGED journal
    BY <1>7 DEF Serve, Rejects, Stopped, BarArrives, Advance, Person, vars
  <2> QED
    BY <2>1 DEF FilledKept
<1> QED
  BY <1>1, <1>2, <1>3, <1>4, <1>5, <1>6, <1>7
     DEF NextH4, H4Decide, Next, Process, Decide, Open, Close, Failures

-----------------------------------------------------------------------------
\* A close with 4h strategies beside it: no trail is at the bridge while it waits.

ClosedInv == pc = "closing" /\ reply = "done" => \A p \in todo, q \in positions : q.ticket # p.ticket

LEMMA ClosingStepH4 ==
    ASSUME Fifo, TypeOK, DeskInv, AccountInv, ClosingInv, ClosedInv, [NextH4]_vars
    PROVE  ClosingInv' /\ ClosedInv'
<1> USE DEF bridgeVars, dbVars, tickVars, envVars, historyVars
<1>1. CASE CloseStart
  <2>1. inbox = {} /\ reply = "none" /\ pc' = "closing" /\ cur.leg = "close"
        /\ UNCHANGED <<positions, reply, cur>> /\ todo' = PositionsOf(cur.strat)
    BY <1>1, ReadableIsIdle DEF CloseStart, At, DeskInv, AnswerIsAwaited, WaitingPlaces
  <2>2. PICK p \in todo' : Send("close", p)
    BY <1>1 DEF CloseStart
  <2>3. p \in positions /\ p.strat = cur.strat /\ todo' = {p}
    BY <2>1, <2>2 DEF PositionsOf, DeskInv, OnePosition
  <2> DEFINE close == [op |-> "close", pos |-> p, waiting |-> TRUE]
  <2>4. inbox' = {close} /\ close.op = "close" /\ close.pos = p
    BY <2>1, <2>2 DEF Send
  <2> HIDE DEF close
  <2> QED
    BY <2>1, <2>3, <2>4 DEF ClosingInv, ClosedInv, PositionsOf
<1>2. ~CloseAnother
  <2> SUFFICES ASSUME CloseAnother PROVE FALSE
    OBVIOUS
  <2>1. PICK p \in todo : todo = {p}
    BY DEF CloseAnother, ClosingInv
  <2>2. todo' = {}
    BY <2>1 DEF CloseAnother
  <2> QED
    BY <2>2 DEF CloseAnother
<1>3. CASE Serve /\ pc = "closing"
  <2>1. PICK r \in inbox : FillOrder(r) \/ ClosePosition(r) \/ MoveStop(r) \/ KeepStop(r) \/ PositionGone(r)
    BY <1>3 DEF Serve
  <2>2. PICK p \in todo : /\ todo = {p} /\ p.strat = cur.strat /\ PositionsOf(cur.strat) \subseteq {p}
                          /\ r.op = "close" /\ r.pos = p /\ \A q \in inbox : q.op = "close" /\ q.pos = p
    BY <1>3, <2>1 DEF ClosingInv
  <2>3. UNCHANGED <<pc, cur, todo>> /\ inbox' = inbox \ {r} /\ cur.leg = "close"
    BY <1>3, <2>1 DEF Serve, FillOrder, ClosePosition, MoveStop, KeepStop, PositionGone, Answer, ClosingInv
  <2>4. CASE ClosePosition(r)
    <3>1. PICK x \in positions : x.ticket = p.ticket /\ positions' = positions \ {x}
      BY <2>2, <2>4 DEF ClosePosition
    <3>2. \A q \in positions' : q.ticket # p.ticket
      BY <3>1 DEF AccountInv
    <3>3. PositionsOf(cur.strat)' \subseteq {p}
      BY <2>2, <2>3, <3>1 DEF PositionsOf
    <3>4. PositionsOf(cur.strat)' = {}
      BY <2>2, <2>3, <3>2, <3>3 DEF PositionsOf
    <3> QED
      BY <2>2, <2>3, <3>2, <3>4 DEF ClosingInv, ClosedInv
  <2>5. CASE PositionGone(r)
    <3>1. UNCHANGED positions /\ (reply' = "done" => reply = "done")
      BY <2>5 DEF PositionGone, Answer
    <3> QED
      BY <2>2, <2>3, <3>1 DEF ClosingInv, ClosedInv, PositionsOf
  <2> QED
    BY <2>1, <2>2, <2>4, <2>5 DEF FillOrder, MoveStop, KeepStop
<1>4. CASE (Rejects \/ Stopped) /\ pc = "closing"
  <2>1. /\ positions' \subseteq positions /\ inbox' \subseteq inbox /\ UNCHANGED <<pc, cur, todo>>
        /\ (reply' = "done" => reply = "done")
    BY <1>4 DEF Rejects, Stopped, Refuse, StopOut, Answer
  <2> QED
    BY <2>1, <1>4 DEF ClosingInv, ClosedInv, PositionsOf
<1>5. CASE BarArrives \/ Advance \/ Person \/ UNCHANGED vars
  <2>1. UNCHANGED <<positions, inbox, reply, pc, cur, todo>>
    BY <1>5 DEF BarArrives, Advance, Person, vars
  <2> QED
    BY <2>1 DEF ClosingInv, ClosedInv, PositionsOf
<1>6. CASE (Serve \/ Rejects \/ Stopped) /\ pc # "closing"
  <2>1. pc' # "closing"
    BY <1>6 DEF Serve, Rejects, Stopped
  <2> QED
    BY <2>1 DEF ClosingInv, ClosedInv
<1>7. CASE Tick \/ ScheduleDies \/ NextLeg \/ SkipUnlisted \/ EndTick \/ Decide \/ Boot \/ Crash \/ TickRaises
  <2>1. pc' # "closing"
    BY <1>7 DEF Tick, ScheduleDies, NextLeg, SkipUnlisted, EndTick, Decide, DecideMissed, DecideWaits,
                DecideNothing, DecideLeg, Decidable, AtDaily, At, FinishRow, LeaveRow, Onward, Rest, Boot,
                Crash, TickRaises
  <2> QED
    BY <2>1 DEF ClosingInv, ClosedInv
<1>8. CASE Open \/ CloseUnreadable \/ CloseNothing \/ CloseDry \/ CloseFilled \/ CloseRejected \/ CheckKill
  <2>1. pc' # "closing"
    BY <1>8 DEF Open, OpenExpires, OpenPaused, OpenTooLarge, OpenDry, OpenMay, OpenUnreadable, OpenTaken,
                OpenSend, OpenFilled, OpenRejected, CloseUnreadable, CloseNothing, CloseDry, CloseFilled,
                CloseRejected, CheckKill, At, FinishRow, LeaveRow, Onward
  <2> QED
    BY <2>1 DEF ClosingInv, ClosedInv
<1>9. CASE H4Decide
  <2>1. pc' # "closing"
    BY <1>9 DEF H4Decide, H4Waits, H4Shut, H4Late, H4Unreadable, H4StoppedOut, H4StopKill, H4Nothing, H4Open,
                H4Close, H4Trail, TrailFilled, TrailRejected, ModifyExpires, H4Gap, H4Flat, H4Held, H4Decidable,
                AtH4, At, FinishRow, LeaveRow, Onward
  <2> QED
    BY <2>1 DEF ClosingInv, ClosedInv
<1> QED
  BY <1>1, <1>2, <1>3, <1>4, <1>5, <1>6, <1>7, <1>8, <1>9 DEF NextH4, Next, Process, Close, Failures

-----------------------------------------------------------------------------
\* The journal beside the account.

FilledOpen(o) == o.leg = "open" /\ journal[o].status = "filled"
FilledTrail(m) == m.leg = "modify" /\ journal[m].status = "filled"

\* The ticket of a filled open is its own, of its strategy, and of no order still to fill.
OpenTicketsInv ==
    \A o \in Key : FilledOpen(o) =>
        /\ journal[o].ticket < nextTicket
        /\ \A r \in inbox : r.op = "order" => r.pos.ticket # journal[o].ticket
        /\ pc = "ordering" => journal[o].ticket # nextTicket - 1
        /\ \A p \in positions : p.ticket = journal[o].ticket => p.strat = o.strat
        /\ pc = "closing" => \A p \in todo : p.ticket = journal[o].ticket => p.strat = o.strat
        /\ \A q \in Key : FilledOpen(q) /\ journal[q].ticket = journal[o].ticket => q = o

\* What an order in flight asks for is what its row says.
OrderingInv ==
    pc = "ordering" =>
        /\ \A r \in inbox : r.op = "order" /\ r.pos.ticket = nextTicket - 1 =>
              r.pos.sl = journal[cur].sl /\ r.pos.strat = cur.strat
        /\ \A p \in positions : p.ticket = nextTicket - 1 => p.sl >= journal[cur].sl /\ p.strat = cur.strat

\* So is what a trail in flight asks for, and done means that the stop is there.
TrailingInv ==
    pc = "trailing" =>
        /\ \A r \in inbox : /\ r.op = "modify" /\ r.pos.sl = journal[cur].sl
                            /\ \A p \in PositionsOf(cur.strat) : p.ticket = r.pos.ticket
        /\ reply = "done" => \A p \in PositionsOf(cur.strat) : p.sl >= journal[cur].sl

\* Neither the open's stop nor a later trail's is above the position's.
SafeInv ==
    \A p \in positions, o \in Key : FilledOpen(o) /\ journal[o].ticket = p.ticket =>
        /\ journal[o].sl <= p.sl
        /\ \A m \in Key : FilledTrail(m) /\ m.strat = o.strat /\ journal[m].due > journal[o].due
                             => journal[m].sl <= p.sl

\* Of the trails of a strategy one is the latest.
TrailsHaveLast ==
    \A m \in Key : FilledTrail(m) =>
        \E l \in Key : /\ FilledTrail(l) /\ l.strat = m.strat
                       /\ \A x \in Key : FilledTrail(x) /\ x.strat = m.strat => journal[x].due <= journal[l].due

StopInv == OpenTicketsInv /\ OrderingInv /\ TrailingInv /\ SafeInv /\ TrailsHaveLast

\* No open and no trail is filled, nothing is asked for, and no stop moves.
LEMMA StopsKept ==
    ASSUME TypeOK, StopInv, positions' \subseteq positions, nextTicket' = nextTicket,
           \A r \in inbox' : \E q \in inbox : r.op = q.op /\ r.pos = q.pos,
           \A k \in Key : k.leg \in {"open", "modify"} => FilledKept(k),
           pc' = "ordering" => pc = "ordering" /\ UNCHANGED <<cur, journal>>,
           pc' = "trailing" => pc = "trailing" /\ UNCHANGED <<cur, journal>> /\ (reply' = "done" => reply = "done"),
           pc' = "closing" => (pc = "closing" /\ todo' = todo) \/ todo' \subseteq positions
    PROVE  StopInv'
<1>1. \A k \in Key : /\ FilledOpen(k)' => FilledOpen(k) /\ journal'[k] = journal[k]
                     /\ FilledTrail(k)' => FilledTrail(k) /\ journal'[k] = journal[k]
                     /\ FilledTrail(k) => FilledTrail(k)'
  BY DEF FilledOpen, FilledTrail, FilledKept
<1>2. OpenTicketsInv'
  <2> SUFFICES ASSUME NEW o \in Key, FilledOpen(o)'
               PROVE  /\ journal'[o].ticket < nextTicket'
                      /\ \A r \in inbox' : r.op = "order" => r.pos.ticket # journal'[o].ticket
                      /\ pc' = "ordering" => journal'[o].ticket # nextTicket' - 1
                      /\ \A p \in positions' : p.ticket = journal'[o].ticket => p.strat = o.strat
                      /\ pc' = "closing" => \A p \in todo' : p.ticket = journal'[o].ticket => p.strat = o.strat
                      /\ \A q \in Key : FilledOpen(q)' /\ journal'[q].ticket = journal'[o].ticket => q = o
    BY DEF OpenTicketsInv
  <2>1. FilledOpen(o) /\ journal'[o] = journal[o]
    BY <1>1
  <2>2. \A q \in Key : FilledOpen(q)' /\ journal'[q].ticket = journal'[o].ticket => q = o
    BY <1>1, <2>1 DEF StopInv, OpenTicketsInv
  <2> QED
    BY <2>1, <2>2 DEF StopInv, OpenTicketsInv
<1>3. OrderingInv'
  BY DEF StopInv, OrderingInv
<1>4. TrailingInv'
  BY DEF StopInv, TrailingInv, PositionsOf
<1>5. SafeInv'
  <2> SUFFICES ASSUME NEW p \in positions', NEW o \in Key, FilledOpen(o)', journal'[o].ticket = p.ticket
               PROVE  /\ journal'[o].sl <= p.sl
                      /\ \A m \in Key : FilledTrail(m)' /\ m.strat = o.strat /\ journal'[m].due > journal'[o].due
                                           => journal'[m].sl <= p.sl
    BY DEF SafeInv
  <2> QED
    BY <1>1 DEF StopInv, SafeInv
<1>6. TrailsHaveLast'
  BY <1>1 DEF StopInv, TrailsHaveLast
<1> QED
  BY <1>2, <1>3, <1>4, <1>5, <1>6 DEF StopInv

\* Types the steps below need.
LEMMA StopTypes ==
    TypeOK => /\ \A p \in positions \cup todo : p \in Position /\ p.sl \in Nat /\ p.ticket \in Nat
              /\ \A r \in inbox : r \in Request /\ r.pos \in Position /\ r.pos.sl \in Nat /\ r.pos.ticket \in Nat
              /\ journal \in [Key -> Row] /\ cur \in Key /\ nextTicket \in Nat
              /\ \A k \in Key : journal[k].sl \in Nat /\ journal[k].due \in Nat /\ journal[k].ticket \in Nat
<1> SUFFICES ASSUME TypeOK
             PROVE  /\ \A p \in positions \cup todo : p \in Position /\ p.sl \in Nat /\ p.ticket \in Nat
                    /\ \A r \in inbox : r \in Request /\ r.pos \in Position /\ r.pos.sl \in Nat /\ r.pos.ticket \in Nat
                    /\ journal \in [Key -> Row] /\ cur \in Key /\ nextTicket \in Nat
                    /\ \A k \in Key : journal[k].sl \in Nat /\ journal[k].due \in Nat /\ journal[k].ticket \in Nat
  OBVIOUS
<1>1. \A p \in Position : p.sl \in Nat /\ p.ticket \in Nat
  BY BridgeAssumption DEF Position, BridgeAssumption
<1>2. \A r \in Request : r.pos \in Position
  BY DEF Request
<1>3. positions \subseteq Position /\ todo \subseteq Position /\ inbox \subseteq Request
  BY DEF TypeOK, BridgeTypeOK, TickTypeOK
<1>4. journal \in [Key -> Row] /\ cur \in Key /\ nextTicket \in Nat
  BY DEF TypeOK, DbTypeOK, TickTypeOK, EnvTypeOK
<1>5. \A row \in Row : row.sl \in Nat /\ row.due \in Nat /\ row.ticket \in Nat
  BY BridgeAssumption DEF Row, BridgeAssumption
<1> QED
  BY <1>1, <1>2, <1>3, <1>4, <1>5

LEMMA StopsByOrder ==
    ASSUME Fifo, TypeOK, AccountInv, StopInv, OpenSend
    PROVE  StopInv'
<1> USE DEF bridgeVars, dbVars, tickVars, envVars, historyVars
<1> DEFINE pos == [ticket |-> nextTicket, strat |-> cur.strat, session |-> cur.session,
                   volume |-> journal[cur].volume, sl |-> journal[cur].sl]
           order == [op |-> "order", pos |-> pos, waiting |-> TRUE]
<1>1. /\ inbox' = {order} /\ nextTicket' = nextTicket + 1 /\ pc' = "ordering"
      /\ UNCHANGED <<positions, journal, cur, todo>>
  BY ReadableIsIdle DEF OpenSend, Send
<1>2. order.op = "order" /\ order.pos = pos /\ pos.ticket = nextTicket /\ pos.sl = journal[cur].sl /\ pos.strat = cur.strat
  OBVIOUS
<1> HIDE DEF order, pos
<1>3. \A p \in positions : p.ticket < nextTicket /\ p.ticket \in Nat
  BY StopTypes DEF AccountInv
<1>4. nextTicket \in Nat /\ \A k \in Key : journal[k].ticket \in Nat
  BY StopTypes
<1>5. OpenTicketsInv'
  <2> SUFFICES ASSUME NEW o \in Key, FilledOpen(o)
               PROVE  /\ journal[o].ticket < nextTicket'
                      /\ \A r \in inbox' : r.op = "order" => r.pos.ticket # journal[o].ticket
                      /\ journal[o].ticket # nextTicket' - 1
                      /\ \A p \in positions : p.ticket = journal[o].ticket => p.strat = o.strat
                      /\ \A q \in Key : FilledOpen(q) /\ journal[q].ticket = journal[o].ticket => q = o
    BY <1>1 DEF OpenTicketsInv, FilledOpen
  <2>1. journal[o].ticket < nextTicket
    BY DEF StopInv, OpenTicketsInv
  <2> QED
    BY <1>1, <1>2, <1>4, <2>1 DEF StopInv, OpenTicketsInv
<1>6. OrderingInv'
  BY <1>1, <1>2, <1>3, <1>4 DEF OrderingInv
<1>7. TrailingInv'
  BY <1>1 DEF TrailingInv
<1>8. SafeInv' /\ TrailsHaveLast'
  BY <1>1 DEF StopInv, SafeInv, TrailsHaveLast, FilledOpen, FilledTrail
<1> QED
  BY <1>5, <1>6, <1>7, <1>8 DEF StopInv

LEMMA StopsByFill ==
    ASSUME TypeOK, AccountInv, ClosingInv, StopInv, NEW r \in inbox, FillOrder(r),
           UNCHANGED <<dbVars, tickVars, envVars>>
    PROVE  StopInv'
<1> USE DEF dbVars, tickVars, envVars
<1>1. /\ positions' = positions \cup {r.pos} /\ inbox' = inbox \ {r} /\ r.op = "order"
      /\ UNCHANGED <<journal, pc, cur, todo, nextTicket>>
  BY DEF FillOrder, Answer
<1>2. pc # "trailing" /\ pc # "closing"
  BY <1>1 DEF StopInv, TrailingInv, ClosingInv
<1>3. OpenTicketsInv'
  <2> SUFFICES ASSUME NEW o \in Key, FilledOpen(o)
               PROVE  /\ journal[o].ticket < nextTicket
                      /\ \A q \in inbox' : q.op = "order" => q.pos.ticket # journal[o].ticket
                      /\ pc = "ordering" => journal[o].ticket # nextTicket - 1
                      /\ \A p \in positions' : p.ticket = journal[o].ticket => p.strat = o.strat
                      /\ \A q \in Key : FilledOpen(q) /\ journal[q].ticket = journal[o].ticket => q = o
    BY <1>1, <1>2 DEF OpenTicketsInv, FilledOpen
  <2> QED
    BY <1>1 DEF StopInv, OpenTicketsInv
<1>4. OrderingInv'
  BY <1>1, StopTypes DEF StopInv, OrderingInv
<1>5. TrailingInv'
  BY <1>1, <1>2 DEF TrailingInv
<1>6. SafeInv'
  <2> SUFFICES ASSUME NEW p \in positions', NEW o \in Key, FilledOpen(o), journal[o].ticket = p.ticket
               PROVE  /\ journal[o].sl <= p.sl
                      /\ \A m \in Key : FilledTrail(m) /\ m.strat = o.strat /\ journal[m].due > journal[o].due
                                           => journal[m].sl <= p.sl
    BY <1>1 DEF SafeInv, FilledOpen, FilledTrail
  <2>1. p # r.pos
    BY <1>1 DEF StopInv, OpenTicketsInv
  <2> QED
    BY <1>1, <2>1 DEF StopInv, SafeInv
<1>7. TrailsHaveLast'
  BY <1>1 DEF StopInv, TrailsHaveLast, FilledTrail
<1> QED
  BY <1>3, <1>4, <1>5, <1>6, <1>7 DEF StopInv

LEMMA StopsByMove ==
    ASSUME TypeOK, AccountInv, StopInv, NEW r \in inbox, MoveStop(r),
           UNCHANGED <<dbVars, tickVars, envVars>>
    PROVE  StopInv'
<1> USE DEF dbVars, tickVars, envVars
<1>1. PICK p \in positions : /\ p.ticket = r.pos.ticket /\ r.pos.sl > p.sl
                             /\ positions' = (positions \ {p}) \cup {[p EXCEPT !.sl = r.pos.sl]}
  BY DEF MoveStop
<1> DEFINE moved == [p EXCEPT !.sl = r.pos.sl]
<1>2. moved.ticket = p.ticket /\ moved.strat = p.strat /\ moved.sl = r.pos.sl /\ r.pos.sl \in Nat /\ p.sl \in Nat
  BY StopTypes DEF Position
<1>3. /\ positions' = (positions \ {p}) \cup {moved} /\ inbox' = inbox \ {r} /\ r.op = "modify"
      /\ UNCHANGED <<journal, pc, cur, todo, nextTicket>>
  BY <1>1 DEF MoveStop, Answer
<1> HIDE DEF moved
<1>4. \A x \in positions' : \E y \in positions : x.ticket = y.ticket /\ x.strat = y.strat /\ x.sl >= y.sl /\ y.sl \in Nat /\ x.sl \in Nat
  <2> TAKE x \in positions'
  <2>1. CASE x = moved
    BY <1>1, <1>2, <2>1
  <2>2. CASE x \in positions
    <3>1. x.sl \in Nat
      BY <2>2, StopTypes
    <3> QED
      BY <2>2, <3>1
  <2> QED
    BY <1>3, <2>1, <2>2
<1>5. OpenTicketsInv'
  <2> SUFFICES ASSUME NEW o \in Key, FilledOpen(o)
               PROVE  /\ journal[o].ticket < nextTicket
                      /\ \A q \in inbox' : q.op = "order" => q.pos.ticket # journal[o].ticket
                      /\ pc = "ordering" => journal[o].ticket # nextTicket - 1
                      /\ \A x \in positions' : x.ticket = journal[o].ticket => x.strat = o.strat
                      /\ pc = "closing" => \A x \in todo : x.ticket = journal[o].ticket => x.strat = o.strat
                      /\ \A q \in Key : FilledOpen(q) /\ journal[q].ticket = journal[o].ticket => q = o
    BY <1>3 DEF OpenTicketsInv, FilledOpen
  <2>1. \A x \in positions' : x.ticket = journal[o].ticket => x.strat = o.strat
    BY <1>4 DEF StopInv, OpenTicketsInv
  <2> QED
    BY <1>3, <2>1 DEF StopInv, OpenTicketsInv
<1>6. OrderingInv'
  <2> SUFFICES ASSUME pc = "ordering"
               PROVE  /\ \A q \in inbox' : q.op = "order" /\ q.pos.ticket = nextTicket - 1 =>
                            q.pos.sl = journal[cur].sl /\ q.pos.strat = cur.strat
                      /\ \A x \in positions' : x.ticket = nextTicket - 1 => x.sl >= journal[cur].sl /\ x.strat = cur.strat
    BY <1>3 DEF OrderingInv
  <2>1. \A x \in positions' : x.ticket = nextTicket - 1 => x.sl >= journal[cur].sl /\ x.strat = cur.strat
    BY <1>4, StopTypes DEF StopInv, OrderingInv
  <2> QED
    BY <1>3, <2>1 DEF StopInv, OrderingInv
<1>7. TrailingInv'
  <2> SUFFICES ASSUME pc = "trailing"
               PROVE  /\ \A q \in inbox' : /\ q.op = "modify" /\ q.pos.sl = journal[cur].sl
                                           /\ \A x \in PositionsOf(cur.strat)' : x.ticket = q.pos.ticket
                      /\ \A x \in PositionsOf(cur.strat)' : x.sl >= journal[cur].sl
    BY <1>3 DEF TrailingInv, PositionsOf
  <2>1. r.pos.sl = journal[cur].sl /\ \A x \in positions : x.strat = cur.strat => x.ticket = p.ticket
    BY <1>1 DEF StopInv, TrailingInv, PositionsOf
  <2>2. \A x \in positions' : x.strat = cur.strat => x.ticket = p.ticket
    BY <1>4, <2>1
  <2>3. \A q \in inbox' : q.op = "modify" /\ q.pos.sl = journal[cur].sl
                           /\ \A x \in positions : x.strat = cur.strat => x.ticket = q.pos.ticket
    BY <1>3 DEF StopInv, TrailingInv, PositionsOf
  <2>4. \A x \in positions' : x.strat = cur.strat => x.ticket = r.pos.ticket /\ x = moved
    BY <1>1, <1>3, <2>2 DEF AccountInv
  <2>5. \A x \in positions' : x.strat = cur.strat => x.sl >= journal[cur].sl
    BY <1>2, <2>1, <2>4
  <2>6. \A q \in inbox', x \in positions' : x.strat = cur.strat => x.ticket = q.pos.ticket
    BY <1>3, <1>4, <2>3
  <2> QED
    BY <1>3, <2>3, <2>5, <2>6 DEF PositionsOf
<1>8. SafeInv'
  <2> SUFFICES ASSUME NEW x \in positions', NEW o \in Key, FilledOpen(o), journal[o].ticket = x.ticket
               PROVE  /\ journal[o].sl <= x.sl
                      /\ \A m \in Key : FilledTrail(m) /\ m.strat = o.strat /\ journal[m].due > journal[o].due
                                           => journal[m].sl <= x.sl
    BY <1>3 DEF SafeInv, FilledOpen, FilledTrail
  <2>1. PICK y \in positions : x.ticket = y.ticket /\ x.sl >= y.sl /\ y.sl \in Nat /\ x.sl \in Nat
    BY <1>4
  <2>2. \A k \in Key : journal[k].sl \in Nat
    BY StopTypes
  <2> QED
    BY <2>1, <2>2 DEF StopInv, SafeInv
<1>9. TrailsHaveLast'
  BY <1>3 DEF StopInv, TrailsHaveLast, FilledTrail
<1> QED
  BY <1>5, <1>6, <1>7, <1>8, <1>9 DEF StopInv

\* The order filled: its row is the newest of its strategy, so no trail is due after it.
LEMMA StopsByFilledOpen ==
    ASSUME TypeOK, DeskInv, PlaceInv, RowsInOrder, StopInv, OpenFilled
    PROVE  StopInv'
<1> USE DEF bridgeVars, dbVars, tickVars, envVars, historyVars
<1>1. /\ pc = "ordering" /\ pc' = "next" /\ inbox = {} /\ cur \in Key /\ cur.leg = "open"
      /\ UNCHANGED <<positions, inbox, nextTicket>>
  BY StopTypes DEF OpenFilled, Onward, DeskInv, AnswerIsAwaited, PlaceInv
<1>2. /\ \A k \in Key : k # cur => journal'[k] = journal[k]
      /\ journal'[cur].status = "filled" /\ journal'[cur].ticket = nextTicket - 1
      /\ journal'[cur].sl = journal[cur].sl /\ journal'[cur].due = journal[cur].due
  <2>1. journal[cur] \in Row /\ journal \in [Key -> Row]
    BY <1>1, StopTypes
  <2> DEFINE row == [journal[cur] EXCEPT !.status = "filled", !.ticket = nextTicket - 1]
  <2>2. row.status = "filled" /\ row.ticket = nextTicket - 1 /\ row.sl = journal[cur].sl /\ row.due = journal[cur].due
    BY <2>1 DEF Row
  <2>3. journal' = [journal EXCEPT ![cur] = row]
    BY DEF OpenFilled
  <2> HIDE DEF row
  <2> QED
    BY <1>1, <2>1, <2>2, <2>3
<1>3. journal[cur].status = "pending" /\ ~FilledOpen(cur)
  BY <1>1 DEF RowsInOrder, UnsettledInv, Unsettled, Working, FilledOpen
<1>4. /\ \A k \in Key : k # cur => (FilledOpen(k)' <=> FilledOpen(k))
      /\ \A k \in Key : FilledTrail(k)' <=> FilledTrail(k)
      /\ \A k \in Key : FilledTrail(k) => k # cur
  BY <1>1, <1>2 DEF FilledOpen, FilledTrail
<1>5. \A p \in positions : p.ticket = nextTicket - 1 => p.sl >= journal[cur].sl /\ p.strat = cur.strat
  BY <1>1 DEF StopInv, OrderingInv
<1>6. \A o \in Key : FilledOpen(o) => journal[o].ticket # nextTicket - 1
  BY <1>1 DEF StopInv, OpenTicketsInv
<1>7. nextTicket \in Nat /\ \A k \in Key : journal[k].sl \in Nat /\ journal[k].due \in Nat
  BY StopTypes
<1>8. OpenTicketsInv'
  <2> SUFFICES ASSUME NEW o \in Key, FilledOpen(o)'
               PROVE  /\ journal'[o].ticket < nextTicket
                      /\ \A p \in positions : p.ticket = journal'[o].ticket => p.strat = o.strat
                      /\ \A q \in Key : FilledOpen(q)' /\ journal'[q].ticket = journal'[o].ticket => q = o
    BY <1>1 DEF OpenTicketsInv, FilledOpen
  <2>1. CASE o = cur
    BY <1>2, <1>4, <1>5, <1>6, <1>7, <2>1
  <2>2. CASE o # cur
    <3>1. FilledOpen(o) /\ journal'[o] = journal[o] /\ journal[o].ticket # nextTicket - 1
      BY <1>2, <1>4, <1>6, <2>2
    <3>2. \A q \in Key : FilledOpen(q)' /\ journal'[q].ticket = journal'[o].ticket => q = o
      BY <1>2, <1>4, <3>1 DEF StopInv, OpenTicketsInv
    <3> QED
      BY <3>1, <3>2 DEF StopInv, OpenTicketsInv
  <2> QED
    BY <2>1, <2>2
<1>9. SafeInv'
  <2> SUFFICES ASSUME NEW p \in positions, NEW o \in Key, FilledOpen(o)', journal'[o].ticket = p.ticket
               PROVE  /\ journal'[o].sl <= p.sl
                      /\ \A m \in Key : FilledTrail(m) /\ m.strat = o.strat /\ journal[m].due > journal'[o].due
                                           => journal[m].sl <= p.sl
    BY <1>1, <1>2, <1>4 DEF SafeInv
  <2>1. CASE o = cur
    <3>1. p.sl >= journal[cur].sl /\ p.sl \in Nat
      BY <1>2, <1>5, <2>1, StopTypes
    <3>2. ASSUME NEW m \in Key, FilledTrail(m), m.strat = cur.strat
          PROVE  journal[m].due <= journal[cur].due
      <4>1. Kind[m.strat] = "h4"
        BY <3>2 DEF RowsInOrder, LegKinds, FilledTrail
      <4>2. Decided(m) /\ Decided(cur)
        BY <1>1, <3>2, <4>1 DEF Decided, FilledTrail
      <4> QED
        BY <1>1, <1>3, <3>2, <4>2 DEF RowsInOrder, PendingOpenIsNewest, FilledTrail
    <3>3. \A m \in Key : FilledTrail(m) /\ m.strat = o.strat => ~(journal[m].due > journal'[o].due)
      BY <1>2, <1>7, <2>1, <3>2
    <3> QED
      BY <1>2, <1>7, <2>1, <3>1, <3>3
  <2>2. CASE o # cur
    BY <1>2, <1>4, <2>2 DEF StopInv, SafeInv
  <2> QED
    BY <2>1, <2>2
<1>10. OrderingInv' /\ TrailingInv'
  BY <1>1 DEF OrderingInv, TrailingInv
<1>11. TrailsHaveLast'
  BY <1>2, <1>4 DEF StopInv, TrailsHaveLast
<1> QED
  BY <1>8, <1>9, <1>10, <1>11 DEF StopInv

\* The trail is made: the position's stop is where its row says.
LEMMA StopsByFilledTrail ==
    ASSUME TypeOK, DeskInv, PlaceInv, RowsInOrder, StopInv, TrailFilled
    PROVE  StopInv'
<1> USE DEF bridgeVars, dbVars, tickVars, envVars, historyVars
<1>1. /\ pc = "trailing" /\ pc' = "next" /\ inbox = {} /\ cur \in Key /\ cur.leg = "modify" /\ reply = "done"
      /\ UNCHANGED <<positions, inbox, nextTicket>>
  BY StopTypes DEF TrailFilled, Onward, DeskInv, AnswerIsAwaited, PlaceInv
<1>2. /\ \A k \in Key : k # cur => journal'[k] = journal[k]
      /\ journal'[cur].status = "filled"
      /\ journal'[cur].sl = journal[cur].sl /\ journal'[cur].due = journal[cur].due
  <2>1. journal[cur] \in Row /\ journal \in [Key -> Row]
    BY <1>1, StopTypes
  <2>2. journal' = [journal EXCEPT ![cur].status = "filled"]
    BY DEF TrailFilled, Finish
  <2> QED
    BY <1>1, <2>1, <2>2 DEF Row
<1>3. /\ \A k \in Key : FilledOpen(k)' <=> FilledOpen(k) /\ journal'[k] = journal[k]
      /\ \A k \in Key : FilledTrail(k)' <=> FilledTrail(k) \/ k = cur
      /\ \A k \in Key : FilledOpen(k) => k # cur
      /\ \A k \in Key : journal'[k].sl = journal[k].sl /\ journal'[k].due = journal[k].due
  BY <1>1, <1>2 DEF FilledOpen, FilledTrail
<1>4. \A p \in positions : p.strat = cur.strat => p.sl >= journal[cur].sl
  BY <1>1 DEF StopInv, TrailingInv, PositionsOf
<1>5. \A k \in Key : journal[k].sl \in Nat /\ journal[k].due \in Nat
  BY StopTypes
<1>6. OpenTicketsInv'
  BY <1>1, <1>3 DEF StopInv, OpenTicketsInv
<1>7. SafeInv'
  <2> SUFFICES ASSUME NEW p \in positions, NEW o \in Key, FilledOpen(o), journal[o].ticket = p.ticket
               PROVE  /\ journal[o].sl <= p.sl
                      /\ \A m \in Key : FilledTrail(m)' /\ m.strat = o.strat /\ journal[m].due > journal[o].due
                                           => journal[m].sl <= p.sl
    BY <1>1, <1>3 DEF SafeInv
  <2>1. p.strat = o.strat /\ p.sl \in Nat
    BY StopTypes DEF StopInv, OpenTicketsInv
  <2>2. ASSUME cur.strat = o.strat PROVE journal[cur].sl <= p.sl
    BY <1>4, <1>5, <1>1, <2>1, <2>2
  <2> QED
    BY <1>3, <2>2 DEF StopInv, SafeInv
<1>8. OrderingInv' /\ TrailingInv'
  BY <1>1 DEF OrderingInv, TrailingInv
<1>9. TrailsHaveLast'
  <2> SUFFICES ASSUME NEW m \in Key, FilledTrail(m)'
               PROVE  \E l \in Key : /\ FilledTrail(l)' /\ l.strat = m.strat
                                     /\ \A x \in Key : FilledTrail(x)' /\ x.strat = m.strat => journal[x].due <= journal[l].due
    BY <1>3 DEF TrailsHaveLast
  <2>1. CASE m.strat # cur.strat
    BY <1>3, <2>1 DEF StopInv, TrailsHaveLast
  <2>2. CASE m.strat = cur.strat /\ \A x \in Key : FilledTrail(x) => x.strat # cur.strat
    BY <1>1, <1>3, <1>5, <2>2
  <2>3. CASE m.strat = cur.strat /\ \E x \in Key : FilledTrail(x) /\ x.strat = cur.strat
    <3>1. PICK l \in Key : /\ FilledTrail(l) /\ l.strat = cur.strat
                           /\ \A x \in Key : FilledTrail(x) /\ x.strat = cur.strat => journal[x].due <= journal[l].due
      BY <2>3 DEF StopInv, TrailsHaveLast
    <3>2. CASE journal[cur].due <= journal[l].due
      <4>1. \A x \in Key : FilledTrail(x)' /\ x.strat = cur.strat => journal[x].due <= journal[l].due
        BY <1>3, <3>1, <3>2
      <4> QED
        BY <1>3, <2>3, <3>1, <4>1
    <3>3. CASE journal[l].due <= journal[cur].due
      <4>1. \A x \in Key : FilledTrail(x)' /\ x.strat = cur.strat => journal[x].due <= journal[cur].due
        BY <1>1, <1>3, <1>5, <3>1, <3>3
      <4> QED
        BY <1>1, <1>3, <2>3, <4>1
    <3> QED
      BY <1>1, <1>5, <3>2, <3>3
  <2> QED
    BY <2>1, <2>2, <2>3
<1> QED
  BY <1>6, <1>7, <1>8, <1>9 DEF StopInv

\* A trail is sent with the stop its row names.
LEMMA StopsByTrail ==
    ASSUME Fifo, TypeOK, DeskInv, RowsInOrder, PlaceInv, StopInv, H4Trail
    PROVE  StopInv'
<1> USE DEF bridgeVars, dbVars, tickVars, envVars, historyVars
<1>1. /\ pc = "leg" /\ cur.leg = "decide" /\ inbox = {} /\ reply # "done" /\ cur \in Key
      /\ UNCHANGED <<positions, reply, nextTicket>>
  BY ReadableIsIdle, StopTypes
     DEF H4Trail, H4Held, H4Decidable, AtH4, At, DeskInv, AnswerIsAwaited, WaitingPlaces
<1>2. PICK stop \in Levels, p \in PositionsOf(cur.strat) :
        /\ Write("modify", [PendingRow(now, config.volume) EXCEPT
                              !.sl = stop, !.ticket = p.ticket,
                              !.status = IF config.enabled THEN "pending" ELSE "skipped"])
        /\ IF config.enabled
           THEN /\ Send("modify", [p EXCEPT !.sl = stop])
                /\ cur' = [cur EXCEPT !.leg = "modify"]
                /\ pc' = "trailing"
           ELSE pc' = "next" /\ UNCHANGED inbox
  BY DEF H4Trail
<1>3. \A k \in Key : FilledKept(k)
  <2>1. ~OpenFilled /\ ~CloseFilled /\ ~TrailFilled
    BY <1>1 DEF OpenFilled, CloseFilled, TrailFilled
  <2>2. ~H4StoppedOut
    BY <1>2 DEF H4StoppedOut
  <2>3. [NextH4]_vars
    BY DEF NextH4, H4Decide
  <2> QED
    BY <2>1, <2>2, <2>3, FilledSteps
<1>4. CASE ~config.enabled
  <2>1. pc' = "next" /\ UNCHANGED inbox
    BY <1>2, <1>4
  <2> QED
    BY <1>1, <1>3, <2>1, StopsKept
<1>5. CASE config.enabled
  <2>1. PICK l \in Key, trail \in Request, row \in Row :
          /\ l = [cur EXCEPT !.leg = "modify"] /\ trail.op = "modify" /\ trail.pos = [p EXCEPT !.sl = stop]
          /\ inbox' = {trail} /\ cur' = l /\ pc' = "trailing" /\ row.sl = stop
          /\ journal' = [journal EXCEPT ![l] = row, ![cur].status = "decided"]
    <3> DEFINE row == [PendingRow(now, config.volume) EXCEPT
                          !.sl = stop, !.ticket = p.ticket,
                          !.status = IF config.enabled THEN "pending" ELSE "skipped"]
               pos == [p EXCEPT !.sl = stop]
               trail == [op |-> "modify", pos |-> pos, waiting |-> TRUE]
               l == [cur EXCEPT !.leg = "modify"]
    <3>1. pos \in Position
      BY StopTypes DEF PositionsOf, Position
    <3>2. trail \in Request /\ trail.op = "modify" /\ trail.pos = pos
      BY <3>1 DEF Request
    <3>3. PendingRow(now, config.volume) \in Row
      BY RowTypes, ConfigTypes DEF TypeOK, TickTypeOK, EnvTypeOK
    <3>4. row \in Row /\ row.sl = stop
      BY <3>3, StopTypes DEF Row, PositionsOf, Final
    <3>5. l \in Key
      BY <1>1 DEF Key
    <3>6. /\ inbox' = {trail} /\ cur' = l /\ pc' = "trailing"
          /\ journal' = [journal EXCEPT ![l] = row, ![cur].status = "decided"]
      BY <1>1, <1>2, <1>5 DEF Write, Send
    <3> HIDE DEF row, trail, l
    <3>7. l = [cur EXCEPT !.leg = "modify"]
      BY DEF l
    <3> QED
      BY <3>2, <3>4, <3>5, <3>6, <3>7
  <2>2. p \in positions /\ p.strat = cur.strat /\ trail.pos.sl = stop /\ trail.pos.ticket = p.ticket
    BY <2>1, StopTypes DEF PositionsOf, Position
  <2>3. l # cur /\ l.strat = cur.strat
    BY <1>1, <2>1 DEF Key
  <2>4. journal'[l] = row
    BY <1>1, <2>1, <2>3, StopTypes
  <2>5. TrailingInv'
    <3>1. \A x \in positions : x.strat = cur.strat => x = p
      BY <2>2 DEF DeskInv, OnePosition
    <3>2. \A x \in positions' : x.strat = cur'.strat => x.ticket = trail.pos.ticket
      BY <1>1, <2>1, <2>2, <2>3, <3>1
    <3> QED
      BY <1>1, <2>1, <2>2, <2>4, <3>2 DEF TrailingInv, PositionsOf
  <2>6. \A k \in Key : /\ FilledOpen(k)' => FilledOpen(k) /\ journal'[k] = journal[k]
                       /\ FilledTrail(k)' => FilledTrail(k) /\ journal'[k] = journal[k]
                       /\ FilledTrail(k) => FilledTrail(k)'
    BY <1>3 DEF FilledOpen, FilledTrail, FilledKept
  <2>7. OpenTicketsInv'
    <3> SUFFICES ASSUME NEW o \in Key, FilledOpen(o)'
                 PROVE  /\ journal'[o].ticket < nextTicket
                        /\ \A x \in positions : x.ticket = journal'[o].ticket => x.strat = o.strat
                        /\ \A q \in Key : FilledOpen(q)' /\ journal'[q].ticket = journal'[o].ticket => q = o
      BY <1>1, <2>1 DEF OpenTicketsInv
    <3> QED
      BY <2>6 DEF StopInv, OpenTicketsInv
  <2>8. SafeInv'
    <3> SUFFICES ASSUME NEW x \in positions, NEW o \in Key, FilledOpen(o)', journal'[o].ticket = x.ticket
                 PROVE  /\ journal'[o].sl <= x.sl
                        /\ \A m \in Key : FilledTrail(m)' /\ m.strat = o.strat /\ journal'[m].due > journal'[o].due
                                             => journal'[m].sl <= x.sl
      BY <1>1 DEF SafeInv
    <3> QED
      BY <2>6 DEF StopInv, SafeInv
  <2>9. TrailsHaveLast'
    BY <2>6 DEF StopInv, TrailsHaveLast
  <2>10. OrderingInv'
    BY <2>1 DEF OrderingInv
  <2> QED
    BY <2>5, <2>7, <2>8, <2>9, <2>10 DEF StopInv
<1> QED
  BY <1>4, <1>5

LEMMA StopStepHolds ==
    ASSUME Fifo, TypeOK, DeskInv, PlaceInv, RowsInOrder, AccountInv, ClosingInv, StopInv, [NextH4]_vars
    PROVE  StopInv'
<1> USE DEF bridgeVars, dbVars, tickVars, envVars, historyVars
<1>1. CASE OpenFilled \/ TrailFilled \/ H4Trail \/ OpenSend
  BY <1>1, StopsByFilledOpen, StopsByFilledTrail, StopsByTrail, StopsByOrder
<1>2. ASSUME ~OpenFilled, ~TrailFilled, NEW k \in Key, k.leg \in {"open", "modify"} PROVE FilledKept(k)
  BY <1>2, FilledSteps
<1>3. CASE Serve /\ ~OpenFilled /\ ~TrailFilled
  <2>1. PICK r \in inbox : FillOrder(r) \/ ClosePosition(r) \/ MoveStop(r) \/ KeepStop(r) \/ PositionGone(r)
    BY <1>3 DEF Serve
  <2>2. UNCHANGED <<dbVars, tickVars, envVars>>
    BY <1>3 DEF Serve
  <2>3. CASE FillOrder(r)
    BY <2>2, <2>3, StopsByFill
  <2>4. CASE MoveStop(r)
    BY <2>2, <2>4, StopsByMove
  <2>5. CASE ClosePosition(r) \/ KeepStop(r) \/ PositionGone(r)
    <3>1. /\ positions' \subseteq positions /\ inbox' \subseteq inbox
          /\ UNCHANGED <<journal, pc, cur, todo, nextTicket>>
      BY <2>2, <2>5 DEF ClosePosition, KeepStop, PositionGone, Answer
    <3>2. pc = "trailing" /\ reply' = "done" => reply = "done"
      BY <2>5 DEF ClosePosition, KeepStop, PositionGone, Answer, StopInv, TrailingInv
    <3> QED
      BY <1>2, <1>3, <3>1, <3>2, StopsKept
  <2> QED
    BY <2>1, <2>3, <2>4, <2>5
<1>4. CASE (Rejects \/ Stopped) /\ ~OpenFilled /\ ~TrailFilled
  <2>1. /\ positions' \subseteq positions /\ inbox' \subseteq inbox /\ UNCHANGED <<journal, pc, cur, todo, nextTicket>>
        /\ (reply' = "done" => reply = "done")
    BY <1>4 DEF Rejects, Stopped, Refuse, StopOut, Answer
  <2> QED
    BY <1>2, <1>4, <2>1, StopsKept
<1>5. CASE (BarArrives \/ Advance \/ Person \/ UNCHANGED vars) /\ ~OpenFilled /\ ~TrailFilled
  <2>1. UNCHANGED <<positions, inbox, reply, journal, pc, cur, todo, nextTicket>>
    BY <1>5 DEF BarArrives, Advance, Person, vars
  <2> QED
    BY <1>2, <1>5, <2>1, StopsKept
<1>6. CASE (OpenRejected \/ CloseRejected \/ Crash \/ TickRaises \/ TrailRejected) /\ ~OpenFilled /\ ~TrailFilled
  <2>1. /\ UNCHANGED <<positions, nextTicket>> /\ HangUp /\ pc' \notin {"ordering", "trailing", "closing"}
    BY <1>6 DEF OpenRejected, CloseRejected, Crash, TickRaises, TrailRejected, LeaveRow, Onward, Rest
  <2>2. \A r \in inbox' : \E q \in inbox : r.op = q.op /\ r.pos = q.pos
    BY <2>1 DEF HangUp, TypeOK, BridgeTypeOK, Request
  <2> QED
    BY <1>2, <1>6, <2>1, <2>2, StopsKept
<1>7. CASE CloseStart /\ ~OpenFilled /\ ~TrailFilled
  <2>1. PICK p \in todo' : Send("close", p)
    BY <1>7 DEF CloseStart
  <2> DEFINE close == [op |-> "close", pos |-> p, waiting |-> TRUE]
  <2>2. /\ inbox' = {close} /\ close.op = "close" /\ pc' = "closing" /\ UNCHANGED <<positions, nextTicket>>
        /\ todo' \subseteq positions
    BY <1>7, <2>1, ReadableIsIdle DEF CloseStart, Send, PositionsOf
  <2> HIDE DEF close
  <2> QED
    <3>1. \A k \in Key : k.leg \in {"open", "modify"} => FilledKept(k)
      BY <1>2, <1>7
    <3>2. /\ \A k \in Key : FilledOpen(k)' => FilledOpen(k) /\ journal'[k] = journal[k]
          /\ UNCHANGED journal
      BY <1>7 DEF CloseStart, FilledOpen
    <3>3. OpenTicketsInv'
      <4> SUFFICES ASSUME NEW o \in Key, FilledOpen(o)
                   PROVE  /\ journal[o].ticket < nextTicket
                          /\ \A x \in positions \cup todo' : x.ticket = journal[o].ticket => x.strat = o.strat
                          /\ \A q \in Key : FilledOpen(q) /\ journal[q].ticket = journal[o].ticket => q = o
        BY <2>2, <3>2 DEF OpenTicketsInv, FilledOpen
      <4> QED
        BY <2>2 DEF StopInv, OpenTicketsInv
    <3>4. OrderingInv' /\ TrailingInv'
      BY <2>2 DEF OrderingInv, TrailingInv
    <3>5. SafeInv' /\ TrailsHaveLast'
      BY <2>2, <3>2 DEF StopInv, SafeInv, TrailsHaveLast, FilledOpen, FilledTrail
    <3> QED
      BY <3>3, <3>4, <3>5 DEF StopInv
<1>8. ~CloseAnother
  <2> SUFFICES ASSUME CloseAnother PROVE FALSE
    OBVIOUS
  <2>1. PICK p \in todo : todo = {p}
    BY DEF CloseAnother, ClosingInv
  <2>2. todo' = {}
    BY <2>1 DEF CloseAnother
  <2> QED
    BY <2>2 DEF CloseAnother
<1>9. CASE (\/ Tick \/ ScheduleDies \/ NextLeg \/ SkipUnlisted \/ EndTick \/ Decide \/ Boot
            \/ OpenExpires \/ OpenPaused \/ OpenTooLarge \/ OpenDry \/ OpenMay \/ OpenUnreadable \/ OpenTaken
            \/ CloseUnreadable \/ CloseNothing \/ CloseDry \/ CloseFilled \/ CheckKill)
           /\ ~OpenFilled /\ ~TrailFilled
  <2>1. UNCHANGED <<positions, inbox, nextTicket>> /\ pc' \notin {"ordering", "trailing", "closing"}
    BY <1>9 DEF Tick, ScheduleDies, NextLeg, SkipUnlisted, EndTick, Rest, Decide, DecideMissed, DecideWaits,
                DecideNothing, DecideLeg, Decidable, AtDaily, At, Boot, OpenExpires, OpenPaused, OpenTooLarge,
                OpenDry, OpenMay, OpenUnreadable, OpenTaken, CloseUnreadable, CloseNothing, CloseDry, CloseFilled,
                CheckKill, FinishRow, LeaveRow, Onward
  <2> QED
    BY <1>2, <1>9, <2>1, StopsKept
<1>10. CASE (\/ H4Waits \/ H4Shut \/ H4Late \/ H4Unreadable \/ H4StoppedOut \/ H4StopKill \/ H4Nothing
             \/ H4Open \/ H4Close \/ ModifyExpires \/ H4Gap) /\ ~OpenFilled /\ ~TrailFilled
  <2>1. UNCHANGED <<positions, inbox, nextTicket>> /\ pc' \notin {"ordering", "trailing", "closing"}
    BY <1>10 DEF H4Waits, H4Shut, H4Late, H4Unreadable, H4StoppedOut, H4StopKill, H4Nothing, H4Open, H4Close,
                 ModifyExpires, H4Gap, H4Flat, H4Held, H4Decidable, AtH4, At, FinishRow, LeaveRow, Onward
  <2> QED
    BY <1>2, <1>10, <2>1, StopsKept
<1> QED
  BY <1>1, <1>3, <1>4, <1>5, <1>6, <1>7, <1>8, <1>9, <1>10
     DEF NextH4, H4Decide, Next, Process, Open, Close, Failures

LEMMA SafeStops ==
    ASSUME TypeOK, StopInv
    PROVE  JournalledStopIsSafe
<1> SUFFICES ASSUME NEW p \in positions, NEW o \in FilledOpens(p.strat), journal[o].ticket = p.ticket
             PROVE  StopNow(o) <= p.sl
  BY DEF JournalledStopIsSafe
<1>1. o \in Key /\ FilledOpen(o) /\ o.strat = p.strat
  BY DEF FilledOpens, RowsOf, Action, FilledOpen
<1> DEFINE trails == {m \in RowsOf(o.strat, "modify", {"filled"}) : journal[m].due > journal[o].due}
<1>2. \A m \in Key : m \in trails <=> FilledTrail(m) /\ m.strat = o.strat /\ journal[m].due > journal[o].due
  BY DEF RowsOf, Action, FilledTrail, Key
<1>3. trails \subseteq Key
  BY DEF RowsOf
<1>4. CASE trails = {}
  BY <1>1, <1>4 DEF StopNow, StopInv, SafeInv
<1>5. CASE trails # {}
  <2> DEFINE last == CHOOSE m \in trails : \A x \in trails : journal[x].due <= journal[m].due
  <2>1. PICK m \in trails : TRUE
    BY <1>5
  <2>2. PICK l \in Key : /\ FilledTrail(l) /\ l.strat = o.strat
                         /\ \A x \in Key : FilledTrail(x) /\ x.strat = o.strat => journal[x].due <= journal[l].due
    BY <1>2, <1>3, <2>1 DEF StopInv, TrailsHaveLast
  <2>3. journal[m].due <= journal[l].due /\ journal[m].due > journal[o].due
    BY <1>2, <1>3, <2>1, <2>2
  <2>4. l \in trails /\ \A x \in trails : journal[x].due <= journal[l].due
    BY <1>1, <1>2, <1>3, <2>2, <2>3, StopTypes
  <2> HIDE DEF trails
  <2>5. last \in trails
    BY <2>4
  <2>6. StopNow(o) = journal[last].sl
    BY <1>5 DEF StopNow, trails
  <2>7. journal[last].sl <= p.sl
    BY <1>1, <1>2, <1>3, <2>5 DEF StopInv, SafeInv
  <2> QED
    BY <2>6, <2>7
<1> QED
  BY <1>4, <1>5

JournalInv == PlaceInv /\ RowsInOrder /\ AccountInv /\ ClosingInv /\ ClosedInv /\ StopInv

LEMMA JournalInvHolds ==
    ASSUME Fifo, DailyWindow
    PROVE  SpecH4 /\ []BarsBeginEarly => [](TypeOK /\ DeskInv /\ JournalInv)
<1>1. Init => JournalInv
  <2> SUFFICES ASSUME Init PROVE JournalInv
    OBVIOUS
  <2>1. \A k \in Key : journal[k].status = "absent"
    BY DEF Init, Absent, PendingRow
  <2>2. positions = {} /\ inbox = {} /\ todo = {} /\ pc = "down"
    BY DEF Init, BridgeInit
  <2>3. AccountInv /\ ClosingInv /\ ClosedInv /\ StopInv
    BY <2>1, <2>2 DEF AccountInv, ClosingInv, ClosedInv, StopInv, OpenTicketsInv, OrderingInv, TrailingInv,
                      SafeInv, TrailsHaveLast, FilledOpen, FilledTrail
  <2> QED
    BY <2>3, OrderInit DEF JournalInv
<1>2. TypeOK /\ TypeOK' /\ DeskInv /\ BarsBeginEarly /\ JournalInv /\ [NextH4]_vars => JournalInv'
  BY PlaceStep, OrderStep, AccountStep, ClosingStepH4, StopStepHolds DEF JournalInv
<1>3. SpecH4 => [](TypeOK /\ DeskInv)
  BY DeskInvHolds
<1> QED
  BY <1>1, <1>2, <1>3, PTL DEF SpecH4

\* As long as the bars begin early, the stop the journal has for a position is never above the broker's:
\* what the kill rules count as the exit price of a position its stop took is never too good (_stop_now).
THEOREM JournalledStopIsSafeHolds ==
    ASSUME Fifo, DailyWindow
    PROVE  SpecH4 /\ []BarsBeginEarly => []JournalledStopIsSafe
<1>1. TypeOK /\ DeskInv /\ JournalInv => JournalledStopIsSafe
  BY SafeStops DEF JournalInv
<1> QED
  BY <1>1, JournalInvHolds, PTL

-----------------------------------------------------------------------------
\* Exits.

Exit(k) == k.leg \in {"close", "stopped"} /\ journal[k].status = "filled"

\* The ticket of an exit is of no position any more, and of none still to come or to close.
DeadInv ==
    \A k \in Key : Exit(k) =>
        /\ journal[k].ticket < nextTicket
        /\ pc = "ordering" => journal[k].ticket # nextTicket - 1
        /\ \A p \in positions : p.ticket # journal[k].ticket
        /\ \A r \in inbox : r.op = "order" => r.pos.ticket # journal[k].ticket
        /\ pc = "closing" => \A p \in todo : p.ticket # journal[k].ticket
        /\ \A o \in Key : FilledOpen(o) /\ journal[o].ticket = journal[k].ticket => o.strat = k.strat

\* A stop-out is of the open of its own session.
StoppedInv ==
    \A k \in Key : k.leg = "stopped" /\ journal[k].status = "filled" =>
        LET o == [k EXCEPT !.leg = "open"]
        IN  FilledOpen(o) /\ journal[o].ticket = journal[k].ticket

\* A decision calls for one leg.
OneLegInv ==
    \A j, k \in Key :
        /\ Decided(j) /\ Decided(k) /\ j.leg # "stopped" /\ k.leg # "stopped"
        /\ DecideOf(j) = DecideOf(k)
        /\ journal[j].status # "absent" /\ journal[k].status # "absent"
        => j = k

\* Two exits of one ticket are a stop-out and a close older than the open.
DistinctInv ==
    \A j, k \in Key :
        Exit(j) /\ Exit(k) /\ j.leg = "close" /\ journal[j].ticket = journal[k].ticket
            => j = k \/ (k.leg = "stopped" /\ StaleClose(j))

ExitInv == DeadInv /\ StoppedInv /\ OneLegInv /\ DistinctInv

\* Only a decision writes a leg, and it had written none.
LEMMA OneLegStep ==
    ASSUME TypeOK, RowsInOrder, OneLegInv, RowStep
    PROVE  OneLegInv'
<1>1. ASSUME NEW k \in Key, Decided(k), k.leg # "stopped", journal'[k].status # "absent", ~WriteStep
      PROVE  journal[k].status # "absent"
  <2>1. CASE SettleStep
    <3>1. PICK row \in Row : journal' = [journal EXCEPT ![cur] = row]
      BY <2>1 DEF SettleStep
    <3>2. cur \in Key /\ journal \in [Key -> Row] /\ journal[cur].status = "pending"
      BY <2>1, StopTypes DEF SettleStep, RowsInOrder, UnsettledInv, Unsettled
    <3> QED
      BY <1>1, <3>1, <3>2
  <2>2. CASE Tick \/ PartScheduled
    <3>1. PICK keys \in SUBSET Unwritten(clock) : journal' = Scheduled(keys)
      BY <2>2 DEF Tick, PartScheduled
    <3> QED
      BY <1>1, <3>1, ScheduledRows
  <2>3. CASE StopStep
    <3>1. PICK o \in LastOpen(cur.strat) : \E row : journal' = [journal EXCEPT ![[o EXCEPT !.leg = "stopped"]] = row]
      BY <2>3 DEF StopStep
    <3>2. [o EXCEPT !.leg = "stopped"] # k
      BY <1>1, <3>1 DEF LastOpen, FilledOpens, RowsOf, Key
    <3> QED
      BY <1>1, <3>1, <3>2, StopTypes
  <2>4. CASE MoveStep \/ RestStep \/ OutsideStep
    BY <1>1, <2>4 DEF MoveStep, RestStep, OutsideStep
  <2> QED
    BY <1>1, <2>1, <2>2, <2>3, <2>4 DEF RowStep
<1>2. CASE ~WriteStep
  BY <1>1, <1>2 DEF OneLegInv, Decided, DecideOf
<1>3. CASE WriteStep
  <2>1. PICK leg \in {"open", "close", "modify"}, row \in Row :
          journal' = [journal EXCEPT ![[cur EXCEPT !.leg = leg]] = row, ![cur].status = "decided"]
    BY <1>3 DEF WriteStep
  <2>2. cur \in Key /\ cur.leg = "decide" /\ pc \in Working /\ journal \in [Key -> Row]
    BY <1>3, StopTypes DEF WriteStep, Working
  <2>3. PICK l \in Key : l = [cur EXCEPT !.leg = leg] /\ DecideOf(l) = cur /\ l # cur
    <3> DEFINE l == [cur EXCEPT !.leg = leg]
    <3>1. l \in Key /\ l # cur /\ DecideOf(l) = cur
      BY <2>2 DEF Key, DecideOf
    <3> QED
      BY <3>1
  <2>4. \A k \in Key : k # l /\ k # cur => journal'[k] = journal[k]
    BY <2>1, <2>2, <2>3
  <2>5. journal[cur].status = "pending"
    BY <2>2 DEF RowsInOrder, UnsettledInv, Unsettled
  <2>6. ASSUME NEW j \in Key, Decided(j), j.leg # "stopped", j # l, journal'[j].status # "absent"
        PROVE  journal[j].status # "absent" /\ DecideOf(j) # cur
    <3>1. j # cur
      BY <2>2, <2>6 DEF Decided
    <3>2. journal[j].status # "absent"
      BY <2>4, <2>6, <3>1
    <3> QED
      BY <2>5, <2>6, <3>2 DEF RowsInOrder, DecidedOnce, Final
  <2> SUFFICES ASSUME NEW j \in Key, NEW k \in Key, Decided(j), Decided(k), j.leg # "stopped", k.leg # "stopped",
                      DecideOf(j) = DecideOf(k), journal'[j].status # "absent", journal'[k].status # "absent"
               PROVE  j = k
    BY DEF OneLegInv, Decided, DecideOf
  <2> QED
    BY <2>3, <2>6 DEF OneLegInv
<1> QED
  BY <1>2, <1>3

\* A close or a stop-out is not filled by the step, and no ticket appears.
LEMMA ExitsKept ==
    ASSUME TypeOK, ExitInv, OneLegInv', nextTicket' = nextTicket,
           \A p \in positions' : \E q \in positions : p.ticket = q.ticket,
           \A r \in inbox' : r.op = "order" => \E q \in inbox : q.op = "order" /\ r.pos = q.pos,
           \A k \in Key : k.leg \in {"open", "close", "stopped"} => FilledKept(k),
           pc' = "ordering" => pc = "ordering",
           pc' = "closing" => (pc = "closing" /\ todo' = todo) \/ todo' \subseteq positions
    PROVE  ExitInv'
<1>1. \A k \in Key : /\ Exit(k)' <=> Exit(k)
                     /\ FilledOpen(k)' <=> FilledOpen(k)
                     /\ Exit(k) \/ FilledOpen(k) => journal'[k] = journal[k]
  BY DEF Exit, FilledOpen, FilledKept
<1>2. DeadInv'
  <2> SUFFICES ASSUME NEW k \in Key, Exit(k)
               PROVE  /\ journal[k].ticket < nextTicket
                      /\ pc' = "ordering" => journal[k].ticket # nextTicket - 1
                      /\ \A p \in positions' : p.ticket # journal[k].ticket
                      /\ \A r \in inbox' : r.op = "order" => r.pos.ticket # journal[k].ticket
                      /\ pc' = "closing" => \A p \in todo' : p.ticket # journal[k].ticket
                      /\ \A o \in Key : FilledOpen(o) /\ journal[o].ticket = journal[k].ticket => o.strat = k.strat
    BY <1>1 DEF DeadInv
  <2> QED
    BY DEF ExitInv, DeadInv
<1>3. StoppedInv'
  <2> SUFFICES ASSUME NEW k \in Key, k.leg = "stopped", journal'[k].status = "filled"
               PROVE  FilledOpen([k EXCEPT !.leg = "open"])' /\ journal'[[k EXCEPT !.leg = "open"]].ticket = journal'[k].ticket
    BY DEF StoppedInv
  <2>1. PICK o \in Key : o = [k EXCEPT !.leg = "open"]
    BY DEF Key
  <2>2. Exit(k) /\ journal'[k] = journal[k]
    BY <1>1 DEF Exit
  <2>3. FilledOpen(o) /\ journal[o].ticket = journal[k].ticket
    BY <2>1, <2>2 DEF ExitInv, StoppedInv, Exit
  <2> QED
    BY <1>1, <2>1, <2>2, <2>3
<1>4. DistinctInv'
  <2> SUFFICES ASSUME NEW j \in Key, NEW k \in Key, Exit(j), Exit(k), j.leg = "close", journal[j].ticket = journal[k].ticket
               PROVE  j = k \/ (k.leg = "stopped" /\ StaleClose(j)')
    BY <1>1 DEF DistinctInv
  <2>1. StaleClose(j) => StaleClose(j)'
    <3> SUFFICES ASSUME StaleClose(j) PROVE StaleClose(j)'
      OBVIOUS
    <3>1. PICK o \in FilledOpens(j.strat) : journal[o].ticket = journal[j].ticket /\ journal[j].due < journal[o].due
      BY DEF StaleClose
    <3>2. o \in Key /\ FilledOpen(o) /\ o.strat = j.strat
      BY <3>1 DEF FilledOpens, RowsOf, Action, FilledOpen
    <3>3. FilledOpen(o)' /\ journal'[o] = journal[o] /\ journal'[j] = journal[j]
      BY <1>1, <3>2
    <3>4. o \in FilledOpens(j.strat)'
      BY <3>2, <3>3 DEF FilledOpens, RowsOf, Action, FilledOpen
    <3> QED
      BY <3>1, <3>3, <3>4 DEF StaleClose
  <2> QED
    BY <2>1 DEF ExitInv, DistinctInv
<1> QED
  BY <1>2, <1>3, <1>4 DEF ExitInv

\* The exits and opens there are stay, and so do the closes that came too late.
LEMMA StaleStays ==
    ASSUME NEW j \in Key, StaleClose(j), journal'[j] = journal[j],
           \A o \in Key : FilledOpen(o) => journal'[o] = journal[o]
    PROVE  StaleClose(j)'
<1>1. PICK o \in FilledOpens(j.strat) : journal[o].ticket = journal[j].ticket /\ journal[j].due < journal[o].due
  BY DEF StaleClose
<1>2. o \in Key /\ FilledOpen(o) /\ o.strat = j.strat
  BY <1>1 DEF FilledOpens, RowsOf, Action, FilledOpen
<1>3. journal'[o] = journal[o]
  BY <1>2
<1>4. o \in FilledOpens(j.strat)'
  BY <1>2, <1>3 DEF FilledOpens, RowsOf, Action, FilledOpen
<1> QED
  BY <1>1, <1>3, <1>4 DEF StaleClose

LEMMA ExitsByOrder ==
    ASSUME Fifo, TypeOK, ExitInv, OneLegInv', OpenSend
    PROVE  ExitInv'
<1> USE DEF bridgeVars, dbVars, tickVars, envVars, historyVars
<1> DEFINE pos == [ticket |-> nextTicket, strat |-> cur.strat, session |-> cur.session,
                   volume |-> journal[cur].volume, sl |-> journal[cur].sl]
           order == [op |-> "order", pos |-> pos, waiting |-> TRUE]
<1>1. /\ inbox' = {order} /\ nextTicket' = nextTicket + 1 /\ pc' = "ordering"
      /\ UNCHANGED <<positions, journal, todo>>
  BY ReadableIsIdle DEF OpenSend, Send
<1>2. order.pos.ticket = nextTicket
  OBVIOUS
<1> HIDE DEF order, pos
<1>3. nextTicket \in Nat /\ \A k \in Key : journal[k].ticket \in Nat
  BY StopTypes
<1>4. DeadInv'
  <2> SUFFICES ASSUME NEW k \in Key, Exit(k)
               PROVE  /\ journal[k].ticket < nextTicket'
                      /\ journal[k].ticket # nextTicket' - 1
                      /\ \A p \in positions : p.ticket # journal[k].ticket
                      /\ \A r \in inbox' : r.op = "order" => r.pos.ticket # journal[k].ticket
                      /\ \A o \in Key : FilledOpen(o) /\ journal[o].ticket = journal[k].ticket => o.strat = k.strat
    BY <1>1 DEF DeadInv, Exit, FilledOpen
  <2>1. journal[k].ticket < nextTicket
    BY DEF ExitInv, DeadInv
  <2> QED
    BY <1>1, <1>2, <1>3, <2>1 DEF ExitInv, DeadInv
<1>5. StoppedInv' /\ DistinctInv'
  BY <1>1 DEF ExitInv, StoppedInv, DistinctInv, Exit, FilledOpen, StaleClose, FilledOpens, RowsOf
<1> QED
  BY <1>4, <1>5 DEF ExitInv

LEMMA ExitsByFill ==
    ASSUME ExitInv, OneLegInv', NEW r \in inbox, FillOrder(r), UNCHANGED <<dbVars, tickVars, envVars>>
    PROVE  ExitInv'
<1> USE DEF dbVars, tickVars, envVars
<1>1. /\ positions' = positions \cup {r.pos} /\ inbox' = inbox \ {r} /\ r.op = "order"
      /\ UNCHANGED <<journal, pc, todo, nextTicket>>
  BY DEF FillOrder, Answer
<1>2. DeadInv'
  BY <1>1 DEF ExitInv, DeadInv, Exit, FilledOpen
<1>3. StoppedInv' /\ DistinctInv'
  BY <1>1 DEF ExitInv, StoppedInv, DistinctInv, Exit, FilledOpen, StaleClose, FilledOpens, RowsOf
<1> QED
  BY <1>2, <1>3 DEF ExitInv

\* A fill takes a ticket no exit has.
LEMMA ExitsByFilledOpen ==
    ASSUME TypeOK, PlaceInv, RowsInOrder, ExitInv, OneLegInv', OpenFilled
    PROVE  ExitInv'
<1> USE DEF bridgeVars, dbVars, tickVars, envVars, historyVars
<1>1. /\ pc = "ordering" /\ pc' = "next" /\ cur \in Key /\ cur.leg = "open"
      /\ UNCHANGED <<positions, inbox, nextTicket>>
  BY StopTypes DEF OpenFilled, Onward, PlaceInv
<1>2. /\ \A k \in Key : k # cur => journal'[k] = journal[k]
      /\ journal'[cur].ticket = nextTicket - 1
  <2>1. journal[cur] \in Row /\ journal \in [Key -> Row]
    BY <1>1, StopTypes
  <2> DEFINE row == [journal[cur] EXCEPT !.status = "filled", !.ticket = nextTicket - 1]
  <2>2. row.ticket = nextTicket - 1
    BY <2>1 DEF Row
  <2>3. journal' = [journal EXCEPT ![cur] = row]
    BY DEF OpenFilled
  <2> HIDE DEF row
  <2> QED
    BY <1>1, <2>1, <2>2, <2>3
<1>3. ~FilledOpen(cur)
  BY <1>1 DEF RowsInOrder, UnsettledInv, Unsettled, Working, FilledOpen
<1>4. /\ \A k \in Key : /\ Exit(k)' <=> Exit(k)
                        /\ Exit(k) => journal'[k] = journal[k]
                        /\ FilledOpen(k) => FilledOpen(k)' /\ journal'[k] = journal[k]
                        /\ FilledOpen(k)' => k = cur \/ FilledOpen(k)
  BY <1>1, <1>2, <1>3 DEF Exit, FilledOpen
<1>5. \A k \in Key : Exit(k) => journal[k].ticket # nextTicket - 1
  BY <1>1 DEF ExitInv, DeadInv
<1>6. DeadInv'
  <2> SUFFICES ASSUME NEW k \in Key, Exit(k)
               PROVE  /\ journal[k].ticket < nextTicket
                      /\ \A p \in positions : p.ticket # journal[k].ticket
                      /\ \A r \in inbox : r.op = "order" => r.pos.ticket # journal[k].ticket
                      /\ \A o \in Key : FilledOpen(o)' /\ journal'[o].ticket = journal[k].ticket => o.strat = k.strat
    BY <1>1, <1>4 DEF DeadInv
  <2>1. \A o \in Key : FilledOpen(o)' /\ journal'[o].ticket = journal[k].ticket => o.strat = k.strat
    BY <1>2, <1>4, <1>5 DEF ExitInv, DeadInv
  <2> QED
    BY <2>1 DEF ExitInv, DeadInv
<1>7. StoppedInv'
  <2> SUFFICES ASSUME NEW k \in Key, k.leg = "stopped", journal'[k].status = "filled"
               PROVE  FilledOpen([k EXCEPT !.leg = "open"])' /\ journal'[[k EXCEPT !.leg = "open"]].ticket = journal'[k].ticket
    BY DEF StoppedInv
  <2>1. PICK o \in Key : o = [k EXCEPT !.leg = "open"]
    BY DEF Key
  <2>2. Exit(k) /\ journal'[k] = journal[k]
    BY <1>4 DEF Exit
  <2>3. FilledOpen(o) /\ journal[o].ticket = journal[k].ticket
    BY <2>1, <2>2 DEF ExitInv, StoppedInv, Exit
  <2>4. FilledOpen(o)' /\ journal'[o].ticket = journal'[k].ticket
    BY <1>4, <2>2, <2>3
  <2> QED
    BY <2>1, <2>4
<1>8. DistinctInv'
  <2> SUFFICES ASSUME NEW j \in Key, NEW k \in Key, Exit(j), Exit(k), j.leg = "close", journal[j].ticket = journal[k].ticket
               PROVE  j = k \/ (k.leg = "stopped" /\ StaleClose(j)')
    BY <1>4 DEF DistinctInv
  <2> QED
    BY <1>4, StaleStays DEF ExitInv, DistinctInv
<1> QED
  BY <1>6, <1>7, <1>8 DEF ExitInv

\* A close ends the position it listed, which no exit had ended before.
LEMMA ExitsByClose ==
    ASSUME TypeOK, DeskInv, PlaceInv, AccountInv, ClosingInv, ClosedInv, StopInv, ExitInv, OneLegInv', CloseFilled
    PROVE  ExitInv'
<1> USE DEF bridgeVars, dbVars, tickVars, envVars, historyVars
<1>1. /\ pc = "closing" /\ pc' = "kill" /\ inbox = {} /\ cur \in Key /\ cur.leg = "close"
      /\ UNCHANGED <<positions, inbox, nextTicket>>
  BY StopTypes DEF CloseFilled, DeskInv, AnswerIsAwaited, PlaceInv
<1>2. PICK last \in todo, pnl \in {"none", "win", "loss"} :
        /\ todo = {last}
        /\ journal' = [journal EXCEPT ![cur] = [@ EXCEPT !.status = "filled", !.pnl = pnl, !.ticket = last.ticket]]
  BY DEF CloseFilled
<1>3. last.strat = cur.strat /\ last.ticket < nextTicket /\ \A p \in positions : p.ticket # last.ticket
  BY <1>2 DEF CloseFilled, ClosingInv, ClosedInv, AccountInv
<1>4. /\ \A k \in Key : k # cur => journal'[k] = journal[k]
      /\ journal'[cur].ticket = last.ticket
  <2>1. journal[cur] \in Row /\ journal \in [Key -> Row]
    BY <1>1, StopTypes
  <2> DEFINE row == [journal[cur] EXCEPT !.status = "filled", !.pnl = pnl, !.ticket = last.ticket]
  <2>2. row.ticket = last.ticket
    BY <2>1 DEF Row
  <2>3. journal' = [journal EXCEPT ![cur] = row]
    BY <1>2
  <2> HIDE DEF row
  <2> QED
    BY <1>1, <2>1, <2>2, <2>3
<1>5. \A o \in Key : /\ FilledOpen(o)' <=> FilledOpen(o)
                     /\ FilledOpen(o) => journal'[o] = journal[o]
  BY <1>1, <1>4 DEF FilledOpen
<1>6. \A k \in Key : k # cur => (Exit(k)' <=> Exit(k)) /\ (Exit(k) => journal[k].ticket # last.ticket)
  BY <1>1, <1>2, <1>4 DEF Exit, ExitInv, DeadInv
<1>7. DeadInv'
  <2> SUFFICES ASSUME NEW k \in Key, Exit(k)'
               PROVE  /\ journal'[k].ticket < nextTicket
                      /\ \A p \in positions : p.ticket # journal'[k].ticket
                      /\ \A o \in Key : FilledOpen(o) /\ journal[o].ticket = journal'[k].ticket => o.strat = k.strat
    BY <1>1, <1>5 DEF DeadInv
  <2>1. CASE k = cur
    <3>1. \A o \in Key : FilledOpen(o) /\ journal[o].ticket = last.ticket => o.strat = cur.strat
      BY <1>1, <1>2, <1>3 DEF StopInv, OpenTicketsInv
    <3> QED
      BY <1>3, <1>4, <2>1, <3>1
  <2>2. CASE k # cur
    BY <1>4, <1>6, <2>2 DEF ExitInv, DeadInv
  <2> QED
    BY <2>1, <2>2
<1>8. StoppedInv'
  <2> SUFFICES ASSUME NEW k \in Key, k.leg = "stopped", journal'[k].status = "filled"
               PROVE  FilledOpen([k EXCEPT !.leg = "open"])' /\ journal'[[k EXCEPT !.leg = "open"]].ticket = journal'[k].ticket
    BY DEF StoppedInv
  <2>1. PICK o \in Key : o = [k EXCEPT !.leg = "open"]
    BY DEF Key
  <2>2. k # cur /\ journal'[k] = journal[k]
    BY <1>1, <1>4
  <2>3. FilledOpen(o) /\ journal[o].ticket = journal[k].ticket
    BY <2>1, <2>2 DEF ExitInv, StoppedInv
  <2>4. FilledOpen(o)' /\ journal'[o].ticket = journal'[k].ticket
    BY <1>5, <2>2, <2>3
  <2> QED
    BY <2>1, <2>4
<1>9. DistinctInv'
  <2> SUFFICES ASSUME NEW j \in Key, NEW k \in Key, Exit(j)', Exit(k)', j.leg = "close", journal'[j].ticket = journal'[k].ticket
               PROVE  j = k \/ (k.leg = "stopped" /\ StaleClose(j)')
    BY DEF DistinctInv
  <2>1. CASE j = cur \/ k = cur
    BY <1>4, <1>6, <2>1
  <2>2. CASE j # cur /\ k # cur
    BY <1>4, <1>5, <1>6, <2>2, StaleStays DEF ExitInv, DistinctInv
  <2> QED
    BY <2>1, <2>2
<1> QED
  BY <1>7, <1>8, <1>9 DEF ExitInv

\* A stop-out is found of a position the journal still holds: no close of it is as late as its open.
LEMMA ExitsByStop ==
    ASSUME Fifo, BarsBeginEarly, DailyWindow, TypeOK, PlaceInv, RowsInOrder,
           StopInv, ExitInv, OneLegInv', H4StoppedOut
    PROVE  ExitInv'
<1> USE DEF bridgeVars, dbVars, tickVars, envVars, historyVars
<1>1. /\ pc' = "stopped" /\ inbox = {} /\ PositionsOf(cur.strat) = {} /\ Holding(cur.strat)
      /\ UNCHANGED <<positions, inbox, nextTicket>> /\ cur \in Key /\ Kind[cur.strat] = "h4"
  BY ReadableIsIdle, StopTypes DEF H4StoppedOut, H4Decidable, AtH4
<1>2. PICK o \in LastOpen(cur.strat), pnl \in {"win", "loss"} :
        journal' = [journal EXCEPT ![[o EXCEPT !.leg = "stopped"]] =
             [PendingRow(now, journal[o].volume) EXCEPT
                !.status = "filled", !.ticket = journal[o].ticket, !.pnl = pnl]]
  BY DEF H4StoppedOut
<1>3. o \in Key /\ FilledOpen(o) /\ o.strat = cur.strat
      /\ \A x \in FilledOpens(cur.strat) : journal[x].due <= journal[o].due
  BY DEF LastOpen, FilledOpens, RowsOf, Action, FilledOpen
<1>4. PICK st \in Key : st = [o EXCEPT !.leg = "stopped"]
  BY <1>3 DEF Key
<1>5. st.leg = "stopped" /\ st.strat = cur.strat /\ [st EXCEPT !.leg = "open"] = o
  BY <1>3, <1>4 DEF Key, FilledOpen
<1>6. /\ \A k \in Key : k # st => journal'[k] = journal[k]
      /\ journal'[st].ticket = journal[o].ticket
  BY <1>2, <1>4, StopTypes DEF PendingRow
<1>7. \A k \in Key : /\ FilledOpen(k)' <=> FilledOpen(k)
                     /\ FilledOpen(k) => journal'[k] = journal[k]
                     /\ k # st => (Exit(k)' <=> Exit(k))
  BY <1>5, <1>6 DEF FilledOpen, Exit
<1>8. DeadInv'
  <2> SUFFICES ASSUME NEW k \in Key, Exit(k)'
               PROVE  /\ journal'[k].ticket < nextTicket
                      /\ \A p \in positions : p.ticket # journal'[k].ticket
                      /\ \A x \in Key : FilledOpen(x) /\ journal[x].ticket = journal'[k].ticket => x.strat = k.strat
    BY <1>1, <1>7 DEF DeadInv
  <2>1. CASE k = st
    <3>1. \A p \in positions : p.ticket # journal[o].ticket
      BY <1>1, <1>3 DEF StopInv, OpenTicketsInv, PositionsOf
    <3>2. journal[o].ticket < nextTicket /\ \A x \in Key : FilledOpen(x) /\ journal[x].ticket = journal[o].ticket => x = o
      BY <1>3 DEF StopInv, OpenTicketsInv
    <3> QED
      BY <1>3, <1>5, <1>6, <2>1, <3>1, <3>2
  <2>2. CASE k # st
    BY <1>6, <1>7, <2>2 DEF ExitInv, DeadInv
  <2> QED
    BY <2>1, <2>2
<1>9. StoppedInv'
  <2> SUFFICES ASSUME NEW k \in Key, k.leg = "stopped", journal'[k].status = "filled"
               PROVE  FilledOpen([k EXCEPT !.leg = "open"])' /\ journal'[[k EXCEPT !.leg = "open"]].ticket = journal'[k].ticket
    BY DEF StoppedInv
  <2>1. CASE k = st
    BY <1>3, <1>5, <1>6, <1>7, <2>1
  <2>2. CASE k # st
    <3>1. PICK x \in Key : x = [k EXCEPT !.leg = "open"]
      BY DEF Key
    <3>2. FilledOpen(x) /\ journal[x].ticket = journal[k].ticket /\ journal'[k] = journal[k]
      BY <1>6, <2>2, <3>1 DEF ExitInv, StoppedInv
    <3> QED
      BY <1>7, <3>1, <3>2
  <2> QED
    BY <2>1, <2>2
<1>10. ASSUME NEW j \in Key, Exit(j), j.leg = "close", journal[j].ticket = journal[o].ticket
       PROVE  StaleClose(j)
  <2>1. j.strat = cur.strat
    BY <1>3, <1>10 DEF ExitInv, DeadInv
  <2>2. PICK x \in FilledOpens(cur.strat) : \A c \in RowsOf(cur.strat, "close", Written) : journal[c].due <= journal[x].due
    BY <1>1 DEF Holding
  <2>3. j \in RowsOf(cur.strat, "close", Written)
    BY <1>10, <2>1 DEF RowsOf, Action, Written, Final, Exit
  <2>4. x \in Key /\ journal[j].due \in Nat /\ journal[x].due \in Nat /\ journal[o].due \in Nat
    BY <1>3, <2>2, StopTypes DEF FilledOpens, RowsOf
  <2>5. journal[j].due <= journal[o].due
    BY <1>3, <2>2, <2>3, <2>4
  <2>6. Decided(j) /\ Decided(o) /\ journal[j].status # "absent" /\ journal[o].status # "absent" /\ j # o
        /\ o.leg = "open"
    BY <1>1, <1>3, <1>10, <2>1 DEF Decided, Exit, FilledOpen
  <2>7. /\ DecideOf(j) \in Key /\ DecideOf(o) \in Key /\ DecideOf(j).leg = "decide" /\ DecideOf(o).leg = "decide"
        /\ DecideOf(j).strat = cur.strat /\ DecideOf(o).strat = cur.strat
    BY <1>3, <2>1 DEF DecideOf, Key
  <2>8. DecideOf(j) # DecideOf(o)
    BY <1>3, <1>10, <2>6 DEF ExitInv, OneLegInv
  <2>9. Ripe(DecideOf(j), journal[j].due) /\ Ripe(DecideOf(o), journal[o].due)
    BY <1>3, <1>10, <2>6 DEF RowsInOrder, RowsAreRipe
  <2>10. DueAt(DecideOf(o)) <= journal[o].due /\ DueAt(DecideOf(o)) \in Nat
    BY <2>7, <2>9, DueTypes DEF Ripe
  <2>11. bars \subseteq Nat
    BY ExecutorAssumption DEF TypeOK, EnvTypeOK, ExecutorAssumption
  <2>12. journal[j].due < DueAt(DecideOf(o))
    BY <1>1, <2>4, <2>5, <2>7, <2>8, <2>9, <2>11, RipeApart
  <2>13. journal[j].due < journal[o].due
    BY <2>4, <2>10, <2>12
  <2> QED
    BY <1>3, <1>10, <2>1, <2>13 DEF StaleClose, FilledOpens, RowsOf, Action, FilledOpen
<1>11. DistinctInv'
  <2> SUFFICES ASSUME NEW j \in Key, NEW k \in Key, Exit(j)', Exit(k)', j.leg = "close", journal'[j].ticket = journal'[k].ticket
               PROVE  j = k \/ (k.leg = "stopped" /\ StaleClose(j)')
    BY DEF DistinctInv
  <2>1. j # st /\ Exit(j) /\ journal'[j] = journal[j]
    BY <1>5, <1>6, <1>7
  <2>2. CASE k = st
    BY <1>5, <1>6, <1>7, <1>10, <2>1, <2>2, StaleStays
  <2>3. CASE k # st
    BY <1>6, <1>7, <2>1, <2>3, StaleStays DEF ExitInv, DistinctInv
  <2> QED
    BY <2>2, <2>3
<1> QED
  BY <1>8, <1>9, <1>11 DEF ExitInv

LEMMA ExitStepHolds ==
    ASSUME Fifo, BarsBeginEarly, DailyWindow,
           TypeOK, DeskInv, JournalInv, ExitInv, [NextH4]_vars
    PROVE  ExitInv'
<1> USE DEF bridgeVars, dbVars, tickVars, envVars, historyVars, JournalInv
<1>0. OneLegInv'
  <2>1. RowStep
    BY RowSteps DEF RowsInOrder
  <2> QED
    BY <2>1, OneLegStep DEF ExitInv
<1>1. CASE OpenFilled \/ CloseFilled \/ H4StoppedOut \/ OpenSend
  BY <1>0, <1>1, ExitsByFilledOpen, ExitsByClose, ExitsByStop, ExitsByOrder
<1> DEFINE Unfilled == ~OpenFilled /\ ~CloseFilled /\ ~H4StoppedOut
<1>2. ASSUME Unfilled, NEW k \in Key, k.leg \in {"open", "close", "stopped"} PROVE FilledKept(k)
  BY <1>2, FilledSteps
<1> HIDE DEF Unfilled
<1>3. CASE Serve /\ Unfilled
  <2>1. PICK r \in inbox : FillOrder(r) \/ ClosePosition(r) \/ MoveStop(r) \/ KeepStop(r) \/ PositionGone(r)
    BY <1>3 DEF Serve
  <2>2. UNCHANGED <<dbVars, tickVars, envVars>>
    BY <1>3 DEF Serve
  <2>3. CASE FillOrder(r)
    BY <1>0, <2>2, <2>3, ExitsByFill
  <2>4. CASE MoveStop(r)
    <3>1. PICK p \in positions : positions' = (positions \ {p}) \cup {[p EXCEPT !.sl = r.pos.sl]}
      BY <2>4 DEF MoveStop
    <3>2. [p EXCEPT !.sl = r.pos.sl].ticket = p.ticket
      BY StopTypes DEF Position
    <3>3. \A x \in positions' : \E y \in positions : x.ticket = y.ticket
      BY <3>1, <3>2
    <3>4. inbox' \subseteq inbox /\ UNCHANGED <<pc, todo, nextTicket>>
      BY <2>2, <2>4 DEF MoveStop, Answer
    <3> QED
      BY <1>0, <1>2, <1>3, <3>3, <3>4, ExitsKept
  <2>5. CASE ClosePosition(r) \/ KeepStop(r) \/ PositionGone(r)
    <3>1. positions' \subseteq positions /\ inbox' \subseteq inbox /\ UNCHANGED <<pc, todo, nextTicket>>
      BY <2>2, <2>5 DEF ClosePosition, KeepStop, PositionGone, Answer
    <3> QED
      BY <1>0, <1>2, <1>3, <3>1, ExitsKept
  <2> QED
    BY <2>1, <2>3, <2>4, <2>5
<1>4. CASE (Rejects \/ Stopped \/ BarArrives \/ Advance \/ Person \/ UNCHANGED vars) /\ Unfilled
  <2>1. positions' \subseteq positions /\ inbox' \subseteq inbox /\ UNCHANGED <<pc, todo, nextTicket>>
    BY <1>4 DEF Rejects, Stopped, Refuse, StopOut, Answer, BarArrives, Advance, Person, vars
  <2> QED
    BY <1>0, <1>2, <1>4, <2>1, ExitsKept
<1>5. CASE (OpenRejected \/ CloseRejected \/ Crash \/ TickRaises \/ TrailRejected) /\ Unfilled
  <2>1. /\ UNCHANGED <<positions, nextTicket>> /\ HangUp /\ pc' \notin {"ordering", "closing"}
    BY <1>5 DEF OpenRejected, CloseRejected, Crash, TickRaises, TrailRejected, LeaveRow, Onward, Rest
  <2>2. \A r \in inbox' : \E q \in inbox : r.op = q.op /\ r.pos = q.pos
    BY <2>1 DEF HangUp, TypeOK, BridgeTypeOK, Request
  <2>3. \A r \in inbox' : r.op = "order" => \E q \in inbox : q.op = "order" /\ r.pos = q.pos
    BY <2>2
  <2> QED
    BY <1>0, <1>2, <1>5, <2>1, <2>3, ExitsKept
<1>6. CASE CloseStart /\ Unfilled
  <2>1. PICK p \in todo' : Send("close", p)
    BY <1>6 DEF CloseStart
  <2> DEFINE close == [op |-> "close", pos |-> p, waiting |-> TRUE]
  <2>2. /\ inbox' = {close} /\ close.op = "close" /\ pc' = "closing" /\ UNCHANGED <<positions, nextTicket>>
        /\ todo' \subseteq positions
    BY <1>6, <2>1, ReadableIsIdle DEF CloseStart, Send, PositionsOf
  <2> HIDE DEF close
  <2>3. \A r \in inbox' : r.op = "order" => \E q \in inbox : q.op = "order" /\ r.pos = q.pos
    BY <2>2
  <2> QED
    BY <1>0, <1>2, <1>6, <2>2, <2>3, ExitsKept
<1>7. CASE H4Trail /\ Unfilled
  <2>1. /\ UNCHANGED <<positions, nextTicket>> /\ pc' \in {"trailing", "next"}
        /\ (UNCHANGED inbox \/ \E p : Send("modify", p))
    BY <1>7 DEF H4Trail
  <2>2. \A r \in inbox' : r.op = "order" => \E q \in inbox : q.op = "order" /\ r.pos = q.pos
    <3>1. CASE UNCHANGED inbox
      BY <3>1
    <3>2. ASSUME NEW p, Send("modify", p) PROVE \A r \in inbox' : r.op = "order" => r \in inbox
      <4> DEFINE trail == [op |-> "modify", pos |-> p, waiting |-> TRUE]
      <4>1. inbox' = inbox \cup {trail} /\ trail.op = "modify"
        BY <3>2 DEF Send
      <4> HIDE DEF trail
      <4> QED
        BY <4>1
    <3> QED
      BY <2>1, <3>1, <3>2
  <2> QED
    BY <1>0, <1>2, <1>7, <2>1, <2>2, ExitsKept
<1>8. ~CloseAnother
  <2> SUFFICES ASSUME CloseAnother PROVE FALSE
    OBVIOUS
  <2>1. PICK p \in todo : todo = {p}
    BY DEF CloseAnother, ClosingInv
  <2>2. todo' = {}
    BY <2>1 DEF CloseAnother
  <2> QED
    BY <2>2 DEF CloseAnother
<1>9. CASE (\/ Tick \/ ScheduleDies \/ NextLeg \/ SkipUnlisted \/ EndTick \/ Decide \/ Boot
            \/ OpenExpires \/ OpenPaused \/ OpenTooLarge \/ OpenDry \/ OpenMay \/ OpenUnreadable \/ OpenTaken
            \/ CloseUnreadable \/ CloseNothing \/ CloseDry \/ CheckKill) /\ Unfilled
  <2>1. UNCHANGED <<positions, inbox, nextTicket>> /\ pc' \notin {"ordering", "closing"}
    BY <1>9 DEF Tick, ScheduleDies, NextLeg, SkipUnlisted, EndTick, Rest, Decide, DecideMissed, DecideWaits,
                DecideNothing, DecideLeg, Decidable, AtDaily, At, Boot, OpenExpires, OpenPaused, OpenTooLarge,
                OpenDry, OpenMay, OpenUnreadable, OpenTaken, CloseUnreadable, CloseNothing, CloseDry,
                CheckKill, FinishRow, LeaveRow, Onward
  <2> QED
    BY <1>0, <1>2, <1>9, <2>1, ExitsKept
<1>10. CASE (\/ H4Waits \/ H4Shut \/ H4Late \/ H4Unreadable \/ H4StopKill \/ H4Nothing
             \/ H4Open \/ H4Close \/ TrailFilled \/ ModifyExpires \/ H4Gap) /\ Unfilled
  <2>1. UNCHANGED <<positions, inbox, nextTicket>> /\ pc' \notin {"ordering", "closing"}
    BY <1>10 DEF H4Waits, H4Shut, H4Late, H4Unreadable, H4StopKill, H4Nothing, H4Open, H4Close, TrailFilled,
                 ModifyExpires, H4Gap, H4Flat, H4Held, H4Decidable, AtH4, At, FinishRow, LeaveRow, Onward
  <2> QED
    BY <1>0, <1>2, <1>10, <2>1, ExitsKept
<1> QED
  BY <1>1, <1>3, <1>4, <1>5, <1>6, <1>7, <1>8, <1>9, <1>10
     DEF Unfilled, NextH4, H4Decide, Next, Process, Open, Close, Failures

LEMMA DistinctExits ==
    ASSUME StopInv, ExitInv
    PROVE  OneExitPerPosition
<1> SUFFICES ASSUME NEW s \in Strategies, NEW j \in RowsOf(s, "close", {"filled"}), NEW k \in RowsOf(s, "close", {"filled"}),
                    journal[j].ticket = journal[k].ticket
             PROVE  j = k \/ StaleClose(j) \/ StaleClose(k)
  BY DEF OneExitPerPosition
<1>1. j \in Key /\ k \in Key /\ Exit(j) /\ Exit(k) /\ j.strat = k.strat
  BY DEF RowsOf, Action, Exit
<1>2. CASE j.leg = "close" \/ k.leg = "close"
  BY <1>1, <1>2 DEF ExitInv, DistinctInv
<1>3. CASE j.leg = "stopped" /\ k.leg = "stopped"
  <2>1. PICK o \in Key, x \in Key : o = [j EXCEPT !.leg = "open"] /\ x = [k EXCEPT !.leg = "open"]
    BY <1>1 DEF Key
  <2>2. FilledOpen(o) /\ FilledOpen(x) /\ journal[o].ticket = journal[x].ticket
    BY <1>1, <1>3, <2>1 DEF ExitInv, StoppedInv, Exit
  <2>3. o = x
    BY <2>2 DEF StopInv, OpenTicketsInv
  <2> QED
    BY <1>1, <1>3, <2>1, <2>3 DEF Key
<1> QED
  BY <1>1, <1>2, <1>3 DEF Exit

\* As long as the bars begin early, a position leaves the journal once, by its close or by its stop-out,
\* unless a close leg older than the position took it (_last_open, holding).
THEOREM OneExitPerPositionHolds ==
    ASSUME Fifo, DailyWindow
    PROVE  SpecH4 /\ []BarsBeginEarly => []OneExitPerPosition
<1>1. Init => ExitInv
  <2> SUFFICES ASSUME Init PROVE ExitInv
    OBVIOUS
  <2>1. \A k \in Key : journal[k].status = "absent"
    BY DEF Init, Absent, PendingRow
  <2> QED
    BY <2>1 DEF ExitInv, DeadInv, StoppedInv, OneLegInv, DistinctInv, Exit
<1>2. TypeOK /\ DeskInv /\ BarsBeginEarly /\ JournalInv /\ ExitInv /\ [NextH4]_vars => ExitInv'
  BY ExitStepHolds
<1>3. TypeOK /\ DeskInv /\ JournalInv /\ ExitInv => OneExitPerPosition
  BY DistinctExits DEF JournalInv
<1> QED
  BY <1>1, <1>2, <1>3, JournalInvHolds, PTL DEF SpecH4

-----------------------------------------------------------------------------
\* The cover of a fixed strategy's position, with 4h strategies beside it.

\* What the decisions on 4h bins leave alone: the rows of the fixed strategies, a pending close, the
\* positions and the orders on their way.
H4Leaves ==
    /\ UNCHANGED <<clock, now, due, positions>>
    /\ \A r \in inbox' : r.op = "order" => \E q \in inbox : q.op = "order" /\ q.pos = r.pos
    /\ \A k \in Key : /\ Fixed(k) => journal'[k] = journal[k]
                      /\ k.leg = "close" /\ journal[k].status = "pending" => journal'[k].status = "pending"
                      /\ journal[k].status # "absent" =>
                            journal'[k].status # "absent" /\ journal'[k].due \in {journal[k].due, now}
    /\ pc' \notin {"opening", "ordering", "closing"}
    /\ pc' = "leg" => cur' \in Key /\ ~Fixed(cur') /\ journal'[cur'].status # "absent" /\ journal'[cur'].due = now

LEMMA H4WriteLeaves ==
    ASSUME TypeOK, cur.leg = "decide", Kind[cur.strat] = "h4",
           NEW leg \in {"open", "close", "modify"}, NEW row \in Row, Write(leg, row),
           row.due = now, row.status # "absent", leg = "close" => row.status = "pending"
    PROVE  /\ \A k \in Key : /\ Fixed(k) => journal'[k] = journal[k]
                             /\ k.leg = "close" /\ journal[k].status = "pending" => journal'[k].status = "pending"
                             /\ journal[k].status # "absent" =>
                                   journal'[k].status # "absent" /\ journal'[k].due \in {journal[k].due, now}
           /\ journal'[[cur EXCEPT !.leg = leg]] = row
<1> DEFINE l == [cur EXCEPT !.leg = leg]
           first == [journal EXCEPT ![l] = row]
<1>1. /\ cur \in Key /\ l \in Key /\ l.leg = leg /\ l # cur /\ l.strat = cur.strat
      /\ journal \in [Key -> Row] /\ journal[cur] \in Row
  BY DEF TypeOK, TickTypeOK, DbTypeOK, Key
<1>2. /\ first[cur] = journal[cur] /\ first[l] = row
      /\ \A k \in Key : k # l => first[k] = journal[k]
      /\ DOMAIN first = Key
  BY <1>1
<1>3. journal' = [first EXCEPT ![cur].status = "decided"]
  BY DEF Write
<1>4. ~Fixed(l) /\ ~Fixed(cur)
  BY <1>1 DEF Fixed
<1> HIDE DEF first, l
<1>5. /\ \A k \in Key : k # l /\ k # cur => journal'[k] = journal[k]
      /\ journal'[l] = row
      /\ journal'[cur] = [journal[cur] EXCEPT !.status = "decided"]
  BY <1>1, <1>2, <1>3
<1>6. journal'[cur].status = "decided" /\ journal'[cur].due = journal[cur].due
  BY <1>1, <1>5 DEF Row
<1> QED
  BY <1>1, <1>4, <1>5, <1>6 DEF l

LEMMA H4StepLeaves ==
    ASSUME TypeOK, PlaceInv, H4Decide
    PROVE  H4Leaves
<1> USE DEF bridgeVars, dbVars, tickVars, envVars, historyVars
<1>0. cur \in Key /\ journal \in [Key -> Row] /\ journal[cur] \in Row /\ now \in Nat
  BY DEF TypeOK, TickTypeOK, DbTypeOK
<1>1. CASE H4Shut \/ H4Late \/ H4Nothing \/ TrailFilled \/ TrailRejected \/ ModifyExpires \/ H4Gap
  <2>1. PICK st \in Final : Finish(st)
    BY <1>1 DEF H4Shut, H4Late, H4Nothing, TrailFilled, TrailRejected, ModifyExpires, H4Gap, FinishRow, Final
  <2>2. /\ UNCHANGED <<clock, now, due, positions>> /\ pc' = "next" /\ cur.leg # "close"
        /\ inbox' = inbox \/ HangUp
    BY <1>1 DEF H4Shut, H4Late, H4Nothing, H4Flat, H4Held, H4Decidable, AtH4, At, TrailFilled, TrailRejected,
                ModifyExpires, H4Gap, FinishRow, Onward, PlaceInv
  <2>3. ~Fixed(cur)
    BY <1>1 DEF H4Shut, H4Late, H4Nothing, H4Flat, H4Held, H4Decidable, AtH4, At, TrailFilled, TrailRejected,
                ModifyExpires, H4Gap, PlaceInv, Fixed
  <2>4. /\ \A k \in Key : k # cur => journal'[k] = journal[k]
        /\ journal'[cur].status = st /\ journal'[cur].due = journal[cur].due
    BY <1>0, <2>1 DEF Finish, Row
  <2>5. \A r \in inbox' : \E q \in inbox : q.op = r.op /\ q.pos = r.pos
    BY <2>2 DEF HangUp, TypeOK, BridgeTypeOK, Request
  <2> QED
    BY <2>2, <2>3, <2>4, <2>5 DEF H4Leaves, Final
<1>2. CASE H4Waits \/ H4Unreadable \/ H4StopKill
  <2>1. UNCHANGED <<journal, clock, now, due, positions, inbox>> /\ pc' \in {"next", "flat"}
    BY <1>2 DEF H4Waits, H4Unreadable, H4StopKill, LeaveRow, Onward
  <2> QED
    BY <2>1 DEF H4Leaves
<1>3. CASE H4StoppedOut
  <2>1. PICK o \in LastOpen(cur.strat), pnl \in {"win", "loss"} :
          journal' = [journal EXCEPT ![[o EXCEPT !.leg = "stopped"]] =
             [PendingRow(now, journal[o].volume) EXCEPT
                !.status = "filled", !.ticket = journal[o].ticket, !.pnl = pnl]]
    BY <1>3 DEF H4StoppedOut
  <2> DEFINE row == [PendingRow(now, journal[o].volume) EXCEPT
                !.status = "filled", !.ticket = journal[o].ticket, !.pnl = pnl]
             l == [o EXCEPT !.leg = "stopped"]
  <2>2. l \in Key /\ l.leg = "stopped" /\ row.due = now /\ row.status = "filled" /\ ~Fixed(l)
    BY <2>1 DEF LastOpen, FilledOpens, RowsOf, Key, PendingRow, Fixed
  <2>3. journal' = [journal EXCEPT ![l] = row]
    BY <2>1
  <2> HIDE DEF row, l
  <2>4. \A k \in Key : journal'[k] = IF k = l THEN row ELSE journal[k]
    BY <1>0, <2>3
  <2>5. UNCHANGED <<clock, now, due, positions, inbox>> /\ pc' = "stopped"
    BY <1>3 DEF H4StoppedOut
  <2>6. \A r \in inbox' : r.op = "order" => \E q \in inbox : q.op = "order" /\ q.pos = r.pos
    BY <2>5
  <2> QED
    BY <2>2, <2>4, <2>5, <2>6 DEF H4Leaves
<1>4. CASE H4Open \/ H4Close \/ H4Trail
  <2>1. cur.leg = "decide" /\ Kind[cur.strat] = "h4" /\ UNCHANGED <<clock, now, due, positions>>
    BY <1>4 DEF H4Open, H4Close, H4Trail, H4Flat, H4Held, H4Decidable, AtH4, At, PlaceInv
  <2>2. \A vol \in Volumes : PendingRow(now, vol) \in Row /\ PendingRow(now, vol).due = now
                             /\ PendingRow(now, vol).status = "pending"
    BY <1>0, RowTypes, ExecutorAssumption DEF PendingRow, ExecutorAssumption
  <2>3. config.volume \in Volumes
    BY ExecutorAssumption DEF TypeOK, EnvTypeOK, ExecutorAssumption
  <2>4. CASE H4Open
    <3>1. PICK low \in Levels : Write("open", [PendingRow(now, config.volume) EXCEPT !.sl = low])
      BY <2>4 DEF H4Open
    <3> DEFINE row == [PendingRow(now, config.volume) EXCEPT !.sl = low]
    <3>2. row \in Row /\ row.due = now /\ row.status = "pending"
      BY <2>2, <2>3 DEF Row
    <3> HIDE DEF row
    <3>3. Write("open", row)
      BY <3>1 DEF row
    <3>4. cur' = [cur EXCEPT !.leg = "open"] /\ pc' = "leg" /\ inbox' = inbox
      BY <2>4 DEF H4Open
    <3>5. cur' \in Key /\ ~Fixed(cur')
      BY <1>0, <2>1, <3>4 DEF Key, Fixed
    <3> QED
      BY <2>1, <3>2, <3>3, <3>4, <3>5, H4WriteLeaves DEF H4Leaves
  <2>5. CASE H4Close
    <3> DEFINE row == PendingRow(now, config.volume)
    <3>1. Write("close", row) /\ row \in Row /\ row.due = now /\ row.status = "pending"
      BY <2>2, <2>3, <2>5 DEF H4Close
    <3> HIDE DEF row
    <3>2. cur' = [cur EXCEPT !.leg = "close"] /\ pc' = "leg" /\ inbox' = inbox
      BY <2>5 DEF H4Close, H4Held, H4Decidable, AtH4, At
    <3>3. cur' \in Key /\ ~Fixed(cur')
      BY <1>0, <2>1, <3>2 DEF Key, Fixed
    <3> QED
      BY <2>1, <3>1, <3>2, <3>3, H4WriteLeaves DEF H4Leaves
  <2>6. CASE H4Trail
    <3> DEFINE trail(stop, p) == [PendingRow(now, config.volume) EXCEPT
                  !.sl = stop, !.ticket = p.ticket, !.status = IF config.enabled THEN "pending" ELSE "skipped"]
    <3>1. PICK stop \in Levels, p \in PositionsOf(cur.strat) :
            /\ Write("modify", trail(stop, p))
            /\ pc' \in {"trailing", "next"}
            /\ Send("modify", [p EXCEPT !.sl = stop]) \/ inbox' = inbox
      BY <2>6 DEF H4Trail
    <3>2. trail(stop, p) \in Row /\ trail(stop, p).due = now /\ trail(stop, p).status # "absent"
      BY <2>2, <2>3 DEF Row, Final, PositionsOf, TypeOK, BridgeTypeOK, Position
    <3> HIDE DEF trail
    <3>3. \A r \in inbox' : r.op = "order" => \E q \in inbox : q.op = "order" /\ q.pos = r.pos
      BY <3>1 DEF Send
    <3> QED
      BY <2>1, <3>1, <3>2, <3>3, H4WriteLeaves DEF H4Leaves
  <2> QED
    BY <1>4, <2>4, <2>5, <2>6
<1> QED
  BY <1>1, <1>2, <1>3, <1>4 DEF H4Decide

LEMMA SettlesStepH4 ==
    ASSUME EveryStrategyIsListed, Fifo, TypeOK, DeskInv, PlaceInv, ClosingInv, [NextH4]_vars
    PROVE  SettlesFlat
<1>1. CASE [Next]_vars
  <2>1. OpeningInv
    BY DEF OpeningInv, PlaceInv
  <2> QED
    BY <1>1, <2>1, SettlesStep
<1>2. CASE H4Decide
  BY <1>2, H4StepLeaves DEF SettlesFlat, H4Leaves
<1> QED
  BY <1>1, <1>2 DEF NextH4

LEMMA CoverStepH4 ==
    ASSUME FixedSchedule, EveryStrategyIsListed, TypeOK, PlaceInv, RowsInv, ReachedInv, [NextH4]_vars
    PROVE  RowsInv' /\ ReachedInv'
<1>1. CASE [Next]_vars
  BY <1>1, CoverStep
<1>2. CASE H4Decide
  <2>1. H4Leaves
    BY <1>2, H4StepLeaves
  <2>2. now \in Nat /\ due \subseteq Key
    BY DEF TypeOK, TickTypeOK
  <2>3. RowsInv'
    BY <2>1 DEF RowsInv, H4Leaves, Fixed, DueAt
  <2>4. \A k \in Reached' : k \in due \/ (k = cur' /\ pc' = "leg")
    BY <2>1 DEF Reached, H4Leaves
  <2>5. \A k \in due : k \in Key /\ k \in Reached
    BY <2>2 DEF Reached
  <2>6. \A k \in Reached' : journal'[k].status # "absent" /\ journal'[k].due <= now'
    BY <2>1, <2>2, <2>4, <2>5 DEF H4Leaves, ReachedInv
  <2>7. ASSUME NEW k \in Reached', Fixed(k), k.leg = "open", Fresh(k)
        PROVE  journal'[CloseOf(k)].status = "pending"
    <3>1. k \in Key /\ k \in Reached
      BY <2>1, <2>4, <2>5, <2>7 DEF H4Leaves
    <3>2. CloseOf(k) \in Key /\ Fixed(CloseOf(k))
      BY <2>7, <3>1 DEF CloseOf, Key, Fixed
    <3> QED
      BY <2>1, <2>7, <3>1, <3>2 DEF H4Leaves, ReachedInv
  <2> QED
    BY <2>1, <2>3, <2>6, <2>7 DEF ReachedInv, H4Leaves, Fixed, Fresh, DueAt, CloseOf
<1> QED
  BY <1>1, <1>2 DEF NextH4

LEMMA HeldStepH4 ==
    ASSUME FixedSchedule, Fifo, TypeOK, PlaceInv, RowsInv, ReachedInv, HeldInv, SettlesFlat, [NextH4]_vars
    PROVE  HeldInv'
<1>1. CASE [Next]_vars
  <2>1. OpeningInv
    BY DEF OpeningInv, PlaceInv
  <2> QED
    BY <1>1, <2>1, HeldStep
<1>2. CASE H4Decide
  <2>1. H4Leaves
    BY <1>2, H4StepLeaves
  <2>2. \A s \in Strategies : Awaited(s)' => Awaited(s)
    BY <2>1 DEF H4Leaves, Awaited, PositionsOf
  <2> QED
    BY <2>2, HeldKept
<1> QED
  BY <1>1, <1>2 DEF NextH4

LEMMA CloseInvHoldsH4 ==
    ASSUME Fifo
    PROVE  SpecH4 => [](TypeOK /\ DeskInv /\ PlaceInv /\ AccountInv /\ ClosingInv /\ ClosedInv)
<1>1. Init => PlaceInv /\ AccountInv /\ ClosingInv /\ ClosedInv
  BY OrderInit DEF Init, BridgeInit, AccountInv, ClosingInv, ClosedInv
<1>2. TypeOK /\ DeskInv /\ PlaceInv /\ AccountInv /\ ClosingInv /\ ClosedInv /\ [NextH4]_vars
          => PlaceInv' /\ AccountInv' /\ ClosingInv' /\ ClosedInv'
  BY PlaceStep, AccountStep, ClosingStepH4
<1>3. SpecH4 => [](TypeOK /\ DeskInv)
  BY DeskInvHolds
<1> QED
  BY <1>1, <1>2, <1>3, PTL DEF SpecH4

\* A close leg ends only when its strategy has no position, also beside strategies that trail their stops.
THEOREM CloseEndsFlatHoldsH4 == ASSUME Fifo, EveryStrategyIsListed PROVE SpecH4 => CloseEndsFlat
<1>1. TypeOK /\ DeskInv /\ PlaceInv /\ ClosingInv /\ [NextH4]_vars => SettlesFlat
  BY SettlesStepH4
<1>2. SpecH4 => [][SettlesFlat]_vars
  BY <1>1, CloseInvHoldsH4, PTL DEF SpecH4
<1>3. SettlesFlat => \A k \in Key :
          (k.leg = "close" /\ journal[k].status = "pending" /\ journal'[k].status # "pending")
              => PositionsOf(k.strat) = {}
  BY DEF SettlesFlat
<1> QED
  BY <1>2, <1>3, PTL DEF CloseEndsFlat

\* A fixed strategy's position has a pending close row, also beside strategies that trail their stops.
THEOREM FixedIsCoveredHoldsH4 ==
    ASSUME Fifo, EveryStrategyIsListed, FixedSchedule
    PROVE  SpecH4 => []FixedIsCovered
<1>1. Init => RowsInv /\ ReachedInv /\ HeldInv
  BY ExecutorAssumption DEF Init, BridgeInit, RowsInv, ReachedInv, HeldInv, Reached, Absent, PendingRow,
                            Awaited, PositionsOf, Final
<1>2. TypeOK /\ PlaceInv /\ RowsInv /\ ReachedInv /\ [NextH4]_vars => RowsInv' /\ ReachedInv'
  BY CoverStepH4
<1>3. TypeOK /\ DeskInv /\ PlaceInv /\ ClosingInv /\ RowsInv /\ ReachedInv /\ HeldInv /\ [NextH4]_vars => HeldInv'
  BY SettlesStepH4, HeldStepH4
<1>4. TypeOK /\ HeldInv => FixedIsCovered
  <2> SUFFICES ASSUME TypeOK, HeldInv, NEW p \in positions, Kind[p.strat] = "fixed"
               PROVE  RowsOf(p.strat, "close", {"pending"}) # {}
    BY DEF FixedIsCovered
  <2>1. p.strat \in Strategies /\ Awaited(p.strat)
    BY DEF TypeOK, BridgeTypeOK, Position, Awaited, PositionsOf
  <2>2. PICK k \in Key : k.strat = p.strat /\ k.leg = "close" /\ journal[k].status = "pending"
    BY <2>1 DEF HeldInv, ClosePending
  <2> QED
    BY <2>2 DEF RowsOf, Action
<1> QED
  BY <1>1, <1>2, <1>3, <1>4, CloseInvHoldsH4, PTL DEF SpecH4

-----------------------------------------------------------------------------
\* The positions nothing comes back to.

\* A failed commit is not made up for, and a bridge that does not answer at a start leaves its report out.
ReportsAreMade == FaultKinds \cap {"raise", "deaf"} = {}

\* The positions a strategy that decides has or is about to have.
Asked == positions \cup {r.pos : r \in {q \in inbox : q.op = "order"}}

InFlight(p) == pc = "ordering" /\ p.strat = cur.strat /\ p.ticket = nextTicket - 1

OrphanInv ==
    pc # "down" =>
        \A p \in Asked : Kind[p.strat] # "fixed" => p.ticket \in told \/ Covered(p.strat) \/ InFlight(p)

\* No step uncovers a strategy that has a position or may get one.
LEMMA StaysCovered ==
    ASSUME TypeOK, RowsInOrder, SettlesFlat, RowStep, NEW s \in Strategies, Kind[s] # "fixed", Covered(s), Awaited(s)
    PROVE  Covered(s)'
<1>0. /\ cur \in Key /\ journal \in [Key -> Row]
      /\ \A k \in Key : journal[k].status \in {"absent", "pending"} \cup Final
  BY DEF TypeOK, TickTypeOK, DbTypeOK, Row
<1>1. CASE \E k \in Key : k.strat = s /\ k.leg = "close" /\ journal[k].status = "pending"
  <2>1. PICK k \in Key : k.strat = s /\ k.leg = "close" /\ journal[k].status = "pending"
    BY <1>1
  <2>2. journal'[k].status = "pending"
    BY <2>1 DEF SettlesFlat, Awaited
  <2> QED
    BY <2>1, <2>2 DEF Covered, RowsOf, Action
<1>2. CASE \A k \in Key : k.strat = s /\ k.leg = "close" => journal[k].status # "pending"
  <2>1. Holding(s)
    <3>1. \A k \in RowsOf(s, "close", {"pending"}) : k.leg = "stopped"
      BY <1>2 DEF RowsOf, Action
    <3>2. \A k \in Key : k.leg = "stopped" => journal[k].status # "pending"
      BY DEF RowsInOrder, LegKinds
    <3>3. RowsOf(s, "close", {"pending"}) = {}
      BY <3>1, <3>2 DEF RowsOf
    <3> QED
      BY <3>3 DEF Covered
  <2>2. PICK o \in Key : /\ o.strat = s /\ o.leg = "open" /\ journal[o].status = "filled"
                         /\ \A c \in Key : c.strat = s /\ Action(c) = "close" /\ journal[c].status # "absent"
                                               => journal[c].due <= journal[o].due
    BY <1>0, <2>1 DEF Holding, FilledOpens, RowsOf, Action, Written
  \* It is enough that the open's row stays and that no close is written.
  <2>3. ASSUME journal'[o].status = "filled", journal'[o].due = journal[o].due,
               \A c \in Key : c.strat = s /\ Action(c) = "close" /\ journal'[c].status # "absent"
                     => journal[c].status # "absent" /\ journal'[c].due = journal[c].due
        PROVE  Covered(s)'
    <3>1. \A c \in Key : c.strat = s /\ Action(c) = "close" /\ journal'[c].status \in Written
              => journal'[c].due <= journal'[o].due
      BY <2>2, <2>3 DEF Written, Final
    <3>2. Holding(s)'
      BY <2>2, <2>3, <3>1 DEF Holding, FilledOpens, RowsOf, Action
    <3> QED
      BY <3>2 DEF Covered
  <2>4. CASE Tick \/ PartScheduled
    <3>1. PICK keys \in SUBSET Unwritten(clock) : journal' = Scheduled(keys)
      BY <2>4 DEF Tick, PartScheduled
    <3>2. \A c \in Key : c.strat = s /\ Action(c) = "close" => journal'[c] = journal[c]
      BY <3>1, ScheduledRows DEF Decided, Action
    <3>3. journal'[o] = journal[o]
      BY <2>2, <3>1, ScheduledRows
    <3> QED
      BY <2>2, <2>3, <3>2, <3>3
  <2>5. CASE SettleStep
    <3>1. PICK row \in Row : journal' = [journal EXCEPT ![cur] = row] /\ row.due = journal[cur].due
      BY <2>5 DEF SettleStep
    <3>2. journal[cur].status = "pending"
      BY <2>5 DEF SettleStep, RowsInOrder, UnsettledInv, Unsettled
    <3>3. \A k \in Key : journal'[k] = IF k = cur THEN row ELSE journal[k]
      BY <1>0, <3>1
    <3> QED
      BY <2>2, <2>3, <3>1, <3>2, <3>3
  <2>6. CASE WriteStep
    <3>1. PICK leg \in {"open", "close", "modify"}, row \in Row :
            /\ journal' = [journal EXCEPT ![[cur EXCEPT !.leg = leg]] = row, ![cur].status = "decided"]
            /\ leg = "close" => row.status = "pending"
      BY <2>6 DEF WriteStep
    <3> DEFINE l == [cur EXCEPT !.leg = leg]
    <3>2. cur.leg = "decide" /\ pc \in Working
      BY <2>6 DEF WriteStep, Working
    <3>3. l \in Key /\ l.leg = leg /\ l # cur /\ l.strat = cur.strat
      BY <1>0, <3>2 DEF Key
    <3>4. /\ \A k \in Key : k # l /\ k # cur => journal'[k] = journal[k]
          /\ journal'[l] = row
      <4> DEFINE first == [journal EXCEPT ![l] = row]
      <4>1. first[l] = row /\ (\A k \in Key : k # l => first[k] = journal[k]) /\ DOMAIN first = Key
        BY <1>0, <3>3
      <4>2. journal' = [first EXCEPT ![cur].status = "decided"]
        BY <3>1
      <4> HIDE DEF first, l
      <4> QED
        BY <1>0, <3>3, <4>1, <4>2
    <3>5. FilledKept(o)
      BY <2>6, WriteKeeps
    <3>6. journal'[o] = journal[o]
      BY <2>2, <3>5 DEF FilledKept
    <3> HIDE DEF l
    <3>7. CASE leg = "close" /\ cur.strat = s
      BY <3>1, <3>3, <3>4, <3>7 DEF Covered, RowsOf, Action
    <3>8. CASE ~(leg = "close" /\ cur.strat = s)
      <4>1. \A c \in Key : c.strat = s /\ Action(c) = "close" => journal'[c] = journal[c]
        BY <3>2, <3>3, <3>4, <3>8 DEF Action
      <4> QED
        BY <2>2, <2>3, <3>6, <4>1
    <3> QED
      BY <3>7, <3>8
  <2>7. CASE StopStep
    <3>1. PICK x \in LastOpen(cur.strat), row \in Row : journal' = [journal EXCEPT ![[x EXCEPT !.leg = "stopped"]] = row]
      BY <2>7 DEF StopStep
    <3> DEFINE l == [x EXCEPT !.leg = "stopped"]
    <3>2. l \in Key /\ l.leg = "stopped" /\ l.strat = cur.strat /\ s # cur.strat
      BY <2>7, <3>1 DEF StopStep, LastOpen, FilledOpens, RowsOf, Key, Awaited
    <3> HIDE DEF l
    <3>3. \A k \in Key : k # l => journal'[k] = journal[k]
      BY <1>0, <3>1 DEF l
    <3>4. \A c \in Key : c.strat = s => journal'[c] = journal[c]
      BY <3>2, <3>3
    <3> QED
      BY <2>2, <2>3, <3>4
  <2>8. CASE MoveStep \/ RestStep \/ OutsideStep
    <3>1. UNCHANGED journal
      BY <2>8 DEF MoveStep, RestStep, OutsideStep
    <3> QED
      BY <2>2, <2>3, <3>1
  <2> QED
    BY <2>4, <2>5, <2>6, <2>7, <2>8 DEF RowStep
<1> QED
  BY <1>1, <1>2

\* Nothing new is asked for, and the row in hand stays where it is.
LEMMA OrphansKept ==
    ASSUME TypeOK, RowsInOrder, SettlesFlat, RowStep, OrphanInv, pc # "down", told \subseteq told', nextTicket' = nextTicket,
           \A p \in Asked' : \E q \in Asked : q.ticket = p.ticket /\ q.strat = p.strat,
           pc = "ordering" => pc' = "ordering" /\ cur' = cur
    PROVE  OrphanInv'
<1> SUFFICES ASSUME NEW p \in Asked', Kind[p.strat] # "fixed"
             PROVE  p.ticket \in told' \/ Covered(p.strat)' \/ InFlight(p)'
  BY DEF OrphanInv
<1>1. PICK q \in Asked : q.ticket = p.ticket /\ q.strat = p.strat
  OBVIOUS
<1>2. q.ticket \in told \/ Covered(q.strat) \/ InFlight(q)
  BY <1>1 DEF OrphanInv
<1>3. q.strat \in Strategies /\ Awaited(q.strat)
  BY DEF Asked, Awaited, PositionsOf, TypeOK, BridgeTypeOK, Position, Request
<1>4. CASE Covered(q.strat)
  <2>1. PICK s \in Strategies : s = q.strat
    BY <1>3
  <2>2. Covered(s)'
    BY <1>1, <1>3, <1>4, <2>1, StaysCovered
  <2> QED
    BY <1>1, <2>1, <2>2
<1>5. CASE InFlight(q)
  BY <1>1, <1>5 DEF InFlight
<1> QED
  BY <1>1, <1>2, <1>4, <1>5

\* The fill of an order is written to a row that is due no earlier than any close.
LEMMA OrphansByFill ==
    ASSUME TypeOK, PlaceInv, RowsInOrder, SettlesFlat, RowStep, OrphanInv, OpenFilled
    PROVE  OrphanInv'
<1> USE DEF bridgeVars, dbVars, tickVars, envVars, historyVars
<1>0. /\ pc = "ordering" /\ cur.leg = "open" /\ cur \in Key /\ UNCHANGED <<positions, inbox, told>>
      /\ journal \in [Key -> Row] /\ journal[cur] \in Row
      /\ \A k \in Key : journal[k].status \in {"absent", "pending"} \cup Final
  BY DEF OpenFilled, PlaceInv, TypeOK, TickTypeOK, DbTypeOK, Row
<1>1. ASSUME NEW s \in Strategies, s = cur.strat, Kind[s] # "fixed" PROVE Covered(s)'
  <2> DEFINE row == [journal[cur] EXCEPT !.status = "filled", !.ticket = nextTicket - 1]
  <2>1. journal' = [journal EXCEPT ![cur] = row] /\ row.status = "filled" /\ row.due = journal[cur].due
    BY <1>0 DEF OpenFilled, Row
  <2> HIDE DEF row
  <2>2. \A k \in Key : journal'[k] = IF k = cur THEN row ELSE journal[k]
    BY <1>0, <2>1
  <2>3. journal[cur].status = "pending" /\ Decided(cur)
    BY <1>0, <1>1 DEF RowsInOrder, UnsettledInv, Unsettled, Working, Decided
  <2>4. ASSUME NEW c \in Key, c.strat = s, Action(c) = "close", journal'[c].status # "absent"
        PROVE  journal'[c].due <= journal'[cur].due
    <3>1. c # cur /\ Decided(c)
      BY <1>0, <1>1, <2>4 DEF Action, Decided
    <3>2. journal[c].due <= journal[cur].due
      BY <1>0, <1>1, <2>2, <2>3, <2>4, <3>1 DEF RowsInOrder, PendingOpenIsNewest
    <3> QED
      BY <1>0, <2>1, <2>2, <3>1, <3>2
  <2>5. /\ Action(cur) = "open" /\ journal'[cur].status = "filled"
        /\ \A c \in Key : c.strat = s /\ Action(c) = "close" /\ journal'[c].status \in Written
                            => journal'[c].due <= journal'[cur].due
    BY <1>0, <2>1, <2>2, <2>4 DEF Action, Written, Final
  <2>6. PICK o \in Key : /\ o.strat = s /\ Action(o) = "open" /\ journal'[o].status = "filled"
                         /\ \A c \in Key : c.strat = s /\ Action(c) = "close" /\ journal'[c].status \in Written
                                              => journal'[c].due <= journal'[o].due
    BY <1>0, <1>1, <2>5
  <2>7. Holding(s)'
    BY <2>6 DEF Holding, FilledOpens, RowsOf, Action
  <2> QED
    BY <1>1, <2>7 DEF Covered
<1>2. SUFFICES ASSUME NEW p \in Asked, Kind[p.strat] # "fixed"
               PROVE  p.ticket \in told \/ Covered(p.strat)'
  <2>1. Asked' = Asked
    BY <1>0 DEF Asked
  <2> QED
    BY <1>0, <2>1 DEF OrphanInv
<1>3. p.ticket \in told \/ Covered(p.strat) \/ p.strat = cur.strat
  BY <1>0, <1>2 DEF OrphanInv, InFlight
<1>4. PICK s \in Strategies : s = p.strat /\ Awaited(s)
  BY <1>2 DEF Asked, Awaited, PositionsOf, TypeOK, BridgeTypeOK, Position, Request
<1>5. Covered(s) => Covered(s)'
  BY <1>2, <1>4, StaysCovered
<1> QED
  BY <1>1, <1>2, <1>3, <1>4, <1>5

LEMMA OrphanStep ==
    ASSUME EveryStrategyIsListed, ReportsAreMade, Fifo, TypeOK, TypeOK', PlaceInv, StopInv, RowsInOrder,
           SettlesFlat, RowStep, OrphanInv, [NextH4]_vars
    PROVE  OrphanInv'
<1> USE DEF bridgeVars, dbVars, tickVars, envVars, historyVars
<1>0. \A p \in Asked : p.strat \in Strategies
  BY DEF Asked, TypeOK, BridgeTypeOK, Position, Request
<1>1. CASE OpenSend
  <2> DEFINE pos == [ticket |-> nextTicket, strat |-> cur.strat, session |-> cur.session,
                     volume |-> journal[cur].volume, sl |-> journal[cur].sl]
             order == [op |-> "order", pos |-> pos, waiting |-> TRUE]
  <2>1. /\ inbox' = inbox \cup {order} /\ UNCHANGED <<positions, journal, cur, told>>
        /\ pc = "opening" /\ pc' = "ordering" /\ nextTicket' = nextTicket + 1
    BY <1>1 DEF OpenSend, Send
  <2>2. order.op = "order" /\ order.pos = pos /\ pos.strat = cur.strat /\ pos.ticket = nextTicket
    OBVIOUS
  <2> HIDE DEF order, pos
  <2>3. nextTicket' - 1 = nextTicket
    BY <2>1 DEF TypeOK, EnvTypeOK
  <2>4. ASSUME NEW p \in Asked', Kind[p.strat] # "fixed"
        PROVE  p.ticket \in told' \/ Covered(p.strat)' \/ InFlight(p)'
    <3>1. p \in Asked \/ p = pos
      BY <2>1, <2>2 DEF Asked
    <3>2. CASE p = pos
      BY <2>1, <2>2, <2>3, <3>2 DEF InFlight
    <3>3. CASE p \in Asked
      <4>1. p.ticket \in told \/ Covered(p.strat)
        BY <2>1, <2>4, <3>3 DEF OrphanInv, InFlight
      <4>2. Covered(p.strat)' <=> Covered(p.strat)
        BY <2>1 DEF Covered, Holding, FilledOpens, RowsOf
      <4> QED
        BY <2>1, <4>1, <4>2
    <3> QED
      BY <3>1, <3>2, <3>3
  <2> QED
    BY <2>4 DEF OrphanInv
<1>2. CASE OpenFilled
  BY <1>2, OrphansByFill
<1>3. CASE OpenRejected
  <2>1. /\ HangUp /\ UNCHANGED <<positions, nextTicket>> /\ pc = "ordering"
        /\ told' = told \cup {nextTicket - 1}
    BY <1>3 DEF OpenRejected
  <2>2. \A r \in inbox' : \E q \in inbox : r.op = q.op /\ r.pos = q.pos
    BY <2>1 DEF HangUp, TypeOK, BridgeTypeOK, Request
  <2>3. Asked' \subseteq Asked
    BY <2>1, <2>2 DEF Asked
  <2>4. ASSUME NEW p \in Asked, Kind[p.strat] # "fixed"
        PROVE  p.ticket \in told' \/ Covered(p.strat)'
    <3>1. p.ticket \in told' \/ Covered(p.strat)
      BY <2>1, <2>4 DEF OrphanInv, InFlight
    <3>2. PICK s \in Strategies : s = p.strat
      BY <1>0
    <3>3. Awaited(s)
      BY <3>2 DEF Asked, Awaited, PositionsOf
    <3> QED
      BY <2>4, <3>1, <3>2, <3>3, StaysCovered
  <2> QED
    BY <2>3, <2>4 DEF OrphanInv
<1>4. CASE Boot
  <2>1. UNCHANGED <<positions, inbox, journal>> /\ config' \in Configs
    BY <1>4 DEF Boot
  <2>2. /\ BridgeReadable
        /\ told' = told \cup {p.ticket : p \in {q \in positions :
                         q.strat \in config'.strategies /\ ~Covered(q.strat)}}
    BY <1>4 DEF Boot, Fault, ReportsAreMade
  <2>3. Asked' = positions
    BY <2>1, <2>2, ReadableIsIdle DEF Asked
  <2>4. ASSUME NEW p \in positions, ~Covered(p.strat) PROVE p.ticket \in told'
    <3>1. p \in Asked
      BY DEF Asked
    <3>2. p.strat \in config'.strategies
      BY <1>0, <2>1, <3>1 DEF EveryStrategyIsListed
    <3> QED
      BY <2>2, <2>4, <3>2
  <2>5. \A p \in positions : Covered(p.strat)' <=> Covered(p.strat)
    BY <2>1 DEF Covered, Holding, FilledOpens, RowsOf
  <2> QED
    BY <2>3, <2>4, <2>5 DEF OrphanInv
<1>5. CASE Crash \/ TickRaises \/ ScheduleDies
  <2>1. pc' = "down"
    BY <1>5 DEF Crash, TickRaises, ScheduleDies, Fault, Rest, ReportsAreMade
  <2> QED
    BY <2>1 DEF OrphanInv
<1>6. CASE Serve
  <2>1. PICK r \in inbox : FillOrder(r) \/ ClosePosition(r) \/ MoveStop(r) \/ KeepStop(r) \/ PositionGone(r)
    BY <1>6 DEF Serve
  <2>2. inbox' = inbox \ {r} /\ UNCHANGED <<pc, cur, told, nextTicket, journal>>
    BY <1>6, <2>1 DEF Serve, FillOrder, ClosePosition, MoveStop, KeepStop, PositionGone, Answer
  <2>3. \A p \in Asked' : \E q \in Asked : q.ticket = p.ticket /\ q.strat = p.strat
    <3>1. CASE FillOrder(r)
      BY <2>2, <3>1 DEF FillOrder, Asked
    <3>2. CASE MoveStop(r)
      <4>1. PICK p \in positions : positions' = (positions \ {p}) \cup {[p EXCEPT !.sl = r.pos.sl]}
        BY <3>2 DEF MoveStop
      <4>2. [p EXCEPT !.sl = r.pos.sl].strat = p.strat /\ [p EXCEPT !.sl = r.pos.sl].ticket = p.ticket
        BY DEF TypeOK, BridgeTypeOK, Position
      <4> QED
        BY <2>2, <4>1, <4>2 DEF Asked
    <3>3. CASE ClosePosition(r) \/ KeepStop(r) \/ PositionGone(r)
      <4>1. positions' \subseteq positions
        BY <3>3 DEF ClosePosition, KeepStop, PositionGone
      <4> QED
        BY <2>2, <4>1 DEF Asked
    <3> QED
      BY <2>1, <3>1, <3>2, <3>3
  <2>4. CASE pc # "down"
    BY <2>2, <2>3, <2>4, OrphansKept
  <2>5. CASE pc = "down"
    BY <2>2, <2>5 DEF OrphanInv
  <2> QED
    BY <2>4, <2>5
<1>7. CASE Rejects \/ Stopped \/ BarArrives \/ Advance \/ Person \/ UNCHANGED vars
  <2>1. positions' \subseteq positions /\ inbox' \subseteq inbox
    BY <1>7 DEF Rejects, Stopped, Refuse, StopOut, Answer, BarArrives, Advance, Person, vars
  <2>2. UNCHANGED <<pc, cur, told, nextTicket>>
    BY <1>7 DEF Rejects, Stopped, BarArrives, Advance, Person, vars
  <2>3. \A p \in Asked' : \E q \in Asked : q.ticket = p.ticket /\ q.strat = p.strat
    BY <2>1 DEF Asked
  <2>4. CASE pc # "down"
    BY <2>2, <2>3, <2>4, OrphansKept
  <2>5. CASE pc = "down"
    BY <2>2, <2>5 DEF OrphanInv
  <2> QED
    BY <2>4, <2>5
<1>8. CASE \/ Tick \/ NextLeg \/ SkipUnlisted \/ EndTick \/ Decide
           \/ OpenExpires \/ OpenPaused \/ OpenTooLarge \/ OpenDry \/ OpenMay \/ OpenUnreadable \/ OpenTaken
           \/ CloseUnreadable \/ CloseNothing \/ CloseDry \/ CloseFilled \/ CheckKill
  <2>1. UNCHANGED <<positions, inbox, told, nextTicket>> /\ pc \notin {"ordering", "down"}
    BY <1>8 DEF Tick, NextLeg, SkipUnlisted, EndTick, Decide, DecideMissed, DecideWaits,
                DecideNothing, DecideLeg, Decidable, AtDaily, At, OpenExpires, OpenPaused, OpenTooLarge,
                OpenDry, OpenMay, OpenUnreadable, OpenTaken, CloseUnreadable, CloseNothing,
                CloseDry, CloseFilled, CheckKill, FinishRow, LeaveRow
  <2>2. Asked' = Asked
    BY <2>1 DEF Asked
  <2> QED
    BY <2>1, <2>2, OrphansKept
<1>9. CASE CloseStart \/ CloseAnother \/ CloseRejected
  <2>1. UNCHANGED <<positions, told, nextTicket>> /\ pc \notin {"ordering", "down"}
    BY <1>9 DEF CloseStart, CloseAnother, CloseRejected, At, LeaveRow
  <2>2. HangUp \/ \E p : Send("close", p)
    BY <1>9 DEF CloseStart, CloseAnother, CloseRejected
  <2>3. \A r \in inbox' : r.op = "order" => \E q \in inbox : r.op = q.op /\ r.pos = q.pos
    BY <2>2 DEF HangUp, Send, TypeOK, BridgeTypeOK, Request
  <2>4. Asked' \subseteq Asked
    BY <2>1, <2>3 DEF Asked
  <2> QED
    BY <2>1, <2>4, OrphansKept
<1>10. CASE H4Decide
  <2>1. H4Leaves
    BY <1>10, H4StepLeaves
  <2>2. UNCHANGED <<told, nextTicket>> /\ pc \notin {"ordering", "down"}
    BY <1>10 DEF H4Decide, H4Waits, H4Shut, H4Late, H4Unreadable, H4StoppedOut, H4StopKill, H4Nothing, H4Open,
                 H4Close, H4Trail, TrailFilled, TrailRejected, ModifyExpires, H4Gap, H4Flat, H4Held, H4Decidable,
                 AtH4, At, FinishRow, LeaveRow
  <2>3. Asked' \subseteq Asked
    BY <2>1 DEF H4Leaves, Asked
  <2> QED
    BY <2>2, <2>3, OrphansKept
<1> QED
  BY <1>1, <1>2, <1>3, <1>4, <1>5, <1>6, <1>7, <1>8, <1>9, <1>10
     DEF NextH4, Next, Process, Open, Close, Failures

\* As long as no commit fails and the report of a start is made, a position that no close, decision or open
\* row will come back to has been named to a person (_open, reconcile).
THEOREM OrphanIsToldHolds ==
    ASSUME Fifo, EveryStrategyIsListed, FixedSchedule, ReportsAreMade, DailyWindow
    PROVE  SpecH4 /\ []BarsBeginEarly => []OrphanIsTold
<1>1. Init => OrphanInv
  BY DEF Init, OrphanInv
<1>2. SpecH4 /\ []BarsBeginEarly => [](TypeOK /\ DeskInv /\ JournalInv)
  BY JournalInvHolds
<1>3. TypeOK /\ TypeOK' /\ DeskInv /\ JournalInv /\ BarsBeginEarly /\ OrphanInv /\ [NextH4]_vars => OrphanInv'
  <2> SUFFICES ASSUME TypeOK, TypeOK', DeskInv, JournalInv, BarsBeginEarly, OrphanInv, [NextH4]_vars
               PROVE  OrphanInv'
    OBVIOUS
  <2>1. SettlesFlat /\ RowStep
    BY SettlesStepH4, OrderStep DEF JournalInv
  <2> QED
    BY <2>1, OrphanStep DEF JournalInv
<1>4. SpecH4 => []FixedIsCovered
  BY FixedIsCoveredHoldsH4
<1>5. TypeOK /\ JournalInv /\ FixedIsCovered /\ OrphanInv => OrphanIsTold
  <2> SUFFICES ASSUME TypeOK, JournalInv, FixedIsCovered, OrphanInv, NEW p \in positions, pc # "down"
               PROVE  \/ p.ticket \in told \/ Covered(p.strat)
                      \/ RowsOf(p.strat, "open", {"pending"}) # {}
    BY DEF OrphanIsTold
  <2>1. CASE Kind[p.strat] = "fixed"
    BY <2>1 DEF FixedIsCovered, Covered
  <2>2. CASE Kind[p.strat] # "fixed"
    <3>1. p.ticket \in told \/ Covered(p.strat) \/ InFlight(p)
      BY <2>2 DEF OrphanInv, Asked
    <3>2. CASE InFlight(p)
      <4>1. /\ cur \in Key /\ cur.strat = p.strat /\ cur.leg = "open" /\ journal[cur].status = "pending"
        BY <3>2 DEF InFlight, JournalInv, PlaceInv, RowsInOrder, UnsettledInv, Unsettled, Working,
                    TypeOK, TickTypeOK
      <4> QED
        BY <4>1 DEF RowsOf, Action
    <3> QED
      BY <3>1, <3>2
  <2> QED
    BY <2>1, <2>2
<1> QED
  BY <1>1, <1>2, <1>3, <1>4, <1>5, PTL DEF SpecH4

\* So it is, whatever the bars, for strategies that hold no stop at the broker.
COROLLARY OrphanIsToldDaily ==
    ASSUME Fifo, EveryStrategyIsListed, FixedSchedule, ReportsAreMade, DailyWindow,
           \A s \in Strategies : Kind[s] # "h4"
    PROVE  Spec => []OrphanIsTold
<1>1. BarsBeginEarly
  BY DEF BarsBeginEarly, Key
<1> QED
  BY <1>1, OrphanIsToldHolds, SpecIsSpecH4, PTL

=============================================================================
