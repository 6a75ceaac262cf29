------------------------ MODULE ExecutorCoverProofs ------------------------
(***************************************************************************)
(* Theorems about the executor's journal and the positions behind it, for  *)
(* the "fixed" and "daily" strategies (Spec): no order over the cap, no    *)
(* close leg that ends before its strategy is flat, and no position of a   *)
(* fixed strategy without a close leg to come.  Each names what it needs   *)
(* of the settings and of the schedule.                                    *)
(***************************************************************************)
EXTENDS ExecutorProofs

-----------------------------------------------------------------------------
\* The cap.  It is looked at before the order goes out, and the settings stand until the process ends.

CapInv ==
    /\ pc = "opening" => journal[cur].volume <= config.cap
    /\ \A r \in inbox : r.op = "order" /\ r.waiting => r.pos.volume <= config.cap

\* Nothing is sent: at most the client hangs up, and what it waited on is under the cap.
LEMMA CapKept ==
    ASSUME TypeOK, CapInv, UNCHANGED config, inbox' \subseteq inbox \/ HangUp,
           pc' = "opening" => pc = "opening" /\ UNCHANGED <<journal, cur>>
    PROVE  CapInv' /\ \A r \in inbox' \ inbox : r.op = "order" => r.pos.volume <= config.cap
<1>1. CASE inbox' \subseteq inbox
  BY <1>1 DEF CapInv
<1>2. CASE HangUp
  <2>1. ASSUME NEW r \in inbox
        PROVE  LET h == [r EXCEPT !.waiting = FALSE]
               IN  ~h.waiting /\ h.op = r.op /\ h.pos = r.pos /\ (~r.waiting => h = r)
    BY <2>1 DEF TypeOK, BridgeTypeOK, Request
  <2>2. ASSUME NEW h \in inbox' \ inbox, h.op = "order" PROVE h.pos.volume <= config.cap
    <3>1. PICK r \in inbox : h = [r EXCEPT !.waiting = FALSE]
      BY <1>2 DEF HangUp
    <3>2. r.waiting /\ r.op = "order" /\ h.pos = r.pos
      BY <2>1, <2>2, <3>1
    <3> QED
      BY <3>2 DEF CapInv
  <2>3. ASSUME NEW h \in inbox' PROVE ~h.waiting
    <3>1. PICK r \in inbox : h = [r EXCEPT !.waiting = FALSE]
      BY <1>2 DEF HangUp
    <3> QED
      BY <2>1, <3>1
  <2> QED
    BY <2>2, <2>3 DEF CapInv
<1> QED
  BY <1>1, <1>2

LEMMA CapStep ==
    ASSUME TypeOK, DeskInv, CapInv, [Next]_vars
    PROVE  CapInv' /\ \A r \in inbox' \ inbox : r.op = "order" => r.pos.volume <= config.cap
<1> USE DEF bridgeVars, dbVars, tickVars, envVars, historyVars
<1>1. CASE Tick \/ ScheduleDies \/ NextLeg \/ SkipUnlisted \/ EndTick \/ Decide
  <2>1. UNCHANGED <<config, inbox>> /\ pc' # "opening"
    BY <1>1 DEF Tick, ScheduleDies, NextLeg, SkipUnlisted, EndTick, Decide, DecideMissed, DecideWaits,
                DecideNothing, DecideLeg, Decidable, AtDaily, At, FinishRow, LeaveRow, Onward, Rest
  <2> QED
    BY <2>1, CapKept
<1>2. CASE OpenMay
  BY <1>2 DEF OpenMay, CapInv
<1>3. CASE OpenSend
  <2> DEFINE pos == [ticket |-> nextTicket, strat |-> cur.strat, session |-> cur.session,
                     volume |-> journal[cur].volume, sl |-> journal[cur].sl]
             order == [op |-> "order", pos |-> pos, waiting |-> TRUE]
  <2>1. inbox' = inbox \cup {order} /\ pc = "opening" /\ pc' = "ordering" /\ UNCHANGED config
    BY <1>3 DEF OpenSend, Send
  <2>2. order.pos.volume <= config.cap
    BY <2>1 DEF CapInv
  <2> HIDE DEF order
  <2> QED
    BY <2>1, <2>2 DEF CapInv
<1>4. CASE \/ OpenExpires \/ OpenPaused \/ OpenTooLarge \/ OpenDry \/ OpenUnreadable \/ OpenTaken \/ OpenFilled
           \/ CloseUnreadable \/ CloseNothing \/ CloseDry \/ CloseFilled \/ CheckKill
  <2>1. UNCHANGED <<config, inbox>> /\ pc' # "opening"
    BY <1>4 DEF OpenExpires, OpenPaused, OpenTooLarge, OpenDry, OpenUnreadable, OpenTaken, OpenFilled,
                CloseUnreadable, CloseNothing, CloseDry, CloseFilled, CheckKill, At, FinishRow, LeaveRow, Onward
  <2> QED
    BY <2>1, CapKept
<1>5. CASE OpenRejected \/ CloseRejected \/ Crash \/ TickRaises
  <2>1. UNCHANGED config /\ HangUp /\ pc' # "opening"
    BY <1>5 DEF OpenRejected, CloseRejected, Crash, TickRaises, LeaveRow, Onward, Rest
  <2> QED
    BY <2>1, CapKept
<1>6. CASE CloseStart \/ CloseAnother
  <2>1. PICK p : Send("close", p)
    BY <1>6 DEF CloseStart, CloseAnother
  <2>2. UNCHANGED config /\ pc' = "closing"
    BY <1>6 DEF CloseStart, CloseAnother
  <2> DEFINE close == [op |-> "close", pos |-> p, waiting |-> TRUE]
  <2>3. inbox' = inbox \cup {close} /\ close.op = "close"
    BY <2>1 DEF Send
  <2> HIDE DEF close
  <2> QED
    BY <2>2, <2>3 DEF CapInv
<1>7. CASE Boot
  <2>1. \A r \in inbox : ~r.waiting
    BY <1>7 DEF Boot, DeskInv, OnlyWaitersWait, WaitingPlaces
  <2> QED
    BY <1>7, <2>1 DEF Boot, CapInv
<1>8. CASE Serve \/ Rejects \/ Stopped
  <2>1. inbox' \subseteq inbox /\ UNCHANGED <<config, pc, cur, journal>>
    BY <1>8 DEF Serve, Rejects, Stopped, FillOrder, ClosePosition, MoveStop, KeepStop, PositionGone,
                Refuse, StopOut, Answer
  <2> QED
    BY <2>1, CapKept
<1>9. CASE BarArrives \/ Advance \/ Person \/ UNCHANGED vars
  <2>1. UNCHANGED <<inbox, config, pc, cur, journal>>
    BY <1>9 DEF BarArrives, Advance, Person, vars
  <2> QED
    BY <2>1, CapKept
<1> QED
  BY <1>1, <1>2, <1>3, <1>4, <1>5, <1>6, <1>7, <1>8, <1>9 DEF Next, Process, Open, Close, Failures

\* No order is ever sent for more than the running process's cap, whatever volume its row was written
\* with under earlier settings (_open checks the row's volume before its first await).
THEOREM OrderIsUnderCapHolds == ASSUME Fifo PROVE Spec => OrderIsUnderCap
<1> DEFINE Step == \A r \in inbox' \ inbox : r.op = "order" => r.pos.volume <= config.cap
<1>1. Init => CapInv
  BY DEF Init, BridgeInit, CapInv
<1>2. TypeOK /\ DeskInv /\ CapInv /\ [Next]_vars => CapInv' /\ [Step]_vars
  BY CapStep
<1>3. Spec => [](TypeOK /\ DeskInv)
  BY SpecIsSpecH4, DeskInvHolds, PTL
<1>4. Spec => [][Step]_vars
  BY <1>1, <1>2, <1>3, PTL DEF Spec
<1> QED
  BY <1>4 DEF OrderIsUnderCap
-----------------------------------------------------------------------------
\* A close, from the list of positions to the answers.  A strategy has one position at most, so the
\* list has one, and a ticket names one position.

TicketInv ==
    /\ \A p, q \in positions : p.ticket = q.ticket => p = q
    /\ \A p \in positions : p.ticket < nextTicket
    /\ \A r \in inbox :
          /\ r.op \in {"order", "close"} /\ r.pos.ticket < nextTicket
          /\ r.op = "order" => \A p \in positions : p.ticket # r.pos.ticket

ClosingInv ==
    pc = "closing" =>
        /\ cur.leg = "close"
        /\ \E p \in todo :
              /\ todo = {p} /\ p.strat = cur.strat
              /\ PositionsOf(cur.strat) \subseteq {p}
              /\ \A r \in inbox : r.op = "close" /\ r.pos = p
        /\ reply = "done" => PositionsOf(cur.strat) = {}

\* A step that sends nothing and leaves the list alone: fewer positions, fewer requests, or the same
\* with no one waiting.
LEMMA CloseKept ==
    ASSUME TypeOK, DeskInv, TicketInv, ClosingInv, positions' \subseteq positions,
           inbox' \subseteq inbox \/ HangUp, nextTicket <= nextTicket', nextTicket' \in Nat,
           pc' = "closing" => pc = "closing" /\ UNCHANGED <<cur, todo>> /\ inbox' \subseteq inbox,
           pc' = "closing" /\ reply' = "done" => reply = "done" \/ PositionsOf(cur.strat)' = {}
    PROVE  TicketInv' /\ ClosingInv'
<1>1. \A r \in inbox' : \E q \in inbox : r.op = q.op /\ r.pos = q.pos
  BY DEF HangUp, TypeOK, BridgeTypeOK, Request
<1>2. \A p \in positions : p.ticket \in Nat
  BY DEF TypeOK, BridgeTypeOK, Position
<1>0. nextTicket \in Nat
  BY DEF TypeOK, EnvTypeOK
<1>3. \A r \in inbox : r.pos.ticket \in Nat
  BY DEF TypeOK, BridgeTypeOK, EnvTypeOK, Request, Position
<1>4. TicketInv'
  <2>1. \A p \in positions' : p \in positions /\ p.ticket < nextTicket'
    BY <1>2, <1>0 DEF TicketInv
  <2>2. ASSUME NEW r \in inbox'
        PROVE  /\ r.op \in {"order", "close"} /\ r.pos.ticket < nextTicket'
               /\ r.op = "order" => \A p \in positions' : p.ticket # r.pos.ticket
    <3>1. PICK q \in inbox : r.op = q.op /\ r.pos = q.pos
      BY <1>1
    <3>2. q.op \in {"order", "close"} /\ q.pos.ticket < nextTicket
          /\ (q.op = "order" => \A p \in positions : p.ticket # q.pos.ticket)
      BY DEF TicketInv
    <3>3. q.pos.ticket \in Nat
      BY <1>3
    <3> QED
      BY <1>0, <3>1, <3>2, <3>3
  <2> QED
    BY <2>1, <2>2 DEF TicketInv
<1>5. ClosingInv'
  BY DEF ClosingInv, PositionsOf
<1> QED
  BY <1>4, <1>5

LEMMA CloseStep == TypeOK /\ DeskInv /\ Fifo /\ TicketInv /\ ClosingInv /\ [Next]_vars => TicketInv' /\ ClosingInv'
<1> SUFFICES ASSUME TypeOK, DeskInv, Fifo, TicketInv, ClosingInv, [Next]_vars
             PROVE  TicketInv' /\ ClosingInv'
  OBVIOUS
<1> USE DEF bridgeVars, dbVars, tickVars, envVars, historyVars
<1>0. nextTicket \in Nat
  BY DEF TypeOK, EnvTypeOK
<1>1. CASE Tick \/ ScheduleDies \/ NextLeg \/ SkipUnlisted \/ EndTick \/ Decide
  <2>1. UNCHANGED <<positions, inbox, nextTicket>> /\ pc' # "closing"
    BY <1>1 DEF Tick, ScheduleDies, NextLeg, SkipUnlisted, EndTick, Decide, DecideMissed, DecideWaits,
                DecideNothing, DecideLeg, Decidable, AtDaily, At, FinishRow, LeaveRow, Onward, Rest
  <2> QED
    BY <1>0, <2>1, CloseKept
<1>2. CASE \/ OpenExpires \/ OpenPaused \/ OpenTooLarge \/ OpenDry \/ OpenMay \/ OpenUnreadable \/ OpenTaken
           \/ OpenFilled \/ CloseUnreadable \/ CloseNothing \/ CloseDry \/ CloseFilled \/ CheckKill \/ Boot
  <2>1. UNCHANGED <<positions, inbox, nextTicket>> /\ pc' # "closing"
    BY <1>2 DEF OpenExpires, OpenPaused, OpenTooLarge, OpenDry, OpenMay, OpenUnreadable, OpenTaken, OpenFilled,
                CloseUnreadable, CloseNothing, CloseDry, CloseFilled, CheckKill, Boot, At, FinishRow, LeaveRow,
                Onward
  <2> QED
    BY <1>0, <2>1, CloseKept
<1>3. CASE OpenRejected \/ CloseRejected \/ Crash \/ TickRaises
  <2>1. UNCHANGED <<positions, nextTicket>> /\ HangUp /\ pc' # "closing"
    BY <1>3 DEF OpenRejected, CloseRejected, Crash, TickRaises, LeaveRow, Onward, Rest
  <2> QED
    BY <1>0, <2>1, CloseKept
<1>4. CASE OpenSend
  <2> DEFINE pos == [ticket |-> nextTicket, strat |-> cur.strat, session |-> cur.session,
                     volume |-> journal[cur].volume, sl |-> journal[cur].sl]
             order == [op |-> "order", pos |-> pos, waiting |-> TRUE]
  <2>1. inbox' = {order} /\ nextTicket' = nextTicket + 1 /\ pc' = "ordering" /\ UNCHANGED positions
    BY <1>4, ReadableIsIdle DEF OpenSend, Send
  <2>2. order.op = "order" /\ order.pos.ticket = nextTicket
    OBVIOUS
  <2>3. \A p \in positions : p.ticket \in Nat /\ p.ticket < nextTicket
    BY DEF TicketInv, TypeOK, BridgeTypeOK, Position
  <2> HIDE DEF order
  <2> QED
    BY <1>0, <2>1, <2>2, <2>3 DEF TicketInv, ClosingInv
<1>5. CASE CloseStart
  <2>1. inbox = {} /\ reply = "none" /\ pc' = "closing" /\ cur.leg = "close"
        /\ UNCHANGED <<positions, reply, cur, nextTicket>> /\ todo' = PositionsOf(cur.strat)
    BY <1>5, ReadableIsIdle DEF CloseStart, At, DeskInv, AnswerIsAwaited, WaitingPlaces
  <2>2. PICK p \in todo' : Send("close", p)
    BY <1>5 DEF CloseStart
  <2>3. p \in positions /\ p.strat = cur.strat /\ todo' = {p}
    BY <2>1, <2>2 DEF PositionsOf, DeskInv, OnePosition
  <2> DEFINE close == [op |-> "close", pos |-> p, waiting |-> TRUE]
  <2>4. inbox' = {close} /\ close.op = "close" /\ close.pos = p
    BY <2>1, <2>2 DEF Send
  <2> HIDE DEF close
  <2>5. TicketInv'
    <3>1. \A r \in inbox' : r.op = "close" /\ r.pos = p
      BY <2>4
    <3>2. p.ticket < nextTicket /\ nextTicket' = nextTicket /\ positions' = positions
      BY <2>1, <2>3 DEF TicketInv
    <3>3. \A r \in inbox' : r.op \in {"order", "close"} /\ r.op # "order" /\ r.pos.ticket < nextTicket'
      BY <3>1, <3>2
    <3>4. (\A x, y \in positions' : x.ticket = y.ticket => x = y) /\ \A x \in positions' : x.ticket < nextTicket'
      BY <3>2 DEF TicketInv
    <3> QED
      BY <3>3, <3>4 DEF TicketInv
  <2>6. ClosingInv'
    BY <2>1, <2>3, <2>4 DEF ClosingInv, PositionsOf
  <2> QED
    BY <2>5, <2>6
<1>6. ~CloseAnother
  <2> SUFFICES ASSUME CloseAnother PROVE FALSE
    OBVIOUS
  <2>1. PICK p \in todo : todo = {p}
    BY DEF CloseAnother, ClosingInv
  <2>2. todo' = {}
    BY <2>1 DEF CloseAnother
  <2> QED
    BY <2>2 DEF CloseAnother
<1>7. CASE Serve
  <2>1. PICK r \in inbox : FillOrder(r) \/ ClosePosition(r) \/ MoveStop(r) \/ KeepStop(r) \/ PositionGone(r)
    BY <1>7 DEF Serve
  <2>2. UNCHANGED <<pc, cur, todo, nextTicket>> /\ inbox' = {} /\ r.op \in {"order", "close"}
    BY <1>7, <2>1 DEF Serve, FillOrder, ClosePosition, MoveStop, KeepStop, PositionGone, Answer,
                      DeskInv, OneRequest, TicketInv
  <2>3. CASE FillOrder(r)
    <3>1. positions' = positions \cup {r.pos} /\ r.op = "order"
      BY <2>3 DEF FillOrder
    <3>2. pc # "closing"
      BY <3>1 DEF ClosingInv
    <3> QED
      BY <2>2, <3>1, <3>2 DEF TicketInv, ClosingInv
  <2>4. CASE ClosePosition(r)
    <3>1. PICK p \in positions : p.ticket = r.pos.ticket /\ positions' = positions \ {p}
      BY <2>4 DEF ClosePosition
    <3>2. ASSUME pc = "closing" PROVE PositionsOf(cur.strat)' = {}
      <4>1. PICK q \in todo : PositionsOf(cur.strat) \subseteq {q} /\ r.pos = q
        BY <3>2 DEF ClosingInv
      <4>2. \A x \in PositionsOf(cur.strat) : x = p
        BY <3>1, <4>1 DEF TicketInv, PositionsOf
      <4> QED
        BY <2>2, <3>1, <4>2 DEF PositionsOf
    <3> QED
      BY <1>0, <2>2, <3>1, <3>2, CloseKept
  <2>5. CASE PositionGone(r)
    <3>1. UNCHANGED positions /\ (reply' = "done" => reply = "done")
      BY <2>5 DEF PositionGone, Answer
    <3> QED
      BY <1>0, <2>2, <3>1, CloseKept
  <2> QED
    BY <2>1, <2>2, <2>3, <2>4, <2>5 DEF MoveStop, KeepStop
<1>8. CASE Rejects \/ Stopped
  <2>1. /\ positions' \subseteq positions /\ inbox' \subseteq inbox /\ UNCHANGED <<pc, cur, todo, nextTicket>>
        /\ (reply' = "done" => reply = "done")
    BY <1>8 DEF Rejects, Stopped, Refuse, StopOut, Answer
  <2> QED
    BY <1>0, <2>1, CloseKept
<1>9. CASE BarArrives \/ Advance \/ Person \/ UNCHANGED vars
  <2>1. UNCHANGED <<positions, inbox, reply, pc, cur, todo, nextTicket>>
    BY <1>9 DEF BarArrives, Advance, Person, vars
  <2> QED
    BY <1>0, <2>1, CloseKept
<1> QED
  BY <1>1, <1>2, <1>3, <1>4, <1>5, <1>6, <1>7, <1>8, <1>9 DEF Next, Process, Open, Close, Failures

\* With every strategy listed, a step settles a written close leg only when its strategy is flat and
\* nothing is on its way to the terminal.
EveryStrategyIsListed == \A c \in Configs : Strategies \subseteq c.strategies

SettlesFlat ==
    \A k \in Key :
        (k.leg = "close" /\ journal[k].status = "pending" /\ journal'[k].status # "pending")
            => PositionsOf(k.strat) = {} /\ inbox = {}

OpeningInv == pc \in {"opening", "ordering"} => cur.leg = "open"

\* A handler that writes its row settles that row and no other.
LEMMA OneRowSettles ==
    ASSUME TypeOK, NEW row, journal' = [journal EXCEPT ![cur] = row],
           cur.leg = "close" => PositionsOf(cur.strat) = {} /\ inbox = {}
    PROVE  SettlesFlat
BY DEF SettlesFlat, TypeOK, DbTypeOK

\* A leg the schedule or a decision writes is pending.
LEMMA ScheduleSettlesNone ==
    ASSUME NEW keys, journal' = Scheduled(keys)
    PROVE  \A k \in Key : journal[k].status = "pending" => journal'[k].status = "pending"
BY DEF Scheduled, PendingRow

LEMMA OpeningStep == OpeningInv /\ [Next]_vars => OpeningInv'
<1> SUFFICES ASSUME OpeningInv, [Next]_vars PROVE OpeningInv'
  OBVIOUS
<1> USE DEF bridgeVars, dbVars, tickVars, envVars, historyVars
<1>1. CASE Tick \/ ScheduleDies \/ NextLeg \/ SkipUnlisted \/ EndTick \/ Decide \/ Close \/ Boot
  <2>1. pc' \notin {"opening", "ordering"}
    BY <1>1 DEF Tick, ScheduleDies, NextLeg, SkipUnlisted, EndTick, Decide, DecideMissed, DecideWaits,
                DecideNothing, DecideLeg, Decidable, AtDaily, At, FinishRow, LeaveRow, Onward, Rest,
                Close, CloseUnreadable, CloseNothing, CloseDry, CloseStart, CloseAnother, CloseFilled,
                CloseRejected, CheckKill, Boot
  <2> QED
    BY <2>1 DEF OpeningInv
<1>2. CASE Open
  BY <1>2 DEF Open, OpenExpires, OpenPaused, OpenTooLarge, OpenDry, OpenMay, OpenUnreadable, OpenTaken,
              OpenSend, OpenFilled, OpenRejected, FinishRow, Onward, At, OpeningInv
<1>3. CASE Crash \/ TickRaises
  BY <1>3 DEF Crash, TickRaises, Rest, OpeningInv
<1>4. CASE Serve \/ Rejects \/ Stopped \/ BarArrives \/ Advance \/ Person \/ UNCHANGED vars
  <2>1. UNCHANGED <<pc, cur>>
    BY <1>4 DEF Serve, Rejects, Stopped, BarArrives, Advance, Person, vars
  <2> QED
    BY <2>1 DEF OpeningInv
<1> QED
  BY <1>1, <1>2, <1>3, <1>4 DEF Next, Process, Failures

LEMMA SettlesStep ==
    ASSUME EveryStrategyIsListed, Fifo, TypeOK, DeskInv, ClosingInv, OpeningInv, [Next]_vars
    PROVE  SettlesFlat
<1> USE DEF bridgeVars, dbVars, tickVars, envVars, historyVars
<1>1. CASE Tick \/ ScheduleDies
  <2>1. PICK keys : journal' = Scheduled(keys)
    BY <1>1 DEF Tick, ScheduleDies
  <2> QED
    BY <2>1, ScheduleSettlesNone DEF SettlesFlat
<1>2. ~SkipUnlisted
  BY DEF EveryStrategyIsListed, SkipUnlisted, TypeOK, EnvTypeOK, TickTypeOK, Key
<1>3. CASE DecideLeg
  <2> DEFINE leg == [cur EXCEPT !.leg = IF Holding(cur.strat) THEN "close" ELSE "open"]
  <2>1. cur.leg = "decide" /\ journal' = [journal EXCEPT ![leg] = PendingRow(now, config.volume),
                                                        ![cur].status = "decided"]
    BY <1>3 DEF DecideLeg, Decidable, AtDaily, At
  <2>2. ASSUME NEW k \in Key, k.leg = "close", journal[k].status = "pending"
        PROVE  journal'[k].status = "pending"
    BY <2>1, <2>2 DEF PendingRow, TypeOK, DbTypeOK
  <2> QED
    BY <2>2 DEF SettlesFlat
<1>4. CASE DecideMissed \/ DecideNothing
  <2>1. cur.leg = "decide" /\ \E st : Finish(st)
    BY <1>4 DEF DecideMissed, DecideNothing, Decidable, AtDaily, At, FinishRow
  <2> QED
    BY <2>1, OneRowSettles DEF Finish
<1>5. CASE \/ OpenExpires \/ OpenPaused \/ OpenTooLarge \/ OpenDry \/ OpenUnreadable \/ OpenTaken
           \/ OpenFilled \/ OpenRejected
  <2>1. cur.leg = "open"
    BY <1>5 DEF OpenExpires, OpenPaused, OpenTooLarge, OpenDry, OpenUnreadable, OpenTaken,
                OpenFilled, OpenRejected, At, OpeningInv
  <2>2. \E row : journal' = [journal EXCEPT ![cur] = row]
    BY <1>5 DEF OpenExpires, OpenPaused, OpenTooLarge, OpenDry, OpenUnreadable, OpenTaken,
                OpenFilled, OpenRejected, FinishRow, Finish
  <2> QED
    BY <2>1, <2>2, OneRowSettles
<1>6. CASE CloseNothing
  <2>1. PositionsOf(cur.strat) = {} /\ inbox = {} /\ Finish("skipped")
    BY <1>6, ReadableIsIdle DEF CloseNothing, FinishRow
  <2> QED
    BY <2>1, OneRowSettles DEF Finish
<1>7. CASE CloseFilled
  <2>1. PositionsOf(cur.strat) = {} /\ inbox = {}
    BY <1>7 DEF CloseFilled, ClosingInv, DeskInv, AnswerIsAwaited
  <2>2. \E row : journal' = [journal EXCEPT ![cur] = row]
    BY <1>7 DEF CloseFilled
  <2> QED
    BY <2>1, <2>2, OneRowSettles
<1>8. CASE \/ NextLeg \/ EndTick \/ DecideWaits \/ OpenMay \/ OpenSend \/ CloseUnreadable \/ CloseDry
           \/ CloseStart \/ CloseAnother \/ CloseRejected \/ CheckKill \/ Boot \/ Crash \/ TickRaises
  <2>1. UNCHANGED journal
    BY <1>8 DEF NextLeg, EndTick, DecideWaits, OpenMay, OpenSend, CloseUnreadable, CloseDry,
                CloseStart, CloseAnother, CloseRejected, CheckKill, Boot, Crash, TickRaises, LeaveRow
  <2> QED
    BY <2>1 DEF SettlesFlat
<1>9. CASE Serve \/ Rejects \/ Stopped \/ BarArrives \/ Advance \/ Person \/ UNCHANGED vars
  <2>1. UNCHANGED journal
    BY <1>9 DEF Serve, Rejects, Stopped, BarArrives, Advance, Person, vars
  <2> QED
    BY <2>1 DEF SettlesFlat
<1> QED
  BY <1>1, <1>2, <1>3, <1>4, <1>5, <1>6, <1>7, <1>8, <1>9 DEF Next, Process, Decide, Open, Close, Failures

LEMMA CloseInvHolds ==
    ASSUME Fifo PROVE Spec => [](TypeOK /\ DeskInv /\ TicketInv /\ ClosingInv /\ OpeningInv)
<1>1. Init => TicketInv /\ ClosingInv /\ OpeningInv
  BY DEF Init, BridgeInit, TicketInv, ClosingInv, OpeningInv
<1>2. Spec => [](TypeOK /\ DeskInv)
  BY SpecIsSpecH4, DeskInvHolds, PTL
<1> QED
  BY <1>1, <1>2, CloseStep, OpeningStep, PTL DEF Spec

\* As long as every strategy stays in the settings, a close leg that has been written ends only when the
\* strategy has no position: a close that the bridge did not confirm is tried again (_close, _retry).
THEOREM CloseEndsFlatHolds == ASSUME Fifo, EveryStrategyIsListed PROVE Spec => CloseEndsFlat
<1>1. Spec => [][SettlesFlat]_vars
  BY CloseInvHolds, SettlesStep, PTL DEF Spec
<1>2. SettlesFlat => \A k \in Key :
          (k.leg = "close" /\ journal[k].status = "pending" /\ journal'[k].status # "pending")
              => PositionsOf(k.strat) = {}
  BY DEF SettlesFlat
<1> QED
  BY <1>1, <1>2, PTL DEF CloseEndsFlat
-----------------------------------------------------------------------------
\* The cover of a fixed strategy's position.  Its close leg is written with its open, or at the latest by
\* the tick that reads the open; by the time the close may end, the open can no longer be sent.
FixedSchedule ==
    /\ OpenPhase + EntryWindow < PhasesPerDay + ClosePhase
    /\ OpenPhase + EntryWindow < 2 * PhasesPerDay

Fixed(k) == Kind[k.strat] = "fixed" /\ k.leg \in {"open", "close"}

CloseOf(k) == [k EXCEPT !.leg = "close"]

\* The rows the tick has read and not yet settled.
Reached == due \cup (IF pc \in {"leg", "opening", "ordering", "closing"} THEN {cur} ELSE {})

Fresh(k) == now <= DueAt(k) + EntryWindow

Awaited(s) == PositionsOf(s) # {} \/ \E r \in inbox : r.op = "order" /\ r.pos.strat = s

ClosePending(s) == \E k \in Key : k.strat = s /\ k.leg = "close" /\ journal[k].status = "pending"

RowsInv ==
    /\ \A k \in Key : Fixed(k) /\ journal[k].status # "absent" => journal[k].due = DueAt(k)
    /\ \A k \in Key : Fixed(k) /\ k.leg = "close" /\ journal[k].status \in Final => DueAt(k) <= clock

ReachedInv ==
    /\ now <= clock
    /\ \A k \in Reached : journal[k].status # "absent" /\ journal[k].due <= now
    /\ \A k \in Reached : Fixed(k) /\ k.leg = "open" /\ Fresh(k) => journal[CloseOf(k)].status = "pending"
    /\ pc \in {"opening", "ordering"} => ~Expired(cur)

HeldInv == \A s \in Strategies : Kind[s] = "fixed" /\ Awaited(s) => ClosePending(s)

\* While an open is fresh the schedule writes its session, and its close is not due.
LEMMA FreshOpen ==
    ASSUME FixedSchedule, NEW k \in Key, k.leg = "open", NEW t \in Nat,
           DueAt(k) <= t, t <= DueAt(k) + EntryWindow
    PROVE  /\ Day(t) \in {k.session, k.session + 1}
           /\ CloseOf(k) \in Key /\ DueAt(CloseOf(k)) \in Nat
           /\ t < DueAt(CloseOf(k))
<1> DEFINE n == k.session
           P == PhasesPerDay
           d == Day(t)
<1>1. n \in Nat /\ P \in Nat \ {0} /\ OpenPhase \in Nat /\ ClosePhase \in Nat /\ EntryWindow \in Nat
  BY ExecutorAssumption, BridgeAssumption DEF Key, ExecutorAssumption, BridgeAssumption
<1>2. n * P + OpenPhase <= t /\ t <= n * P + OpenPhase + EntryWindow
  BY DEF DueAt
<1>3. CloseOf(k) \in Key /\ DueAt(CloseOf(k)) = (n + 1) * P + ClosePhase
  BY DEF CloseOf, Key, DueAt
<1>4. n * P \in Nat /\ (n + 1) * P = n * P + P /\ (n + 2) * P = n * P + 2 * P
  BY <1>1
<1>5. d \in Nat /\ d * P <= t /\ t < (d + 1) * P /\ (d + 1) * P = d * P + P
  BY <1>1 DEF Day
<1>6. ~(d < n)
  <2> SUFFICES ASSUME d < n PROVE FALSE
    OBVIOUS
  <2>1. PICK x \in Nat : n = d + 1 + x
    <3>1. n - (d + 1) \in Nat /\ n = d + 1 + (n - (d + 1))
      BY <1>1, <1>5
    <3> QED
      BY <3>1
  <2>2. n * P = (d + 1) * P + x * P /\ x * P \in Nat /\ (d + 1) * P \in Nat
    BY <1>1, <1>5, <2>1
  <2> QED
    BY <1>1, <1>2, <1>4, <1>5, <2>2
<1>7. ~(d > n + 1)
  <2> SUFFICES ASSUME d > n + 1 PROVE FALSE
    OBVIOUS
  <2>1. PICK x \in Nat : d = n + 2 + x
    <3>1. d - (n + 2) \in Nat /\ d = n + 2 + (d - (n + 2))
      BY <1>1, <1>5
    <3> QED
      BY <3>1
  <2>2. d * P = (n + 2) * P + x * P /\ x * P \in Nat
    BY <1>1, <1>5, <2>1
  <2> QED
    BY <1>1, <1>2, <1>4, <1>5, <2>2 DEF FixedSchedule
<1>8. d \in {n, n + 1}
  BY <1>1, <1>5, <1>6, <1>7
<1>9. t < (n + 1) * P + ClosePhase
  BY <1>1, <1>2, <1>4 DEF FixedSchedule
<1> QED
  BY <1>1, <1>3, <1>4, <1>8, <1>9

\* A step that writes no row but the one it works on, and settles that one at most.
LEMMA RowsKept ==
    ASSUME FixedSchedule, TypeOK, RowsInv, ReachedInv, clock' \in Nat, clock <= clock', now' = now,
           Reached' \subseteq Reached,
           \A k \in Key : /\ journal'[k].due = journal[k].due
                          /\ \/ journal'[k].status = journal[k].status
                             \/ k = cur /\ cur \in Reached /\ journal'[k].status \in Final,
           pc' \in {"opening", "ordering"} => cur' = cur /\ ~Expired(cur)
    PROVE  RowsInv' /\ ReachedInv'
<1>0. now \in Nat /\ clock \in Nat /\ cur \in Key /\ Reached \subseteq Key
  BY DEF TypeOK, EnvTypeOK, TickTypeOK, Reached
<1>1. \A k \in Key : journal[k].status \in {"absent", "pending"} \cup Final /\ journal[k].due \in Nat
                     /\ DueAt(k) \in Nat
  BY DueTypes DEF TypeOK, DbTypeOK, Row
<1>2. \A k \in Key : journal'[k].status # "absent" => journal[k].status # "absent"
  BY DEF ReachedInv
<1>3. RowsInv'
  <2>1. \A k \in Key : Fixed(k) /\ journal'[k].status # "absent" => journal'[k].due = DueAt(k)
    BY <1>2 DEF RowsInv
  <2>2. ASSUME NEW k \in Key, Fixed(k), k.leg = "close", journal'[k].status \in Final
        PROVE  DueAt(k) <= clock'
    <3>1. CASE journal'[k].status = journal[k].status
      BY <1>0, <1>1, <2>2, <3>1 DEF RowsInv
    <3>2. CASE k = cur /\ cur \in Reached
      <4>1. journal[k].status # "absent" /\ journal[k].due <= now /\ now <= clock
        BY <3>2 DEF ReachedInv
      <4>2. journal[k].due = DueAt(k)
        BY <2>2, <4>1 DEF RowsInv
      <4> QED
        BY <1>0, <1>1, <4>1, <4>2
    <3> QED
      BY <3>1, <3>2
  <2> QED
    BY <2>1, <2>2 DEF RowsInv, Fixed, DueAt, Final
<1>4. ReachedInv'
  <2>1. now' <= clock'
    BY <1>0 DEF ReachedInv
  <2>2. \A k \in Reached' : journal'[k].status # "absent" /\ journal'[k].due <= now'
    BY <1>0 DEF ReachedInv, Final
  <2>3. ASSUME NEW k \in Reached', Fixed(k), k.leg = "open", now' <= DueAt(k) + EntryWindow
        PROVE  journal'[CloseOf(k)].status = "pending"
    <3>1. k \in Reached /\ k \in Key /\ journal[CloseOf(k)].status = "pending"
      BY <1>0, <2>3 DEF ReachedInv, Fresh
    <3>2. journal[k].due = DueAt(k) /\ DueAt(k) <= now
      BY <2>3, <3>1 DEF ReachedInv, RowsInv
    <3>3. CloseOf(k) \in Key /\ now < DueAt(CloseOf(k)) /\ DueAt(CloseOf(k)) \in Nat
      BY <1>0, <2>3, <3>1, <3>2, FreshOpen
    <3>4. Fixed(CloseOf(k)) /\ journal[CloseOf(k)].due = DueAt(CloseOf(k))
      BY <2>3, <3>1, <3>3 DEF Fixed, CloseOf, Key, RowsInv
    <3>5. ~(CloseOf(k) = cur /\ cur \in Reached)
      BY <1>0, <3>3, <3>4 DEF ReachedInv
    <3> QED
      BY <3>1, <3>3, <3>5
  <2>4. pc' \in {"opening", "ordering"} => ~Expired(cur)'
    BY <1>0 DEF Expired
  <2> QED
    BY <2>1, <2>2, <2>3, <2>4 DEF ReachedInv, Fixed, Fresh, DueAt, CloseOf
<1> QED
  BY <1>3, <1>4

\* The schedule writes each leg for the instant it is due.
LEMMA ScheduleRows ==
    ASSUME TypeOK, RowsInv, NEW keys \in SUBSET Unwritten(clock), journal' = Scheduled(keys), UNCHANGED clock
    PROVE  /\ RowsInv'
           /\ \A k \in Key : journal[k].status # "absent" => journal'[k] = journal[k]
<1>1. \A k \in keys : k \in Key /\ journal[k].status = "absent" /\ k.leg \in Leg(k.strat)
  BY DEF Unwritten
<1>2. \A k \in Key : journal'[k] = IF k \in keys THEN PendingRow(DueAt(k), config.volume) ELSE journal[k]
  BY DEF Scheduled
<1>3. ASSUME NEW k \in keys PROVE journal'[k].due = DueAt(k) /\ journal'[k].status = "pending"
  <2>1. journal'[k] = PendingRow(DueAt(k), config.volume)
    BY <1>1, <1>2
  <2> QED
    BY <2>1 DEF PendingRow
<1> QED
  BY <1>1, <1>2, <1>3 DEF RowsInv, Fixed, DueAt, Final

LEMMA TickRows ==
    ASSUME FixedSchedule, EveryStrategyIsListed, TypeOK, RowsInv, Tick
    PROVE  RowsInv' /\ ReachedInv'
<1>0. clock \in Nat /\ clock' = clock /\ now' = clock /\ pc' = "next" /\ cur \in Key
  BY DEF Tick, TypeOK, EnvTypeOK, TickTypeOK, envVars
<1>1. RowsInv' /\ journal' = Scheduled(Unwritten(clock))
  BY <1>0, ScheduleRows DEF Tick
<1>2. Reached' = {k \in Key : journal'[k].status = "pending" /\ journal'[k].due <= clock}
  BY <1>0 DEF Reached, Tick
<1>3. \A k \in Key : journal'[k].status \in {"absent", "pending"} \cup Final
  BY <1>1, RowTypes, DueTypes, ConfigTypes
     DEF Scheduled, Unwritten, PendingRow, Row, TypeOK, DbTypeOK, EnvTypeOK
<1>4. ASSUME NEW k \in Reached', Fixed(k), k.leg = "open", clock <= DueAt(k) + EntryWindow
      PROVE  journal'[CloseOf(k)].status = "pending"
  <2>1. k \in Key /\ journal'[k].due = DueAt(k) /\ DueAt(k) <= clock
    BY <1>1, <1>2, <1>4 DEF RowsInv, Fixed, DueAt
  <2>2. /\ Day(clock) \in {k.session, k.session + 1}
        /\ CloseOf(k) \in Key /\ DueAt(CloseOf(k)) \in Nat /\ clock < DueAt(CloseOf(k))
    BY <1>0, <1>4, <2>1, FreshOpen
  <2>3. CloseOf(k).session = k.session /\ CloseOf(k).strat = k.strat /\ CloseOf(k).leg = "close"
    BY <2>1 DEF CloseOf, Key
  <2>4. journal'[CloseOf(k)].status # "absent"
    <3>1. CloseOf(k).strat \in config.strategies
      BY <2>1, <2>3 DEF EveryStrategyIsListed, TypeOK, EnvTypeOK, Key
    <3>2. CloseOf(k).leg \in Leg(CloseOf(k).strat)
      BY <1>4, <2>3 DEF Leg, Fixed
    <3> QED
      BY <1>1, <2>2, <2>3, <3>1, <3>2 DEF Unwritten, Scheduled, PendingRow
  <2>5. journal'[CloseOf(k)].status \notin Final
    BY <1>0, <1>1, <1>4, <2>2, <2>3 DEF RowsInv, Fixed, DueAt
  <2> QED
    BY <1>3, <2>2, <2>4, <2>5
<1> QED
  BY <1>0, <1>1, <1>2, <1>4 DEF ReachedInv, Fixed, Fresh, DueAt, CloseOf

LEMMA CoverStep ==
    ASSUME FixedSchedule, EveryStrategyIsListed, TypeOK, RowsInv, ReachedInv, [Next]_vars
    PROVE  RowsInv' /\ ReachedInv'
<1> USE DEF bridgeVars, dbVars, tickVars, envVars, historyVars
<1>0. clock \in Nat /\ now \in Nat /\ cur \in Key /\ due \subseteq Key /\ journal \in [Key -> Row]
  BY DEF TypeOK, EnvTypeOK, TickTypeOK, DbTypeOK
<1>1. CASE Tick
  BY <1>1, TickRows
<1>2. CASE ScheduleDies
  <2>1. PICK keys \in SUBSET Unwritten(clock) : journal' = Scheduled(keys)
    BY <1>2 DEF ScheduleDies
  <2>2. UNCHANGED <<clock, now, due, cur>> /\ pc' \in {"down", "idle"} /\ pc = "idle"
    BY <1>2 DEF ScheduleDies
  <2>3. RowsInv' /\ \A k \in Key : journal[k].status # "absent" => journal'[k] = journal[k]
    BY <2>1, <2>2, ScheduleRows
  <2>4. Reached' = due /\ Reached = due
    BY <2>2 DEF Reached
  <2>5. \A k \in due : k \in Key /\ journal[k].status # "absent" /\ journal'[k] = journal[k]
    BY <1>0, <2>3, <2>4 DEF ReachedInv
  <2>6. \A k \in due : Fixed(k) /\ k.leg = "open" /\ Fresh(k) => journal'[CloseOf(k)].status = "pending"
    <3>1. \A k \in Key : CloseOf(k) \in Key
      BY DEF CloseOf, Key
    <3> QED
      BY <2>3, <2>4, <2>5, <3>1 DEF ReachedInv
  <2> QED
    BY <2>2, <2>3, <2>4, <2>5, <2>6 DEF ReachedInv, Fixed, Fresh, DueAt, CloseOf
<1>3. CASE EndTick \/ Crash \/ TickRaises
  <2>1. UNCHANGED <<clock, journal>> /\ now' = 0 /\ Reached' = {} /\ pc' \in {"idle", "down"}
    BY <1>3 DEF EndTick, Crash, TickRaises, Rest, Reached
  <2> QED
    BY <1>0, <2>1 DEF RowsInv, ReachedInv, Fixed, DueAt
<1>4. CASE DecideLeg
  <2> DEFINE leg == [cur EXCEPT !.leg = IF Holding(cur.strat) THEN "close" ELSE "open"]
  <2>1. /\ journal' = [journal EXCEPT ![leg] = PendingRow(now, config.volume), ![cur].status = "decided"]
        /\ cur' = leg /\ UNCHANGED <<clock, now, due, pc>> /\ pc = "leg"
        /\ cur.leg = "decide" /\ Kind[cur.strat] = "daily"
    BY <1>4 DEF DecideLeg, Decidable, AtDaily, At
  <2>2. leg \in Key /\ leg.strat = cur.strat /\ leg # cur /\ ~Fixed(leg) /\ ~Fixed(cur)
    BY <1>0, <2>1 DEF Key, Fixed
  <2> HIDE DEF leg
  <2>3. \A k \in Key : k # leg /\ k # cur => journal'[k] = journal[k]
    BY <1>0, <2>1
  <2>4. journal'[leg] = PendingRow(now, config.volume)
    BY <1>0, <2>1, <2>2
  <2>5. journal'[cur].due = journal[cur].due /\ journal'[cur].status = "decided"
    BY <1>0, <2>1, <2>2 DEF Row
  <2>6. RowsInv'
    BY <2>1, <2>2, <2>3 DEF RowsInv, Fixed, DueAt
  <2>7. ReachedInv'
    <3>1. Reached' \subseteq Reached \cup {leg} /\ now <= clock /\ Reached \subseteq Key
      BY <1>0, <2>1 DEF Reached, ReachedInv
    <3>2. \A k \in Reached' : journal'[k].status # "absent" /\ journal'[k].due <= now
      BY <1>0, <2>2, <2>3, <2>4, <2>5, <3>1 DEF ReachedInv, PendingRow
    <3>3. ASSUME NEW k \in Reached', Fixed(k), k.leg = "open", Fresh(k)
          PROVE  journal'[CloseOf(k)].status = "pending"
      <4>1. k \in Reached /\ k \in Key
        BY <2>2, <3>1, <3>3
      <4>2. CloseOf(k) \in Key /\ Fixed(CloseOf(k))
        BY <3>3, <4>1 DEF CloseOf, Key, Fixed
      <4> QED
        BY <2>2, <2>3, <3>3, <4>1, <4>2 DEF ReachedInv
    <3> QED
      BY <2>1, <3>1, <3>2, <3>3 DEF ReachedInv, Fixed, Fresh, DueAt, CloseOf
  <2> QED
    BY <2>6, <2>7
<1>5. CASE \/ SkipUnlisted \/ DecideMissed \/ DecideNothing \/ OpenExpires \/ OpenPaused \/ OpenTooLarge
           \/ OpenDry \/ OpenUnreadable \/ OpenTaken \/ OpenFilled \/ OpenRejected \/ CloseNothing \/ CloseFilled
  <2>1. /\ pc \in {"leg", "opening", "ordering", "closing"} /\ pc' \in {"next", "kill"}
        /\ UNCHANGED <<clock, now, due>>
    BY <1>5 DEF SkipUnlisted, DecideMissed, DecideNothing, Decidable, AtDaily, OpenExpires, OpenPaused,
                OpenTooLarge, OpenDry, OpenUnreadable, OpenTaken, OpenFilled, OpenRejected, CloseNothing,
                CloseFilled, At, FinishRow, Onward
  <2>2. PICK row : journal' = [journal EXCEPT ![cur] = row] /\ row.due = journal[cur].due /\ row.status \in Final
    <3>0. journal[cur] \in Row
      BY <1>0
    <3>1. CASE OpenFilled
      <4> DEFINE row == [journal[cur] EXCEPT !.status = "filled", !.ticket = nextTicket - 1]
      <4>1. journal' = [journal EXCEPT ![cur] = row]
        BY <3>1 DEF OpenFilled
      <4>2. row.due = journal[cur].due /\ row.status \in Final
        BY <3>0 DEF Row, Final
      <4> QED
        BY <4>1, <4>2
    <3>2. CASE CloseFilled
      <4>1. PICK last \in todo, pnl \in {"none", "win", "loss"} :
              journal' = [journal EXCEPT
                ![cur] = [@ EXCEPT !.status = "filled", !.pnl = pnl, !.ticket = last.ticket]]
        BY <3>2 DEF CloseFilled
      <4> DEFINE row == [journal[cur] EXCEPT !.status = "filled", !.pnl = pnl, !.ticket = last.ticket]
      <4>2. journal' = [journal EXCEPT ![cur] = row]
        BY <4>1
      <4>3. row.due = journal[cur].due /\ row.status \in Final
        BY <3>0 DEF Row, Final
      <4> QED
        BY <4>2, <4>3
    <3>3. CASE ~OpenFilled /\ ~CloseFilled
      <4>1. PICK st \in Final : Finish(st)
        BY <1>5, <3>3 DEF SkipUnlisted, DecideMissed, DecideNothing, OpenExpires, OpenPaused,
                OpenTooLarge, OpenDry, OpenUnreadable, OpenTaken, OpenRejected, CloseNothing,
                FinishRow, Final
      <4> DEFINE row == [journal[cur] EXCEPT !.status = st]
      <4>2. journal' = [journal EXCEPT ![cur] = row]
        BY <4>1 DEF Finish
      <4>3. row.due = journal[cur].due /\ row.status \in Final
        BY <3>0 DEF Row, Final
      <4> QED
        BY <4>2, <4>3
    <3> QED
      BY <3>1, <3>2, <3>3
  <2>3. Reached = due \cup {cur} /\ Reached' = due
    BY <2>1 DEF Reached
  <2> QED
    BY <1>0, <2>1, <2>2, <2>3, RowsKept
<1>6. CASE \/ NextLeg \/ DecideWaits \/ OpenMay \/ OpenSend \/ CloseUnreadable \/ CloseDry \/ CloseStart
           \/ CloseAnother \/ CloseRejected \/ CheckKill \/ Boot
  <2>1. UNCHANGED <<clock, now, journal>> /\ Reached' \subseteq Reached
    BY <1>6 DEF NextLeg, DecideWaits, OpenMay, OpenSend, CloseUnreadable, CloseDry, CloseStart,
                CloseAnother, CloseRejected, CheckKill, Boot, LeaveRow, Onward, At, Decidable, AtDaily, Reached
  <2>2. pc' \in {"opening", "ordering"} => cur' = cur /\ ~Expired(cur)
    BY <1>6 DEF NextLeg, DecideWaits, OpenMay, OpenSend, CloseUnreadable, CloseDry, CloseStart,
                CloseAnother, CloseRejected, CheckKill, Boot, LeaveRow, Onward, ReachedInv
  <2> QED
    BY <1>0, <2>1, <2>2, RowsKept
<1>7. CASE Serve \/ Rejects \/ Stopped \/ BarArrives \/ Advance \/ Person \/ UNCHANGED vars
  <2>1. UNCHANGED <<now, journal, pc, cur, due>> /\ clock' \in Nat /\ clock <= clock'
    BY <1>0, <1>7 DEF Serve, Rejects, Stopped, BarArrives, Advance, Person, vars
  <2>2. Reached' = Reached
    BY <2>1 DEF Reached
  <2> QED
    BY <1>0, <2>1, <2>2, RowsKept DEF ReachedInv
<1> QED
  BY <1>1, <1>2, <1>3, <1>4, <1>5, <1>6, <1>7 DEF Next, Process, Decide, Open, Close, Failures

\* A pending close ends only when nothing is awaited, so it stays as long as something is.
LEMMA HeldKept ==
    ASSUME HeldInv, SettlesFlat, \A s \in Strategies : Awaited(s)' => Awaited(s)
    PROVE  HeldInv'
<1> SUFFICES ASSUME NEW s \in Strategies, Kind[s] = "fixed", Awaited(s)'
             PROVE  ClosePending(s)'
  BY DEF HeldInv
<1>1. Awaited(s)
  OBVIOUS
<1>2. PICK k \in Key : k.strat = s /\ k.leg = "close" /\ journal[k].status = "pending"
  BY <1>1 DEF HeldInv, ClosePending
<1>3. journal'[k].status = "pending"
  BY <1>1, <1>2 DEF SettlesFlat, Awaited
<1> QED
  BY <1>2, <1>3 DEF ClosePending

LEMMA HeldStep ==
    ASSUME FixedSchedule, Fifo, TypeOK, RowsInv, ReachedInv, OpeningInv, HeldInv, SettlesFlat, [Next]_vars
    PROVE  HeldInv'
<1> USE DEF bridgeVars, dbVars, tickVars, envVars, historyVars
<1>1. CASE OpenSend
  <2> DEFINE pos == [ticket |-> nextTicket, strat |-> cur.strat, session |-> cur.session,
                     volume |-> journal[cur].volume, sl |-> journal[cur].sl]
             order == [op |-> "order", pos |-> pos, waiting |-> TRUE]
  <2>1. /\ inbox' = inbox \cup {order} /\ UNCHANGED <<positions, journal>>
        /\ pc = "opening" /\ cur \in Reached
    BY <1>1 DEF OpenSend, Send, Reached
  <2>2. order.pos.strat = cur.strat
    OBVIOUS
  <2> HIDE DEF order
  <2>3. ASSUME NEW s \in Strategies, Kind[s] = "fixed", Awaited(s)'
        PROVE  ClosePending(s)'
    <3>1. CASE s # cur.strat
      <4>1. Awaited(s)
        BY <2>1, <2>2, <2>3, <3>1 DEF Awaited, PositionsOf
      <4> QED
        BY <2>1, <2>3, <4>1 DEF HeldInv, ClosePending
    <3>2. CASE s = cur.strat
      <4>1. /\ Fixed(cur) /\ cur.leg = "open" /\ cur \in Key /\ ~Expired(cur)
            /\ now \in Nat /\ journal[cur].due \in Nat /\ EntryWindow \in Nat
        BY <2>1, <2>3, <3>2, ExecutorAssumption
           DEF OpeningInv, Fixed, ReachedInv, TypeOK, TickTypeOK, DbTypeOK, Row, ExecutorAssumption
      <4>2. journal[cur].due = DueAt(cur)
        BY <2>1, <4>1 DEF ReachedInv, RowsInv
      <4>3. Fresh(cur)
        BY <4>1, <4>2 DEF Fresh, Expired
      <4>4. journal[CloseOf(cur)].status = "pending"
        BY <2>1, <4>1, <4>3 DEF ReachedInv
      <4>5. CloseOf(cur) \in Key /\ CloseOf(cur).strat = s /\ CloseOf(cur).leg = "close"
        BY <3>2, <4>1 DEF CloseOf, Key
      <4> QED
        BY <2>1, <4>4, <4>5 DEF ClosePending
    <3> QED
      BY <3>1, <3>2
  <2> QED
    BY <2>3 DEF HeldInv
<1>2. CASE CloseStart \/ CloseAnother
  <2>1. PICK p : Send("close", p)
    BY <1>2 DEF CloseStart, CloseAnother
  <2> DEFINE close == [op |-> "close", pos |-> p, waiting |-> TRUE]
  <2>2. inbox' = inbox \cup {close} /\ close.op = "close" /\ UNCHANGED positions
    BY <1>2, <2>1 DEF Send, CloseStart, CloseAnother
  <2> HIDE DEF close
  <2>3. \A s \in Strategies : Awaited(s)' => Awaited(s)
    BY <2>2 DEF Awaited, PositionsOf
  <2> QED
    BY <2>3, HeldKept
<1>3. CASE OpenRejected \/ CloseRejected \/ Crash \/ TickRaises
  <2>1. HangUp /\ UNCHANGED positions
    BY <1>3 DEF OpenRejected, CloseRejected, Crash, TickRaises
  <2>2. \A r \in inbox' : \E q \in inbox : r.op = q.op /\ r.pos = q.pos
    BY <2>1 DEF HangUp, TypeOK, BridgeTypeOK, Request
  <2>3. \A s \in Strategies : Awaited(s)' => Awaited(s)
    BY <2>1, <2>2 DEF Awaited, PositionsOf
  <2> QED
    BY <2>3, HeldKept
<1>4. CASE Serve
  <2>1. PICK r \in inbox : FillOrder(r) \/ ClosePosition(r) \/ MoveStop(r) \/ KeepStop(r) \/ PositionGone(r)
    BY <1>4 DEF Serve
  <2>2. inbox' = inbox \ {r}
    BY <2>1 DEF FillOrder, ClosePosition, MoveStop, KeepStop, PositionGone, Answer
  <2>3. CASE FillOrder(r)
    <3>1. positions' = positions \cup {r.pos} /\ r.op = "order"
      BY <2>3 DEF FillOrder
    <3>2. \A s \in Strategies : Awaited(s)' => Awaited(s)
      BY <2>1, <2>2, <3>1 DEF Awaited, PositionsOf
    <3> QED
      BY <3>2, HeldKept
  <2>4. CASE MoveStop(r)
    <3>1. PICK p \in positions : positions' = (positions \ {p}) \cup {[p EXCEPT !.sl = r.pos.sl]}
      BY <2>4 DEF MoveStop
    <3>2. [p EXCEPT !.sl = r.pos.sl].strat = p.strat
      BY DEF TypeOK, BridgeTypeOK, Position
    <3>3. \A s \in Strategies : Awaited(s)' => Awaited(s)
      BY <2>2, <3>1, <3>2 DEF Awaited, PositionsOf
    <3> QED
      BY <3>3, HeldKept
  <2>5. CASE ClosePosition(r) \/ KeepStop(r) \/ PositionGone(r)
    <3>1. positions' \subseteq positions
      BY <2>5 DEF ClosePosition, KeepStop, PositionGone
    <3>2. \A s \in Strategies : Awaited(s)' => Awaited(s)
      BY <2>2, <3>1 DEF Awaited, PositionsOf
    <3> QED
      BY <3>2, HeldKept
  <2> QED
    BY <2>1, <2>3, <2>4, <2>5
<1>5. CASE Rejects \/ Stopped
  <2>1. positions' \subseteq positions /\ inbox' \subseteq inbox
    BY <1>5 DEF Rejects, Stopped, Refuse, StopOut, Answer
  <2>2. \A s \in Strategies : Awaited(s)' => Awaited(s)
    BY <2>1 DEF Awaited, PositionsOf
  <2> QED
    BY <2>2, HeldKept
<1>6. CASE \/ Tick \/ ScheduleDies \/ NextLeg \/ SkipUnlisted \/ EndTick \/ Decide \/ Boot
           \/ OpenExpires \/ OpenPaused \/ OpenTooLarge \/ OpenDry \/ OpenMay \/ OpenUnreadable \/ OpenTaken
           \/ OpenFilled \/ CloseUnreadable \/ CloseNothing \/ CloseDry \/ CloseFilled \/ CheckKill
  <2>1. UNCHANGED <<positions, inbox>>
    BY <1>6 DEF Tick, ScheduleDies, NextLeg, SkipUnlisted, EndTick, Decide, DecideMissed, DecideWaits,
                DecideNothing, DecideLeg, Decidable, AtDaily, Boot, OpenExpires, OpenPaused, OpenTooLarge,
                OpenDry, OpenMay, OpenUnreadable, OpenTaken, OpenFilled, CloseUnreadable, CloseNothing,
                CloseDry, CloseFilled, CheckKill, FinishRow, LeaveRow
  <2>2. \A s \in Strategies : Awaited(s)' => Awaited(s)
    BY <2>1 DEF Awaited, PositionsOf
  <2> QED
    BY <2>2, HeldKept
<1>7. CASE BarArrives \/ Advance \/ Person \/ UNCHANGED vars
  <2>1. UNCHANGED <<positions, inbox>>
    BY <1>7 DEF BarArrives, Advance, Person, vars
  <2>2. \A s \in Strategies : Awaited(s)' => Awaited(s)
    BY <2>1 DEF Awaited, PositionsOf
  <2> QED
    BY <2>2, HeldKept
<1> QED
  BY <1>1, <1>2, <1>3, <1>4, <1>5, <1>6, <1>7 DEF Next, Process, Open, Close, Failures

\* Whatever fails and wherever a restart falls, a fixed strategy's position has a pending close row, as
\* long as the strategy stays in the settings and an open's window ends before its close is due.
THEOREM FixedIsCoveredHolds ==
    ASSUME Fifo, EveryStrategyIsListed, FixedSchedule
    PROVE  Spec => []FixedIsCovered
<1>1. Init => RowsInv /\ ReachedInv /\ HeldInv
  BY ExecutorAssumption DEF Init, BridgeInit, RowsInv, ReachedInv, HeldInv, Reached, Absent, PendingRow,
                            Awaited, PositionsOf, Final
<1>2. Spec => [](TypeOK /\ DeskInv /\ TicketInv /\ ClosingInv /\ OpeningInv)
  BY CloseInvHolds
<1>3. TypeOK /\ RowsInv /\ ReachedInv /\ [Next]_vars => RowsInv' /\ ReachedInv'
  BY CoverStep
<1>4. TypeOK /\ DeskInv /\ ClosingInv /\ OpeningInv /\ RowsInv /\ ReachedInv /\ HeldInv /\ [Next]_vars => HeldInv'
  BY SettlesStep, HeldStep
<1>5. TypeOK /\ HeldInv => FixedIsCovered
  <2> SUFFICES ASSUME TypeOK, HeldInv, NEW p \in positions, Kind[p.strat] = "fixed"
               PROVE  RowsOf(p.strat, "close", {"pending"}) # {}
    BY DEF FixedIsCovered
  <2>1. p.strat \in Strategies /\ Awaited(p.strat)
    BY DEF TypeOK, BridgeTypeOK, Position, Awaited, PositionsOf
  <2>2. PICK k \in Key : k.strat = p.strat /\ k.leg = "close" /\ journal[k].status = "pending"
    BY <2>1 DEF HeldInv, ClosePending
  <2> QED
    BY <2>2 DEF RowsOf, Action
<1> QED
  BY <1>1, <1>2, <1>3, <1>4, <1>5, PTL DEF Spec

=============================================================================
