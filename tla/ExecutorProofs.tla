--------------------------- MODULE ExecutorProofs ---------------------------
(***************************************************************************)
(* Theorems about the executor, for every set of strategies, sessions and  *)
(* volumes, every schedule, every mix and number of faults.  NextH4 is the *)
(* next-state relation of all kinds of strategies; Executor's own Next is  *)
(* one of its disjuncts, so what is shown of SpecH4 holds of Spec too.     *)
(***************************************************************************)
EXTENDS ExecutorDesk, TLAPS

-----------------------------------------------------------------------------
\* Types.

\* A row the executor writes is a row.
LEMMA RowTypes ==
    /\ \A at, vol \in Nat : PendingRow(at, vol) \in Row
    /\ Absent \in Row
    /\ NoKey \in Key
<1>1. \A at, vol \in Nat : PendingRow(at, vol) \in Row
  BY ExecutorAssumption DEF PendingRow, Row, NoTicket, ExecutorAssumption
<1>2. Absent \in Row
  BY <1>1 DEF Absent, Row
<1>3. PICK s \in Strategies, n \in Sessions : TRUE
  BY ExecutorAssumption DEF ExecutorAssumption
<1>4. [strat |-> s, session |-> n, leg |-> "open"] \in Key
  BY <1>3 DEF Key
<1>5. NoKey \in Key
  BY <1>4 DEF NoKey
<1> QED
  BY <1>1, <1>2, <1>5

\* A leg falls due at an instant of the clock.
LEMMA DueTypes == \A k \in Key : DueAt(k) \in Nat
<1> TAKE k \in Key
<1>1. k.session \in Nat /\ PhasesPerDay \in Nat
  BY ExecutorAssumption, BridgeAssumption DEF Key
<1>2. k.session * PhasesPerDay \in Nat /\ (k.session + 1) * PhasesPerDay \in Nat
  BY <1>1
<1> QED
  BY <1>1, <1>2, ExecutorAssumption DEF DueAt, Key

\* The settings' lot size and cap are numbers.
LEMMA ConfigTypes == \A c \in Configs : c.volume \in Nat /\ c.cap \in Nat
BY ExecutorAssumption DEF ExecutorAssumption

\* Finishing a row leaves a journal.
LEMMA FinishTypes ==
    ASSUME TypeOK, NEW st \in Final, Finish(st)
    PROVE  journal' \in [Key -> Row]
BY DEF TypeOK, DbTypeOK, TickTypeOK, Finish, Row, Final

\* So does writing a leg beside the decision that calls for it ...
LEMMA WriteTypes ==
    ASSUME TypeOK, NEW row \in Row, NEW leg \in {"open", "close", "modify"}, Write(leg, row)
    PROVE  journal' \in [Key -> Row]
<1> DEFINE k == [cur EXCEPT !.leg = leg]
<1>1. k \in Key
  BY DEF TypeOK, TickTypeOK, Key
<1>2. [journal EXCEPT ![k] = row] \in [Key -> Row]
  BY <1>1 DEF TypeOK, DbTypeOK
<1>3. [[journal EXCEPT ![k] = row] EXCEPT ![cur].status = "decided"] \in [Key -> Row]
  BY <1>2 DEF TypeOK, TickTypeOK, Row, Final
<1> QED
  BY <1>3 DEF Write

\* ... and sending, or hanging up, leaves requests at the bridge.
LEMMA SendTypes ==
    ASSUME inbox \subseteq Request,
           NEW op \in {"order", "close", "modify"}, NEW pos \in Position, Send(op, pos)
    PROVE  inbox' \subseteq Request
<1>1. [op |-> op, pos |-> pos, waiting |-> TRUE] \in Request
  BY DEF Request
<1> QED
  BY <1>1 DEF Send

LEMMA HangUpTypes ==
    ASSUME inbox \subseteq Request, HangUp
    PROVE  inbox' \subseteq Request /\ reply' = "none"
BY DEF HangUp, Request

\* The system starts in a typed state.
LEMMA InitTypes == Init => TypeOK
BY RowTypes
DEF Init, BridgeInit, TypeOK, BridgeTypeOK, DbTypeOK, TickTypeOK, EnvTypeOK, HistoryTypeOK


\* No step of the executor, the terminal, the clock or a person breaks a type.
LEMMA StepTypes == TypeOK /\ [NextH4]_vars => TypeOK'
<1> SUFFICES ASSUME TypeOK, [NextH4]_vars PROVE TypeOK'
  OBVIOUS
<1> USE DEF TypeOK, BridgeTypeOK, DbTypeOK, TickTypeOK, EnvTypeOK, HistoryTypeOK, bridgeVars, dbVars, tickVars, envVars, historyVars
<1>1. CASE Tick
  BY <1>1, RowTypes, DueTypes, ConfigTypes DEF Tick, Scheduled, Unwritten
<1>2. CASE ScheduleDies
  BY <1>2, RowTypes, DueTypes, ConfigTypes DEF ScheduleDies, Scheduled, Unwritten, Fault
<1>3. CASE NextLeg
  BY <1>3 DEF NextLeg
<1>4. CASE SkipUnlisted
  BY <1>4, FinishTypes, RowTypes DEF SkipUnlisted, FinishRow, Onward, Final
<1>5. CASE EndTick
  BY <1>5, RowTypes DEF EndTick, Rest
<1>6. CASE DecideMissed
  BY <1>6, FinishTypes, RowTypes DEF DecideMissed, FinishRow, Onward, Final
<1>7. CASE DecideWaits
  BY <1>7, RowTypes DEF DecideWaits, LeaveRow, Onward
<1>8. CASE DecideNothing
  BY <1>8, FinishTypes, RowTypes DEF DecideNothing, FinishRow, Onward, Final
<1>9. CASE DecideLeg
  <2> DEFINE leg == [cur EXCEPT !.leg = IF Holding(cur.strat) THEN "close" ELSE "open"]
  <2>1. leg \in Key
    BY DEF Key
  <2>2. PendingRow(now, config.volume) \in Row
    BY RowTypes, ConfigTypes
  <2>3. [journal EXCEPT ![leg] = PendingRow(now, config.volume)] \in [Key -> Row]
    BY <2>1, <2>2
  <2>4. journal' \in [Key -> Row] /\ cur' = leg
    BY <2>3, <1>9 DEF DecideLeg, Row, Final
  <2> QED
    BY <2>1, <2>4, <1>9 DEF DecideLeg
<1>10. CASE OpenExpires
  BY <1>10, FinishTypes, RowTypes DEF OpenExpires, FinishRow, Onward, Final
<1>11. CASE OpenPaused
  BY <1>11, FinishTypes, RowTypes DEF OpenPaused, FinishRow, Onward, Final
<1>12. CASE OpenTooLarge
  BY <1>12, FinishTypes, RowTypes DEF OpenTooLarge, FinishRow, Onward, Final
<1>13. CASE OpenDry
  BY <1>13, FinishTypes, RowTypes DEF OpenDry, FinishRow, Onward, Final
<1>14. CASE OpenMay
  BY <1>14 DEF OpenMay
<1>15. CASE OpenUnreadable
  BY <1>15, FinishTypes, RowTypes DEF OpenUnreadable, FinishRow, Onward, Final, Fault
<1>16. CASE OpenTaken
  BY <1>16, FinishTypes, RowTypes DEF OpenTaken, FinishRow, Onward, Final
<1>17. CASE OpenSend
  <2> DEFINE pos == [ticket |-> nextTicket, strat |-> cur.strat, session |-> cur.session,
                     volume |-> journal[cur].volume, sl |-> journal[cur].sl]
  <2>1. pos \in Position
    BY DEF Position, Key, Row
  <2>2. inbox' \subseteq Request
    BY <2>1, SendTypes, <1>17 DEF OpenSend
  <2> QED
    BY <2>2, <1>17 DEF OpenSend
<1>18. CASE OpenFilled
  <2>1. nextTicket - 1 \in Nat
    OBVIOUS
  <2>2. [journal[cur] EXCEPT !.status = "filled", !.ticket = nextTicket - 1] \in Row
    BY <2>1 DEF Row, Final
  <2>3. journal' \in [Key -> Row]
    BY <2>2, <1>18 DEF OpenFilled
  <2> QED
    BY <2>3, RowTypes, <1>18 DEF OpenFilled, Onward
<1>19. CASE OpenRejected
  <2>1. journal' \in [Key -> Row] /\ inbox' \subseteq Request /\ reply' = "none"
    BY FinishTypes, HangUpTypes, <1>19 DEF OpenRejected, Final
  <2>2. faults' \in Nat /\ told' \subseteq Nat
    BY <1>19 DEF OpenRejected, Fault
  <2> QED
    BY <2>1, <2>2, RowTypes, <1>19 DEF OpenRejected, Onward
<1>20. CASE CloseUnreadable
  BY <1>20, RowTypes DEF CloseUnreadable, LeaveRow, Onward, Fault
<1>21. CASE CloseNothing
  BY <1>21, FinishTypes, RowTypes DEF CloseNothing, FinishRow, Onward, Final
<1>22. CASE CloseDry
  BY <1>22, RowTypes DEF CloseDry, LeaveRow, Onward
<1>23. CASE CloseStart
  <2>1. todo' \subseteq Position
    BY <1>23 DEF CloseStart, PositionsOf
  <2>2. inbox' \subseteq Request
    BY <2>1, SendTypes, <1>23 DEF CloseStart, FirstOf
  <2> QED
    BY <2>1, <2>2, <1>23 DEF CloseStart
<1>24. CASE CloseAnother
  <2>1. todo' \subseteq Position
    BY <1>24 DEF CloseAnother
  <2>2. inbox' \subseteq Request
    BY <2>1, SendTypes, <1>24 DEF CloseAnother, FirstOf
  <2> QED
    BY <2>1, <2>2, <1>24 DEF CloseAnother
<1>25. CASE CloseFilled
  <2>1. PICK last \in todo, pnl \in {"none", "win", "loss"} :
          journal' = [journal EXCEPT
            ![cur] = [@ EXCEPT !.status = "filled", !.pnl = pnl, !.ticket = last.ticket]]
    BY <1>25 DEF CloseFilled
  <2>2. last.ticket \in Nat
    BY DEF Position
  <2>3. [journal[cur] EXCEPT !.status = "filled", !.pnl = pnl, !.ticket = last.ticket] \in Row
    BY <2>2 DEF Row, Final
  <2>4. journal' \in [Key -> Row]
    BY <2>1, <2>3
  <2> QED
    BY <2>4, <1>25 DEF CloseFilled
<1>26. CASE CloseRejected
  <2>1. inbox' \subseteq Request /\ reply' = "none"
    BY HangUpTypes, <1>26 DEF CloseRejected
  <2>2. faults' \in Nat
    BY <1>26 DEF CloseRejected, Fault, LeaveRow
  <2> QED
    BY <2>1, <2>2, RowTypes, <1>26 DEF CloseRejected, LeaveRow, Onward
<1>27. CASE CheckKill
  BY <1>27, RowTypes DEF CheckKill, Onward
<1>28. CASE Boot
  <2>1. \A q \in positions : q.ticket \in Nat
    BY DEF Position
  <2>2. \A set \in SUBSET positions : {p.ticket : p \in set} \subseteq Nat
    BY <2>1
  <2>3. told' \subseteq Nat
    BY <2>2, <1>28 DEF Boot
  <2> QED
    BY <2>3, <1>28 DEF Boot, Fault
<1>29. CASE Crash
  <2>1. inbox' \subseteq Request /\ reply' = "none"
    BY HangUpTypes, <1>29 DEF Crash
  <2> QED
    BY <2>1, RowTypes, <1>29 DEF Crash, Rest, Fault
<1>30. CASE TickRaises
  <2>1. inbox' \subseteq Request /\ reply' = "none"
    BY HangUpTypes, <1>30 DEF TickRaises
  <2> QED
    BY <2>1, RowTypes, <1>30 DEF TickRaises, Rest, Fault
<1>31. CASE Serve
  BY <1>31 DEF Serve, FillOrder, ClosePosition, MoveStop, KeepStop, PositionGone, Answer, Request, Position
<1>32. CASE Rejects
  BY <1>32 DEF Rejects, Refuse, Answer, Fault
<1>33. CASE Stopped
  BY <1>33 DEF Stopped, StopOut, Fault
<1>34. CASE BarArrives
  BY <1>34 DEF BarArrives
<1>35. CASE Advance
  BY <1>35 DEF Advance
<1>36. CASE Person
  BY <1>36 DEF Person, PersonPauses, PersonResumes, ClosedTrades, RowsOf
<1>37. CASE H4Waits
  BY <1>37, RowTypes DEF H4Waits, LeaveRow, Onward
<1>38. CASE H4Shut
  BY <1>38, FinishTypes, RowTypes DEF H4Shut, FinishRow, Onward, Final
<1>39. CASE H4Late
  BY <1>39, FinishTypes, RowTypes DEF H4Late, FinishRow, Onward, Final
<1>40. CASE H4Unreadable
  BY <1>40, RowTypes DEF H4Unreadable, LeaveRow, Onward, Fault
<1>41. CASE H4StoppedOut
  <2>1. PICK o \in LastOpen(cur.strat), pnl \in {"win", "loss"} :
          journal' = [journal EXCEPT ![[o EXCEPT !.leg = "stopped"]] =
             [PendingRow(now, journal[o].volume) EXCEPT
                !.status = "filled", !.ticket = journal[o].ticket, !.pnl = pnl]]
    BY <1>41 DEF H4StoppedOut
  <2>2. o \in Key /\ [o EXCEPT !.leg = "stopped"] \in Key
    BY DEF LastOpen, FilledOpens, RowsOf, Key
  <2>3. journal[o].volume \in Nat /\ journal[o].ticket \in Nat
    BY <2>2 DEF Row
  <2>4. PendingRow(now, journal[o].volume) \in Row
    BY <2>3, RowTypes
  <2>5. journal' \in [Key -> Row]
    BY <2>1, <2>2, <2>3, <2>4 DEF Row, Final
  <2> QED
    BY <2>5, <1>41 DEF H4StoppedOut
<1>42. CASE H4StopKill
  BY <1>42 DEF H4StopKill
<1>43. CASE H4Nothing
  BY <1>43, FinishTypes, RowTypes DEF H4Nothing, FinishRow, Onward, Final
<1>44. CASE H4Open
  <2>1. PICK low \in Levels : Write("open", [PendingRow(now, config.volume) EXCEPT !.sl = low])
    BY <1>44 DEF H4Open
  <2>2. PendingRow(now, config.volume) \in Row
    BY RowTypes, ConfigTypes
  <2>3. [PendingRow(now, config.volume) EXCEPT !.sl = low] \in Row
    BY <2>2 DEF Row
  <2>4. journal' \in [Key -> Row]
    BY <2>1, <2>3, WriteTypes
  <2>5. cur' \in Key
    BY <1>44 DEF H4Open, Key
  <2> QED
    BY <2>4, <2>5, <1>44 DEF H4Open
<1>45. CASE H4Close
  <2>1. PendingRow(now, config.volume) \in Row
    BY RowTypes, ConfigTypes
  <2>2. journal' \in [Key -> Row]
    BY <2>1, <1>45, WriteTypes DEF H4Close
  <2>3. cur' \in Key
    BY <1>45 DEF H4Close, Key
  <2> QED
    BY <2>2, <2>3, <1>45 DEF H4Close
<1>46. CASE H4Trail
  <2> DEFINE row(stop, p) ==
        [PendingRow(now, config.volume) EXCEPT
           !.sl = stop, !.ticket = p.ticket,
           !.status = IF config.enabled THEN "pending" ELSE "skipped"]
  <2>1. PICK stop \in Levels, p \in PositionsOf(cur.strat) :
          /\ Write("modify", row(stop, p))
          /\ \/ Send("modify", [p EXCEPT !.sl = stop]) /\ cur' = [cur EXCEPT !.leg = "modify"]
                                                       /\ pc' = "trailing"
             \/ UNCHANGED inbox /\ cur' = NoKey /\ pc' = "next"
    BY <1>46 DEF H4Trail
  <2>2. p \in Position /\ [p EXCEPT !.sl = stop] \in Position
    BY DEF PositionsOf, Position
  <2>3. PendingRow(now, config.volume) \in Row
    BY RowTypes, ConfigTypes
  <2>4. row(stop, p) \in Row
    BY <2>2, <2>3 DEF Row, Final, Position
  <2>5. journal' \in [Key -> Row]
    BY <2>1, <2>4, WriteTypes
  <2>6. inbox' \subseteq Request
    BY <2>1, <2>2, SendTypes
  <2>7. cur' \in Key
    BY <2>1, RowTypes DEF Key
  <2> QED
    BY <2>1, <2>5, <2>6, <2>7, <1>46 DEF H4Trail
<1>47. CASE TrailFilled
  BY <1>47, FinishTypes, RowTypes DEF TrailFilled, Onward, Final
<1>48. CASE TrailRejected
  <2>1. journal' \in [Key -> Row] /\ inbox' \subseteq Request /\ reply' = "none"
    BY FinishTypes, HangUpTypes, <1>48 DEF TrailRejected, Final
  <2>2. faults' \in Nat
    BY <1>48 DEF TrailRejected, Fault
  <2> QED
    BY <2>1, <2>2, RowTypes, <1>48 DEF TrailRejected, Onward
<1>49. CASE ModifyExpires
  BY <1>49, FinishTypes, RowTypes DEF ModifyExpires, FinishRow, Onward, Final
<1>50. CASE H4Gap
  BY <1>50, FinishTypes, RowTypes DEF H4Gap, FinishRow, Onward, Final
<1>51. CASE UNCHANGED vars
  BY <1>51 DEF vars
<1> QED
  BY <1>1, <1>2, <1>3, <1>4, <1>5, <1>6, <1>7, <1>8, <1>9, <1>10, <1>11, <1>12, <1>13, <1>14, <1>15, <1>16, <1>17, <1>18, <1>19, <1>20, <1>21, <1>22, <1>23, <1>24, <1>25, <1>26, <1>27, <1>28, <1>29, <1>30, <1>31, <1>32, <1>33, <1>34, <1>35, <1>36, <1>37, <1>38, <1>39, <1>40, <1>41, <1>42, <1>43, <1>44, <1>45, <1>46, <1>47, <1>48, <1>49, <1>50, <1>51
  DEF NextH4, H4Decide, Next, Process, Decide, Open, Close, Failures

\* Every value the executor, the journal and the bridge hold is of its type, with
\* strategies of all kinds (SpecH4) and without 4h strategies (Spec).
THEOREM TypesHoldH4 == SpecH4 => []TypeOK
<1>1. Init => TypeOK
  BY InitTypes
<1>2. TypeOK /\ [NextH4]_vars => TypeOK'
  BY StepTypes
<1> QED
  BY <1>1, <1>2, PTL DEF SpecH4

\* Executor's own steps are steps of the executor with 4h strategies.
LEMMA SpecIsSpecH4 == Spec => SpecH4
<1>1. [Next]_vars => [NextH4]_vars
  BY DEF NextH4
<1> QED
  BY <1>1, PTL DEF Spec, SpecH4

\* The same without 4h strategies.
THEOREM TypesHold == Spec => []TypeOK
BY TypesHoldH4, SpecIsSpecH4, PTL

-----------------------------------------------------------------------------
\* The desk's invariant, under a fair lock.  Each lemma is one way a step leaves it
\* true; every action of the executor and its environment is one of them.

DeskDefs ==
    <<positions, inbox, reply, pc, cur, paused>>

\* Nothing the invariant reads changes.
LEMMA KeptByStutter ==
    ASSUME DeskInv, UNCHANGED DeskDefs
    PROVE  DeskInv'
BY DEF DeskInv, DeskDefs, OnePosition, OneRequest, OrderWhenFlat, PositionsOf, OnlyWaitersWait,
       AnswerIsAwaited, KillWhenDone, NotKilledWhenOpening

\* The tick goes from one place to another without touching the bridge.
LEMMA KeptByMove ==
    ASSUME DeskInv, UNCHANGED <<positions, inbox, reply, paused>>,
           pc \notin WaitingPlaces, pc' \notin {"opening"} \cup KillChecks
    PROVE  DeskInv'
BY DEF DeskInv, OnePosition, OneRequest, OrderWhenFlat, PositionsOf, OnlyWaitersWait,
       AnswerIsAwaited, KillWhenDone, NotKilledWhenOpening, KillChecks

\* The client hangs up: what it sent stays, with no one waiting.
LEMMA KeptByHangUp ==
    ASSUME TypeOK, DeskInv, HangUp, UNCHANGED <<positions, paused>>,
           pc' \notin {"opening"} \cup KillChecks
    PROVE  DeskInv'
<1>1. \A x \in inbox' : ~x.waiting /\ \E r \in inbox : x.op = r.op /\ x.pos = r.pos
  BY DEF HangUp, TypeOK, BridgeTypeOK, Request
<1>2. OneRequest'
  BY DEF HangUp, DeskInv, OneRequest
<1>3. OrderWhenFlat'
  BY <1>1 DEF DeskInv, OrderWhenFlat, PositionsOf
<1>4. OnlyWaitersWait' /\ AnswerIsAwaited'
  BY <1>1 DEF HangUp, OnlyWaitersWait, AnswerIsAwaited
<1>5. NotKilledWhenOpening'
  BY <1>1 DEF DeskInv, NotKilledWhenOpening
<1> QED
  BY <1>2, <1>3, <1>4, <1>5 DEF DeskInv, OnePosition, KillWhenDone, KillChecks

\* The answer arrived and is taken: nothing is left at the bridge.
LEMMA KeptByTakingAnswer ==
    ASSUME DeskInv, reply # "none", reply' = "none", pc' # "opening",
           UNCHANGED <<positions, inbox, paused>>
    PROVE  DeskInv'
<1>1. inbox = {}
  BY DEF DeskInv, AnswerIsAwaited
<1> QED
  BY <1>1 DEF DeskInv, OnePosition, OneRequest, OrderWhenFlat, OnlyWaitersWait,
              AnswerIsAwaited, KillWhenDone, NotKilledWhenOpening

\* A request goes to an idle bridge; an order only when flat and not killed.
LEMMA KeptBySend ==
    ASSUME DeskInv, inbox = {}, reply' = "none", pc' \in WaitingPlaces,
           UNCHANGED <<positions, paused>>,
           NEW op, NEW pos, Send(op, pos),
           op = "order" => PositionsOf(pos.strat) = {} /\ paused[pos.strat] # "kill"
    PROVE  DeskInv'
<1>1. inbox' = {[op |-> op, pos |-> pos, waiting |-> TRUE]}
  BY DEF Send
<1> QED
  BY <1>1 DEF DeskInv, OnePosition, OneRequest, OrderWhenFlat, PositionsOf, OnlyWaitersWait,
              AnswerIsAwaited, KillWhenDone, KillChecks, NotKilledWhenOpening, WaitingPlaces

\* The terminal answers the one request it has.
LEMMA KeptByAnswer ==
    ASSUME DeskInv, NEW r \in inbox, NEW a, Answer(r, a), OnePosition',
           UNCHANGED <<pc, cur, paused>>
    PROVE  DeskInv'
<1>1. inbox' = {}
  BY DEF DeskInv, OneRequest, Answer
<1>2. AnswerIsAwaited'
  BY <1>1 DEF DeskInv, OnlyWaitersWait, AnswerIsAwaited, Answer
<1> QED
  BY <1>1, <1>2 DEF DeskInv, OneRequest, OrderWhenFlat, OnlyWaitersWait, KillWhenDone,
                    NotKilledWhenOpening

\* A read of the bridge shows that nothing is at it.
LEMMA ReadableIsIdle == Fifo /\ BridgeReadable => inbox = {}
BY DEF BridgeReadable

LEMMA DeskInit == Init => DeskInv
BY DEF Init, BridgeInit, DeskInv, OnePosition, OneRequest, OrderWhenFlat, OnlyWaitersWait,
       AnswerIsAwaited, KillWhenDone, NotKilledWhenOpening, KillChecks

LEMMA DeskStep == Fifo /\ TypeOK /\ DeskInv /\ [NextH4]_vars => DeskInv'
<1> SUFFICES ASSUME Fifo, TypeOK, DeskInv, [NextH4]_vars PROVE DeskInv'
  OBVIOUS
<1> USE DEF WaitingPlaces, KillChecks, bridgeVars, dbVars, tickVars, envVars, historyVars
<1>1. CASE Tick
  BY <1>1, KeptByMove DEF Tick
<1>2. CASE ScheduleDies
  BY <1>2, KeptByMove DEF ScheduleDies
<1>3. CASE NextLeg
  BY <1>3, KeptByMove DEF NextLeg
<1>4. CASE SkipUnlisted
  BY <1>4, KeptByMove DEF SkipUnlisted, FinishRow, Onward
<1>5. CASE EndTick
  BY <1>5, KeptByMove DEF EndTick, Rest
<1>6. CASE Decide
  BY <1>6, KeptByMove DEF Decide, DecideMissed, DecideWaits, DecideNothing, DecideLeg,
       Decidable, AtDaily, At, FinishRow, LeaveRow, Onward
<1>7. CASE OpenExpires \/ OpenPaused \/ OpenTooLarge \/ OpenDry \/ OpenUnreadable \/ OpenTaken
  BY <1>7, KeptByMove DEF OpenExpires, OpenPaused, OpenTooLarge, OpenDry, OpenUnreadable, OpenTaken,
       At, FinishRow, Onward
<1>8. CASE CloseUnreadable \/ CloseNothing \/ CloseDry
  BY <1>8, KeptByMove DEF CloseUnreadable, CloseNothing, CloseDry, At, FinishRow, LeaveRow, Onward
<1>9. CASE Boot
  BY <1>9, KeptByMove DEF Boot
<1>10. CASE OpenMay
  <2>1. paused'[cur'.strat] # "kill" /\ pc' = "opening" /\ UNCHANGED <<positions, inbox, reply>>
    BY <1>10 DEF OpenMay
  <2>2. reply = "none" /\ \A r \in inbox : ~r.waiting
    BY <1>10 DEF OpenMay, At, DeskInv, OnlyWaitersWait, AnswerIsAwaited
  <2> QED
    BY <2>1, <2>2, <1>10 DEF OpenMay, DeskInv, OnePosition, OneRequest, OrderWhenFlat, PositionsOf,
          OnlyWaitersWait, AnswerIsAwaited, KillWhenDone, NotKilledWhenOpening
<1>11. CASE OpenSend
  <2> DEFINE pos == [ticket |-> nextTicket, strat |-> cur.strat, session |-> cur.session,
                     volume |-> journal[cur].volume, sl |-> journal[cur].sl]
  <2>1. inbox = {} /\ reply' = "none"
    BY <1>11, ReadableIsIdle DEF OpenSend, DeskInv, AnswerIsAwaited
  <2>2. PositionsOf(pos.strat) = {} /\ paused[pos.strat] # "kill"
    BY <1>11 DEF OpenSend, DeskInv, NotKilledWhenOpening
  <2>3. Send("order", pos) /\ pc' = "ordering" /\ UNCHANGED <<positions, paused>>
    BY <1>11 DEF OpenSend
  <2> HIDE DEF pos
  <2> QED
    BY <2>1, <2>2, <2>3, KeptBySend
<1>12. CASE OpenFilled
  BY <1>12, KeptByTakingAnswer DEF OpenFilled, Onward
<1>13. CASE OpenRejected
  BY <1>13, KeptByHangUp DEF OpenRejected, Onward
<1>14. CASE CloseStart
  <2>1. inbox = {} /\ reply' = "none"
    BY <1>14, ReadableIsIdle DEF CloseStart, At, DeskInv, AnswerIsAwaited
  <2>2. PICK p \in todo' : Send("close", p)
    BY <1>14 DEF CloseStart
  <2> QED
    BY <2>1, <2>2, <1>14, KeptBySend DEF CloseStart
<1>15. CASE CloseAnother
  <2>1. inbox = {} /\ reply' = "none"
    BY <1>15 DEF CloseAnother, DeskInv, AnswerIsAwaited
  <2>2. PICK p \in todo' : Send("close", p)
    BY <1>15 DEF CloseAnother
  <2> QED
    BY <2>1, <2>2, <1>15, KeptBySend DEF CloseAnother
<1>16. CASE CloseFilled
  BY <1>16, KeptByTakingAnswer DEF CloseFilled
<1>17. CASE CloseRejected
  BY <1>17, KeptByHangUp DEF CloseRejected, LeaveRow, Onward
<1>18. CASE CheckKill
  <2>1. inbox = {} /\ reply = "none"
    BY <1>18 DEF CheckKill, DeskInv, KillWhenDone, AnswerIsAwaited
  <2> QED
    BY <2>1, <1>18 DEF CheckKill, Onward, DeskInv, OnePosition, OneRequest, OrderWhenFlat, OnlyWaitersWait,
          AnswerIsAwaited, KillWhenDone, NotKilledWhenOpening
<1>19. CASE Crash \/ TickRaises
  BY <1>19, KeptByHangUp DEF Crash, TickRaises, Rest
<1>20. CASE Serve
  <2>1. PICK r \in inbox : \/ FillOrder(r) \/ ClosePosition(r) \/ MoveStop(r)
                          \/ KeepStop(r) \/ PositionGone(r)
    BY <1>20 DEF Serve
  <2>2. UNCHANGED <<pc, cur, paused>>
    BY <1>20 DEF Serve
  <2>3. CASE FillOrder(r)
    <3>1. OnePosition'
      BY <2>3 DEF FillOrder, DeskInv, OnePosition, OrderWhenFlat, PositionsOf
    <3> QED
      BY <3>1, <2>2, <2>3, KeptByAnswer DEF FillOrder
  <2>4. CASE ClosePosition(r)
    <3>1. OnePosition'
      BY <2>4 DEF ClosePosition, DeskInv, OnePosition
    <3> QED
      BY <3>1, <2>2, <2>4, KeptByAnswer DEF ClosePosition
  <2>5. CASE MoveStop(r)
    <3>1. PICK p \in positions :
            positions' = (positions \ {p}) \cup {[p EXCEPT !.sl = r.pos.sl]}
      BY <2>5 DEF MoveStop
    <3>2. [p EXCEPT !.sl = r.pos.sl].strat = p.strat
      BY DEF TypeOK, BridgeTypeOK, Position
    <3>3. OnePosition'
      BY <3>1, <3>2 DEF DeskInv, OnePosition
    <3> QED
      BY <3>3, <2>2, <2>5, KeptByAnswer DEF MoveStop
  <2>6. CASE KeepStop(r) \/ PositionGone(r)
    <3>1. OnePosition'
      BY <2>6 DEF KeepStop, PositionGone, DeskInv, OnePosition
    <3> QED
      BY <3>1, <2>2, <2>6, KeptByAnswer DEF KeepStop, PositionGone
  <2> QED
    BY <2>1, <2>3, <2>4, <2>5, <2>6
<1>21. CASE Rejects
  <2>1. PICK r \in inbox : Refuse(r)
    BY <1>21 DEF Rejects
  <2>2. OnePosition'
    BY <2>1 DEF Refuse, DeskInv, OnePosition
  <2> QED
    BY <2>1, <2>2, <1>21, KeptByAnswer DEF Refuse, Rejects
<1>22. CASE Stopped
  BY <1>22 DEF Stopped, StopOut, DeskInv, OnePosition, OneRequest, OrderWhenFlat, PositionsOf,
        OnlyWaitersWait, AnswerIsAwaited, KillWhenDone, NotKilledWhenOpening
<1>23. CASE BarArrives \/ Advance
  BY <1>23, KeptByStutter DEF BarArrives, Advance, DeskDefs
<1>24. CASE Person
  <2>1. \A s \in Strategies : paused'[s] = "kill" => paused[s] = "kill"
    BY <1>24 DEF Person, PersonPauses, PersonResumes, TypeOK, DbTypeOK
  <2>2. cur.strat \in Strategies /\ \A r \in inbox : r.pos.strat \in Strategies
    BY DEF TypeOK, TickTypeOK, BridgeTypeOK, Key, Request, Position
  <2> QED
    BY <2>1, <2>2, <1>24 DEF Person, DeskInv, OnePosition, OneRequest, OrderWhenFlat, PositionsOf,
          OnlyWaitersWait, AnswerIsAwaited, KillWhenDone, NotKilledWhenOpening
<1>25. CASE H4Waits \/ H4Shut \/ H4Late \/ H4Unreadable \/ H4Close
  BY <1>25, KeptByMove DEF H4Waits, H4Shut, H4Late, H4Unreadable, H4Close,
       H4Held, H4Decidable, AtH4, At, FinishRow, LeaveRow, Onward
<1>26. CASE H4StoppedOut
  <2>1. inbox = {} /\ reply = "none"
    BY <1>26, ReadableIsIdle DEF H4StoppedOut, H4Decidable, AtH4, At, DeskInv, AnswerIsAwaited
  <2> QED
    BY <2>1, <1>26 DEF H4StoppedOut, DeskInv, OnePosition, OneRequest, OrderWhenFlat,
          OnlyWaitersWait, AnswerIsAwaited, KillWhenDone, NotKilledWhenOpening
<1>27. CASE H4StopKill
  <2>1. inbox = {} /\ reply = "none"
    BY <1>27 DEF H4StopKill, DeskInv, KillWhenDone, AnswerIsAwaited
  <2> QED
    BY <2>1, <1>27 DEF H4StopKill, Onward, DeskInv, OnePosition, OneRequest, OrderWhenFlat, OnlyWaitersWait,
          AnswerIsAwaited, KillWhenDone, NotKilledWhenOpening
<1>28. CASE H4Nothing \/ H4Open
  BY <1>28, KeptByMove DEF H4Nothing, H4Open,
       H4Flat, H4Held, H4Decidable, AtH4, At, FinishRow, Onward
<1>29. CASE H4Trail
  <2>1. CASE config.enabled
    <3>1. inbox = {} /\ reply' = "none"
      BY <1>29, ReadableIsIdle
      DEF H4Trail, H4Held, H4Decidable, AtH4, At, DeskInv, AnswerIsAwaited
    <3>2. PICK stop \in Levels, p \in PositionsOf(cur.strat) : Send("modify", [p EXCEPT !.sl = stop])
      BY <1>29, <2>1 DEF H4Trail
    <3> QED
      BY <3>1, <3>2, <2>1, <1>29, KeptBySend DEF H4Trail
  <2>2. CASE ~config.enabled
    BY <1>29, <2>2, KeptByMove DEF H4Trail, H4Held, H4Decidable, AtH4, At
  <2> QED
    BY <2>1, <2>2
<1>30. CASE TrailFilled
  BY <1>30, KeptByTakingAnswer DEF TrailFilled, Onward
<1>31. CASE TrailRejected
  BY <1>31, KeptByHangUp DEF TrailRejected, Onward
<1>32. CASE ModifyExpires \/ H4Gap
  BY <1>32, KeptByMove DEF ModifyExpires, H4Gap, At, FinishRow, Onward
<1>33. CASE UNCHANGED vars
  BY <1>33, KeptByStutter DEF vars, DeskDefs
<1> QED
  BY <1>1, <1>2, <1>3, <1>4, <1>5, <1>6, <1>7, <1>8, <1>9, <1>10, <1>11, <1>12, <1>13, <1>14, <1>15, <1>16, <1>17, <1>18, <1>19, <1>20, <1>21, <1>22, <1>23, <1>24, <1>25, <1>26, <1>27, <1>28, <1>29, <1>30, <1>31, <1>32, <1>33
  DEF NextH4, H4Decide, Next, Process, Open, Close, Failures

-----------------------------------------------------------------------------
\* The executor implements the desk.

LEMMA DeskInvHolds == ASSUME Fifo PROVE SpecH4 => [](TypeOK /\ DeskInv)
<1>1. Init => TypeOK /\ DeskInv
  BY InitTypes, DeskInit
<1>2. TypeOK /\ DeskInv /\ [NextH4]_vars => (TypeOK /\ DeskInv)'
  BY StepTypes, DeskStep
<1> QED
  BY <1>1, <1>2, PTL DEF SpecH4

\* With a fair bridge lock one request at most is on its way to the terminal, an order only while its
\* strategy is flat and not killed, and an answer only for who waits on it (_open, _close, _check_kill).
THEOREM DeskInvIsKept == ASSUME Fifo PROVE SpecH4 => []DeskInv
BY DeskInvHolds, PTL

\* With a fair bridge lock no failure, restart, late request or person gives a strategy
\* two positions (_open lists the strategy's positions before it orders).
THEOREM OnePositionHoldsH4 == ASSUME Fifo PROVE SpecH4 => []OnePosition
<1>1. DeskInv => OnePosition
  BY DEF DeskInv
<1> QED
  BY <1>1, DeskInvHolds, PTL

\* The same without 4h strategies.
THEOREM OnePositionHolds == ASSUME Fifo PROVE Spec => []OnePosition
BY OnePositionHoldsH4, SpecIsSpecH4, PTL

\* A step that leaves the positions and the pauses alone is no step of the desk.
LEMMA DeskStutters ==
    ASSUME UNCHANGED <<positions, paused>>
    PROVE  UNCHANGED <<Book, Halted>>
BY DEF Book, Halted, PositionsOf

\* A position that goes leaves its strategy with none.
LEMMA DeskLeaves ==
    ASSUME TypeOK, OnePosition, NEW p \in positions, positions' = positions \ {p},
           UNCHANGED paused
    PROVE  Desk!Leave(p.strat) /\ p.strat \in Strategies
<1>1. p.strat \in Strategies
  BY DEF TypeOK, BridgeTypeOK, Position
<1>2. PositionsOf(p.strat)' = {}
  BY DEF OnePosition, PositionsOf
<1>3. \A s \in Strategies \ {p.strat} : PositionsOf(s)' = PositionsOf(s)
  BY DEF PositionsOf
<1>4. Book' = [Book EXCEPT ![p.strat] = {}]
  BY <1>1, <1>2, <1>3 DEF Book
<1> QED
  BY <1>1, <1>4 DEF Desk!Leave, Halted

\* An order that fills is a purchase the desk allows.
LEMMA DeskBuys ==
    ASSUME TypeOK, DeskInv, NEW r \in inbox, FillOrder(r), UNCHANGED paused
    PROVE  Desk!Buy(r.pos.strat) /\ r.pos.strat \in Strategies
<1> DEFINE s == r.pos.strat
<1>1. s \in Strategies /\ r.pos \in Position
  BY DEF TypeOK, BridgeTypeOK, Position, Request
<1>2. PositionsOf(s) = {} /\ PositionsOf(s)' = {r.pos}
  BY DEF FillOrder, DeskInv, OrderWhenFlat, PositionsOf
<1>3. \A x \in Strategies \ {s} : PositionsOf(x)' = PositionsOf(x)
  BY DEF FillOrder, PositionsOf
<1>4. Book[s] = {} /\ Book' = [Book EXCEPT ![s] = {r.pos.ticket}]
  <2>1. {x.ticket : x \in PositionsOf(s)} = {}
    BY <1>2
  <2>2. {x.ticket : x \in PositionsOf(s)'} = {r.pos.ticket}
    BY <1>2
  <2> HIDE DEF s
  <2> QED
    BY <1>1, <1>3, <2>1, <2>2 DEF Book
<1>5. r.pos.ticket \in Book'[s]
  BY <1>1, <1>4 DEF Book
<1>6. ~Halted[s]
  BY <1>1 DEF FillOrder, DeskInv, NotKilledWhenOpening, Halted
<1> QED
  BY <1>1, <1>4, <1>5, <1>6 DEF Desk!Buy, Halted

\* A stop that moves leaves the position, under its ticket, where it was.
LEMMA DeskKeepsMoved ==
    ASSUME TypeOK, NEW r \in inbox, MoveStop(r)
    PROVE  UNCHANGED Book
<1>1. PICK p \in positions : positions' = (positions \ {p}) \cup {[p EXCEPT !.sl = r.pos.sl]}
  BY DEF MoveStop
<1> DEFINE q == [p EXCEPT !.sl = r.pos.sl]
<1>2. q.ticket = p.ticket /\ q.strat = p.strat
  BY DEF TypeOK, BridgeTypeOK, Position
<1>3. \A s \in Strategies : {x.ticket : x \in PositionsOf(s)'} = {x.ticket : x \in PositionsOf(s)}
  BY <1>1, <1>2 DEF PositionsOf
<1> QED
  BY <1>3 DEF Book

\* The kill rule that trips halts its strategy.
LEMMA DeskHalts ==
    ASSUME TypeOK, NEW s \in Strategies, UNCHANGED positions,
           paused' = [paused EXCEPT ![s] = "kill"] \/ paused' = paused
    PROVE  Desk!Halt(s) \/ UNCHANGED <<Book, Halted>>
<1>1. UNCHANGED Book
  BY DEF Book, PositionsOf
<1>2. CASE paused' = [paused EXCEPT ![s] = "kill"]
  <2>1. Halted' = [Halted EXCEPT ![s] = TRUE]
    BY <1>2 DEF Halted, TypeOK, DbTypeOK
  <2> QED
    BY <1>1, <2>1 DEF Desk!Halt
<1>3. CASE paused' = paused
  BY <1>1, <1>3 DEF Halted
<1> QED
  BY <1>2, <1>3

LEMMA DeskInitially == Init => Desk!Init
BY DEF Init, BridgeInit, Desk!Init, Book, Halted, PositionsOf

\* Every step of the executor and its environment is a step of the desk, or none.
LEMMA DeskNext ==
    Fifo /\ TypeOK /\ DeskInv /\ [NextH4]_vars => [Desk!Next]_<<Book, Halted>>
<1> SUFFICES ASSUME Fifo, TypeOK, DeskInv, [NextH4]_vars
             PROVE  Desk!Next \/ UNCHANGED <<Book, Halted>>
  OBVIOUS
<1> USE DEF bridgeVars, dbVars, tickVars, envVars, historyVars
<1>2. CASE Serve
  <2>1. PICK r \in inbox : \/ FillOrder(r) \/ ClosePosition(r) \/ MoveStop(r)
                          \/ KeepStop(r) \/ PositionGone(r)
    BY <1>2 DEF Serve
  <2>2. UNCHANGED paused
    BY <1>2 DEF Serve
  <2>3. CASE FillOrder(r)
    BY <2>2, <2>3, DeskBuys DEF Desk!Next
  <2>4. CASE ClosePosition(r)
    <3>1. PICK p \in positions : positions' = positions \ {p}
      BY <2>4 DEF ClosePosition
    <3> QED
      BY <3>1, <2>2, DeskLeaves DEF Desk!Next, DeskInv
  <2>5. CASE MoveStop(r)
    BY <2>2, <2>5, DeskKeepsMoved DEF Halted
  <2>6. CASE KeepStop(r) \/ PositionGone(r)
    BY <2>2, <2>6, DeskStutters DEF KeepStop, PositionGone
  <2> QED
    BY <2>1, <2>3, <2>4, <2>5, <2>6
<1>3. CASE Stopped
  <2>1. PICK p \in positions : positions' = positions \ {p}
    BY <1>3 DEF Stopped, StopOut
  <2> QED
    BY <2>1, <1>3, DeskLeaves DEF Stopped, Desk!Next, DeskInv
<1>4. CASE CheckKill \/ H4StopKill
  <2>1. cur.strat \in Strategies
    BY DEF TypeOK, TickTypeOK, Key
  <2> QED
    BY <2>1, <1>4, DeskHalts DEF CheckKill, H4StopKill, Desk!Next
<1>5. CASE Person
  <2>1. PICK s \in Strategies : PersonPauses(s) \/ PersonResumes(s)
    BY <1>5 DEF Person
  <2>2. UNCHANGED Book
    BY <1>5 DEF Person, Book, PositionsOf
  <2>3. CASE PersonPauses(s)
    <3>1. UNCHANGED Halted
      BY <2>3 DEF PersonPauses, Halted, TypeOK, DbTypeOK
    <3> QED
      BY <3>1, <2>2
  <2>4. CASE PersonResumes(s)
    <3>1. Halted' = [Halted EXCEPT ![s] = FALSE]
      BY <2>4 DEF PersonResumes, Halted, TypeOK, DbTypeOK
    <3> QED
      BY <3>1, <2>2 DEF Desk!Resume, Desk!Next
  <2> QED
    BY <2>1, <2>3, <2>4
<1>6. CASE Process \/ H4Decide
  <2>1. CASE UNCHANGED <<positions, paused>>
    BY <2>1, DeskStutters
  <2>2. CASE ~UNCHANGED <<positions, paused>>
    BY <2>2, <1>4, <1>6
    DEF Process, Tick, NextLeg, SkipUnlisted, EndTick, Boot, Decide, DecideMissed, DecideWaits,
        DecideNothing, DecideLeg, Open, OpenExpires, OpenPaused, OpenTooLarge, OpenDry, OpenMay,
        OpenUnreadable, OpenTaken, OpenSend, OpenFilled, OpenRejected, Close, CloseUnreadable,
        CloseNothing, CloseDry, CloseStart, CloseAnother, CloseFilled, CloseRejected, Rest,
        FinishRow, LeaveRow, H4Decide, H4Waits, H4Shut, H4Late, H4Unreadable, H4StoppedOut,
        H4Nothing, H4Open, H4Close, H4Trail, TrailFilled, TrailRejected, ModifyExpires, H4Gap
  <2> QED
    BY <2>1, <2>2
<1>7. CASE ScheduleDies \/ Crash \/ TickRaises \/ Rejects \/ BarArrives \/ Advance \/ UNCHANGED vars
  BY <1>7, DeskStutters
  DEF ScheduleDies, Crash, TickRaises, Rejects, Refuse, BarArrives, Advance, vars
<1> QED
  BY <1>2, <1>3, <1>5, <1>6, <1>7 DEF NextH4, Next, Failures

\* The executor keeps the desk's promises to the account's owner, under a fair lock.
THEOREM DeskIsImplementedH4 == ASSUME Fifo PROVE SpecH4 => ImplementsDesk
<1>1. Init => Desk!Init
  BY DeskInitially
<1>2. TypeOK /\ DeskInv /\ [NextH4]_vars => [Desk!Next]_<<Book, Halted>>
  BY DeskNext
<1> QED
  BY <1>1, <1>2, DeskInvHolds, PTL DEF SpecH4, ImplementsDesk, Desk!Spec, Desk!deskVars

\* The same without 4h strategies.
THEOREM DeskIsImplemented == ASSUME Fifo PROVE Spec => ImplementsDesk
BY DeskIsImplementedH4, SpecIsSpecH4, PTL

=============================================================================
