---------------------------- MODULE ExecutorDesk ----------------------------
(***************************************************************************)
(* The executor keeps the desk's promises (TradeDesk) when waiting         *)
(* requests get the bridge's lock in order (Fifo), whatever fails and      *)
(* wherever a restart falls; and the invariant that shows why.             *)
(***************************************************************************)
EXTENDS ExecutorH4

-----------------------------------------------------------------------------
\* At most one request is at the bridge: the executor reads through the same lock
\* before it sends, so a late request is done before the next one is sent.
OneRequest == \A r, q \in inbox : r = q

\* An order is at the bridge only while its strategy has no position.
OrderWhenFlat == \A r \in inbox : r.op = "order" => PositionsOf(r.pos.strat) = {}

\* Only the step that waits on a request can find one waiting, or an answer.
WaitingPlaces == {"ordering", "closing", "trailing"}

OnlyWaitersWait == \A r \in inbox : r.waiting => pc \in WaitingPlaces

AnswerIsAwaited == reply # "none" => inbox = {} /\ pc \in WaitingPlaces

\* A kill rule is looked at only when nothing is at the bridge ...
KillChecks == {"kill", "stopped"}

KillWhenDone == pc \in KillChecks => inbox = {}

\* ... and stops the orders that come after it.
NotKilledWhenOpening ==
    /\ pc = "opening" => paused[cur.strat] # "kill"
    /\ \A r \in inbox : r.op = "order" => paused[r.pos.strat] # "kill"

DeskInv ==
    /\ OnePosition
    /\ OneRequest
    /\ OrderWhenFlat
    /\ OnlyWaitersWait
    /\ AnswerIsAwaited
    /\ KillWhenDone
    /\ NotKilledWhenOpening

-----------------------------------------------------------------------------
\* The tickets each strategy holds, and whether its kill rule has halted it.
Book == [s \in Strategies |-> {p.ticket : p \in PositionsOf(s)}]

Halted == [s \in Strategies |-> paused[s] = "kill"]

Desk == INSTANCE TradeDesk WITH book <- Book, halted <- Halted

\* The executor implements the desk: no second position of a strategy, no purchase by
\* a strategy its kill rule has halted, and no end of a halt but by a person.
ImplementsDesk == Desk!Spec

=============================================================================
