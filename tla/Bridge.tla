------------------------------- MODULE Bridge -------------------------------
(***************************************************************************)
(* The MT5 terminal behind the bridge server (docker/mt5/bridge/server.py) *)
(* as the executor's client (modules/broker/client.py) sees it: the open   *)
(* positions of the account, the order-path requests the bridge has read   *)
(* but not yet carried out, and the answer on its way to the client.       *)
(*                                                                         *)
(* A request outlives the client that sent it.  The server thread that     *)
(* read the line carries it out when it gets the bridge's lock, whether or *)
(* not the client still waits: a timeout or a dead client only clears      *)
(* "waiting".  Read-only requests (positions, account, tick) are not kept  *)
(* in the inbox; they are answered within the executor's own step, when    *)
(* BridgeReadable says the lock can be had.                                *)
(***************************************************************************)
EXTENDS Naturals

CONSTANTS
    Strategies,   \* the strategies, each with its own magic number
    Sessions,     \* the sessions (New York dates, numbered) a leg can belong to
    Levels,       \* the prices a stop-loss can be at, coarsely
    Fifo          \* TRUE when waiting requests get the bridge's lock in order

ASSUME BridgeAssumption ==
    /\ Sessions \subseteq Nat
    /\ Levels \subseteq Nat
    /\ Fifo \in BOOLEAN

VARIABLES
    positions,    \* open positions carrying a strategy's magic number
    inbox,        \* order-path requests read and not yet carried out
    reply         \* the answer to the request the client waits on

bridgeVars == <<positions, inbox, reply>>

Position ==
    [ticket : Nat, strat : Strategies, session : Sessions, volume : Nat, sl : Levels]

\* pos: the position an order asks for, a close ends, or a stop is moved to.
Request == [op : {"order", "close", "modify"}, pos : Position, waiting : BOOLEAN]

PositionsOf(s) == {p \in positions : p.strat = s}

BridgeTypeOK ==
    /\ positions \subseteq Position
    /\ inbox \subseteq Request
    /\ reply \in {"none", "done", "error"}

BridgeInit ==
    /\ positions = {}
    /\ inbox = {}
    /\ reply = "none"

-----------------------------------------------------------------------------
\* The client's side.

\* The lock is free for a read: with a fair lock every earlier request is done.
BridgeReadable == Fifo => inbox = {}

Send(op, pos) == inbox' = inbox \cup {[op |-> op, pos |-> pos, waiting |-> TRUE]}

\* The client stops waiting; what it sent stays at the bridge.
HangUp ==
    /\ inbox' = {[r EXCEPT !.waiting = FALSE] : r \in inbox}
    /\ reply' = "none"

-----------------------------------------------------------------------------
\* The server's side.

\* Mutant: an answer nobody waits on is kept for whoever asks next.
AnswerToAnyone(r, a) ==
    /\ inbox' = inbox \ {r}
    /\ reply' = IF r.waiting THEN a ELSE "late"

Answer(r, a) ==
    /\ inbox' = inbox \ {r}
    /\ reply' = IF r.waiting THEN a ELSE reply

\* op_order_market: the order fills.
FillOrder(r) ==
    /\ r.op = "order"
    /\ positions' = positions \cup {r.pos}
    /\ Answer(r, "done")

\* op_close_position: the position named by its ticket is closed in full ...
ClosePosition(r) ==
    /\ r.op = "close"
    /\ \E p \in positions :
        /\ p.ticket = r.pos.ticket
        /\ positions' = positions \ {p}
    /\ Answer(r, "done")

\* Mutant: the raise-only check is gone.
StopMovesAnywhere(r) ==
    /\ r.op = "modify"
    /\ \E p \in positions :
        /\ p.ticket = r.pos.ticket
        /\ positions' = (positions \ {p}) \cup {[p EXCEPT !.sl = r.pos.sl]}
    /\ Answer(r, "done")

\* op_modify_sl: a position's stop moves in the protective direction ...
MoveStop(r) ==
    /\ r.op = "modify"
    /\ \E p \in positions :
        /\ p.ticket = r.pos.ticket
        /\ r.pos.sl > p.sl
        /\ positions' = (positions \ {p}) \cup {[p EXCEPT !.sl = r.pos.sl]}
    /\ Answer(r, "done")

\* ... and in no other.
KeepStop(r) ==
    /\ r.op = "modify"
    /\ \E p \in positions : p.ticket = r.pos.ticket /\ r.pos.sl <= p.sl
    /\ Answer(r, "error")
    /\ UNCHANGED positions

\* The position a close or a modify names is no longer there.
PositionGone(r) ==
    /\ r.op \in {"close", "modify"}
    /\ \A p \in positions : p.ticket # r.pos.ticket
    /\ Answer(r, "error")
    /\ UNCHANGED positions

\* The terminal rejects the request, or the request is lost before the terminal.
Refuse(r) ==
    /\ Answer(r, "error")
    /\ UNCHANGED positions

\* The broker's stop takes the position, or a person closes it by hand.
StopOut(p) ==
    /\ positions' = positions \ {p}
    /\ UNCHANGED <<inbox, reply>>

=============================================================================
