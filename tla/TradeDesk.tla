----------------------------- MODULE TradeDesk -----------------------------
(***************************************************************************)
(* What the executor promises the person whose account it trades: each     *)
(* strategy holds one position at most, a strategy its kill rule has       *)
(* halted buys nothing, and only a person ends the halt.  Legs, ticks,     *)
(* requests, faults and restarts have no place here.                       *)
(***************************************************************************)
CONSTANT Strategies

VARIABLES
    book,     \* the tickets of each strategy's positions
    halted    \* whether the strategy's kill rule has halted it

deskVars == <<book, halted>>

Init ==
    /\ book = [s \in Strategies |-> {}]
    /\ halted = [s \in Strategies |-> FALSE]

Buy(s) ==
    /\ book[s] = {}
    /\ ~halted[s]
    /\ \E ticket \in book'[s] : book' = [book EXCEPT ![s] = {ticket}]
    /\ UNCHANGED halted

\* By its own leg, by the broker's stop, or by hand.
Leave(s) ==
    /\ book' = [book EXCEPT ![s] = {}]
    /\ UNCHANGED halted

Halt(s) ==
    /\ halted' = [halted EXCEPT ![s] = TRUE]
    /\ UNCHANGED book

Resume(s) ==
    /\ halted' = [halted EXCEPT ![s] = FALSE]
    /\ UNCHANGED book

Next == \E s \in Strategies : Buy(s) \/ Leave(s) \/ Halt(s) \/ Resume(s)

Spec == Init /\ [][Next]_deskVars

=============================================================================
