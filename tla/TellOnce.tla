------------------------------ MODULE TellOnce ------------------------------
(***************************************************************************)
(* What the desk's two alert jobs promise of an event: it is stored before *)
(* anybody is told, what is stored is never rewritten, and an event is     *)
(* told at most once, whatever restarts in between.  An event whose        *)
(* message was due when the process died is never told: the price of       *)
(* telling nothing twice.                                                  *)
(***************************************************************************)
CONSTANT Events

VARIABLES
    known,  \* the events stored
    due,    \* the events whose message is being sent
    told    \* the events somebody was told of

vars == <<known, due, told>>

Init == known = {} /\ due = {} /\ told = {}

\* A run stores what it has not stored before and picks what to tell among that.
Learn ==
    /\ due = {}
    /\ known \subseteq known' /\ known' \subseteq Events
    /\ due' \subseteq known' \ known
    /\ UNCHANGED told

Tell ==
    /\ due' \subseteq due
    /\ told' = told \cup (due \ due')
    /\ UNCHANGED known

Forget == due' = {} /\ UNCHANGED <<known, told>>

Next == Learn \/ Tell \/ Forget

Spec == Init /\ [][Next]_vars
=============================================================================
