------------------------------- MODULE Stream -------------------------------
(***************************************************************************)
(* The live channel of the dashboard: LevelsBroker (modules/gex/events.py) *)
(* in the API process, one bounded queue per open tab (api/stream.py), and *)
(* the tab that fetches again when an event arrives (useLiveLevels.ts).    *)
(* An event is a nudge: it names the snapshot whose levels were stored.    *)
(***************************************************************************)
EXTENDS Integers, Sequences

CONSTANTS
    Tabs,        \* the tabs a browser may have open
    QueueMax     \* events a subscriber's queue holds (_QUEUE_MAXSIZE)

ASSUME StreamAssumption == QueueMax \in Nat \ {0}

VARIABLES
    queue,       \* each subscribed tab's queue
    view         \* the newest snapshot each tab has seen the levels of

streamVars == <<queue, view>>

\* A tab without a subscription has no queue.
Subscribed == DOMAIN queue

StreamTypeOK ==
    /\ Subscribed \subseteq Tabs
    /\ \A t \in Subscribed : queue[t] \in Seq(Nat) /\ Len(queue[t]) <= QueueMax
    /\ view \in [Tabs -> Nat]

StreamInit ==
    /\ queue = [t \in {} |-> <<>>]
    /\ view = [t \in Tabs |-> 0]

\* Mutant: a slow subscriber's queue grows.
PushAlways(q, event) == Append(q, event)

\* A full queue loses its oldest event, and publish never waits.
Push(q, event) == Append(IF Len(q) = QueueMax THEN Tail(q) ELSE q, event)

Deliver(event) ==
    /\ queue' = [t \in Subscribed |-> Push(queue[t], event)]
    /\ UNCHANGED view

\* A tab opens the stream as it loads the page.
Subscribe(newest) ==
    \E t \in Tabs \ Subscribed :
        /\ queue' = [u \in Subscribed \cup {t} |-> IF u = t THEN <<>> ELSE queue[u]]
        /\ view' = [view EXCEPT ![t] = newest]

Unsubscribe ==
    \E t \in Subscribed :
        /\ queue' = [u \in Subscribed \ {t} |-> queue[u]]
        /\ UNCHANGED view

\* An event reaches the tab, which invalidates its queries and fetches again.
Refetch(newest) ==
    \E t \in Subscribed :
        /\ queue[t] # <<>>
        /\ queue' = [queue EXCEPT ![t] = Tail(@)]
        /\ view' = [view EXCEPT ![t] = newest]

\* The API process ends, and every connection with it.
DropAll ==
    /\ queue' = [t \in {} |-> <<>>]
    /\ UNCHANGED view

=============================================================================
