---------------------------- MODULE LevelEvents ----------------------------
(***************************************************************************)
(* The jobs of the level events (modules/gex/jobs/level_events.py).  After *)
(* every poll of the bars, record_level_events stores the events of today  *)
(* that it has not stored yet, marks the ones to alert in the same commit, *)
(* and sends their messages after it; after the close, score_level_events  *)
(* writes one score per event.                                             *)
(*                                                                         *)
(* What the rules find (LevelRules) is any set of events on closed bars    *)
(* the symbol has: a bar or a capture that arrives late may change it.     *)
(* Time is counted in bars of one session; Family maps a symbol to the     *)
(* instrument it is traded through.  The polls of two symbols come in any  *)
(* order, and a poll may be missed.                                        *)
(***************************************************************************)
EXTENDS Integers, Sequences, FiniteSets

CONSTANTS
    Symbols,         \* SYMBOLS, in their order: a sequence
    FamilyOf(_),     \* CFD_OF, or the symbol itself
    Unmapped,        \* the symbols that CFD_OF does not have
    Blockers(_),     \* the families whose alert suppresses a family's
    Fresh,           \* ALERT_FRESH
    Gap,             \* FAMILY_GAP
    EntryFrom, EntryTo,  \* ENTRY_WINDOW
    Wait,            \* PATH_WAIT
    LastBar,         \* bound: the bars of the session
    MaxTime,         \* bound: where the clock stops, after the close
    MaxEvents,       \* bound: events of the session
    MaxJobCrashes       \* bound

ASSUME LevelEventsAssumption ==
    {Fresh, Gap, EntryFrom, EntryTo, Wait, LastBar, MaxTime, MaxEvents, MaxJobCrashes} \subseteq Nat /\ MaxTime > 0

VARIABLES
    openBar,     \* the bar that is open; the ones before it have closed
    polled,   \* when a symbol's bars were last polled: it has the bars up to the one open then
    minutes,  \* the CFDs that have their minutes from the entry to the close
    rows,     \* gex.level_events: event to [alerted, recorded], recorded_at as the run's number
    alertsDue,      \* the messages of the run under way
    alertsTold,     \* history: the events somebody was told of
    scores,   \* gex.level_event_scores: event to what the score was computed from
    jobCrashes

levelVars == <<openBar, polled, minutes, rows, alertsDue, alertsTold, scores, jobCrashes>>

Names == {Symbols[i] : i \in 1 .. Len(Symbols)}
OrderOf(symbol) == CHOOSE i \in 1 .. Len(Symbols) : Symbols[i] = symbol
Events == [symbol : Names, bar : 1 .. LastBar]
EntryOf(e) == e.bar + 1
Cfds == {FamilyOf(s) : s \in Names \ Unmapped}
Stored == DOMAIN rows

\* What a score says of the path, or that it is not written yet.
Paths == {"measured", "no CFD", "no history", "incomplete"}

LevelEventsTypeOK ==
    /\ openBar \in 1 .. MaxTime
    /\ polled \in [Names -> 0 .. MaxTime]
    /\ minutes \subseteq Cfds
    /\ Stored \subseteq Events /\ rows \in [Stored -> [alerted : BOOLEAN, recorded : 1 .. MaxEvents]]
    /\ alertsDue \subseteq Events /\ alertsTold \subseteq Events
    /\ scores \in [DOMAIN scores -> [whole : BOOLEAN, path : Paths]]
    /\ DOMAIN scores \subseteq Stored
    /\ jobCrashes \in 0 .. MaxJobCrashes

LevelEventsInit ==
    /\ openBar = 1
    /\ polled = [s \in Names |-> 0] /\ minutes = {}
    /\ rows = << >> /\ alertsDue = {} /\ alertsTold = {} /\ scores = << >>
    /\ jobCrashes = 0

-----------------------------------------------------------------------------
InWindow(e) == EntryFrom <= EntryOf(e) /\ EntryOf(e) <= EntryTo

\* By entry, and at the same entry in the order of SYMBOLS.
Precedes(a, b) ==
    \/ EntryOf(a) < EntryOf(b)
    \/ EntryOf(a) = EntryOf(b) /\ OrderOf(a.symbol) < OrderOf(b.symbol)

\* Entered within the window after an alert of a family that blocks it.
Blocked(e, sent) ==
    \E s \in sent :
        /\ FamilyOf(s.symbol) \in Blockers(FamilyOf(e.symbol))
        /\ 0 <= EntryOf(e) - EntryOf(s) /\ EntryOf(e) - EntryOf(s) < Gap

Sendable(e) == openBar - EntryOf(e) <= Fresh /\ InWindow(e)

\* A plausible bug: the alerts of earlier runs are not looked at.
SelectsAlone(chosen, new, sent) ==
    \A e \in new : e \in chosen <=> Sendable(e) /\ ~Blocked(e, {s \in chosen : Precedes(s, e)})

\* select_alerts: in order, an event is sent unless one sent before blocks it.
Selects(chosen, new, sent) ==
    \A e \in new :
        e \in chosen <=> Sendable(e) /\ ~Blocked(e, sent \cup {s \in chosen : Precedes(s, e)})

\* What the rules may find now: events on stored bars whose time is over.  The bar that was open at
\* the last poll is stored as it was then, until the next poll settles it.
Findable == {e \in Events : e.bar <= polled[e.symbol] /\ e.bar < openBar}
Settled(e) == e.bar < polled[e.symbol]

NewOf(found) == found \ Stored

\* The number of the run whose rows are stored next.
IsNextRun(run) ==
    /\ \A e \in Stored : rows[e].recorded < run
    /\ run > 1 => \E e \in Stored : rows[e].recorded = run - 1

\* record_level_events, up to the commit; a run that fails stores and sends nothing.
Record ==
    /\ alertsDue = {}
    /\ \E found \in SUBSET Findable : \E chosen \in SUBSET NewOf(found), run \in 1 .. MaxEvents :
          LET new == NewOf(found) IN
          /\ new # {} /\ Cardinality(Stored \cup new) <= MaxEvents
          /\ Selects(chosen, new, {e \in Stored : rows[e].alerted}) /\ IsNextRun(run)
          /\ rows' = [e \in Stored \cup new |->
                         IF e \in Stored THEN rows[e] ELSE [alerted |-> e \in chosen, recorded |-> run]]
          /\ alertsDue' = chosen
    /\ UNCHANGED <<openBar, polled, minutes, alertsTold, scores, jobCrashes>>

\* A plausible bug: a message that was sent stays due.
SendsAgain ==
    /\ \E e \in alertsDue : alertsTold' = alertsTold \cup {e} /\ alertsDue' \in {alertsDue, {}}
    /\ UNCHANGED <<openBar, polled, minutes, rows, scores, jobCrashes>>

\* The messages go out one by one.
Send ==
    /\ \E e \in alertsDue : alertsTold' = alertsTold \cup {e} /\ alertsDue' = alertsDue \ {e}
    /\ UNCHANGED <<openBar, polled, minutes, rows, scores, jobCrashes>>

Crash ==
    /\ alertsDue # {}
    /\ jobCrashes < MaxJobCrashes
    /\ jobCrashes' = jobCrashes + 1
    /\ alertsDue' = {}
    /\ UNCHANGED <<openBar, polled, minutes, rows, alertsTold, scores>>

-----------------------------------------------------------------------------
Close == LastBar + 1

\* A plausible bug: the path is not waited for.
MeasuresAnyway(e, history) ==
    CASE e.symbol \in Unmapped -> "no CFD"
      [] FamilyOf(e.symbol) \notin minutes -> "incomplete"
      [] OTHER -> IF FamilyOf(e.symbol) \in history THEN "measured" ELSE "no history"

\* _path_fields: a symbol without a CFD has no path, the CFD's minutes to the close are waited for
\* up to a limit, and without minutes of earlier sessions there is no unit to measure them in.
PathOf(e, history) ==
    CASE e.symbol \in Unmapped -> "no CFD"
      [] e.symbol \notin Unmapped /\ FamilyOf(e.symbol) \notin minutes ->
            IF openBar - Close < Wait THEN "not yet" ELSE "incomplete"
      [] OTHER -> IF FamilyOf(e.symbol) \in history THEN "measured" ELSE "no history"

\* score_level_events: the stored events without a score, once the session is over; one whose
\* scoring raises is left for the next run.  history: the CFDs with minutes of earlier sessions.
Score ==
    LET ready == {e \in Stored \ DOMAIN scores : openBar >= Close + 1 /\ PathOf(e, {}) # "not yet"} IN
    /\ alertsDue = {}
    /\ \E written \in SUBSET ready, history \in SUBSET Cfds :
          /\ written # {}
          /\ scores' = [e \in DOMAIN scores \cup written |->
                           IF e \in written THEN [whole |-> polled[e.symbol] > LastBar, path |-> PathOf(e, history)]
                           ELSE scores[e]]
    /\ UNCHANGED <<openBar, polled, minutes, rows, alertsDue, alertsTold, jobCrashes>>

-----------------------------------------------------------------------------
\* The poll of a symbol's bars answers with the session so far, the forming bar included.
BarsPolled ==
    /\ alertsDue = {}
    /\ \E s \in Names : polled[s] < openBar /\ openBar <= Close /\ polled' = [polled EXCEPT ![s] = openBar]
    /\ UNCHANGED <<openBar, minutes, rows, alertsDue, alertsTold, scores, jobCrashes>>

\* A CFD's minutes from the entries to the close are stored by another worker.
MinutesArrive ==
    /\ openBar > LastBar
    /\ \E f \in Cfds \ minutes : minutes' = minutes \cup {f}
    /\ UNCHANGED <<openBar, polled, rows, alertsDue, alertsTold, scores, jobCrashes>>

BarPasses ==
    /\ alertsDue = {}
    /\ openBar < MaxTime
    /\ openBar' = openBar + 1
    /\ UNCHANGED <<polled, minutes, rows, alertsDue, alertsTold, scores, jobCrashes>>

LevelEventsNext == Record \/ Send \/ Crash \/ Score \/ BarsPolled \/ MinutesArrive \/ BarPasses

LevelEventsSpec == LevelEventsInit /\ [][LevelEventsNext]_levelVars

-----------------------------------------------------------------------------
\* Properties.

\* Stored before told, never rewritten, told at most once, whatever crashes: implements TellOnce.
Once == INSTANCE TellOnce WITH Events <- Events, known <- Stored, due <- alertsDue, told <- alertsTold
EventsToldOnce == Once!Spec

\* A position per family: an alert that follows another of a family that blocks it, in the market
\* and in the store, is at least the gap away, over runs and crashes.
AlertsKeepApart ==
    \A a, b \in Stored :
        (/\ rows[a].alerted /\ rows[b].alerted /\ Precedes(a, b)
         /\ rows[a].recorded <= rows[b].recorded
         /\ FamilyOf(a.symbol) \in Blockers(FamilyOf(b.symbol)))
            => EntryOf(b) - EntryOf(a) >= Gap

\* "One alert per index family and key within this window" (level_events.py:113).
OneAlertPerWindow ==
    \A a, b \in Stored :
        (/\ a # b /\ rows[a].alerted /\ rows[b].alerted
         /\ FamilyOf(a.symbol) = FamilyOf(b.symbol) /\ EntryOf(a) <= EntryOf(b))
            => EntryOf(b) - EntryOf(a) >= Gap

\* A score is final and written once.  It says that the path is incomplete only if the minutes of
\* the symbol's CFD were waited for in vain, and that it is measured, or not for want of earlier
\* sessions, only of a path with its minutes; only a symbol without a CFD is not waited for.
ScoresWaitForPath ==
    [][\A e \in DOMAIN scores' :
          IF e \in DOMAIN scores THEN scores'[e] = scores[e]
          ELSE CASE scores'[e].path = "no CFD" -> e.symbol \in Unmapped
                 [] scores'[e].path = "incomplete" -> openBar >= Close + Wait /\ FamilyOf(e.symbol) \notin minutes
                 [] OTHER -> FamilyOf(e.symbol) \in minutes]_levelVars

\* "The close return is from the session's last bar, so it is only final once the session is"
\* (scan/level_events.py:308): the score is final, so it was computed from the whole session.
ScoreHasSession == \A e \in DOMAIN scores : scores[e].whole

\* "Detect today's events from the closed bars so far" (jobs/level_events.py:273): an event that
\* is stored was found on bars as they closed.
EventsOnSettledBars == [][\A e \in Stored' \ Stored : Settled(e)]_levelVars
=============================================================================
