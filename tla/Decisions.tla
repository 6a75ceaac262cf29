----------------------------- MODULE Decisions -----------------------------
(***************************************************************************)
(* The recorded opportunities of one underlying: decisions_update_job and  *)
(* POST /decisions/record run record_decisions_job in two processes, the   *)
(* bars job rewrites the last days of the daily bars, and the operator     *)
(* rescores a setup (modules/gex/jobs/decisions.py, rescore.py, bars.py).  *)
(*                                                                         *)
(* A row is decided on a day and scored from the stored bars of later      *)
(* days.  A bar is "quiet" or it "hits" the row's levels; the arithmetic   *)
(* of a score, and a row's expiry, are in Outcomes.  What the engine       *)
(* proposes on a snapshot is free, for its code and its inputs change      *)
(* between two runs.  A run proposes on the newest snapshot, of which a    *)
(* day may have several; a key is an opportunity under one filter: the two *)
(* processes may run different ones.                                       *)
(***************************************************************************)
EXTENDS Integers, Sequences, FiniteSets, FiniteSetsExt, SequencesExt

CONSTANTS
    Opportunities,   \* the opportunities' keys
    Overlap,         \* _OVERLAP_DAYS
    MaxProposed,     \* bound: proposals of one run
    LastSession,     \* bound: days
    MaxSnapshots,    \* bound: snapshots
    MaxRows          \* bound: rows

ASSUME DecisionsAssumption ==
    /\ {Overlap, MaxProposed, LastSession, MaxSnapshots, MaxRows} \subseteq Nat /\ LastSession > 0
    /\ IsFiniteSet(Opportunities)

VARIABLES
    session,     \* the day
    snapshot,    \* the newest snapshot
    daily,       \* daily_bars
    decisions,   \* the table, by id
    recording,   \* record_decisions_job in each process
    tellings,    \* history: how often a row was in a message
    untold,      \* history: rows whose run could not tell them: its read failed, or it died
    shared       \* history: rows inserted while another run could still read them back

toldVars == <<tellings, untold, shared>>
decisionsVars == <<session, snapshot, daily, decisions, recording, toldVars>>

Recorders == {"nightly", "manual"}
DayBars == {"none", "quiet", "hit"}
Days == 1 .. LastSession
Scored == 2 .. LastSession  \* no row is scored on the first day's bar
Ids == DOMAIN decisions

\* mine, as untold and shared, are of the rows worth a message, a trade.
NotRecording == [at |-> "idle", mark |-> 0, unseen |-> {}, mine |-> {}, fresh |-> {}, todo |-> <<>>,
                 verdict |-> "none", alone |-> TRUE]

DecisionsTypeOK ==
    /\ session \in Days
    /\ snapshot \in [id : Nat, day : Days]
    /\ daily \in [Scored -> DayBars]
    /\ \A i \in Ids : decisions[i] \in [snapshot : Nat, day : Days, key : Opportunities,
                                        says : {"trade", "reject"}, outcome : {"pending", "hit"}]
    /\ Len(tellings) = Len(decisions) /\ untold \subseteq Ids /\ shared \subseteq Ids

DecisionsInit ==
    /\ session = 1
    /\ snapshot = [id |-> 1, day |-> 1]
    /\ daily = [d \in Scored |-> "none"]
    /\ decisions = <<>> /\ tellings = <<>>
    /\ untold = {} /\ shared = {}
    /\ recording = [r \in Recorders |-> NotRecording]

-----------------------------------------------------------------------------
\* The daily bars.

DayEnds ==
    /\ session < LastSession
    /\ session' = session + 1
    /\ UNCHANGED <<snapshot, daily, decisions, recording, toldVars>>

\* A capture is committed: the first of its day, or one more.
Captured ==
    /\ snapshot.id < MaxSnapshots
    /\ snapshot' = [id |-> snapshot.id + 1, day |-> session]
    /\ UNCHANGED <<session, daily, decisions, recording, toldVars>>

Newest == Max({d \in Scored : daily[d] # "none"} \cup {0})

\* update_one_symbol: from some days before the newest stored bar, or everything; what the vendor
\* serves overwrites what is stored.  It may have corrected a bar, and a day it leaves null is
\* skipped.
BarsUpdate ==
    /\ \E served \in SUBSET {d \in Scored : Newest - Overlap <= d /\ d <= session} :
       \E bar \in [served -> {"quiet", "hit"}] :
          daily' = [d \in Scored |-> IF d \in served THEN bar[d] ELSE daily[d]]
    /\ UNCHANGED <<session, snapshot, decisions, recording, toldVars>>

-----------------------------------------------------------------------------
\* evaluate, from the stored bars after the decision's day.
StoredDays(day, bars) == {d \in Scored : d > day /\ bars[d] # "none"}
ScoreOf(day, bars) == IF \E d \in StoredDays(day, bars) : bars[d] = "hit" THEN "hit" ELSE "pending"

\* decide_build: what is proposed on the newest snapshot, with its levels, and whether to trade it.
Proposals == [snapshot : {snapshot.id}, day : {snapshot.day}, key : Opportunities,
              says : {"trade", "reject"}, outcome : {"pending"}]
SameKey(a, b) == a.snapshot = b.snapshot /\ a.key = b.key

Unseen(proposed) == {p \in proposed : \A i \in Ids : ~SameKey(p, decisions[i])}

\* Another run or a rescore writes scores beside this run.
Disturbed(r) == IF recording[r].at = "idle" THEN recording[r] ELSE [recording[r] EXCEPT !.alone = FALSE]

\* A run begins: latest_id, then record_decisions up to its commit: the rows whose snapshot, filter
\* and key are not stored.  Another run under way shares the table with it from here.
RunBegins(r) ==
    /\ recording[r].at = "idle"
    /\ \E proposed \in SUBSET Proposals :
          /\ Cardinality(proposed) <= MaxProposed
          /\ \A a, b \in proposed : a # b => ~SameKey(a, b)
          /\ recording' = [q \in Recorders |->
                IF q # r THEN Disturbed(q)
                ELSE [NotRecording EXCEPT
                        !.at = "insert", !.mark = Len(decisions), !.unseen = Unseen(proposed),
                        !.alone = \A p \in Recorders : recording[p].at = "idle"]]
    /\ UNCHANGED <<session, snapshot, daily, decisions, toldVars>>

\* A plausible bug: a row that is there is overwritten.
RunUpserts(r) ==
    LET run == recording[r]
        new == {p \in run.unseen : \A i \in Ids : ~SameKey(p, decisions[i])} IN
    /\ run.at = "insert" /\ Len(decisions) + Cardinality(new) <= MaxRows
    /\ decisions' = [i \in Ids |-> IF \E p \in run.unseen : SameKey(p, decisions[i])
                                    THEN CHOOSE p \in run.unseen : SameKey(p, decisions[i])
                                    ELSE decisions[i]] \o SetToSeq(new)
    /\ tellings' = tellings \o [i \in 1 .. Cardinality(new) |-> 0]
    /\ recording' = [recording EXCEPT ![r].unseen = {}, ![r].at = "read"]
    /\ UNCHANGED <<session, snapshot, daily, untold, shared>>

\* Between its watermark and its read, a run takes every new row for its own.
TakesForItsOwn(r) == recording[r].at \in {"insert", "read"}

\* The commit: one row that another run has inserted since fails them all.
RunInserts(r) ==
    LET run == recording[r]
        added == IF \E p \in run.unseen : \E i \in Ids : SameKey(p, decisions[i])
                 THEN {} ELSE run.unseen
        worth == {i \in DOMAIN decisions' \ Ids : decisions'[i].says = "trade"}
    IN
    /\ run.at = "insert" /\ Len(decisions) + Cardinality(added) <= MaxRows
    /\ decisions' = decisions \o SetToSeq(added)
    /\ tellings' = tellings \o [i \in 1 .. Cardinality(added) |-> 0]
    /\ recording' = [recording EXCEPT ![r].unseen = {}, ![r].mine = worth,
                            ![r].at = IF added = {} THEN "tell" ELSE "read"]
    /\ shared' = IF \E q \in Recorders \ {r} : TakesForItsOwn(q)
                 THEN shared \cup worth ELSE shared
    /\ UNCHANGED <<session, snapshot, daily, untold>>

\* A plausible bug: what is still open is told, not what was inserted.
ReadBackOpen(mark) == {i \in Ids : decisions[i].outcome = "pending"}

\* inserted_after the watermark.
ReadBack(mark) == {i \in Ids : i > mark}

\* A read that fails leaves the run with nothing to tell.
RunReads(r) ==
    /\ recording[r].at = "read"
    /\ \/ /\ recording' = [recording EXCEPT ![r].at = "tell", ![r].mark = 0,
                                             ![r].fresh = ReadBack(recording[r].mark)]
          /\ UNCHANGED untold
       \/ /\ recording' = [recording EXCEPT ![r].at = "tell", ![r].mark = 0, ![r].mine = {}]
          /\ untold' = untold \cup recording[r].mine
    /\ UNCHANGED <<session, snapshot, daily, decisions, tellings, shared>>

\* unresolved: the rows the evaluator has more to say about.
Unresolved == {i \in Ids : decisions[i].outcome = "pending"}

\* _alert: one message, of the rows that are worth one; then the rows to score are listed.
RunTells(r) ==
    /\ recording[r].at = "tell"
    /\ tellings' = [i \in Ids |-> IF i \in recording[r].fresh /\ decisions[i].says = "trade"
                                  THEN tellings[i] + 1 ELSE tellings[i]]
    /\ recording' = [recording EXCEPT ![r].fresh = {}, ![r].mine = {},
                            ![r].todo = SetToSeq(Unresolved), ![r].at = "score"]
    /\ UNCHANGED <<session, snapshot, daily, decisions, untold, shared>>

\* Row by row: the bars are read and judged, and the score is written in a transaction of its own,
\* whatever the row says by then.
RunJudges(r) ==
    /\ recording[r].at = "score" /\ recording[r].todo # <<>> /\ recording[r].verdict = "none"
    /\ recording' = [recording EXCEPT ![r].verdict = ScoreOf(decisions[Head(recording[r].todo)].day, daily)]
    /\ UNCHANGED <<session, snapshot, daily, decisions, toldVars>>

RunScores(r) ==
    /\ recording[r].verdict # "none"
    /\ decisions' = [decisions EXCEPT ![Head(recording[r].todo)].outcome = recording[r].verdict]
    /\ recording' = [recording EXCEPT ![r].todo = Tail(@), ![r].verdict = "none"]
    /\ UNCHANGED <<session, snapshot, daily, toldVars>>

\* The run is over, or its process died, or its list of rows could not be read.
RunEnds(r) ==
    /\ recording[r].at # "idle"
    /\ recording' = [recording EXCEPT ![r] = NotRecording]
    /\ untold' = untold \cup recording[r].mine
    /\ UNCHANGED <<session, snapshot, daily, decisions, tellings, shared>>

\* rescore --apply, row by row: every row whose score differs, a pending one only if it resolves.
Rescore ==
    /\ \E i \in Ids :
          LET verdict == ScoreOf(decisions[i].day, daily) IN
          /\ verdict # decisions[i].outcome
          /\ decisions' = [decisions EXCEPT ![i].outcome = verdict]
          /\ recording' = [r \in Recorders |-> Disturbed(r)]
    /\ UNCHANGED <<session, snapshot, daily, toldVars>>

DecisionsNext ==
    \/ DayEnds \/ Captured \/ BarsUpdate \/ Rescore
    \/ \E r \in Recorders :
          \/ RunBegins(r) \/ RunInserts(r) \/ RunReads(r) \/ RunTells(r)
          \/ RunJudges(r) \/ RunScores(r) \/ RunEnds(r)

DecisionsSpec == DecisionsInit /\ [][DecisionsNext]_decisionsVars

-----------------------------------------------------------------------------
\* Properties.

\* "A recorded level is a commitment the track record scores": a row keeps what it says whatever
\* a later run proposes, there is one per snapshot and key though two runs insert side by side,
\* and its score, once resolved, is rewritten only by a rescore or by a run that did not have the
\* table to itself.
CommitmentsStand ==
    [][/\ \A i, j \in DOMAIN decisions' : i # j => ~SameKey(decisions'[i], decisions'[j])
       /\ \A i \in Ids :
            /\ [decisions'[i] EXCEPT !.outcome = "pending"] = [decisions[i] EXCEPT !.outcome = "pending"]
            /\ decisions[i].outcome \in {"pending", decisions'[i].outcome}
                  \/ Rescore
                  \/ \E r \in Recorders : recording'[r] # recording[r] /\ ~recording[r].alone]_decisionsVars

\* A day's opportunity is recorded once: not so, for the key is of the snapshot, and a run by hand
\* after a later capture of the day records it again, with other levels.
OneADay ==
    \A i, j \in Ids : i # j => decisions[i].day # decisions[j].day \/ decisions[i].key # decisions[j].key

OnItsWay(i) == \E r \in Recorders : i \in recording[r].mine

\* Every row that is worth a message has been in one, or its run is still on its way there, or it
\* is one of those whose run could not read them back or died before it told them.  No row is
\* told twice but those inserted while another run had its watermark below them, and none more
\* often than there are processes.
InsertedAreTold ==
    \A i \in Ids : decisions[i].says = "trade" =>
        /\ tellings[i] > 0 \/ OnItsWay(i) \/ i \in untold
        /\ tellings[i] <= IF i \in shared THEN Cardinality(Recorders) ELSE 1

\* "The rows above its own watermark are exactly the ones its run inserted"
\* (decisions_repository.py:256), so that each goes out as one message (decisions.py:12): not so.
\* The route's process writes the table too, and a read that fails is not made again.
ToldExactlyOnce ==
    \A i \in Ids : decisions[i].says = "trade" =>
        tellings[i] = 1 \/ (tellings[i] = 0 /\ OnItsWay(i))
=============================================================================
