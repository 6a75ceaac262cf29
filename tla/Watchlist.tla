----------------------------- MODULE Watchlist -----------------------------
(***************************************************************************)
(* The research search: cycles that try combinations, promote the best of  *)
(* them to a watchlist and measure the watchlist on the bars that came     *)
(* after (modules/research/search.py, registry.py, paper.py, nightly.py,   *)
(* jobs/scheduler.py).                                                     *)
(*                                                                         *)
(* The worker's cycle and one run by hand may be under way together, each  *)
(* in a transaction of its own: it reads what is committed and what it has *)
(* written itself, and inserting a key another has inserted but not        *)
(* committed waits for it (ON CONFLICT DO NOTHING).                        *)
(***************************************************************************)
EXTENDS Integers, FiniteSets, FiniteSetsExt

CONSTANTS
    Cycles,          \* who runs cycles
    Trials,          \* the combinations, by trial_hash
    Migrated,        \* the trials of the SQLite registry
    HypothesisOf,    \* market, strategy, symbol, timeframe and regime of each
    Files,           \* the cached bars, by market, symbol and timeframe
    FileOf,          \* the file a trial is measured on
    Merged,          \* files an update adds to; the others it replaces
    MaxCandidates,   \* paper.max_candidates
    PromotePerCycle, \* paper.promote_per_cycle
    CommitEvery,     \* trials between commits (500)
    LastSearchDay, MaxCycles, MaxCycleFailures  \* bounds

ASSUME WatchlistAssumption ==
    /\ {MaxCandidates, PromotePerCycle, MaxCycles, MaxCycleFailures} \subseteq Nat
    /\ {CommitEvery, LastSearchDay} \subseteq Nat \ {0}
    /\ IsFiniteSet(Cycles) /\ Cycles # {} /\ IsFiniteSet(Trials) /\ Migrated \subseteq Trials
    /\ FileOf \in [Trials -> Files]

VARIABLES
    searchDay,
    files,       \* the newest bar of each file, 0 for none
    trials,      \* research_trials
    watchlist,   \* paper_candidates: the day each was promoted, 0 for not
    scores,      \* paper_scores; days are fwd_days
    cycles,      \* the cycle each process is in
    begun, cycleFailures

searchVars == <<searchDay, files, trials, watchlist, scores, cycles, begun, cycleFailures>>

SearchDays == 1 .. LastSearchDay
NotPromoted == 0

Unread == -1

\* known: the hashes it has read, as seen in the search, as the leaderboard afterwards and as the
\* candidates at last; read: the files it has loaded; it holds what it has written and not committed.
Idle == [at |-> "idle", known |-> {}, done |-> 0, wrote |-> {}, added |-> {}, budget |-> 0,
         taken |-> {}, now |-> 0, read |-> [f \in Files |-> Unread], rows |-> {}]

WatchlistTypeOK ==
    /\ searchDay \in SearchDays /\ files \in [Files -> 0 .. LastSearchDay]
    /\ trials \subseteq Trials
    /\ watchlist \in [Trials -> 0 .. LastSearchDay]
    /\ scores \subseteq [hash : Trials, at : SearchDays, days : 0 .. LastSearchDay, bars : 0 .. LastSearchDay]
    /\ \A p \in Cycles :
          /\ cycles[p].at \in {"idle", "searching", "promoting", "scoring", "loading", "scored"}
          /\ cycles[p].wrote \subseteq Trials /\ cycles[p].added \subseteq Trials

WatchlistInit ==
    /\ searchDay = 1 /\ files = [f \in Files |-> 0]
    /\ trials = Migrated /\ scores = {}
    /\ watchlist = [t \in Trials |-> NotPromoted]
    /\ cycles = [p \in Cycles |-> Idle]
    /\ begun = 0 /\ cycleFailures = 0

-----------------------------------------------------------------------------
Candidates == {t \in Trials : watchlist[t] # NotPromoted}

\* The rows another transaction has inserted and not committed.
HeldTrials(p) == UNION {cycles[q].wrote : q \in Cycles \ {p}}
HeldCandidates(p) == UNION {cycles[q].added : q \in Cycles \ {p}}

Nobodys == <<searchDay, files, begun, cycleFailures>>

SearchDayPasses ==
    /\ searchDay < LastSearchDay /\ searchDay' = searchDay + 1
    /\ UNCHANGED <<files, trials, watchlist, scores, cycles, begun, cycleFailures>>

\* _update_yahoo, _update_ccxt_symbol: one file, written at any time, by a cycle's update_all or by
\* the hourly refresh of the signals.  What is served need not reach as far as what was.
Update(f) ==
    /\ \E upTo \in 1 .. searchDay :
          /\ f \in Merged => upTo > files[f]
          /\ files' = [files EXCEPT ![f] = upTo]
    /\ UNCHANGED <<searchDay, trials, watchlist, scores, cycles, begun, cycleFailures>>

\* run_cycle, or for its report only.
CycleBegins(p) ==
    /\ cycles[p].at = "idle" /\ begun < MaxCycles /\ begun' = begun + 1
    /\ cycles' \in {[cycles EXCEPT ![p] = [Idle EXCEPT !.at = "scoring"]],
                   [cycles EXCEPT ![p] = [Idle EXCEPT !.at = "searching", !.known = trials]]}
    /\ UNCHANGED <<searchDay, files, trials, watchlist, scores, cycleFailures>>

\* A combination that is not in the set of those seen, backtested and recorded; another cycle may
\* have recorded it since the set was read.
Record(p, t) ==
    LET c == cycles[p]
        wrote == c.wrote \cup ({t} \ trials)
        commit == c.done + 1 = CommitEvery
    IN  /\ c.at = "searching" /\ t \notin c.known /\ t \notin HeldTrials(p)
        /\ trials' = IF commit THEN trials \cup wrote ELSE trials
        /\ cycles' = [cycles EXCEPT ![p] =
              [c EXCEPT !.known = @ \cup {t}, !.wrote = IF commit THEN {} ELSE wrote,
                        !.done = IF commit THEN 0 ELSE @ + 1]]
        /\ UNCHANGED <<watchlist, scores, Nobodys>>

LesserOf(a, b) == IF a < b THEN a ELSE b

\* What a cycle may promote, read once.
Budget == LesserOf(PromotePerCycle, MaxCandidates - Cardinality(Candidates))

\* The search commits, and promote reads the leaderboard, the room and the hypotheses taken.
SearchEnds(p) ==
    LET c == cycles[p] IN
    /\ c.at = "searching"
    /\ trials' = trials \cup c.wrote
    /\ cycles' = [cycles EXCEPT ![p] =
          [Idle EXCEPT !.at = "promoting", !.known = trials \cup c.wrote, !.now = searchDay,
                       !.budget = Budget, !.taken = {HypothesisOf[t] : t \in Candidates}]]
    /\ UNCHANGED <<watchlist, scores, Nobodys>>

\* A row of the leaderboard that is no variant of a candidate and passes the noise ceiling, the
\* robustness, walk-forward and correlation gates.  A row another cycle has committed since paper_has
\* looked stays as it is, and counts.
PaperAdd(p, t) ==
    LET c == cycles[p] IN
    /\ c.at = "promoting" /\ c.budget > 0
    /\ t \in c.known /\ HypothesisOf[t] \notin c.taken /\ t \notin HeldCandidates(p)
    /\ cycles' = [cycles EXCEPT ![p] =
          [c EXCEPT !.budget = @ - 1, !.added = @ \cup ({t} \ Candidates), !.taken = @ \cup {HypothesisOf[t]}]]
    /\ UNCHANGED <<trials, watchlist, scores, Nobodys>>

PromoteEnds(p) ==
    LET c == cycles[p] IN
    /\ c.at = "promoting"
    /\ watchlist' = [t \in Trials |-> IF t \in c.added THEN c.now ELSE watchlist[t]]
    /\ cycles' = [cycles EXCEPT ![p] = [Idle EXCEPT !.at = "scoring"]]
    /\ UNCHANGED <<trials, scores, Nobodys>>

\* The bars strictly after the promotion; one alone measures nothing, and so does no file.
ForwardBars(t, upTo) ==
    LET n == Cardinality({d \in SearchDays : watchlist[t] < d /\ d <= upTo})
    IN  IF n >= 2 THEN n ELSE 0

\* forward_stats reads the clock and the candidates.
PaperAll(p) ==
    /\ cycles[p].at = "scoring"
    /\ cycles' = [cycles EXCEPT ![p] = [Idle EXCEPT !.at = "loading", !.known = Candidates, !.now = searchDay]]
    /\ UNCHANGED <<trials, watchlist, scores, Nobodys>>

\* load_ohlcv: the file as it is when its first candidate is measured, for all of them.
Load(p, f) ==
    LET c == cycles[p] IN
    /\ c.at = "loading" /\ c.read[f] = Unread /\ \E t \in c.known : FileOf[t] = f
    /\ cycles' = [cycles EXCEPT ![p] = [c EXCEPT !.read[f] = files[f]]]
    /\ UNCHANGED <<trials, watchlist, scores, Nobodys>>

\* A plausible bug: the rows have the instant the scoring began.
BeganAt(c) == c.now

\* The clock, read again.
ScoredAt(c) == searchDay

\* A row a candidate, all of one instant; nothing is measured of a market or a strategy that is not
\* configured any more.
Stamp(p) ==
    LET c == cycles[p] IN
    /\ c.at = "loading" /\ \A t \in c.known : c.read[FileOf[t]] # Unread
    /\ \E gone \in SUBSET c.known :
          cycles' = [cycles EXCEPT ![p] = [Idle EXCEPT !.at = "scored", !.rows =
              {[hash |-> t, at |-> ScoredAt(c), days |-> c.now - watchlist[t],
                bars |-> IF t \in gone THEN 0 ELSE ForwardBars(t, c.read[FileOf[t]])] : t \in c.known}]]
    /\ UNCHANGED <<trials, watchlist, scores, Nobodys>>

\* The rows are committed; one of that candidate and instant stays as it is.
ScoreEnds(p) ==
    LET c == cycles[p] IN
    /\ c.at = "scored"
    /\ scores' = scores \cup {r \in c.rows : ~\E s \in scores : s.hash = r.hash /\ s.at = r.at}
    /\ cycles' = [cycles EXCEPT ![p] = Idle]
    /\ UNCHANGED <<trials, watchlist, Nobodys>>

\* An exception anywhere is the end of the cycle, and what it has not committed is lost: so ends
\* one of two cycles that each hold the trial the other records next.
CycleFails(p) ==
    /\ cycles[p].at # "idle" /\ cycleFailures < MaxCycleFailures
    /\ cycleFailures' = cycleFailures + 1
    /\ cycles' = [cycles EXCEPT ![p] = Idle]
    /\ UNCHANGED <<searchDay, files, trials, watchlist, scores, begun>>

WatchlistNext ==
    \/ SearchDayPasses
    \/ \E f \in Files : Update(f)
    \/ \E p \in Cycles :
          \/ CycleBegins(p) \/ SearchEnds(p)
          \/ PromoteEnds(p) \/ PaperAll(p) \/ Stamp(p) \/ ScoreEnds(p) \/ CycleFails(p)
          \/ \E f \in Files : Load(p, f)
          \/ \E t \in Trials : Record(p, t) \/ PaperAdd(p, t)

WatchlistSpec == WatchlistInit /\ [][WatchlistNext]_searchVars

-----------------------------------------------------------------------------
\* Properties.

\* A cycle alone keeps the watchlist within its limit and gives each hypothesis one place; of cycles
\* that run together each may exceed the limit by what it promotes, once, and take the place again.
WatchlistIsBounded ==
    /\ Cardinality(Candidates) <= MaxCandidates + (Cardinality(Cycles) - 1) * PromotePerCycle
    /\ \A t \in Candidates :
          Cardinality({u \in Candidates : HypothesisOf[u] = HypothesisOf[t]}) <= Cardinality(Cycles)

\* What was promoted and measured stands whatever cycles fail or meet, and whatever file is written
\* in between: a candidate is a recorded trial and keeps the day of its promotion; it is measured
\* once an instant, on days and bars after its promotion and no later than that instant.
EvidenceStands ==
    /\ trials \subseteq trials' /\ scores \subseteq scores'
    /\ \A t \in Candidates : watchlist'[t] = watchlist[t]
    /\ Candidates' \subseteq trials'
    /\ \A s \in scores' :
          /\ watchlist'[s.hash] # NotPromoted
          /\ s.bars <= s.at - watchlist'[s.hash]
          /\ 0 <= s.days /\ s.days <= s.at - watchlist'[s.hash]
    /\ \A r, s \in scores' : r.hash = s.hash /\ r.at = s.at => r = s

\* Refuted: a later instant measures no fewer bars.  A file another cycle has written, an earlier
\* read, or none at all of a market that is not configured any more, measures fewer.
TrajectoryGrows ==
    \A r, s \in scores : r.hash = s.hash /\ r.at < s.at => r.bars <= s.bars

\* The watchlist: bounded, and its evidence forward only and never taken back, with two cycles at once.
WatchlistHolds == []WatchlistIsBounded /\ [][EvidenceStands]_searchVars
=============================================================================
