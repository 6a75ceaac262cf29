--------------------------- MODULE CaptureProofs ---------------------------
(***************************************************************************)
(* Proofs about Capture: types, that an event never runs ahead of the      *)
(* levels it announces, that the prune leaves the closes their strikes and *)
(* that a close somebody vouched for is kept.  The invariant follows a     *)
(* capture through its steps: the chain it carries has a timestamp of the  *)
(* model, its row is there once it is told to compute, its levels once it  *)
(* may publish.  JobGoes then says once how a step moves the jobs, and the *)
(* two later invariants rest on it.                                        *)
(***************************************************************************)
EXTENDS Capture, TLAPS

Carrying == {"store", "insert", "levels", "publish"}

ClockInv ==
    /\ clock <= MaxTime
    /\ vendor.stamp \in 1 .. LastStamp(clock)
    /\ vendor.book # NoBook

JobInv ==
    \A j \in Jobs :
        /\ job[j].at \in Carrying => job[j].chain.stamp \in Stamps /\ job[j].chain.book # NoBook
        /\ job[j].at \in {"levels", "publish"} => job[j].chain.stamp \in Rows
        /\ job[j].at = "publish" => job[j].chain.stamp \in levels

CaptureInv == CaptureTypeOK /\ ClockInv /\ JobInv /\ EventHasLevels

-----------------------------------------------------------------------------
\* Arithmetic of phases: their timestamps are numbers, in order, within the bound.
LEMMA LaterLast ==
    ASSUME NEW t \in Nat, NEW u \in Nat, t <= u
    PROVE  LastStamp(t) \in Nat /\ LastStamp(u) \in Nat /\ LastStamp(t) <= LastStamp(u)
<1>1. PICK d \in Nat : u = t + d
  BY SMT
<1>2. StampsPerPhase \in Nat
  BY CaptureAssumption
<1>3. (u + 1) * StampsPerPhase = (t + 1) * StampsPerPhase + d * StampsPerPhase
  BY <1>1, <1>2, SMT
<1>4. d * StampsPerPhase \in Nat /\ (t + 1) * StampsPerPhase \in Nat
  BY <1>2, SMT
<1> QED
  BY <1>3, <1>4 DEF LastStamp

LEMMA PhaseStamps ==
    ASSUME NEW t \in Nat
    PROVE  /\ FirstStamp(t) \in Nat \ {0}
           /\ LastStamp(t) \in Nat
           /\ FirstStamp(t) <= LastStamp(t)
<1>1. StampsPerPhase \in Nat /\ StampsPerPhase >= 1
  BY CaptureAssumption
<1>2. (t + 1) * StampsPerPhase = t * StampsPerPhase + StampsPerPhase
  BY <1>1, SMT
<1>3. t * StampsPerPhase \in Nat
  BY <1>1, SMT
<1> QED
  BY <1>1, <1>2, <1>3 DEF FirstStamp, LastStamp

\* Pushing onto a bounded queue keeps the bound and brings in the event only.
LEMMA PushLemma ==
    ASSUME NEW q \in Seq(Nat), Len(q) <= QueueMax, NEW event \in Nat
    PROVE  /\ Push(q, event) \in Seq(Nat)
           /\ Len(Push(q, event)) <= QueueMax
           /\ \A i \in DOMAIN Push(q, event) :
                 Push(q, event)[i] = event \/ \E k \in DOMAIN q : Push(q, event)[i] = q[k]
<1>1. QueueMax \in Nat \ {0}
  BY StreamAssumption
<1>2. CASE Len(q) = QueueMax
  <2>1. q # <<>>
    BY <1>1, <1>2
  <2>2. Push(q, event) = Append(Tail(q), event)
    BY <1>2 DEF Push
  <2>3. Tail(q) \in Seq(Nat) /\ Len(Tail(q)) = Len(q) - 1
    BY <2>1
  <2>4. \A i \in 1 .. Len(q) - 1 : Tail(q)[i] = q[i + 1]
    BY <2>1
  <2> QED
    BY <1>1, <1>2, <2>2, <2>3, <2>4
<1>3. CASE Len(q) # QueueMax
  BY <1>1, <1>3 DEF Push
<1> QED
  BY <1>2, <1>3

-----------------------------------------------------------------------------
\* What a step changes is one of a few things, and each lemma is about one.

\* A step that leaves the tabs alone and removes no levels keeps what they hold.
LEMMA StreamStays ==
    ASSUME CaptureInv, UNCHANGED streamVars, levels \subseteq levels'
    PROVE  StreamTypeOK' /\ EventHasLevels'
BY DEF CaptureInv, CaptureTypeOK, StreamTypeOK, EventHasLevels, streamVars, Subscribed

LEMMA OffIsWork == Off \in Work /\ Off.at = "off"
BY DEF Off, Work, Places, NoChain, NoBook, Chain

\* A step that gives one job new work and takes no row and no levels away.
LEMMA JobMoves ==
    ASSUME CaptureInv, Rows \subseteq Rows', levels \subseteq levels',
           NEW j \in Jobs, NEW w \in Work, job' = [job EXCEPT ![j] = w],
           w.at \in Carrying => w.chain.stamp \in Stamps /\ w.chain.book # NoBook,
           w.at \in {"levels", "publish"} => w.chain.stamp \in Rows',
           w.at = "publish" => w.chain.stamp \in levels'
    PROVE  job' \in [Jobs -> Work] /\ JobInv'
<1>1. job \in [Jobs -> Work]
  BY DEF CaptureInv, CaptureTypeOK
<1>2. job' \in [Jobs -> Work] /\ job'[j] = w /\ \A k \in Jobs \ {j} : job'[k] = job[k]
  BY <1>1
<1>3. ASSUME NEW k \in Jobs
      PROVE  /\ job'[k].at \in Carrying => job'[k].chain.stamp \in Stamps /\ job'[k].chain.book # NoBook
             /\ job'[k].at \in {"levels", "publish"} => job'[k].chain.stamp \in Rows'
             /\ job'[k].at = "publish" => job'[k].chain.stamp \in levels'
  <2>1. CASE k = j
    BY <1>2, <2>1
  <2>2. CASE k # j
    BY <1>2, <2>2 DEF CaptureInv, JobInv
  <2> QED
    BY <2>1, <2>2
<1> QED
  BY <1>2, <1>3 DEF JobInv

LEMMA JobEnds ==
    ASSUME CaptureInv, Rows \subseteq Rows', levels \subseteq levels',
           NEW j \in Jobs, Ends(j)
    PROVE  job' \in [Jobs -> Work] /\ JobInv'
BY OffIsWork, JobMoves DEF Ends, Carrying

LEMMA JobsStay ==
    ASSUME CaptureInv, Rows \subseteq Rows', levels \subseteq levels', UNCHANGED job
    PROVE  job' \in [Jobs -> Work] /\ JobInv'
BY DEF CaptureInv, CaptureTypeOK, JobInv

\* The index as it is, or with more levels and strikes.
LEMMA RowsStay == UNCHANGED book => Rows' = Rows
BY DEF Rows

LEMMA IndexStays ==
    ASSUME CaptureInv, UNCHANGED indexVars
    PROVE  /\ Rows' = Rows /\ levels' = levels
           /\ book' \in [Stamps -> Nat]
           /\ eod' \subseteq Rows' /\ levels' \subseteq Rows' /\ strikes' \subseteq Rows'
BY RowsStay DEF CaptureInv, CaptureTypeOK, indexVars

\* The chain of a capture that is under way, and its job.
LEMMA JobType ==
    ASSUME CaptureInv, NEW j \in Jobs
    PROVE  job[j] \in Work /\ job[j].chain \in Chain /\ job[j].chain.stamp \in Nat /\ job[j].chain.book \in Nat
BY DEF CaptureInv, CaptureTypeOK, Work, Chain

LEMMA JobTells ==
    ASSUME CaptureInv, NEW j \in Jobs
    PROVE  /\ job[j].at \in Carrying => job[j].chain.stamp \in Stamps /\ job[j].chain.book # NoBook
           /\ job[j].at \in {"levels", "publish"} => job[j].chain.stamp \in Rows
           /\ job[j].at = "publish" => job[j].chain.stamp \in levels
BY DEF CaptureInv, JobInv

-----------------------------------------------------------------------------
\* The actions.

LEMMA BeginCaptureKeeps ==
    ASSUME CaptureInv, NEW j \in Jobs, BeginCapture(j)
    PROVE  CaptureInv'
<1>1. UNCHANGED <<streamVars, indexVars, worker, doomed, envVars, vouched>> /\ due' \subseteq WorkerJobs
  BY DEF BeginCapture, Begins, CaptureInv, CaptureTypeOK
<1>2. job' \in [Jobs -> Work] /\ JobInv'
  <2>1. CASE UNCHANGED job
    BY <1>1, <2>1, IndexStays, JobsStay
  <2>2. CASE Starts(j, j = "eod")
    <3> DEFINE w == [Off EXCEPT !.at = "fetch", !.eod = (j = "eod")]
    <3>1. w \in Work /\ w.at = "fetch"
      BY DEF Off, Work, Places, NoChain, NoBook, Chain
    <3>2. job' = [job EXCEPT ![j] = w]
      BY <2>2 DEF Starts
    <3> HIDE DEF w
    <3> QED
      BY <1>1, <3>1, <3>2, IndexStays, JobMoves DEF Carrying
  <2> QED
    BY <2>1, <2>2 DEF BeginCapture
<1> QED
  BY <1>1, <1>2, IndexStays, StreamStays DEF CaptureInv, CaptureTypeOK, ClockInv, envVars

LEMMA CatchUpTooEarlyKeeps ==
    ASSUME CaptureInv, NEW j \in Jobs, CatchUpTooEarly(j)
    PROVE  CaptureInv'
<1>1. UNCHANGED <<streamVars, indexVars, worker, job, doomed, envVars, vouched>> /\ due' \subseteq WorkerJobs
  BY DEF CatchUpTooEarly, Begins, CaptureInv, CaptureTypeOK
<1> QED
  BY <1>1, IndexStays, StreamStays, JobsStay DEF CaptureInv, CaptureTypeOK, ClockInv, envVars

LEMMA CatchUpNoopKeeps ==
    ASSUME CaptureInv, NEW j \in Jobs, CatchUpNoop(j)
    PROVE  CaptureInv'
<1>1. UNCHANGED <<streamVars, indexVars, worker, job, doomed, envVars>> /\ due' \subseteq WorkerJobs
  BY DEF CatchUpNoop, Begins, CaptureInv, CaptureTypeOK
<1>2. vouched' \subseteq Nat
  BY DEF CatchUpNoop, Vouch, CaptureInv, CaptureTypeOK, Chain
<1> QED
  BY <1>1, <1>2, IndexStays, StreamStays, JobsStay DEF CaptureInv, CaptureTypeOK, ClockInv, envVars

LEMMA CatchUpFiresKeeps ==
    ASSUME CaptureInv, NEW j \in Jobs, CatchUpFires(j)
    PROVE  CaptureInv'
<1>1. UNCHANGED <<streamVars, indexVars, worker, doomed, envVars, vouched>> /\ due' \subseteq WorkerJobs
  BY DEF CatchUpFires, Begins, CaptureInv, CaptureTypeOK
<1> DEFINE w == [Off EXCEPT !.at = "fetch", !.eod = TRUE]
<1>2. w \in Work /\ w.at = "fetch"
  BY DEF Off, Work, Places, NoChain, NoBook, Chain
<1>3. job' = [job EXCEPT ![j] = w]
  BY DEF CatchUpFires, Starts
<1> HIDE DEF w
<1>4. job' \in [Jobs -> Work] /\ JobInv'
  BY <1>1, <1>2, <1>3, IndexStays, JobMoves DEF Carrying
<1> QED
  BY <1>1, <1>4, IndexStays, StreamStays DEF CaptureInv, CaptureTypeOK, ClockInv, envVars

LEMMA FetchKeeps ==
    ASSUME CaptureInv, NEW j \in Jobs, Fetch(j)
    PROVE  CaptureInv'
<1>1. UNCHANGED <<streamVars, indexVars, worker, due, doomed, envVars, vouched>>
  BY DEF Fetch
<1>2. vendor \in Chain /\ vendor.stamp \in Stamps /\ vendor.book # NoBook
  BY LaterLast, CaptureAssumption DEF CaptureInv, CaptureTypeOK, ClockInv, Stamps, Chain
<1> DEFINE w == [job[j] EXCEPT !.at = "store", !.chain = vendor]
<1>3. w \in Work /\ w.at = "store" /\ w.chain = vendor
  BY <1>2, JobType DEF Work, Places
<1>4. job' = [job EXCEPT ![j] = w]
  BY DEF Fetch
<1> HIDE DEF w
<1>5. job' \in [Jobs -> Work] /\ JobInv'
  BY <1>1, <1>2, <1>3, <1>4, IndexStays, JobMoves DEF Carrying
<1> QED
  BY <1>1, <1>5, IndexStays, StreamStays DEF CaptureInv, CaptureTypeOK, ClockInv, envVars

LEMMA DuplicateKeeps ==
    ASSUME CaptureInv, NEW j \in Jobs, Duplicate(j)
    PROVE  CaptureInv'
<1>1. UNCHANGED <<streamVars, book, levels, strikes, worker, due, doomed, envVars>>
  BY DEF Duplicate
<1>2. PICK r \in Existing(job[j].chain) :
        /\ eod' = IF job[j].eod THEN eod \cup {r} ELSE eod
        /\ job' = [job EXCEPT ![j].at = "levels", ![j].chain = [stamp |-> r, book |-> book[r]]]
  BY DEF Duplicate
<1>3. r \in Rows /\ r \in Stamps /\ book[r] # NoBook /\ r \in Nat /\ book[r] \in Nat
  <2>1. job[j].at = "store"
    BY DEF Duplicate, At
  <2>2. job[j].chain.stamp \in Stamps
    BY <2>1, JobTells DEF Carrying
  <2>3. r \in Rows
    BY <1>2, <2>2 DEF Existing, Rows, Latest
  <2> QED
    BY <2>3 DEF Rows, Stamps, CaptureInv, CaptureTypeOK
<1> DEFINE w == [job[j] EXCEPT !.at = "levels", !.chain = [stamp |-> r, book |-> book[r]]]
<1>4. w \in Work /\ w.at = "levels" /\ w.chain.stamp = r /\ w.chain.book = book[r]
  BY <1>3, JobType DEF Work, Places, Chain
<1>5. job' = [job EXCEPT ![j] = w]
  BY <1>2
<1> HIDE DEF w
<1>6. Rows' = Rows
  BY <1>1, RowsStay
<1>7. job' \in [Jobs -> Work] /\ JobInv'
  BY <1>1, <1>3, <1>4, <1>5, <1>6, JobMoves DEF Carrying
<1>8. eod' \subseteq Rows'
  BY <1>2, <1>3, <1>6 DEF CaptureInv, CaptureTypeOK
<1>9. vouched' \subseteq Nat
  BY JobType DEF Duplicate, VouchIfEod, Vouch, CaptureInv, CaptureTypeOK
<1> QED
  BY <1>1, <1>6, <1>7, <1>8, <1>9, StreamStays DEF CaptureInv, CaptureTypeOK, ClockInv, envVars

LEMMA FreshKeeps ==
    ASSUME CaptureInv, NEW j \in Jobs, Fresh(j)
    PROVE  CaptureInv'
<1>1. UNCHANGED <<streamVars, indexVars, worker, due, doomed, envVars, vouched>>
  BY DEF Fresh
<1> DEFINE w == [job[j] EXCEPT !.at = "insert"]
<1>2. w \in Work /\ w.at = "insert" /\ w.chain = job[j].chain
  BY JobType DEF Work, Places
<1>3. job' = [job EXCEPT ![j] = w]
  BY DEF Fresh, Goes
<1>4. w.chain.stamp \in Stamps /\ w.chain.book # NoBook
  BY JobTells DEF Fresh, At, Carrying
<1> HIDE DEF w
<1>5. job' \in [Jobs -> Work] /\ JobInv'
  BY <1>1, <1>2, <1>3, <1>4, IndexStays, JobMoves DEF Carrying
<1> QED
  BY <1>1, <1>5, IndexStays, StreamStays DEF CaptureInv, CaptureTypeOK, ClockInv, envVars

LEMMA InsertKeeps ==
    ASSUME CaptureInv, NEW j \in Jobs, Insert(j)
    PROVE  CaptureInv'
<1>1. UNCHANGED <<streamVars, levels, strikes, worker, due, doomed, envVars>>
  BY DEF Insert
<1> DEFINE stamp == job[j].chain.stamp
<1>2. job[j].at = "insert" /\ stamp \in Stamps /\ job[j].chain.book # NoBook /\ job[j].chain.book \in Nat
  BY JobTells, JobType DEF Insert, At, Carrying
<1>3. /\ book' = [book EXCEPT ![stamp] = job[j].chain.book]
      /\ eod' = IF job[j].eod THEN eod \cup {stamp} ELSE eod
  BY DEF Insert
<1>4. book' \in [Stamps -> Nat] /\ Rows \subseteq Rows' /\ stamp \in Rows'
  BY <1>2, <1>3 DEF Rows, CaptureInv, CaptureTypeOK, Stamps
<1> DEFINE w == [job[j] EXCEPT !.at = "levels"]
<1>5. w \in Work /\ w.at = "levels" /\ w.chain = job[j].chain
  BY JobType DEF Work, Places
<1>6. job' = [job EXCEPT ![j] = w]
  BY DEF Insert, Goes
<1> HIDE DEF w
<1>7. job' \in [Jobs -> Work] /\ JobInv'
  BY <1>1, <1>2, <1>4, <1>5, <1>6, JobMoves DEF Carrying
<1>8. vouched' \subseteq Nat
  BY JobType DEF Insert, VouchIfEod, Vouch, CaptureInv, CaptureTypeOK
<1>9. eod' \subseteq Rows' /\ levels' \subseteq Rows' /\ strikes' \subseteq Rows' /\ doomed' \subseteq Rows'
  BY <1>1, <1>3, <1>4 DEF CaptureInv, CaptureTypeOK
<1> QED
  BY <1>1, <1>4, <1>7, <1>8, <1>9, StreamStays DEF CaptureInv, CaptureTypeOK, ClockInv, envVars

LEMMA LostRaceKeeps ==
    ASSUME CaptureInv, NEW j \in Jobs, LostRace(j)
    PROVE  CaptureInv'
<1>1. UNCHANGED <<streamVars, indexVars, worker, due, doomed, envVars, vouched>>
  BY DEF LostRace
<1>2. job' \in [Jobs -> Work] /\ JobInv'
  BY <1>1, IndexStays, JobEnds DEF LostRace
<1> QED
  BY <1>1, <1>2, IndexStays, StreamStays DEF CaptureInv, CaptureTypeOK, ClockInv, envVars

LEMMA CaptureFailsKeeps ==
    ASSUME CaptureInv, NEW j \in Jobs, CaptureFails(j)
    PROVE  CaptureInv'
<1>1. UNCHANGED <<streamVars, indexVars, worker, due, doomed, clock, vendor, vouched>>
  BY DEF CaptureFails
<1>2. job' \in [Jobs -> Work] /\ JobInv'
  BY <1>1, IndexStays, JobEnds DEF CaptureFails
<1>3. faults' \in Nat
  BY DEF CaptureFails, Fault, CaptureInv, CaptureTypeOK
<1> QED
  BY <1>1, <1>2, <1>3, IndexStays, StreamStays DEF CaptureInv, CaptureTypeOK, ClockInv, envVars

LEMMA LevelsFailKeeps ==
    ASSUME CaptureInv, NEW j \in Jobs, LevelsFail(j)
    PROVE  CaptureInv'
<1>1. UNCHANGED <<streamVars, indexVars, worker, due, doomed, clock, vendor, vouched>>
  BY DEF LevelsFail
<1>2. job' \in [Jobs -> Work] /\ JobInv'
  BY <1>1, IndexStays, JobEnds DEF LevelsFail
<1>3. faults' \in Nat
  BY DEF LevelsFail, Fault, CaptureInv, CaptureTypeOK
<1> QED
  BY <1>1, <1>2, <1>3, IndexStays, StreamStays DEF CaptureInv, CaptureTypeOK, ClockInv, envVars

LEMMA ComputeLevelsKeeps ==
    ASSUME CaptureInv, NEW j \in Jobs, ComputeLevels(j)
    PROVE  CaptureInv'
<1>1. UNCHANGED <<streamVars, book, eod, worker, due, doomed, envVars, vouched>>
  BY DEF ComputeLevels
<1> DEFINE stamp == job[j].chain.stamp
<1>2. levels' = levels \cup {stamp} /\ strikes' = strikes \cup {stamp}
  BY DEF ComputeLevels
<1>3. stamp \in Rows /\ stamp \in Stamps /\ job[j].chain.book # NoBook
  BY JobTells DEF ComputeLevels, At, Carrying
<1>4. Rows' = Rows
  BY <1>1, RowsStay
<1> DEFINE w == [job[j] EXCEPT !.at = "publish"]
<1>5. w \in Work /\ w.at = "publish" /\ w.chain = job[j].chain
  BY JobType DEF Work, Places
<1>6. job' = [job EXCEPT ![j] = w]
  BY DEF ComputeLevels, Goes
<1> HIDE DEF w
<1>7. job' \in [Jobs -> Work] /\ JobInv'
  BY <1>2, <1>3, <1>4, <1>5, <1>6, JobMoves DEF Carrying
<1>8. eod' \subseteq Rows' /\ levels' \subseteq Rows' /\ strikes' \subseteq Rows' /\ doomed' \subseteq Rows'
  BY <1>1, <1>2, <1>3, <1>4 DEF CaptureInv, CaptureTypeOK
<1> QED
  BY <1>1, <1>2, <1>7, <1>8, StreamStays DEF CaptureInv, CaptureTypeOK, ClockInv, envVars

LEMMA PublishKeeps ==
    ASSUME CaptureInv, NEW j \in Jobs, Publish(j)
    PROVE  CaptureInv'
<1>1. UNCHANGED <<indexVars, worker, due, doomed, envVars, vouched>>
  BY DEF Publish
<1>2. job' \in [Jobs -> Work] /\ JobInv'
  BY <1>1, IndexStays, JobEnds DEF Publish
<1> DEFINE event == job[j].chain.stamp
<1>3. event \in levels /\ event \in Nat
  BY JobTells, JobType DEF Publish, At
<1>4. StreamTypeOK' /\ EventHasLevels'
  <2>1. CASE UNCHANGED streamVars
    BY <1>1, <2>1, IndexStays, StreamStays
  <2>2. CASE Deliver(event)
    <3>1. Subscribed' = Subscribed /\ \A t \in Subscribed : queue'[t] = Push(queue[t], event)
      BY <2>2 DEF Deliver, Subscribed
    <3>2. \A t \in Subscribed : queue[t] \in Seq(Nat) /\ Len(queue[t]) <= QueueMax
      BY DEF CaptureInv, CaptureTypeOK, StreamTypeOK
    <3>3. StreamTypeOK'
      BY <1>3, <2>2, <3>1, <3>2, PushLemma DEF StreamTypeOK, Deliver, CaptureInv, CaptureTypeOK
    <3>4. ASSUME NEW t \in Subscribed, NEW i \in DOMAIN Push(queue[t], event)
          PROVE  Push(queue[t], event)[i] \in levels
      BY <1>3, <3>2, PushLemma DEF CaptureInv, EventHasLevels
    <3>5. EventHasLevels'
      BY <1>1, <3>1, <3>4, IndexStays DEF EventHasLevels
    <3> QED
      BY <3>3, <3>5
  <2> QED
    BY <2>1, <2>2 DEF Publish
<1> QED
  BY <1>1, <1>2, <1>4, IndexStays DEF CaptureInv, CaptureTypeOK, ClockInv, envVars

LEMMA ManualCaptureKeeps ==
    ASSUME CaptureInv, ManualCapture
    PROVE  CaptureInv'
<1>1. UNCHANGED <<streamVars, indexVars, worker, due, doomed, envVars, vouched>>
  BY DEF ManualCapture
<1>2. PICK asEod \in ManualEod : Starts("manual", asEod)
  BY DEF ManualCapture
<1> DEFINE w == [Off EXCEPT !.at = "fetch", !.eod = asEod]
<1>3. w \in Work /\ w.at = "fetch"
  BY CaptureAssumption DEF Off, Work, Places, NoChain, NoBook, Chain
<1>4. job' = [job EXCEPT !["manual"] = w] /\ "manual" \in Jobs
  BY <1>2 DEF Starts, Jobs
<1> HIDE DEF w
<1>5. job' \in [Jobs -> Work] /\ JobInv'
  BY <1>1, <1>3, <1>4, IndexStays, JobMoves DEF Carrying
<1> QED
  BY <1>1, <1>5, IndexStays, StreamStays DEF CaptureInv, CaptureTypeOK, ClockInv, envVars

LEMMA PruneReadsKeeps ==
    ASSUME CaptureInv, PruneReads
    PROVE  CaptureInv'
<1>1. UNCHANGED <<streamVars, indexVars, worker, envVars, vouched>> /\ due' \subseteq WorkerJobs
  BY DEF PruneReads, Begins, CaptureInv, CaptureTypeOK
<1>2. doomed' \subseteq Rows
  BY DEF PruneReads, Stale, CaptureInv, CaptureTypeOK
<1>3. "prune" \in Jobs
  BY DEF Jobs, WorkerJobs
<1> DEFINE w == [job["prune"] EXCEPT !.at = "delete"]
<1>4. w \in Work /\ w.at = "delete"
  BY <1>3, JobType DEF Work, Places
<1>5. job' = [job EXCEPT !["prune"] = w]
  BY DEF PruneReads, Goes
<1> HIDE DEF w
<1>6. job' \in [Jobs -> Work] /\ JobInv'
  BY <1>1, <1>3, <1>4, <1>5, IndexStays, JobMoves DEF Carrying
<1> QED
  BY <1>1, <1>2, <1>6, IndexStays, StreamStays DEF CaptureInv, CaptureTypeOK, ClockInv, envVars

LEMMA PruneDeletesKeeps ==
    ASSUME CaptureInv, PruneDeletes
    PROVE  CaptureInv'
<1>1. UNCHANGED <<streamVars, book, eod, levels, worker, due, envVars, vouched>>
  BY DEF PruneDeletes
<1>2. strikes' \subseteq strikes /\ doomed' = {} /\ Rows' = Rows
  BY <1>1, RowsStay DEF PruneDeletes
<1>3. job' \in [Jobs -> Work] /\ JobInv'
  BY <1>1, <1>2, JobEnds DEF PruneDeletes, Jobs, WorkerJobs
<1> QED
  BY <1>1, <1>2, <1>3, StreamStays DEF CaptureInv, CaptureTypeOK, ClockInv, envVars

LEMMA BackfillKeeps ==
    ASSUME CaptureInv, Backfill
    PROVE  CaptureInv'
<1>1. UNCHANGED <<streamVars, book, eod, workVars, envVars, vouched>>
  BY DEF Backfill
<1>2. levels \subseteq levels' /\ levels' \subseteq Rows /\ strikes' \subseteq Rows /\ Rows' = Rows
  BY <1>1, RowsStay DEF Backfill, CaptureInv, CaptureTypeOK
<1>3. job' \in [Jobs -> Work] /\ JobInv'
  BY <1>1, <1>2, JobsStay DEF workVars
<1> QED
  BY <1>1, <1>2, <1>3, StreamStays DEF CaptureInv, CaptureTypeOK, ClockInv, envVars, workVars

LEMMA BootKeeps ==
    ASSUME CaptureInv, Boot
    PROVE  CaptureInv'
<1>1. UNCHANGED <<streamVars, indexVars, job, doomed, envVars, vouched>>
  BY DEF Boot
<1>2. worker' = "up" /\ due' \subseteq WorkerJobs
  BY DEF Boot, WorkerJobs, CatchUps
<1> QED
  BY <1>1, <1>2, IndexStays, StreamStays, JobsStay DEF CaptureInv, CaptureTypeOK, ClockInv, envVars

LEMMA WorkerDiesKeeps ==
    ASSUME CaptureInv, WorkerDies
    PROVE  CaptureInv'
<1>1. UNCHANGED <<streamVars, indexVars, clock, vendor, vouched>>
  BY DEF WorkerDies
<1>2. worker' = "down" /\ due' = {} /\ doomed' = {} /\ faults' \in Nat
  BY DEF WorkerDies, Fault, CaptureInv, CaptureTypeOK
<1>3. job' = [k \in Jobs |-> IF k \in WorkerJobs THEN Off ELSE job[k]]
  BY DEF WorkerDies
<1>4. job' \in [Jobs -> Work]
  BY <1>3, OffIsWork, JobType
<1>5. JobInv'
  BY <1>1, <1>3, OffIsWork, JobTells, IndexStays DEF JobInv, Carrying
<1> QED
  BY <1>1, <1>2, <1>4, <1>5, IndexStays, StreamStays DEF CaptureInv, CaptureTypeOK, ClockInv, envVars

LEMMA ApiDiesKeeps ==
    ASSUME CaptureInv, ApiDies
    PROVE  CaptureInv'
<1>1. UNCHANGED <<indexVars, worker, due, doomed, clock, vendor, vouched>> /\ faults' \in Nat
  BY DEF ApiDies, Fault, CaptureInv, CaptureTypeOK
<1>2. job' \in [Jobs -> Work] /\ JobInv'
  BY <1>1, IndexStays, JobEnds DEF ApiDies, Jobs
<1>3. StreamTypeOK' /\ EventHasLevels'
  BY DEF ApiDies, DropAll, StreamTypeOK, EventHasLevels, Subscribed, CaptureInv, CaptureTypeOK
<1> QED
  BY <1>1, <1>2, <1>3, IndexStays DEF CaptureInv, CaptureTypeOK, ClockInv, envVars

LEMMA SleepKeeps ==
    ASSUME CaptureInv, Sleep
    PROVE  CaptureInv'
<1>1. UNCHANGED <<streamVars, indexVars, due, job, doomed, clock, vendor, vouched>>
  BY DEF Sleep
<1>2. worker' = "asleep" /\ faults' \in Nat
  BY DEF Sleep, Fault, CaptureInv, CaptureTypeOK
<1> QED
  BY <1>1, <1>2, IndexStays, StreamStays, JobsStay DEF CaptureInv, CaptureTypeOK, ClockInv, envVars

LEMMA WakeKeeps ==
    ASSUME CaptureInv, Wake
    PROVE  CaptureInv'
<1>1. UNCHANGED <<streamVars, indexVars, job, doomed, envVars, vouched>>
  BY DEF Wake
<1>2. worker' = "up" /\ due' \subseteq WorkerJobs
  BY DEF Wake, CaptureInv, CaptureTypeOK
<1> QED
  BY <1>1, <1>2, IndexStays, StreamStays, JobsStay DEF CaptureInv, CaptureTypeOK, ClockInv, envVars

LEMMA AdvanceKeeps ==
    ASSUME CaptureInv, Advance
    PROVE  CaptureInv'
<1>1. UNCHANGED <<streamVars, indexVars, worker, job, doomed, faults, vouched>>
  BY DEF Advance
<1>2. clock \in Nat /\ clock' = clock + 1 /\ clock' \in Nat /\ clock' <= MaxTime
  BY CaptureAssumption DEF Advance, CaptureInv, CaptureTypeOK
<1>3. due' \subseteq WorkerJobs
  <2>1. Fires(clock') \subseteq WorkerJobs
    <3>1. clock' % 3 \in {0, 1, 2}
      BY <1>2
    <3> QED
      BY <3>1 DEF Fires, WorkerJobs, Scheduled, CatchUps
  <2> QED
    BY <2>1 DEF Advance, CaptureInv, CaptureTypeOK
<1>4. vendor' \in Chain /\ vendor'.stamp \in 1 .. LastStamp(clock') /\ vendor'.book # NoBook
  <2>1. CASE Open(clock')
    BY <1>2, <2>1, PhaseStamps DEF Advance, Chain, NoBook
  <2>2. CASE ~Open(clock')
    <3>1. vendor' = vendor
      BY <2>2 DEF Advance
    <3>2. LastStamp(clock) \in Nat /\ LastStamp(clock') \in Nat /\ LastStamp(clock) <= LastStamp(clock')
      BY <1>2, LaterLast
    <3> QED
      BY <3>1, <3>2 DEF CaptureInv, CaptureTypeOK, ClockInv, Chain
  <2> QED
    BY <2>1, <2>2
<1> QED
  BY <1>1, <1>2, <1>3, <1>4, IndexStays, StreamStays, JobsStay DEF CaptureInv, CaptureTypeOK, ClockInv, envVars

LEMMA RefreshKeeps ==
    ASSUME CaptureInv, Refresh
    PROVE  CaptureInv'
<1>1. UNCHANGED <<streamVars, indexVars, workVars, clock, faults, vouched>>
  BY DEF Refresh
<1> DEFINE next == IF vendor.stamp < FirstStamp(clock) THEN FirstStamp(clock) ELSE vendor.stamp + 1
<1>2. next \in 1 .. LastStamp(clock)
  BY PhaseStamps DEF Refresh, CaptureInv, CaptureTypeOK, ClockInv, Chain
<1>3. PICK b \in {vendor.book, next} : vendor' = [stamp |-> next, book |-> b]
  BY DEF Refresh
<1>4. b \in Nat /\ b # NoBook
  BY <1>2 DEF CaptureInv, CaptureTypeOK, ClockInv, Chain, NoBook
<1> HIDE DEF next
<1>5. vendor' \in Chain /\ vendor'.stamp \in 1 .. LastStamp(clock') /\ vendor'.book # NoBook
  BY <1>1, <1>2, <1>3, <1>4, PhaseStamps DEF Chain, CaptureInv, CaptureTypeOK
<1> QED
  BY <1>1, <1>5, IndexStays, StreamStays, JobsStay DEF CaptureInv, CaptureTypeOK, ClockInv, envVars, workVars

LEMMA TabStepsKeeps ==
    ASSUME CaptureInv, TabSteps
    PROVE  CaptureInv'
<1>1. UNCHANGED <<indexVars, workVars, envVars, vouched>>
  BY DEF TabSteps
<1>2. NewestLevels \subseteq Nat
  <2>1. levels \subseteq Stamps
    BY DEF CaptureInv, CaptureTypeOK, Rows
  <2>2. Stamps \subseteq Nat
    BY PhaseStamps, CaptureAssumption DEF Stamps
  <2>3. Newest \subseteq Nat
    BY <2>1, <2>2 DEF Newest
  <2> HIDE DEF Newest
  <2> QED
    BY <2>3 DEF NewestLevels
<1>3. StreamTypeOK' /\ EventHasLevels'
  <2>1. CASE \E s \in NewestLevels : Subscribe(s)
    <3>1. PICK s \in NewestLevels, u \in Tabs \ Subscribed :
            /\ queue' = [v \in Subscribed \cup {u} |-> IF v = u THEN <<>> ELSE queue[v]]
            /\ view' = [view EXCEPT ![u] = s]
      BY <2>1 DEF Subscribe
    <3>2. /\ Subscribed' = Subscribed \cup {u}
          /\ queue'[u] = <<>>
          /\ \A t \in Subscribed : queue'[t] = queue[t]
      BY <3>1 DEF Subscribed
    <3>3. view' \in [Tabs -> Nat]
      BY <1>2, <3>1 DEF StreamTypeOK, CaptureInv, CaptureTypeOK
    <3>4. <<>> \in Seq(Nat) /\ Len(<<>>) <= QueueMax /\ DOMAIN <<>> = {}
      BY StreamAssumption
    <3>5. StreamTypeOK'
      BY <3>2, <3>3, <3>4 DEF StreamTypeOK, CaptureInv, CaptureTypeOK
    <3>6. EventHasLevels'
      BY <1>1, <3>2, <3>4, IndexStays DEF EventHasLevels, CaptureInv
    <3> QED
      BY <3>5, <3>6
  <2>2. CASE Unsubscribe
    BY <1>1, <2>2, IndexStays DEF Unsubscribe, Subscribed, StreamTypeOK, EventHasLevels, CaptureInv, CaptureTypeOK
  <2>3. CASE \E s \in NewestLevels : Refetch(s)
    <3>1. PICK s \in NewestLevels, u \in Subscribed :
            /\ queue[u] # <<>>
            /\ queue' = [queue EXCEPT ![u] = Tail(@)]
            /\ view' = [view EXCEPT ![u] = s]
      BY <2>3 DEF Refetch
    <3>2. /\ Subscribed' = Subscribed
          /\ queue'[u] = Tail(queue[u])
          /\ \A t \in Subscribed \ {u} : queue'[t] = queue[t]
      BY <3>1 DEF Subscribed
    <3>3. view' \in [Tabs -> Nat]
      BY <1>2, <3>1 DEF StreamTypeOK, CaptureInv, CaptureTypeOK
    <3>4. /\ queue[u] \in Seq(Nat) /\ Len(queue[u]) <= QueueMax
          /\ \A i \in DOMAIN queue[u] : queue[u][i] \in levels
      BY DEF CaptureInv, CaptureTypeOK, StreamTypeOK, EventHasLevels
    <3>5. /\ Tail(queue[u]) \in Seq(Nat) /\ Len(Tail(queue[u])) <= QueueMax
          /\ \A i \in DOMAIN Tail(queue[u]) : Tail(queue[u])[i] \in levels
      BY <3>1, <3>4, StreamAssumption
    <3>6. StreamTypeOK'
      BY <3>2, <3>3, <3>5 DEF StreamTypeOK, CaptureInv, CaptureTypeOK
    <3>7. EventHasLevels'
      BY <1>1, <3>2, <3>5, IndexStays DEF EventHasLevels, CaptureInv
    <3> QED
      BY <3>6, <3>7
  <2> QED
    BY <2>1, <2>2, <2>3 DEF TabSteps
<1> QED
  BY <1>1, <1>3, IndexStays, JobsStay DEF CaptureInv, CaptureTypeOK, ClockInv, envVars, workVars

-----------------------------------------------------------------------------
LEMMA CaptureInvStarts == Init => CaptureInv
<1> SUFFICES ASSUME Init PROVE CaptureInv
  OBVIOUS
<1>1. Stamps \subseteq Nat /\ Rows = {}
  BY DEF Init, Rows, Stamps
<1>2. LastStamp(0) \in Nat /\ LastStamp(0) >= 1
  BY PhaseStamps DEF FirstStamp
<1>3. StreamTypeOK /\ EventHasLevels
  BY DEF Init, StreamInit, StreamTypeOK, EventHasLevels, Subscribed
<1>4. ClockInv
  BY <1>2, CaptureAssumption DEF Init, ClockInv, NoBook
<1>5. JobInv
  BY OffIsWork DEF Init, JobInv, Carrying
<1>6. CaptureTypeOK
  BY <1>1, <1>3, OffIsWork DEF Init, CaptureTypeOK, Chain, NoBook
<1> QED
  BY <1>3, <1>4, <1>5, <1>6 DEF CaptureInv

LEMMA CaptureInvStays == CaptureInv /\ [Next]_vars => CaptureInv'
<1> SUFFICES ASSUME CaptureInv, [Next]_vars PROVE CaptureInv'
  OBVIOUS
<1>1. ASSUME NEW j \in Jobs, JobStep(j) PROVE CaptureInv'
  BY <1>1, BeginCaptureKeeps, CatchUpTooEarlyKeeps, CatchUpNoopKeeps, CatchUpFiresKeeps,
     FetchKeeps, DuplicateKeeps, FreshKeeps, InsertKeeps, LostRaceKeeps, CaptureFailsKeeps,
     ComputeLevelsKeeps, LevelsFailKeeps, PublishKeeps
     DEF JobStep
<1>2. ASSUME ManualCapture \/ PruneReads \/ PruneDeletes \/ Backfill \/ Boot \/ WorkerDies
             \/ ApiDies \/ Sleep \/ Wake \/ Advance \/ Refresh \/ TabSteps
      PROVE  CaptureInv'
  BY <1>2, ManualCaptureKeeps, PruneReadsKeeps, PruneDeletesKeeps, BackfillKeeps, BootKeeps,
     WorkerDiesKeeps, ApiDiesKeeps, SleepKeeps, WakeKeeps, AdvanceKeeps, RefreshKeeps,
     TabStepsKeeps
<1>3. CASE UNCHANGED vars
  BY <1>3, IndexStays, StreamStays, JobsStay
     DEF vars, workVars, envVars, CaptureInv, CaptureTypeOK, ClockInv
<1> QED
  BY <1>1, <1>2, <1>3 DEF Next

\* Every reachable state is well typed, for every number of tabs, days, timestamps
\* and faults: no queue outgrows its bound, and no EOD flag, levels or strikes are
\* without their row.
THEOREM CaptureTypesHold == Spec => []CaptureTypeOK
<1>1. CaptureInv => CaptureTypeOK
  BY DEF CaptureInv
<1> QED
  BY <1>1, CaptureInvStarts, CaptureInvStays, PTL DEF Spec

\* However captures, backfills, crashes and slow tabs interleave, an event in a tab's
\* queue names a snapshot whose levels are committed (capture_snapshot publishes last).
THEOREM EventsHaveLevels == Spec => []EventHasLevels
<1>1. CaptureInv => EventHasLevels
  BY DEF CaptureInv
<1> QED
  BY <1>1, CaptureInvStarts, CaptureInvStays, PTL DEF Spec

-----------------------------------------------------------------------------
\* Arithmetic of the timestamps: a later one is not of an earlier phase.
LEMMA TakenGrows ==
    ASSUME NEW r \in Nat, NEW s \in Nat, 1 <= r, r <= s
    PROVE  Taken(r) \in Nat /\ Taken(s) \in Nat /\ Taken(r) <= Taken(s)
<1>1. r - 1 \in Nat /\ s - 1 \in Nat /\ r - 1 <= s - 1
  OBVIOUS
<1> QED
  BY <1>1, CaptureAssumption DEF Taken

LEMMA TakenFrom ==
    ASSUME NEW t \in Nat, NEW s \in Nat, FirstStamp(t) <= s
    PROVE  t <= Taken(s)
<1>1. t * StampsPerPhase \in Nat
  BY CaptureAssumption
<1>2. s - 1 \in Nat /\ t * StampsPerPhase <= s - 1
  BY <1>1 DEF FirstStamp
<1> QED
  BY <1>2, CaptureAssumption DEF Taken

LEMMA TakenUpTo ==
    ASSUME NEW t \in Nat, NEW s \in Nat, 1 <= s, s <= LastStamp(t)
    PROVE  Taken(s) <= t
<1>1. (t + 1) * StampsPerPhase \in Nat
  BY CaptureAssumption
<1>2. s - 1 \in Nat /\ s - 1 < (t + 1) * StampsPerPhase
  BY <1>1 DEF LastStamp
<1> QED
  BY <1>2, CaptureAssumption DEF Taken

\* Where a job may be after a step that is not the environment's.
JobGoes(k) ==
    \/ job'[k] = job[k]
    \/ job'[k].at \in {"off", "delete"}
    \/ /\ job'[k].at = "fetch"
       /\ job'[k].eod => \/ k = "eod" /\ "eod" \in due
                         \/ AfterCutoff(clock)
                         \/ k = "manual" /\ TRUE \in ManualEod
    \/ /\ job[k].at = "fetch" /\ job'[k].at = "store"
       /\ job'[k].chain = vendor /\ job'[k].eod = job[k].eod
    \/ /\ job[k].at = "store" /\ job'[k].at = "insert"
       /\ job'[k].chain = job[k].chain /\ job'[k].eod = job[k].eod
    \/ /\ job'[k].at \in {"levels", "publish"} /\ job[k].at \in Carrying
       /\ job'[k].chain = job[k].chain
    \/ /\ job'[k].at = "levels"
       /\ \E r \in Rows : job'[k].chain = [stamp |-> r, book |-> book[r]]

LEMMA OneJobGoes ==
    ASSUME CaptureInv, NEW j \in Jobs, NEW w, job' = [job EXCEPT ![j] = w],
           JobGoes(j)
    PROVE  \A k \in Jobs : JobGoes(k)
<1>1. \A k \in Jobs \ {j} : job'[k] = job[k]
  BY DEF CaptureInv, CaptureTypeOK
<1> QED
  BY <1>1 DEF JobGoes

LEMMA JobEndGoes ==
    ASSUME CaptureInv, NEW j \in Jobs, Ends(j)
    PROVE  \A k \in Jobs : JobGoes(k)
<1>1. job' = [job EXCEPT ![j] = Off] /\ job'[j] = Off
  BY DEF Ends, CaptureInv, CaptureTypeOK
<1>2. JobGoes(j)
  BY <1>1, OffIsWork DEF JobGoes
<1> QED
  BY <1>1, <1>2, OneJobGoes

LEMMA JobStartGoes ==
    ASSUME CaptureInv, NEW j \in Jobs, NEW asEod \in BOOLEAN, Starts(j, asEod),
           asEod => \/ j = "eod" /\ "eod" \in due
                    \/ AfterCutoff(clock)
                    \/ j = "manual" /\ TRUE \in ManualEod
    PROVE  \A k \in Jobs : JobGoes(k)
<1> DEFINE w == [Off EXCEPT !.at = "fetch", !.eod = asEod]
<1>1. w.at = "fetch" /\ w.eod = asEod
  BY DEF Off
<1>2. job' = [job EXCEPT ![j] = w]
  BY DEF Starts
<1> HIDE DEF w
<1>3. job'[j] = w
  BY <1>2 DEF CaptureInv, CaptureTypeOK
<1>4. JobGoes(j)
  BY <1>1, <1>3 DEF JobGoes
<1> QED
  BY <1>2, <1>4, OneJobGoes

LEMMA JobStepGoes ==
    ASSUME CaptureInv, NEW j \in Jobs, JobStep(j)
    PROVE  \A k \in Jobs : JobGoes(k)
<1>0. job \in [Jobs -> Work] /\ job[j] \in Work
  BY DEF CaptureInv, CaptureTypeOK
<1>1. CASE UNCHANGED job
  BY <1>1 DEF JobGoes
<1>2. CASE Ends(j)
  BY <1>2, JobEndGoes
<1>3. CASE BeginCapture(j) /\ ~UNCHANGED job
  <2>1. Starts(j, j = "eod") /\ j \in due
    BY <1>3 DEF BeginCapture, Begins
  <2> QED
    BY <2>1, JobStartGoes
<1>4. CASE CatchUpFires(j)
  BY <1>4, JobStartGoes DEF CatchUpFires
<1>5. CASE Fetch(j)
  <2> DEFINE w == [job[j] EXCEPT !.at = "store", !.chain = vendor]
  <2>1. w.at = "store" /\ w.chain = vendor /\ w.eod = job[j].eod /\ job[j].at = "fetch"
    BY <1>0, <1>5 DEF Work, Fetch, At
  <2>2. job' = [job EXCEPT ![j] = w]
    BY <1>5 DEF Fetch
  <2> HIDE DEF w
  <2>3. job'[j] = w
    BY <1>0, <2>2
  <2>4. JobGoes(j)
    BY <2>1, <2>3 DEF JobGoes
  <2> QED
    BY <2>2, <2>4, OneJobGoes
<1>6. CASE Duplicate(j)
  <2>1. PICK r \in Existing(job[j].chain) :
          job' = [job EXCEPT ![j].at = "levels", ![j].chain = [stamp |-> r, book |-> book[r]]]
    BY <1>6 DEF Duplicate
  <2>2. r \in Rows
    BY <1>6, <2>1, JobTells DEF Duplicate, At, Carrying, Existing, Rows, Latest
  <2> DEFINE w == [job[j] EXCEPT !.at = "levels", !.chain = [stamp |-> r, book |-> book[r]]]
  <2>3. w.at = "levels" /\ w.chain = [stamp |-> r, book |-> book[r]]
    BY <1>0 DEF Work
  <2>4. job' = [job EXCEPT ![j] = w]
    BY <2>1
  <2> HIDE DEF w
  <2>5. job'[j] = w
    BY <1>0, <2>4
  <2>6. JobGoes(j)
    BY <2>2, <2>3, <2>5 DEF JobGoes
  <2> QED
    BY <2>4, <2>6, OneJobGoes
<1>7. ASSUME NEW from \in {"store", "insert", "levels"}, NEW to \in {"insert", "levels", "publish"},
             At(j, from), Goes(j, to), from = "store" => to = "insert", to = "insert" => from = "store"
      PROVE  \A k \in Jobs : JobGoes(k)
  <2> DEFINE w == [job[j] EXCEPT !.at = to]
  <2>1. w.at = to /\ w.chain = job[j].chain /\ w.eod = job[j].eod /\ job[j].at = from
    BY <1>0, <1>7 DEF Work, At
  <2>2. job' = [job EXCEPT ![j] = w]
    BY <1>7 DEF Goes
  <2> HIDE DEF w
  <2>3. job'[j] = w
    BY <1>0, <2>2
  <2>4. JobGoes(j)
    BY <1>7, <2>1, <2>3 DEF JobGoes, Carrying
  <2> QED
    BY <2>2, <2>4, OneJobGoes
<1>8. CASE Fresh(j)
  BY <1>7, <1>8 DEF Fresh
<1>9. CASE Insert(j)
  BY <1>7, <1>9 DEF Insert
<1>10. CASE ComputeLevels(j)
  BY <1>7, <1>10 DEF ComputeLevels
<1> QED
  BY <1>1, <1>2, <1>3, <1>4, <1>5, <1>6, <1>8, <1>9, <1>10
     DEF JobStep, CatchUpTooEarly, CatchUpNoop, LostRace, CaptureFails, LevelsFail, Publish

\* Every step but the environment's two leaves the clock and the vendor, and moves the jobs so.
LEMMA JobsGo ==
    ASSUME CaptureInv, Next, ~Advance, ~Refresh
    PROVE  UNCHANGED <<clock, vendor>> /\ \A k \in Jobs : JobGoes(k)
<1>0. job \in [Jobs -> Work]
  BY DEF CaptureInv, CaptureTypeOK
<1>1. UNCHANGED <<clock, vendor>>
  <2>1. ASSUME NEW j \in Jobs, JobStep(j) PROVE UNCHANGED <<clock, vendor>>
    BY <2>1 DEF JobStep, BeginCapture, CatchUpTooEarly, CatchUpNoop, CatchUpFires, Fetch, Duplicate, Fresh,
                Insert, LostRace, CaptureFails, ComputeLevels, LevelsFail, Publish, envVars
  <2>2. CASE ManualCapture \/ PruneReads \/ PruneDeletes \/ Backfill
    BY <2>2 DEF ManualCapture, PruneReads, PruneDeletes, Backfill, envVars
  <2>3. CASE Boot \/ WorkerDies \/ ApiDies \/ Sleep \/ Wake \/ TabSteps
    BY <2>3 DEF Boot, WorkerDies, ApiDies, Sleep, Wake, TabSteps, envVars
  <2> QED
    BY <2>1, <2>2, <2>3 DEF Next
<1>2. ASSUME NEW j \in Jobs, JobStep(j) PROVE \A k \in Jobs : JobGoes(k)
  BY <1>2, JobStepGoes
<1>3. ASSUME UNCHANGED job PROVE \A k \in Jobs : JobGoes(k)
  BY <1>3 DEF JobGoes
<1>4. ASSUME ManualCapture PROVE \A k \in Jobs : JobGoes(k)
  <2>1. PICK asEod \in ManualEod : Starts("manual", asEod)
    BY <1>4 DEF ManualCapture
  <2>2. "manual" \in Jobs /\ asEod \in BOOLEAN
    BY CaptureAssumption DEF Jobs
  <2>3. asEod => TRUE \in ManualEod
    BY <2>2
  <2> QED
    BY <2>1, <2>2, <2>3, JobStartGoes
<1>5. ASSUME PruneReads PROVE \A k \in Jobs : JobGoes(k)
  <2>1. job' = [job EXCEPT !["prune"].at = "delete"] /\ "prune" \in Jobs
    BY <1>5 DEF PruneReads, Goes, Jobs, WorkerJobs
  <2> DEFINE w == [job["prune"] EXCEPT !.at = "delete"]
  <2>2. w.at = "delete"
    BY <1>0, <2>1 DEF Work
  <2>3. job' = [job EXCEPT !["prune"] = w]
    BY <2>1
  <2> HIDE DEF w
  <2>4. job'["prune"] = w /\ \A k \in Jobs \ {"prune"} : job'[k] = job[k]
    BY <1>0, <2>1, <2>3
  <2> QED
    BY <2>2, <2>4 DEF JobGoes
<1>6. ASSUME PruneDeletes PROVE \A k \in Jobs : JobGoes(k)
  BY <1>6, JobEndGoes DEF PruneDeletes, Jobs, WorkerJobs
<1>7. ASSUME WorkerDies PROVE \A k \in Jobs : JobGoes(k)
  <2>1. \A k \in Jobs : job'[k] = IF k \in WorkerJobs THEN Off ELSE job[k]
    BY <1>7 DEF WorkerDies
  <2> QED
    BY <2>1, OffIsWork DEF JobGoes
<1>8. ASSUME ApiDies PROVE \A k \in Jobs : JobGoes(k)
  BY <1>8, JobEndGoes DEF ApiDies, Jobs
<1>9. Backfill \/ Boot \/ Sleep \/ Wake \/ TabSteps => UNCHANGED job
  BY DEF Backfill, Boot, Sleep, Wake, TabSteps, workVars
<1> QED
  BY <1>1, <1>2, <1>3, <1>4, <1>5, <1>6, <1>7, <1>8, <1>9 DEF Next

-----------------------------------------------------------------------------
\* The prune and the rows of the day's close.  What keeps it off them: a close is of a book that is
\* no older than the last session the exchange opened, and what the prune takes is older than that.

\* The rows keep their strikes for longer than the exchange is ever closed.
KeepOutlastsClosures == \A t \in 0 .. MaxTime : \E u \in 0 .. t : Open(u) /\ t <= u + Keep

ChainIsRecent(c) ==
    /\ c.stamp \in Stamps /\ c.book \in Nat \ {0} /\ c.book <= c.stamp
    /\ \A u \in 0 .. clock : Open(u) => u <= Taken(c.book)

KeepInv ==
    /\ \A s \in Rows : book[s] <= s
    /\ ChainIsRecent(vendor)
    /\ \A j \in Jobs : job[j].at \in {"store", "insert"} => ChainIsRecent(job[j].chain)
    /\ \A s \in levels \ strikes : s \notin eod /\ Taken(s) + Keep < clock
    /\ \A s \in doomed : s \notin eod /\ Taken(s) + Keep < clock

\* The chains that are under way stay recent, whatever the jobs do.
LEMMA ChainsStayRecent ==
    ASSUME CaptureInv, KeepInv, UNCHANGED <<clock, vendor>>, \A k \in Jobs : JobGoes(k)
    PROVE  /\ ChainIsRecent(vendor)'
           /\ (\A j \in Jobs : job[j].at \in {"store", "insert"} => ChainIsRecent(job[j].chain))'
<1>1. ChainIsRecent(vendor)'
  BY DEF KeepInv, ChainIsRecent
<1>2. ASSUME NEW j \in Jobs, job'[j].at \in {"store", "insert"}
      PROVE  ChainIsRecent(job[j].chain)'
  <2>1. \/ job'[j].chain = vendor
        \/ job[j].at \in {"store", "insert"} /\ job'[j].chain = job[j].chain
    BY <1>2 DEF JobGoes
  <2> QED
    BY <1>1, <2>1 DEF KeepInv, ChainIsRecent
<1> QED
  BY <1>1, <1>2

\* A row of a recent book, or of a recent chain's own timestamp, is not stale.
LEMMA RecentIsNotStale ==
    ASSUME CaptureInv, KeepOutlastsClosures, NEW c, ChainIsRecent(c),
           NEW s \in Stamps, c.book <= s
    PROVE  ~(Taken(s) + Keep < clock)
<1>1. clock \in 0 .. MaxTime /\ s \in Nat /\ Keep \in Nat
  BY CaptureAssumption DEF CaptureInv, CaptureTypeOK, ClockInv, Stamps
<1>2. PICK u \in 0 .. clock : Open(u) /\ clock <= u + Keep
  BY <1>1 DEF KeepOutlastsClosures
<1>3. u <= Taken(c.book) /\ c.book \in Nat /\ 1 <= c.book
  BY <1>2 DEF ChainIsRecent
<1>4. Taken(c.book) \in Nat /\ Taken(s) \in Nat /\ Taken(c.book) <= Taken(s)
  BY <1>1, <1>3, TakenGrows
<1> QED
  BY <1>1, <1>2, <1>3, <1>4

\* A step of a job that leaves the index alone, or gives rows levels and strikes together.
LEMMA KeepStays ==
    ASSUME CaptureInv, KeepInv, UNCHANGED <<clock, vendor, book, eod>>, \A k \in Jobs : JobGoes(k),
           levels' \ strikes' \subseteq levels \ strikes, doomed' \subseteq doomed
    PROVE  KeepInv'
<1>1. Rows' = Rows
  BY RowsStay
<1> QED
  BY <1>1, ChainsStayRecent DEF KeepInv

\* A close is put in a row that has its strikes and is not about to lose them.
LEMMA CloseKeepsStrikes ==
    ASSUME CaptureInv, KeepInv, KeepOutlastsClosures, NEW j \in Jobs, Duplicate(j),
           \A k \in Jobs : JobGoes(k)
    PROVE  KeepInv'
<1>1. UNCHANGED <<clock, vendor, book, levels, strikes, doomed>>
  BY DEF Duplicate, envVars
<1>2. PICK r \in Existing(job[j].chain) : eod' = IF job[j].eod THEN eod \cup {r} ELSE eod
  BY DEF Duplicate
<1> DEFINE c == job[j].chain
<1>3. ChainIsRecent(c)
  BY DEF Duplicate, At, KeepInv
<1>4. r \in Rows /\ (r = c.stamp \/ book[r] = c.book)
  BY <1>2, <1>3 DEF Existing, Rows, Latest, ChainIsRecent
<1>5. r \in Stamps /\ c.book <= r
  BY <1>3, <1>4 DEF KeepInv, ChainIsRecent, Rows
<1>6. ~(Taken(r) + Keep < clock)
  BY <1>3, <1>5, RecentIsNotStale
<1>7. \A s \in (levels \ strikes) \cup doomed : s # r
  BY <1>6 DEF KeepInv
<1>8. Rows' = Rows
  BY <1>1, RowsStay
<1>9. eod' \subseteq eod \cup {r}
  BY <1>2
<1> QED
  BY <1>1, <1>7, <1>8, <1>9, ChainsStayRecent DEF KeepInv

LEMMA InsertKeepsStrikes ==
    ASSUME CaptureInv, KeepInv, NEW j \in Jobs, Insert(j), \A k \in Jobs : JobGoes(k)
    PROVE  KeepInv'
<1> DEFINE c == job[j].chain
<1>1. UNCHANGED <<clock, vendor, levels, strikes, doomed>>
  BY DEF Insert, envVars
<1>2. /\ book[c.stamp] = NoBook /\ book' = [book EXCEPT ![c.stamp] = c.book]
      /\ eod' \subseteq eod \cup {c.stamp}
  BY DEF Insert
<1>3. ChainIsRecent(c)
  BY DEF Insert, At, KeepInv
<1>4. c.stamp \notin Rows /\ c.stamp \notin levels \cup doomed
  BY <1>2 DEF Rows, CaptureInv, CaptureTypeOK
<1>5. \A s \in Rows' : book'[s] <= s
  BY <1>2, <1>3 DEF Rows, ChainIsRecent, KeepInv, CaptureInv, CaptureTypeOK
<1> QED
  BY <1>1, <1>2, <1>4, <1>5, ChainsStayRecent DEF KeepInv

\* What the prune reads is stale and no close; what it deletes since is neither.
LEMMA PruneKeepsStrikes ==
    ASSUME CaptureInv, KeepInv, PruneReads \/ PruneDeletes, \A k \in Jobs : JobGoes(k)
    PROVE  KeepInv'
<1>1. UNCHANGED <<clock, vendor, book, eod, levels>> /\ Rows' = Rows
  BY RowsStay DEF PruneReads, PruneDeletes, envVars, indexVars
<1>2. \A s \in doomed' : s \notin eod /\ Taken(s) + Keep < clock
  BY DEF PruneReads, PruneDeletes, Stale, KeepInv
<1>3. \A s \in levels' \ strikes' : s \notin eod /\ Taken(s) + Keep < clock
  BY DEF PruneReads, PruneDeletes, KeepInv, indexVars
<1> QED
  BY <1>1, <1>2, <1>3, ChainsStayRecent DEF KeepInv

\* The clock moves only with no job running but in a session, and then to its evening.
LEMMA AdvanceKeepsStrikes ==
    ASSUME CaptureInv, KeepInv, Advance
    PROVE  KeepInv'
<1>1. UNCHANGED <<indexVars, job, doomed>> /\ clock' = clock + 1 /\ clock \in Nat /\ Keep \in Nat
  BY CaptureAssumption DEF Advance, CaptureInv, CaptureTypeOK
<1>2. Rows' = Rows /\ UNCHANGED <<book, eod, levels, strikes>>
  BY <1>1, RowsStay DEF indexVars
<1>3. \A c : ChainIsRecent(c) /\ ~Open(clock') =>
          /\ c.stamp \in Stamps /\ c.book \in Nat \ {0} /\ c.book <= c.stamp
          /\ \A u \in 0 .. clock' : Open(u) => u <= Taken(c.book)
  <2> SUFFICES ASSUME NEW c, ChainIsRecent(c), ~Open(clock'), NEW u \in 0 .. clock', Open(u)
               PROVE  /\ c.stamp \in Stamps /\ c.book \in Nat \ {0} /\ c.book <= c.stamp
                      /\ u <= Taken(c.book)
    BY DEF ChainIsRecent
  <2>1. u \in 0 .. clock
    BY <1>1
  <2> QED
    BY <2>1 DEF ChainIsRecent
<1>4. ChainIsRecent(vendor)'
  <2>1. CASE Open(clock')
    <3>1. vendor'.stamp = FirstStamp(clock') /\ vendor'.book = FirstStamp(clock')
      BY <2>1 DEF Advance
    <3>2. clock' \in Nat /\ clock' <= MaxTime /\ FirstStamp(clock') \in Nat \ {0}
          /\ FirstStamp(clock') <= LastStamp(clock') /\ LastStamp(clock') <= LastStamp(MaxTime)
          /\ LastStamp(MaxTime) \in Nat /\ LastStamp(clock') \in Nat
      BY <1>1, PhaseStamps, LaterLast, CaptureAssumption DEF Advance
    <3>3. clock' <= Taken(FirstStamp(clock')) /\ Taken(FirstStamp(clock')) \in Nat
      BY <3>2, TakenFrom, TakenGrows
    <3> QED
      BY <3>1, <3>2, <3>3 DEF ChainIsRecent, Stamps
  <2>2. CASE ~Open(clock')
    <3>1. vendor' = vendor
      BY <2>2 DEF Advance
    <3> QED
      BY <1>3, <2>2, <3>1 DEF KeepInv, ChainIsRecent
  <2> QED
    BY <2>1, <2>2
<1>5. ASSUME NEW j \in Jobs, job'[j].at \in {"store", "insert"}
      PROVE  ChainIsRecent(job[j].chain)'
  <2>1. Session(clock) /\ ~Open(clock')
    BY <1>1, <1>5 DEF Advance, Running, Session, Open
  <2> QED
    BY <1>1, <1>3, <1>5, <2>1 DEF KeepInv, ChainIsRecent
<1>6. \A s \in (levels' \ strikes') \cup doomed' : s \notin eod' /\ Taken(s) + Keep < clock'
  <2>1. \A s \in Rows : Taken(s) \in Nat
    BY TakenGrows DEF Rows, Stamps
  <2> QED
    BY <1>1, <1>2, <2>1 DEF KeepInv, CaptureInv, CaptureTypeOK
<1> QED
  BY <1>2, <1>4, <1>5, <1>6 DEF KeepInv

LEMMA RefreshKeepsStrikes ==
    ASSUME CaptureInv, KeepInv, Refresh
    PROVE  KeepInv'
<1>1. UNCHANGED <<book, eod, levels, strikes, job, doomed, clock>> /\ Rows' = Rows
  BY RowsStay DEF Refresh, indexVars, workVars
<1> DEFINE next == IF vendor.stamp < FirstStamp(clock) THEN FirstStamp(clock) ELSE vendor.stamp + 1
<1>2. clock \in Nat /\ clock <= MaxTime /\ vendor.stamp \in Nat \ {0} /\ vendor.stamp < LastStamp(clock)
      /\ FirstStamp(clock) \in Nat \ {0} /\ FirstStamp(clock) <= LastStamp(clock)
      /\ LastStamp(clock) <= LastStamp(MaxTime) /\ LastStamp(MaxTime) \in Nat /\ LastStamp(clock) \in Nat
  BY PhaseStamps, LaterLast, CaptureAssumption DEF Refresh, CaptureInv, CaptureTypeOK, ClockInv, Chain
<1>3. next \in Stamps /\ next \in Nat \ {0} /\ FirstStamp(clock) <= next /\ vendor.stamp < next
  BY <1>2 DEF Stamps
<1>4. PICK b \in {vendor.book, next} :
        vendor'.stamp = next /\ vendor'.book = b /\ (~Open(clock) => b = vendor.book)
  BY DEF Refresh
<1> HIDE DEF next
<1>5. clock <= Taken(next) /\ Taken(next) \in Nat
  BY <1>2, <1>3, TakenFrom, TakenGrows
<1>6. ChainIsRecent(vendor)'
  BY <1>1, <1>2, <1>3, <1>4, <1>5 DEF KeepInv, ChainIsRecent
<1>7. \A j \in Jobs : job'[j].at \in {"store", "insert"} => ChainIsRecent(job[j].chain)'
  BY <1>1 DEF KeepInv, ChainIsRecent
<1> QED
  BY <1>1, <1>6, <1>7 DEF KeepInv

LEMMA KeepInvStarts == KeepOutlastsClosures /\ Init => KeepInv
<1> SUFFICES ASSUME Init PROVE KeepInv
  OBVIOUS
<1>1. Rows = {} /\ levels = {} /\ doomed = {} /\ clock = 0
  BY DEF Init, Rows
<1>2. 1 \in Stamps
  BY PhaseStamps, LaterLast, CaptureAssumption DEF Stamps, FirstStamp
<1>3. Taken(1) \in Nat
  BY TakenGrows
<1>4. ChainIsRecent(vendor)
  BY <1>2, <1>3 DEF Init, ChainIsRecent
<1>5. \A j \in Jobs : job[j].at = "off"
  BY OffIsWork DEF Init
<1> QED
  BY <1>1, <1>4, <1>5 DEF KeepInv

LEMMA KeepInvStays == KeepOutlastsClosures /\ CaptureInv /\ KeepInv /\ [Next]_vars => KeepInv'
<1> SUFFICES ASSUME KeepOutlastsClosures, CaptureInv, KeepInv, [Next]_vars PROVE KeepInv'
  OBVIOUS
<1>1. CASE Advance
  BY <1>1, AdvanceKeepsStrikes
<1>2. CASE Refresh
  BY <1>2, RefreshKeepsStrikes
<1>3. CASE Next /\ ~Advance /\ ~Refresh
  <2>1. UNCHANGED <<clock, vendor>> /\ \A k \in Jobs : JobGoes(k)
    BY <1>3, JobsGo
  <2>2. ASSUME NEW j \in Jobs, JobStep(j) PROVE KeepInv'
    <3>1. CASE Duplicate(j)
      BY <2>1, <3>1, CloseKeepsStrikes
    <3>2. CASE Insert(j)
      BY <2>1, <3>2, InsertKeepsStrikes
    <3>3. CASE ComputeLevels(j)
      <4>1. UNCHANGED <<book, eod, doomed>> /\ levels' \ strikes' \subseteq levels \ strikes
        BY <3>3 DEF ComputeLevels
      <4> QED
        BY <2>1, <4>1, KeepStays
    <3>4. CASE UNCHANGED indexVars /\ UNCHANGED doomed
      BY <2>1, <3>4, KeepStays DEF indexVars
    <3> QED
      BY <2>2, <3>1, <3>2, <3>3, <3>4
         DEF JobStep, BeginCapture, CatchUpTooEarly, CatchUpNoop, CatchUpFires, Fetch, Fresh, LostRace,
             CaptureFails, LevelsFail, Publish
  <2>3. CASE PruneReads \/ PruneDeletes
    BY <2>1, <2>3, PruneKeepsStrikes
  <2>4. CASE Backfill
    <3>1. UNCHANGED <<book, eod, doomed>> /\ levels' \ strikes' \subseteq levels \ strikes
      BY <2>4 DEF Backfill, workVars
    <3> QED
      BY <2>1, <3>1, KeepStays
  <2>5. CASE ManualCapture \/ Boot \/ WorkerDies \/ ApiDies \/ Sleep \/ Wake \/ TabSteps
    <3>1. UNCHANGED indexVars /\ doomed' \subseteq doomed
      BY <2>5 DEF ManualCapture, Boot, WorkerDies, ApiDies, Sleep, Wake, TabSteps, workVars
    <3> QED
      BY <2>1, <3>1, KeepStays DEF indexVars
  <2> QED
    BY <1>3, <2>2, <2>3, <2>4, <2>5 DEF Next
<1>4. CASE UNCHANGED vars
  <2>1. \A k \in Jobs : JobGoes(k)
    BY <1>4 DEF vars, workVars, JobGoes
  <2> QED
    BY <1>4, <2>1, KeepStays DEF vars, indexVars, workVars, envVars
<1> QED
  BY <1>1, <1>2, <1>3, <1>4

\* If rows keep their strikes for longer than the exchange is ever closed, the prune never takes
\* those of a day's close, however captures by hand, late captures after a sleep, backfills and the
\* two steps of the prune itself fall (retention.py prune_old_snapshots, _persist_sync).
THEOREM EodKeepsStrikesHolds == ASSUME KeepOutlastsClosures PROVE Spec => []EodKeepsStrikes
<1>1. KeepInv => EodKeepsStrikes
  BY DEF KeepInv, EodKeepsStrikes
<1>2. CaptureInv /\ KeepInv /\ [Next]_vars => CaptureInv' /\ KeepInv'
  BY CaptureInvStays, KeepInvStays
<1>3. Init => CaptureInv /\ KeepInv
  BY CaptureInvStarts, KeepInvStarts
<1> QED
  BY <1>1, <1>2, <1>3, PTL DEF Spec

-----------------------------------------------------------------------------
\* The close: what an EOD capture stores is the book the vendor serves all evening, so a row of the
\* day with is_eod set has the day's close.  It needs EOD captures to be of the evening: no one asks
\* for one by hand, and the host does not sleep over one.
EodIsOfTheEvening == ManualEod \subseteq {FALSE} /\ "sleep" \notin FaultKinds

\* The chains there are: what the vendor serves, what is stored and what captures carry.
KnownChains ==
    {vendor} \cup {[stamp |-> s, book |-> book[s]] : s \in Rows}
             \cup {job[j].chain : j \in {k \in Jobs : job[k].at \in Carrying}}

OneBookAStamp ==
    \A c \in KnownChains :
        c.stamp <= vendor.stamp /\ \A d \in KnownChains : c.stamp = d.stamp => c.book = d.book

WorkerOnTime ==
    /\ worker # "asleep" /\ (worker = "down" => due = {})
    /\ "eod" \in due => AfterCutoff(clock)

EodJobsOfEvening ==
    \A j \in Jobs :
        job[j].eod /\ job[j].at \in {"fetch", "store", "insert"} =>
            /\ AfterCutoff(clock)
            /\ job[j].at # "fetch" => job[j].chain.book = vendor.book

EodRowsOfEvening ==
    \A s \in eod : Day(Taken(s)) = Day(clock) => AfterCutoff(clock) /\ book[s] = vendor.book

CloseInv == OneBookAStamp /\ WorkerOnTime /\ EodJobsOfEvening /\ EodRowsOfEvening /\ CloseIsKept

LEMMA KnownShrink ==
    ASSUME CaptureInv, UNCHANGED vendor, \A k \in Jobs : JobGoes(k),
           \/ UNCHANGED book
           \/ \E j \in Jobs : job[j].at = "insert" /\ book' = [book EXCEPT ![job[j].chain.stamp] = job[j].chain.book]
    PROVE  KnownChains' \subseteq KnownChains
<1> SUFFICES ASSUME NEW c \in KnownChains' PROVE c \in KnownChains
  OBVIOUS
<1>1. CASE c = vendor'
  BY <1>1 DEF KnownChains
<1>2. ASSUME NEW s \in Rows', c = [stamp |-> s, book |-> book'[s]] PROVE c \in KnownChains
  <2>1. CASE UNCHANGED book
    BY <1>2, <2>1, RowsStay DEF KnownChains
  <2>2. ASSUME NEW j \in Jobs, job[j].at = "insert",
               book' = [book EXCEPT ![job[j].chain.stamp] = job[j].chain.book]
        PROVE  c \in KnownChains
    <3>1. job[j].chain \in Chain /\ job[j].chain.stamp \in Stamps
      BY <2>2, JobType, JobTells DEF Carrying
    <3>2. CASE s = job[j].chain.stamp
      <4>1. book'[s] = job[j].chain.book
        BY <2>2, <3>1, <3>2 DEF CaptureInv, CaptureTypeOK
      <4>2. c = job[j].chain
        BY <1>2, <3>1, <3>2, <4>1 DEF Chain
      <4> QED
        BY <2>2, <4>2 DEF KnownChains, Carrying
    <3>3. CASE s # job[j].chain.stamp
      <4>1. book'[s] = book[s] /\ s \in Rows
        BY <1>2, <2>2, <3>3 DEF Rows, CaptureInv, CaptureTypeOK
      <4> QED
        BY <1>2, <4>1 DEF KnownChains
    <3> QED
      BY <3>2, <3>3
  <2> QED
    BY <2>1, <2>2
<1>3. ASSUME NEW j \in Jobs, job'[j].at \in Carrying, c = job'[j].chain PROVE c \in KnownChains
  BY <1>3 DEF JobGoes, KnownChains, Carrying
<1> QED
  BY <1>1, <1>2, <1>3 DEF KnownChains

\* What the jobs do while the clock stands keeps what is said of chains and of EOD captures.
LEMMA JobsKeepClose ==
    ASSUME EodIsOfTheEvening, CaptureInv, CloseInv, UNCHANGED <<clock, vendor>>, \A k \in Jobs : JobGoes(k),
           \/ UNCHANGED book
           \/ \E j \in Jobs : job[j].at = "insert" /\ book' = [book EXCEPT ![job[j].chain.stamp] = job[j].chain.book]
    PROVE  OneBookAStamp' /\ EodJobsOfEvening'
<1>1. OneBookAStamp'
  BY KnownShrink DEF OneBookAStamp, CloseInv
<1>2. ASSUME NEW j \in Jobs, job'[j].eod, job'[j].at \in {"fetch", "store", "insert"}
      PROVE  AfterCutoff(clock) /\ (job'[j].at # "fetch" => job'[j].chain.book = vendor.book)
  BY <1>2 DEF JobGoes, CloseInv, EodJobsOfEvening, WorkerOnTime, EodIsOfTheEvening
<1> QED
  BY <1>1, <1>2 DEF EodJobsOfEvening

\* A step that stores nothing and vouches for nothing.
LEMMA CloseStays ==
    ASSUME EodIsOfTheEvening, CaptureInv, CloseInv, UNCHANGED <<clock, vendor, book, eod, vouched>>,
           \A k \in Jobs : JobGoes(k), worker' # "asleep", due' \subseteq due \/ due' = {"boot"},
           worker' = "down" => due' = {}
    PROVE  CloseInv'
<1>1. WorkerOnTime'
  BY DEF CloseInv, WorkerOnTime
<1>2. EodRowsOfEvening' /\ CloseIsKept'
  BY DEF CloseInv, EodRowsOfEvening, CloseIsKept
<1> QED
  BY <1>1, <1>2, JobsKeepClose DEF CloseInv

LEMMA DuplicateKeepsClose ==
    ASSUME EodIsOfTheEvening, CaptureInv, CloseInv, NEW j \in Jobs, Duplicate(j), \A k \in Jobs : JobGoes(k)
    PROVE  CloseInv'
<1>1. UNCHANGED <<clock, vendor, book, worker, due>>
  BY DEF Duplicate, envVars
<1> DEFINE c == job[j].chain
<1>2. PICK r \in Existing(c) : eod' = IF job[j].eod THEN eod \cup {r} ELSE eod
  BY DEF Duplicate
<1>3. c \in KnownChains /\ c.stamp \in Stamps /\ job[j].at = "store"
  BY JobTells DEF Duplicate, At, KnownChains, Carrying
<1>4. r \in Rows /\ book[r] = c.book
  <2>1. r \in Rows /\ (r = c.stamp \/ book[r] = c.book)
    BY <1>2, <1>3 DEF Existing, Rows, Latest
  <2>2. [stamp |-> r, book |-> book[r]] \in KnownChains
    BY <2>1 DEF KnownChains
  <2> QED
    BY <1>3, <2>1, <2>2 DEF CloseInv, OneBookAStamp
<1>5. vouched' = vouched \cup (IF job[j].eod THEN {c.book} ELSE {})
  BY DEF Duplicate, VouchIfEod, Vouch
<1>6. job[j].eod => AfterCutoff(clock) /\ c.book = vendor.book
  BY <1>3 DEF CloseInv, EodJobsOfEvening
<1>7. EodRowsOfEvening' /\ CloseIsKept'
  BY <1>1, <1>2, <1>4, <1>5, <1>6 DEF CloseInv, EodRowsOfEvening, CloseIsKept
<1>8. WorkerOnTime'
  BY <1>1 DEF CloseInv, WorkerOnTime
<1> QED
  BY <1>1, <1>7, <1>8, JobsKeepClose DEF CloseInv

LEMMA InsertKeepsClose ==
    ASSUME EodIsOfTheEvening, CaptureInv, CloseInv, NEW j \in Jobs, Insert(j), \A k \in Jobs : JobGoes(k)
    PROVE  CloseInv'
<1>1. UNCHANGED <<clock, vendor, worker, due>>
  BY DEF Insert, envVars
<1> DEFINE c == job[j].chain
<1>2. /\ book[c.stamp] = NoBook /\ book' = [book EXCEPT ![c.stamp] = c.book]
      /\ eod' = IF job[j].eod THEN eod \cup {c.stamp} ELSE eod
      /\ job[j].at = "insert"
  BY DEF Insert, At
<1>3. c.stamp \in Stamps /\ book'[c.stamp] = c.book
  BY <1>2, JobTells DEF Carrying, CaptureInv, CaptureTypeOK
<1>4. c.stamp \notin eod /\ \A s \in eod : book'[s] = book[s]
  BY <1>2 DEF Rows, CaptureInv, CaptureTypeOK
<1>5. vouched' = vouched \cup (IF job[j].eod THEN {c.book} ELSE {})
  BY DEF Insert, VouchIfEod, Vouch
<1>6. job[j].eod => AfterCutoff(clock) /\ c.book = vendor.book
  BY <1>2 DEF CloseInv, EodJobsOfEvening
<1>7. EodRowsOfEvening' /\ CloseIsKept'
  BY <1>1, <1>2, <1>3, <1>4, <1>5, <1>6 DEF CloseInv, EodRowsOfEvening, CloseIsKept
<1>8. WorkerOnTime'
  BY <1>1 DEF CloseInv, WorkerOnTime
<1> QED
  BY <1>1, <1>2, <1>7, <1>8, JobsKeepClose DEF CloseInv

\* The catch-up that finds the day's EOD row vouches for the book that row has.
LEMMA NoopKeepsClose ==
    ASSUME EodIsOfTheEvening, CaptureInv, CloseInv, NEW j \in Jobs, CatchUpNoop(j), \A k \in Jobs : JobGoes(k)
    PROVE  CloseInv'
<1>1. UNCHANGED <<clock, vendor, book, eod, worker>> /\ due' \subseteq due /\ due # {}
  BY DEF CatchUpNoop, Begins, envVars, indexVars
<1>2. PICK s \in eod : Day(Taken(s)) = Day(clock)
  BY DEF CatchUpNoop, HasEod
<1>3. book[s] = vendor.book /\ vouched' = vouched \cup {vendor.book}
  BY <1>2 DEF CloseInv, EodRowsOfEvening, CatchUpNoop, Vouch
<1>4. EodRowsOfEvening' /\ CloseIsKept'
  BY <1>1, <1>3 DEF CloseInv, EodRowsOfEvening, CloseIsKept
<1>5. WorkerOnTime'
  BY <1>1 DEF CloseInv, WorkerOnTime
<1> QED
  BY <1>1, <1>4, <1>5, JobsKeepClose DEF CloseInv

\* A chain the vendor stamps anew is newer than every chain there is.
LEMMA NewStampKeepsBooks ==
    ASSUME CaptureInv, CloseInv, UNCHANGED <<book, job>>,
           vendor' \in Chain, vendor' = vendor \/ vendor.stamp < vendor'.stamp
    PROVE  OneBookAStamp'
<1>1. KnownChains' \subseteq (KnownChains \cup {vendor'})
  BY RowsStay DEF KnownChains
<1>2. \A c \in KnownChains : c.stamp \in Nat /\ c.stamp <= vendor.stamp
  <2>1. \A c \in KnownChains : c.stamp \in Nat
    BY JobType DEF KnownChains, Rows, Stamps, Chain, CaptureInv, CaptureTypeOK
  <2> QED
    BY <2>1 DEF CloseInv, OneBookAStamp
<1>3. vendor.stamp \in Nat /\ vendor'.stamp \in Nat
  BY DEF Chain, CaptureInv, CaptureTypeOK
<1>4. CASE vendor' = vendor
  <2>1. vendor \in KnownChains
    BY DEF KnownChains
  <2> QED
    BY <1>1, <1>4, <2>1 DEF CloseInv, OneBookAStamp
<1>5. CASE vendor.stamp < vendor'.stamp
  BY <1>1, <1>2, <1>3, <1>5 DEF CloseInv, OneBookAStamp
<1> QED
  BY <1>4, <1>5

LEMMA AdvanceKeepsClose ==
    ASSUME EodIsOfTheEvening, CaptureInv, CaptureInv', CloseInv, Advance
    PROVE  CloseInv'
<1>1. UNCHANGED <<book, eod, job, worker, vouched>> /\ clock' = clock + 1 /\ clock \in Nat
  BY DEF Advance, indexVars, CaptureInv, CaptureTypeOK
<1>2. Session(clock') \/ vendor' = vendor
  BY DEF Advance, Open
<1>3. vendor' \in Chain /\ (vendor' = vendor \/ vendor.stamp < vendor'.stamp)
  <2>1. vendor' = vendor \/ vendor'.stamp = FirstStamp(clock')
    BY DEF Advance
  <2>2. LastStamp(clock) < FirstStamp(clock') /\ LastStamp(clock) \in Nat /\ FirstStamp(clock') \in Nat
    <3>1. (clock + 1) * StampsPerPhase \in Nat
      BY <1>1, CaptureAssumption
    <3> QED
      BY <1>1, <3>1 DEF LastStamp, FirstStamp
  <2>3. vendor.stamp <= LastStamp(clock) /\ vendor.stamp \in Nat /\ vendor' \in Chain
    BY DEF CaptureInv, CaptureTypeOK, ClockInv, Chain
  <2> QED
    BY <2>1, <2>2, <2>3
<1>4. OneBookAStamp'
  BY <1>1, <1>3, NewStampKeepsBooks
<1>5. WorkerOnTime'
  <2>1. worker \in {"up", "down"} /\ due = {}
    BY DEF Advance, CloseInv, WorkerOnTime, CaptureInv, CaptureTypeOK
  <2>2. "eod" \in Fires(clock') => clock' % 3 = 1
    <3>1. clock' % 3 = 0 \/ clock' % 3 = 1 \/ clock' % 3 = 2
      BY <1>1
    <3>2. clock' % 3 = 0 => Fires(clock') = {"intraday"}
      BY DEF Fires
    <3>3. clock' % 3 = 2 => Fires(clock') = {"net", "prune"}
      BY DEF Fires
    <3> QED
      BY <3>1, <3>2, <3>3
  <2>3. due' = IF worker = "down" THEN {} ELSE Fires(clock')
    BY <2>1 DEF Advance
  <2> QED
    BY <1>1, <2>1, <2>2, <2>3 DEF WorkerOnTime, AfterCutoff, Session
<1>6. EodJobsOfEvening'
  BY <1>1 DEF Advance, Running, AfterCutoff, CloseInv, EodJobsOfEvening
<1>7. EodRowsOfEvening'
  <2> SUFFICES ASSUME NEW s \in eod, Day(Taken(s)) = Day(clock')
               PROVE  AfterCutoff(clock') /\ book[s] = vendor'.book
    BY <1>1 DEF EodRowsOfEvening
  <2>1. s \in Rows /\ s \in Nat /\ 1 <= s
    BY DEF CaptureInv, CaptureTypeOK, Rows, Stamps
  <2>2. s <= vendor.stamp
    <3> DEFINE row == [stamp |-> s, book |-> book[s]]
    <3>1. row \in KnownChains /\ row.stamp = s
      BY <2>1 DEF KnownChains
    <3> HIDE DEF row
    <3> QED
      BY <3>1 DEF CloseInv, OneBookAStamp
  <2>3. Taken(s) \in Nat /\ Taken(s) <= clock
    <3>1. vendor.stamp \in Nat /\ vendor.stamp <= LastStamp(clock) /\ LastStamp(clock) \in Nat
      BY <1>1, PhaseStamps DEF CaptureInv, CaptureTypeOK, ClockInv, Chain
    <3> QED
      BY <1>1, <2>1, <2>2, <3>1, TakenUpTo, TakenGrows
  <2>4. Day(clock) = Day(clock') /\ ~Session(clock')
    BY <1>1, <2>3 DEF Day, Session
  <2>5. Day(Taken(s)) = Day(clock) /\ vendor' = vendor
    BY <1>2, <2>4
  <2> QED
    BY <2>4, <2>5 DEF CloseInv, EodRowsOfEvening, AfterCutoff
<1>8. CloseIsKept'
  BY <1>1 DEF CloseInv, CloseIsKept
<1> QED
  BY <1>4, <1>5, <1>6, <1>7, <1>8 DEF CloseInv

LEMMA RefreshKeepsClose ==
    ASSUME EodIsOfTheEvening, CaptureInv, CaptureInv', CloseInv, Refresh
    PROVE  CloseInv'
<1>1. UNCHANGED <<book, eod, job, worker, due, vouched, clock>>
  BY DEF Refresh, indexVars, workVars
<1>2. /\ vendor' \in Chain /\ vendor.stamp < vendor'.stamp
      /\ AfterCutoff(clock) => vendor'.book = vendor.book
  <2> DEFINE next == IF vendor.stamp < FirstStamp(clock) THEN FirstStamp(clock) ELSE vendor.stamp + 1
  <2>1. vendor.stamp \in Nat /\ FirstStamp(clock) \in Nat /\ vendor' \in Chain
    BY PhaseStamps DEF CaptureInv, CaptureTypeOK, Chain
  <2>2. vendor'.stamp = next /\ (~Open(clock) => vendor'.book = vendor.book)
    BY DEF Refresh
  <2> QED
    BY <2>1, <2>2 DEF AfterCutoff, Open
<1>3. OneBookAStamp'
  BY <1>1, <1>2, NewStampKeepsBooks
<1>4. EodJobsOfEvening' /\ EodRowsOfEvening' /\ WorkerOnTime' /\ CloseIsKept'
  BY <1>1, <1>2 DEF CloseInv, EodJobsOfEvening, EodRowsOfEvening, WorkerOnTime, CloseIsKept
<1> QED
  BY <1>3, <1>4 DEF CloseInv

LEMMA CloseInvStarts == Init => CloseInv
<1> SUFFICES ASSUME Init PROVE CloseInv
  OBVIOUS
<1>1. Rows = {} /\ \A j \in Jobs : job[j].at = "off"
  BY OffIsWork DEF Init, Rows
<1>2. KnownChains = {vendor} /\ vendor.stamp = 1
  BY <1>1 DEF KnownChains, Init, Carrying
<1>3. OneBookAStamp
  BY <1>2 DEF OneBookAStamp
<1> QED
  BY <1>1, <1>3 DEF Init, CloseInv, WorkerOnTime, EodJobsOfEvening, EodRowsOfEvening, CloseIsKept

LEMMA CloseInvStays == EodIsOfTheEvening /\ CaptureInv /\ CloseInv /\ [Next]_vars => CloseInv'
<1> SUFFICES ASSUME EodIsOfTheEvening, CaptureInv, CloseInv, [Next]_vars PROVE CloseInv'
  OBVIOUS
<1>0. CaptureInv'
  BY CaptureInvStays
<1>a. worker # "asleep" /\ (worker = "down" => due = {})
  BY DEF CloseInv, WorkerOnTime
<1>1. CASE Advance
  BY <1>0, <1>1, AdvanceKeepsClose
<1>2. CASE Refresh
  BY <1>0, <1>2, RefreshKeepsClose
<1>3. CASE Next /\ ~Advance /\ ~Refresh
  <2>1. UNCHANGED <<clock, vendor>> /\ \A k \in Jobs : JobGoes(k)
    BY <1>3, JobsGo
  <2>2. ASSUME NEW j \in Jobs, JobStep(j) PROVE CloseInv'
    <3>1. CASE Duplicate(j)
      BY <2>1, <3>1, DuplicateKeepsClose
    <3>2. CASE Insert(j)
      BY <2>1, <3>2, InsertKeepsClose
    <3>3. CASE CatchUpNoop(j)
      BY <2>1, <3>3, NoopKeepsClose
    <3>4. CASE UNCHANGED <<book, eod, vouched, worker>> /\ due' \subseteq due
      BY <1>a, <2>1, <3>4, CloseStays
    <3>5. CASE BeginCapture(j) \/ CatchUpTooEarly(j) \/ CatchUpFires(j)
      <4>1. UNCHANGED <<book, eod, vouched, worker>> /\ due' \subseteq due
        BY <3>5 DEF BeginCapture, CatchUpTooEarly, CatchUpFires, Begins, indexVars
      <4> QED
        BY <3>4, <4>1
    <3>6. CASE \/ Fetch(j) \/ Fresh(j) \/ LostRace(j) \/ CaptureFails(j)
               \/ ComputeLevels(j) \/ LevelsFail(j) \/ Publish(j)
      <4>1. UNCHANGED <<book, eod, vouched, worker>> /\ due' \subseteq due
        BY <3>6 DEF Fetch, Fresh, LostRace, CaptureFails, ComputeLevels, LevelsFail, Publish, indexVars
      <4> QED
        BY <3>4, <4>1
    <3> QED
      BY <2>2, <3>1, <3>2, <3>3, <3>5, <3>6 DEF JobStep
  <2>3. CASE PruneReads \/ PruneDeletes \/ Backfill \/ ManualCapture \/ ApiDies \/ TabSteps
    <3>1. UNCHANGED <<book, eod, vouched, worker>> /\ due' \subseteq due
      BY <2>3 DEF PruneReads, PruneDeletes, Backfill, ManualCapture, ApiDies, TabSteps, Begins,
                  indexVars, workVars
    <3> QED
      BY <1>a, <2>1, <3>1, CloseStays
  <2>4. CASE Boot \/ WorkerDies
    <3>1. UNCHANGED <<book, eod, vouched>> /\ worker' # "asleep" /\ (due' = {} \/ due' = {"boot"})
          /\ (worker' = "down" => due' = {})
      BY <2>4 DEF Boot, WorkerDies, indexVars
    <3> QED
      BY <2>1, <3>1, CloseStays
  <2>5. ~Sleep /\ ~Wake
    BY <1>a DEF Sleep, Wake, Fault, EodIsOfTheEvening
  <2> QED
    BY <1>3, <2>2, <2>3, <2>4, <2>5 DEF Next
<1>4. CASE UNCHANGED vars
  <2>1. \A k \in Jobs : JobGoes(k)
    BY <1>4 DEF vars, workVars, JobGoes
  <2> QED
    BY <1>4, <1>a, <2>1, CloseStays DEF vars, indexVars, workVars, envVars
<1> QED
  BY <1>1, <1>2, <1>3, <1>4

\* When EOD captures are of the evening, a close that one reported stored, or that the catch-up found
\* nothing missing of, is in a row with is_eod set: whatever captures overlap, are refused by the
\* unique constraint, fail or die with their process (_persist_sync, catch_up_missed_eod).
THEOREM CloseIsKeptHolds == ASSUME EodIsOfTheEvening PROVE Spec => []CloseIsKept
<1>1. CloseInv => CloseIsKept
  BY DEF CloseInv
<1>2. CaptureInv /\ CloseInv /\ [Next]_vars => CaptureInv' /\ CloseInv'
  BY CaptureInvStays, CloseInvStays
<1>3. Init => CaptureInv /\ CloseInv
  BY CaptureInvStarts, CloseInvStarts
<1> QED
  BY <1>1, <1>2, <1>3, PTL DEF Spec
=============================================================================
