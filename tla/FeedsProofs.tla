---------------------------- MODULE FeedsProofs -----------------------------
(***************************************************************************)
(* Proofs about what the nightly jobs store of their vendors: a day of a   *)
(* fund is stored once, as it was first read; a day bar that was offered   *)
(* is stored, and none of a session under way; a chain is whole or there   *)
(* is none; no release of the calendar is lost or told with hindsight.     *)
(***************************************************************************)
EXTENDS FlowRows, DailyBars, Chains, Releases, FiniteSetTheorems, WellFoundedInduction, TLAPS

-----------------------------------------------------------------------------
\* Every row a family's fetch returns is the row of a page.

PagesOnly(rows) == \A r \in rows : \E f \in Funds : r = RowOfPage(f)

LEMMA EachFundReads ==
    ASSUME NEW funds \in SUBSET Funds, NEW ends, NEW parsed,
           DOMAIN parsed = funds, \A f \in funds : parsed[f] = {{RowOfPage(f)}, {}},
           NEW rows \in EachFund(ends, parsed)
    PROVE  PagesOnly(rows)
<1> DEFINE Of(f) == UNION {IF end = "rows" THEN parsed[f] ELSE {{}} : end \in ends}
<1>1. PICK of \in [DOMAIN parsed -> UNION {Of(f) : f \in DOMAIN parsed}] :
          /\ \A f \in DOMAIN parsed : of[f] \in Of(f)
          /\ rows = UNION {of[f] : f \in DOMAIN parsed}
  BY DEF EachFund
<1>2. ASSUME NEW f \in funds PROVE of[f] \subseteq {RowOfPage(f)}
  <2>1. of[f] \in Of(f)
    BY <1>1
  <2>2. PICK end \in ends : of[f] \in IF end = "rows" THEN parsed[f] ELSE {{}}
    BY <2>1
  <2> QED
    BY <2>2
<1> QED
  BY <1>1, <1>2 DEF PagesOnly

LEMMA FamilyReadsPages ==
    ASSUME NEW i \in DOMAIN FlowFamilies, NEW rows \in FamilyReads(FlowFamilies[i])
    PROVE  PagesOnly(rows)
<1> DEFINE family == FlowFamilies[i]
           funds == FundsOf[family]
<1>1. family \in {"spdr", "ishares", "vaneck", "invesco", "uscf"}
  BY FlowRowsAssumption
<1>2. funds \in SUBSET Funds
  BY DEF Funds
<1> HIDE DEF family
<1>3. CASE family = "spdr"
  <2>1. rows \in SpdrParse(funds)
    BY <1>3 DEF FamilyReads, SpdrReads, family
  <2> QED
    BY <1>2, <2>1 DEF SpdrParse, PagesOnly
<1>4. CASE family = "ishares"
  <2>1. rows \in EachFund(ISharesEnds, [f \in funds |-> ISharesParse(f)])
    BY <1>4 DEF FamilyReads, ISharesReads, family
  <2> QED
    BY <1>2, <2>1, EachFundReads DEF ISharesParse
<1>5. CASE family = "vaneck"
  <2>1. rows \in EachFund(VanEckEnds, [f \in funds |-> VanEckParse(f)])
    BY <1>5 DEF FamilyReads, VanEckReads, family
  <2> QED
    BY <1>2, <2>1, EachFundReads DEF VanEckParse
<1>6. CASE family = "invesco"
  <2>1. rows \in EachFund(InvescoEnds, [f \in funds |-> InvescoParse(f)])
    BY <1>6 DEF FamilyReads, InvescoReads, family
  <2> QED
    BY <1>2, <2>1, EachFundReads DEF InvescoParse
<1>7. CASE family = "uscf"
  <2>1. rows \in EachFund(UscfEnds, [f \in funds |-> UscfParse(f)])
    BY <1>7 DEF FamilyReads, UscfReads, family
  <2> QED
    BY <1>2, <2>1, EachFundReads DEF UscfParse
<1> QED
  BY <1>1, <1>3, <1>4, <1>5, <1>6, <1>7

-----------------------------------------------------------------------------
OneRowADay == \A a, b \in flowRows : a.fund = b.fund /\ a.on = b.on => a = b
ReadIsStored == \A r \in read : \E s \in flowRows : s.fund = r.fund /\ s.on = r.on
FlowInv == OneRowADay /\ ReadIsStored

FlowsKept ==
    /\ flowRows \subseteq flowRows'
    /\ \A a, b \in flowRows' : a.fund = b.fund /\ a.on = b.on => a = b
    /\ \A r \in read' : \E s \in flowRows' : s.fund = r.fund /\ s.on = r.on
    /\ \A s \in flowRows' \ flowRows : s = RowOfPage(s.fund)

\* A family's rows are of pages, one a fund, so that what is added is of days that were not stored.
LEMMA InsertKeeps ==
    ASSUME FlowInv, NEW rows, PagesOnly(rows), InsertNew(rows), read' \subseteq read \cup rows
    PROVE  FlowInv' /\ FlowsKept
<1>1. flowRows' = flowRows \cup {n \in rows : ~\E r \in flowRows : n.fund = r.fund /\ n.on = r.on}
  BY DEF InsertNew
<1>2. \A r \in rows : r = RowOfPage(r.fund)
  BY DEF PagesOnly, RowOfPage
<1>3. \A a, b \in flowRows' : a.fund = b.fund /\ a.on = b.on => a = b
  <2> SUFFICES ASSUME NEW a \in flowRows', NEW b \in flowRows', a.fund = b.fund, a.on = b.on
               PROVE  a = b
    OBVIOUS
  <2>1. CASE a \in flowRows /\ b \in flowRows
    BY <2>1 DEF FlowInv, OneRowADay
  <2>2. CASE a \notin flowRows /\ b \notin flowRows
    <3>1. a = RowOfPage(a.fund) /\ b = RowOfPage(b.fund)
      BY <1>1, <1>2, <2>2
    <3> QED
      BY <3>1
  <2>3. CASE (a \in flowRows) # (b \in flowRows)
    BY <1>1, <2>3
  <2> QED
    BY <2>1, <2>2, <2>3
<1>4. \A r \in read' : \E s \in flowRows' : s.fund = r.fund /\ s.on = r.on
  <2> SUFFICES ASSUME NEW r \in read' PROVE \E s \in flowRows' : s.fund = r.fund /\ s.on = r.on
    OBVIOUS
  <2>1. CASE r \in read
    BY <1>1, <2>1 DEF FlowInv, ReadIsStored
  <2>2. CASE r \in rows
    <3>1. CASE \E s \in flowRows : r.fund = s.fund /\ r.on = s.on
      BY <1>1, <3>1
    <3>2. CASE ~\E s \in flowRows : r.fund = s.fund /\ r.on = s.on
      BY <1>1, <2>2, <3>2
    <3> QED
      BY <3>1, <3>2
  <2> QED
    BY <2>1, <2>2
<1>5. \A s \in flowRows' \ flowRows : s = RowOfPage(s.fund)
  BY <1>1, <1>2
<1> QED
  BY <1>1, <1>3, <1>4, <1>5 DEF FlowInv, OneRowADay, ReadIsStored, FlowsKept

LEMMA FlowStep == FlowInv /\ [FlowsNext]_flowVars => FlowInv' /\ [FlowsKept]_flowVars
<1> SUFFICES ASSUME FlowInv, FlowsNext PROVE FlowInv' /\ FlowsKept
  BY DEF FlowInv, OneRowADay, ReadIsStored, flowVars
<1>1. CASE FamilyIsRead
  <2>1. CASE UNCHANGED <<flowRows, read>>
    BY <2>1 DEF FlowInv, OneRowADay, ReadIsStored, FlowsKept
  <2>2. ASSUME NEW rows \in FamilyReads(FlowFamilies[flowJob + 1]), InsertNew(rows), read' = read \cup rows
        PROVE  FlowInv' /\ FlowsKept
    <3>1. flowJob + 1 \in DOMAIN FlowFamilies
      BY <1>1, FlowRowsAssumption DEF FamilyIsRead
    <3> QED
      BY <2>2, <3>1, FamilyReadsPages, InsertKeeps
  <2> QED
    BY <1>1, <2>1, <2>2 DEF FamilyIsRead
<1>2. CASE FlowsBegin \/ DatabaseFails \/ FlowsEnd
  BY <1>2 DEF FlowsBegin, DatabaseFails, FlowsEnd, FlowInv, OneRowADay, ReadIsStored, FlowsKept
<1>3. CASE FlowDayPasses \/ \E fund \in Funds : IssuerPublishes(fund)
  BY <1>3 DEF FlowDayPasses, IssuerPublishes, FlowInv, OneRowADay, ReadIsStored, FlowsKept
<1> QED
  BY <1>1, <1>2, <1>3 DEF FlowsNext

\* The shares outstanding are kept as first read, whatever family fails, for every set of families
\* and funds, every number of attempts and any length of time.
THEOREM FlowsAreKeptHolds == FlowsSpec => FlowsAreKept
<1>1. FlowRowsInit => FlowInv
  BY DEF FlowRowsInit, FlowInv, OneRowADay, ReadIsStored
<1>2. FlowInv /\ [FlowsNext]_flowVars => FlowInv' /\ [FlowsKept]_flowVars
  BY FlowStep
<1> QED
  BY <1>1, <1>2, PTL DEF FlowsSpec, FlowsAreKept, FlowsKept
-----------------------------------------------------------------------------
\* The daily bars.

\* A finite set of integers has a largest element: the subsets above its elements have a least one.
LEMMA FiniteMax ==
    ASSUME NEW S \in SUBSET Int, IsFiniteSet(S), S # {}
    PROVE  Max(S) \in S /\ \A s \in S : s <= Max(S)
<1> DEFINE Above(m) == {s \in S : s > m}
           Sets == {Above(m) : m \in S}
<1>1. Sets \subseteq FiniteSubsetsOf(S) /\ Sets # {}
  <2>1. \A m \in S : Above(m) \subseteq S /\ IsFiniteSet(Above(m))
    BY FS_Subset
  <2> QED
    BY <2>1 DEF FiniteSubsetsOf
<1>2. PICK X \in Sets : \A Y \in Sets : ~(<<Y, X>> \in StrictSubsetOrdering(S))
  BY <1>1, FS_StrictSubsetOrderingWellFounded, WFMin
<1>3. PICK m \in S : X = Above(m)
  BY <1>2
<1>4. ASSUME NEW s \in S, s > m PROVE FALSE
  <2>1. Above(s) \subseteq Above(m) /\ s \in Above(m) /\ s \notin Above(s)
    <3>1. \A i, j, k \in Int : i > j /\ j > k => i > k
      OBVIOUS
    <3>2. s \in Int /\ m \in Int /\ ~(s > s)
      OBVIOUS
    <3> QED
      BY <1>4, <3>1, <3>2
  <2>2. Above(s) \in SUBSET S /\ Above(m) \in SUBSET S
    OBVIOUS
  <2>3. <<Above(s), Above(m)>> \in StrictSubsetOrdering(S)
    BY <2>1, <2>2 DEF StrictSubsetOrdering
  <2> QED
    BY <1>2, <1>3, <2>3
<1>5. \A s \in S : m >= s
  BY <1>4
<1> QED
  BY <1>5 DEF Max

LEMMA StoredToIsInt == StoredTo \in Int
<1> DEFINE S == {d \in BarDays : barRows[d] # "none"} \cup {-LastBarDay - BarOverlap}
<1>1. S \in SUBSET Int /\ S # {}
  BY DailyBarsAssumption DEF BarDays
<1>2. IsFiniteSet(S)
  <2>1. IsFiniteSet(BarDays)
    BY DailyBarsAssumption, FS_Interval DEF BarDays
  <2>2. IsFiniteSet({d \in BarDays : barRows[d] # "none"})
    BY <2>1, FS_Subset
  <2> QED
    BY <2>2, FS_AddElement
<1> QED
  BY <1>1, <1>2, FiniteMax DEF StoredTo

\* What a vendor shows of a day: nothing of a closed day or of one ahead, the session under way as
\* forming from one vendor only, and a final bar of a session that is over.
VendorIsHonest ==
    \A d \in BarDays : shown[d] # "null" =>
        /\ IsSession(d) /\ d <= today
        /\ IF shown[d] = "forming" THEN provider = "yahoo" /\ ~Over(d) ELSE Over(d)

BarsInv == DailyBarsTypeOK /\ VendorIsHonest /\ BarsAreWhole

LEMMA BarsInvInitially == DailyBarsInit => BarsInv
<1> SUFFICES ASSUME DailyBarsInit PROVE BarsInv
  OBVIOUS
<1>1. LastBarDay \in Nat /\ LastBarDay >= 1
  BY DailyBarsAssumption
<1>2. 1 \in BarDays
  BY <1>1 DEF BarDays
<1>3. DailyBarsTypeOK
  BY <1>2 DEF DailyBarsInit, DailyBarsTypeOK, Versions
<1> QED
  BY <1>3 DEF DailyBarsInit, BarsInv, VendorIsHonest, BarsAreWhole

\* A run that got rows stores final bars of sessions over, and every such bar it was offered.
LEMMA RunKeeps ==
    ASSUME BarsInv, NEW start \in Int, NEW answers, BarsRun(start, answers),
           \A d \in BarDays : d >= StoredTo - BarOverlap => d >= start,
           UNCHANGED <<provider, today, settled, shown>>
    PROVE  BarsInv'
<1> USE DEF BarsInv, DailyBarsTypeOK
<1>1. BarDays \subseteq Int /\ today \in Int
  BY DailyBarsAssumption DEF BarDays
<1>2. \A d \in ParsedRows(start) : d \in BarDays /\ shown[d] \in {"final", "revised"} /\ Over(d)
  <2> SUFFICES ASSUME NEW d \in ParsedRows(start)
               PROVE  d \in BarDays /\ shown[d] \in {"final", "revised"} /\ Over(d)
    OBVIOUS
  <2>1. d \in BarDays /\ shown[d] # "null"
    BY DEF ParsedRows, YahooRows, TiingoRows, CboeIndexRows
  <2>2. CASE provider = "yahoo"
    <3>1. Over(d)
      BY <2>2 DEF ParsedRows, YahooRows, YahooKeeps, Over
    <3>2. shown[d] # "forming"
      BY <2>1, <3>1 DEF VendorIsHonest
    <3> QED
      BY <2>1, <3>1, <3>2 DEF Versions
  <2>3. CASE provider # "yahoo"
    <3>1. shown[d] # "forming" /\ Over(d)
      BY <2>1, <2>3 DEF VendorIsHonest
    <3> QED
      BY <2>1, <3>1 DEF Versions
  <2> QED
    BY <2>2, <2>3
<1>3. \A d \in BarDays : shown[d] \in {"final", "revised"} /\ d >= start => d \in ParsedRows(start)
  <2> SUFFICES ASSUME NEW d \in BarDays, shown[d] \in {"final", "revised"}, d >= start
               PROVE  d \in ParsedRows(start)
    OBVIOUS
  <2>1. IsSession(d) /\ Over(d) /\ shown[d] # "null"
    BY DEF VendorIsHonest
  <2> QED
    BY <2>1 DEF ParsedRows, YahooRows, TiingoRows, CboeIndexRows, YahooKeeps, Over
<1>4. CASE UNCHANGED <<barRows, offered>>
  BY <1>4 DEF VendorIsHonest, BarsAreWhole, IsSession, Over
<1>5. CASE /\ Upsert(ParsedRows(start))
           /\ offered' = offered \cup {d \in BarDays : shown[d] \in {"final", "revised"}
                                                        /\ d >= StoredTo - BarOverlap}
  <2>1. barRows' \in [BarDays -> Versions \cup {"none"}] /\ offered' \subseteq BarDays
    BY <1>2, <1>5 DEF Upsert, Versions
  <2>2. VendorIsHonest'
    BY DEF VendorIsHonest, IsSession, Over
  <2>3. \A d \in offered' : barRows'[d] \in {"final", "revised"}
    BY <1>2, <1>3, <1>5 DEF Upsert, BarsAreWhole
  <2>4. \A d \in BarDays : barRows'[d] # "none" => Over(d)' /\ barRows'[d] # "forming"
    BY <1>2, <1>5 DEF Upsert, BarsAreWhole, Over
  <2> QED
    BY <2>1, <2>2, <2>3, <2>4 DEF BarsAreWhole
<1> QED
  BY <1>4, <1>5 DEF BarsRun

LEMMA BarsInvStays == BarsInv /\ [DailyBarsNext]_dailyVars => BarsInv'
<1> SUFFICES ASSUME BarsInv, [DailyBarsNext]_dailyVars PROVE BarsInv'
  OBVIOUS
<1>0. BarDays \subseteq Int /\ today \in Int /\ today \in BarDays /\ LastBarDay \in Nat
  BY DailyBarsAssumption DEF BarDays, BarsInv, DailyBarsTypeOK
<1>1. CASE NextDay
  <2>1. today' \in BarDays
    BY <1>0, <1>1 DEF NextDay, BarDays
  <2>2. \A d \in BarDays : Over(d) => Over(d)'
    BY <1>0, <1>1 DEF NextDay, Over
  <2>3. \A d \in BarDays : shown[d] # "forming"
    BY <1>0, <1>1 DEF NextDay, BarsInv, VendorIsHonest, Over
  <2>4. VendorIsHonest'
    BY <1>0, <1>1, <2>2, <2>3 DEF NextDay, BarsInv, VendorIsHonest, IsSession
  <2>5. BarsAreWhole'
    BY <1>1, <2>2 DEF NextDay, BarsInv, BarsAreWhole
  <2> QED
    BY <1>1, <2>1, <2>4, <2>5 DEF NextDay, BarsInv, DailyBarsTypeOK
<1>2. CASE SessionSettles
  <2>1. \A d \in BarDays : Over(d) => Over(d)'
    BY <1>0, <1>2 DEF SessionSettles, Over
  <2>2. DailyBarsTypeOK'
    BY <1>2 DEF SessionSettles, BarsInv, DailyBarsTypeOK, Versions
  <2>3. \A d \in BarDays : shown'[d] # "forming" /\ (shown[d] = "forming" => d = today)
    BY <1>0, <1>2 DEF SessionSettles, BarsInv, VendorIsHonest, DailyBarsTypeOK, Over
  <2>4. VendorIsHonest'
    BY <1>0, <1>2, <2>1, <2>3
    DEF SessionSettles, BarsInv, VendorIsHonest, IsSession, Over, DailyBarsTypeOK
  <2> QED
    BY <1>2, <2>1, <2>2, <2>4 DEF SessionSettles, BarsInv, BarsAreWhole
<1>3. CASE BarsJob
  <2>1. PICK answers \in [1 .. MaxAttempts -> Answers] : BarsRun(StartOfUpdate, answers)
    BY <1>3 DEF BarsJob
  <2>2. StartOfUpdate \in Int
    BY StoredToIsInt, DailyBarsAssumption DEF StartOfUpdate
  <2> QED
    BY <1>3, <2>1, <2>2, RunKeeps DEF BarsJob, StartOfUpdate
<1>4. CASE Backfill
  <2>1. PICK answers \in [1 .. MaxAttempts -> Answers], force \in BOOLEAN :
            BarsRun(IF force THEN -LastBarDay ELSE StoredTo - UpToDate, answers)
    BY <1>4 DEF Backfill
  <2> DEFINE start == IF force THEN -LastBarDay ELSE StoredTo - UpToDate
  <2>2. start \in Int /\ \A d \in BarDays : d >= StoredTo - BarOverlap => d >= start
    BY StoredToIsInt, DailyBarsAssumption DEF BarDays
  <2> HIDE DEF start
  <2>3. BarsRun(start, answers)
    BY <2>1 DEF start
  <2> QED
    BY <1>4, <2>2, <2>3, RunKeeps DEF Backfill
<1>5. ASSUME NEW d \in BarDays, VendorShows(d) PROVE BarsInv'
  BY <1>0, <1>5
  DEF VendorShows, BarsInv, DailyBarsTypeOK, VendorIsHonest, BarsAreWhole, Versions, IsSession, Over
<1>6. CASE UNCHANGED dailyVars
  BY <1>6 DEF dailyVars, BarsInv, DailyBarsTypeOK, VendorIsHonest, BarsAreWhole, IsSession, Over
<1> QED
  BY <1>1, <1>2, <1>3, <1>4, <1>5, <1>6 DEF DailyBarsNext

\* A day a good run was offered is stored, and no bar of a session under way ever is, for every
\* vendor, overlap, pattern of failures and history of days shown late.
THEOREM BarsAreWholeHolds == DailyBarsSpec => []BarsAreWhole
<1>1. BarsInv => BarsAreWhole
  BY DEF BarsInv
<1> QED
  BY <1>1, BarsInvInitially, BarsInvStays, PTL DEF DailyBarsSpec

-----------------------------------------------------------------------------
\* The chains.

LEMMA ItemOfSeq == ASSUME NEW S, NEW s \in Seq(S), NEW i \in DOMAIN s PROVE s[i] \in S
OBVIOUS

LEMMA ListIsSeq == ASSUME NEW S, NEW n \in Nat, NEW s \in [1 .. n -> S] PROVE s \in Seq(S)
OBVIOUS

LEMMA JoinIsSeq == ASSUME NEW S, NEW s \in Seq(S), NEW t \in Seq(S) PROVE s \o t \in Seq(S)
OBVIOUS

ChainInv ==
    /\ interest \in Seq([key : Contracts \cup {Malformed}, oi : {0, 1}])
    /\ givenUp # {} => chain.is = "unavailable"
    /\ ChainIsAsServed

\* The open interest a contract is given is that of a row of its own.
LEMMA InterestIsOfItsRow ==
    ASSUME interest \in Seq([key : Contracts \cup {Malformed}, oi : {0, 1}]), NEW key
    PROVE  IF key \in KeysOfRows(interest)
           THEN \E i \in DOMAIN interest : interest[i] = [key |-> key, oi |-> InterestOf(key)]
           ELSE key = Malformed \/ InterestOf(key) = NoInterest
<1> DEFINE of == {i \in DOMAIN interest : interest[i].key = key}
<1>1. DOMAIN interest = 1 .. Len(interest) /\ Len(interest) \in Nat
  OBVIOUS
<1>2. InterestOf(key) = IF of = {} THEN NoInterest ELSE interest[Max(of)].oi
  BY DEF InterestOf
<1>3. CASE of = {}
  <2>1. key \notin KeysOfRows(interest)
    BY <1>3 DEF KeysOfRows
  <2> QED
    BY <1>2, <1>3, <2>1
<1>4. CASE of # {}
  <2>1. of \subseteq 1 .. Len(interest) /\ IsFiniteSet(of) /\ of \subseteq Int
    <3>1. IsFiniteSet(1 .. Len(interest)) /\ of \subseteq 1 .. Len(interest)
      BY <1>1, FS_Interval
    <3>2. IsFiniteSet(of)
      BY <3>1, FS_Subset
    <3>3. \A i \in 1 .. Len(interest) : i \in Int
      BY <1>1
    <3> QED
      BY <3>1, <3>2, <3>3
  <2>2. Max(of) \in of
    <3>1. \E m \in of : \A n \in of : m >= n
      BY <1>4, <2>1, FiniteMax
    <3> QED
      BY <3>1 DEF Max
  <2>3. interest[Max(of)] \in [key : Contracts \cup {Malformed}, oi : {0, 1}] /\ interest[Max(of)].key = key
    <3>1. \A i \in DOMAIN interest : interest[i] \in [key : Contracts \cup {Malformed}, oi : {0, 1}]
      BY ItemOfSeq
    <3> QED
      BY <2>2, <3>1
  <2>4. interest[Max(of)] = [key |-> key, oi |-> InterestOf(key)]
    BY <1>2, <1>4, <2>3
  <2>5. key \in KeysOfRows(interest) \/ key = Malformed
    BY <2>2 DEF KeysOfRows
  <2> QED
    BY <2>2, <2>4, <2>5
<1> QED
  BY <1>3, <1>4

LEMMA ChainStep == ChainInv /\ [ChainsNext]_chainVars => ChainInv'
<1> SUFFICES ASSUME ChainInv, [ChainsNext]_chainVars PROVE ChainInv'
  OBVIOUS
<1>1. CASE Ask
  <2>1. chain.is = "asking" /\ UNCHANGED feed /\ givenUp = {}
    BY <1>1 DEF Ask, ChainInv
  <2>2. \/ /\ UNCHANGED <<chain, givenUp>>
           /\ \/ UNCHANGED interest
              \/ \E rows \in RowsServed(Head(asks)) \cup {<<>>} :
                    Head(asks)[1] = "interest" /\ interest' = interest \o rows
        \/ Unavailable /\ UNCHANGED interest
    BY <1>1 DEF Ask
  <2>3. ASSUME NEW rows \in RowsServed(Head(asks)) \cup {<<>>}, Head(asks)[1] = "interest", interest' = interest \o rows
        PROVE  interest' \in Seq([key : Contracts \cup {Malformed}, oi : {0, 1}])
    <3>1. rows = <<>> \/ rows \in Served(InterestRows(Head(asks)[2]))
      BY <2>3 DEF RowsServed
    <3>2. InterestRows(Head(asks)[2]) \subseteq [key : Contracts \cup {Malformed}, oi : {0, 1}]
      BY DEF InterestRows
    <3>3. MaxRowsServed \in Nat
      BY ChainsAssumption DEF ChainsAssumption
    <3>4. rows \in Seq([key : Contracts \cup {Malformed}, oi : {0, 1}])
      <4>1. CASE rows = <<>>
        BY <4>1
      <4>2. CASE rows \in Served(InterestRows(Head(asks)[2]))
        <5>1. PICK n \in 0 .. MaxRowsServed : rows \in [1 .. n -> InterestRows(Head(asks)[2])]
          BY <4>2 DEF Served
        <5>2. n \in Nat /\ rows \in [1 .. n -> [key : Contracts \cup {Malformed}, oi : {0, 1}]]
          BY <3>2, <3>3, <5>1
        <5> QED
          BY <5>2, ListIsSeq
      <4> QED
        BY <3>1, <4>1, <4>2
    <3> QED
      BY <2>3, <3>4, JoinIsSeq DEF ChainInv
  <2>4. interest' \in Seq([key : Contracts \cup {Malformed}, oi : {0, 1}])
    BY <2>2, <2>3 DEF ChainInv
  <2>5. chain'.is # "chain" /\ (givenUp' # {} => chain'.is = "unavailable")
    BY <2>1, <2>2 DEF Unavailable
  <2> QED
    BY <2>4, <2>5 DEF ChainInv, ChainIsAsServed
<1>2. CASE Assemble
  <2>1. chain.is = "asking" /\ UNCHANGED <<feed, asks, greeks, interest, givenUp>> /\ givenUp = {}
    BY <1>2 DEF Assemble, ChainInv
  <2>2. CASE chain'.is = "chain"
    <3> DEFINE contract(key) == [key |-> key, oi |-> IF feed = "thetadata" THEN InterestOf(key) ELSE 0]
    <3>1. KeysOfRows(greeks) # {} /\ chain'.contracts = {contract(key) : key \in KeysOfRows(greeks)}
      BY <1>2, <2>2 DEF Assemble, Unavailable
    <3>2. \A key \in KeysOfRows(greeks) : key # Malformed /\ contract(key).key = key
      BY DEF KeysOfRows
    <3>3. chain'.contracts # {} /\ \A c, d \in chain'.contracts : c.key = d.key => c = d
      <4>1. \A c \in chain'.contracts : c = contract(c.key)
        BY <3>1, <3>2
      <4> HIDE DEF contract
      <4> QED
        BY <3>1, <4>1
    <3>4. {c.key : c \in chain'.contracts} = KeysOfRows(greeks)
      <4> HIDE DEF contract
      <4> QED
        BY <3>1, <3>2
    <3>5. ASSUME feed = "thetadata", NEW c \in chain'.contracts
          PROVE  IF c.key \in KeysOfRows(interest)
                 THEN \E i \in DOMAIN interest : interest[i] = c
                 ELSE c.oi = NoInterest
      <4>1. PICK key \in KeysOfRows(greeks) : c = contract(key)
        BY <3>1
      <4>2. c = [key |-> key, oi |-> InterestOf(key)] /\ key # Malformed /\ c.key = key /\ c.oi = InterestOf(key)
        BY <3>2, <3>5, <4>1
      <4> QED
        BY <4>2, InterestIsOfItsRow DEF ChainInv
    <3>6. KeysOfRows(interest)' = KeysOfRows(interest) /\ KeysOfRows(greeks)' = KeysOfRows(greeks)
      BY <2>1 DEF KeysOfRows
    <3> QED
      BY <2>1, <3>3, <3>4, <3>5, <3>6 DEF ChainInv, ChainIsAsServed
  <2>3. CASE chain'.is # "chain"
    BY <2>1, <2>3 DEF ChainInv, ChainIsAsServed
  <2> QED
    BY <2>2, <2>3
<1>3. CASE UNCHANGED chainVars
  <2>1. UNCHANGED <<feed, greeks, interest, chain, givenUp>>
    BY <1>3 DEF chainVars
  <2>2. KeysOfRows(interest)' = KeysOfRows(interest) /\ KeysOfRows(greeks)' = KeysOfRows(greeks)
    BY <2>1 DEF KeysOfRows
  <2> QED
    BY <2>1, <2>2 DEF ChainInv, ChainIsAsServed
<1> QED
  BY <1>1, <1>2, <1>3 DEF ChainsNext

\* A chain is what was served, all of it, or there is none, for every set of roots and whatever the
\* vendors answer (cboe.py, marketdata.py, thetadata.py).
THEOREM ChainIsAsServedHolds == ChainsSpec => []ChainIsAsServed
<1>1. ChainsInit => ChainInv
  BY DEF ChainsInit, ChainInv, ChainIsAsServed
<1> QED
  BY <1>1, ChainStep, PTL DEF ChainsSpec, ChainInv

-----------------------------------------------------------------------------
\* The economic calendar.

\* A source lists a title once at a time.
OneEventAMoment ==
    \A records \in Feeds : \A r, s \in records : r.title = s.title /\ r.at = s.at => r = s

\* What a refresh may carry: what a source lists, or nothing yet.
Listing(records) ==
    /\ IsFiniteSet(records)
    /\ \A r \in records : r = [title |-> r.title, at |-> r.at, consensus |-> r.consensus] /\ r.at \in Nat
    /\ \A r, s \in records : r.title = s.title /\ r.at = s.at => r = s

IsVintage(v) ==
    /\ v = [id |-> v.id, asOf |-> v.asOf, title |-> v.title, at |-> v.at, status |-> v.status,
            consensus |-> v.consensus]
    /\ v.at \in Nat /\ v.status \in {"scheduled", "removed"}

\* Each refresh is of a moment of its own, and every vintage of the moment of one that is over; none is
\* later than the newest that wrote.
ReleasesInv ==
    /\ instant \in 1 .. LastInstant /\ attempts \subseteq 1 .. instant
    /\ listed \in Feeds
    /\ refreshes \in [Refreshers -> [at : {"none", "begun", "fetched"}, asOf : Nat,
                                     records : {r \in Feeds \cup {{}} : Listing(r)}]]
    /\ \A p \in Refreshers : refreshes[p].at # "none" =>
          /\ refreshes[p].asOf \in attempts
          /\ \A v \in vintages : v.asOf # refreshes[p].asOf
          /\ \A q \in Refreshers \ {p} : refreshes[q].at # "none" => refreshes[q].asOf # refreshes[p].asOf
    /\ \A v \in vintages : IsVintage(v) /\ v.asOf \in attempts /\ v.asOf <= newest.asOf
    /\ \A v, w \in vintages : v.id = w.id /\ v.asOf = w.asOf => v = w
    /\ newest = [asOf |-> newest.asOf, records |-> newest.records, last |-> newest.last]
    /\ newest.asOf \in attempts \cup {0} /\ newest.last \in BOOLEAN
    /\ NoHindsight

-----------------------------------------------------------------------------
\* Two events of one fetch with one id are at one time.
LEMMA IdsApart ==
    ASSUME NEW records, Listing(records), NEW r \in records, NEW s \in records,
           ReleaseId(r, records) = ReleaseId(s, records)
    PROVE  r = s
<1> DEFINE others(x) == {y \in records : y.title = x.title /\ CalendarDay(y.at) = CalendarDay(x.at)}
<1>1. r.title = s.title /\ CalendarDay(r.at) = CalendarDay(s.at)
  BY DEF ReleaseId
<1>2. others(r) = others(s)
  BY <1>1
<1>3. CASE Cardinality(others(r)) > 1
  <2>1. r.at = s.at
    BY <1>2, <1>3 DEF ReleaseId
  <2> QED
    BY <1>1, <2>1 DEF Listing
<1>4. CASE ~(Cardinality(others(r)) > 1)
  <2>1. SUFFICES ASSUME r # s PROVE FALSE
    OBVIOUS
  <2>2. IsFiniteSet({r}) /\ Cardinality({r}) = 1
    BY FS_Singleton
  <2>3. IsFiniteSet({r} \cup {s}) /\ Cardinality({r} \cup {s}) = 2
    BY <2>1, <2>2, FS_AddElement
  <2>4. {r} \cup {s} \subseteq others(r) /\ others(r) \subseteq records
    BY <1>1
  <2> HIDE DEF others
  <2>5. IsFiniteSet(others(r)) /\ Cardinality(others(r)) \in Nat
    BY <2>4, FS_Subset, FS_CardinalityType DEF Listing
  <2>6. 2 <= Cardinality(others(r))
    BY <2>3, <2>4, <2>5, FS_Subset
  <2> QED
    BY <1>4, <2>5, <2>6
<1> QED
  BY <1>3, <1>4

\* Of an id the latest vintage is one.
OneLatest(rows) == \A v, w \in LatestOf(rows) : v.id = w.id => v = w

LEMMA LatestIsOne ==
    ASSUME NEW rows, \A v \in rows : v.asOf \in Int,
           \A v, w \in rows : v.id = w.id /\ v.asOf = w.asOf => v = w
    PROVE  OneLatest(rows)
<1> SUFFICES ASSUME NEW v \in LatestOf(rows), NEW w \in LatestOf(rows), v.id = w.id PROVE v = w
  BY DEF OneLatest
<1>1. v \in rows /\ w \in rows /\ v.asOf <= w.asOf /\ w.asOf <= v.asOf
  BY DEF LatestOf
<1>2. v.asOf = w.asOf
  BY <1>1
<1> QED
  BY <1>1, <1>2

\* Rows newer than all others are the latest of their ids.
LEMMA LatestAfter ==
    ASSUME NEW rows, NEW planned, NEW moment \in Int,
           \A v \in rows : v.asOf \in Int /\ v.asOf < moment, \A v \in planned : v.asOf = moment
    PROVE  LatestOf(rows \cup planned) = planned \cup {v \in LatestOf(rows) : v.id \notin IdsIn(planned)}
<1>1. ASSUME NEW v \in planned PROVE v \in LatestOf(rows \cup planned)
  BY DEF LatestOf
<1>2. ASSUME NEW v \in LatestOf(rows), v.id \notin IdsIn(planned) PROVE v \in LatestOf(rows \cup planned)
  BY <1>2 DEF LatestOf, IdsIn
<1>3. ASSUME NEW v \in LatestOf(rows \cup planned), v \notin planned
      PROVE  v \in LatestOf(rows) /\ v.id \notin IdsIn(planned)
  <2>1. v \in rows /\ \A w \in rows \cup planned : w.id = v.id => w.asOf <= v.asOf
    BY <1>3 DEF LatestOf
  <2>2. v.id \notin IdsIn(planned)
    <3> SUFFICES ASSUME NEW w \in planned, w.id = v.id PROVE FALSE
      BY DEF IdsIn
    <3>1. w.asOf <= v.asOf /\ v.asOf < moment /\ w.asOf = moment /\ v.asOf \in Int
      BY <2>1
    <3> QED
      BY <3>1
  <2> QED
    BY <2>1, <2>2 DEF LatestOf
<1> QED
  BY <1>1, <1>2, <1>3

-----------------------------------------------------------------------------
\* What a refresh plans.

RowsOfFetch(f) == {Vintage(ReleaseId(r, f.records), r, f.asOf, "scheduled") : r \in f.records}

LEMMA VintageFields ==
    ASSUME NEW id, NEW r, NEW asOf, NEW status \in {"scheduled", "removed"}, r.at \in Nat, asOf \in Nat
    PROVE  LET v == Vintage(id, r, asOf, status) IN
           /\ IsVintage(v) /\ v.id = id /\ v.asOf = asOf /\ v.title = r.title /\ v.at = r.at
           /\ v.status = status
           /\ v.consensus # NoConsensus => v.asOf < v.at
           /\ status = "scheduled" /\ asOf < r.at => v.consensus = r.consensus
BY DEF Vintage, IsVintage

LEMMA PlannedFields ==
    ASSUME ReleasesInv, NEW f, f.asOf \in Nat, Listing(f.records)
    PROVE  /\ \A v \in Planned(f) : IsVintage(v) /\ v.asOf = f.asOf /\ (v.consensus # NoConsensus => v.asOf < v.at)
           /\ \A v, w \in Planned(f) : v.id = w.id => v = w
           /\ \A w \in Planned(f), v \in LatestOf(vintages) : v.id = w.id => w.at > f.asOf
<1>1. ASSUME NEW v \in Adds(f)
      PROVE  \E r \in f.records : v = Vintage(ReleaseId(r, f.records), r, f.asOf, "scheduled")
  BY DEF Adds
<1>2. ASSUME NEW v \in Removes(f)
      PROVE  \E w \in LatestOf(vintages) :
                /\ v = Vintage(w.id, w, f.asOf, "removed") /\ w.at > f.asOf /\ w.at \in Nat
                /\ \A r \in f.records : w.id # ReleaseId(r, f.records)
  BY DEF Removes, LatestOf, ReleasesInv, IsVintage
<1>3. \A v \in Planned(f) : IsVintage(v) /\ v.asOf = f.asOf /\ (v.consensus # NoConsensus => v.asOf < v.at)
  <2>1. ASSUME NEW v \in Adds(f)
        PROVE  IsVintage(v) /\ v.asOf = f.asOf /\ (v.consensus # NoConsensus => v.asOf < v.at)
    <3>1. PICK r \in f.records : v = Vintage(ReleaseId(r, f.records), r, f.asOf, "scheduled")
      BY <1>1
    <3>2. r.at \in Nat
      BY DEF Listing
    <3> QED
      BY <3>1, <3>2, VintageFields
  <2>2. ASSUME NEW v \in Removes(f)
        PROVE  IsVintage(v) /\ v.asOf = f.asOf /\ (v.consensus # NoConsensus => v.asOf < v.at)
    <3>1. PICK w \in LatestOf(vintages) : v = Vintage(w.id, w, f.asOf, "removed") /\ w.at \in Nat
      BY <1>2
    <3> QED
      BY <3>1, VintageFields
  <2> QED
    BY <2>1, <2>2 DEF Planned
<1>4. OneLatest(vintages)
  <2>1. \A v \in vintages : v.asOf \in Int
    BY DEF ReleasesInv
  <2> QED
    BY <2>1, LatestIsOne DEF ReleasesInv
<1>5. ASSUME NEW v \in Adds(f), NEW w \in Adds(f), v.id = w.id PROVE v = w
  <2>1. PICK r \in f.records : v = Vintage(ReleaseId(r, f.records), r, f.asOf, "scheduled")
    BY <1>1
  <2>2. PICK s \in f.records : w = Vintage(ReleaseId(s, f.records), s, f.asOf, "scheduled")
    BY <1>1
  <2>3. ReleaseId(r, f.records) = ReleaseId(s, f.records)
    BY <1>5, <2>1, <2>2, VintageFields DEF Listing
  <2>4. r = s
    BY <2>3, IdsApart
  <2> QED
    BY <2>1, <2>2, <2>4
<1>6. ASSUME NEW v \in Removes(f), NEW w \in Removes(f), v.id = w.id PROVE v = w
  <2>1. PICK x \in LatestOf(vintages) : v = Vintage(x.id, x, f.asOf, "removed") /\ x.at \in Nat
    BY <1>2
  <2>2. PICK y \in LatestOf(vintages) : w = Vintage(y.id, y, f.asOf, "removed") /\ y.at \in Nat
    BY <1>2
  <2>3. x.id = y.id
    BY <1>6, <2>1, <2>2, VintageFields
  <2> QED
    BY <1>4, <2>1, <2>2, <2>3 DEF OneLatest
<1>7. ASSUME NEW v \in Adds(f), NEW w \in Removes(f) PROVE v.id # w.id
  <2>1. PICK r \in f.records : v = Vintage(ReleaseId(r, f.records), r, f.asOf, "scheduled")
    BY <1>1
  <2>2. PICK y \in LatestOf(vintages) : /\ w = Vintage(y.id, y, f.asOf, "removed") /\ y.at \in Nat
                                        /\ \A s \in f.records : y.id # ReleaseId(s, f.records)
    BY <1>2
  <2> QED
    BY <2>1, <2>2, VintageFields DEF Listing
<1>8. ASSUME NEW w \in Planned(f), NEW v \in LatestOf(vintages), v.id = w.id PROVE w.at > f.asOf
  <2>1. CASE w \in Adds(f)
    <3>1. w.id \in IdsIn(LatestOf(vintages))
      BY <1>8 DEF IdsIn
    <3> QED
      BY <2>1, <3>1 DEF Adds
  <2>2. CASE w \in Removes(f)
    <3>1. PICK y \in LatestOf(vintages) : w = Vintage(y.id, y, f.asOf, "removed") /\ y.at \in Nat /\ y.at > f.asOf
      BY <1>2, <2>2
    <3> QED
      BY <3>1, VintageFields
  <2> QED
    BY <2>1, <2>2 DEF Planned
<1>9. \A v, w \in Planned(f) : v.id = w.id => v = w
  BY <1>5, <1>6, <1>7 DEF Planned
<1> QED
  BY <1>3, <1>8, <1>9

-----------------------------------------------------------------------------
\* What a refresh that ends as the newest leaves ahead of it is what it was shown.

Shown(rows, asOf, records) ==
    LET over == {ReleaseId(r, records) : r \in {s \in records : s.at <= asOf}}
        ahead == {v \in LatestOf(rows) : /\ v.status = "scheduled" /\ v.at > asOf
                                         /\ v.id \notin over /\ Spanned(v.at, records)} IN
    /\ {[title |-> v.title, at |-> v.at, consensus |-> v.consensus] : v \in ahead}
          = {r \in records : r.at > asOf}
    /\ \A v, w \in ahead : v.title = w.title /\ v.at = w.at => v = w

LEMMA ShowsNewestIsShown ==
    ShowsNewest <=> (newest.last => Shown(vintages, newest.asOf, newest.records))
<1> DEFINE over == {ReleaseId(r, newest.records) : r \in {s \in newest.records : s.at <= newest.asOf}}
<1>1. {v \in Upcoming(newest.asOf) : v.id \notin over /\ Spanned(v.at, newest.records)}
        = {v \in LatestOf(vintages) : /\ v.status = "scheduled" /\ v.at > newest.asOf
                                      /\ v.id \notin over /\ Spanned(v.at, newest.records)}
  BY DEF Upcoming
<1> HIDE DEF over
<1> QED
  BY <1>1 DEF ShowsNewest, Shown, over

LEMMA ShowsNewestNextIsShown ==
    ShowsNewest' <=> (newest'.last => Shown(vintages', newest'.asOf, newest'.records))
<1> DEFINE over == {ReleaseId(r, newest'.records) : r \in {s \in newest'.records : s.at <= newest'.asOf}}
<1>1. {v \in Upcoming(newest.asOf)' : v.id \notin over /\ Spanned(v.at, newest'.records)}
        = {v \in LatestOf(vintages') : /\ v.status = "scheduled" /\ v.at > newest'.asOf
                                       /\ v.id \notin over /\ Spanned(v.at, newest'.records)}
  BY DEF Upcoming, LatestOf
<1> HIDE DEF over
<1> QED
  BY <1>1 DEF ShowsNewest, Shown, over, ReleaseId, Spanned, Upcoming, CalendarDay

LEMMA NewestIsShown ==
    ASSUME ReleasesInv, NEW f, f.asOf \in Nat, Listing(f.records), newest.asOf < f.asOf
    PROVE  Shown(vintages \cup Planned(f), f.asOf, f.records)
<1> DEFINE id(r) == ReleaseId(r, f.records)
           row(r) == Vintage(id(r), r, f.asOf, "scheduled")
           over == {id(r) : r \in {s \in f.records : s.at <= f.asOf}}
           planned == Planned(f)
           after == LatestOf(vintages \cup planned)
           ahead == {v \in after : /\ v.status = "scheduled" /\ v.at > f.asOf
                                   /\ v.id \notin over /\ Spanned(v.at, f.records)}
<1>1. after = planned \cup {v \in LatestOf(vintages) : v.id \notin IdsIn(planned)}
  <2>1. \A v \in vintages : v.asOf \in Int /\ v.asOf < f.asOf
    <3> SUFFICES ASSUME NEW v \in vintages PROVE v.asOf \in Int /\ v.asOf < f.asOf
      OBVIOUS
    <3>1. v.asOf \in 1 .. instant /\ instant \in Nat /\ newest.asOf \in Nat /\ v.asOf <= newest.asOf
      BY ReleasesAssumption DEF ReleasesInv, ReleasesAssumption
    <3> QED
      BY <3>1
  <2>2. \A v \in planned : v.asOf = f.asOf
    BY PlannedFields
  <2> HIDE DEF planned
  <2> QED
    BY <2>1, <2>2, LatestAfter
<1>2. OneLatest(vintages)
  <2>1. \A v \in vintages : v.asOf \in Int
    BY DEF ReleasesInv
  <2> QED
    BY <2>1, LatestIsOne DEF ReleasesInv
<1>3. \A r \in f.records :
          /\ row(r).id = id(r) /\ row(r).title = r.title /\ row(r).at = r.at /\ row(r).status = "scheduled"
          /\ r.at > f.asOf => row(r).consensus = r.consensus
          /\ r.at \in Nat /\ r = [title |-> r.title, at |-> r.at, consensus |-> r.consensus]
  BY VintageFields DEF Listing
<1>4. \A v, w : SameVintage(v, w) /\ IsVintage(v) /\ IsVintage(w) =>
          /\ v.id = w.id /\ v.title = w.title /\ v.at = w.at /\ v.status = w.status /\ v.consensus = w.consensus
  BY DEF SameVintage, IsVintage
<1>5. \A r \in f.records : IsVintage(row(r))
  BY VintageFields DEF Listing
<1>6. \A w \in LatestOf(vintages) : IsVintage(w)
  BY DEF LatestOf, ReleasesInv
<1>7. \A r, s \in f.records : id(r) = id(s) => r = s
  BY IdsApart
\* Every event ahead is there.
<1>8. ASSUME NEW r \in f.records, r.at > f.asOf
      PROVE  \E v \in ahead : v.id = id(r) /\ v.title = r.title /\ v.at = r.at /\ v.consensus = r.consensus
  <2>1. id(r) \notin over
    <3> SUFFICES ASSUME NEW s \in f.records, s.at <= f.asOf, id(r) = id(s) PROVE FALSE
      OBVIOUS
    <3>1. r = s
      BY <1>7
    <3>2. r.at \in Nat
      BY <1>3
    <3> HIDE DEF id
    <3> QED
      BY <1>8, <3>1, <3>2
  <2>2. Spanned(r.at, f.records)
    <3>1. r.at <= r.at
      BY <1>3
    <3> QED
      BY <3>1 DEF Spanned
  <2>3. CASE row(r) \in Adds(f)
    <3>1. row(r) \in after
      BY <1>1, <2>3 DEF Planned
    <3> HIDE DEF after, row, id, over
    <3> QED
      BY <1>3, <1>8, <2>1, <2>2, <3>1
  <2>4. CASE row(r) \notin Adds(f)
    <3>1. PICK w \in LatestOf(vintages) : SameVintage(row(r), w)
      BY <1>3, <1>8, <2>4 DEF Adds
    <3>2. w.id = id(r) /\ w.title = r.title /\ w.at = r.at /\ w.status = "scheduled" /\ w.consensus = r.consensus
      <4>1. /\ row(r).id = w.id /\ row(r).title = w.title /\ row(r).at = w.at
            /\ row(r).status = w.status /\ row(r).consensus = w.consensus
        BY <1>4, <1>5, <1>6, <3>1
      <4> HIDE DEF row, id
      <4> QED
        BY <1>3, <1>8, <4>1
    <3>3. w.id \notin IdsIn(planned)
      <4> SUFFICES ASSUME NEW v \in planned, v.id = w.id PROVE FALSE
        BY DEF IdsIn
      <4>1. CASE v \in Adds(f)
        <5>1. PICK s \in f.records : v = row(s)
          BY <4>1 DEF Adds
        <5>2. id(s) = id(r)
          BY <1>3, <3>2, <5>1
        <5> QED
          BY <1>7, <2>4, <4>1, <5>1, <5>2
      <4>2. CASE v \in Removes(f)
        <5>1. PICK y \in LatestOf(vintages) :
                  v = Vintage(y.id, y, f.asOf, "removed") /\ y.id \notin {id(s) : s \in f.records}
          BY <4>2 DEF Removes
        <5>2. v.id = y.id
          BY <5>1 DEF Vintage
        <5> QED
          BY <3>2, <5>1, <5>2
      <4> QED
        BY <4>1, <4>2 DEF Planned
    <3>4. w \in after
      BY <1>1, <3>3
    <3> HIDE DEF after, row, id, over
    <3> QED
      BY <1>8, <2>1, <2>2, <3>2, <3>4
  <2> QED
    BY <2>3, <2>4
\* Nothing else is.
<1>9. ASSUME NEW v \in ahead
      PROVE  \E r \in f.records : /\ r.at > f.asOf /\ v.id = id(r) /\ v.title = r.title /\ v.at = r.at
                                  /\ v.consensus = r.consensus
  <2>1. v \in after /\ v.status = "scheduled" /\ v.at > f.asOf /\ v.id \notin over /\ Spanned(v.at, f.records)
    OBVIOUS
  <2>2. CASE v \in Adds(f)
    <3>1. PICK r \in f.records : v = row(r)
      BY <2>2 DEF Adds
    <3>2. v.id = id(r) /\ v.title = r.title /\ v.at = r.at /\ (r.at > f.asOf => v.consensus = r.consensus)
      BY <1>3, <3>1
    <3> HIDE DEF after, row, id, over, ahead
    <3> QED
      BY <2>1, <3>2
  <2>3. CASE v \in Removes(f)
    <3>1. v.status = "removed"
      BY <2>3 DEF Removes, Vintage
    <3> QED
      BY <2>1, <3>1
  <2>4. CASE v \in LatestOf(vintages) /\ v.id \notin IdsIn(planned)
    <3>1. v.id \in {id(r) : r \in f.records}
      <4> SUFFICES ASSUME v.id \notin {id(r) : r \in f.records} PROVE FALSE
        OBVIOUS
      <4>1. Vintage(v.id, v, f.asOf, "removed") \in Removes(f)
        BY <2>1, <2>4 DEF Removes
      <4>2. Vintage(v.id, v, f.asOf, "removed").id = v.id
        BY DEF Vintage
      <4> QED
        BY <2>4, <4>1, <4>2 DEF IdsIn, Planned
    <3>2. PICK r \in f.records : v.id = id(r)
      BY <3>1
    <3>3. r.at > f.asOf
      <4>1. ~(r.at <= f.asOf)
        BY <2>1, <3>2
      <4>2. r.at \in Nat
        BY <1>3
      <4> QED
        BY <4>1, <4>2
    <3>4. row(r) \notin Adds(f)
      <4>1. row(r).id = v.id
        BY <1>3, <3>2
      <4> QED
        BY <2>4, <4>1 DEF IdsIn, Planned
    <3>5. PICK w \in LatestOf(vintages) : SameVintage(row(r), w)
      BY <1>3, <3>3, <3>4 DEF Adds
    <3>6. /\ row(r).id = w.id /\ row(r).title = w.title /\ row(r).at = w.at
          /\ row(r).status = w.status /\ row(r).consensus = w.consensus
      BY <1>4, <1>5, <1>6, <3>5
    <3>7. w.id = v.id
      BY <1>3, <3>2, <3>6
    <3>8. w = v
      BY <1>2, <2>4, <3>5, <3>7 DEF OneLatest
    <3> HIDE DEF after, row, id, over, ahead
    <3> QED
      BY <1>3, <3>2, <3>3, <3>6, <3>8
  <2>5. v \in planned \/ (v \in LatestOf(vintages) /\ v.id \notin IdsIn(planned))
    BY <1>1, <2>1
  <2> QED
    BY <2>2, <2>3, <2>4, <2>5 DEF Planned
<1>10. OneLatest(vintages \cup planned)
  <2>1. \A v \in vintages : v.asOf \in Int /\ v.asOf < f.asOf
    <3> SUFFICES ASSUME NEW v \in vintages PROVE v.asOf \in Int /\ v.asOf < f.asOf
      OBVIOUS
    <3>1. v.asOf \in 1 .. instant /\ instant \in Nat /\ newest.asOf \in Nat /\ v.asOf <= newest.asOf
      BY ReleasesAssumption DEF ReleasesInv, ReleasesAssumption
    <3> QED
      BY <3>1
  <2>2. \A v \in planned : v.asOf = f.asOf
    BY PlannedFields
  <2>3. \A v, w \in planned : v.id = w.id => v = w
    BY PlannedFields
  <2> HIDE DEF planned
  <2>4. \A v, w \in vintages \cup planned : v.id = w.id /\ v.asOf = w.asOf => v = w
    BY <2>1, <2>2, <2>3 DEF ReleasesInv
  <2>5. \A v \in vintages \cup planned : v.asOf \in Int
    BY <2>1, <2>2
  <2> QED
    BY <2>4, <2>5, LatestIsOne
<1>11. \A v, w \in ahead : v.title = w.title /\ v.at = w.at => v = w
  <2> SUFFICES ASSUME NEW v \in ahead, NEW w \in ahead, v.title = w.title, v.at = w.at PROVE v = w
    OBVIOUS
  <2>1. PICK r \in f.records : v.id = id(r) /\ v.title = r.title /\ v.at = r.at
    BY <1>9
  <2>2. PICK s \in f.records : w.id = id(s) /\ w.title = s.title /\ w.at = s.at
    BY <1>9
  <2>3. r = s
    BY <2>1, <2>2 DEF Listing
  <2>4. v.id = w.id
    BY <2>1, <2>2, <2>3
  <2>5. v \in after /\ w \in after
    OBVIOUS
  <2> HIDE DEF ahead, id
  <2> QED
    BY <1>10, <2>4, <2>5 DEF OneLatest
<1>12. {[title |-> v.title, at |-> v.at, consensus |-> v.consensus] : v \in ahead} = {r \in f.records : r.at > f.asOf}
  <2> HIDE DEF ahead, id, row
  <2>1. ASSUME NEW v \in ahead
        PROVE  [title |-> v.title, at |-> v.at, consensus |-> v.consensus] \in {r \in f.records : r.at > f.asOf}
    <3>1. PICK r \in f.records : r.at > f.asOf /\ v.title = r.title /\ v.at = r.at /\ v.consensus = r.consensus
      BY <1>9
    <3>2. [title |-> v.title, at |-> v.at, consensus |-> v.consensus] = r
      BY <1>3, <3>1
    <3> QED
      BY <3>1, <3>2
  <2>2. ASSUME NEW r \in f.records, r.at > f.asOf
        PROVE  \E v \in ahead : r = [title |-> v.title, at |-> v.at, consensus |-> v.consensus]
    BY <1>3, <1>8, <2>2
  <2> QED
    BY <2>1, <2>2
<1> QED
  BY <1>11, <1>12 DEF Shown

-----------------------------------------------------------------------------
\* The steps.

LEMMA ReleasesInvInitially == ReleasesInit => ReleasesInv /\ ShowsNewest
<1> SUFFICES ASSUME ReleasesInit PROVE ReleasesInv /\ ShowsNewest
  OBVIOUS
<1>1. Listing({})
  BY FS_EmptySet DEF Listing
<1>2. ReleasesInv
  BY <1>1, ReleasesAssumption DEF ReleasesInit, ReleasesInv, ReleasesAssumption, NoRefresh, NoHindsight
<1>3. ShowsNewest
  BY DEF ReleasesInit, ShowsNewest, Upcoming, LatestOf, Spanned
<1> QED
  BY <1>2, <1>3

\* What some of its planned vintages, or all of them, leave when a refresh is over.
LEMMA WrittenKeeps ==
    ASSUME ReleasesInv, NEW p \in Refreshers, refreshes[p].at # "none",
           NEW written \in SUBSET Planned(refreshes[p]),
           vintages' = vintages \cup written, refreshes' = [refreshes EXCEPT ![p] = NoRefresh],
           UNCHANGED <<instant, listed, attempts>>,
           newest' = [asOf |-> newest'.asOf, records |-> newest'.records, last |-> newest'.last],
           newest'.asOf \in attempts \cup {0}, newest'.last \in BOOLEAN, newest.asOf <= newest'.asOf,
           written # {} => refreshes[p].asOf <= newest'.asOf
    PROVE  ReleasesInv' /\ VintagesStand
<1> DEFINE f == refreshes[p]
<1>1. f.asOf \in attempts /\ f.asOf \in Nat /\ Listing(f.records)
  BY DEF ReleasesInv
<1>2. /\ \A v \in written : IsVintage(v) /\ v.asOf = f.asOf /\ (v.consensus # NoConsensus => v.asOf < v.at)
      /\ \A v, w \in written : v.id = w.id => v = w
      /\ \A w \in written, v \in LatestOf(vintages) : v.id = w.id => w.at > f.asOf
  BY <1>1, PlannedFields
<1>3. \A v \in vintages : v.asOf # f.asOf /\ v.asOf \in Int
  BY DEF ReleasesInv
<1> HIDE DEF f
<1>4. \A v, w \in vintages' : v.id = w.id /\ v.asOf = w.asOf => v = w
  <2>1. vintages' = vintages \cup written
    OBVIOUS
  <2> QED
    BY <1>2, <1>3, <2>1 DEF ReleasesInv
<1>5. Listing({})
  BY FS_EmptySet DEF Listing
<1>6. refreshes' \in [Refreshers -> [at : {"none", "begun", "fetched"}, asOf : Nat,
                                     records : {r \in Feeds \cup {{}} : Listing(r)}]]
  BY <1>5 DEF ReleasesInv, NoRefresh
<1>7. \A q \in Refreshers : refreshes'[q] = IF q = p THEN NoRefresh ELSE refreshes[q]
  BY DEF ReleasesInv
<1>8. \A q \in Refreshers : refreshes'[q].at # "none" =>
          /\ q # p /\ refreshes'[q] = refreshes[q] /\ refreshes[q].asOf # f.asOf
  BY <1>7 DEF NoRefresh, ReleasesInv, f
<1>9. \A q \in Refreshers : refreshes'[q].at # "none" =>
          /\ refreshes'[q].asOf \in attempts'
          /\ \A v \in vintages' : v.asOf # refreshes'[q].asOf
          /\ \A o \in Refreshers \ {q} : refreshes'[o].at # "none" => refreshes'[o].asOf # refreshes'[q].asOf
  BY <1>2, <1>8 DEF ReleasesInv
<1>10. \A v \in vintages' : IsVintage(v) /\ v.asOf \in attempts' /\ v.asOf <= newest'.asOf
  <2> SUFFICES ASSUME NEW v \in vintages' PROVE IsVintage(v) /\ v.asOf \in attempts' /\ v.asOf <= newest'.asOf
    OBVIOUS
  <2>1. CASE v \in written
    BY <1>1, <1>2, <2>1 DEF f
  <2>2. CASE v \in vintages
    <3>1. IsVintage(v) /\ v.asOf \in attempts /\ v.asOf <= newest.asOf
      BY <2>2 DEF ReleasesInv
    <3>2. v.asOf \in Int /\ newest.asOf \in Int /\ newest'.asOf \in Int
      BY <1>3, <2>2 DEF ReleasesInv
    <3> QED
      BY <3>1, <3>2
  <2> QED
    BY <2>1, <2>2
<1>11. NoHindsight'
  BY <1>2 DEF NoHindsight, ReleasesInv
<1>12. ReleasesInv'
  BY <1>4, <1>6, <1>9, <1>10, <1>11 DEF ReleasesInv, IsVintage, Listing
<1>13. VintagesStand
  <2> SUFFICES ASSUME NEW v \in LatestOf(vintages), NEW w \in vintages' \ vintages,
                      v.id = w.id, v.at <= w.asOf, v.asOf < w.asOf
               PROVE  w.at > w.asOf /\ w.at > v.at
    BY DEF VintagesStand
  <2>1. w \in written
    OBVIOUS
  <2>2. w.at > f.asOf /\ w.asOf = f.asOf /\ IsVintage(w)
    BY <1>2, <2>1
  <2>3. IsVintage(v)
    BY DEF LatestOf, ReleasesInv
  <2> QED
    BY <1>1, <2>2, <2>3 DEF IsVintage
<1> QED
  BY <1>12, <1>13

LEMMA ReleasesStep ==
    ASSUME OneEventAMoment
    PROVE  ReleasesInv /\ ShowsNewest /\ [ReleasesNext]_releaseVars => ReleasesInv' /\ ShowsNewest' /\ VintagesStand
<1> SUFFICES ASSUME ReleasesInv, ShowsNewest, [ReleasesNext]_releaseVars
             PROVE  ReleasesInv' /\ ShowsNewest' /\ VintagesStand
  OBVIOUS
<1>1. ASSUME UNCHANGED <<vintages, newest>> PROVE ShowsNewest' /\ VintagesStand /\ NoHindsight'
  BY <1>1 DEF ShowsNewest, Upcoming, LatestOf, Spanned, VintagesStand, NoHindsight, ReleasesInv
<1>2. CASE InstantPasses
  <2>1. instant' \in 1 .. LastInstant /\ 1 .. instant \subseteq 1 .. instant'
    BY <1>2, ReleasesAssumption DEF ReleasesAssumption, InstantPasses, ReleasesInv
  <2> QED
    BY <1>1, <1>2, <2>1 DEF InstantPasses, ReleasesInv, IsVintage, Listing
<1>3. ASSUME NEW records \in Feeds, SourceLists(records) PROVE ReleasesInv' /\ ShowsNewest' /\ VintagesStand
  BY <1>1, <1>3 DEF SourceLists, ReleasesInv, IsVintage, Listing
<1>4. ASSUME NEW p \in Refreshers, RefreshBegins(p) PROVE ReleasesInv' /\ ShowsNewest' /\ VintagesStand
  <2>1. /\ refreshes' = [refreshes EXCEPT ![p] = [at |-> "begun", asOf |-> instant, records |-> {}]]
        /\ attempts' = attempts \cup {instant} /\ instant \notin attempts
        /\ UNCHANGED <<instant, listed, vintages, newest, refreshCrashes>>
    <3>1. [NoRefresh EXCEPT !.at = "begun", !.asOf = instant] = [at |-> "begun", asOf |-> instant, records |-> {}]
      <4> DEFINE r == [NoRefresh EXCEPT !.at = "begun"]
      <4>1. r = [at |-> "begun", asOf |-> 0, records |-> {}]
        BY DEF NoRefresh
      <4>2. [NoRefresh EXCEPT !.at = "begun", !.asOf = instant] = [r EXCEPT !.asOf = instant]
        OBVIOUS
      <4> HIDE DEF r
      <4>3. [r EXCEPT !.asOf = instant] = [at |-> "begun", asOf |-> instant, records |-> {}]
        BY <4>1
      <4> QED
        BY <4>2, <4>3
    <3> QED
      BY <1>4, <3>1 DEF RefreshBegins
  <2>2. Listing({}) /\ instant \in Nat /\ instant \in 1 .. instant
    BY FS_EmptySet DEF Listing, ReleasesInv
  <2>3. refreshes' \in [Refreshers -> [at : {"none", "begun", "fetched"}, asOf : Nat,
                                       records : {r \in Feeds \cup {{}} : Listing(r)}]]
    BY <2>1, <2>2 DEF ReleasesInv
  <2>4. \A q \in Refreshers :
            refreshes'[q] = IF q = p THEN [at |-> "begun", asOf |-> instant, records |-> {}] ELSE refreshes[q]
    BY <2>1 DEF ReleasesInv
  <2>5. \A q \in Refreshers : refreshes'[q].at # "none" =>
            /\ refreshes'[q].asOf \in attempts'
            /\ \A v \in vintages' : v.asOf # refreshes'[q].asOf
            /\ \A o \in Refreshers \ {q} : refreshes'[o].at # "none" => refreshes'[o].asOf # refreshes'[q].asOf
    BY <2>1, <2>4 DEF ReleasesInv
  <2>6. \A v \in vintages' : IsVintage(v) /\ v.asOf \in attempts' /\ v.asOf <= newest'.asOf
    BY <2>1 DEF ReleasesInv
  <2>7. attempts' \subseteq 1 .. instant' /\ newest'.asOf \in attempts' \cup {0}
    BY <2>1, <2>2 DEF ReleasesInv
  <2> QED
    BY <1>1, <2>1, <2>3, <2>5, <2>6, <2>7 DEF ReleasesInv, IsVintage, Listing
<1>5. ASSUME NEW p \in Refreshers, SourceAnswers(p) PROVE ReleasesInv' /\ ShowsNewest' /\ VintagesStand
  <2>1. /\ refreshes' = [refreshes EXCEPT ![p].at = "fetched", ![p].records = listed]
        /\ refreshes[p].at = "begun"
        /\ UNCHANGED <<instant, listed, vintages, attempts, newest, refreshCrashes>>
    BY <1>5 DEF SourceAnswers
  <2>2. Listing(listed) /\ listed \in Feeds
    BY ReleasesAssumption DEF ReleasesAssumption, OneEventAMoment, Listing, ReleasesInv
  <2>3. refreshes' \in [Refreshers -> [at : {"none", "begun", "fetched"}, asOf : Nat,
                                       records : {r \in Feeds \cup {{}} : Listing(r)}]]
    BY <2>1, <2>2 DEF ReleasesInv
  <2>4. \A q \in Refreshers :
            refreshes'[q].asOf = refreshes[q].asOf /\ (refreshes'[q].at # "none" <=> refreshes[q].at # "none")
    BY <2>1 DEF ReleasesInv
  <2>5. \A q \in Refreshers : refreshes'[q].at # "none" =>
            /\ refreshes'[q].asOf \in attempts'
            /\ \A v \in vintages' : v.asOf # refreshes'[q].asOf
            /\ \A o \in Refreshers \ {q} : refreshes'[o].at # "none" => refreshes'[o].asOf # refreshes'[q].asOf
    BY <2>1, <2>4 DEF ReleasesInv
  <2> QED
    BY <1>1, <2>1, <2>3, <2>5 DEF ReleasesInv, IsVintage, Listing
<1>6. ASSUME NEW p \in Refreshers, RefreshEnds(p) PROVE ReleasesInv' /\ ShowsNewest' /\ VintagesStand
  <2> DEFINE f == refreshes[p]
  <2>1. /\ f.at = "fetched" /\ vintages' = vintages \cup Planned(f)
        /\ newest' = IF f.asOf > newest.asOf THEN [asOf |-> f.asOf, records |-> f.records, last |-> TRUE]
                     ELSE [newest EXCEPT !.last = FALSE]
        /\ refreshes' = [refreshes EXCEPT ![p] = NoRefresh]
        /\ UNCHANGED <<instant, listed, attempts>>
    BY <1>6 DEF RefreshEnds
  <2>2. f.asOf \in attempts /\ f.asOf \in Nat /\ Listing(f.records) /\ newest.asOf \in Nat
    BY <2>1 DEF ReleasesInv
  <2>3. /\ newest' = [asOf |-> newest'.asOf, records |-> newest'.records, last |-> newest'.last]
        /\ newest'.asOf = (IF f.asOf > newest.asOf THEN f.asOf ELSE newest.asOf)
        /\ newest'.last = IF f.asOf > newest.asOf THEN TRUE ELSE FALSE
    <3>1. newest = [asOf |-> newest.asOf, records |-> newest.records, last |-> newest.last]
      BY DEF ReleasesInv
    <3> HIDE DEF f
    <3>2. CASE f.asOf > newest.asOf
      BY <2>1, <3>2
    <3>3. CASE ~(f.asOf > newest.asOf)
      <4>1. newest' = [newest EXCEPT !.last = FALSE]
        BY <2>1, <3>3
      <4>2. newest' = [asOf |-> newest.asOf, records |-> newest.records, last |-> FALSE]
        BY <3>1, <4>1
      <4> QED
        BY <3>3, <4>2
    <3> QED
      BY <3>2, <3>3
  <2>4. newest'.asOf \in attempts \cup {0} /\ newest'.last \in BOOLEAN /\ newest.asOf <= newest'.asOf /\ f.asOf <= newest'.asOf
    BY <2>2, <2>3 DEF ReleasesInv
  <2>5. ReleasesInv' /\ VintagesStand
    BY <2>1, <2>3, <2>4, WrittenKeeps
  <2>6. ShowsNewest'
    <3>1. CASE f.asOf > newest.asOf
      <4>1. Shown(vintages \cup Planned(f), f.asOf, f.records)
        BY <2>2, <3>1, NewestIsShown
      <4>2. newest'.asOf = f.asOf /\ newest'.records = f.records /\ vintages' = vintages \cup Planned(f)
        BY <2>1, <3>1
      <4> HIDE DEF f
      <4>3. Shown(vintages', newest'.asOf, newest'.records)
        BY <4>1, <4>2
      <4>4. ShowsNewest' <=> (newest'.last => Shown(vintages', newest'.asOf, newest'.records))
        BY ShowsNewestNextIsShown
      <4> QED
        BY <4>3, <4>4
    <3>2. CASE ~(f.asOf > newest.asOf)
      <4>1. ~newest'.last
        BY <2>3, <3>2
      <4> QED
        BY <4>1 DEF ShowsNewest
    <3> QED
      BY <3>1, <3>2
  <2> QED
    BY <2>5, <2>6
<1>7. ASSUME NEW p \in Refreshers, RefreshFails(p) PROVE ReleasesInv' /\ ShowsNewest' /\ VintagesStand
  <2> DEFINE f == refreshes[p]
  <2>1. PICK written \in SUBSET Planned(f) :
            /\ vintages' = vintages \cup written
            /\ newest' = IF written = {} THEN newest
                         ELSE [newest EXCEPT !.last = FALSE, !.asOf = Max({@, f.asOf})]
    BY <1>7 DEF RefreshFails
  <2>2. f.at # "none" /\ refreshes' = [refreshes EXCEPT ![p] = NoRefresh] /\ UNCHANGED <<instant, listed, attempts>>
    BY <1>7 DEF RefreshFails
  <2>3. f.asOf \in attempts /\ f.asOf \in Nat /\ newest.asOf \in Nat
    BY <2>2 DEF ReleasesInv
  <2>4. newest = [asOf |-> newest.asOf, records |-> newest.records, last |-> newest.last]
    BY DEF ReleasesInv
  <2> HIDE DEF f
  <2>5. CASE written = {}
    <3>1. UNCHANGED <<vintages, newest>>
      BY <2>1, <2>5
    <3>2. ReleasesInv'
      <4>1. newest'.asOf \in attempts \cup {0} /\ newest'.last \in BOOLEAN /\ newest.asOf <= newest'.asOf
        BY <2>3, <3>1 DEF ReleasesInv
      <4> QED
        BY <2>1, <2>2, <2>4, <2>5, <3>1, <4>1, WrittenKeeps DEF f
    <3> QED
      BY <1>1, <3>1, <3>2
  <2>6. CASE written # {}
    <3> DEFINE m == Max({newest.asOf, f.asOf})
    <3>1. m \in {newest.asOf, f.asOf} /\ newest.asOf <= m /\ f.asOf <= m
      <4>1. \E x \in {newest.asOf, f.asOf} : \A y \in {newest.asOf, f.asOf} : x >= y
        BY <2>3
      <4>2. m \in {newest.asOf, f.asOf} /\ \A y \in {newest.asOf, f.asOf} : m >= y
        BY <4>1 DEF Max
      <4> HIDE DEF m
      <4> QED
        BY <2>3, <4>2
    <3> HIDE DEF m
    <3>2. /\ newest' = [asOf |-> newest'.asOf, records |-> newest'.records, last |-> newest'.last]
          /\ newest'.asOf = m /\ newest'.last = FALSE
      <4>1. newest' = [newest EXCEPT !.last = FALSE, !.asOf = m]
        BY <2>1, <2>6 DEF m
      <4> QED
        BY <2>4, <4>1
    <3>3. ReleasesInv' /\ VintagesStand
      <4>1. newest'.asOf \in attempts \cup {0} /\ newest'.last \in BOOLEAN /\ newest.asOf <= newest'.asOf
        BY <2>3, <3>1, <3>2 DEF ReleasesInv
      <4> QED
        BY <2>1, <2>2, <3>1, <3>2, <4>1, WrittenKeeps DEF f
    <3>4. ShowsNewest'
      BY <3>2 DEF ShowsNewest
    <3> QED
      BY <3>3, <3>4
  <2> QED
    BY <2>5, <2>6
<1>8. CASE UNCHANGED releaseVars
  BY <1>1, <1>8 DEF releaseVars, ReleasesInv, IsVintage, Listing
<1> QED
  BY <1>2, <1>3, <1>4, <1>5, <1>6, <1>7, <1>8 DEF ReleasesNext

\* Whatever refreshes overlap or die between two rows, the calendar shows what the newest one was shown; no
\* consensus is from after its event, and a vintage stands (terminal/releases.py).
THEOREM CalendarHoldsHolds ==
    ASSUME OneEventAMoment
    PROVE  ReleasesSpec => CalendarHolds
<1>1. ReleasesInit => ReleasesInv /\ ShowsNewest
  BY ReleasesInvInitially
<1>2. ReleasesInv /\ ShowsNewest /\ [ReleasesNext]_releaseVars
        => (ReleasesInv /\ ShowsNewest)' /\ [VintagesStand]_releaseVars
  BY ReleasesStep
<1>3. ReleasesInv => NoHindsight
  BY DEF ReleasesInv
<1> QED
  BY <1>1, <1>2, <1>3, PTL DEF ReleasesSpec, CalendarHolds
=============================================================================
