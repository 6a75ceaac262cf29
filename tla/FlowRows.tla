------------------------------ MODULE FlowRows ------------------------------
(***************************************************************************)
(* The shares outstanding of the funds: what each family's issuer has      *)
(* published, and the nightly job that reads family after family and       *)
(* stores what is new (modules/gex/jobs/flows.py, flows_fetch.py,          *)
(* providers/etf_flows.py, storage/flows_repository.py).                   *)
(*                                                                         *)
(* A page shows the last number of a fund and its date.  SPDR serves every *)
(* fund in one file, the others a page a fund, USCF after a token.         *)
(***************************************************************************)
EXTENDS Fetching, FiniteSets

CONSTANTS
    FlowFamilies,    \* _default_providers: a sequence
    FundsOf,         \* a provider's symbols
    FlowAttempts,    \* _DEFAULT_MAX_RETRIES
    LastFlowDay,     \* bound: days
    MaxAborts        \* bound: failures of the database

ASSUME FlowRowsAssumption ==
    /\ FlowFamilies \in Seq({"spdr", "ishares", "vaneck", "invesco", "uscf"})
    /\ {LastFlowDay, MaxAborts} \subseteq Nat /\ FlowAttempts \in Nat \ {0}

VARIABLES
    flowDay,    \* the day
    pages,      \* what a fund's issuer shows: the day and a version of its number
    flowRows,   \* etf_shares_outstanding
    flowJob,    \* how many families the run under way has done, -1 when none runs
    read,       \* history: the rows the run has read
    aborts

flowVars == <<flowDay, pages, flowRows, flowJob, read, aborts>>

Funds == UNION {FundsOf[FlowFamilies[i]] : i \in DOMAIN FlowFamilies}
FlowDays == 1 .. LastFlowDay
NoRun == -1
FlowRow == [fund : Funds, on : FlowDays, number : {1, 2}]

FlowRowsTypeOK ==
    /\ flowDay \in FlowDays
    /\ pages \in [Funds -> [on : FlowDays, number : {1, 2}]]
    /\ flowRows \subseteq FlowRow /\ read \subseteq FlowRow
    /\ flowJob \in NoRun .. Len(FlowFamilies)

FlowRowsInit ==
    /\ flowDay = 1
    /\ pages = [f \in Funds |-> [on |-> 1, number |-> 1]]
    /\ flowRows = {} /\ read = {} /\ flowJob = NoRun /\ aborts = 0

-----------------------------------------------------------------------------
\* The issuers.

FlowDayPasses ==
    /\ flowDay < LastFlowDay /\ flowDay' = flowDay + 1
    /\ UNCHANGED <<pages, flowRows, flowJob, read, aborts>>

\* A new day's number, or a correction of the last one.
IssuerPublishes(fund) ==
    /\ \/ pages[fund].on < flowDay /\ pages' = [pages EXCEPT ![fund].on = flowDay, ![fund].number = 1]
       \/ pages[fund].number = 1 /\ pages' = [pages EXCEPT ![fund].number = 2]
    /\ UNCHANGED <<flowDay, flowRows, flowJob, read, aborts>>

-----------------------------------------------------------------------------
RowOfPage(fund) == [fund |-> fund, on |-> pages[fund].on, number |-> pages[fund].number]

\* parse_...: the row of a page, or a failure of that fund when the page is not as it was.
SpdrParse(funds) == {{RowOfPage(f) : f \in readable} : readable \in SUBSET funds}
ISharesParse(fund) == {{RowOfPage(fund)}, {}}
VanEckParse(fund) == {{RowOfPage(fund)}, {}}
InvescoParse(fund) == {{RowOfPage(fund)}, {}}
UscfParse(fund) == {{RowOfPage(fund)}, {}}

AnyAnswers == [1 .. FlowAttempts -> Answers]

SpdrEnds == {SpdrFetch(answers) : answers \in AnyAnswers}
ISharesEnds == {ISharesFetch(answers) : answers \in AnyAnswers}
VanEckEnds == {VanEckFetch(answers) : answers \in AnyAnswers}
InvescoEnds == {InvescoFetch(answers) : answers \in AnyAnswers}
UscfTokenEnds == {UscfTokenFetch(answers) : answers \in AnyAnswers}
UscfEnds == {UscfFetch(answers) : answers \in AnyAnswers}

\* A page a fund: whatever ends a fund's request, the others are asked.
EachFund(ends, parsed) ==
    LET Of(f) == UNION {IF end = "rows" THEN parsed[f] ELSE {{}} : end \in ends}
    IN  {UNION {rows[f] : f \in DOMAIN parsed} :
            rows \in {rows \in [DOMAIN parsed -> UNION {Of(f) : f \in DOMAIN parsed}] :
                         \A f \in DOMAIN parsed : rows[f] \in Of(f)}}

\* fetch, per family: the sets of rows it may return; none when it raises.
SpdrReads(funds) == IF "rows" \in SpdrEnds THEN SpdrParse(funds) ELSE {}
ISharesReads(funds) == EachFund(ISharesEnds, [f \in funds |-> ISharesParse(f)])
VanEckReads(funds) == EachFund(VanEckEnds, [f \in funds |-> VanEckParse(f)])
InvescoReads(funds) == EachFund(InvescoEnds, [f \in funds |-> InvescoParse(f)])
UscfReads(funds) ==
    IF "rows" \in UscfTokenEnds THEN EachFund(UscfEnds, [f \in funds |-> UscfParse(f)]) ELSE {}

FamilyReads(family) ==
    CASE family = "spdr" -> SpdrReads(FundsOf[family])
      [] family = "ishares" -> ISharesReads(FundsOf[family])
      [] family = "vaneck" -> VanEckReads(FundsOf[family])
      [] family = "invesco" -> InvescoReads(FundsOf[family])
      [] family = "uscf" -> UscfReads(FundsOf[family])

FlowsBegin ==
    /\ flowJob = NoRun
    /\ flowJob' = 0 /\ read' = {}
    /\ UNCHANGED <<flowDay, pages, flowRows, aborts>>

\* A plausible bug: a row of a day that is stored is overwritten.
InsertOver(rows) ==
    flowRows' = rows \cup {r \in flowRows : ~\E n \in rows : n.fund = r.fund /\ n.on = r.on}

\* insert_new_rows: a day that is stored stays as it is.
InsertNew(rows) ==
    flowRows' = flowRows \cup {n \in rows : ~\E r \in flowRows : n.fund = r.fund /\ n.on = r.on}

\* A family's rows, in a transaction of its own; a family that raises is left for the next night.
FamilyIsRead ==
    /\ flowJob \in 0 .. Len(FlowFamilies) - 1
    /\ \/ \E rows \in FamilyReads(FlowFamilies[flowJob + 1]) : InsertNew(rows) /\ read' = read \cup rows
       \/ UNCHANGED <<flowRows, read>>
    /\ flowJob' = flowJob + 1
    /\ UNCHANGED <<flowDay, pages, aborts>>

\* The insert is outside the guard of its family: a database that fails ends the run, and the
\* families after it are not read.
DatabaseFails ==
    /\ flowJob \in 0 .. Len(FlowFamilies) - 1 /\ aborts < MaxAborts
    /\ flowJob' = NoRun /\ read' = {} /\ aborts' = aborts + 1
    /\ UNCHANGED <<flowDay, pages, flowRows>>

FlowsEnd ==
    /\ flowJob = Len(FlowFamilies)
    /\ flowJob' = NoRun /\ read' = {}
    /\ UNCHANGED <<flowDay, pages, flowRows, aborts>>

FlowsNext ==
    \/ FlowDayPasses \/ FlowsBegin \/ FamilyIsRead \/ DatabaseFails \/ FlowsEnd
    \/ \E fund \in Funds : IssuerPublishes(fund)

FlowsSpec == FlowRowsInit /\ [][FlowsNext]_flowVars

-----------------------------------------------------------------------------
\* Properties.

\* A day of a fund is stored once, as it was first read, and every family's rows that a run has
\* read are stored or were before, whatever fails in the families around it; no row is of a page
\* that was not there.
FlowsAreKept ==
    [][/\ flowRows \subseteq flowRows'
       /\ \A a, b \in flowRows' : a.fund = b.fund /\ a.on = b.on => a = b
       /\ \A r \in read' : \E s \in flowRows' : s.fund = r.fund /\ s.on = r.on
       /\ \A s \in flowRows' \ flowRows : s = RowOfPage(s.fund)]_flowVars
=============================================================================
