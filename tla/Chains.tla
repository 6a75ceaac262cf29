------------------------------- MODULE Chains -------------------------------
(***************************************************************************)
(* How a chain provider turns vendor answers into one chain of one         *)
(* underlying, or into none (modules/gex/providers/cboe.py, marketdata.py, *)
(* thetadata.py).  Cboe and MarketData serve a chain in one answer; the    *)
(* Theta Terminal is asked, root by root, for the rows with the greeks and *)
(* for those with the open interest, and the two are joined by contract.   *)
(*                                                                         *)
(* A row is of a contract or malformed; a contract is a root and a number. *)
(***************************************************************************)
EXTENDS Fetching, FiniteSets, SequencesExt

CONSTANTS
    Roots,          \* vendor_roots: a sequence
    ChainAttempts,  \* _DEFAULT_MAX_RETRIES
    MaxRowsServed   \* bound: rows of an answer

ASSUME ChainsAssumption == {ChainAttempts, MaxRowsServed} \subseteq Nat \ {0}

VARIABLES
    feed,        \* the provider
    asks,        \* requests still to make
    greeks, interest,  \* the rows so far
    chain,       \* "asking", "unavailable", or the chain
    givenUp      \* history: roots a request of which failed every time

chainVars == <<feed, asks, greeks, interest, chain, givenUp>>

Contracts == {<<root, n>> : root \in ToSet(Roots), n \in 1 .. 2}
Malformed == <<"malformed", 0>>
NoInterest == -1  \* None, which is not zero

\* A row of greeks has a price of the underlying or not; a row of open interest has a number.
GreeksRows(root) == [key : {k \in Contracts : k[1] = root} \cup {Malformed}, spot : BOOLEAN]
InterestRows(root) == [key : {k \in Contracts : k[1] = root} \cup {Malformed}, oi : {0, 1}]
Served(rows) == UNION {[1 .. n -> rows] : n \in 0 .. MaxRowsServed}

\* eod_rows, snapshot_rows: a root's greeks, then its open interest; one request otherwise.
AsksOf(f) ==
    IF f = "thetadata" THEN FlattenSeq([i \in DOMAIN Roots |-> << <<"greeks", Roots[i]>>, <<"interest", Roots[i]>> >>])
    ELSE << <<"chain", Roots[1]>> >>

ChainsTypeOK ==
    /\ feed \in {"cboe", "marketdata", "thetadata"}
    /\ IsSuffix(asks, AsksOf(feed))
    /\ chain.is \in {"asking", "unavailable", "chain"}
    /\ givenUp \subseteq ToSet(Roots)

ChainsInit ==
    /\ feed \in {"cboe", "marketdata", "thetadata"}
    /\ asks = AsksOf(feed)
    /\ greeks = <<>> /\ interest = <<>>
    /\ chain = [is |-> "asking", contracts |-> {}]
    /\ givenUp = {}

-----------------------------------------------------------------------------
ChainFetch(answers) ==
    CASE feed = "cboe" -> CboeFetch(answers)
      [] feed = "marketdata" -> MarketDataFetch(answers)
      [] feed = "thetadata" -> ThetaFetch(answers)

\* The rows a request of this kind may be answered with.  Of Cboe and MarketData an answer has the
\* open interest on the row itself and one price of the underlying, or it is refused.
RowsServed(ask) ==
    IF ask[1] = "interest" THEN Served(InterestRows(ask[2]))
    ELSE {rows \in Served(GreeksRows(ask[2])) : ask[1] = "chain" => \A i \in DOMAIN rows : rows[i].spot}

Unavailable == chain' = [is |-> "unavailable", contracts |-> {}]

\* get_rows, _fetch_json: one failed request is the end of the chain.
Ask ==
    /\ chain.is = "asking" /\ asks # <<>>
    /\ \E answers \in [1 .. ChainAttempts -> Answers] :
          LET end == ChainFetch(answers) IN
          IF end \in {"rows", "no rows", "refused"}
          THEN /\ \E rows \in IF end = "rows" THEN RowsServed(Head(asks)) ELSE {<<>>} :
                     IF Head(asks)[1] = "interest" THEN interest' = interest \o rows /\ UNCHANGED greeks
                     ELSE greeks' = greeks \o rows /\ UNCHANGED interest
               /\ asks' = Tail(asks)
               /\ UNCHANGED <<chain, givenUp>>
          ELSE /\ Unavailable
               /\ givenUp' = givenUp \cup {Head(asks)[2]}
               /\ asks' = <<>> /\ UNCHANGED <<greeks, interest>>
    /\ UNCHANGED feed

KeysOfRows(rows) == {rows[i].key : i \in DOMAIN rows} \ {Malformed}

\* A plausible bug: the rows are joined by their place.
InterestBeside(key) ==
    LET of == {i \in DOMAIN greeks : greeks[i].key = key}
    IN  IF Min(of) \in DOMAIN interest THEN interest[Min(of)].oi ELSE NoInterest

\* The open interest of a contract: its last row that has one, or none.
InterestOf(key) ==
    LET of == {i \in DOMAIN interest : interest[i].key = key}
    IN  IF of = {} THEN NoInterest ELSE interest[Max(of)].oi

\* _assemble, _parse_payload: the first row of each contract, with the open interest of its key; a
\* malformed row is skipped, and a chain needs a contract and a price of the underlying.
Assemble ==
    /\ chain.is = "asking" /\ asks = <<>>
    /\ IF KeysOfRows(greeks) = {}
          \/ ~\E i \in DOMAIN greeks : greeks[i].key # Malformed /\ greeks[i].spot
       THEN Unavailable
       ELSE chain' = [is |-> "chain",
                      contracts |-> {[key |-> key,
                                      oi |-> IF feed = "thetadata" THEN InterestOf(key) ELSE 0] :
                                        key \in KeysOfRows(greeks)}]
    /\ UNCHANGED <<feed, asks, greeks, interest, givenUp>>

ChainsNext == Ask \/ Assemble

ChainsSpec == ChainsInit /\ [][ChainsNext]_chainVars

-----------------------------------------------------------------------------
\* Properties.

\* A chain is what the vendor served, all of it, or there is none.  No request of it failed; it has
\* every contract served of any root, once, so that a root is missing only if it was answered with no
\* contract; and an open interest is one some row gave that very contract or none at all, which is
\* not zero.
ChainIsAsServed ==
    chain.is = "chain" =>
        /\ givenUp = {}
        /\ chain.contracts # {}
        /\ {c.key : c \in chain.contracts} = KeysOfRows(greeks)
        /\ \A c, d \in chain.contracts : c.key = d.key => c = d
        /\ feed = "thetadata" => \A c \in chain.contracts :
              IF c.key \in KeysOfRows(interest)
              THEN \E i \in DOMAIN interest : interest[i] = c
              ELSE c.oi = NoInterest

\* Refuted: every root's rows are in the chain (thetadata.py:372, 389).  A root answered with no data,
\* or with nothing that can be read, is no error, and the chain is of the other root alone.
EveryRootIsIn ==
    chain.is = "chain" /\ feed = "thetadata" =>
        \A root \in ToSet(Roots) : \E c \in chain.contracts : c.key[1] = root
=============================================================================
