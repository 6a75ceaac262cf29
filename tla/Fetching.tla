------------------------------ MODULE Fetching ------------------------------
(***************************************************************************)
(* One request of a data vendor's client (modules/gex/providers): it is    *)
(* asked up to _DEFAULT_MAX_RETRIES times, and what of an answer is final, *)
(* what is worth another attempt and what a final answer means differs     *)
(* from client to client.                                                  *)
(*                                                                         *)
(*   down     no connection           odd404   404, of no documented shape *)
(*   busy     another status          empty    "no data" (472)             *)
(*   garbage  200, not parseable      body     200, parseable              *)
(*   gone     404, documented                                              *)
(***************************************************************************)
EXTENDS Integers, Sequences, FiniteSetsExt

Answers == {"down", "busy", "garbage", "gone", "odd404", "empty", "body"}

\* The loop of attempts: the first answer that is not worth another one ends it.
EndOf(again, answers) ==
    LET final == {i \in DOMAIN answers : answers[i] \notin again}
    IN  IF final = {} THEN "failed" ELSE answers[Min(final)]

\* What a final answer means to the caller: rows, none of them, a symbol the vendor does not have,
\* a page the parser refuses, or an upstream that is not available.
Reads(unsupported, refused, end) ==
    IF end = "body" THEN "rows"
    ELSE IF end = "empty" THEN "no rows"
    ELSE IF end \in unsupported THEN "unsupported"
    ELSE IF end \in refused THEN "refused" ELSE "unavailable"

Restless == {"down", "busy", "empty"}

YahooFetch(answers) == Reads({"gone"}, {}, EndOf(Restless \cup {"garbage"}, answers))
TiingoFetch(answers) == Reads({"gone", "odd404"}, {}, EndOf(Restless \cup {"garbage"}, answers))
CboeIndexFetch(answers) == Reads({}, {}, EndOf(Restless \cup {"gone", "odd404"}, answers))
CboeFetch(answers) == Reads({}, {}, EndOf(Answers \ {"body"}, answers))
MarketDataFetch(answers) == Reads({}, {}, EndOf(Answers \ {"body"}, answers))
\* Any text is CSV to the terminal's client: a page that is none has rows nobody can use.
ThetaFetch(answers) ==
    Reads({}, {"garbage"}, EndOf({"down", "busy", "gone", "odd404"}, answers))

SpdrFetch(answers) == Reads({}, {}, EndOf(Restless \cup {"gone", "odd404"}, answers))
ISharesFetch(answers) == Reads({}, {"garbage"}, EndOf(Restless \cup {"gone", "odd404"}, answers))
VanEckFetch(answers) == Reads({}, {"garbage"}, EndOf(Restless \cup {"gone", "odd404"}, answers))
InvescoFetch(answers) == Reads({}, {"garbage"}, EndOf(Restless \cup {"gone", "odd404"}, answers))
UscfTokenFetch(answers) == Reads({}, {}, EndOf(Restless \cup {"gone", "odd404"}, answers))
UscfFetch(answers) == Reads({}, {"garbage", "gone", "odd404"}, EndOf(Restless, answers))
=============================================================================
