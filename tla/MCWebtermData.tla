--------------------------- MODULE MCWebtermData ----------------------------
(***************************************************************************)
(* What the web terminal's session makes of an account that changes, of    *)
(* quotes, specifications and replies, one at a time: `part` says which of *)
(* them moves in a behaviour, the others stay as they begin.               *)
(***************************************************************************)
EXTENDS WebtermSnapshot, WebtermMarket, WebtermSpecs, WebtermReplies,
        WebtermCandles, ServerSearch

VARIABLE part

parts == <<picture, quoting, specs, reply, windows, catalogue, part>>

\* A metal in dollars, an index in euros, and three pairs: one whose name misleads,
\* one with a longer name, one the other way round.
DataInstrument(head, rest, base, profit, mode) ==
    [head |-> head, rest |-> rest, base |-> base, profit |-> profit, mode |-> mode,
     tickSize |-> 0, point |-> 1, contract |-> 10, tickValue |-> 3]
DataInstruments(n) ==
    CASE n = 1 -> DataInstrument(<<"XAU", "USD">>, 0, "XAU", "USD", 4)
      [] n = 2 -> DataInstrument(<<"DAX", "">>, 0, "EUR", "EUR", 1)
      [] n = 3 -> DataInstrument(<<"EUR", "USD">>, 0, "GBP", "USD", 0)
      [] n = 4 -> DataInstrument(<<"EUR", "USD">>, 2, "EUR", "USD", 5)
      [] n = 5 -> DataInstrument(<<"USD", "EUR">>, 1, "USD", "EUR", 0)
DataPairQuotes == {NoPairQuote, [bid |-> 2, ask |-> 3]}

\* A server's clock behind UTC, with it, and ahead of it.
DataShifts == {-1, 0, 2}
DataAskedTimes == {-1, 1, 3, 4, 6, 7}

\* Two servers written differently and one name in two ways; of access, what has the web
\* port, another port, none, what is no port, and nothing before the colon.
NamedServer(lower, written) == [lower |-> lower, written |-> written]
DataNames == {NamedServer("live", "Live"), NamedServer("live", "LIVE"), NamedServer("demo", "Demo")}
DataTexts == {Text("a", "443"), Text("b", "443"), Text("a", "701"), Text("b", "none"),
              Text("a", "99999"), Text("", "443"), Text("", "none")}

------------------------------------------------------------------------------

DataInit ==
    /\ part \in {"receipts", "snapshot", "quotes", "specs", "replies", "candles", "search"}
    /\ SnapshotInit /\ (part \notin {"receipts", "snapshot"} => orders = {})
    /\ MarketInit
    /\ SpecsInit
    /\ part # "specs" => complete = {} /\ \A n \in Instruments : pairQuotes[n] = NoPairQuote
    /\ ReplyInit /\ (part # "replies" => reply.kind = "candles")
    /\ CandlesInit /\ (part # "candles" => ahead = 0)
    /\ SearchInit

DataNext ==
    \/ /\ part = "receipts" /\ Next
       /\ UNCHANGED <<snapshot, quoting, specs, reply, windows, catalogue, part>>
    \/ /\ part = "snapshot" /\ SnapshotNext
       /\ UNCHANGED <<quoting, specs, reply, windows, catalogue, part>>
    \/ /\ part = "quotes" /\ MarketNext
       /\ UNCHANGED <<picture, specs, reply, windows, catalogue, part>>
    \/ /\ part = "specs" /\ SpecsNext
       /\ UNCHANGED <<picture, quoting, reply, windows, catalogue, part>>
    \/ /\ part = "replies" /\ ReplyNext
       /\ UNCHANGED <<picture, quoting, specs, windows, catalogue, part>>
    \/ /\ part = "candles" /\ CandlesNext
       /\ UNCHANGED <<picture, quoting, specs, reply, catalogue, part>>
    \/ /\ part = "search" /\ SearchNext
       /\ UNCHANGED <<picture, quoting, specs, reply, windows, part>>

DataSpec == DataInit /\ [][DataNext]_parts

------------------------------------------------------------------------------
(* Properties *)

\* What an application is answered is what the broker said and what was asked for: the
\* records of a reply, and the host of a server.
AnswersSurvive == part \in {"replies", "search"} => RepliesSurvive /\ HostsAreTrue

=============================================================================
