---------------------------- MODULE MCNativeData ----------------------------
(***************************************************************************)
(* The decoders, the history calls, the book, the margin and the endpoint   *)
(* pool of the native client, one at a time: `part` says which of them     *)
(* moves in a behaviour, the others stay as they begin.                     *)
(***************************************************************************)
EXTENDS QuoteRecords, BarContainers, Compression, FrameParser, TickHistory, BarHistory,
        TradeHistory, ClientBook, EndpointPool, SyncStream, NativeRecords,
        AccountMargin, Calendar

VARIABLE part

parts == <<records, containers, compression, parser, market, charts, ledger, books,
           pooling, syncing, message, portfolio, calendar, part>>

\* Ranges within a day, over all the days, of no time, of too many days, before 1970.
DataTickRanges == {<<1, 3>>, <<2, 2>>, <<0, 5>>, <<-1, 2>>}
DataBarRanges == {<<0, 5>>, <<1, 4>>, <<2, 2>>, <<-1, 3>>}
DataWindows == {<<0, 1>>, <<0, 2>>, <<1, 1>>}

\* Three symbols, of which the login tells two; A's currencies are converted to z by B and C.
DataListing == [A |-> [base |-> "x", profit |-> "y", margin |-> "x"],
                B |-> [base |-> "z", profit |-> "y", margin |-> "z"],
                C |-> [base |-> "x", profit |-> "z", margin |-> "x"]]
DataAtLogin == <<"A", "B">>
DataSubscribeLists == {{"A"}}

\* A message may be longer than it says, or lack bytes at its end.
DataMissing == {-1, -672, 1, 4, 8, 636, 672, 1212}

\* Two or three seeds, of which the last leads to a reliable peer; advertised names lead
\* anywhere.  A lookup may fail, bring one peer or two, and change.
DataNames == {"seed", "gateway", "home", "advertised", "inside", "malformed"}
DataValid == DataNames \ {"malformed"}
DataSeedLists == {<<"seed", "home", "seed">>, <<"gateway", "seed", "home">>,
                  <<"seed", "malformed">>, <<"seed", "gateway", "home", "inside">>}
DataLookup(name) ==
    CASE name = "seed" -> {<<>>, <<"remote", "other">>}
      [] name = "gateway" -> {<<"local">>}
      [] name = "home" -> {<<"reliable", "other">>}
      [] name = "advertised" -> {<<"other">>, <<"lan", "remote">>}
      [] name = "inside" -> {<<"lan">>}
DataPoints == {<<>>, <<"advertised">>, <<"malformed", "inside">>,
               <<"home", "inside", "advertised">>}

\* Symbols of each way to calculate a margin; the rates of orders differ from each other,
\* those of sell limits are zero, and those of positions are not those of orders.
Term(mode, initial, maintenance, hedged) ==
    [mode |-> mode, valid |-> TRUE, largerLeg |-> FALSE, contract |-> 3, tickValue |-> 2, tickSize |-> 1,
     initial |-> initial, maintenance |-> maintenance, hedged |-> hedged,
     rates |-> <<1, 1, 1, 0, 2, 1, 1, 1>>, maintenanceRates |-> <<1, 2>>]
DataTerms ==
    [forex |-> Term("forex", 0, 0, 2), cfd |-> Term("cfd", 0, 0, 3),
     larger |-> [Term("cfd leverage", 2, 1, 3) EXCEPT !.largerLeg = TRUE],
     index |-> [Term("index", 0, 2, 0) EXCEPT !.maintenanceRates = <<1, 1>>,
                                                !.tickSize = 2],
     unticked |-> [Term("index", 0, 0, 0) EXCEPT !.tickSize = 0],
     future |-> Term("futures", 2, 0, 1), other |-> Term("other", 2, 0, 1),
     bad |-> [Term("cfd", 0, 0, 3) EXCEPT !.valid = FALSE]]
Held(digits, model, accounting, symbols) ==
    [digits |-> digits, model |-> model, accounting |-> accounting, symbols |-> symbols]
DataGroups ==
    {Held(2, 1, 2, {symbol}) : symbol \in DOMAIN DataTerms}
      \union {Held(2, 1, 1, {"forex", "index"}), Held(2, 0, 2, {"forex"}),
              Held(9, 1, 2, {"cfd"})}
DataPendingRates == [symbol \in DOMAIN DataTerms |-> IF symbol = "cfd" THEN 0 ELSE 1]
DataFills == [symbol \in DOMAIN DataTerms |->
                 CASE symbol = "cfd" -> {<<1, 1>>, <<3, 2>>, <<1, 0>>}
                   [] symbol \in {"other", "bad", "unticked"} -> {<<1, 1>>}
                   [] OTHER -> {<<1, 1>>, <<3, 2>>}]

\* Every year a history may be asked for, and one more at either end.
DataYears == 1969 .. 2098

------------------------------------------------------------------------------
(* The inputs of each part *)

QuotesInit == batch \in {"live", "snapshot", "depth"} /\ bits = <<>> /\ meant = <<>>

QuotesNext ==
    /\ Len(meant) < 2
    /\ \/ \E symbol \in {-70, 0}, seconds \in {0, 90}, mask \in {0, 1, 6, 11, 15}, v \in {-5, 100} :
            WriteQuote(symbol, seconds, mask, v)
       \/ \E symbol \in {-70, 0}, n \in 0 .. 2, v \in {0, -5, 100} : WriteDepth(symbol, n, v)

BarsWritten ==
    /\ Len(sent) < 3
    /\ \/ \E time \in {1, 5}, flags \in {0, 1, 2, 3, 8, 9}, rise \in {-1, 1} :
            WriteAnchor(time, flags, rise)
       \/ \E skip \in {0, 2}, gap \in {0, -1}, rises \in {<<1>>, <<1, -1>>} :
            WriteRun(skip, gap, rises)

SenderNext ==
    /\ Len(packed) < 8
    /\ \/ \E n \in {0, 1, 3, 4, 238, 239, 273, 274, 528, 529} : PutStored(n)
       \/ \E n \in {1, 3, 4} : PutOpening(n)
       \/ \E n \in {4, 18, 19, 273, 274} : PutRun(n)
       \/ \E distance \in {1, 5}, f \in 0 .. 2 : PutShort(distance, f)
       \/ \E distance \in {1, 9}, n \in {3, 8}, f \in {0, 3} : PutNear(distance, n, f)
       \/ \E distance \in {2, 300}, n \in {9, 33, 34, 288, 289}, f \in {0, 1} :
            PutLong(distance, n, f)

\* Behind many literals matches reach far back: the nearest and the farthest distance that
\* each instruction has, with the lengths at which it needs another byte.  (Bounds: one
\* length of the literals, and few bytes behind them.)
Distant == 33000
DistantNext ==
    \/ packed = <<>> /\ PutStored(Distant)
    \/ /\ Len(plain) = Distant
       /\ \E distance \in {16385, 32767, 32768, 32800}, n \in {3, 9, 10, 262}, f \in {0, 1} :
            PutFar(distance, n, f)
    \/ /\ Len(plain) \in Distant .. Distant + 7
       /\ \/ \E distance \in {2049, 3072}, f \in {0, 1} : PutShortAfterRun(distance, f)
          \/ PutRun(4)

------------------------------------------------------------------------------

DataInit ==
    /\ part \in {"quotes", "containers", "compression", "frames", "ticks", "bars", "trades",
                "book", "endpoints", "synchronization", "records", "margin", "calendar"}
    /\ IF part = "quotes" THEN QuotesInit ELSE batch = "live" /\ bits = <<>> /\ meant = <<>>
    /\ WriterInit /\ SenderInit /\ ParserInit /\ TicksInit
    /\ IF part = "bars" THEN BarsInit ELSE traded = {} /\ paging = NoPaging
    /\ LedgerInit /\ (part # "trades" => kind = "deals")
    /\ BookInit /\ \A p \in account.positions : part = "book" /\ p.ticket = 1
    /\ IF part = "endpoints" THEN PoolInit
       ELSE /\ routes = <<Route("home", FALSE)>> /\ lastPeer = NoPeer /\ host = "up"
            /\ targets = <<>> /\ left = 0 /\ peer = NoPeer
    /\ SyncInit /\ (part # "synchronization" => syncing.build = 4071 /\ syncing.status = 0)
    /\ MessageInit /\ (part # "records" => message.kind = 1)
    /\ PortfolioInit /\ (part # "margin" => portfolio.group.digits = 9)
    /\ CalendarInit /\ (part # "calendar" => civil[1] = 1970)

Ticking ==
    /\ part = "ticks"
    /\ UNCHANGED <<records, containers, compression, parser, charts, ledger, books,
                   pooling, syncing, message, portfolio, calendar, part>>
Pooling ==
    /\ part = "endpoints"
    /\ UNCHANGED <<records, containers, compression, parser, market, charts, ledger, books,
                   syncing, message, portfolio, calendar, part>>

DataNext ==
    \/ /\ part = "quotes" /\ QuotesNext
       /\ UNCHANGED <<containers, compression, parser, market, charts, ledger, books,
                      pooling, syncing, message, portfolio, calendar, part>>
    \/ /\ part = "containers" /\ BarsWritten
       /\ UNCHANGED <<records, compression, parser, market, charts, ledger, books,
                      pooling, syncing, message, portfolio, calendar, part>>
    \/ /\ part = "compression" /\ (SenderNext \/ DistantNext)
       /\ UNCHANGED <<records, containers, parser, market, charts, ledger, books,
                      pooling, syncing, message, portfolio, calendar, part>>
    \/ /\ part = "frames" /\ ParserNext
       /\ UNCHANGED <<records, containers, compression, market, charts, ledger, books,
                      pooling, syncing, message, portfolio, calendar, part>>
    \/ Ticking /\ TicksNext
    \/ /\ part = "bars" /\ BarsNext
       /\ UNCHANGED <<records, containers, compression, parser, market, ledger, books,
                      pooling, syncing, message, portfolio, calendar, part>>
    \/ /\ part = "trades" /\ LedgerNext
       /\ UNCHANGED <<records, containers, compression, parser, market, charts, books,
                      pooling, syncing, message, portfolio, calendar, part>>
    \/ /\ part = "book" /\ BookNext
       /\ UNCHANGED <<records, containers, compression, parser, market, charts, ledger,
                      pooling, syncing, message, portfolio, calendar, part>>
    \/ Pooling /\ PoolNext
    \/ /\ part = "synchronization" /\ SyncNext
       /\ UNCHANGED <<records, containers, compression, parser, market, charts, ledger,
                      books, pooling, message, portfolio, calendar, part>>
    \/ /\ part = "records" /\ MessageNext
       /\ UNCHANGED <<records, containers, compression, parser, market, charts, ledger,
                      books, pooling, syncing, portfolio, calendar, part>>
    \/ /\ part = "margin" /\ PortfolioNext
       /\ UNCHANGED <<records, containers, compression, parser, market, charts, ledger,
                      books, pooling, syncing, message, calendar, part>>
    \/ /\ part = "calendar" /\ Tomorrow
       /\ UNCHANGED <<records, containers, compression, parser, market, charts, ledger,
                      books, pooling, syncing, message, portfolio, part>>

\* A call ends at its deadline, and the host tries again as long as it has no connection.
DataSpec ==
    /\ DataInit /\ [][DataNext]_parts
    /\ WF_parts(Ticking /\ (TicksFailed \/ AnswerTicks)) /\ WF_parts(Pooling /\ Reconnect)

------------------------------------------------------------------------------
(* Properties *)

\* (A state in which these parts are as they begin needs no second look.)
\* What a broker packs is what the client unpacks: quotes and books of every mask and
\* sign in a batch, bars in containers, compressed payloads, and frames however the
\* stream is split, which is refused for a bad length only; the day a history is asked
\* for is the day that is meant; and what a broker says of the account, at the login and
\* later, arrives as it was meant, or not at all.  So does what the client asks of it,
\* except that of a symbol or comment too long for its field only the beginning arrives.
CodecsSurvive ==
    part \in {"quotes", "containers", "compression", "frames", "calendar",
              "synchronization", "records"} =>
        /\ BatchesSurvive /\ BarsSurvive /\ PayloadsSurvive /\ SplitsDoNotMatter
        /\ RefusedForItsHeader /\ DatesSurvive /\ SyncSurvives /\ RecordsSurvive

\* What the client has begun comes to an end: a history call, whatever the broker goes
\* on answering, and the search of a host that has lost its connection for another.
NothingStaysOpen == TicksEnd /\ Reconnects

=============================================================================
