--------------------------- MODULE WebtermReplies ---------------------------
(***************************************************************************)
(* mt5-webterm/src/parse.rs, the decoders of what the web terminal is      *)
(* answered, and the request bodies of protocol.rs.  The layouts are the   *)
(* broker's, as the comments and tests of parse.rs describe them; the      *)
(* places a decoder reads are the code's.                                  *)
(*                                                                         *)
(* A value stands for itself: fixed point, decimals, the milliseconds of a *)
(* time and the deflated symbol list are left out.                         *)
(***************************************************************************)
EXTENDS WireLayout

CONSTANTS MaxReplied,   \* bound: records in a section of a reply
          Appended,     \* bytes a newer server may append to a specification
          Lost,         \* bytes that may be missing at the end of a reply
          KnownIds      \* the records whose symbol the client has listed

VARIABLE reply          \* the kind of reply, its records and what became of it

At(offset, width) == <<offset, width>>
Fewer(x, y) == IF x < y THEN x ELSE y

ReplyInit ==
    reply \in [kind : {"deals", "positions", "specs", "list", "quotes", "stats", "candles",
                       "account", "trade"},
               first : {0}, second : {0}, appended : {0}, lost : {0}]

------------------------------------------------------------------------------
(* Deals, followed by the history of orders *)

DealLayout == <<
    <<"ticket", 8>>, <<"external", 64>>, <<"order", 8>>, <<"time", 8>>, <<"symbol", 64>>,
    <<"kind", 4>>, <<"entry", 4>>, <<"price", 8>>, <<"positionPrice", 8>>, <<"sl", 8>>,
    <<"tp", 8>>, <<"volume", 8>>, <<"profit", 8>>, <<"profitRate", 8>>, <<"marginRate", 8>>,
    <<"commission", 8>>, <<"swap", 8>>, <<"magic", 8>>, <<"position", 8>>, <<"comment", 64>>,
    <<"contract", 8>>, <<"flags", 4>>, <<"digits", 4>>, <<"mode", 4>>, <<"millis", 4>>,
    <<"reason", 4>>, <<"last", 8>> >>

DealReads == [
    ticket |-> At(0, 8), order |-> At(72, 8), time |-> At(80, 8), millis |-> At(340, 4),
    symbol |-> At(88, 64), kind |-> At(152, 4), entry |-> At(156, 4), price |-> At(160, 8),
    sl |-> At(176, 8), tp |-> At(184, 8), volume |-> At(192, 8), profit |-> At(200, 8),
    commission |-> At(224, 8), swap |-> At(232, 8), magic |-> At(240, 8),
    position |-> At(248, 8), comment |-> At(256, 64), contract |-> At(320, 8)]

DEAL_REC_SIZE == 356

\* The records of a counted section that begins at base, as many as are whole.
Counted(body, base, reads, size) ==
    LET count == Take(body, base, 4)
        whole == (body.len - base - 4) \div size
    IN  IF body.len < base + 4 THEN <<>>
        ELSE [r \in 1 .. (IF count < whole THEN count ELSE whole) |->
                TakeAll(body, reads, base + 4 + (r - 1) * size)]

\* Fault: the stride is guessed from the length of the body.
GuessedDeals(body) ==
    IF body.len < 4 \/ reply.first = 0 THEN <<>>
    ELSE Counted(body, 0, DealReads, (body.len - 4) \div Take(body, 0, 4))
Deals(body) == Counted(body, 0, DealReads, DEAL_REC_SIZE)

------------------------------------------------------------------------------
(* Positions, followed by the open orders *)

PositionLayout == <<
    <<"ticket", 8>>, <<"external", 8>>, <<"time", 4>>, <<"updated", 4>>, <<"symbol", 64>>,
    <<"side", 4>>, <<"price", 8>>, <<"current", 8>>, <<"sl", 8>>, <<"tp", 8>>, <<"volume", 8>>,
    <<"profit", 8>>, <<"rate", 8>>, <<"margin", 8>>, <<"commission", 8>>, <<"swap", 8>>,
    <<"magic", 8>>, <<"id", 8>>, <<"comment", 64>>, <<"contract", 8>>, <<"digits", 4>>,
    <<"money", 4>>, <<"reason", 4>>, <<"group", 64>>, <<"flags", 4>>, <<"millis", 4>> >>

PositionReads == [
    ticket |-> At(0, 8), time |-> At(16, 4), symbol |-> At(24, 64), side |-> At(88, 4),
    price |-> At(92, 8), sl |-> At(108, 8), tp |-> At(116, 8), volume |-> At(124, 8),
    profit |-> At(132, 8), commission |-> At(156, 8), swap |-> At(164, 8),
    magic |-> At(172, 8), comment |-> At(188, 64)]

OrderLayout == <<
    <<"ticket", 8>>, <<"external", 64>>, <<"symbol", 64>>, <<"times", 12>>, <<"kind", 4>>,
    <<"rules", 52>>, <<"volume", 4>>, <<"sizes", 16>>, <<"magic", 8>>, <<"notes", 104>>,
    <<"price", 8>>, <<"last", 12>> >>

OrderReads == [
    ticket |-> At(0, 8), magic |-> At(224, 8), symbol |-> At(72, 64), kind |-> At(148, 4),
    volume |-> At(204, 4), price |-> At(336, 8)]

ORDER_REC_SIZE == 356
PosSize == Size(PositionLayout)

Positions(body) == Counted(body, 0, PositionReads, PosSize)

\* The positions are stepped over by their count, whole or not.
Orders(body) ==
    IF body.len < 4 THEN <<>>
    ELSE Counted(body, 4 + Take(body, 0, 4) * PosSize, OrderReads, ORDER_REC_SIZE)

------------------------------------------------------------------------------
(* Symbols: the list, and full specifications *)

ListLayout == <<
    <<"name", 64>>, <<"description", 128>>, <<"digits", 4>>, <<"id", 4>>, <<"path", 256>>,
    <<"calc", 4>>, <<"more", 64>>, <<"last", 2>> >>

ListReads == [name |-> At(0, 64), digits |-> At(192, 4), id |-> At(196, 4), calc |-> At(456, 4)]

SYMBOL_LIST_REC_SIZE == 526

Symbols(body) == Counted(body, 0, ListReads, SYMBOL_LIST_REC_SIZE)

SpecLayout(appended) == <<
    <<"name", 64>>, <<"texts", 1212>>, <<"base", 32>>, <<"profit", 32>>, <<"margin", 32>>,
    <<"colors", 20>>, <<"digits", 4>>, <<"point", 8>>, <<"multiply", 8>>, <<"id", 4>>,
    <<"depth", 24>>, <<"tickValue", 8>>, <<"tickSize", 8>>, <<"contract", 8>>, <<"gtc", 4>>,
    <<"calc", 4>>, <<"rates", 328>>, <<"trade", 4>>, <<"stops", 4>>, <<"freeze", 4>>,
    <<"execution", 4>>, <<"filling", 4>>, <<"rules", 52>>, <<"min", 8>>, <<"max", 8>>,
    <<"step", 8>>, <<"sessions", 1172>>, <<"appended", appended>> >>

SpecReads == [
    name |-> At(0, 64), id |-> At(1412, 4), digits |-> At(1392, 4), point |-> At(1396, 8),
    base |-> At(1276, 32), profit |-> At(1308, 32), margin |-> At(1340, 32),
    tickValue |-> At(1440, 8), tickSize |-> At(1448, 8), contract |-> At(1456, 8),
    calc |-> At(1468, 4), trade |-> At(1800, 4), stops |-> At(1804, 4), freeze |-> At(1808, 4),
    execution |-> At(1812, 4), filling |-> At(1816, 4), min |-> At(1872, 8),
    max |-> At(1880, 8), step |-> At(1888, 8)]

SYMBOL_INFO_REC_SIZE == 3068

SpecStride(records, count) ==
    IF records % count = 0 /\ records \div count >= 1896 THEN records \div count
    ELSE SYMBOL_INFO_REC_SIZE

Specifications(body) ==
    IF body.len < 4 \/ Take(body, 0, 4) = 0 THEN <<>>
    ELSE Counted(body, 0, SpecReads, SpecStride(body.len - 4, Take(body, 0, 4)))

------------------------------------------------------------------------------
(* Quotes, statistics and candles: as many records as fit in the body *)

QuoteLayout == <<<<"id", 4>>, <<"time", 8>>, <<"bid", 8>>, <<"ask", 8>>, <<"more", 22>>>>
QuoteReads == [id |-> At(0, 4), bid |-> At(12, 8), ask |-> At(20, 8)]
QUOTE_SIZE == 50

StatsLayout == <<<<"id", 4>>, <<"volumes", 16>>, <<"bid", 8>>, <<"range", 16>>, <<"ask", 8>>,
                 <<"session", 156>>, <<"time", 8>>, <<"more", 58>>>>
StatsReads == [id |-> At(0, 4), bid |-> At(20, 8), ask |-> At(44, 8), time |-> At(208, 8)]
TICK_STATS_REC_SIZE == 274

CandleLayout == <<<<"time", 4>>, <<"open", 8>>, <<"high", 8>>, <<"low", 8>>, <<"close", 8>>,
                  <<"volume", 8>>, <<"spread", 4>>>>
CandleReads == [time |-> At(0, 4), open |-> At(4, 8), high |-> At(12, 8), low |-> At(20, 8),
                close |-> At(28, 8), volume |-> At(36, 8)]

Uncounted(body, reads, size) ==
    [r \in 1 .. body.len \div size |-> TakeAll(body, reads, (r - 1) * size)]

\* A record of a symbol the client does not know is skipped.
OfKnown(quotes) == SelectSeq(quotes, LAMBDA q : q.id[3] \in KnownIds)

Quotes(body) == OfKnown(Uncounted(body, QuoteReads, QUOTE_SIZE))
Stats(body) == OfKnown(Uncounted(body, StatsReads, TICK_STATS_REC_SIZE))
Candles(body) == Uncounted(body, CandleReads, 48)

------------------------------------------------------------------------------
(* The account, and the answer to a trade *)

AccountLayout == <<
    <<"flags", 1>>, <<"rights", 4>>, <<"mode", 4>>, <<"balance", 8>>, <<"equity", 8>>,
    <<"currency", 64>>, <<"digits", 4>>, <<"group", 4>>, <<"name", 256>>, <<"leverage", 2>>,
    <<"server", 128>>, <<"company", 256>>, <<"zone", 4>>, <<"daylight", 1>> >>

\* The texts of an account, in units of two bytes; a zero ends each.
Written == [currency |-> 3, server |-> 20]

AccountPlace(f) ==
    LET i == CHOOSE i \in DOMAIN AccountLayout : AccountLayout[i][1] = f
    IN  At(Starts(AccountLayout)[i], AccountLayout[i][2])

\* What a number is where bytes of it are missing, and the server the client logs in to.
Zero == <<"zero">>
AskedFor == <<"asked for">>
Beginning(text, units) == <<"beginning", text, units>>

\* from_utf16_le, of the bytes of a text that are left.
TextAt(body, f) ==
    LET place == AccountPlace(f)
        left == IF body.len < place[1] THEN 0 ELSE Fewer(body.len - place[1], place[2])
        text == Take([body EXCEPT !.len = place[1] + place[2]], place[1], place[2])
    IN  IF left >= 2 * Written[f] THEN text ELSE Beginning(text, left \div 2)

NumberAt(body, f) ==
    LET number == Take(body, AccountPlace(f)[1], AccountPlace(f)[2])
    IN  IF number = Short THEN Zero ELSE number

\* The decoder walks the same widths and reads each field from the bytes that are left.
Account(body) ==
    LET server == TextAt(body, "server")
        equity == NumberAt(body, "equity")
    IN  [balance |-> NumberAt(body, "balance"),
         equity |-> IF equity = Zero THEN NumberAt(body, "balance") ELSE equity,
         currency |-> TextAt(body, "currency"), leverage |-> NumberAt(body, "leverage"),
         server |-> IF server[1] = "beginning" /\ server[3] = 0 THEN AskedFor ELSE server,
         zone |-> NumberAt(body, "zone"), daylight |-> NumberAt(body, "daylight")]

OP_SIZE == 248
ResultLayout == <<<<"first", 4>>, <<"op", OP_SIZE>>, <<"retcode", 4>>, <<"deal", 8>>,
                  <<"order", 8>>, <<"volume", 8>>, <<"price", 8>>>>
ResultReads == [retcode |-> At(4 + OP_SIZE, 4), deal |-> At(8 + OP_SIZE, 8),
                order |-> At(16 + OP_SIZE, 8), price |-> At(32 + OP_SIZE, 8)]

\* parse_trade_event, and send_op where it finds nothing.
TradeResult(body) ==
    IF body.len >= 4 + OP_SIZE + 36 THEN TakeAll(body, ResultReads, 0)
    ELSE [retcode |-> Take(body, 0, 4)]

------------------------------------------------------------------------------
(* Requests *)

PackOp == <<
    At(0, 4), At(4, 4), At(8, 64), At(72, 8), At(80, 4), At(84, 8), At(92, 4), At(96, 4),
    At(100, 4), At(104, 4), At(112, 8), At(120, 8), At(128, 8), At(136, 8), At(144, 4),
    At(164, 64), At(228, 8)>>

PackRates == <<At(0, 64), At(64, 2), At(66, 4), At(70, 4)>>

\* The password takes two bytes a unit, the server the length that precedes it.
PackLogin(units) == <<At(4, 2 * units), At(476, 4), At(480, 256), At(736, 8)>>

------------------------------------------------------------------------------
(* The replies the broker makes *)

DealFields == Fields(DealLayout)
PositionFields == Fields(PositionLayout)
OrderFields == Fields(OrderLayout)

CountedSection(fields, size, name, n) == Join(Number(4, n), Records(fields, size, name, n))
History(n) == CountedSection(OrderFields, ORDER_REC_SIZE, 2, n)

Body ==
    LET n == reply.first
    IN  CASE reply.kind = "deals" ->
               Join(CountedSection(DealFields, Size(DealLayout), 1, n), History(reply.second))
          [] reply.kind = "positions" ->
               Join(CountedSection(PositionFields, PosSize, 1, n), History(reply.second))
          [] reply.kind = "specs" ->
               CountedSection(Fields(SpecLayout(reply.appended)),
                              Size(SpecLayout(reply.appended)), 1, n)
          [] reply.kind = "list" -> CountedSection(Fields(ListLayout), Size(ListLayout), 1, n)
          [] reply.kind = "quotes" -> Records(Fields(QuoteLayout), Size(QuoteLayout), 1, n)
          [] reply.kind = "stats" -> Records(Fields(StatsLayout), Size(StatsLayout), 1, n)
          [] reply.kind = "candles" -> Records(Fields(CandleLayout), Size(CandleLayout), 1, n)
          [] reply.kind = "account" -> Records(Fields(AccountLayout), Size(AccountLayout), 1, 1)
          [] reply.kind = "trade" -> Records(Fields(ResultLayout), Size(ResultLayout), 1, 1)

\* Only a reply that could be short is one: a specification is never cut.
ReplyNext ==
    \/ reply.first < MaxReplied /\ reply' = [reply EXCEPT !.first = @ + 1]
    \/ /\ reply.second < MaxReplied /\ reply.kind \in {"deals", "positions"}
       /\ reply' = [reply EXCEPT !.second = @ + 1]
    \/ /\ reply.kind = "specs" /\ \E n \in Appended : reply' = [reply EXCEPT !.appended = n]
    \/ /\ reply.kind # "specs"
       /\ \E n \in Lost : n <= Body.len /\ reply' = [reply EXCEPT !.lost = n]

ReplySpec == ReplyInit /\ [][ReplyNext]_reply

------------------------------------------------------------------------------
(* Properties *)

\* The first n records of a section, as they were sent.
AsSent(reads, section, n) == [r \in 1 .. n |-> Meant(reads, section, r)]

\* Of n records that begin at base those within len bytes.
Within(n, base, size, len) == IF len < base THEN 0 ELSE Fewer(n, (len - base) \div size)

\* What came whole of an account is as it was sent.  Else a number is zero, but the equity
\* is the balance; a text is no more than a beginning of it, and the server, where nothing
\* of it came, the one that was asked for.
AccountSurvives(body) ==
    \A f \in DOMAIN Account(body) :
        LET value == Account(body)[f]
            place == AccountPlace(f)
            sent == <<f, 1, 1>>
        IN  \/ value = sent
            \/ /\ place[1] + place[2] > body.len
               /\ \/ f \notin DOMAIN Written /\ value = Zero
                  \/ f = "equity" /\ value = Account(body).balance
                  \/ f = "server" /\ value = AskedFor /\ body.len < place[1] + 2
                  \/ f \in DOMAIN Written /\ \E k \in 0 .. Written[f] - 1 :
                        value = Beginning(sent, k) /\ (k > 0 => place[1] + 2 * k <= body.len)

\* Every decoder gives the records of its section that came whole, each with its own
\* fields: whatever follows them in the reply, however many bytes a newer server
\* appends to a specification, and wherever the reply ends.  An account that is cut is
\* still one: AccountSurvives says what it may hold.
Survives(body, n, m) ==
    CASE reply.kind = "deals" ->
           Deals(body) = AsSent(DealReads, 1, Within(n, 4, 356, body.len))
      [] reply.kind = "positions" ->
           /\ Positions(body) = AsSent(PositionReads, 1, Within(n, 4, 344, body.len))
           /\ Orders(body) = AsSent(OrderReads, 2, Within(m, 8 + n * 344, 356, body.len))
      [] reply.kind = "specs" -> Specifications(body) = AsSent(SpecReads, 1, n)
      [] reply.kind = "list" -> Symbols(body) = AsSent(ListReads, 1, Within(n, 4, 526, body.len))
      [] reply.kind = "quotes" ->
           Quotes(body) = OfKnown(AsSent(QuoteReads, 1, Within(n, 0, 50, body.len)))
      [] reply.kind = "stats" ->
           Stats(body) = OfKnown(AsSent(StatsReads, 1, Within(n, 0, 274, body.len)))
      [] reply.kind = "candles" ->
           Candles(body) = AsSent(CandleReads, 1, Within(n, 0, 48, body.len))
      [] reply.kind = "account" ->
           AccountSurvives(body)
      [] reply.kind = "trade" ->
           IF reply.lost = 0 THEN TradeResult(body) = Meant(ResultReads, 1, 1)
           ELSE TradeResult(body).retcode \in {Short, <<"first", 1, 1>>}

\* No field of a request is written over another, up to the longest password there is
\* room for.
RequestsIntact ==
    /\ Intact(OP_SIZE, PackOp) /\ Intact(74, PackRates)
    /\ \A units \in 0 .. 236 : Intact(912, PackLogin(units))

RepliesSurvive ==
    /\ Survives(Cut(Body, Body.len - reply.lost), reply.first, reply.second)
    /\ RequestsIntact

=============================================================================
