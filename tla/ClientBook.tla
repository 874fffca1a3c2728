----------------------------- MODULE ClientBook -----------------------------
(***************************************************************************)
(* mt5-session/src/client.rs: what the native client keeps of the broker's  *)
(* state.  `apply` follows the changes the broker pushes after the login    *)
(* snapshot (mt5-native/src/updates.rs): positions, orders, balance and     *)
(* symbols, the streamed quotes and the depth.  A push that opens positions *)
(* subscribes their symbols and those that convert their currencies.  The   *)
(* pushes arrive in order (NativeSession); what `poll` does around `apply`  *)
(* is in NativeClient.                                                      *)
(***************************************************************************)
EXTENDS Integers, Sequences, SequencesExt, FiniteSets

CONSTANTS Listing,          \* the broker's symbols: [base, profit, margin] currencies by id
          AtLogin,          \* those of the login snapshot, in order
          Home,             \* the account's currency, of state.terms
          SubscribeLists,      \* subscribe lists of the application
          QuoteLimit,       \* 100_000
          DepthLimit,       \* 10_000
          MaxHops,          \* 3
          BookTickets, MaxPushes, MaxWire, MaxVersion, MaxPrice    \* bounds

ASSUME BookAssumption ==
    /\ IsFiniteSet(DOMAIN Listing)
    /\ AtLogin \in Seq(DOMAIN Listing)
    /\ \A i, j \in DOMAIN AtLogin : AtLogin[i] = AtLogin[j] => i = j
    /\ {QuoteLimit, DepthLimit, MaxHops} \subseteq Nat
    /\ BookTickets \subseteq Nat \ {0} /\ {MaxPushes, MaxWire, MaxVersion, MaxPrice} \subseteq Nat

VARIABLES account,          \* the broker's [positions, orders, balance, symbols, pushes]
          wire,             \* pushes on their way
          streamed,         \* the symbols the broker was last asked to stream
          told,             \* the broker's [sides, quotes, depth], as its pushes told
          book,             \* Client [positions, orders, balance, symbols, symbolIds]
          streams,          \* Client [subscriptions, quotes, changedQuotes, changedDepth]
          taken,            \* what the application took: [quotes, depth]
          sound             \* Client::healthy

books == <<account, wire, streamed, told, book, streams, taken, sound>>

Ids == DOMAIN Listing
NoSides == [bid |-> 0, ask |-> 0]
TwoSided(q) == q.bid > 0 /\ q.ask > 0
TicketsIn(records) == {r.ticket : r \in records}

------------------------------------------------------------------------------
(* The client *)

\* connect_with_endpoints: the snapshot, and the place of each symbol in it.
BookInit ==
    /\ \E positions \in {{}} \cup {{p} : p \in [ticket : BookTickets, symbol : ToSet(AtLogin),
                                                volume : {1}]} :
         account = [positions |-> positions, orders |-> {}, balance |-> 0,
                    symbols |-> [s \in ToSet(AtLogin) |-> 0], pushes |-> 0]
    /\ wire = <<>> /\ streamed = {}
    /\ told = [sides |-> [s \in Ids |-> NoSides], quotes |-> <<>>, depth |-> <<>>]
    /\ book = [positions |-> SetToSeq(account.positions), orders |-> <<>>, balance |-> 0,
               symbols |-> [i \in DOMAIN AtLogin |-> [id |-> AtLogin[i], version |-> 0]],
               symbolIds |-> [s \in ToSet(AtLogin) |->
                                CHOOSE i \in DOMAIN AtLogin : AtLogin[i] = s]]
    /\ streams = [subscriptions |-> {}, quotes |-> <<>>, changedQuotes |-> <<>>,
                  changedDepth |-> <<>>]
    /\ taken = [quotes |-> <<>>, depth |-> <<>>]
    /\ sound = TRUE

Listed(b) == DOMAIN b.symbolIds

\* The currency a symbol leads to from another; "" if it does not.
Across(id, currency) ==
    IF Listing[id].base = currency THEN Listing[id].profit
    ELSE IF Listing[id].profit = currency THEN Listing[id].base ELSE ""

\* conversion_path, a symbol of its inner loop: what it leads to is queued, if it is new.
Visit(search, head, s) ==
    LET next == Across(s.id, head.currency)
    IN IF next = "" \/ next \in search.visited THEN search
       ELSE [search EXCEPT !.visited = @ \cup {next},
                           !.queue = Append(@, [currency |-> next,
                                                path |-> head.path \cup {s.id}])]
VisitAll(search, head, symbols) ==
    FoldLeft(LAMBDA found, s : Visit(found, head, s), search, symbols)

\* conversion_path, a round of its loop: breadth first over the symbols in their order,
\* of at most MaxHops.
SearchRound(symbols, search, to) ==
    LET head == Head(search.queue)
        popped == [search EXCEPT !.queue = Tail(@)]
    IN IF search.found \/ search.queue = <<>> THEN search
       ELSE IF head.currency = to THEN [search EXCEPT !.found = TRUE, !.path = head.path]
       ELSE IF Cardinality(head.path) >= MaxHops THEN popped
       ELSE VisitAll(popped, head, symbols)

\* No more rounds than currencies: none is queued twice.
Currencies == UNION {{Listing[id].base, Listing[id].profit, Listing[id].margin} : id \in Ids}
Rounds == 1 + Cardinality(Currencies)

ConversionPath(symbols, from) ==
    FoldLeft(LAMBDA search, n : SearchRound(symbols, search, Home),
             [found |-> FALSE, path |-> {}, visited |-> {from},
              queue |-> <<[currency |-> from, path |-> {}]>>],
             [n \in 1 .. Rounds |-> n])

\* The symbols that convert a symbol's currencies, by the paths there are.
Conversions(b, id) ==
    UNION {ConversionPath(b.symbols, currency).path :
             currency \in {Listing[id].profit, Listing[id].margin}}

\* Fault: only the symbols themselves.
NamesOnly(b, ids) == streams.subscriptions \cup ids
\* subscribe: the subscriptions there will be.
Subscribed(b, ids) == streams.subscriptions \cup ids \cup UNION {Conversions(b, id) : id \in ids}

Subscribe(ids) ==
    /\ ids \subseteq Listed(book)
    /\ streams' = [streams EXCEPT !.subscriptions = Subscribed(book, ids)]
    /\ streamed' = Subscribed(book, ids)
    /\ UNCHANGED <<account, wire, told, book, taken, sound>>

\* take_quotes, take_depth_updates
TakeQuotes ==
    /\ streams.changedQuotes # <<>>
    /\ taken' = [taken EXCEPT !.quotes = @ \o streams.changedQuotes]
    /\ streams' = [streams EXCEPT !.changedQuotes = <<>>]
    /\ UNCHANGED <<account, wire, streamed, told, book, sound>>

TakeDepth ==
    /\ streams.changedDepth # <<>>
    /\ taken' = [taken EXCEPT !.depth = @ \o streams.changedDepth]
    /\ streams' = [streams EXCEPT !.changedDepth = <<>>]
    /\ UNCHANGED <<account, wire, streamed, told, book, sound>>

\* The error of `apply`: the client is not used again.
Unsound == sound' = FALSE

\* A price that is left out, or none, leaves the one before.
Side(old, new) == IF new > 0 THEN new ELSE old

QuoteOf(id) == IF id \in DOMAIN streams.quotes THEN streams.quotes[id] ELSE NoSides

\* apply, 50 and 51
ApplyQuote(m) ==
    LET quote == [bid |-> Side(QuoteOf(m.id).bid, m.bid), ask |-> Side(QuoteOf(m.id).ask, m.ask)]
        reported == TwoSided(quote)
        full == reported /\ Len(streams.changedQuotes) >= QuoteLimit
    IN /\ IF m.id \notin Listed(book) THEN streams' = streams
          ELSE streams' = [streams EXCEPT
                 !.quotes = [id \in DOMAIN @ \cup {m.id} |-> IF id = m.id THEN quote ELSE @[id]],
                 !.changedQuotes = IF reported /\ ~full THEN Append(@, <<m.id, quote>>) ELSE @]
       /\ IF m.id \notin Listed(book) \/ full THEN Unsound ELSE UNCHANGED sound
       /\ UNCHANGED <<book, streamed>>

\* apply, 52: the records of a message are all kept, or those before an unknown symbol.
ApplyDepth(m) ==
    LET full == Len(streams.changedDepth) + Len(m.records) > DepthLimit
        known == {i \in DOMAIN m.records : m.records[i].id \in Listed(book)}
        before == {i \in known : 1 .. i \subseteq known}
    IN /\ streams' = IF full THEN streams
                    ELSE [streams EXCEPT
                            !.changedDepth = @ \o SubSeq(m.records, 1, Cardinality(before))]
       /\ IF full \/ known # DOMAIN m.records THEN Unsound ELSE UNCHANGED sound
       /\ UNCHANGED <<book, streamed>>

\* apply, 55: Update::Symbols
ApplySymbol(m) ==
    /\ book' = IF m.id \in Listed(book)
               THEN [book EXCEPT !.symbols[book.symbolIds[m.id]].version = m.version]
               ELSE [book EXCEPT
                       !.symbols = Append(@, [id |-> m.id, version |-> m.version]),
                       !.symbolIds = [id \in DOMAIN @ \cup {m.id} |->
                                        IF id = m.id THEN Len(book.symbols) + 1 ELSE @[id]]]
    /\ UNCHANGED <<streams, streamed, sound>>

Without(records, ticket) ==
    FoldLeft(LAMBDA kept, r : IF r.ticket # ticket THEN Append(kept, r) ELSE kept, <<>>, records)

\* apply, 55: Update::Orders
ApplyOrder(m) ==
    /\ book' = [book EXCEPT !.orders =
                  Without(@, m.order.ticket) \o IF m.change = "Delete" THEN <<>> ELSE <<m.order>>]
    /\ UNCHANGED <<streams, streamed, sound>>

\* Fault: the records of the other positions of a deal are passed over.
FirstOnly(positions, changed) ==
    IF changed = <<>> THEN positions
    ELSE Without(positions, changed[1].ticket) \o SelectSeq(<<changed[1]>>, LAMBDA p : p.volume > 0)
\* A position's record takes the place of the one before; one of no volume, or of no
\* position, leaves none.
PlacedOne(kept, p) ==
    Without(kept, p.ticket) \o IF p.volume > 0 /\ p.ticket # 0 THEN <<p>> ELSE <<>>
Placed(positions, changed) == FoldLeft(PlacedOne, positions, changed)

\* apply, 55: Update::Positions, with the symbols that are subscribed at the end.
ApplyPositions(m) ==
    LET positions == Placed(book.positions, m.positions)
        missing == {positions[i].symbol : i \in DOMAIN positions}
                     \cap (Listed(book) \ streams.subscriptions)
    IN /\ book' = [book EXCEPT !.positions = positions,
                               !.balance = IF m.deal THEN m.balance ELSE @]
       /\ IF missing = {} THEN UNCHANGED <<streams, streamed>>
          ELSE /\ streams' = [streams EXCEPT !.subscriptions = Subscribed(book, missing)]
               /\ streamed' = Subscribed(book, missing)
       /\ UNCHANGED sound

\* apply, 55: Update::Account; records of other logins are passed over.
ApplyAccount(m) ==
    /\ book' = IF m.own THEN [book EXCEPT !.balance = m.balance] ELSE book
    /\ UNCHANGED <<streams, streamed, sound>>

\* poll: the next message.
PollBook ==
    /\ sound /\ wire # <<>>
    /\ wire' = Tail(wire)
    /\ LET m == Head(wire)
       IN \/ m.kind = "quote" /\ ApplyQuote(m)
          \/ m.kind = "depth" /\ ApplyDepth(m)
          \/ m.kind = "symbol" /\ ApplySymbol(m)
          \/ m.kind = "order" /\ ApplyOrder(m)
          \/ m.kind = "positions" /\ ApplyPositions(m)
          \/ m.kind = "account" /\ ApplyAccount(m)
    /\ UNCHANGED <<account, told, taken>>

------------------------------------------------------------------------------
(* The broker: external. *)

Push(m) ==
    /\ account.pushes < MaxPushes /\ Len(wire) < MaxWire
    /\ wire' = Append(wire, m)
    /\ UNCHANGED <<streamed, book, streams, taken, sound>>

\* A change of the account, and the push that tells of it.
Change(new, m) ==
    /\ Push(m)
    /\ account' = [new EXCEPT !.pushes = @ + 1]
    /\ UNCHANGED told

PositionsPush(records, deal, balance) ==
    [kind |-> "positions", positions |-> records, deal |-> deal, balance |-> balance]

\* A deal opens a position; the balance is the account's after it.
Open(t, s) ==
    LET p == [ticket |-> t, symbol |-> s, volume |-> 1]
    IN /\ t \notin TicketsIn(account.positions)
       /\ Change([account EXCEPT !.positions = @ \cup {p}],
                 PositionsPush(<<p>>, TRUE, account.balance))

\* A change of a position's levels is no deal.
Modify(p) ==
    LET new == [p EXCEPT !.volume = 3 - @]
    IN Change([account EXCEPT !.positions = (@ \ {p}) \cup {new}],
              PositionsPush(<<new>>, FALSE, 0))

\* A position is closed, by another one too.
Close(closed, paid) ==
    LET records == SetToSeq({[p EXCEPT !.volume = 0] : p \in closed})
    IN /\ closed # {}
       /\ Change([account EXCEPT !.positions = @ \ closed, !.balance = @ + paid],
                 PositionsPush(records, TRUE, account.balance + paid))

\* A deal of no position.
Deposit ==
    Change([account EXCEPT !.balance = @ + 1],
           PositionsPush(<<[ticket |-> 0, symbol |-> "", volume |-> 1]>>, TRUE,
                         account.balance + 1))

\* An account record, of this login or another.
TellAccount(own) ==
    IF own THEN Change([account EXCEPT !.balance = @ + 1],
                       [kind |-> "account", own |-> TRUE, balance |-> account.balance + 1])
    ELSE Change(account, [kind |-> "account", own |-> FALSE, balance |-> -1])

Order(t, version, change) ==
    LET o == [ticket |-> t, version |-> version]
        known == t \in TicketsIn(account.orders)
    IN /\ known <=> change # "Add"
       /\ Change([account EXCEPT !.orders =
                    {r \in @ : r.ticket # t} \cup IF change = "Delete" THEN {} ELSE {o}],
                 [kind |-> "order", change |-> change, order |-> o])

\* A symbol is added or its terms change.
TellSymbol(id) ==
    LET version == IF id \in DOMAIN account.symbols THEN account.symbols[id] + 1 ELSE 0
    IN Change([account EXCEPT !.symbols =
                 [s \in DOMAIN @ \cup {id} |-> IF s = id THEN version ELSE @[s]]],
              [kind |-> "symbol", id |-> id, version |-> version])

\* A quote, 0 for a side that it leaves out or that has no price.
SendQuote(id, bid, ask) ==
    LET sides == [bid |-> IF bid > 0 THEN bid ELSE told.sides[id].bid,
                  ask |-> IF ask > 0 THEN ask ELSE told.sides[id].ask]
    IN /\ id \in streamed
       /\ Push([kind |-> "quote", id |-> id, bid |-> bid, ask |-> ask])
       /\ account' = [account EXCEPT !.pushes = @ + 1]
       /\ told' = [told EXCEPT !.sides[id] = sides,
                               !.quotes = IF TwoSided(sides) THEN Append(@, <<id, sides>>) ELSE @]

SendDepth(ids) ==
    LET records == [i \in DOMAIN ids |-> [id |-> ids[i], n |-> Len(told.depth) + i]]
    IN /\ Push([kind |-> "depth", records |-> records])
       /\ account' = [account EXCEPT !.pushes = @ + 1]
       /\ told' = [told EXCEPT !.depth = @ \o records]

BrokerPushes ==
    \/ \E t \in BookTickets, s \in DOMAIN account.symbols : Open(t, s)
    \/ \E p \in account.positions : Modify(p)
    \/ \E closed \in SUBSET account.positions : Close(closed, 1)
    \/ Deposit
    \/ \E own \in BOOLEAN : TellAccount(own)
    \/ \E t \in BookTickets, version \in 0 .. MaxVersion, change \in {"Add", "Update", "Delete"} :
         Order(t, version, change)
    \/ \E id \in Ids : TellSymbol(id)
    \/ \E id \in Ids, bid, ask \in 0 .. MaxPrice : SendQuote(id, bid, ask)
    \/ \E ids \in {<<s>> : s \in Ids} \cup {<<s, s>> : s \in ToSet(AtLogin)} : SendDepth(ids)

BookNext ==
    \/ BrokerPushes
    \/ PollBook
    \/ \E ids \in SubscribeLists : Subscribe(ids)
    \/ TakeQuotes
    \/ TakeDepth

BookSpec == BookInit /\ [][BookNext]_books

------------------------------------------------------------------------------
(* Properties *)

\* The client's positions, orders, balance and symbols, once every push has been read.
BookFits ==
    /\ sound /\ wire = <<>> =>
         /\ ToSet(book.positions) = account.positions
         /\ ToSet(book.orders) = account.orders
         /\ book.balance = account.balance
         /\ {<<s.id, s.version>> : s \in ToSet(book.symbols)}
              = {<<id, account.symbols[id]>> : id \in DOMAIN account.symbols}
    /\ Cardinality(TicketsIn(ToSet(book.positions))) = Len(book.positions)
    /\ Cardinality(TicketsIn(ToSet(book.orders))) = Len(book.orders)
    /\ \A id \in Listed(book) : book.symbols[book.symbolIds[id]].id = id

\* The quotes and depth records the application has got or will get.
StreamsFit ==
    LET quotes == taken.quotes \o streams.changedQuotes
        depth == taken.depth \o streams.changedDepth
    IN /\ IsPrefix(quotes, told.quotes) /\ IsPrefix(depth, told.depth)
       /\ sound /\ wire = <<>> => quotes = told.quotes /\ depth = told.depth

\* Once every push has been read, the client's book is the broker's account, each record
\* once, and each symbol is found by its id.  The quotes the application gets are the
\* two-sided ones the broker's messages add up to, in their order, and the depth records
\* those of its messages; none is missing while the client is sound.
ClientIsTrue == BookFits /\ StreamsFit

\* Symbols that can be put together to convert a currency into the account's.
Converted(ids, currency) ==
    LET symbols == [i \in DOMAIN SetToSeq(ids) |-> [id |-> SetToSeq(ids)[i]]]
    IN ConversionPath(symbols, currency).found

\* A position that was opened since the login is streamed if its symbol was known.  If its
\* symbol had not been streamed before, symbols that lead from its currencies to the
\* account's come with it, where there are any.
PositionsStreamed ==
    [][\A p \in ToSet(book'.positions) \ ToSet(book.positions) :
         p.symbol \in Listed(book) =>
           /\ p.symbol \in streamed'
           /\ p.symbol \notin streamed =>
                \A currency \in {Listing[p.symbol].profit, Listing[p.symbol].margin} :
                  Converted(Listed(book), currency) => Converted(streamed', currency)]_books

=============================================================================
