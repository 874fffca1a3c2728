# Verification of mt5-open

mt5-open talks to MetaTrader 5 brokers in two ways: the native terminal protocol
(`mt5-native`, `mt5-session`) and the web-terminal protocol (`mt5-webterm`). This
directory holds TLA+ modules translated from the Rust source, the TLC
configurations that check them on small instances, and proofs that TLAPS checks
for every value of the constants.

    tlc -config NativeSession.cfg MCNativeSession      # one run
    tlapm NativeSessionProofs.tla                      # one module of proofs

## 1. Inventory

| part | state it keeps | operations | what makes it correct |
|---|---|---|---|
| **Native session** `mt5-session/src/lib.rs`, `connection.rs` | `State` (Connected, Authenticated, Ready, Failed), the two ciphers, partial messages, account, read-only switch, a 16-bit sequence, frames parsed and not taken | `authenticate`, `synchronize`, `send_request`, `send_trade`, `poll_message` | both ciphers stay in step with the broker's; complete messages come out once and in order; a session that failed is never used again; read-only is for good; calls end at their deadline |
| **Handshake** `mt5-native/src/handshake.rs`, `auth.rs` | phase, challenge seen, session key, trade key, transmit cipher | `client_hello`, `login_challenge`, `authentication_complete`, `sync_request`, `into_transmit_cipher` | its cipher is the one the session goes on with, at the position it reached |
| **Cipher** `cipher.rs` | key and position | `encrypt`, `decrypt` | both ends move by the same bytes |
| **Reassembly** `reassembly.rs` | command and bytes per sequence number | `push` | bounded; fragments never mix |
| **Frame parser** `frame.rs` | bytes not yet parsed | `feed` | frames do not depend on how reads split the stream |
| **Native client** `mt5-session/src/client.rs` | symbols, quotes, positions, orders, health, two clocks | `poll`, `apply`, `subscribe`, `request`, `trade` | answers reach the request they belong to; a trade whose fate is unknown is reported as uncertain; the book it keeps is the account |
| **History requests** `client/history.rs` | loop counters | `deals`, `orders`, `ticks`, `bars` | pagination ends, neither loses nor repeats a record, while the broker's data change between the pages |
| **Endpoint pool** `endpoints.rs` | bootstrap and learned routes, last peer | `new`, `learn`, `connect`, `authenticated` | bounded, no repeats, every seed gets its turn |
| **Web-terminal client** `mt5-webterm/src/client.rs` | waiting requests by command, outbound queue, quote cache, subscriptions, `closed` | `dial`, `request`, `subscribe`, `send_op`; reader, writer and heartbeat tasks | an answer reaches the request it belongs to; nobody waits on a dead connection; the list the server streams is the list subscribed |
| **Web-terminal session** `mt5-webterm/src/session.rs` | live client with its generation, what is noted as subscribed, its age, the pause after refused logins, the symbols of interest | `client`, `reconnect`, `ensure_subscribed`, `snapshot`, `ticks`, `resubscribe`, `send`, `history`, `history_latest`, `deals`, `load_specs` | one dial at a time and none during a pause; streams follow the session and give every price once; a snapshot trusts no old connection; a receipt names the entry that was made; money and times are the application's |
| **Web-terminal encodings** `mt5-webterm/src/parse.rs`, `protocol.rs` | none | `parse_*`, `pack_op`, `pack_rates_req`, `pack_login` | fields and records are found whatever a newer server appends; what is cut off does not come from elsewhere |
| **Server search** `mt5-webterm/src/search.rs` | none | `find_web_terminal`, `access_points`, `list_servers` | the host dialled is one the server publishes |
| **Synchronization and records** `sync/account.rs`, `updates.rs`, `account.rs`, `trade.rs`, `records.rs`, `tlv.rs`, `reader.rs` | the place in a body | `parse_synchronized_state`, `decode_update`, `parse_account_update_19`, `parse_trade_update_35`, `make_signed_trade_payload`, `parse_tlvs` | the walk through sections nobody reads ends where the next begins; a message is read whole or refused |
| **Margin** `margin.rs`, `client/margin.rs` | none | `Client::margin`, `hedging_margin`, `order_margin` | it depends on what is held, not on how it came about; nothing is left out of the sum |
| **Codecs** `bitpack.rs`, `quotes.rs`, `depth.rs`, `bars.rs`, `compression.rs`, `tick_history.rs`, `trade_history.rs` | none across calls; positions and sticky flags inside one | `encode_quote`, `decode_quotes`, `decode_depth`, `container`, `lzo1x_decompress`, `lzo1x_store`, `materialize_ticks`, `decode_trade_history` | what was encoded comes out, what is torn or out of bounds is refused |

The other parts (cryptographic primitives, tools) keep no state across calls;
`PROJECT.json` lists each with the reason it is left out.

**How they interact.** `Client` owns `Session`, which owns `Connection` (socket
and `FrameParser`), the handshake and, when ready, two `Cipher`s and a
`MessageReassembler`. All of that runs on the caller's thread with blocking reads:
the concurrency is between that thread and the broker. The web-terminal client is
asynchronous: any number of callers share it with a reader, a writer and a
heartbeat task through mutexes, channels and one atomic flag, and `Session` shares
one such client between streams.

**What is hard.** Native: the enciphered byte streams cannot resynchronize, so one
byte lost, repeated or deciphered twice ends the session; errors may happen
half-way through a frame, a message or a synchronization; deadlines pass between
any two frames. Web terminal: the protocol carries no request identifier, so an
answer is matched by command; connections close while requests are being made;
timeouts abandon requests whose answers still come. The session dials again while its
streams sleep, and every `.await` lets another task replace the connection it was
given. History: pages are cut by the broker, which goes on trading between them.

## 2. Modules

| module | stands for |
|---|---|
| `Cipher` | `SessionCipher`: a key and a position. What was enciphered at one position deciphers only by the same key at the same position, otherwise to `Garbled` |
| `Handshake` | `NativeHandshake`: its phases and what each takes from the broker |
| `Reassembly` | `MessageReassembler::push` |
| `NativeSession` | `Session` over `Connection`, with an external broker |
| `NativeSessionProps` | its properties |
| `MessageChannel` | what the session promises: messages are delivered whole, once and in order while it is up |
| `NativeClient` | `Client` of `mt5-session`: poll, request, trade, subscribe over a session that is ready, with an external broker and explicit time |
| `TradeOutcome` | what `Client::trade` promises, as the doc comment above it says it |
| `WebtermClient` | `Client` of `mt5-webterm` after the login: callers, reader, writer and heartbeat tasks, with an external server |
| `WebtermSession` | `Session` of `mt5-webterm`: callers and tick streams over connections that close, grow old and are dialled again |
| `WebtermReceipts` | `Session::send`: how the receipt of an entry comes by its ticket |
| `WebtermSnapshot` | what `Session::snapshot` reads of the account of `WebtermReceipts`, in two requests |
| `WebtermMarket` | quotes from the broker through the cache of a connection to a stream, over redials |
| `WebtermSpecs` | `Session::load_specs`, the pairs that convert, and the tick values of a snapshot |
| `WebtermCandles` | `history`, `history_latest` and `deals`: windows on a server with a clock of its own |
| `WebtermReplies` | the decoders of `parse.rs` and the bodies of `protocol.rs` |
| `ServerSearch` | from a server's name to the host that is dialled |
| `WireLayout`, `WireGrammar` | bodies of fixed-width fields, and of lists within lists, with a writer and a reader |
| `SyncStream` | the synchronization stream: every section, read or walked through |
| `NativeRecords` | the pushes, trade requests and results, tagged values, and the records in them |
| `AccountMargin` | the margin an account needs |
| `Calendar` | the dates histories are asked for and their 16-bit tokens |
| `FrameParser` | `FrameParser::feed` over every split of the byte stream |
| `PackedBits` | `BitWriter` and `BitReader`: packed integers, signed magnitudes, boundaries |
| `QuoteRecords` | batches of live ticks, snapshots and market depth, written and read |
| `BarContainers` | the container of one-minute bars, with an external writer |
| `Compression` | the LZO1X body of a payload, with `lzo1x_store` and an external compressor |
| `TickHistory` | `Client::ticks` and the answers it pages through |
| `BarHistory` | `Client::bars` |
| `TradeHistory` | `Client::deals`, `Client::orders` and the buckets they read |
| `ClientBook` | `Client::apply`: the book, the subscriptions and the streams of the native client |
| `EndpointPool` | `EndpointPool`, dialled by a host that reconnects through `Client::connect_with_endpoints` |
| `MCNativeSession`, `MCNativeData`, `MCWebtermClient`, `MCWebtermSession`, `MCWebtermData` | small instances (the configurations of `NativeClient`, in units of 5 s, need no definitions) |
| `NativeSessionProofs`, `NativeSessionChannel`, `NativeClientProofs`, `NativeDataProofs`, `TickHistoryProofs`, `WebtermClientProofs`, `WebtermSessionProofs`, `WebtermDataProofs` | proofs |

`NativeSession` models the session itself, `NativeClient` what is built on it. The
client's module keeps of the session only what the client can see: whether it is
ready, read-only or failed, its sequence counter, and whole messages in order. That
messages come whole and in order, and that a failed session stays failed, is what
the session's own runs and theorems establish.

### The native session

*State.* Fields of `Session`, `State` and `Connection` keep their names. The code
takes the fields of `State` into locals, leaves `State::Failed` behind, and puts the
next state back only on success. In the model the fields stay in their variables
and `state` says `"Failed"` while `op` names the call that is blocked; an error sets
`op` to `"idle"` and leaves `state` alone (`Abort`).

*Actions.* A blocking call is one action for what it does until its first wait
(`Authenticate`, `Synchronize`, `SendRequest`, `SendTrade`, `PollMessage`), one for each
frame it takes afterwards, and the ways out: `ReadSocket` (one read returns any
number of the bytes in flight; a header with a bad length fails the call and drops
the frames parsed before it), `Expire` (the deadline passes), `TimeOut`, `ReadFails`
(the broker closed). `pending` is looked at before the deadline, as `poll_frame`
does. A write may be torn: the call fails and the broker has a part of the frame.

*The broker* is external: it answers the hello and the authentication (honestly or
with any of `AuthReplies`), then streams fragments of messages under any of
`BrokerSequences`, compressed or not, with pings, bad headers and undecodable
payloads, and may close at any time.

*Data.* A payload is a sequence of chunks: an account record (login, read-only), a
piece of anything else, a malformed piece, or `Garbled`. Keys are model values.

### The native client

*State.* `session`, `healthy`, `last_send`, `last_receive` and the session's sequence
counter. Times are kept as time elapsed, `lastSend` and `lastReceive`, and stop at
the constant they are compared with. `call` is the call under way with the locals of
its loop (`sequence` or request ID, `ticket`, the time to its deadline, whether it is
inside a poll); `told` is what the caller of each trade was told.

*Actions.* `Poll` is `poll` and `poll_inner` up to the wait in `poll_message`, with the
health check and the keepalive. The ways out of the wait are `PollFails` (session
failed or closed), `Silent` (nothing came: the rule for silence) and the messages:
`TakeInPoll`, `TakeInRequest` and `TakeInTrade` are the same `poll` ending on behalf of
the application, of `request` and of `trade`, each followed by what that loop does with
the message; `TakeFails` is an error in `apply`. `Again` and `Expire` go round the loop or
end it. `Applied` is `apply`: of its arms it keeps what can fail, send (a position in a
symbol not yet subscribed) or restrict the account; the book it maintains is in `ClientBook`.
`StartTrade` keeps the difference between a write that fails, after which the broker
may have the frame, and a missing signing key, after which it has not; the caller is
told "uncertain" of both.

*Time* passes (`Tick`) only while the thread waits in a poll or the application leaves
the client alone, for at most `Gap`.

*The broker* is external. It answers what is in `Answered` within `Latency`, other
requests late or never. About a trade it reports any number of results, one or two to
a message; a result names the trade by its request ID, or by its order's ticket alone
after the trade is known to it. That a ticket belongs to one trade is an assumption on
the broker (trade `k` has ticket `k`). After "timeout" (10012) it may still finish the
trade. The connection may close, or fall silent without closing.

### The endpoint pool

*State.* `routes` and `last_peer`; where the host is (`host`), the socket addresses still
to be dialled (`targets`) and how many silent peers the 15 s of a dial still allow
(`left`, 3 s each). *Actions.* `Connect` is `EndpointPool::connect`: it resolves the routes, puts the last
peer first, drops repetitions and learned private addresses, and rotates. `Accepted`,
`NextTarget` and `DialFails` are the loop of `Connection::connect`; `Login` learns what was
advertised and notes the peer, in that order. Names resolve differently at every
attempt, and every peer that is not reliable accepts, refuses, stays silent or rejects
the login as it likes.

### The web-terminal client

*State.* `pending` (the map from command to the waiting request), `subscriptions`,
`closed` and the outbound channel are the fields shared by all; each call of `request`
has a place (`pc`) and the oneshot channel it waits on (`slot`); each call of
`subscribe` has the symbols it asks for and the list it will send; the three tasks have
a place each. `held` says that a handle of the client is left.

*Actions.* One for what a task does between two points where another may run: a lock
is taken and released, or a future is awaited. `Check`, `Register`, `Send`,
`SendFails`, `Resolve`, `TimeOut` are `request`; `StartSubscribe`, `Extend`, `SendList`
are `subscribe`; `Read`, `ReaderEnds`, `Clear` the reader; `Write`, `HangUp` the
writer; `Wake`, `Beat` the heartbeat with its weak sender; `Drop` the last handle going
away.

*The server* reads in order and answers in order or not at all. `of` in a frame is a
ghost: the protocol has no request number, which is what the properties are about.

### The web-terminal session

*State.* `client`, `generation` and `subscribed` are `Live`, `lock` its mutex; `failures` and
`wait` are `Backoff`; `interest` is the set of that name. A connection is the number of the
dial that made it; of the client behind it the module keeps the symbols it lists (`listed`; none, if
the request for the list failed), its subscriptions, whether it has closed (`state`), what the server
streams (`streams`) and its age. A task has a place (`at`), the call it makes (`what`), the symbols it
asks for (`names`), the connection its handle is of (`on`), the names still to be subscribed (`fresh`), the
list it is about to send for them (`list`) and, if it is a stream, the generation it last followed (`noted`).

*Actions.* `Reuse`, `Unavailable`, `Dial`, `Connected`, `DialFails` are `client`; `Judge` and `Reset` the age
test of `snapshot` and its `reconnect`; `ReadBook`, `ReadFails` its reading of the account;
`Ensure` and `NoteEnsured` are the look and the note of `ensure_subscribed`, and between them lies
`Client::subscribe`: `ExtendFresh` joins the names the client lists to its subscriptions and copies the list,
`Subscribe` sends the copy, which may be shorter than one sent meanwhile. `SkipFresh` is its early return: of
names that are not listed nothing is sent, all is well, and the session notes them. `SubscribeFails` is a closed client.
`send` subscribes as well, and notes nothing. `StartStream`, `Look`, `Follow`, `ExtendMissing`, `SkipMissing`, `Resubscribe`,
`ResubscribeFails`, `Rejoin` are `ticks` and the loop of its stream. The lock is held across a dial,
as in the code, and by nobody else across a wait. `Close` and `Tick` are the network and time.

*What a note is worth.* A noted symbol is never asked for again, so the properties say what it stands for.
`NoteIsTrue`, `StreamsHear` and `StreamsFollow` are about the symbols the connection lists, while it is open (`Undisturbed`), no redial came
between a subscription and its note (`crossed`) and no list was sent after a longer one (`overtaken`, until the whole list is sent again).
Both ghosts are there because the code does these things.

*Receipts.* `WebtermReceipts` is `send` seen from the account: `ReadOrders` and `ReadPositions`
are the two requests of `live_tickets`, before the trade and up to three times after it; each
may fail and then counts as empty. Orders appear late, turn into positions and go between any
two of them, and other terminals (`Outside`) make entries too. `known`, `partial`, `missed`
and `steady` are ghosts that remember what the account showed and which lists were not read.

### Data: frames, records, histories and the book

Each of these modules has the component and its counterpart. The parser: a byte is its
place in a frame, reads split anywhere. `PackedBits` and `QuoteRecords` write and read, bit by bit; masks are cut to four
bits, widths to eight. In `BarContainers` the packed integers are integers and the columns, anchors and runs are kept.
`Compression` is the decompressor instruction by instruction; `Again` repeats a byte at a time as the format defines it.

`TickHistory`: a tick is a time and a price. The broker keeps a container per date, answers
in any order and number of pages, files ticks between them, and sends the rest as trailing hours.
`TicksAnswered` is a turn of the page loop with its guards in the code's order: row limits,
`more` without progress, page limit, the day's rows sorted, materialized and filtered, the next day.
`BarHistory` pages backwards (`BarsAnswered`), with bars that form meanwhile. `TradeHistory`
folds buckets that take records back. `ClientBook` reads the pushes of an account that changes:
`ApplyQuote`, `ApplyDepth`, `ApplySymbol`, `ApplyOrder`, `ApplyPositions`, `ApplyAccount` are the
arms of `apply`; `Subscribed` is the list `subscribe` sends, with the paths that convert a symbol's currencies.

`Calendar` goes through every day of 1969 to 2098 beside `date` and `date_token`. Days are counted instead of
seconds, which are divided by 86 400 before anything else.

### Data: synchronization, records and margin

In `WireLayout` a body is a length and what is written at which offset; what a reader takes from any
other place is `Junk`, what it wants past the end is `Short`. `WireGrammar` writes a body by a grammar (bytes, arrays, lists
of groups, groups behind a status, sizes) and follows one: the broker does the first, the
code the second. `SyncStream` has the grammar of each section as the writer knows it and
`Section` steps as the reader takes them, and compares what both say: for every order
of up to three sections, for lists that repeat, and for every place where the stream may be cut.
`NativeRecords` has the records of `mt5-native/tests/fixtures/records.json` beside the offsets of the code. Some names differ:
the fixture's `requested_volume_units` of an order (252) is the code's `volume_initial`, its `volume_units` (260) the code's `volume`, and its `position_id` of a
trade result (4) the code's `deal`. `RecordsSurvive` says what each message tells the client: complete ones what was meant, cut or
inconsistent ones an error. The other way, `utf16_field` cuts a symbol or comment that is longer than its field, and the request is signed as it is.

`AccountMargin` has the formulas of `margin.rs` and the sum of `client/margin.rs`, in whole
parts of the currency. What it is compared with is not a second formula but what must be so of
any: positions that differ only in how they were split or ordered need the same, a hedge
takes no more than its positions would alone, and an instrument that needs margin adds to the sum or
ends it in an error, as one by index without a tick size does.

### Data: the web terminal

`WebtermMarket` follows prices, each a number that grows with every move, from the broker
over two kinds of frames and the cache (`Merged`, with a side that did not move kept) to what a
stream has given, over sockets that close and are dialled again. Times are of two clocks that run each at its own pace: quotes get the
host's on arrival (`moment`), statistics tell the server's (`clock`, in UTC), shifted by the zone. `WebtermSpecs` builds a tick value as a fraction from the specification that is there and the quote of a
pair found by name. `WebtermSnapshot` extends `WebtermReceipts` with the two requests of a snapshot.
`WebtermReplies` has for each kind of reply what the server writes and the offsets and strides the code reads; of a text of the account that is cut, what is left of it is decoded. `WebtermCandles`
asks for windows in UTC of a server ahead of or behind it; it holds an item for each unit of
time in which the market traded. `ServerSearch` takes the list of companies as any sequence of names and access texts.

## 3. Runs

| run | asks | distinct states |
|---|---|---|
| `native_session` | ciphers in step, torn writes, request numbers, account and read-only, on every way of being accepted, refused or failing; every blocking call returns, also when the broker only sends pings or nothing | 51 thousand |
| `native_messages` | complete messages come out whole, once and in order: `ChannelRefined` is `MessageChannel!Spec` under a refinement mapping | 2.4 million |
| `native_trades` | what callers are told of two trades implements `TradeOutcome`; every call returns; a peer that vanished is noticed | 0.4 million |
| `native_requests` | an answer is taken by the request it answers; a live connection is not presumed dead | 2.3 million |
| `webterm_safety` | nobody waits unregistered, answers are their own, subscriptions made in turn are streamed | 3.5 million |
| `webterm_liveness` | every request returns; an abandoned client ends its tasks | 25 thousand |
| `webterm_session` | the note of subscriptions, what streams hear and follow, with symbols that are not listed and lists sent out of order; the age of snapshots, the pause after refused logins | 0.35 million |
| `webterm_data` | no receipt names an entry that was there before, an entry that stays visible is found; a snapshot shows no ticket twice; a stream gives current quotes, each move at most once; a tick value is right or absent; replies, windows and hosts are what was asked for. One component at a time | 1.5 million |
| `native_data` | what was encoded is decoded, in every packing, a stream of frames however it is split, and a date from its token; synchronization and pushes arrive as meant or not at all, requests as meant but for texts cut to their field; margin; ticks, bars and trades are complete although the broker's data change between pages; the book and the streams follow the account; a reconnecting host and a tick call come to an end, and advertisements never lead to private peers. One component at a time | 0.3 million |
| `webterm_late_answer`, `webterm_deaf_streams`, `webterm_snapshot` | violated: see findings | |

*Bounds, session.* `SequenceMod = 4` stands for 2^16: the counter wraps within the
requests a run makes. `MaxMessage = 2` and `MaxPending` 1 or 2 stand for 64 MiB and 256
messages: both limits are met and exceeded. `MaxPushes` and `MaxRequests` limit what
the broker and the application send after the handshake; three or four frames are
enough for two messages interleaved and one behind them. `MaxInFlight` limits only
the pings. Deadlock is not checked there: a failed session stops, by design.

*Bounds, native client.* A unit of time is 5 s, the polls of the application take one
unit and those of a loop, 1 s in the code, are rounded up to it. `native_requests` has the
real keepalive (2 units) and silence limit (9), calls of 20 s instead of 30, and a broker
that answers keepalives and subscriptions within 15 s: the source says that answers
were at most 20 s apart, with keepalives 10 s apart. Requests are answered at any time
or never, so that answers outlive their calls. In the other runs the clocks are as small as
the order of their expiry allows. `MaxWire` bounds what is due or under way;
`SequenceMod` wraps. In `Request` the guard on `Numbers` keeps a number from being used
again while its answer is under way, which takes 2^16 requests in the code. Deadlock is
checked.

*Bounds, endpoints* (a part of `native_data`)*.* Three seeds at most, four routes for 64, four targets for 64, two silent
peers to a dial for five: with fewer silent peers allowed, the order matters more.

*Bounds, web terminal.* A channel of one message stands for 32 (full and empty are what
matters), as does one message in flight in each direction. Two requests over two
commands and two subscriptions over two symbols are enough for a call to replace,
outlive or overtake another. Calls, commands and symbols are symmetric; the liveness run uses no
symmetry. Deadlock is not checked: when every call has returned and the client is
dropped, nothing is left to do.

*Bounds, web-terminal session.* One caller with every kind of call, one stream of another symbol, and a symbol list that
has both or none: enough for a task to be overtaken by a dial, or by a longer list, at each of its waits. In
`webterm_deaf_streams` two callers take snapshots. `MaxDials = 2` allows one
replacement, `MaxAge = 1` makes the second unit of time too old, and pauses of 1 and 2 units
stand for the six entries of `RECONNECT_BACKOFF`: a first and a last. Receipts: one call of `send`; all
others that change the account, through this library or not, are `Outside`. `Looks` is the code's three,
`MaxTickets = 3` is the call's own and two of others, before it or meanwhile.

*Bounds, data.* Records of two values in every packing, positive and negative, two to a
batch, so that the second begins anywhere in a byte; up to three container instructions; streams of LZO
instructions up to eight bytes and a last one, at the lengths where another byte is needed (238, 273, 288, 528), and behind 33 000 literals
the nearest and farthest distances of a short match after a run (2049, 3072) and of a far one (16 385, 32 767, 32 768, 32 800).
Symbols and comments of requests of 5, 32 and 33 units, where 32 fill the field.
Three frames of up to two bytes and headers of two. Days of two hours of one unit, three ticks, two pages for 64: every limit
of the pager is met and exceeded by the broker. Bars of five minutes in days of two over every set of
minutes; two buckets over two tickets; three pushes, one under way, over three symbols of which two are known at the login,
where the account has at most one position.
Streams of up to three sections whose lists have no entry or three, and of each kind where it can be in front of another; messages of
up to three records with the tails and the missing bytes where a length could mean something else. Symbols of each way to calculate a margin,
up to three exposures of up to three units. Every day of the years a token can hold. Of the web terminal: one symbol with three moves, two sockets and two clocks of three
moments each; five instruments whose names convert, mislead, carry a suffix or are the other way round; replies of up to three records with bytes appended or
lost at every field; seven units of time on clocks behind, with and ahead of UTC; three access texts on two servers.
The parts are independent, and a variable `part` chooses one, so the states add up. Deadlock is not checked: broker and client stop when their bounds are used up.

*Fairness, session.* `FairSpec` assumes that a thread that can go on does (`WF` of
`Progress`: taking a frame, reading the socket, giving up) and that the clock
reaches a deadline (`WF` of `Expire`). Nothing is assumed of the broker or the
application. The deadline is what makes the calls return: a broker that sends
pings for ever is one of the behaviours.

*Fairness, native client.* Time passes (`SF` of `Tick`: messages may wake the thread
again and again, but not for ever without time passing), a thread that can go on does
(`WF` of `Progress`), the broker pays what is due (`WF` of `Answer`), and the application
keeps polling (`WF` of `StartPoll`), without which nobody could notice anything.

*Fairness, endpoints.* The host tries again as long as it has no connection. One seed resolves
first to a peer that always accepts and logs in; nothing is assumed of the others.

*Fairness, web terminal.* Every task that can run does and timers fire. Room in the
channel is granted in the order it was asked for (tokio's semaphore is fair), hence `SF`
for the senders. Of the network: the far end takes what is written, or the connection
closes. Nothing says that the server answers.

*Fairness, web-terminal session.* A task that can go on does, also when others take the lock
again and again (`SF` of `Work` and `StreamStep`): tokio's mutex hands itself on in the order it was
asked for, and every dial ends. Nothing is assumed of callers, of the network or of the broker.

*Fairness, data.* `request` ends with an answer or at its 30 s (`WF` of `AnswerTicks \/ TicksFailed`).
The fairness of the endpoints is in the same specification.

Type invariants that are proved (`TypeOK` of the native session, of the native client, of the web-terminal client, of its
session and of its receipts) are not among the runs' properties. Those of the endpoint pool, the bars, the book, the trades, the quotes and
the specifications are parts of the inductive invariants of their proofs.

Some properties say one thing of several parts: `CiphersInStep` of both directions, `CodecsSurvive` of the codecs, the
frames and the dates, and of `SyncSurvives` and `RecordsSurvive`, `AnswersSurvive` of `RepliesSurvive` and `HostsAreTrue`, `NothingStaysOpen` of `TicksEnd` and `Reconnects`.

Every property of a passing run has a mutant in `PROJECT.json`: a plausible fault in
one definition under which the same run reports that property violated.

### Findings

| run | what the code says | what it does |
|---|---|---|
| `webterm_late_answer` | a receipt's ticket is "The order or position created or acted on" (`mt5-webterm/src/session.rs:158`) | the answer to a trade that timed out answers the next trade, also where no call takes another's place in the map of waiting requests (which the property rules out) |
| `webterm_deaf_streams` | "Symbols subscribed on the current client." (`mt5-webterm/src/session.rs:163`), "tick streams follow the new connection" (`:16`) | a subscription is made on the handle a task was given and noted on the session's connection, which another task may have replaced meanwhile: the symbol counts as subscribed and is never asked for again |
| `webterm_snapshot` | "What the account holds right now." (`mt5-webterm/src/session.rs:118`) | positions are asked for before orders: an order that fills between the two answers is in neither list |

### Known limits

What the properties leave open on purpose, because the code does:

* *Silence.* A keepalive is sent only when a poll begins and silence is judged when it ends
  (`mt5-session/src/client.rs:232`, `:242`): one poll of 45 s hears nothing and declares a live connection dead.
  `LiveNotPresumedDead` holds for polls of 5 s and a broker that answers within 15 s. A
  request the broker does not answer postpones the keepalive, since every send refreshes `last_send`.
* *Registering late.* A web-terminal request that looked at the flag before the reader set it
  registers after the map was cleared, and waits for its timeout (`mt5-webterm/src/client.rs:228`).
* *Overlapping subscriptions.* Of two overlapping calls of `subscribe` the one with the shorter list may
  send last (`client.rs:309`); `SubscribedInTurn` is about calls that do not overlap. `WebtermSession` lets them overlap: the
  session notes the symbols the shorter list left out all the same, and nobody asks for them again. `NoteIsTrue`, `StreamsHear` and `StreamsFollow`
  hold until a list was overtaken on the connection, and again once the whole list was sent.
* *Symbols that are not listed.* `subscribe` is done without sending anything if the client lists none of the names
  (`mt5-webterm/src/client.rs:300`), and the session notes them (`session.rs:265`, `:469`). So it is with every symbol after a redial whose request
  for the symbol list failed (`client.rs:211`, `:216`): its streams follow it and stay deaf until the next one. The same properties are about listed symbols only.
* *Snapshots.* With two tasks that take snapshots, one may judge the age of a connection the other has just
  dialled while it holds an old handle; `SnapshotTrusted` is checked and proved for one.
* *Receipts.* If a list could not be read before the trade, an old ticket may be reported as new, and
  of several new tickets the largest is taken. `ReceiptIsNew` and `EntryIsFound` say under which condition they hold.
* *Bars.* `bars` ends at an answer without bars, and gives up ("no progress") at one that does not reach back
  past the minute asked for. `BarsComplete` holds for a broker that sends whole days and goes back
  as long as there is something older.
* *Money of a snapshot.* The balance is that of the first answer and the profits those of the second
  (`mt5-webterm/src/session.rs:289`): what closes between them is in neither, until the next snapshot.
* *Ticks.* A move within the millisecond of the last one given is withheld until the next one. The times a stream compares
  (`mt5-webterm/src/session.rs:479`) are the host's for quotes and the server's for statistics. If the server's clock was ahead when a
  price moved, or the request for the account failed and the zone is unknown, the statistics after a redial repeat a price that was given, and moves
  are withheld until the host's clock is past that time; if it was behind, they tell of a move as older than it is, and it is withheld.
  `GivenOnce` says when a price may come twice, and leaves what is withheld open.
* *Windows.* The same failed request leaves the shift at zero, and times are the server's then. `history_latest` without
  `before` looks back ten candles more than asked for, so after a closed market it returns fewer;
  `LatestAreLast` says when.
* *Texts.* A symbol or comment of more than 32 UTF-16 units is cut to its field without an error and signed
  (`mt5-native/src/trade.rs:192`); `CodecsSurvive` says that its beginning arrives.
* *Replies.* A reply about the account that is cut is decoded as far as it goes: a text is what is left of it, a number zero, the equity the
  balance, the server the one asked for (`mt5-webterm/src/parse.rs:150`). Nothing tells the host that it was cut. That the stride of specifications is told by the length is right only for a reply that is whole;
  the property leaves cut ones out.
* *Hosts.* "`find_web_terminal` commits to the first one" (`mt5-webterm/src/search.rs:144`): it takes the first with port 443 if
  there is one. An access text with a bad port is skipped there, and offered by `access_points` with the port left in.
* *Synchronization.* A stream that ends exactly behind a section, after the account, passes for a whole one: nothing in
  it says how many sections there should be.
* *Margin.* What is wholly covered at a hedged margin of zero needs none, also in modes that are refused
  otherwise (`mt5-session/src/client/margin.rs:10` says that what is unsupported is an error).
* *Streams of positions.* Positions of the login, and those whose symbol is unknown when they are pushed, are
  streamed from the next change of positions on; `PositionsStreamed` is about the others. A position on a symbol that is
  streamed already, as a conversion of another or because it was subscribed when no path was known, brings no conversions
  (`mt5-session/src/client.rs:370` passes over such symbols), so its profit may stay without a rate although one could be had.

## 4. Proofs

The theorems hold for all values of the constants that meet the named assumptions of
the modules (`CipherAssumption`, `ReassemblyAssumption`, `SessionAssumption`,
`ContentAssumption`, `CommandAssumption`, `ClientAssumption`, `WebtermAssumption`, `WebtermSessionAssumption`, `ReceiptsAssumption`,
`PoolAssumption`, `TickAssumption`, `BarAssumption`, `BookAssumption`, `TradeHistoryAssumption`, `FrameAssumption`, `MarketAssumption`, `SpecsAssumption`): sets of
the right kind, limits above zero, a counter of width above 1. A theorem that needs more says so in its statement.

*Native session*

* `TypeCorrect` (`Spec => []TypeOK`). `TypeOK` is not inductive: what
  `authentication_complete` reads from a reply is well typed only if the reply that
  is under way while a call waits is of the kind the call expects, and a payload is
  a box only if the exchange is past the handshake. `Exchange` states that relation
  between `op`, the broker's phase and the frames in flight; `IInv` is both.
* `SpentForGood` (`ConsumedForGood`): by cases on the actions, every one that
  touches the session is guarded by a live `state` or a blocked `op`.
* `NothingFollowsATornWrite`: a torn frame leaves the session consumed, and it is
  the last of the frames sent (`TornIsLast`); the broker only removes from the front.
* `OnlyItsOwnAccount`, `ReadOnlyIsForGood`: `AccountInv` relates the account and the
  switch held now to all records accepted so far, also across a blocked poll.
* `RequestsAreDistinct` (`RequestsDistinct`): `Numbered` says that the requests in flight carry numbers
  without a gap, up to the next one to use; two of them less than a round of the counter apart differ.
* `CiphersNeverDrift` (`CiphersInStep`), in `NativeSessionChannel`: `CipherInv` adds `Agreed` to the
  property: the broker has keyed both its ciphers from the authentication result on its way, and once the
  client has read it, its own and the broker's are at the start of one key.
  The lemmas on chains say that a
  payload sealed where a chain ends extends it and that opening its first one moves its start;
  `EmitInbound`, `TakeInbound`, `SentOutbound` and `ReceivedOutbound` carry them to the frames in flight.
* `MessagesArriveWhole` (`Spec => ChannelRefined`), in the same module: every step is a step of `MessageChannel` or a
  stutter. `ChannelInv` says that the frames in flight, taken one after another, lead from the fragments the session
  holds and the messages it has delivered to the fragments the broker has sent and the messages it has completed
  (`Arriving`; `Path` is the witness for what lies between). A frame outside a message leaves both alone, or ends the
  session: `Staged` (frames of the synchronization come before those of messages), `Known` (a garbled frame's command
  is no message's) and `Parsed`. It rests on `CipherInv`, without which a payload would not be the one that was sent.

*Native client*

* `ClientTypes` (`Spec => []TypeOK`), by cases on the actions.
* `TradesKeepTheirWord` (`Spec => OutcomeRefined`): every step of the client is a step of
  `TradeOutcome` or leaves it alone, with `submitted` and `finished` read off the broker's
  state. The invariant `TInv` adds to the types `Fates` (a trade nobody called is unsent, the
  trade of the call under way has not been reported, and the local `ticket` is its own) and
  `Reports` (every result under way is honest: a final result belongs to a finished trade,
  and a ticket to the trade it names). The step that matters is `TradeStep`: a record that
  decides is the trade's own whichever way it was matched, for which `TicketOwn` follows
  `ticket` through the records of a message and of earlier messages.
* `RequestsGetTheirAnswers` (`AnswersOwn`): `Owned` says that while a request waits, everything owed or in the
  inbox that would go for its answer is its own: a request begins only with a number nothing under way has.
* `LiveIsNotPresumedDead` (`LiveNotPresumedDead`), under two hypotheses. `InGoodTime(longest)`: no poll is longer than `longest`,
  the broker answers keepalives and subscriptions, and two keepalives, the longest poll, the pause between polls and the
  latency fit into the limit for silence. `PollsBetweenTrades`: an application that trades does not pause between its polls, since a
  trade that is refused would let it pause again without having polled. `native_requests` meets both with `longest = 1`, as do the source's
  10 s, 45 s and answers within 15 s. The invariant `LInv`: when the client listens,
  either an answer is due that comes in time (`Expected`), or so little time has passed that a keepalive goes out before
  it is too late (`Rested`). Polls of 45 s, see *Silence* above, do not meet the hypothesis.

*Web-terminal client*

* `WebtermTypes` (`TypeOK`).
* `NobodyWaitsUnregistered` (`WaiterRegistered`): with `Entries` (what is in the map is registered
  for its own command and has no answer yet) it is inductive.
* `AnswersGoHome` (`AnswersAreOwn`): `Flight` says that every request is under way in one
  place at most (the channel, or the wire in either direction), and that one that is still
  under way waits, unless its command was disturbed by a timeout or a replacement. An
  answer then finds its own request in the map.
* `SubscriptionsArrive` (`SubscribedInTurn`): `Turns` says that at most one task is subscribing, that it holds the
  list it extended, and that the last list on its way, or what is streamed if
  none is, is the client's (`Arriving`).

*Web-terminal session*

* `SessionTypes` (`TypeOK`), one lemma for each group of variables.
* `WhatIsNotedIsStreamed`, `StreamsHearTheirSymbols`, `BrokerIsLeftAlone` (`NoteIsTrue`, `StreamsHear`,
  `BackoffKept`) and, if only one task takes snapshots (`OneTakesSnapshots`), `SnapshotsAreYoung`
  (`SnapshotTrusted`). `SessionStep` and `NetStep` say once what any step can do to the session and to the
  connections; the rest of the proof uses these and not the actions. The invariant: a task past
  `client` has a connection (`Held`); a list on its way to the server has the symbols it is sent for and is a part of the
  client's subscriptions (`Copied`); what a task is about to note was subscribed on its handle, as far as that lists it, and is
  streamed there unless a list was overtaken (`Asked`); what is noted is subscribed (`Known`), and without a connection nothing is noted (`Clean`);
  a stream has the generation it noted and what it waits for (`StreamCalls`, `Behind`, `Awaiting`), and what it wants is noted
  (`Noted`), so that it hears what the note stands for. The last of two lists wins on the server; `PutGrows` says that sending one either keeps all that was streamed,
  or sends the whole list, or counts as overtaking; the time since a refused login and the time still to wait make up the
  pause (`Spaced`).

*Receipts*, in `WebtermDataProofs`

* `ReceiptTypes` (`TypeOK`).
* `ReceiptsNameNewTickets`, `EntriesAreFound` (`ReceiptIsNew`, `EntryIsFound`): `Unseen` (while a call reads before the
  trade, what it will not see is still an order or was read), `Old` (what was listed when it began is in
  `before`, if both lists were read) and `Complete` (what has stayed in the account since a look began is
  seen or still to be read, as orders come first). That a set of tickets has a largest one is
  `MaxTicket`, from the well-foundedness of `<`.
* `TicketsShownOnce` (`ShownOnce`): while a snapshot is between its two requests no ticket shown as a
  position is an order or will be one again (`SnapshotInv`, `NoOrderAgain`). It holds
  because positions are read first.

*Data of the native client*, in `NativeDataProofs`. None of these invariants is inductive by itself, and the
code computes much of its state by loops, which the models write as folds. A fold is the value of a function over sets of positions
that is chosen to satisfy its recursion; a lemma for each kind (`FoldThere`, `FoldSteps`) shows that such a function exists and what
it has after each position, so that what a loop keeps true is proved by induction over positions.

* `TokenTellsDate`, `TokensOrderDates`: the fields of a token do not overlap, for every date it can hold, so that equal tokens are
  one day and greater ones later days. `TickHistory` rests on this where it uses days for tokens.
* `OnlySeedsLeadToPrivatePeers` (`PrivateBySeedOnly`): `PoolInv` says that routes are as many as are allowed and that the targets, the last
  peer and the one being dialled are among those the configured seeds lead to or are public (`Permitted`). Routes begin with the seeds
  (`PrefixKeepsSeeds`), however much is learned and cut off behind them.
* `BarsReturnTheRange` (`BarsComplete`): while a call goes back page by page, the minutes it has taken are minutes the market traded
  (`TakenTrue`), what it knew when it began is still there (`KnownStill`), and nothing of the range from the next page on is missing
  (`PastTaken`). The broker may form bars all the time.
* `BookFollowsTheBroker` (`ClientIsTrue`): the client lags behind the broker by the pushes on their way, so its book is compared with a
  history `h` of the broker's state, one entry for each of those pushes (`Past`). It begins with what the client has and ends
  with what is now; each push tells the difference between two entries. Applying a push takes the first entry away. What the
  application took of quotes and depth, with what waits for it, is a beginning of what was told (`Begins`).
* `PathsAreFound`, `PositionsAreStreamed` (`PositionsStreamed`): the search for conversions goes breadth first through currencies, and the
  invariant of its rounds (`SearchInv`) is that of such a search. Each currency that was visited has a depth `d`; the queue is in the order of depths,
  and no depth is more than one above that of its head (`Depths`). What is queued was reached by its path and what is not queued any more has
  been followed to all it leads to, one deeper at most (`Expanded`), unless it was as deep as a path may be. Each round takes one entry
  and no currency is queued twice, so the queue is empty after `Rounds`. Then, along any way of at most `MaxHops` symbols, each currency
  was visited at its place on the way or before, and the account's would have ended the search. So a path is found if and only if there is such a way
  (`Reaches`), in whatever order the symbols are listed, and the symbols of a path that are streamed with others find one too. The theorem needs
  `BookAssumption`'s finite listing.
* `HistoryIsAsCorrected` (`TradesComplete`): what the broker keeps is the last of a chain of corrections, one for each bucket (`Corrects`); the fold
  of the client goes along the same chain. The order is by time and ticket, which is total because no ticket is kept twice, and
  a record's place is the number of those before it: `Sorted` is stated so, and `SortedIsInOrder` shows that every place is taken once.
* `ReadsMayCutAnywhere` (`SplitsDoNotMatter`, a part of `CodecsSurvive`): what is buffered and unread is the frames from the next one on, one behind
  another (`ToRead`), and the buffer holds less than the next one. The loop of `feed` is followed turn by turn (`Taken`): each takes a frame off the head or
  is stuck, and a read of n bytes is stuck after n turns at most. `FlattenSeq` is a fold, so that what it is of a sequence with one more in front
  or at the end is proved from its partial sums (`FlatFront`, `FlatAppend`).
* `DatesAreTheDays` (`DatesSurvive`, a part of `CodecsSurvive`): the code works out a date by divisions that begin the year in March, the
  model's calendar goes on from yesterday. `CalendarInv`: the number of the day is that of the days of the years before it, of the
  months before it and of the month (`DayOf`). Of such a number, `YearOfEra` shows that the division of the days of an era of 400
  years gives the year, `DayOfMarchYear` that the day of a year that begins in March gives month and day, and so `date` finds it
  (`DateIs`) for each day that a token can hold. The years the model follows may be any integers (`CalendarAssumption`).

*Ticks*, in `TickHistoryProofs`

* `TicksAreWhole` (`TicksComplete`). What a list of groups of columns says is told by `Tells`: unpacked, sorted and given prices it is
  a given list of ticks, and is in order of time already. A group that packs a run of ticks tells that run (`ColumnsTell`: the first row of
  a group carries its price, so no price has to come from the group before), and two lists one behind the other tell both (`TellsMore`).
  The trailing hours of a date cut its unfiled ticks without a gap (`Cut`), because ticks come in order of time; the container of a
  date tells those that were filed. Filters (`Those`) are followed element by element. The invariant `TicksInv`: the cache has at most one
  container for each date the broker answers for, and only for dates of which something is filed (`Caches`), and
  of the days before the one asked for, the output is a beginning of the broker's ticks that has all that were there when
  the call began (`Collected`). The answer without `more` brings every container that is new or has grown, so what is cached then, with
  what is trailing, is the whole day (`DayIsWhole`, `WholeCache`), and the next day can begin.
  It holds for any lengths of hours and days, any limits and any number of ticks; the pages may come in any order.

*Data of the web terminal*, in `WebtermDataProofs`

* `QuotesFollowTheMarket`, `StreamsGiveOnce` (`QuotesAreCurrent`, `GivenOnce`): for each symbol, and each frame on its way in the order it was
  sent, the prices are a history that leads from what the cache has to what the broker has (`Followed`); frames may tell
  of the same price twice, but never of an earlier one after a later one. What was polled last for a symbol, be it queued or given, is not newer
  than the cache (`GivenBefore`), and each symbol waits in the queue once, with a price not given before (`QueuedOnce`).
  Times are of two clocks: what statistics say of the server's is compared with the host's only where it was not ahead when
  the price moved (`InTime`), which is the condition of the property.
* `TickValuesAreTrue` (`TickValuesTrue`): the pair chosen for a currency fits it (`ChosenFits`), whichever names the broker uses, and every value
  worked out is the true one or absent (`Worked`).
* `WindowsAreInUTC` (`WindowsAreTrue`): a call is one step, so the invariant adds only types and that no candle is later than the server's clock
  (`CandlesTyped`). `OldestFirst` lists a finite set by the number of those before each (`OldestComeFirst`), and of such a list
  the end is what is cut off for the latest (`LastRows`). What is outside of the window that `rates_window` asks for is older than all in it, whichever way
  the clock is shifted. The assumption `CandlesAssumption` says that no candle is from before 1970 on the server's clock.
* `HostsArePublished` (`HostsAreTrue`, a part of `AnswersSurvive`): a list is told by its places, the first of some by the least
  (`LeastPlace`). A name that is offered is at the first place it would be offered from (`OfferedOnce`), and `InOrder` has each such place once. Nothing is assumed of
  the lists, but that a text is a host and a port (`SearchAssumption`).

Model-checked only:

* The rest of `CodecsSurvive` (of the frames: that only a bad length breaks the stream, `RefusedForItsHeader`) and of `AnswersSurvive`: what a writer and a reader that recurse over the same data do with it. That is
  induction over data, or a finite table that is evaluated.
* `MarginIsTrue`: amounts are whole numbers of parts only within the bounds of the run, as quotients; for other constants the
  model would round, which the code does not.
* `CallsReturn`, `SilenceDetected`, `CallsEnd`, `Reconnects`, `RequestsReturn`, `AbandonedEnds`, `StreamsFollow`, `TicksEnd`, which are
  liveness properties and out of the prover's reach.

## 5. Not modelled

* The bytes of the cipher, of hashes and keys; inflation, which is a library's.
* Floating point: sums and prices are integers or fractions in the models, so rounding and numbers that are not finite are left out.
* The column selectors and descriptors of tick groups, and the packed ticks in them.
* The answers to the login challenge (`challenge.rs`, `login.rs`), which are arithmetic on one input; the layouts of the
  login messages (`auth.rs`); the certificate path beyond `CertificateContinuation`, which the session refuses.
* The bytes of requests for history and subscriptions: each is written once and read only by the broker.
* Threads sharing one native session: the type is not shared in the code.
* Of the native client: the list of depth subscriptions, and conversion rates as such.
* Of the web terminal: the login of `dial`, frames and their cipher, the broadcast to raw listeners; the signed HTTP request of the search.
* Formatting, logging, diagnostics (`*_probe`, `login-matrix.py`).

`PROJECT.json` lists for each component what is left out.

## 6. Plan

1. `AccountMargin` over fractions, so that what it says of orders and splittings can be stated for every value.
2. The login of the web terminal's `dial`; depth subscriptions of the native client.
