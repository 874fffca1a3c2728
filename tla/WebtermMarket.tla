---------------------------- MODULE WebtermMarket ----------------------------
(***************************************************************************)
(* Quotes of the web terminal, from the broker to a stream:  the reader of *)
(* mt5-webterm/src/client.rs fills a cache per connection, and a stream of *)
(* mt5-webterm/src/session.rs `ticks` polls the cache of whatever          *)
(* connection the session has.                                             *)
(*                                                                         *)
(* Two kinds of frames bring quotes.  CMD_QUOTES tells the sides that      *)
(* moved, the others as 0, and gets the host's time on arrival;            *)
(* CMD_TICK_STATS tells both sides with the time of the last move on the   *)
(* server's clock.  The two clocks run each at a pace of its own, either   *)
(* ahead of the other; neither is ever set back.  Every move of a side     *)
(* raises it by one.                                                       *)
(***************************************************************************)
EXTENDS Integers, Sequences, FiniteSets

CONSTANTS Quoted,       \* the symbols of the stream
          Zone,         \* how far the server's time is ahead of UTC
          MaxQuotes, MaxMoments, MaxSockets, QuoteWire  \* bounds

ASSUME MarketAssumption ==
    /\ IsFiniteSet(Quoted) /\ Zone \in Int
    /\ MaxQuotes \in Nat /\ MaxMoments \in Nat /\ MaxSockets \in Nat /\ QuoteWire \in Nat

VARIABLES
    \* the broker, external: both sides, when they moved last by its clock, and (ghost)
    \* what the host's clock showed then; its clock in UTC, the host's clock
    price, clock, moment,
    \* the connection: whether it is open, how many there were, the frames on
    \* their way, whether it has the list of symbols, what it subscribed, the
    \* symbols whose statistics are due
    up, sockets, inbound, listing, asked, due,
    zone,           \* Client::tz_shift
    quotes,         \* Client::quotes
    seenAt, queue,    \* a stream: the time of its last quote, what is queued
    emitted,        \* ghost: the last quote the stream gave
    astray          \* ghost: statistics were cached without the right zone, or of a
                    \* move that came when the server's clock was ahead of the host's

broker == <<price, clock, moment>>
socket == <<up, sockets, inbound, listing, asked, due>>
tape == <<seenAt, queue, emitted>>
quoting == <<broker, socket, zone, quotes, tape, astray>>

Nothing == [bid |-> 0, ask |-> 0, time |-> 0]
Unpriced == [bid |-> 0, ask |-> 0, time |-> 0, since |-> 0]
None(q) == q = Nothing
Whole(q) == q.bid > 0 /\ q.ask > 0
Later(x, y) == IF x > y THEN x ELSE y

MarketInit ==
    /\ price = [s \in Quoted |-> Unpriced] /\ clock = 1 /\ moment = 1
    /\ up = FALSE /\ sockets = 0 /\ inbound = <<>>
    /\ listing = FALSE /\ asked = {} /\ due = {}
    /\ zone = 0 /\ quotes = [s \in Quoted |-> Nothing]
    /\ seenAt = [s \in Quoted |-> 0] /\ queue = <<>> /\ emitted = quotes
    /\ astray = FALSE

------------------------------------------------------------------------------
(* The broker, external, and the clocks *)

Passes ==
    /\ \/ moment < MaxMoments /\ moment' = moment + 1 /\ UNCHANGED clock
       \/ clock < MaxMoments /\ clock' = clock + 1 /\ UNCHANGED moment
    /\ UNCHANGED <<price, socket, zone, quotes, tape, astray>>

Arriving(kind, s, q) ==
    inbound' = Append(inbound, [kind |-> kind, name |-> s, quote |-> q, since |-> price'[s].since])

\* A quote moves on one side or on both.
Moves(s, b, a) ==
    /\ b + a > 0 /\ Later(price[s].bid, price[s].ask) < MaxQuotes
    /\ price' = [price EXCEPT ![s] = [bid |-> @.bid + b, ask |-> @.ask + a,
                                     time |-> clock, since |-> moment]]
    /\ IF up /\ s \in asked
       THEN /\ Len(inbound) < QuoteWire
            /\ Arriving("quotes", s, [bid |-> b * price'[s].bid, ask |-> a * price'[s].ask,
                                      time |-> 0])
       ELSE UNCHANGED inbound
    /\ UNCHANGED <<clock, moment, up, sockets, listing, asked, due, zone, quotes, tape,
                   astray>>

\* Statistics follow a subscription, before or after the first quotes.
Pushes(s) ==
    /\ s \in due /\ Len(inbound) < QuoteWire
    /\ due' = due \ {s}
    /\ UNCHANGED broker
    /\ Arriving("stats", s, [bid |-> price[s].bid, ask |-> price[s].ask,
                             time |-> price[s].time + Zone])
    /\ UNCHANGED <<up, sockets, listing, asked, zone, quotes, tape, astray>>

Drops ==
    /\ up
    /\ up' = FALSE /\ inbound' = <<>> /\ due' = {}
    /\ UNCHANGED <<broker, sockets, listing, asked, zone, quotes, tape, astray>>

------------------------------------------------------------------------------
(* dial, account and subscribe *)

\* Everything of the client is new.  Its requests for the account and for the
\* symbols may each fail, which dial ignores.
Dials(account, symbols) ==
    /\ ~up /\ sockets < MaxSockets
    /\ up' = TRUE /\ sockets' = sockets + 1 /\ inbound' = <<>>
    /\ zone' = (IF account THEN Zone ELSE 0) /\ listing' = symbols
    /\ asked' = {} /\ due' = {}
    /\ quotes' = [s \in Quoted |-> Nothing]
    /\ UNCHANGED <<broker, tape, astray>>

ReadsAccount ==
    /\ up /\ zone' = Zone
    /\ UNCHANGED <<broker, socket, quotes, tape, astray>>

\* Without the list of symbols there is no id to ask for.
Subscribes ==
    /\ up /\ asked = {}
    /\ asked' = IF listing THEN Quoted ELSE {}
    /\ due' = asked'
    /\ UNCHANGED <<broker, up, sockets, inbound, listing, zone, quotes, tape, astray>>

------------------------------------------------------------------------------
(* The reader *)

\* Fault: the record replaces what is cached.
Overwritten(s, q) == [q EXCEPT !.time = moment]

\* A side that did not move is carried over from the last quote.
Merged(s, q) ==
    [bid |-> IF q.bid > 0 THEN q.bid ELSE quotes[s].bid,
     ask |-> IF q.ask > 0 THEN q.ask ELSE quotes[s].ask,
     time |-> moment]

\* Without either side nothing is cached.
ReadQuotes(s, q) ==
    /\ quotes' = IF Whole(Merged(s, q)) THEN [quotes EXCEPT ![s] = Merged(s, q)] ELSE quotes
    /\ UNCHANGED astray

\* Statistics only fill a gap, and only when they hold both sides.
ReadStats(s, q, since) ==
    /\ IF Whole(q) /\ None(quotes[s])
       THEN /\ quotes' = [quotes EXCEPT ![s] = [q EXCEPT !.time = @ - zone]]
            /\ astray' = (astray \/ zone # Zone \/ q.time - Zone > since)
       ELSE UNCHANGED <<quotes, astray>>

ReadFrame ==
    /\ up /\ inbound # <<>>
    /\ inbound' = Tail(inbound)
    /\ LET f == Head(inbound)
       IN  IF f.kind = "quotes" THEN ReadQuotes(f.name, f.quote)
           ELSE ReadStats(f.name, f.quote, f.since)
    /\ UNCHANGED <<broker, up, sockets, listing, asked, due, zone, tape>>

------------------------------------------------------------------------------
(* The stream.  It keeps what it has seenAt when the connection is another. *)

\* Fault: whatever is cached is given.
AnyTime(s) == Whole(quotes[s])
Fresh(s) == Whole(quotes[s]) /\ quotes[s].time > seenAt[s]

Polls ==
    /\ up /\ queue = <<>>
    /\ \E s \in Quoted : Fresh(s)
    /\ seenAt' = [s \in Quoted |-> IF Fresh(s) THEN quotes[s].time ELSE seenAt[s]]
    /\ \E order \in [1 .. Cardinality({s \in Quoted : Fresh(s)}) -> {s \in Quoted : Fresh(s)}] :
         /\ \A i, j \in DOMAIN order : order[i] = order[j] => i = j
         /\ queue' = [i \in DOMAIN order |-> <<order[i], quotes[order[i]]>>]
    /\ UNCHANGED <<broker, socket, zone, quotes, emitted, astray>>

Emits ==
    /\ queue # <<>>
    /\ LET last == queue[Len(queue)] IN emitted' = [emitted EXCEPT ![last[1]] = last[2]]
    /\ queue' = SubSeq(queue, 1, Len(queue) - 1)
    /\ UNCHANGED <<broker, socket, zone, quotes, seenAt, astray>>

------------------------------------------------------------------------------
MarketNext ==
    \/ Passes \/ Drops \/ Subscribes \/ ReadsAccount \/ ReadFrame \/ Polls \/ Emits
    \/ \E account, symbols \in BOOLEAN : Dials(account, symbols)
    \/ \E s \in Quoted :
         \/ \E b, a \in 0 .. 1 : Moves(s, b, a)
         \/ Pushes(s)

MarketSpec == MarketInit /\ [][MarketNext]_quoting

------------------------------------------------------------------------------
(* Properties *)

SamePrice(q, r) == q.bid = r.bid /\ q.ask = r.ask
OnItsWay(s) == \E i \in DOMAIN inbound : inbound[i].name = s

\* Once everything sent has been read, a cached quote is the market's, on both sides,
\* whatever moved while nothing was connected, subscribed or cached: orders are
\* priced from this entry.
QuotesAreCurrent ==
    \A s \in Quoted :
        up /\ ~None(quotes[s]) /\ ~OnItsWay(s) => SamePrice(quotes[s], price[s])

\* A stream gives a price once, and never a half of one, although the same price comes
\* again after a redial and with the time of another clock; as long as no statistics
\* were cached without the server's zone, or of a move that came when the server's
\* clock was ahead of the host's.
GivenOnce ==
    [][\A s \in Quoted :
        emitted'[s] # emitted[s] =>
            Whole(emitted'[s]) /\ (~astray => ~SamePrice(emitted[s], emitted'[s]))]_quoting

=============================================================================
