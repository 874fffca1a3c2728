-------------------------- MODULE WebtermDataProofs --------------------------
(***************************************************************************)
(* What the web terminal makes of quotes, of specifications, of the        *)
(* receipts of an order, of windows of time and of lists of servers, for   *)
(* every number of symbols, connections and frames on their way, of        *)
(* senders, looks and tickets, any shift of the server's clock and any     *)
(* lists.                                                                  *)
(***************************************************************************)
EXTENDS WebtermMarket, WebtermSpecs, WebtermSnapshot, WebtermCandles, ServerSearch,
        FiniteSetTheorems, SequenceTheorems, WellFoundedInduction, TLAPS

------------------------------------------------------------------------------
(* Numbers *)

LEMMA LeastNatural ==
    ASSUME NEW S \in SUBSET Nat, NEW n \in S
    PROVE  \E m \in S : \A j \in 0 .. m - 1 : j \notin S
<1>1. PICK m \in S : \A j \in S : ~(<<j, m>> \in OpToRel(<, Nat))
  BY NatLessThanWellFounded, WFMin
<1>2. \A j \in S : ~(j < m)
  BY <1>1 DEF OpToRel
<1>3. \A j \in 0 .. m - 1 : j \notin S
  BY <1>2
<1> QED
  BY <1>3

------------------------------------------------------------------------------
(* Quotes: the types *)

Priced == [bid : Nat, ask : Nat, time : Int]
Stamped == [bid : Nat, ask : Nat, time : Nat, since : Nat]
QuoteFrames == [kind : {"quotes", "stats"}, name : Quoted, quote : Priced, since : Nat]

BrokerTyped == price \in [Quoted -> Stamped] /\ clock \in Nat /\ moment \in Nat
SocketTyped ==
    /\ up \in BOOLEAN /\ sockets \in Nat /\ listing \in BOOLEAN
    /\ asked \in SUBSET Quoted /\ due \in SUBSET asked
    /\ inbound \in Seq(QuoteFrames)
CacheTyped == zone \in {0, Zone} /\ quotes \in [Quoted -> Priced]
TapeTyped ==
    /\ seenAt \in [Quoted -> Int] /\ queue \in Seq(Quoted \X Priced)
    /\ emitted \in [Quoted -> Priced] /\ astray \in BOOLEAN

MarketTyped == BrokerTyped /\ SocketTyped /\ CacheTyped /\ TapeTyped

------------------------------------------------------------------------------
(* Quotes: the invariant *)

\* Nothing is on its way over a closed connection, nor is anything known of a symbol
\* that was not subscribed.
Unasked ==
    /\ ~up => inbound = <<>> /\ due = {}
    /\ \A s \in Quoted \ asked :
         up => None(quotes[s]) /\ \A i \in 1 .. Len(inbound) : inbound[i].name # s

Total(q) == q.bid + q.ask

\* What a frame says of the price before and after it was sent.
Tells(s, was, f, after) ==
    IF f.name # s THEN after = was
    ELSE IF f.kind = "stats"
    THEN /\ after = was /\ SamePrice(f.quote, after)
         /\ f.quote.time = after.time + Zone /\ f.since = after.since
    ELSE /\ Total(was) < Total(after)
         /\ after.bid = (IF f.quote.bid > 0 THEN f.quote.bid ELSE was.bid)
         /\ after.ask = (IF f.quote.ask > 0 THEN f.quote.ask ELSE was.ask)

\* The price of s at the time of what the client read last, and after each frame that it
\* has still to read.
History(s, h) ==
    /\ h \in [0 .. Len(inbound) -> Stamped]
    /\ h[Len(inbound)] = price[s]
    /\ \A i \in 1 .. Len(inbound) : Tells(s, h[i - 1], inbound[i], h[i])
    /\ \A i, j \in 0 .. Len(inbound) : i <= j => h[i] = h[j] \/ Total(h[i]) < Total(h[j])
    /\ \A i \in 0 .. Len(inbound) : h[i].since <= moment

\* When a price moved, the server's clock was not ahead of the host's.
InTime(q) == q.time <= q.since

\* What is cached is the price at the time of what was read last, with a time no
\* earlier than the price's on the server's clock.
CacheFollows(s, h) ==
    up /\ ~None(quotes[s]) =>
        /\ Whole(quotes[s]) /\ SamePrice(quotes[s], h[0])
        /\ ~astray /\ InTime(h[0]) => h[0].time <= quotes[s].time

\* The quote of s that was polled last: the one queued, or the last one given.
LastPolled(s, g) ==
    \/ g = emitted[s] /\ \A i \in 1 .. Len(queue) : queue[i][1] # s
    \/ \E i \in 1 .. Len(queue) : queue[i] = <<s, g>>

\* It is no newer than the cache, and what is cached or will be with the same price has no
\* later time.
GivenBefore(s, h, g) ==
    /\ Total(g) <= Total(h[0])
    /\ ~astray =>
         /\ \A i \in 0 .. Len(inbound) :
              SamePrice(g, h[i]) /\ InTime(h[i]) => h[i].time <= seenAt[s]
         /\ up /\ Whole(quotes[s]) /\ SamePrice(g, quotes[s]) => quotes[s].time <= seenAt[s]

Followed(s) ==
    \E h \in [0 .. Len(inbound) -> Stamped], g \in Priced :
        History(s, h) /\ CacheFollows(s, h) /\ LastPolled(s, g) /\ GivenBefore(s, h, g)

\* Each symbol is queued once, with a price that was not given before.
QueuedOnce ==
    \A i \in 1 .. Len(queue) :
        /\ Whole(queue[i][2])
        /\ ~astray => ~SamePrice(emitted[queue[i][1]], queue[i][2])
        /\ \A j \in 1 .. Len(queue) : queue[i][1] = queue[j][1] => i = j

MarketInv == MarketTyped /\ Unasked /\ QueuedOnce /\ \A s \in Quoted : Followed(s)

------------------------------------------------------------------------------
(* Quotes: the types hold *)

LEMMA NothingTyped == Unpriced \in Stamped /\ Nothing \in Priced
  BY DEF Unpriced, Nothing, Stamped, Priced

LEMMA MarketTypedInit == MarketInit => MarketTyped
<1> SUFFICES ASSUME MarketInit
             PROVE  MarketTyped
  OBVIOUS
<1>1. BrokerTyped /\ CacheTyped
  BY NothingTyped DEF MarketInit, BrokerTyped, CacheTyped
<1>2. SocketTyped
  <2>1. inbound \in Seq(QuoteFrames)
    BY EmptySeq DEF MarketInit
  <2> QED
    BY <2>1 DEF MarketInit, SocketTyped
<1>3. TapeTyped
  <2>1. queue \in Seq(Quoted \X Priced)
    BY EmptySeq DEF MarketInit
  <2>2. emitted \in [Quoted -> Priced]
    BY NothingTyped DEF MarketInit
  <2>3. seenAt \in [Quoted -> Int]
    BY DEF MarketInit
  <2> QED
    BY <2>1, <2>2, <2>3 DEF MarketInit, TapeTyped
<1> QED
  BY <1>1, <1>2, <1>3 DEF MarketTyped

LEMMA MergedTyped ==
    ASSUME NEW s \in Quoted, NEW q \in Priced, CacheTyped, moment \in Nat
    PROVE  Merged(s, q) \in Priced
<1>1. quotes[s] \in Priced
  BY DEF CacheTyped
<1> QED
  BY <1>1 DEF Merged, Priced

LEMMA ShiftTyped ==
    ASSUME NEW q \in Priced, NEW z \in Int
    PROVE  [q EXCEPT !.time = @ - z] \in Priced
  BY DEF Priced

LEMMA PushedTyped ==
    ASSUME NEW s \in Quoted, BrokerTyped
    PROVE  [bid |-> price[s].bid, ask |-> price[s].ask, time |-> price[s].time + Zone]
             \in Priced
<1>1. price[s] \in Stamped
  BY DEF BrokerTyped
<1>2. Zone \in Int
  BY MarketAssumption
<1> QED
  BY <1>1, <1>2 DEF Stamped, Priced

LEMMA FreshFinite ==
    /\ IsFiniteSet({s \in Quoted : Fresh(s)})
    /\ Cardinality({s \in Quoted : Fresh(s)}) \in Nat
<1>1. IsFiniteSet({s \in Quoted : Fresh(s)})
  BY MarketAssumption, FS_Subset
<1> QED
  BY <1>1, FS_CardinalityType

\* What a poll queues.
LEMMA PolledQueue ==
    ASSUME MarketTyped, Polls
    PROVE  /\ queue' \in Seq(Quoted \X Priced)
           /\ \A i \in 1 .. Len(queue') :
                /\ Fresh(queue'[i][1]) /\ queue'[i][2] = quotes[queue'[i][1]]
                /\ \A j \in 1 .. Len(queue') : queue'[i][1] = queue'[j][1] => i = j
<1> DEFINE F == {s \in Quoted : Fresh(s)}
           n == Cardinality(F)
<1>1. n \in Nat
  BY FreshFinite
<1>2. PICK order \in [1 .. n -> F] :
        /\ \A i, j \in DOMAIN order : order[i] = order[j] => i = j
        /\ queue' = [i \in DOMAIN order |-> <<order[i], quotes[order[i]]>>]
  BY DEF Polls
<1> HIDE DEF n
<1>3. \A i \in 1 .. n : order[i] \in Quoted /\ Fresh(order[i]) /\ quotes[order[i]] \in Priced
  BY <1>2 DEF MarketTyped, CacheTyped
<1>4. queue' = [i \in 1 .. n |-> <<order[i], quotes[order[i]]>>]
  BY <1>2
<1> HIDE DEF F
<1>5. queue' \in Seq(Quoted \X Priced) /\ Len(queue') = n
  BY <1>1, <1>3, <1>4
<1>6. ASSUME NEW i \in 1 .. n
      PROVE  queue'[i][1] = order[i] /\ queue'[i][2] = quotes[order[i]]
  BY <1>4, <1>6
<1>7. DOMAIN order = 1 .. n
  BY <1>2
<1> QED
  BY <1>2, <1>3, <1>5, <1>6, <1>7

LEMMA MarketTypedStep ==
    ASSUME MarketTyped, [MarketNext]_quoting
    PROVE  MarketTyped'
<1> USE DEF MarketTyped, BrokerTyped, SocketTyped, CacheTyped, TapeTyped
<1>1. CASE Passes
  <2>1. clock' \in Nat /\ moment' \in Nat /\ UNCHANGED <<price, socket, zone, quotes, tape, astray>>
    BY <1>1 DEF Passes
  <2> QED
    BY <2>1 DEF socket, tape
<1>2. CASE Drops
  <2>1. inbound' = <<>> /\ due' = {} /\ up' = FALSE
    BY <1>2 DEF Drops
  <2>2. UNCHANGED <<price, clock, moment, sockets, listing, asked, zone, quotes, seenAt, queue, emitted,
                    astray>>
    BY <1>2 DEF Drops, broker, tape
  <2>3. inbound' \in Seq(QuoteFrames)
    BY <2>1, EmptySeq
  <2> QED
    BY <2>1, <2>2, <2>3
<1>3. CASE Subscribes
  BY <1>3 DEF Subscribes, broker, tape
<1>4. CASE ReadsAccount
  BY <1>4 DEF ReadsAccount, broker, socket, tape
<1>5. CASE ReadFrame
  <2>1. Head(inbound) \in QuoteFrames /\ Tail(inbound) \in Seq(QuoteFrames)
    BY <1>5 DEF ReadFrame
  <2>2. /\ inbound' \in Seq(QuoteFrames)
        /\ UNCHANGED <<price, clock, moment, up, sockets, listing, asked, due, zone, seenAt, queue,
                       emitted>>
    BY <1>5, <2>1 DEF ReadFrame, broker, tape
  <2>3. quotes' \in [Quoted -> Priced] /\ astray' \in BOOLEAN
    <3>1. CASE Head(inbound).kind = "quotes"
      <4>1. ReadQuotes(Head(inbound).name, Head(inbound).quote)
        BY <1>5, <3>1 DEF ReadFrame
      <4>2. Head(inbound).name \in Quoted /\ Head(inbound).quote \in Priced
        BY <2>1 DEF QuoteFrames
      <4>3. Merged(Head(inbound).name, Head(inbound).quote) \in Priced
        BY <4>2, MergedTyped
      <4> QED
        BY <4>1, <4>2, <4>3 DEF ReadQuotes
    <3>2. CASE Head(inbound).kind # "quotes"
      <4>1. ReadStats(Head(inbound).name, Head(inbound).quote, Head(inbound).since)
        BY <1>5, <3>2 DEF ReadFrame
      <4>2. Head(inbound).name \in Quoted /\ Head(inbound).quote \in Priced
        BY <2>1 DEF QuoteFrames
      <4>3. zone \in Int
        BY MarketAssumption
      <4>4. [Head(inbound).quote EXCEPT !.time = @ - zone] \in Priced
        BY <4>2, <4>3, ShiftTyped
      <4> QED
        BY <4>1, <4>2, <4>4 DEF ReadStats
    <3> QED
      BY <3>1, <3>2
  <2> QED
    BY <2>2, <2>3
<1>6. CASE Polls
  <2>1. UNCHANGED <<broker, socket, zone, quotes, emitted, astray>>
    BY <1>6 DEF Polls
  <2>2. seenAt' \in [Quoted -> Int]
    BY <1>6 DEF Polls, Priced
  <2>3. queue' \in Seq(Quoted \X Priced)
    BY <1>6, PolledQueue
  <2> QED
    BY <2>1, <2>2, <2>3 DEF broker, socket
<1>7. CASE Emits
  <2>1. UNCHANGED <<broker, socket, zone, quotes, seenAt, astray>>
    BY <1>7 DEF Emits
  <2>2. Len(queue) \in Nat \ {0}
    BY <1>7 DEF Emits
  <2>3. queue[Len(queue)] \in Quoted \X Priced
    BY <2>2
  <2>4. emitted' \in [Quoted -> Priced]
    BY <1>7, <2>3 DEF Emits
  <2>5. queue' \in Seq(Quoted \X Priced)
    BY <1>7, <2>2 DEF Emits
  <2> QED
    BY <2>1, <2>4, <2>5 DEF broker, socket
<1>8. ASSUME NEW a \in BOOLEAN, NEW b \in BOOLEAN, Dials(a, b)
      PROVE  MarketTyped'
  BY <1>8 DEF Dials, broker, tape, Nothing, Priced
<1>9. ASSUME NEW s \in Quoted, NEW b \in 0 .. 1, NEW a \in 0 .. 1, Moves(s, b, a)
      PROVE  MarketTyped'
  <2>1. UNCHANGED <<clock, moment, up, sockets, listing, asked, due, zone, quotes, seenAt, queue,
                    emitted, astray>>
    BY <1>9 DEF Moves, tape
  <2>2. price' \in [Quoted -> Stamped]
    <3>1. price' = [price EXCEPT ![s] = [bid |-> price[s].bid + b, ask |-> price[s].ask + a,
                                         time |-> clock, since |-> moment]]
      BY <1>9 DEF Moves
    <3>2. price[s].bid + b \in Nat /\ price[s].ask + a \in Nat
      BY DEF Stamped
    <3>3. [bid |-> price[s].bid + b, ask |-> price[s].ask + a, time |-> clock, since |-> moment]
             \in Stamped
      BY <3>2 DEF Stamped
    <3> QED
      BY <3>1, <3>3
  <2>3. inbound' \in Seq(QuoteFrames)
    <3>1. b * price'[s].bid \in Nat /\ a * price'[s].ask \in Nat
      <4>1. price'[s].bid \in Nat /\ price'[s].ask \in Nat
        BY <2>2 DEF Stamped
      <4>2. ASSUME NEW n \in Nat, NEW m \in 0 .. 1
            PROVE  m * n \in Nat
        <5>1. CASE m = 0
          BY <5>1
        <5>2. CASE m = 1
          BY <5>2
        <5> QED
          BY <5>1, <5>2
      <4> QED
        BY <4>1, <4>2
    <3>2. [kind |-> "quotes", name |-> s,
           quote |-> [bid |-> b * price'[s].bid, ask |-> a * price'[s].ask, time |-> 0],
           since |-> price'[s].since] \in QuoteFrames
      <4>1. price'[s].since \in Nat
        BY <2>2 DEF Stamped
      <4> QED
        BY <3>1, <4>1 DEF QuoteFrames, Priced
    <3>3. CASE up /\ s \in asked
      <4>1. inbound' = Append(inbound, [kind |-> "quotes", name |-> s,
              quote |-> [bid |-> b * price'[s].bid, ask |-> a * price'[s].ask, time |-> 0],
              since |-> price'[s].since])
        BY <1>9, <3>3 DEF Moves, Arriving
      <4> QED
        BY <3>2, <4>1, AppendProperties
    <3>4. CASE ~(up /\ s \in asked)
      BY <1>9, <3>4 DEF Moves
    <3> QED
      BY <3>3, <3>4
  <2> QED
    BY <2>1, <2>2, <2>3
<1>10. ASSUME NEW s \in Quoted, Pushes(s)
       PROVE  MarketTyped'
  <2>1. UNCHANGED <<price, clock, moment, up, sockets, listing, asked, zone, quotes, seenAt, queue,
                    emitted, astray>>
    BY <1>10 DEF Pushes, broker, tape
  <2>2. inbound' \in Seq(QuoteFrames)
    <3>1. [kind |-> "stats", name |-> s,
           quote |-> [bid |-> price[s].bid, ask |-> price[s].ask, time |-> price[s].time + Zone],
           since |-> price'[s].since] \in QuoteFrames
      <4>1. price'[s].since \in Nat
        BY <2>1 DEF Stamped
      <4> QED
        BY <4>1, PushedTyped DEF QuoteFrames
    <3> QED
      BY <1>10, <3>1 DEF Pushes, Arriving
  <2>3. due' \in SUBSET asked
    BY <1>10 DEF Pushes
  <2> QED
    BY <2>1, <2>2, <2>3
<1>11. CASE UNCHANGED quoting
  BY <1>11 DEF quoting, broker, socket, tape
<1> QED
  BY <1>1, <1>2, <1>3, <1>4, <1>5, <1>6, <1>7, <1>8, <1>9, <1>10, <1>11 DEF MarketNext

------------------------------------------------------------------------------
(* Quotes: what is not subscribed, and what is queued *)

\* Taking the first frame leaves the others, one place earlier.
LEMMA TakenFrame ==
    ASSUME MarketTyped, ReadFrame
    PROVE  /\ Len(inbound) \in Nat \ {0} /\ Len(inbound') = Len(inbound) - 1
           /\ \A i \in 1 .. Len(inbound') : inbound'[i] = inbound[i + 1]
           /\ Head(inbound) = inbound[1] /\ inbound[1] \in QuoteFrames
<1>1. inbound \in Seq(QuoteFrames) /\ inbound # <<>> /\ inbound' = Tail(inbound)
  BY DEF ReadFrame, MarketTyped, SocketTyped
<1> QED
  BY <1>1

\* A frame that is sent is behind the others.
LEMMA SentFrame ==
    ASSUME MarketTyped, NEW kind, NEW s, NEW q, Arriving(kind, s, q)
    PROVE  /\ Len(inbound) \in Nat /\ Len(inbound') = Len(inbound) + 1
           /\ \A i \in 1 .. Len(inbound) : inbound'[i] = inbound[i]
           /\ inbound'[Len(inbound) + 1] = [kind |-> kind, name |-> s, quote |-> q, since |-> price'[s].since]
<1>1. /\ inbound \in Seq(QuoteFrames)
      /\ inbound' = Append(inbound, [kind |-> kind, name |-> s, quote |-> q, since |-> price'[s].since])
  BY DEF Arriving, MarketTyped, SocketTyped
<1> QED
  BY <1>1

LEMMA UnaskedSent ==
    ASSUME MarketTyped, Unasked, up, UNCHANGED <<up, asked, quotes>>,
           NEW kind, NEW s \in asked, NEW q, Arriving(kind, s, q)
    PROVE  Unasked'
<1>1. ASSUME NEW r \in Quoted \ asked, NEW i \in 1 .. Len(inbound')
      PROVE  inbound'[i].name # r
  <2>0. /\ Len(inbound) \in Nat /\ Len(inbound') = Len(inbound) + 1
        /\ \A k \in 1 .. Len(inbound) : inbound'[k] = inbound[k]
        /\ inbound'[Len(inbound) + 1] = [kind |-> kind, name |-> s, quote |-> q, since |-> price'[s].since]
    BY SentFrame
  <2>1. CASE i \in 1 .. Len(inbound)
    BY <1>1, <2>0, <2>1 DEF Unasked
  <2>2. CASE i = Len(inbound) + 1
    <3>1. inbound'[i].name = s
      BY <2>0, <2>2
    <3> QED
      BY <1>1, <3>1
  <2> QED
    BY <1>1, <2>0, <2>1, <2>2
<1>2. ASSUME NEW r \in Quoted \ asked
      PROVE  None(quotes'[r])
  BY <1>2 DEF Unasked, None
<1> QED
  BY <1>1, <1>2 DEF Unasked

LEMMA UnaskedStep ==
    ASSUME MarketTyped, Unasked, [MarketNext]_quoting
    PROVE  Unasked'
<1>1. CASE Passes
  BY <1>1 DEF Passes, socket, Unasked
<1>2. CASE Drops
  BY <1>2 DEF Drops, broker, tape, Unasked
<1>3. CASE Subscribes
  BY <1>3 DEF Subscribes, broker, tape, Unasked
<1>4. CASE ReadsAccount
  BY <1>4 DEF ReadsAccount, socket, Unasked
<1>5. CASE ReadFrame
  <2>1. up /\ UNCHANGED <<up, asked>> /\ quotes \in [Quoted -> Priced]
    BY <1>5 DEF ReadFrame, MarketTyped, CacheTyped
  <2>2. ASSUME NEW s \in Quoted \ asked
        PROVE  None(quotes'[s]) /\ \A i \in 1 .. Len(inbound') : inbound'[i].name # s
    <3>1. None(quotes[s]) /\ \A i \in 1 .. Len(inbound) : inbound[i].name # s
      BY <2>1, <2>2 DEF Unasked
    <3>2. \A i \in 1 .. Len(inbound') : inbound'[i].name # s
      <4>1. ASSUME NEW i \in 1 .. Len(inbound')
            PROVE  i + 1 \in 1 .. Len(inbound) /\ inbound'[i] = inbound[i + 1]
        BY <1>5, TakenFrame
      <4> QED
        BY <3>1, <4>1
    <3>3. Head(inbound).name # s /\ Head(inbound).name \in Quoted
      BY <1>5, <3>1, TakenFrame DEF QuoteFrames
    <3>4. quotes'[s] = quotes[s]
      <4>1. CASE ReadQuotes(Head(inbound).name, Head(inbound).quote)
        BY <2>1, <3>3, <4>1 DEF ReadQuotes
      <4>2. CASE ReadStats(Head(inbound).name, Head(inbound).quote, Head(inbound).since)
        BY <2>1, <3>3, <4>2 DEF ReadStats
      <4> QED
        BY <1>5, <4>1, <4>2 DEF ReadFrame
    <3> QED
      BY <3>1, <3>2, <3>4
  <2> QED
    BY <2>1, <2>2 DEF Unasked
<1>6. CASE Polls
  BY <1>6 DEF Polls, socket, Unasked
<1>7. CASE Emits
  BY <1>7 DEF Emits, socket, Unasked
<1>8. ASSUME NEW a \in BOOLEAN, NEW b \in BOOLEAN, Dials(a, b)
      PROVE  Unasked'
  <2>1. up' = TRUE /\ inbound' = <<>> /\ quotes' = [s \in Quoted |-> Nothing]
    BY <1>8 DEF Dials
  <2> QED
    BY <2>1 DEF Unasked, None
<1>9. ASSUME NEW s \in Quoted, NEW b \in 0 .. 1, NEW a \in 0 .. 1, Moves(s, b, a)
      PROVE  Unasked'
  <2>1. UNCHANGED <<up, asked, quotes>>
    BY <1>9 DEF Moves
  <2>2. CASE up /\ s \in asked
    <3> DEFINE q == [bid |-> b * price'[s].bid, ask |-> a * price'[s].ask, time |-> 0]
    <3>1. Arriving("quotes", s, q)
      BY <1>9, <2>2 DEF Moves
    <3> HIDE DEF q
    <3> QED
      BY <2>1, <2>2, <3>1, UnaskedSent
  <2>3. CASE ~(up /\ s \in asked)
    BY <1>9, <2>1, <2>3 DEF Moves, Unasked
  <2> QED
    BY <2>2, <2>3
<1>10. ASSUME NEW s \in Quoted, Pushes(s)
       PROVE  Unasked'
  <2> DEFINE q == [bid |-> price[s].bid, ask |-> price[s].ask, time |-> price[s].time + Zone]
  <2>1. UNCHANGED <<up, asked, quotes>> /\ Arriving("stats", s, q) /\ s \in asked
    BY <1>10 DEF Pushes, MarketTyped, SocketTyped
  <2>2. up
    BY <1>10 DEF Pushes, Unasked
  <2> HIDE DEF q
  <2> QED
    BY <2>1, <2>2, UnaskedSent
<1>11. CASE UNCHANGED quoting
  BY <1>11 DEF quoting, socket, Unasked
<1> QED
  BY <1>1, <1>2, <1>3, <1>4, <1>5, <1>6, <1>7, <1>8, <1>9, <1>10, <1>11 DEF MarketNext

\* Everything but Polls and Emits leaves the stream as it is.
LEMMA TapeKept ==
    ASSUME [MarketNext]_quoting, ~Polls, ~Emits
    PROVE  UNCHANGED tape
<1>1. ASSUME ReadFrame
      PROVE  UNCHANGED tape
  BY <1>1 DEF ReadFrame
<1> QED
  BY <1>1 DEF MarketNext, Passes, Drops, Subscribes, ReadsAccount, Dials, Moves, Pushes, quoting

LEMMA AstrayStays ==
    ASSUME MarketTyped, [MarketNext]_quoting
    PROVE  astray => astray'
<1>1. ASSUME ReadFrame
      PROVE  astray => astray'
  <2>1. CASE Head(inbound).kind = "quotes"
    BY <1>1, <2>1 DEF ReadFrame, ReadQuotes
  <2>2. CASE Head(inbound).kind # "quotes"
    BY <1>1, <2>2 DEF ReadFrame, ReadStats
  <2> QED
    BY <2>1, <2>2
<1> QED
  BY <1>1 DEF MarketNext, Passes, Drops, Subscribes, ReadsAccount, Dials, Moves, Pushes, Polls,
              Emits, quoting

LEMMA EmittedQuote ==
    ASSUME MarketTyped, QueuedOnce, Emits
    PROVE  \E n \in Nat \ {0} :
             /\ Len(queue) = n /\ Len(queue') = n - 1
             /\ \A i \in 1 .. n - 1 : queue'[i] = queue[i] /\ queue[i][1] # queue[n][1]
             /\ \A i \in 1 .. n :
                  queue[i] \in Quoted \X Priced /\ queue[i] = <<queue[i][1], queue[i][2]>>
             /\ emitted' = [emitted EXCEPT ![queue[n][1]] = queue[n][2]]
<1>1. queue \in Seq(Quoted \X Priced) /\ queue # <<>>
  BY DEF Emits, MarketTyped, TapeTyped
<1>2. Len(queue) \in Nat \ {0}
  BY <1>1
<1>3. queue' = SubSeq(queue, 1, Len(queue) - 1)
  BY DEF Emits
<1>4. Len(queue') = Len(queue) - 1 /\ \A i \in 1 .. Len(queue) - 1 : queue'[i] = queue[i]
  <2> DEFINE n == Len(queue) - 1
  <2>1. n \in Nat /\ 1 \in Int /\ \A i \in 1 .. n : queue[i] \in Quoted \X Priced
    BY <1>1, <1>2
  <2>2. queue' = SubSeq(queue, 1, n)
    BY <1>3
  <2> HIDE DEF n
  <2>3. /\ Len(queue') = IF 1 <= n THEN n - 1 + 1 ELSE 0
        /\ \A i \in 1 .. n - 1 + 1 : queue'[i] = queue[1 + i - 1]
    BY <2>1, <2>2, SubSeqProperties
  <2>4. Len(queue') = n /\ \A i \in 1 .. n : queue'[i] = queue[i]
    BY <2>1, <2>3
  <2> QED
    BY <2>4 DEF n
<1>5. ASSUME NEW i \in 1 .. Len(queue) - 1
      PROVE  queue[i][1] # queue[Len(queue)][1]
  <2>1. i \in 1 .. Len(queue) /\ Len(queue) \in 1 .. Len(queue) /\ i # Len(queue)
    BY <1>2
  <2> QED
    BY <2>1 DEF QueuedOnce
<1>6. \A i \in 1 .. Len(queue) : queue[i] \in Quoted \X Priced /\ queue[i] = <<queue[i][1], queue[i][2]>>
  BY <1>1
<1>7. emitted' = [emitted EXCEPT ![queue[Len(queue)][1]] = queue[Len(queue)][2]]
  BY DEF Emits
<1> QED
  BY <1>2, <1>4, <1>5, <1>6, <1>7

LEMMA QueuedOnceStep ==
    ASSUME MarketInv, [MarketNext]_quoting
    PROVE  QueuedOnce'
<1> USE DEF MarketInv
<1>1. CASE Polls
  <2>1. ASSUME NEW i \in 1 .. Len(queue')
        PROVE  /\ Whole(queue'[i][2])
               /\ ~astray => ~SamePrice(emitted[queue'[i][1]], queue'[i][2])
               /\ \A j \in 1 .. Len(queue') : queue'[i][1] = queue'[j][1] => i = j
    <3>1. /\ Fresh(queue'[i][1]) /\ queue'[i][2] = quotes[queue'[i][1]]
          /\ \A j \in 1 .. Len(queue') : queue'[i][1] = queue'[j][1] => i = j
      BY <1>1, PolledQueue
    <3>2. queue'[i][1] \in Quoted
      BY <1>1, PolledQueue
    <3>3. ASSUME ~astray, NEW s \in Quoted, Fresh(s), SamePrice(emitted[s], quotes[s])
          PROVE  FALSE
      <4>1. PICK h, g : LastPolled(s, g) /\ GivenBefore(s, h, g)
        BY DEF Followed
      <4>2. g = emitted[s]
        BY <1>1, <4>1 DEF Polls, LastPolled
      <4>3. quotes[s].time <= seenAt[s]
        BY <1>1, <3>3, <4>1, <4>2 DEF Polls, Fresh, GivenBefore
      <4>4. quotes[s].time > seenAt[s] /\ quotes[s].time \in Int /\ seenAt[s] \in Int
        BY <3>3 DEF Fresh, MarketTyped, CacheTyped, TapeTyped, Priced
      <4> QED
        BY <4>3, <4>4
    <3> QED
      BY <3>1, <3>2, <3>3 DEF Fresh
  <2>2. UNCHANGED <<emitted, astray>>
    BY <1>1 DEF Polls
  <2> QED
    BY <2>1, <2>2 DEF QueuedOnce
<1>2. CASE Emits
  <2>1. PICK n \in Nat \ {0} :
             /\ Len(queue) = n /\ Len(queue') = n - 1
             /\ \A i \in 1 .. n - 1 : queue'[i] = queue[i] /\ queue[i][1] # queue[n][1]
             /\ \A i \in 1 .. n :
                  queue[i] \in Quoted \X Priced /\ queue[i] = <<queue[i][1], queue[i][2]>>
             /\ emitted' = [emitted EXCEPT ![queue[n][1]] = queue[n][2]]
    BY <1>2, EmittedQuote
  <2>2. ASSUME NEW i \in 1 .. n - 1
        PROVE  /\ i \in 1 .. n /\ queue'[i] = queue[i] /\ queue[i][1] \in Quoted
               /\ emitted'[queue[i][1]] = emitted[queue[i][1]]
    <3>1. i \in 1 .. n /\ queue'[i] = queue[i] /\ queue[i][1] # queue[n][1]
      BY <2>1
    <3> QED
      BY <2>1, <3>1 DEF MarketTyped, TapeTyped
  <2>3. UNCHANGED astray
    BY <1>2 DEF Emits
  <2> QED
    BY <2>1, <2>2, <2>3 DEF QueuedOnce
<1>3. CASE ~Polls /\ ~Emits
  BY <1>3, TapeKept, AstrayStays DEF QueuedOnce, tape
<1> QED
  BY <1>1, <1>2, <1>3

------------------------------------------------------------------------------
(* Quotes: the history of a symbol *)

Followings(s, h, g) ==
    History(s, h) /\ CacheFollows(s, h) /\ LastPolled(s, g) /\ GivenBefore(s, h, g)

LEMMA FollowedFrom ==
    ASSUME NEW s, NEW h, NEW g \in Priced, Followings(s, h, g)'
    PROVE  Followed(s)'
  BY DEF Followed, Followings, History

LEMMA TotalNatural ==
    ASSUME NEW q \in Stamped
    PROVE  Total(q) \in Nat
  BY DEF Total, Stamped

LEMMA FollowedHas ==
    ASSUME MarketInv, NEW s \in Quoted
    PROVE  \E h : \E g \in Priced : Followings(s, h, g)
  BY DEF MarketInv, Followed, Followings

LEMMA HistoryTypes ==
    ASSUME NEW s, NEW h, History(s, h), Len(inbound) \in Nat
    PROVE  /\ \A i \in 0 .. Len(inbound) :
                /\ h[i] \in Stamped
                /\ h[i].bid \in Nat /\ h[i].ask \in Nat /\ h[i].time \in Nat /\ h[i].since \in Nat
                /\ Total(h[i]) \in Nat /\ Total(h[0]) <= Total(h[i])
           /\ h[Len(inbound)] = price[s]
<1>1. \A i \in 0 .. Len(inbound) : h[i] \in Stamped
  BY DEF History
<1>2. ASSUME NEW i \in 0 .. Len(inbound)
      PROVE  Total(h[i]) \in Nat
  BY <1>1, TotalNatural
<1>3. ASSUME NEW i \in 0 .. Len(inbound)
      PROVE  Total(h[0]) <= Total(h[i])
  <2>1. 0 \in 0 .. Len(inbound) /\ 0 <= i
    OBVIOUS
  <2>2. h[0] = h[i] \/ Total(h[0]) < Total(h[i])
    BY <2>1 DEF History
  <2> QED
    BY <1>2, <2>1, <2>2
<1>4. \A i \in 0 .. Len(inbound) :
        h[i].bid \in Nat /\ h[i].ask \in Nat /\ h[i].time \in Nat /\ h[i].since \in Nat
  BY <1>1 DEF Stamped
<1> QED
  BY <1>1, <1>2, <1>3, <1>4 DEF History

\* A frame taken: what was first is forgotten.
LEMMA TakenHistory ==
    ASSUME MarketTyped, ReadFrame, NEW s, NEW h, History(s, h)
    PROVE  \E k : History(s, k)' /\ \A i \in 0 .. Len(inbound') : k[i] = h[i + 1]
<1> DEFINE n == Len(inbound)
<1>0. PICK k : k = [i \in 0 .. Len(inbound') |-> h[i + 1]]
  OBVIOUS
<1>1. n \in Nat \ {0} /\ Len(inbound') = n - 1 /\ \A i \in 1 .. n - 1 : inbound'[i] = inbound[i + 1]
  BY TakenFrame
<1>2. UNCHANGED <<price, moment>>
  BY DEF ReadFrame, broker
<1>3. ASSUME NEW i \in 0 .. n - 1
      PROVE  i + 1 \in 0 .. n /\ i + 1 \in 1 .. n /\ k[i] = h[i + 1]
  BY <1>0, <1>1
<1>4. k \in [0 .. n - 1 -> Stamped]
  BY <1>0, <1>1, <1>3 DEF History
<1>5. k[n - 1] = price[s]
  <2>1. n - 1 \in 0 .. n - 1 /\ n - 1 + 1 = n
    BY <1>1
  <2> QED
    BY <1>3, <2>1 DEF History
<1>6. ASSUME NEW i \in 1 .. n - 1
      PROVE  Tells(s, k[i - 1], inbound'[i], k[i])
  <2>1. i - 1 \in 0 .. n - 1 /\ i \in 0 .. n - 1 /\ i - 1 + 1 = i /\ i + 1 - 1 = i /\ i + 1 \in 1 .. n
    BY <1>1
  <2>2. k[i - 1] = h[i] /\ k[i] = h[i + 1] /\ inbound'[i] = inbound[i + 1]
    BY <1>1, <1>3, <2>1
  <2>3. Tells(s, h[i + 1 - 1], inbound[i + 1], h[i + 1])
    BY <2>1 DEF History
  <2> QED
    BY <2>1, <2>2, <2>3
<1>7. ASSUME NEW i \in 0 .. n - 1, NEW j \in 0 .. n - 1, i <= j
      PROVE  k[i] = k[j] \/ Total(k[i]) < Total(k[j])
  <2>1. i + 1 \in 0 .. n /\ j + 1 \in 0 .. n /\ i + 1 <= j + 1
    BY <1>1, <1>7
  <2>2. k[i] = h[i + 1] /\ k[j] = h[j + 1]
    BY <1>3
  <2> QED
    BY <2>1, <2>2 DEF History
<1>8. ASSUME NEW i \in 0 .. n - 1
      PROVE  k[i].since <= moment
  BY <1>3 DEF History
<1>9. /\ k \in [0 .. Len(inbound') -> Stamped]
      /\ k[Len(inbound')] = price'[s]
      /\ \A i \in 1 .. Len(inbound') : Tells(s, k[i - 1], inbound'[i], k[i])
      /\ \A i, j \in 0 .. Len(inbound') : i <= j => k[i] = k[j] \/ Total(k[i]) < Total(k[j])
      /\ \A i \in 0 .. Len(inbound') : k[i].since <= moment'
  BY <1>1, <1>2, <1>4, <1>5, <1>6, <1>7, <1>8
<1> QED
  BY <1>1, <1>3, <1>9 DEF History

\* A frame sent: it tells the price from now on.
LEMMA SentHistory ==
    ASSUME MarketTyped, NEW s \in Quoted, NEW h, History(s, h),
           NEW kind, NEW r, NEW q, Arriving(kind, r, q),
           Tells(s, price[s], [kind |-> kind, name |-> r, quote |-> q, since |-> price'[r].since], price'[s]),
           price'[s] = price[s] \/ Total(price[s]) < Total(price'[s]),
           price'[s] \in Stamped,
           price'[s].since <= moment, moment' = moment
    PROVE  \E k : /\ History(s, k)' /\ k[0] = h[0]
                  /\ k[Len(inbound) + 1] = price'[s]
                  /\ \A i \in 0 .. Len(inbound) : k[i] = h[i]
<1> DEFINE n == Len(inbound)
<1>0. PICK k : k = [i \in 0 .. n + 1 |-> IF i <= n THEN h[i] ELSE price'[s]]
  OBVIOUS
<1>1. /\ n \in Nat /\ Len(inbound') = n + 1
      /\ \A i \in 1 .. n : inbound'[i] = inbound[i]
      /\ inbound'[n + 1] = [kind |-> kind, name |-> r, quote |-> q, since |-> price'[r].since]
  BY SentFrame
<1>2. ASSUME NEW i \in 0 .. n
      PROVE  k[i] = h[i] /\ h[i] \in Stamped
  <2>1. i \in 0 .. n + 1 /\ i <= n
    BY <1>1
  <2>2. k[i] = h[i]
    BY <1>0, <2>1
  <2> QED
    BY <2>2 DEF History
<1>3. k[n + 1] = price'[s] /\ h[n] = price[s]
  BY <1>0, <1>1 DEF History
<1>4. k \in [0 .. n + 1 -> Stamped]
  <2>1. ASSUME NEW i \in 0 .. n + 1
        PROVE  (IF i <= n THEN h[i] ELSE price'[s]) \in Stamped
    <3>1. CASE i \in 0 .. n
      BY <1>2, <3>1
    <3>2. CASE i = n + 1
      BY <1>1, <3>2
    <3> QED
      BY <1>1, <3>1, <3>2
  <2> QED
    BY <1>0, <2>1
<1>5. ASSUME NEW i \in 1 .. n + 1
      PROVE  Tells(s, k[i - 1], inbound'[i], k[i])
  <2>1. CASE i = n + 1
    <3>1. i - 1 = n /\ n \in 0 .. n
      BY <1>1, <2>1
    <3>2. k[i - 1] = price[s] /\ k[i] = price'[s]
      BY <1>2, <1>3, <2>1, <3>1
    <3> QED
      BY <1>1, <2>1, <3>2
  <2>2. CASE i \in 1 .. n
    <3>1. i - 1 \in 0 .. n /\ i \in 0 .. n
      BY <1>1, <2>2
    <3>2. k[i - 1] = h[i - 1] /\ k[i] = h[i] /\ inbound'[i] = inbound[i]
      BY <1>1, <1>2, <2>2, <3>1
    <3> QED
      BY <2>2, <3>2 DEF History
  <2> QED
    BY <1>1, <2>1, <2>2
<1>6. ASSUME NEW i \in 0 .. n + 1, NEW j \in 0 .. n + 1, i <= j
      PROVE  k[i] = k[j] \/ Total(k[i]) < Total(k[j])
  <2>1. CASE j \in 0 .. n
    <3>1. i \in 0 .. n
      BY <1>1, <1>6, <2>1
    <3> QED
      BY <1>2, <1>6, <2>1, <3>1 DEF History
  <2>2. CASE j = n + 1 /\ i \in 0 .. n
    <3>1. n \in 0 .. n /\ i <= n
      BY <1>1, <2>2
    <3>2. h[i] = price[s] \/ Total(h[i]) < Total(price[s])
      BY <1>3, <2>2, <3>1 DEF History
    <3>3. Total(h[i]) \in Nat /\ Total(price[s]) \in Nat /\ Total(price'[s]) \in Nat
      <4>1. /\ h[i] \in Stamped
            /\ price[s] \in Stamped
        BY <1>2, <1>3, <2>2, <3>1
      <4> QED
        BY <4>1, TotalNatural
    <3>4. k[i] = h[i] /\ k[j] = price'[s]
      BY <1>2, <1>3, <2>2
    <3> QED
      BY <3>2, <3>3, <3>4
  <2>3. CASE j = n + 1 /\ i = n + 1
    BY <2>3
  <2> QED
    BY <1>1, <1>6, <2>1, <2>2, <2>3
<1>7. ASSUME NEW i \in 0 .. n + 1
      PROVE  k[i].since <= moment
  <2>1. CASE i \in 0 .. n
    BY <1>2, <2>1 DEF History
  <2>2. CASE i = n + 1
    BY <1>3, <2>2
  <2> QED
    BY <1>1, <2>1, <2>2
<1>8. /\ k \in [0 .. Len(inbound') -> Stamped]
      /\ k[Len(inbound')] = price'[s]
      /\ \A i \in 1 .. Len(inbound') : Tells(s, k[i - 1], inbound'[i], k[i])
      /\ \A i, j \in 0 .. Len(inbound') : i <= j => k[i] = k[j] \/ Total(k[i]) < Total(k[j])
      /\ \A i \in 0 .. Len(inbound') : k[i].since <= moment'
  BY <1>1, <1>3, <1>4, <1>5, <1>6, <1>7
<1>9. History(s, k)'
  BY <1>8 DEF History
<1>10. k[0] = h[0]
  BY <1>1, <1>2
<1> QED
  BY <1>2, <1>3, <1>9, <1>10

\* Nothing of this symbol is on its way: the history is the price.
LEMMA QuietHistory ==
    ASSUME MarketTyped', NEW s \in Quoted, price'[s].since <= moment',
           \A i \in 1 .. Len(inbound') : inbound'[i].name # s
    PROVE  \E k : History(s, k)' /\ \A i \in 0 .. Len(inbound') : k[i] = price'[s]
<1>0. PICK k : k = [i \in 0 .. Len(inbound') |-> price'[s]]
  OBVIOUS
<1>1. Len(inbound') \in Nat /\ price'[s] \in Stamped
  BY DEF MarketTyped, BrokerTyped, SocketTyped
<1>2. \A i \in 0 .. Len(inbound') : k[i] = price'[s]
  BY <1>0
<1>3. ASSUME NEW i \in 1 .. Len(inbound')
      PROVE  Tells(s, k[i - 1], inbound'[i], k[i])
  <2>1. i - 1 \in 0 .. Len(inbound') /\ i \in 0 .. Len(inbound')
    BY <1>1
  <2> QED
    BY <1>2, <2>1 DEF Tells
<1>4. /\ k \in [0 .. Len(inbound') -> Stamped]
      /\ k[Len(inbound')] = price'[s]
      /\ \A i \in 1 .. Len(inbound') : Tells(s, k[i - 1], inbound'[i], k[i])
      /\ \A i, j \in 0 .. Len(inbound') : i <= j => k[i] = k[j] \/ Total(k[i]) < Total(k[j])
      /\ \A i \in 0 .. Len(inbound') : k[i].since <= moment'
  BY <1>0, <1>1, <1>2, <1>3
<1>5. History(s, k)'
  BY <1>4 DEF History
<1> QED
  BY <1>2, <1>5

------------------------------------------------------------------------------
(* Quotes: every step follows the market *)

\* What the broker and the client do apart from frames: the history stays.
LEMMA FollowedKept ==
    ASSUME MarketInv, MarketTyped', NEW s \in Quoted,
           UNCHANGED <<inbound, seenAt, queue, emitted, astray>>, price'[s] = price[s],
           moment <= moment', up' => UNCHANGED <<up, quotes>> \/ None(quotes'[s])
    PROVE  Followed(s)'
<1>0. PICK h : \E g \in Priced : Followings(s, h, g)
  BY FollowedHas
<1>1. PICK g \in Priced : Followings(s, h, g)
  BY <1>0
<1>2. moment \in Nat /\ moment' \in Nat /\ Len(inbound) \in Nat
  BY DEF MarketInv, MarketTyped, BrokerTyped, SocketTyped
<1>3. History(s, h) /\ CacheFollows(s, h) /\ LastPolled(s, g) /\ GivenBefore(s, h, g)
  BY <1>1 DEF Followings
<1>4. \A i \in 0 .. Len(inbound) : h[i].since <= moment'
  <2>1. \A i \in 0 .. Len(inbound) : h[i].since \in Nat
    BY <1>2, <1>3, HistoryTypes
  <2>2. \A i \in 0 .. Len(inbound) : h[i].since <= moment
    BY <1>3 DEF History
  <2> QED
    BY <1>2, <2>1, <2>2
<1>5. History(s, h)'
  BY <1>3, <1>4 DEF History
<1>6. LastPolled(s, g)'
  BY <1>3 DEF LastPolled
<1>7. ~Whole(Nothing)
  BY DEF Whole, Nothing
<1>8. CacheFollows(s, h)'
  BY <1>3 DEF CacheFollows
<1>9. GivenBefore(s, h, g)'
  BY <1>3, <1>7 DEF GivenBefore, None
<1> QED
  BY <1>5, <1>6, <1>8, <1>9, FollowedFrom DEF Followings

\* The last price of a history is the price: what was given is no newer than it.
LEMMA GivenIsPrice ==
    ASSUME MarketTyped, NEW s \in Quoted, NEW h, NEW g \in Priced, Followings(s, h, g)
    PROVE  /\ Total(g) \in Nat /\ Total(price[s]) \in Nat /\ Total(g) <= Total(price[s])
           /\ price[s].since <= moment
           /\ ~astray /\ SamePrice(g, price[s]) /\ InTime(price[s]) => price[s].time <= seenAt[s]
<1>1. Len(inbound) \in Nat /\ Len(inbound) \in 0 .. Len(inbound) /\ 0 \in 0 .. Len(inbound)
  BY DEF MarketTyped, SocketTyped
<1>2. History(s, h) /\ GivenBefore(s, h, g)
  BY DEF Followings
<1>3. Total(g) \in Nat
  BY DEF Total, Priced
<1>4. h[Len(inbound)] = price[s]
  BY <1>2 DEF History
<1>5. Total(h[0]) \in Nat /\ Total(price[s]) \in Nat /\ Total(h[0]) <= Total(price[s])
  BY <1>1, <1>2, <1>4, HistoryTypes
<1>6. Total(g) <= Total(price[s])
  BY <1>2, <1>3, <1>5 DEF GivenBefore
<1>7. price[s].since <= moment
  BY <1>1, <1>2, <1>4 DEF History
<1>8. ~astray /\ SamePrice(g, price[s]) /\ InTime(price[s]) => price[s].time <= seenAt[s]
  BY <1>1, <1>2, <1>4 DEF GivenBefore
<1> QED
  BY <1>3, <1>5, <1>6, <1>7, <1>8

\* Nothing of it is on its way, nor cached: the price starts a new history.
LEMMA FollowedAnew ==
    ASSUME MarketInv, MarketTyped', NEW s \in Quoted,
           \A i \in 1 .. Len(inbound') : inbound'[i].name # s,
           UNCHANGED <<seenAt, queue, emitted, astray, moment>>,
           price'[s].since <= moment,
           price'[s] = price[s] \/ Total(price[s]) < Total(price'[s]),
           up' => None(quotes'[s])
    PROVE  Followed(s)'
<1>0. PICK h : \E g \in Priced : Followings(s, h, g)
  BY FollowedHas
<1>1. PICK g \in Priced : Followings(s, h, g)
  BY <1>0
<1>2. /\ Total(g) \in Nat /\ Total(price[s]) \in Nat /\ Total(g) <= Total(price[s])
      /\ ~astray /\ SamePrice(g, price[s]) /\ InTime(price[s]) => price[s].time <= seenAt[s]
  BY <1>1, GivenIsPrice DEF MarketInv
<1>3. PICK k : History(s, k)' /\ \A i \in 0 .. Len(inbound') : k[i] = price'[s]
  BY QuietHistory
<1>4. CacheFollows(s, k)'
  BY DEF CacheFollows
<1>5. LastPolled(s, g)'
  BY <1>1 DEF LastPolled, Followings
<1>6. Total(price'[s]) \in Nat
  BY TotalNatural DEF MarketTyped, BrokerTyped
<1>7. SamePrice(g, price'[s]) => Total(g) = Total(price'[s])
  BY DEF SamePrice, Total
<1>8. Total(g) <= Total(k[0])
  <2>1. 0 \in 0 .. Len(inbound')
    BY DEF MarketTyped, SocketTyped
  <2>2. k[0] = price'[s]
    BY <1>3, <2>1
  <2> QED
    BY <1>2, <1>6, <2>2
<1>9. ~astray /\ SamePrice(g, price'[s]) /\ InTime(price'[s]) => price'[s].time <= seenAt[s]
  <2>1. CASE price'[s] = price[s]
    BY <1>2, <2>1
  <2>2. CASE Total(price[s]) < Total(price'[s])
    BY <1>2, <1>6, <1>7, <2>2
  <2> QED
    BY <2>1, <2>2
<1>10. ASSUME ~astray, NEW i \in 0 .. Len(inbound'), SamePrice(g, k[i]), InTime(k[i])
       PROVE  k[i].time <= seenAt[s]
  BY <1>3, <1>9, <1>10
<1>11. ~(up' /\ Whole(quotes'[s]))
  BY DEF None, Whole, Nothing
<1>12. GivenBefore(s, k, g)'
  BY <1>8, <1>10, <1>11 DEF GivenBefore
<1> QED
  BY <1>3, <1>4, <1>5, <1>12, FollowedFrom DEF Followings

\* A frame is sent, of this symbol or of another.
LEMMA FollowedSent ==
    ASSUME MarketInv, MarketTyped', NEW s \in Quoted, NEW kind, NEW r, NEW q,
           Arriving(kind, r, q),
           UNCHANGED <<seenAt, queue, emitted, astray, moment, up, quotes>>,
           price'[s].since <= moment,
           Tells(s, price[s], [kind |-> kind, name |-> r, quote |-> q, since |-> price'[r].since], price'[s]),
           price'[s] = price[s] \/ Total(price[s]) < Total(price'[s])
    PROVE  Followed(s)'
<1>0. PICK h : \E g \in Priced : Followings(s, h, g)
  BY FollowedHas
<1>1. PICK g \in Priced : Followings(s, h, g)
  BY <1>0
<1>2. /\ Total(g) \in Nat /\ Total(price[s]) \in Nat /\ Total(g) <= Total(price[s])
      /\ ~astray /\ SamePrice(g, price[s]) /\ InTime(price[s]) => price[s].time <= seenAt[s]
  BY <1>1, GivenIsPrice DEF MarketInv
<1>3. MarketTyped /\ History(s, h) /\ price'[s] \in Stamped
  BY <1>1 DEF MarketInv, Followings, MarketTyped, BrokerTyped
<1>4. PICK k : /\ History(s, k)' /\ k[0] = h[0]
               /\ k[Len(inbound) + 1] = price'[s]
               /\ \A i \in 0 .. Len(inbound) : k[i] = h[i]
  BY <1>3, SentHistory
<1>5. CacheFollows(s, k)'
  BY <1>1, <1>4 DEF CacheFollows, Followings
<1>6. LastPolled(s, g)'
  BY <1>1 DEF LastPolled, Followings
<1>7. ~astray /\ SamePrice(g, price'[s]) /\ InTime(price'[s]) => price'[s].time <= seenAt[s]
  <2>1. CASE price'[s] = price[s]
    BY <1>2, <2>1
  <2>2. CASE Total(price[s]) < Total(price'[s])
    <3>1. Total(price'[s]) \in Nat
      BY <1>3, TotalNatural
    <3>2. SamePrice(g, price'[s]) => Total(g) = Total(price'[s])
      BY DEF SamePrice, Total
    <3> QED
      BY <1>2, <2>2, <3>1, <3>2
  <2> QED
    BY <2>1, <2>2
<1>8. GivenBefore(s, h, g)
  BY <1>1 DEF Followings
<1>9. Len(inbound) \in Nat /\ Len(inbound') = Len(inbound) + 1
  BY <1>3, SentFrame
<1>10. ASSUME ~astray, NEW i \in 0 .. Len(inbound'), SamePrice(g, k[i]), InTime(k[i])
       PROVE  k[i].time <= seenAt[s]
  <2>1. CASE i \in 0 .. Len(inbound)
    BY <1>4, <1>8, <1>10, <2>1 DEF GivenBefore
  <2>2. CASE i = Len(inbound) + 1
    BY <1>4, <1>7, <1>10, <2>2
  <2> QED
    BY <1>9, <2>1, <2>2
<1>11. GivenBefore(s, k, g)'
  BY <1>4, <1>8, <1>10 DEF GivenBefore
<1> QED
  BY <1>4, <1>5, <1>6, <1>11, FollowedFrom DEF Followings

\* A frame is read.
LEMMA FollowedRead ==
    ASSUME MarketInv, MarketTyped', NEW s \in Quoted, ReadFrame
    PROVE  Followed(s)'
<1>0. PICK h : \E g \in Priced : Followings(s, h, g)
  BY FollowedHas
<1>1. PICK g \in Priced : Followings(s, h, g)
  BY <1>0
<1>2. /\ MarketTyped /\ History(s, h) /\ CacheFollows(s, h)
      /\ LastPolled(s, g) /\ GivenBefore(s, h, g)
  BY <1>1 DEF MarketInv, Followings
<1>3. PICK k : History(s, k)' /\ \A i \in 0 .. Len(inbound') : k[i] = h[i + 1]
  BY <1>2, TakenHistory
<1>4. Len(inbound) \in Nat \ {0} /\ Len(inbound') = Len(inbound) - 1
  BY <1>2, TakenFrame
<1>5. k[0] = h[1] /\ 0 \in 0 .. Len(inbound) /\ 1 \in 0 .. Len(inbound) /\ 1 \in 1 .. Len(inbound)
  BY <1>3, <1>4
<1> DEFINE f == inbound[1]
<1>6. f = Head(inbound) /\ f \in QuoteFrames
  BY <1>2, TakenFrame
<1>7. Tells(s, h[0], f, h[1])
  <2>1. 1 - 1 = 0
    OBVIOUS
  <2> QED
    BY <1>2, <1>5, <2>1 DEF History
<1>8. up /\ UNCHANGED <<price, moment, up, zone, seenAt, queue, emitted>>
  BY DEF ReadFrame, broker, tape
<1>9. /\ f.name \in Quoted /\ f.quote \in Priced
      /\ f.quote.bid \in Nat /\ f.quote.ask \in Nat /\ f.quote.time \in Int
  BY <1>6 DEF QuoteFrames, Priced
<1>10. /\ quotes \in [Quoted -> Priced] /\ quotes[s] \in Priced /\ quotes[s].bid \in Nat
       /\ quotes[s].ask \in Nat /\ quotes[s].time \in Int /\ seenAt[s] \in Int
       /\ zone \in Int /\ Zone \in Int /\ moment \in Nat
  <2>1. quotes \in [Quoted -> Priced] /\ seenAt[s] \in Int /\ moment \in Nat
    BY <1>2 DEF MarketTyped, CacheTyped, TapeTyped, BrokerTyped
  <2>2. zone \in Int /\ Zone \in Int
    BY <1>2, MarketAssumption DEF MarketTyped, CacheTyped
  <2>3. quotes[s] \in Priced
    BY <2>1
  <2> QED
    BY <2>1, <2>2, <2>3 DEF Priced
<1>11. /\ h[0].bid \in Nat /\ h[0].ask \in Nat /\ h[0].time \in Nat /\ Total(h[0]) \in Nat
       /\ h[1].bid \in Nat /\ h[1].ask \in Nat /\ h[1].time \in Nat /\ Total(h[1]) \in Nat
       /\ h[1].since \in Nat /\ h[1].since <= moment /\ Total(h[0]) <= Total(h[1])
  BY <1>2, <1>4, <1>5, HistoryTypes DEF History
<1>12. Total(g) \in Nat /\ Total(g) <= Total(h[0])
  BY <1>2 DEF GivenBefore, Total, Priced
<1>13. astray => astray'
  BY <1>2, AstrayStays DEF MarketNext
<1> HIDE DEF f
\* What is cached follows the first frame.
<1>14. /\ CacheFollows(s, k)'
       /\ ~astray' /\ Whole(quotes'[s]) /\ SamePrice(g, quotes'[s])
          => quotes'[s].time <= seenAt[s]
  <2> DEFINE Cached(q) == /\ Whole(q) /\ SamePrice(q, h[1])
                          /\ ~astray' /\ InTime(h[1]) => h[1].time <= q.time
             Old(q) == ~astray' /\ SamePrice(g, q) => q.time <= seenAt[s]
  <2>1. SUFFICES ~None(quotes'[s]) => Cached(quotes'[s]) /\ Old(quotes'[s])
    <3>1. ~Whole(Nothing)
      BY DEF Whole, Nothing
    <3> QED
      BY <1>5, <1>8, <3>1 DEF CacheFollows, None
  <2>2. ~None(quotes[s]) /\ h[1] = h[0] => Cached(quotes[s]) /\ Old(quotes[s])
    BY <1>2, <1>8, <1>13 DEF CacheFollows, GivenBefore
  <2>3. CASE f.kind = "quotes"
    <3>1. ReadQuotes(f.name, f.quote)
      BY <1>6, <2>3 DEF ReadFrame
    <3>2. CASE f.name # s
      <4>1. h[1] = h[0]
        BY <1>7, <3>2 DEF Tells
      <4>2. quotes'[s] = quotes[s]
        BY <1>9, <1>10, <3>1, <3>2 DEF ReadQuotes
      <4> QED
        BY <2>2, <4>1, <4>2
    <3>3. CASE f.name = s
      <4>1. /\ Total(h[0]) < Total(h[1])
            /\ h[1].bid = (IF f.quote.bid > 0 THEN f.quote.bid ELSE h[0].bid)
            /\ h[1].ask = (IF f.quote.ask > 0 THEN f.quote.ask ELSE h[0].ask)
        BY <1>7, <2>3, <3>3 DEF Tells
      <4> DEFINE m == Merged(s, f.quote)
      <4>2. /\ m.bid = (IF f.quote.bid > 0 THEN f.quote.bid ELSE quotes[s].bid)
            /\ m.ask = (IF f.quote.ask > 0 THEN f.quote.ask ELSE quotes[s].ask)
            /\ m.time = moment
        BY DEF Merged
      <4>3. quotes'[s] = IF Whole(m) THEN m ELSE quotes[s]
        BY <1>10, <3>1, <3>3 DEF ReadQuotes
      <4> HIDE DEF m
      <4>4. None(quotes[s]) => quotes[s].bid = 0 /\ quotes[s].ask = 0
        BY DEF None, Nothing
      <4>5. ~None(quotes[s]) => Whole(quotes[s]) /\ SamePrice(quotes[s], h[0])
        BY <1>2, <1>8 DEF CacheFollows
      <4>6. CASE Whole(m)
        <5>1. SamePrice(m, h[1])
          <6>1. CASE None(quotes[s])
            BY <1>9, <4>1, <4>2, <4>4, <4>6, <6>1 DEF Whole, SamePrice
          <6>2. CASE ~None(quotes[s])
            BY <1>9, <4>1, <4>2, <4>5, <6>2 DEF SamePrice
          <6> QED
            BY <6>1, <6>2
        <5>2. Total(m) = Total(h[1])
          BY <5>1 DEF SamePrice, Total
        <5>3. ~SamePrice(g, m)
          <6>1. SamePrice(g, m) => Total(g) = Total(m)
            BY DEF SamePrice, Total
          <6> QED
            BY <1>11, <1>12, <4>1, <5>2, <6>1
        <5>4. InTime(h[1]) => h[1].time <= m.time
          BY <1>10, <1>11, <4>2 DEF InTime
        <5> QED
          BY <4>3, <4>6, <5>1, <5>3, <5>4
      <4>7. CASE ~Whole(m)
        <5>1. None(quotes[s])
          BY <1>9, <4>2, <4>5, <4>7 DEF Whole
        <5> QED
          BY <4>3, <4>7, <5>1
      <4> QED
        BY <4>6, <4>7
    <3> QED
      BY <3>2, <3>3
  <2>4. CASE f.kind # "quotes"
    <3>1. ReadStats(f.name, f.quote, f.since)
      BY <1>6, <2>4 DEF ReadFrame
    <3>2. f.kind = "stats"
      BY <1>6, <2>4 DEF QuoteFrames
    <3>3. h[1] = h[0]
      BY <1>7, <3>2 DEF Tells
    <3>4. CASE quotes'[s] = quotes[s]
      BY <2>2, <3>3, <3>4
    <3>5. CASE f.name = s /\ Whole(f.quote) /\ None(quotes[s])
      <4>1. /\ quotes' = [quotes EXCEPT ![s] = [f.quote EXCEPT !.time = f.quote.time - zone]]
            /\ astray' = (astray \/ zone # Zone \/ f.quote.time - Zone > f.since)
        BY <3>1, <3>5 DEF ReadStats
      <4>2. SamePrice(f.quote, h[1]) /\ f.quote.time = h[1].time + Zone
            /\ f.since = h[1].since
        BY <1>7, <3>2, <3>5 DEF Tells
      <4>3. quotes'[s] = [f.quote EXCEPT !.time = f.quote.time - zone]
        BY <1>10, <4>1
      <4>4. /\ quotes'[s].bid = f.quote.bid /\ quotes'[s].ask = f.quote.ask
            /\ quotes'[s].time = f.quote.time - zone
        BY <1>9, <4>3 DEF Priced
      <4>5. Whole(quotes'[s]) /\ SamePrice(quotes'[s], h[1])
        BY <3>5, <4>2, <4>4 DEF Whole, SamePrice
      <4>6. ~astray' => quotes'[s].time = h[1].time /\ ~astray /\ InTime(h[1])
        <5>1. ~astray' => zone = Zone /\ ~astray /\ ~(f.quote.time - Zone > f.since)
          BY <4>1
        <5> QED
          BY <1>10, <1>11, <4>2, <4>4, <5>1 DEF InTime
      <4>7. ~astray /\ SamePrice(g, h[0]) /\ InTime(h[0]) => h[0].time <= seenAt[s]
        BY <1>2, <1>5 DEF GivenBefore
      <4>8. SamePrice(g, quotes'[s]) => SamePrice(g, h[0])
        BY <3>3, <4>5 DEF SamePrice
      <4> QED
        BY <1>11, <3>3, <4>5, <4>6, <4>7, <4>8
    <3> QED
      BY <1>10, <3>1, <3>4, <3>5 DEF ReadStats
  <2> QED
    BY <2>3, <2>4
<1>15. LastPolled(s, g)'
  BY <1>2, <1>8 DEF LastPolled
<1>16. Total(g) <= Total(k[0])
  BY <1>5, <1>11, <1>12
<1>17. ASSUME ~astray', NEW i \in 0 .. Len(inbound'), SamePrice(g, k[i]), InTime(k[i])
       PROVE  k[i].time <= seenAt[s]
  <2>1. i + 1 \in 0 .. Len(inbound) /\ k[i] = h[i + 1]
    BY <1>3, <1>4
  <2> QED
    BY <1>2, <1>13, <1>17, <2>1 DEF GivenBefore
<1>18. GivenBefore(s, k, g)'
  BY <1>8, <1>14, <1>16, <1>17 DEF GivenBefore
<1> QED
  BY <1>3, <1>14, <1>15, <1>18, FollowedFrom DEF Followings

\* The cache is polled: what is fresh takes the place of what was given.
LEMMA FollowedPolled ==
    ASSUME MarketInv, MarketTyped', NEW s \in Quoted, Polls
    PROVE  Followed(s)'
<1>0. PICK h : \E g \in Priced : Followings(s, h, g)
  BY FollowedHas
<1>1. PICK g \in Priced : Followings(s, h, g)
  BY <1>0
<1>2. /\ MarketTyped /\ History(s, h) /\ CacheFollows(s, h)
      /\ LastPolled(s, g) /\ GivenBefore(s, h, g)
  BY <1>1 DEF MarketInv, Followings
<1>3. /\ UNCHANGED <<price, moment, up, inbound, quotes, zone, emitted, astray>>
      /\ up /\ queue = <<>>
      /\ seenAt' = [r \in Quoted |-> IF Fresh(r) THEN quotes[r].time ELSE seenAt[r]]
  BY DEF Polls, broker, socket
<1>4. History(s, h)' /\ CacheFollows(s, h)'
  BY <1>2, <1>3 DEF History, CacheFollows
<1>5. g = emitted[s]
  BY <1>2, <1>3 DEF LastPolled
<1>6. quotes[s] \in Priced /\ quotes[s].time \in Int /\ seenAt[s] \in Int
  BY <1>2 DEF MarketTyped, CacheTyped, TapeTyped, Priced
<1>7. Len(inbound) \in Nat
  BY <1>2 DEF MarketTyped, SocketTyped
<1>8. CASE \A i \in 1 .. Len(queue') : queue'[i][1] # s
  <2>1. LastPolled(s, g)'
    BY <1>3, <1>5, <1>8 DEF LastPolled
  <2>2. seenAt[s] <= seenAt'[s]
    BY <1>3, <1>6 DEF Fresh
  <2>3. ASSUME ~astray, NEW i \in 0 .. Len(inbound), SamePrice(g, h[i]), InTime(h[i])
        PROVE  h[i].time <= seenAt'[s]
    <3>1. h[i].time <= seenAt[s] /\ h[i].time \in Int
      BY <1>2, <1>7, <2>3, HistoryTypes DEF GivenBefore
    <3>2. seenAt'[s] \in Int
      BY DEF MarketTyped, TapeTyped
    <3> QED
      BY <1>6, <2>2, <3>1, <3>2
  <2>4. ~astray /\ Whole(quotes[s]) /\ SamePrice(g, quotes[s]) => quotes[s].time <= seenAt'[s]
    BY <1>3, <1>6 DEF Fresh
  <2>5. GivenBefore(s, h, g)'
    BY <1>2, <1>3, <2>3, <2>4 DEF GivenBefore
  <2> QED
    BY <1>4, <2>1, <2>5, FollowedFrom DEF Followings
<1>9. CASE \E i \in 1 .. Len(queue') : queue'[i][1] = s
  <2>1. PICK i \in 1 .. Len(queue') : queue'[i][1] = s
    BY <1>9
  <2>2. /\ queue' \in Seq(Quoted \X Priced)
        /\ Fresh(queue'[i][1]) /\ queue'[i][2] = quotes[queue'[i][1]]
    BY <1>2, PolledQueue
  <2>3. PICK q : q = quotes[s]
    OBVIOUS
  <2>4. q \in Priced /\ Whole(q) /\ Fresh(s)
    BY <1>6, <2>1, <2>2, <2>3 DEF Fresh
  <2>5. queue'[i] = <<s, q>>
    <3>1. queue'[i] \in Quoted \X Priced
      BY <2>2
    <3> QED
      BY <2>1, <2>2, <2>3, <3>1
  <2>6. LastPolled(s, q)'
    BY <2>5 DEF LastPolled
  <2>7. ~None(q)
    BY <2>4 DEF Whole, None, Nothing
  <2>8. SamePrice(q, h[0]) /\ (~astray /\ InTime(h[0]) => h[0].time <= q.time)
    BY <1>2, <1>3, <2>3, <2>7 DEF CacheFollows
  <2>9. seenAt'[s] = q.time
    BY <1>3, <2>3, <2>4
  <2>10. Total(q) = Total(h[0]) /\ Total(h[0]) \in Nat
    BY <1>2, <1>7, <2>8, HistoryTypes DEF Total, SamePrice
  <2>11. ASSUME ~astray, NEW j \in 0 .. Len(inbound), SamePrice(q, h[j]), InTime(h[j])
         PROVE  h[j].time <= q.time
    <3>1. Total(h[j]) = Total(h[0])
      BY <2>10, <2>11 DEF Total, SamePrice
    <3>2. 0 \in 0 .. Len(inbound) /\ 0 <= j
      BY <1>7
    <3>3. h[0] = h[j]
      BY <1>2, <2>10, <3>1, <3>2 DEF History
    <3> QED
      BY <2>8, <2>11, <3>3
  <2>12. q.time \in Int /\ Total(q) <= Total(h[0])
    BY <2>4, <2>10 DEF Priced
  <2>13. GivenBefore(s, h, q)'
    BY <1>3, <2>3, <2>9, <2>11, <2>12 DEF GivenBefore
  <2> QED
    BY <1>4, <2>4, <2>6, <2>13, FollowedFrom DEF Followings
<1> QED
  BY <1>8, <1>9

\* The last of the queue is given: it stays what was polled last.
LEMMA FollowedEmitted ==
    ASSUME MarketInv, MarketTyped', NEW s \in Quoted, Emits
    PROVE  Followed(s)'
<1>0. PICK h : \E g \in Priced : Followings(s, h, g)
  BY FollowedHas
<1>1. PICK g \in Priced : Followings(s, h, g)
  BY <1>0
<1>2. /\ MarketTyped /\ QueuedOnce /\ History(s, h) /\ CacheFollows(s, h)
      /\ LastPolled(s, g) /\ GivenBefore(s, h, g)
  BY <1>1 DEF MarketInv, Followings
<1>3. UNCHANGED <<price, moment, up, inbound, quotes, seenAt, astray>>
  BY DEF Emits, broker, socket
<1>4. History(s, h)' /\ CacheFollows(s, h)' /\ GivenBefore(s, h, g)'
  BY <1>2, <1>3 DEF History, CacheFollows, GivenBefore
<1>5. PICK n \in Nat \ {0} :
             /\ Len(queue) = n /\ Len(queue') = n - 1
             /\ \A i \in 1 .. n - 1 : queue'[i] = queue[i] /\ queue[i][1] # queue[n][1]
             /\ \A i \in 1 .. n :
                  queue[i] \in Quoted \X Priced /\ queue[i] = <<queue[i][1], queue[i][2]>>
             /\ emitted' = [emitted EXCEPT ![queue[n][1]] = queue[n][2]]
  BY <1>2, EmittedQuote
<1>6. emitted \in [Quoted -> Priced] /\ n \in 1 .. n
  BY <1>2, <1>5 DEF MarketTyped, TapeTyped
<1>7. CASE queue[n][1] = s
  <2>1. \A i \in 1 .. n - 1 : queue'[i][1] # s
    BY <1>5, <1>7
  <2>2. \A i \in 1 .. n : queue[i][1] = s => i = n
    <3>1. ASSUME NEW i \in 1 .. n, queue[i][1] = s, i # n
          PROVE  FALSE
      <4>1. i \in 1 .. n - 1
        BY <1>5, <3>1
      <4> QED
        BY <1>5, <1>7, <3>1, <4>1
    <3> QED
      BY <3>1
  <2>3. queue[n] = <<s, g>>
    BY <1>2, <1>5, <1>6, <1>7, <2>2 DEF LastPolled
  <2>4. emitted'[s] = g
    BY <1>5, <1>6, <2>3
  <2> QED
    BY <1>4, <1>5, <2>1, <2>4, FollowedFrom DEF Followings, LastPolled
<1>8. CASE queue[n][1] # s
  <2>1. emitted'[s] = emitted[s]
    BY <1>5, <1>6, <1>8
  <2>2. CASE \E i \in 1 .. n : queue[i] = <<s, g>>
    <3>1. PICK i \in 1 .. n : queue[i] = <<s, g>>
      BY <2>2
    <3>2. i # n
      BY <1>8, <3>1
    <3>3. i \in 1 .. n - 1
      BY <1>5, <3>2
    <3>4. LastPolled(s, g)'
      BY <1>5, <3>1, <3>3 DEF LastPolled
    <3> QED
      BY <1>4, <3>4, FollowedFrom DEF Followings
  <2>3. CASE g = emitted[s] /\ \A i \in 1 .. n : queue[i][1] # s
    <3>1. \A i \in 1 .. n - 1 : i \in 1 .. n /\ queue'[i][1] # s
      BY <1>5, <2>3
    <3>2. LastPolled(s, g)'
      BY <1>5, <2>1, <2>3, <3>1 DEF LastPolled
    <3> QED
      BY <1>4, <3>2, FollowedFrom DEF Followings
  <2> QED
    BY <1>2, <1>5, <2>2, <2>3 DEF LastPolled
<1> QED
  BY <1>7, <1>8

LEMMA FollowedInit ==
    ASSUME MarketInit, NEW s \in Quoted
    PROVE  Followed(s)
<1> DEFINE h == [i \in 0 .. 0 |-> Unpriced]
<1>1. /\ Len(inbound) = 0 /\ Len(queue) = 0 /\ h[0] = Unpriced /\ price[s] = Unpriced
      /\ quotes[s] = Nothing /\ emitted[s] = Nothing /\ moment = 1 /\ seenAt[s] = 0 /\ ~up
  BY DEF MarketInit
<1>2. Unpriced.time = 0 /\ Unpriced.since = 0
  BY DEF Unpriced
<1>3. h \in [0 .. 0 -> Stamped]
  BY NothingTyped
<1>4. \A i \in 0 .. 0 : i = 0
  OBVIOUS
<1> HIDE DEF h
<1>5. History(s, h)
  BY <1>1, <1>2, <1>3, <1>4 DEF History
<1>6. CacheFollows(s, h) /\ LastPolled(s, Nothing)
  BY <1>1 DEF CacheFollows, LastPolled
<1>7. Total(Nothing) = 0 /\ Total(Unpriced) = 0
  BY DEF Total, Nothing, Unpriced
<1>8. GivenBefore(s, h, Nothing)
  BY <1>1, <1>2, <1>4, <1>7 DEF GivenBefore
<1>9. h \in [0 .. Len(inbound) -> Stamped] /\ Nothing \in Priced
  BY <1>1, <1>3, NothingTyped
<1> QED
  BY <1>5, <1>6, <1>8, <1>9 DEF Followed

\* The price moves.
LEMMA FollowedMoved ==
    ASSUME MarketInv, Unasked, MarketTyped', NEW s \in Quoted,
           NEW r \in Quoted, NEW b \in 0 .. 1, NEW a \in 0 .. 1, Moves(r, b, a)
    PROVE  Followed(s)'
<1>1. UNCHANGED <<moment, up, quotes, seenAt, queue, emitted, astray>>
  BY DEF Moves, tape
<1>2. /\ b + a > 0
      /\ price' = [price EXCEPT ![r] = [bid |-> price[r].bid + b, ask |-> price[r].ask + a,
                                        time |-> clock, since |-> moment]]
  BY DEF Moves
<1>3. /\ price \in [Quoted -> Stamped] /\ moment \in Nat
      /\ price[s].bid \in Nat /\ price[s].ask \in Nat
  BY DEF MarketInv, MarketTyped, BrokerTyped, Stamped
<1>0. PICK h : \E g \in Priced : Followings(s, h, g)
  BY FollowedHas
<1>4. price[s].since <= moment
  BY <1>0, GivenIsPrice DEF MarketInv
<1>5. r # s => price'[s] = price[s]
  BY <1>2, <1>3
<1>6. r = s => /\ price'[s].bid = price[s].bid + b /\ price'[s].ask = price[s].ask + a
               /\ price'[s].since = moment
  BY <1>2, <1>3
<1>7. r = s => Total(price[s]) < Total(price'[s])
  <2>1. ASSUME r = s
        PROVE  Total(price[s]) < Total(price'[s])
    BY <1>2, <1>3, <1>6, <2>1 DEF Total
  <2> QED
    BY <2>1
<1>8. price'[s].since <= moment
  BY <1>3, <1>4, <1>5, <1>6
<1>9. CASE up /\ r \in asked
  <2> DEFINE q == [bid |-> b * price'[r].bid, ask |-> a * price'[r].ask, time |-> 0]
             f == [kind |-> "quotes", name |-> r, quote |-> q, since |-> price'[r].since]
  <2>1. Arriving("quotes", r, q)
    BY <1>9 DEF Moves
  <2>2. Tells(s, price[s], f, price'[s])
    <3>1. CASE r # s
      BY <1>5, <3>1 DEF Tells
    <3>2. CASE r = s
      <4>1. q.bid = b * price'[s].bid /\ q.ask = a * price'[s].ask
        BY <3>2
      <4>2. (b = 0 \/ b = 1) /\ (a = 0 \/ a = 1)
        OBVIOUS
      <4>3. price'[s].bid \in Nat /\ price'[s].ask \in Nat
        BY <1>3, <1>6, <3>2
      <4>4. price'[s].bid = (IF q.bid > 0 THEN q.bid ELSE price[s].bid)
        <5>1. CASE b = 0
          BY <1>3, <1>6, <3>2, <4>1, <4>3, <5>1
        <5>2. CASE b = 1
          BY <1>3, <1>6, <3>2, <4>1, <4>3, <5>2
        <5> QED
          BY <4>2, <5>1, <5>2
      <4>5. price'[s].ask = (IF q.ask > 0 THEN q.ask ELSE price[s].ask)
        <5>1. CASE a = 0
          BY <1>3, <1>6, <3>2, <4>1, <4>3, <5>1
        <5>2. CASE a = 1
          BY <1>3, <1>6, <3>2, <4>1, <4>3, <5>2
        <5> QED
          BY <4>2, <5>1, <5>2
      <4> QED
        BY <1>7, <3>2, <4>4, <4>5 DEF Tells
    <3> QED
      BY <3>1, <3>2
  <2>3. price'[s] = price[s] \/ Total(price[s]) < Total(price'[s])
    BY <1>5, <1>7
  <2>4. PICK p : p = q
    OBVIOUS
  <2>5. Arriving("quotes", r, p)
        /\ Tells(s, price[s], [kind |-> "quotes", name |-> r, quote |-> p, since |-> price'[r].since],
                 price'[s])
    BY <2>1, <2>2, <2>4
  <2> HIDE DEF q
  <2> QED
    BY <1>1, <1>8, <2>3, <2>5, FollowedSent
<1>10. CASE ~(up /\ r \in asked)
  <2>1. inbound' = inbound
    BY <1>10 DEF Moves
  <2>2. CASE r # s
    BY <1>1, <1>3, <1>5, <2>1, <2>2, FollowedKept
  <2>3. CASE r = s
    <3>1. \A i \in 1 .. Len(inbound') : inbound'[i].name # s
      <4>1. CASE up
        BY <1>10, <2>1, <2>3, <4>1 DEF Unasked
      <4>2. CASE ~up
        BY <2>1, <4>2 DEF Unasked
      <4> QED
        BY <4>1, <4>2
    <3>2. up' => None(quotes'[s])
      BY <1>1, <1>10, <2>3 DEF Unasked
    <3> QED
      BY <1>1, <1>7, <1>8, <2>3, <3>1, <3>2, FollowedAnew
  <2> QED
    BY <2>2, <2>3
<1> QED
  BY <1>9, <1>10

LEMMA FollowedStep ==
    ASSUME MarketInv, MarketTyped', NEW s \in Quoted, [MarketNext]_quoting
    PROVE  Followed(s)'
<1>0. /\ MarketTyped /\ Unasked /\ moment \in Nat
      /\ quotes \in [Quoted -> Priced] /\ price \in [Quoted -> Stamped]
  BY DEF MarketInv, MarketTyped, BrokerTyped, CacheTyped
<1>t. price[s].since <= moment
  <2>1. PICK h : \E g \in Priced : Followings(s, h, g)
    BY FollowedHas
  <2> QED
    BY <1>0, <2>1, GivenIsPrice
<1>1. CASE Passes
  <2>1. /\ UNCHANGED <<inbound, seenAt, queue, emitted, astray, price, up, quotes>>
        /\ moment' \in {moment, moment + 1}
    BY <1>1 DEF Passes, socket, tape
  <2> QED
    BY <1>0, <2>1, FollowedKept
<1>2. CASE Drops
  <2>1. /\ UNCHANGED <<seenAt, queue, emitted, astray, moment, price>>
        /\ inbound' = <<>> /\ ~up'
    BY <1>2 DEF Drops, broker, tape
  <2> QED
    BY <1>t, <2>1, FollowedAnew
<1>3. CASE Subscribes
  <2>1. UNCHANGED <<inbound, seenAt, queue, emitted, astray, price, up, quotes, moment>>
    BY <1>3 DEF Subscribes, broker, tape
  <2> QED
    BY <1>0, <2>1, FollowedKept
<1>4. CASE ReadsAccount
  <2>1. UNCHANGED <<inbound, seenAt, queue, emitted, astray, price, up, quotes, moment>>
    BY <1>4 DEF ReadsAccount, broker, socket, tape
  <2> QED
    BY <1>0, <2>1, FollowedKept
<1>5. CASE ReadFrame
  BY <1>5, FollowedRead
<1>6. CASE Polls
  BY <1>6, FollowedPolled
<1>7. CASE Emits
  BY <1>7, FollowedEmitted
<1>8. ASSUME NEW a \in BOOLEAN, NEW b \in BOOLEAN, Dials(a, b)
      PROVE  Followed(s)'
  <2>1. /\ UNCHANGED <<seenAt, queue, emitted, astray, moment, price>>
        /\ inbound' = <<>> /\ quotes'[s] = Nothing
    BY <1>8 DEF Dials, broker, tape
  <2> QED
    BY <1>t, <2>1, FollowedAnew DEF None
<1>9. ASSUME NEW r \in Quoted, NEW b \in 0 .. 1, NEW a \in 0 .. 1, Moves(r, b, a)
      PROVE  Followed(s)'
  BY <1>0, <1>9, FollowedMoved
<1>10. ASSUME NEW r \in Quoted, Pushes(r)
       PROVE  Followed(s)'
  <2>1. PICK q : q = [bid |-> price[r].bid, ask |-> price[r].ask, time |-> price[r].time + Zone]
    OBVIOUS
  <2>2. /\ UNCHANGED <<seenAt, queue, emitted, astray, moment, price, up, quotes>>
        /\ Arriving("stats", r, q)
    BY <1>10, <2>1 DEF Pushes, broker, tape
  <2>3. Tells(s, price[s], [kind |-> "stats", name |-> r, quote |-> q, since |-> price'[r].since], price'[s])
    <3>1. CASE r # s
      BY <2>2, <3>1 DEF Tells
    <3>2. CASE r = s
      <4>1. price[s] \in Stamped
        BY <1>0
      <4>2. q.bid = price[s].bid /\ q.ask = price[s].ask /\ q.time = price[s].time + Zone
        BY <2>1, <3>2, <4>1
      <4> QED
        BY <2>2, <3>2, <4>2 DEF Tells, SamePrice
    <3> QED
      BY <3>1, <3>2
  <2> QED
    BY <1>t, <2>2, <2>3, FollowedSent
<1>11. CASE UNCHANGED quoting
  <2>1. UNCHANGED <<inbound, seenAt, queue, emitted, astray, price, up, quotes, moment>>
    BY <1>11 DEF quoting, broker, socket, tape
  <2> QED
    BY <1>0, <2>1, FollowedKept
<1> QED
  BY <1>1, <1>2, <1>3, <1>4, <1>5, <1>6, <1>7, <1>8, <1>9, <1>10, <1>11 DEF MarketNext

LEMMA MarketInvInit == MarketInit => MarketInv
<1> SUFFICES ASSUME MarketInit
             PROVE  MarketInv
  OBVIOUS
<1>1. Unasked
  BY DEF MarketInit, Unasked, None
<1>2. QueuedOnce
  BY DEF MarketInit, QueuedOnce
<1> QED
  BY <1>1, <1>2, MarketTypedInit, FollowedInit DEF MarketInv

LEMMA MarketInvStep == MarketInv /\ [MarketNext]_quoting => MarketInv'
<1> SUFFICES ASSUME MarketInv, [MarketNext]_quoting
             PROVE  MarketInv'
  OBVIOUS
<1>1. MarketTyped'
  BY MarketTypedStep DEF MarketInv
<1>2. Unasked'
  BY UnaskedStep DEF MarketInv
<1>3. QueuedOnce'
  BY QueuedOnceStep
<1>4. \A s \in Quoted : Followed(s)'
  BY <1>1, FollowedStep
<1> QED
  BY <1>1, <1>2, <1>3, <1>4 DEF MarketInv

LEMMA MarketInductive == MarketSpec => []MarketInv
  BY MarketInvInit, MarketInvStep, PTL DEF MarketSpec

------------------------------------------------------------------------------
(* Quotes: what follows *)

\* As long as no frame of a symbol is on its way, its history does not move.
LEMMA QuietIsCurrent ==
    ASSUME NEW s, NEW h, History(s, h), ~OnItsWay(s), inbound \in Seq(QuoteFrames)
    PROVE  h[0] = price[s]
<1> DEFINE n == Len(inbound)
<1>1. n \in Nat /\ DOMAIN inbound = 1 .. n
  OBVIOUS
<1> DEFINE Differs == {m \in Nat : m <= n /\ h[m] # h[0]}
<1>2. SUFFICES ASSUME h[n] # h[0]
               PROVE  FALSE
  BY DEF History
<1>3. n \in Differs
  BY <1>1, <1>2
<1>4. PICK m \in Differs : \A j \in 0 .. m - 1 : j \notin Differs
  BY <1>3, LeastNatural
<1>5. m \in 1 .. n /\ m - 1 \in 0 .. m - 1 /\ m - 1 \in 0 .. n
  BY <1>1, <1>4
<1>6. h[m - 1] = h[0]
  BY <1>1, <1>4, <1>5
<1>7. inbound[m].name # s
  BY <1>1, <1>5 DEF OnItsWay
<1>8. h[m] = h[m - 1]
  BY <1>5, <1>7 DEF History, Tells
<1> QED
  BY <1>4, <1>6, <1>8

\* For every number of symbols, frames and connections: once everything sent has been read,
\* a cached quote is the market's on both sides.
THEOREM QuotesFollowTheMarket == MarketSpec => []QuotesAreCurrent
<1>1. MarketInv => QuotesAreCurrent
  <2> SUFFICES ASSUME MarketInv, NEW s \in Quoted, up, ~None(quotes[s]), ~OnItsWay(s)
               PROVE  SamePrice(quotes[s], price[s])
    BY DEF QuotesAreCurrent
  <2>1. PICK h : \E g \in Priced : Followings(s, h, g)
    BY FollowedHas
  <2>2. History(s, h) /\ CacheFollows(s, h)
    BY <2>1 DEF Followings
  <2>3. h[0] = price[s]
    BY <2>2, QuietIsCurrent DEF MarketInv, MarketTyped, SocketTyped
  <2> QED
    BY <2>2, <2>3 DEF CacheFollows
<1> QED
  BY <1>1, MarketInductive, PTL

\* A stream never gives a price again that it gave last, nor one without both sides, over
\* all redials, as long as no statistics were cached without the server's zone, or of a
\* move that came when the server's clock was ahead of the host's.
THEOREM StreamsGiveOnce == MarketSpec => GivenOnce
<1> DEFINE Once == \A s \in Quoted :
              emitted'[s] # emitted[s] =>
                  Whole(emitted'[s]) /\ (~astray => ~SamePrice(emitted[s], emitted'[s]))
<1>1. MarketInv /\ [MarketNext]_quoting => [Once]_quoting
  <2> SUFFICES ASSUME MarketInv, MarketNext, NEW s \in Quoted, emitted'[s] # emitted[s]
               PROVE  Whole(emitted'[s]) /\ (~astray => ~SamePrice(emitted[s], emitted'[s]))
    OBVIOUS
  <2>1. Emits
    BY TapeKept DEF Polls, tape
  <2>2. PICK n \in Nat \ {0} :
             /\ Len(queue) = n /\ Len(queue') = n - 1
             /\ \A i \in 1 .. n - 1 : queue'[i] = queue[i] /\ queue[i][1] # queue[n][1]
             /\ \A i \in 1 .. n :
                  queue[i] \in Quoted \X Priced /\ queue[i] = <<queue[i][1], queue[i][2]>>
             /\ emitted' = [emitted EXCEPT ![queue[n][1]] = queue[n][2]]
    BY <2>1, EmittedQuote DEF MarketInv
  <2>3. emitted \in [Quoted -> Priced] /\ n \in 1 .. Len(queue)
    BY <2>2 DEF MarketInv, MarketTyped, TapeTyped
  <2>4. queue[n][1] = s /\ emitted'[s] = queue[n][2]
    BY <2>2, <2>3
  <2> QED
    BY <2>3, <2>4 DEF MarketInv, QueuedOnce
<1>2. MarketSpec => [][Once]_quoting
  BY <1>1, MarketInductive, PTL DEF MarketSpec
<1> QED
  BY <1>2 DEF GivenOnce

------------------------------------------------------------------------------
(* Specifications: the invariant *)

Phases == {"missing", "currencies", "pairs", "quotes", "done"}

\* The pair chosen for a currency is a quotation of just that currency and the account's.
ChosenFits ==
    \A c \in Currencies :
        chosen[c] # 0 =>
            /\ chosen[c] \in Instruments
            /\ Forward(chosen[c], c) \/ Backward(chosen[c], c)

\* What a snapshot told of a symbol was worked out from what is there now.
Worked ==
    phase = "done" =>
        \A n \in Sought :
            LET rate == Rate(Specified(n).profit)
                money == PerTick(Specified(n))
            IN  worth[n] = IF n \in complete /\ money * rate[1] # 0
                           THEN <<money * rate[1], rate[2]>> ELSE NoMoney

SpecsInv ==
    /\ phase \in Phases /\ pairQuotes \in [Instruments -> PairQuotes]
    /\ ChosenFits /\ Worked

LEMMA ProfitIsCurrency ==
    ASSUME NEW n \in Sought
    PROVE  n \in Instruments /\ Specified(n).profit \in Currencies
  BY SpecsAssumption DEF Currencies

\* Of the pairs of a currency one comes before the others.
LEMMA FirstPair ==
    ASSUME NEW S \in SUBSET Instruments, S # {}
    PROVE  (CHOOSE n \in S : \A m \in S \ {n} : Before(n, m)) \in S
<1> DEFINE Rests == {Specified(n).rest : n \in S}
<1>1. S \subseteq Nat /\ \A n \in S : Specified(n).rest \in Nat
  BY SpecsAssumption
<1>2. Rests \subseteq Nat /\ \E r \in Rests : TRUE
  BY <1>1
<1>3. PICK r \in Rests : \A j \in 0 .. r - 1 : j \notin Rests
  <2> HIDE DEF Rests
  <2> QED
    BY <1>2, LeastNatural
<1> DEFINE Shortest == {n \in S : Specified(n).rest = r}
<1>4. Shortest \subseteq Nat /\ \E n \in Shortest : TRUE
  BY <1>1, <1>3
<1>5. PICK n \in Shortest : \A j \in 0 .. n - 1 : j \notin Shortest
  <2> HIDE DEF Shortest
  <2> QED
    BY <1>4, LeastNatural
<1>6. ASSUME NEW m \in S \ {n}
      PROVE  Before(n, m)
  <2>1. Specified(m).rest \in Rests /\ Specified(m).rest \in Nat /\ r \in Nat /\ m \in Nat /\ n \in Nat
    BY <1>1, <1>2, <1>3, <1>5
  <2>2. ~(Specified(m).rest < r)
    <3> HIDE DEF Rests
    <3> QED
      BY <1>3, <2>1
  <2>3. CASE Specified(m).rest = r
    <3>1. m \in Shortest
      BY <2>3
    <3>2. ~(m < n)
      <4> HIDE DEF Shortest
      <4> QED
        BY <1>5, <2>1, <3>1
    <3>3. Specified(n).rest = r /\ n < m
      BY <1>5, <1>6, <2>1, <3>2
    <3> QED
      BY <2>3, <3>3 DEF Before
  <2>4. CASE r < Specified(m).rest
    BY <1>5, <2>4 DEF Before
  <2> QED
    BY <2>1, <2>2, <2>3, <2>4
<1>7. n \in S
  BY <1>5
<1>8. \E k \in S : \A m \in S \ {k} : Before(k, m)
  BY <1>6, <1>7
<1> QED
  BY <1>8

LEMMA SpecsInvInit == SpecsInit => SpecsInv
  BY DEF SpecsInit, SpecsInv, Phases, ChosenFits, Worked

LEMMA SpecsInvStep == SpecsInv /\ [SpecsNext]_specs => SpecsInv'
<1> SUFFICES ASSUME SpecsInv, [SpecsNext]_specs
             PROVE  SpecsInv'
  OBVIOUS
<1>1. ASSUME NEW ok \in BOOLEAN, LoadMissing(ok)
      PROVE  SpecsInv'
  BY <1>1 DEF LoadMissing, SpecsInv, Phases, ChosenFits, Worked
<1>2. ASSUME NEW ok \in BOOLEAN, LoadPairs(ok)
      PROVE  SpecsInv'
  BY <1>2 DEF LoadPairs, SpecsInv, Phases, ChosenFits, Worked
<1>3. CASE Choose
  <2>1. ASSUME NEW c \in Currencies, chosen'[c] # 0
        PROVE  /\ chosen'[c] \in Instruments
               /\ Forward(chosen'[c], c) \/ Backward(chosen'[c], c)
    <3>1. c \in foreign /\ Pairs(c) # {}
      BY <1>3, <2>1 DEF Choose
    <3>2. chosen'[c] = CHOOSE n \in Pairs(c) : \A m \in Pairs(c) \ {n} : Before(n, m)
      BY <1>3, <3>1 DEF Choose
    <3>3. Pairs(c) \in SUBSET Instruments
      BY DEF Pairs, Candidates
    <3>4. chosen'[c] \in Pairs(c)
      BY <3>1, <3>2, <3>3, FirstPair
    <3> QED
      BY <3>3, <3>4 DEF Pairs
  <2>2. phase' = "quotes" /\ UNCHANGED pairQuotes
    BY <1>3 DEF Choose
  <2> QED
    BY <2>1, <2>2 DEF SpecsInv, Phases, ChosenFits, Worked
<1>4. CASE Value
  <2>1. phase' = "done" /\ UNCHANGED <<complete, chosen, pairQuotes>>
    BY <1>4 DEF Value
  <2>2. ASSUME NEW n \in Sought
        PROVE  LET rate == Rate(Specified(n).profit)
                   money == PerTick(Specified(n))
               IN  worth'[n] = IF n \in complete /\ money * rate[1] # 0
                               THEN <<money * rate[1], rate[2]>> ELSE NoMoney
    BY <1>4, <2>2 DEF Value
  <2>3. \A c : Rate(c)' = Rate(c)
    BY <2>1 DEF Rate, PairQuoted
  <2>4. Worked'
    BY <2>1, <2>2, <2>3 DEF Worked
  <2> QED
    BY <2>1, <2>4 DEF SpecsInv, Phases, ChosenFits
<1>5. ASSUME NEW n \in Instruments, OtherLoads(n)
      PROVE  SpecsInv'
  BY <1>5 DEF OtherLoads, SpecsInv, Phases, ChosenFits, Worked
<1>6. CASE UNCHANGED specs
  BY <1>6 DEF specs, SpecsInv, ChosenFits, Worked, Rate, PairQuoted
<1> QED
  BY <1>1, <1>2, <1>3, <1>4, <1>5, <1>6 DEF SpecsNext

LEMMA SpecsInductive == SpecsSpec => []SpecsInv
  BY SpecsInvInit, SpecsInvStep, PTL DEF SpecsSpec

------------------------------------------------------------------------------
(* Specifications: what follows *)

LEMMA PerTickNatural ==
    ASSUME NEW n \in Instruments
    PROVE  PerTick(Specified(n)) \in Nat
<1>1. /\ Specified(n).tickSize \in Nat /\ Specified(n).point \in Nat
      /\ Specified(n).contract \in Nat /\ Specified(n).tickValue \in Nat
  BY SpecsAssumption
<1>2. TickSize(Specified(n)) \in Nat
  BY <1>1 DEF TickSize
<1>3. TickSize(Specified(n)) * Specified(n).contract \in Nat
  BY <1>1, <1>2
<1> QED
  BY <1>1, <1>3 DEF PerTick

LEMMA GreaterFactor ==
    ASSUME NEW k \in Nat, NEW x \in Nat, NEW y \in Nat, x <= y
    PROVE  k * x <= k * y /\ k * x \in Nat /\ k * y \in Nat
  OBVIOUS

\* A rate that is there comes from a quote, and covers both of its sides.
LEMMA RateCovers ==
    ASSUME SpecsInv, NEW n \in Sought, Specified(n).profit # Deposit,
           NEW rate, rate = Rate(Specified(n).profit), rate # NoMoney,
           NEW v, v = <<PerTick(Specified(n)) * rate[1], rate[2]>>
    PROVE  /\ chosen[Specified(n).profit] \in Instruments
           /\ PairQuoted(chosen[Specified(n).profit])
           /\ Covered(n, v, chosen[Specified(n).profit])
           /\ rate[1] \in Nat \ {0}
<1> DEFINE c == Specified(n).profit
           m == chosen[c]
           money == PerTick(Specified(n))
<1>1. n \in Instruments /\ c \in Currencies /\ money \in Nat
  BY ProfitIsCurrency, PerTickNatural
<1>2. PairQuoted(m)
  BY DEF Rate
<1>3. m \in Instruments /\ (Forward(m, c) \/ Backward(m, c))
  BY <1>1, <1>2 DEF PairQuoted, SpecsInv, ChosenFits
<1> DEFINE bid == pairQuotes[m].bid
           ask == pairQuotes[m].ask
<1>4. bid \in Nat /\ ask \in Nat /\ bid > 0 /\ ask > 0 /\ bid <= ask
  BY <1>2, <1>3, SpecsAssumption DEF SpecsInv, PairQuoted
<1>5. money * bid <= money * ask /\ money * bid \in Nat /\ money * ask \in Nat
  <2> HIDE DEF money, bid, ask
  <2> QED
    BY <1>1, <1>4, GreaterFactor
<1>6. CASE Forward(m, c)
  <2>1. rate = <<ask, 1>>
    BY <1>2, <1>6 DEF Rate
  <2>2. v = <<money * ask, 1>> /\ rate[1] = ask
    BY <2>1
  <2>3. AtLeast(v, money * bid, 1) /\ AtLeast(v, money * ask, 1)
    <3> HIDE DEF money, bid, ask
    <3> QED
      BY <1>5, <2>2 DEF AtLeast
  <2> QED
    BY <1>2, <1>3, <1>4, <1>6, <2>2, <2>3 DEF Covered, Forward
<1>7. CASE ~Forward(m, c)
  <2>1. rate = <<1, bid>>
    BY <1>2, <1>7 DEF Rate
  <2>2. v = <<money, bid>> /\ rate[1] = 1
    BY <1>1, <2>1
  <2>3. AtLeast(v, money, bid) /\ AtLeast(v, money, ask)
    <3> HIDE DEF money, bid, ask
    <3> QED
      BY <1>1, <1>4, <1>5, <2>2 DEF AtLeast
  <2> QED
    BY <1>2, <1>3, <1>7, <2>2, <2>3 DEF Covered, Backward
<1> QED
  BY <1>6, <1>7

\* For all lists of symbols, whichever requests failed: every tick value told is in the
\* account's currency or converted with a quoted pair of just the two currencies, on the
\* side that does not understate a loss; and none is missing that could be told.
THEOREM TickValuesAreTrue == SpecsSpec => []TickValuesTrue
<1>1. SpecsInv => TickValuesTrue
  <2> SUFFICES ASSUME SpecsInv, phase = "done", NEW n \in Sought
               PROVE  LET v == worth[n]
                          c == Specified(n).profit
                          quoted == {m \in Instruments : PairQuoted(m)}
                      IN  /\ v # NoMoney /\ c = Deposit => v = <<PerTick(Specified(n)), 1>>
                          /\ v # NoMoney /\ c # Deposit => \E m \in quoted : Covered(n, v, m)
                          /\ n \in complete /\ (c = Deposit \/ PairQuoted(chosen[c]))
                             => v # NoMoney \/ PerTick(Specified(n)) = 0
    BY DEF TickValuesTrue
  <2> DEFINE c == Specified(n).profit
             rate == Rate(c)
             money == PerTick(Specified(n))
  <2>1. worth[n] = IF n \in complete /\ money * rate[1] # 0
                   THEN <<money * rate[1], rate[2]>> ELSE NoMoney
    BY DEF SpecsInv, Worked
  <2>2. n \in Instruments /\ money \in Nat
    BY ProfitIsCurrency, PerTickNatural
  <2>3. CASE c = Deposit
    <3>1. rate = <<1, 1>>
      BY <2>3 DEF Rate
    <3>2. money * rate[1] = money /\ rate[2] = 1
      BY <2>2, <3>1
    <3>3. money # 0 => <<money, 1>> # NoMoney
      BY DEF NoMoney
    <3> HIDE DEF money, rate
    <3> QED
      BY <2>1, <2>3, <3>2, <3>3 DEF money
  <2>4. CASE c # Deposit
    <3>1. CASE rate = NoMoney
      <4>1. money * rate[1] = 0
        BY <2>2, <3>1 DEF NoMoney
      <4>2. ~PairQuoted(chosen[c])
        <5>1. ASSUME PairQuoted(chosen[c])
              PROVE  FALSE
          <6>1. pairQuotes[chosen[c]].ask > 0
            BY <5>1 DEF PairQuoted
          <6>2. rate = <<pairQuotes[chosen[c]].ask, 1>> \/ rate[1] = 1
            BY <2>4, <5>1 DEF Rate
          <6> QED
            BY <3>1, <6>1, <6>2 DEF NoMoney
        <5> QED
          BY <5>1
      <4> QED
        BY <2>1, <2>4, <4>1, <4>2
    <3>2. CASE rate # NoMoney
      <4>1. /\ chosen[c] \in Instruments /\ PairQuoted(chosen[c])
            /\ Covered(n, <<money * rate[1], rate[2]>>, chosen[c])
            /\ rate[1] \in Nat \ {0}
        BY <2>4, <3>2, RateCovers
      <4>2. money # 0 => money * rate[1] # 0
        <5> HIDE DEF money, rate
        <5> QED
          BY <2>2, <4>1
      <4>3. money * rate[1] # 0 => <<money * rate[1], rate[2]>> # NoMoney
        BY DEF NoMoney
      <4> HIDE DEF money, rate
      <4> QED
        BY <2>1, <2>4, <4>1, <4>2, <4>3 DEF money
    <3> QED
      BY <3>1, <3>2
  <2> QED
    BY <2>3, <2>4
<1> QED
  BY <1>1, SpecsInductive, PTL


------------------------------------------------------------------------------
(* The largest of a set of tickets *)

LEMMA MaxTicket ==
    ASSUME NEW n \in Nat, NEW S \in SUBSET (1 .. n), S # {}
    PROVE  Max(S) \in S
<1> DEFINE T == {n - x : x \in S}
<1>1. T \subseteq Nat /\ T # {}
  <2>1. \A x \in 1 .. n : n - x \in Nat
    OBVIOUS
  <2>2. \A x \in S : n - x \in Nat
    BY <2>1
  <2> QED
    BY <2>2
<1>2. PICK m \in T : \A y \in T : ~ (<<y, m>> \in OpToRel(<, Nat))
  <2> HIDE DEF T
  <2> QED
    BY <1>1, WFMin, NatLessThanWellFounded
<1>3. \A y \in T : ~ (y < m)
  BY <1>1, <1>2 DEF OpToRel
<1>4. PICK x \in S : m = n - x
  BY <1>2
<1>5. \A y \in S : x >= y
  <2> SUFFICES ASSUME NEW y \in S PROVE x >= y
    OBVIOUS
  <2>1. ~ (n - y < n - x)
    BY <1>3, <1>4
  <2> QED
    BY <2>1, SMT
<1> QED
  BY <1>5 DEF Max

LEMMA MadeIsCounted ==
    ASSUME TypeOK
    PROVE  MaxTickets \in Nat /\ made \in 0 .. MaxTickets /\ made \in Nat /\ 0 \in 0 .. made
<1>1. made \in 0 .. MaxTickets
  BY DEF TypeOK
<1> QED
  BY <1>1, ReceiptsAssumption DEF ReceiptsAssumption

LEMMA NewestIsNew ==
    ASSUME TypeOK, NEW p \in Senders
    PROVE  Newest(p) \in New(p) \/ (New(p) = {} /\ Newest(p) = 0)
<1>1. made \in Nat
  BY MadeIsCounted
<1>2. New(p) \in SUBSET (1 .. made)
  BY DEF TypeOK, New
<1> QED
  BY <1>1, <1>2, MaxTicket DEF Newest

------------------------------------------------------------------------------
(* Types *)

LEMMA InitType == Init => TypeOK
BY ReceiptsAssumption DEF ReceiptsAssumption, Init, TypeOK, Places, Held

LEMMA LookAtType ==
    ASSUME TypeOK, NEW p \in Senders, NEW place \in Places, LookAt(p, place),
           UNCHANGED account
    PROVE  /\ at' \in [Senders -> Places]
           /\ seen' \in [Senders -> SUBSET (1 .. made')]
           /\ missed' \in [Senders -> BOOLEAN]
           /\ steady' \in [Senders -> SUBSET Held']
BY DEF TypeOK, LookAt, account, Held

\* One more ticket leaves every set of tickets one.
LEMMA MakeWidens ==
    ASSUME TypeOK, Make
    PROVE  /\ made' \in 0 .. MaxTickets /\ made' \in 0 .. made'
           /\ 1 .. made \subseteq 1 .. made' /\ 0 .. made \subseteq 0 .. made'
           /\ hidden' \subseteq 1 .. made' /\ made' \notin 1 .. made
<1>1. made \in 0 .. MaxTickets /\ MaxTickets \in Nat /\ hidden \subseteq 1 .. made
  BY MadeIsCounted DEF TypeOK
<1>2. made < MaxTickets /\ made' = made + 1 /\ hidden' = hidden \union {made'}
  BY DEF Make
<1>3. 1 .. made \subseteq 1 .. made' /\ made' \in 1 .. made' /\ made' \notin 1 .. made
  BY <1>1, <1>2
<1> QED
  BY <1>1, <1>2, <1>3

LEMMA Widen ==
    ASSUME NEW A, NEW B, A \subseteq B, NEW f \in [Senders -> SUBSET A]
    PROVE  f \in [Senders -> SUBSET B]
OBVIOUS

LEMMA WidenTo ==
    ASSUME NEW A, NEW B, A \subseteq B, NEW f \in [Senders -> A]
    PROVE  f \in [Senders -> B]
OBVIOUS

\* What a new ticket leaves of the types of the calls.
CallTypes ==
    /\ known \in [Senders -> SUBSET (1 .. made)]
    /\ before \in [Senders -> SUBSET (1 .. made)] /\ seen \in [Senders -> SUBSET (1 .. made)]
    /\ receipt \in [Senders -> 0 .. made] /\ own \in [Senders -> 0 .. made]

LEMMA MakeKeepsCalls ==
    ASSUME TypeOK, Make, UNCHANGED <<known, before, seen, receipt>>,
           \/ UNCHANGED own
           \/ \E p \in Senders : own' = [own EXCEPT ![p] = made']
    PROVE  CallTypes'
<1> DEFINE A == 1 .. made  B == 1 .. made'  C == 0 .. made  D == 0 .. made'
<1>1. A \subseteq B /\ C \subseteq D /\ made' \in D
  BY MakeWidens
<1>2. /\ known \in [Senders -> SUBSET A] /\ before \in [Senders -> SUBSET A]
      /\ seen \in [Senders -> SUBSET A]
      /\ receipt \in [Senders -> C] /\ own \in [Senders -> C]
  BY DEF TypeOK
<1>3. own' \in [Senders -> D]
  <2> HIDE DEF A, B, C, D
  <2> QED
    BY <1>1, <1>2
<1>4. /\ known' \in [Senders -> SUBSET B] /\ before' \in [Senders -> SUBSET B]
      /\ seen' \in [Senders -> SUBSET B] /\ receipt' \in [Senders -> D]
  <2> HIDE DEF A, B, C, D
  <2> QED
    BY <1>1, <1>2, Widen, WidenTo
<1> QED
  BY <1>3, <1>4 DEF CallTypes

\* Lists from which nothing is made up.
LEMMA ListedTypes ==
    ASSUME TypeOK, NEW o \in SUBSET (1 .. made), NEW q \in SUBSET (1 .. made),
           o \intersect q = {}, Listed(o, q), UNCHANGED made
    PROVE  /\ Held' = o \union q /\ Held' \subseteq 1 .. made'
           /\ orders' \intersect positions' = {}
           /\ steady' \in [Senders -> SUBSET Held']
BY DEF TypeOK, Listed, Held

LEMMA NextType == TypeOK /\ [Next]_vars => TypeOK'
<1> SUFFICES ASSUME TypeOK, [Next]_vars PROVE TypeOK'
  OBVIOUS
<1> USE ReceiptsAssumption DEF ReceiptsAssumption
<1>1. ASSUME NEW p \in Senders, StartEntry(p) PROVE TypeOK'
  <2>1. "before" \in Places
    BY DEF Places
  <2> QED
    BY <1>1, <2>1, LookAtType DEF StartEntry, TypeOK, account, server, Held
<1>2. ASSUME NEW p \in Senders, NEW t \in Tickets, NEW ok \in BOOLEAN, StartAbout(p, t, ok)
      PROVE TypeOK'
  <2>1. t \in 0 .. MaxTickets
    BY DEF Tickets
  <2>2. at' \in [Senders -> Places]
    BY <1>2 DEF StartAbout, TypeOK, Places
  <2> QED
    BY <1>2, <2>1, <2>2 DEF StartAbout, TypeOK, account, server, ghosts, Held
<1>3. ASSUME NEW p \in Senders, NEW ok \in BOOLEAN, ReadOrders(p, ok) PROVE TypeOK'
  BY <1>3 DEF ReadOrders, Adds, Lists, TypeOK, account, server, Held, Places
<1>4. ASSUME NEW p \in Senders, NEW ok \in BOOLEAN, ReadPositions(p, ok) PROVE TypeOK'
  BY <1>4 DEF ReadPositions, Adds, Lists, TypeOK, account, server, Held, Places
<1>5. ASSUME NEW p \in Senders, Send(p) PROVE TypeOK'
  BY <1>5 DEF Send, TypeOK, account, ghosts, Held, Places
<1>6. ASSUME NEW p \in Senders, SendFails(p) PROVE TypeOK'
  BY <1>6 DEF SendFails, TypeOK, account, server, ghosts, Held, Places
<1>7. ASSUME NEW p \in Senders, Compare(p) PROVE TypeOK'
  <2>1. CASE Again(p)
    <3>1. "after" \in Places
      BY DEF Places
    <3>2. looks' \in [Senders -> 0 .. Looks - 1]
      <4>1. Looks \in Nat /\ looks[p] \in 0 .. Looks - 1 /\ looks[p] + 1 < Looks
        BY <2>1 DEF Again, TypeOK
      <4>2. looks[p] + 1 \in 0 .. Looks - 1
        BY <4>1
      <4>3. looks' = [looks EXCEPT ![p] = looks[p] + 1]
        BY <1>7, <2>1 DEF Compare
      <4> HIDE DEF ReceiptsAssumption
      <4> QED
        BY <4>2, <4>3 DEF TypeOK
    <3> QED
      BY <1>7, <2>1, <3>1, <3>2, LookAtType DEF Compare, TypeOK, account, server, Held
  <2>2. CASE ~Again(p)
    <3>1. Newest(p) \in 0 .. made
      <4>1. New(p) \subseteq 1 .. made
        BY DEF TypeOK, New
      <4> QED
        BY <4>1, MadeIsCounted, NewestIsNew
    <3>2. receipt' \in [Senders -> 0 .. made'] /\ at' \in [Senders -> Places]
      <4>1. /\ at' = [at EXCEPT ![p] = "done"] /\ made' = made
            /\ receipt' = [receipt EXCEPT ![p] = Newest(p)]
        BY <1>7, <2>2 DEF Compare, Named, account
      <4>2. "done" \in Places
        BY DEF Places
      <4> QED
        BY <3>1, <4>1, <4>2 DEF TypeOK
    <3> QED
      BY <1>7, <2>2, <3>2 DEF Compare, TypeOK, account, server, Held
  <2> QED
    BY <2>1, <2>2
<1>8. ASSUME NEW p \in Senders, NEW told \in {0, own[p]}, Accepted(p, told) PROVE TypeOK'
  <2>1. CASE Entry(p) /\ told = 0
    <3>1. "after" \in Places
      BY DEF Places
    <3> QED
      BY <1>8, <2>1, <3>1, LookAtType DEF Accepted, TypeOK, account, server, Held
  <2>2. CASE ~(Entry(p) /\ told = 0)
    <3>1. told \in 0 .. made
      <4>1. own[p] \in 0 .. made
        BY DEF TypeOK
      <4> QED
        BY <4>1, MadeIsCounted
    <3>2. at' \in [Senders -> Places] /\ receipt' \in [Senders -> 0 .. made']
      BY <1>8, <2>2, <3>1 DEF Accepted, Named, TypeOK, account, Places
    <3> QED
      BY <1>8, <2>2, <3>2 DEF Accepted, TypeOK, account, server, Held
  <2> QED
    BY <2>1, <2>2
<1>9. ASSUME NEW p \in Senders, Accept(p) PROVE TypeOK'
  <2>1. CASE Entry(p)
    <3>1. Make /\ own' = [own EXCEPT ![p] = made']
      BY <1>9, <2>1 DEF Accept
    <3>2. CallTypes'
      BY <1>9, <3>1, MakeKeepsCalls DEF Accept, call, ghosts
    <3>3. Held' \subseteq 1 .. made' /\ hidden' \intersect Held' = {}
      <4>1. /\ Held \subseteq 1 .. made /\ hidden \intersect Held = {} /\ Held' = Held
            /\ hidden' = hidden \union {made'}
        BY <1>9, <3>1 DEF Accept, Make, TypeOK, Held
      <4>2. 1 .. made \subseteq 1 .. made' /\ made' \notin 1 .. made
        BY <3>1, MakeWidens
      <4> QED
        BY <4>1, <4>2
    <3> QED
      BY <1>9, <3>1, <3>2, <3>3, MakeWidens
      DEF Accept, CallTypes, TypeOK, call, ghosts, Held
  <2>2. CASE ~Entry(p)
    BY <1>9, <2>2 DEF Accept, TypeOK, call, ghosts, Held
  <2> QED
    BY <2>1, <2>2
<1>10. ASSUME NEW p \in Senders, Takes(p) PROVE TypeOK'
  <2>1. PICK o \in {orders \ {target[p]}, orders}, q \in {positions \ {target[p]}, positions} :
          Listed(o, q)
    BY <1>10 DEF Takes
  <2>2. /\ o \in SUBSET (1 .. made) /\ q \in SUBSET (1 .. made) /\ o \intersect q = {}
        /\ o \union q \subseteq Held
    BY DEF TypeOK, Held
  <2>3. UNCHANGED <<call, made, hidden, own, known, partial, missed>>
    BY <1>10 DEF Takes
  <2>4. request' \in [Senders -> {"none", "sent", "accepted", "carried out"}]
    BY <1>10 DEF Takes, TypeOK
  <2> QED
    BY <2>1, <2>2, <2>3, <2>4, ListedTypes DEF TypeOK, call
<1>11. CASE Outside
  <2>1. Make /\ CallTypes'
    BY <1>11, MakeKeepsCalls DEF Outside, call, server, ghosts
  <2>2. Held' \subseteq 1 .. made' /\ hidden' \intersect Held' = {}
    <3>1. /\ Held \subseteq 1 .. made /\ hidden \intersect Held = {} /\ Held' = Held
          /\ hidden' = hidden \union {made'}
      BY <1>11, <2>1 DEF Outside, Make, TypeOK, Held
    <3>2. 1 .. made \subseteq 1 .. made' /\ made' \notin 1 .. made
      BY <2>1, MakeWidens
    <3> QED
      BY <3>1, <3>2
  <2> QED
    BY <1>11, <2>1, <2>2, MakeWidens
    DEF Outside, CallTypes, TypeOK, call, server, ghosts, Held
<1>12. ASSUME NEW t \in Tickets, Show(t) PROVE TypeOK'
  BY <1>12 DEF Show, Appear, Listed, TypeOK, call, server, Held
<1>13. ASSUME NEW t \in Tickets, Fill(t) PROVE TypeOK'
  BY <1>13 DEF Fill, Listed, TypeOK, call, server, Held
<1>14. ASSUME NEW t \in Tickets, Gone(t) PROVE TypeOK'
  BY <1>14 DEF Gone, Listed, TypeOK, call, server, Held
<1>15. CASE UNCHANGED vars
  BY <1>15 DEF TypeOK, vars, call, account, server, ghosts, Held
<1> QED
  BY <1>1, <1>2, <1>3, <1>4, <1>5, <1>6, <1>7, <1>8, <1>9, <1>10, <1>11, <1>12, <1>13,
     <1>14, <1>15 DEF Next, Read

\* The types of a call and of the account (WebtermReceipts, TypeOK).
THEOREM ReceiptTypes == Spec => []TypeOK
BY InitType, NextType, PTL DEF Spec
------------------------------------------------------------------------------
(* What a call knows of the account *)

\* The request goes out after the account was read, and its entry gets a ticket
\* that was not there before.
Unseen(p) ==
    /\ at[p] \in {"idle", "before", "before2", "sending"} => request[p] = "none" /\ own[p] = 0
    /\ own[p] # 0 => own[p] \notin known[p] /\ own[p] \notin before[p]

\* What was listed when the call began is never an order again once it is not, and
\* was seen before the request unless it went meanwhile.
Old(p) ==
    /\ known[p] \intersect hidden = {}
    /\ at[p] = "before2" /\ ~missed[p] => known[p] \intersect orders \subseteq seen[p]
    /\ at[p] \in {"sending", "sent", "after", "after2", "comparing"} /\ Entry(p) /\ ~partial[p]
         => known[p] \intersect Held \subseteq before[p]
    /\ at[p] \in {"after", "after2", "comparing"} /\ Entry(p) /\ ~partial[p]
         => known[p] \intersect seen[p] \subseteq before[p]
    /\ at[p] = "done" /\ Entry(p) /\ ~partial[p] => receipt[p] \notin known[p]

\* What is listed throughout a look is seen by it: at first as an order, or else as
\* the position it has become.
Complete(p) ==
    /\ at[p] = "after2" /\ ~missed[p] => steady[p] \subseteq seen[p] \union positions
    /\ at[p] = "comparing" /\ ~missed[p] => steady[p] \subseteq seen[p]
    /\ at[p] = "done" /\ Entry(p) /\ receipt[p] = 0 /\ ~missed[p] => own[p] \notin steady[p]

IInv == TypeOK /\ \A p \in Senders : Unseen(p) /\ Old(p) /\ Complete(p)

LEMMA InitInv == Init => IInv
<1> SUFFICES ASSUME Init PROVE IInv
  OBVIOUS
<1>1. TypeOK
  BY InitType
<1>2. \A p \in Senders : Unseen(p) /\ Old(p) /\ Complete(p)
  BY DEF Init, Unseen, Old, Complete, Entry, Held
<1> QED
  BY <1>1, <1>2 DEF IInv

\* Tickets are not 0.
LEMMA NoTicketIsZero ==
    ASSUME TypeOK, NEW p \in Senders
    PROVE  0 \notin known[p] /\ 0 \notin steady[p] /\ 0 \notin seen[p]
<1>1. Held \subseteq 1 .. made /\ steady[p] \subseteq Held
  BY DEF TypeOK
<1>2. known[p] \subseteq 1 .. made /\ seen[p] \subseteq 1 .. made
  BY DEF TypeOK
<1>3. 0 \notin 1 .. made
  BY MadeIsCounted
<1> QED
  BY <1>1, <1>2, <1>3

\* The account between two requests: a ticket is listed only if it was before, or
\* was hidden; and a position stays one while it is listed.
LEMMA AccountStep ==
    ASSUME IInv, UNCHANGED <<call, server, known, partial, missed>>,
           hidden' \subseteq hidden, Held' \subseteq Held \union hidden,
           orders' \subseteq orders \union hidden,
           steady' = [p \in Senders |-> steady[p] \intersect Held'],
           \A p \in Senders : steady'[p] \intersect positions \subseteq positions'
    PROVE  \A p \in Senders : Unseen(p)' /\ Old(p)' /\ Complete(p)'
<1> SUFFICES ASSUME NEW p \in Senders PROVE Unseen(p)' /\ Old(p)' /\ Complete(p)'
  OBVIOUS
<1>1. Unseen(p)'
  BY DEF IInv, Unseen, call, server
<1>2. Old(p)'
  BY DEF IInv, Old, call, Entry
<1>3. Complete(p)'
  BY DEF IInv, Complete, call, server, Entry
<1> QED
  BY <1>1, <1>2, <1>3

\* What one call does is nothing to the others.
Same(q) ==
    /\ at'[q] = at[q] /\ target'[q] = target[q] /\ before'[q] = before[q] /\ seen'[q] = seen[q]
    /\ receipt'[q] = receipt[q] /\ request'[q] = request[q] /\ own'[q] = own[q]
    /\ known'[q] = known[q] /\ partial'[q] = partial[q] /\ missed'[q] = missed[q]
    /\ steady'[q] = steady[q]

LEMMA OthersKeep ==
    ASSUME IInv, NEW q \in Senders, Same(q), UNCHANGED account
    PROVE  Unseen(q)' /\ Old(q)' /\ Complete(q)'
<1>1. Unseen(q)'
  BY DEF IInv, Unseen, Same
<1>2. Old(q)'
  BY DEF IInv, Old, Same, account, Entry, Held
<1>3. Complete(q)'
  BY DEF IInv, Complete, Same, account, Entry
<1> QED
  BY <1>1, <1>2, <1>3

LEMMA NextInv == IInv /\ [Next]_vars => IInv'
<1> SUFFICES ASSUME IInv, [Next]_vars PROVE IInv'
  OBVIOUS
<1>0. TypeOK /\ TypeOK'
  BY NextType DEF IInv
<1> SUFFICES \A q \in Senders : Unseen(q)' /\ Old(q)' /\ Complete(q)'
  BY <1>0 DEF IInv
<1>1. ASSUME NEW p \in Senders, StartEntry(p)
      PROVE  \A q \in Senders : Unseen(q)' /\ Old(q)' /\ Complete(q)'
  <2> SUFFICES ASSUME NEW q \in Senders PROVE Unseen(q)' /\ Old(q)' /\ Complete(q)'
    OBVIOUS
  <2>1. hidden \intersect Held = {}
    BY <1>0 DEF TypeOK
  <2>2. Unseen(q)' /\ Old(q)' /\ Complete(q)'
    BY <1>0, <1>1, <2>1
    DEF IInv, TypeOK, StartEntry, LookAt, account, server, Unseen, Old, Complete, Entry, Held
  <2> QED
    BY <2>2
<1>2. ASSUME NEW p \in Senders, NEW t \in Tickets, NEW ok \in BOOLEAN, StartAbout(p, t, ok)
      PROVE  \A q \in Senders : Unseen(q)' /\ Old(q)' /\ Complete(q)'
  <2>1. t # 0
    BY DEF Tickets
  <2> QED
    BY <1>0, <1>2, <2>1
    DEF IInv, TypeOK, StartAbout, account, server, ghosts, Unseen, Old, Complete, Entry, Held
<1>3. ASSUME NEW p \in Senders, NEW ok \in BOOLEAN, ReadOrders(p, ok)
      PROVE  \A q \in Senders : Unseen(q)' /\ Old(q)' /\ Complete(q)'
<2>1. UNCHANGED account /\ \A q \in Senders \ {p} : Same(q)
  BY <1>0, <1>3 DEF TypeOK, ReadOrders, Adds, Lists, account, server, Same
<2>2. Unseen(p)'
  BY <1>0, <1>3 DEF IInv, TypeOK, ReadOrders, Adds, Lists, account, server, Unseen
<2>3. Old(p)'
  BY <1>0, <1>3 DEF IInv, TypeOK, ReadOrders, Adds, Lists, account, server, Old, Entry, Held
<2>4. Complete(p)'
  BY <1>0, <1>3 DEF IInv, TypeOK, ReadOrders, Adds, Lists, account, server, Complete, Entry, Held
<2> QED
  BY <2>1, <2>2, <2>3, <2>4, OthersKeep
<1>4. ASSUME NEW p \in Senders, NEW ok \in BOOLEAN, ReadPositions(p, ok)
      PROVE  \A q \in Senders : Unseen(q)' /\ Old(q)' /\ Complete(q)'
<2>1. UNCHANGED account /\ \A q \in Senders \ {p} : Same(q)
  BY <1>0, <1>4 DEF TypeOK, ReadPositions, Adds, Lists, account, server, Same
<2>2. Unseen(p)'
  BY <1>0, <1>4 DEF IInv, TypeOK, ReadPositions, Adds, Lists, account, server, Unseen
<2>3. Old(p)'
  BY <1>0, <1>4 DEF IInv, TypeOK, ReadPositions, Adds, Lists, account, server, Old, Entry, Held
<2>4. Complete(p)'
  BY <1>0, <1>4 DEF IInv, TypeOK, ReadPositions, Adds, Lists, account, server, Complete, Entry, Held
<2> QED
  BY <2>1, <2>2, <2>3, <2>4, OthersKeep
<1>5. ASSUME NEW p \in Senders, Send(p)
      PROVE  \A q \in Senders : Unseen(q)' /\ Old(q)' /\ Complete(q)'
  BY <1>0, <1>5
  DEF IInv, TypeOK, Send, account, ghosts, Unseen, Old, Complete, Entry, Held
<1>6. ASSUME NEW p \in Senders, SendFails(p)
      PROVE  \A q \in Senders : Unseen(q)' /\ Old(q)' /\ Complete(q)'
  BY <1>0, <1>6
  DEF IInv, TypeOK, SendFails, account, server, ghosts, Unseen, Old, Complete, Entry, Held
<1>7. ASSUME NEW p \in Senders, NEW told \in {0, own[p]}, Accepted(p, told)
      PROVE  \A q \in Senders : Unseen(q)' /\ Old(q)' /\ Complete(q)'
  <2>1. 0 \notin known[p]
    BY <1>0, NoTicketIsZero
  <2>2. CASE Entry(p) /\ told = 0
    <3>0. /\ at[p] \in {"sent", "comparing"} /\ at' = [at EXCEPT ![p] = "after"]
          /\ seen' = [seen EXCEPT ![p] = {}] /\ missed' = [missed EXCEPT ![p] = FALSE]
          /\ steady' = [steady EXCEPT ![p] = Held]
          /\ UNCHANGED <<target, before, receipt, account, server, known, partial>>
      BY <1>7, <2>2 DEF Accepted, LookAt
    <3>1. UNCHANGED account /\ \A q \in Senders \ {p} : Same(q)
      BY <1>0, <3>0 DEF TypeOK, account, server, Same
    <3>2. Unseen(p)'
      BY <1>0, <3>0 DEF IInv, TypeOK, server, Unseen
    <3>3. Old(p)'
      BY <1>0, <2>1, <3>0 DEF IInv, TypeOK, account, Old, Entry, Held
    <3>4. Complete(p)'
      BY <1>0, <3>0 DEF IInv, TypeOK, account, server, Complete, Entry, Held
    <3> QED
      BY <3>1, <3>2, <3>3, <3>4, OthersKeep
  <2>3. CASE ~(Entry(p) /\ told = 0)
    <3>0. /\ at[p] = "sent" /\ at' = [at EXCEPT ![p] = "done"]
          /\ receipt' = [receipt EXCEPT ![p] = told]
          /\ told \in {0, own[p]} /\ (Entry(p) => told # 0)
          /\ UNCHANGED <<target, before, seen, missed, steady, account, server, known, partial>>
      BY <1>7, <2>3 DEF Accepted, Named
    <3>1. UNCHANGED account /\ \A q \in Senders \ {p} : Same(q)
      BY <1>0, <3>0 DEF TypeOK, account, server, Same
    <3>2. Unseen(p)'
      BY <1>0, <3>0 DEF IInv, TypeOK, server, Unseen
    <3>3. Old(p)'
      BY <1>0, <2>1, <3>0 DEF IInv, TypeOK, account, Unseen, Old, Entry, Held
    <3>4. Complete(p)'
      BY <1>0, <3>0 DEF IInv, TypeOK, account, server, Complete, Entry, Held
    <3> QED
      BY <3>1, <3>2, <3>3, <3>4, OthersKeep
  <2> QED
    BY <2>2, <2>3
<1>8. ASSUME NEW p \in Senders, Compare(p)
      PROVE  \A q \in Senders : Unseen(q)' /\ Old(q)' /\ Complete(q)'
  <2>1. CASE Again(p)
    <3>0. /\ at[p] \in {"sent", "comparing"} /\ at' = [at EXCEPT ![p] = "after"]
          /\ seen' = [seen EXCEPT ![p] = {}] /\ missed' = [missed EXCEPT ![p] = FALSE]
          /\ steady' = [steady EXCEPT ![p] = Held]
          /\ UNCHANGED <<target, before, receipt, account, server, known, partial>>
      BY <1>8, <2>1 DEF Compare, LookAt
    <3>1. UNCHANGED account /\ \A q \in Senders \ {p} : Same(q)
      BY <1>0, <3>0 DEF TypeOK, account, server, Same
    <3>2. Unseen(p)'
      BY <1>0, <3>0 DEF IInv, TypeOK, server, Unseen
    <3>3. Old(p)'
      BY <1>0, <3>0 DEF IInv, TypeOK, account, Old, Entry, Held
    <3>4. Complete(p)'
      BY <1>0, <3>0 DEF IInv, TypeOK, account, server, Complete, Entry, Held
    <3> QED
      BY <3>1, <3>2, <3>3, <3>4, OthersKeep
  <2>2. CASE ~Again(p)
    <3>1. /\ Newest(p) = 0 => New(p) = {}
          /\ Newest(p) # 0 => Newest(p) \in seen[p] \ before[p]
      BY <1>0, NewestIsNew, NoTicketIsZero DEF New
    <3>2. Old(p) => (Entry(p) /\ ~partial[p] => Newest(p) \notin known[p])
      BY <1>0, <1>8, <3>1, NoTicketIsZero DEF Old, Compare
    <3>3. Complete(p) /\ Unseen(p) => (Newest(p) = 0 /\ ~missed[p] => own[p] \notin steady[p])
      BY <1>0, <1>8, <3>1, NoTicketIsZero DEF Complete, Unseen, Compare, New
    <3>4. /\ at' = [at EXCEPT ![p] = "done"]
          /\ receipt' = [receipt EXCEPT ![p] = Newest(p)]
          /\ UNCHANGED <<target, before, seen, missed, steady, account, server, known, partial>>
      BY <1>8, <2>2 DEF Compare, Named
    <3>5. UNCHANGED account /\ \A q \in Senders \ {p} : Same(q)
      BY <1>0, <3>4 DEF TypeOK, account, server, Same
    <3>6. Unseen(p)'
      BY <1>0, <3>4 DEF IInv, TypeOK, server, Unseen
    <3>7. Old(p)'
      BY <1>0, <3>2, <3>4 DEF IInv, TypeOK, account, Old, Entry
    <3>8. Complete(p)'
      BY <1>0, <3>3, <3>4 DEF IInv, TypeOK, account, server, Complete, Entry
    <3> QED
      BY <3>5, <3>6, <3>7, <3>8, OthersKeep
  <2> QED
    BY <2>1, <2>2
<1>9. ASSUME Make, UNCHANGED <<call, orders, positions, ghosts>>,
             \/ UNCHANGED server
             \/ \E p \in Senders : /\ request[p] = "sent"
                                   /\ request' = [request EXCEPT ![p] = "accepted"]
                                   /\ own' = [own EXCEPT ![p] = made']
      PROVE  \A q \in Senders : Unseen(q)' /\ Old(q)' /\ Complete(q)'
  <2> SUFFICES ASSUME NEW q \in Senders PROVE Unseen(q)' /\ Old(q)' /\ Complete(q)'
    OBVIOUS
  <2>1. /\ made' \notin known[q] /\ made' \notin before[q] /\ made' \notin steady[q]
    <3>1. known[q] \subseteq 1 .. made /\ before[q] \subseteq 1 .. made
      BY <1>0 DEF TypeOK
    <3>2. steady[q] \subseteq 1 .. made
      BY <1>0 DEF TypeOK
    <3> QED
      BY <1>0, <1>9, <3>1, <3>2, MakeWidens
  <2>2. own'[q] = own[q] \/ own'[q] = made'
    BY <1>0, <1>9 DEF TypeOK, server
  <2>3. (request'[q] = request[q] /\ own'[q] = own[q]) \/ request[q] = "sent"
    BY <1>0, <1>9 DEF TypeOK, server
  <2>4. hidden' = hidden \union {made'}
    BY <1>9 DEF Make
  <2>5. Unseen(q)'
    BY <1>9, <2>1, <2>2, <2>3 DEF IInv, Unseen, call, ghosts
  <2>6. Old(q)'
    BY <1>9, <2>1, <2>4 DEF IInv, Old, call, ghosts, Entry, Held
  <2>7. Complete(q)'
    BY <1>9, <2>1, <2>2 DEF IInv, Complete, call, ghosts, Entry
  <2> QED
    BY <2>5, <2>6, <2>7
<1>10. ASSUME NEW p \in Senders, Accept(p)
       PROVE  \A q \in Senders : Unseen(q)' /\ Old(q)' /\ Complete(q)'
  <2>1. CASE Entry(p)
    BY <1>9, <1>10, <2>1 DEF Accept
  <2>2. CASE ~Entry(p)
    BY <1>0, <1>10, <2>2
    DEF IInv, TypeOK, Accept, call, ghosts, Unseen, Old, Complete, Entry, Held
  <2> QED
    BY <2>1, <2>2
<1>11. ASSUME NEW p \in Senders, Takes(p)
       PROVE  \A q \in Senders : Unseen(q)' /\ Old(q)' /\ Complete(q)'
  <2>1. PICK o \in SUBSET orders, x \in SUBSET positions : Listed(o, x)
    BY <1>11 DEF Takes
  <2>2. \A q \in Senders : Unseen(q)'
    <3> SUFFICES ASSUME NEW q \in Senders PROVE Unseen(q)'
      OBVIOUS
    <3>1. request'[q] = request[q] \/ request[q] = "accepted"
      BY <1>0, <1>11 DEF TypeOK, Takes
    <3>2. UNCHANGED <<at, before, known, own>>
      BY <1>11 DEF Takes, call
    <3> QED
      BY <3>1, <3>2 DEF IInv, Unseen
  <2>3. \A q \in Senders : Old(q)'
    BY <1>0, <1>11, <2>1 DEF IInv, Takes, Listed, call, Old, Entry, Held
  <2>4. \A q \in Senders : steady'[q] \intersect positions \subseteq positions'
    <3>1. orders \intersect positions = {}
      BY <1>0 DEF TypeOK
    <3> QED
      BY <2>1, <3>1 DEF Listed
  <2>5. \A q \in Senders : steady'[q] \subseteq steady[q]
    BY <2>1 DEF Listed
  <2>6. \A q \in Senders : Complete(q)'
    BY <1>11, <2>4, <2>5 DEF IInv, Takes, call, Complete, Entry
  <2> QED
    BY <2>2, <2>3, <2>6
<1>12. CASE Outside
  BY <1>9, <1>12 DEF Outside
<1>13. ASSUME NEW t \in Tickets, Show(t)
       PROVE  \A q \in Senders : Unseen(q)' /\ Old(q)' /\ Complete(q)'
  BY <1>13, AccountStep DEF Show, Appear, Listed, Held
<1>14. ASSUME NEW t \in Tickets, Fill(t)
       PROVE  \A q \in Senders : Unseen(q)' /\ Old(q)' /\ Complete(q)'
  BY <1>14, AccountStep DEF Fill, Listed, Held
<1>15. ASSUME NEW t \in Tickets, Gone(t)
       PROVE  \A q \in Senders : Unseen(q)' /\ Old(q)' /\ Complete(q)'
  BY <1>14, <1>15, AccountStep DEF Gone, Listed, Held
<1>16. CASE UNCHANGED vars
  BY <1>16 DEF IInv, vars, call, account, server, ghosts, Unseen, Old, Complete, Entry, Held
<1> QED
  BY <1>1, <1>2, <1>3, <1>4, <1>5, <1>6, <1>7, <1>8, <1>10, <1>11, <1>12, <1>13, <1>14,
     <1>15, <1>16 DEF Next, Read

\* A receipt identified by difference never names what was listed before the call,
\* if both lists could be read then (send, live_tickets).
THEOREM ReceiptsNameNewTickets == Spec => []ReceiptIsNew
<1>1. IInv => ReceiptIsNew
  BY DEF IInv, Old, ReceiptIsNew
<1> QED
  BY <1>1, InitInv, NextInv, PTL DEF Spec

\* An entry listed all through the last look is found, if both lists could be read.
THEOREM EntriesAreFound == Spec => []EntryIsFound
<1>1. IInv => EntryIsFound
  BY DEF IInv, Complete, EntryIsFound
<1> QED
  BY <1>1, InitInv, NextInv, PTL DEF Spec

------------------------------------------------------------------------------
(* A snapshot of the account *)

\* A ticket once shown as a position is never listed as an order again.
SnapshotInv ==
    /\ page \in {"idle", "positions", "orders", "whole"}
    /\ page \in {"orders", "whole"} =>
         /\ shownPositions \subseteq 1 .. made
         /\ shownPositions \intersect (orders \union hidden) = {}
    /\ ShownOnce

LEMMA SnapshotStepIsStep == [SnapshotNext]_picture => [Next]_vars
BY DEF SnapshotNext, picture, SnapshotBegins, SnapshotReads, SnapshotReadsPositions,
       SnapshotReadsOrders, SnapshotFails, AccountMoves, Next

\* Whatever the account does, no ticket becomes an order that could be shown already.
LEMMA NoOrderAgain ==
    ASSUME TypeOK, AccountMoves, NEW S, S \subseteq 1 .. made,
           S \intersect (orders \union hidden) = {}
    PROVE  S \subseteq 1 .. made' /\ S \intersect (orders' \union hidden') = {}
<1>1. CASE Outside
  <2>1. 1 .. made \subseteq 1 .. made' /\ made' \notin 1 .. made
    BY <1>1, MakeWidens DEF Outside
  <2>2. orders' = orders /\ hidden' = hidden \union {made'}
    BY <1>1 DEF Outside, Make
  <2> QED
    BY <2>1, <2>2
<1>2. ASSUME NEW t \in Tickets, Show(t)
      PROVE  S \subseteq 1 .. made' /\ S \intersect (orders' \union hidden') = {}
  BY <1>2 DEF Show, Appear, Listed
<1>3. ASSUME NEW t \in Tickets, Fill(t) \/ Gone(t)
      PROVE  S \subseteq 1 .. made' /\ S \intersect (orders' \union hidden') = {}
  BY <1>3 DEF Fill, Gone, Listed
<1> QED
  BY <1>1, <1>2, <1>3 DEF AccountMoves

LEMMA SnapshotStep ==
    ASSUME TypeOK, SnapshotInv, [SnapshotNext]_picture
    PROVE  SnapshotInv'
<1>1. CASE SnapshotBegins
  BY <1>1 DEF SnapshotBegins, SnapshotInv, ShownOnce
<1>2. CASE SnapshotReadsPositions
  <2>1. /\ page' = "orders" /\ shownPositions' = positions
        /\ UNCHANGED <<orders, positions, hidden, made>>
    BY <1>2 DEF SnapshotReadsPositions, vars, account
  <2>2. positions \subseteq 1 .. made /\ positions \intersect (orders \union hidden) = {}
    BY DEF TypeOK, Held
  <2> QED
    BY <2>1, <2>2 DEF SnapshotInv, ShownOnce
<1>3. CASE SnapshotReadsOrders
  BY <1>3 DEF SnapshotReadsOrders, SnapshotInv, ShownOnce, vars, account
<1>4. CASE SnapshotFails
  BY <1>4 DEF SnapshotFails, SnapshotInv, ShownOnce
<1>5. CASE AccountMoves
  <2>1. UNCHANGED <<page, shownPositions, shownOrders>>
    BY <1>5 DEF AccountMoves
  <2>2. page \in {"orders", "whole"} =>
          /\ shownPositions \subseteq 1 .. made'
          /\ shownPositions \intersect (orders' \union hidden') = {}
    BY <1>5, NoOrderAgain DEF SnapshotInv
  <2> QED
    BY <2>1, <2>2 DEF SnapshotInv, ShownOnce
<1>6. CASE UNCHANGED picture
  BY <1>6 DEF picture, snapshot, vars, account, SnapshotInv, ShownOnce
<1> QED
  BY <1>1, <1>2, <1>3, <1>4, <1>5, <1>6 DEF SnapshotNext, SnapshotReads

\* No ticket is shown both as an order and as a position, however orders fill between
\* the two requests of a snapshot: positions are read first (snapshot).
THEOREM TicketsShownOnce == SnapshotSpec => []ShownOnce
<1>1. SnapshotInit => TypeOK /\ SnapshotInv
  BY InitType DEF SnapshotInit, SnapshotInv, ShownOnce
<1>2. TypeOK /\ SnapshotInv /\ [SnapshotNext]_picture => (TypeOK /\ SnapshotInv)'
  BY NextType, SnapshotStepIsStep, SnapshotStep
<1>3. SnapshotInv => ShownOnce
  BY DEF SnapshotInv
<1> QED
  BY <1>1, <1>2, <1>3, PTL DEF SnapshotSpec

------------------------------------------------------------------------------
(* Windows of candles and deals: what is shown, the oldest first *)

LEMMA OldestComeFirst ==
    ASSUME NEW S \in SUBSET Int, IsFiniteSet(S)
    PROVE  /\ Cardinality(S) \in Nat
           /\ OldestFirst(S) \in [1 .. Cardinality(S) -> S]
           /\ \A i, j \in 1 .. Cardinality(S) : i < j => OldestFirst(S)[i] < OldestFirst(S)[j]
           /\ \A t \in S : \E i \in 1 .. Cardinality(S) : OldestFirst(S)[i] = t
<1> DEFINE n == Cardinality(S)
           P(r) == {s \in S : s < r}
           rank == [r \in S |-> Cardinality(P(r))]
           w == OldestFirst(S)
<1>n. n \in Nat
  BY FS_CardinalityType
<1>4. \A r \in S : IsFiniteSet(P(r)) /\ rank[r] \in Int /\ 0 <= rank[r] /\ rank[r] < n
  <2> TAKE r \in S
  <2>1. P(r) \subseteq S /\ r \notin P(r)
    OBVIOUS
  <2>3. rank[r] = Cardinality(P(r))
    OBVIOUS
  <2> HIDE DEF P, rank, n
  <2>2. /\ IsFiniteSet(P(r)) /\ Cardinality(P(r)) <= n /\ (n = Cardinality(P(r)) => S = P(r))
    BY <2>1, FS_Subset DEF n
  <2>4. Cardinality(P(r)) \in Nat /\ Cardinality(P(r)) # n
    BY <2>1, <2>2, FS_CardinalityType
  <2> QED
    BY <1>n, <2>2, <2>3, <2>4
<1>5. \A q, r \in S : q < r => rank[q] < rank[r]
  <2> SUFFICES ASSUME NEW q \in S, NEW r \in S, q < r PROVE rank[q] < rank[r]
    OBVIOUS
  <2>0. S \subseteq Int /\ q \in Int /\ r \in Int
    OBVIOUS
  <2>5. ASSUME NEW s \in S, s < q PROVE s < r
    BY <2>0, <2>5
  <2>6. q \in P(r) /\ q \notin P(q)
    BY <2>0
  <2>1. P(q) \subseteq P(r) /\ q \in P(r) /\ q \notin P(q)
    BY <2>5, <2>6
  <2>2. IsFiniteSet(P(r)) /\ rank[r] \in Int /\ rank[q] \in Int
    BY <1>4
  <2>4. rank[q] = Cardinality(P(q)) /\ rank[r] = Cardinality(P(r))
    OBVIOUS
  <2> HIDE DEF P, rank
  <2>3. rank[q] <= rank[r] /\ (rank[r] = rank[q] => P(r) = P(q))
    BY <2>1, <2>2, <2>4, FS_Subset
  <2> QED
    BY <2>1, <2>2, <2>3
<1>c. \A r \in S : rank[r] = Cardinality(P(r))
  OBVIOUS
<1>w. w = [k \in 1 .. n |-> CHOOSE r \in S : Cardinality(P(r)) = k - 1]
  BY DEF OldestFirst
<1> HIDE DEF rank, n, P, w
<1>6. ASSUME NEW q \in S, NEW r \in S, rank[q] = rank[r] PROVE q = r
  BY <1>4, <1>5, <1>6
<1> DEFINE f == [r \in S |-> rank[r] + 1]
<1>7. f \in Injection(S, 1 .. n)
  <2>1. ASSUME NEW r \in S PROVE rank[r] + 1 \in 1 .. n
    BY <1>n, <1>4
  <2>2. ASSUME NEW q \in S, NEW r \in S, rank[q] + 1 = rank[r] + 1 PROVE q = r
    <3>1. rank[q] \in Int /\ rank[r] \in Int
      BY <1>4
    <3>2. rank[q] = rank[r]
      BY <2>2, <3>1
    <3> QED
      BY <1>6, <3>2
  <2> QED
    BY <2>1, <2>2 DEF Injection, IsInjective
<1>8. f \in Surjection(S, 1 .. n)
  <2>1. IsFiniteSet(1 .. n) /\ Cardinality(1 .. n) = n
    BY <1>n, FS_Interval
  <2>2. IsFiniteSet(S) /\ n = Cardinality(S)
    BY DEF n
  <2> HIDE DEF f
  <2> QED
    BY <1>7, <2>1, <2>2, FS_Injection
<1>9. ASSUME NEW i \in 1 .. n PROVE \E r \in S : rank[r] = i - 1
  <2>1. PICK r \in S : f[r] = i
    BY <1>8 DEF Surjection
  <2>2. rank[r] + 1 = i /\ rank[r] \in Int
    BY <1>4, <2>1
  <2>3. rank[r] = i - 1
    BY <1>n, <2>2
  <2> QED
    BY <2>3
<1>10. /\ DOMAIN w = 1 .. n /\ w = [k \in 1 .. n |-> w[k]]
       /\ \A i \in 1 .. n : w[i] \in S /\ rank[w[i]] = i - 1
  <2>2. ASSUME NEW i \in 1 .. n PROVE w[i] \in S /\ rank[w[i]] = i - 1
    <3>1. \E r \in S : Cardinality(P(r)) = i - 1
      BY <1>c, <1>9
    <3>2. w[i] \in S /\ Cardinality(P(w[i])) = i - 1
      BY <1>w, <3>1
    <3> QED
      BY <1>c, <3>2
  <2> QED
    BY <1>w, <2>2
<1>11. \A r \in S : \E i \in 1 .. n : w[i] = r
  <2> SUFFICES ASSUME NEW r \in S PROVE \E i \in 1 .. n : w[i] = r
    OBVIOUS
  <2>1. rank[r] + 1 \in 1 .. n /\ (rank[r] + 1) - 1 = rank[r]
    BY <1>n, <1>4
  <2>2. w[rank[r] + 1] \in S /\ rank[w[rank[r] + 1]] = rank[r]
    BY <1>10, <2>1
  <2> QED
    BY <1>6, <2>1, <2>2
<1>12. ASSUME NEW i \in 1 .. n, NEW j \in 1 .. n, i < j PROVE w[i] < w[j]
  <2>1. w[i] \in S /\ w[j] \in S /\ rank[w[i]] = i - 1 /\ rank[w[j]] = j - 1
    BY <1>10
  <2>3. rank[w[i]] < rank[w[j]] /\ i \in Int /\ j \in Int
    BY <1>n, <1>12, <2>1
  <2>4. w[i] # w[j] /\ ~(rank[w[j]] < rank[w[i]])
    BY <1>4, <2>1, <2>3
  <2>5. ~(w[j] < w[i])
    BY <1>5, <2>1, <2>4
  <2>2. w[i] \in Int /\ w[j] \in Int /\ w[i] # w[j] /\ ~(w[j] < w[i])
    BY <2>1, <2>4, <2>5
  <2> QED
    BY <2>2
<1>13. w \in [1 .. n -> S]
  BY <1>10
<1> QED
  BY <1>n, <1>11, <1>12, <1>13 DEF w, n

CandlesTyped ==
    /\ ahead \in Shifts /\ hour \in Nat \ {0}
    /\ IsFiniteSet(formed) /\ formed \subseteq 0 .. hour + ahead

CandlesInv == CandlesTyped /\ WindowsAreTrue

LEMMA TimesInUTC ==
    ASSUME CandlesTyped
    PROVE  /\ ahead \in Int /\ ahead >= -2 /\ formed \subseteq Nat /\ Traded \subseteq Int
           /\ \A t \in Traded : t \in Int /\ t + ahead \in formed /\ t + ahead >= 0
           /\ \A from, to \in Int :
                \A t : t \in InUTC(candles_between(from, to)) <=>
                         t \in Traded /\ t + ahead >= from /\ t + ahead <= LaterOf(to, 0)
<1>1. ahead \in Int /\ ahead >= -2 /\ hour \in Nat
  BY CandlesAssumption DEF CandlesTyped
<1>2. formed \subseteq Nat
  <2>1. hour + ahead \in Int
    BY <1>1
  <2>2. 0 .. hour + ahead \subseteq Nat
    BY <2>1
  <2> QED
    BY <2>2 DEF CandlesTyped
<1>3. ASSUME NEW t \in Traded PROVE t \in Int /\ t + ahead \in formed /\ t + ahead >= 0
  <2>1. PICK s \in formed : t = s - ahead
    BY DEF Traded
  <2>2. s \in Nat
    BY <1>2
  <2>3. t + ahead = s
    BY <1>1, <2>1, <2>2
  <2> QED
    BY <1>1, <2>1, <2>2, <2>3
<1>4. ASSUME NEW from \in Int, NEW to \in Int, NEW t,
             t \in InUTC(candles_between(from, to))
      PROVE  t \in Traded /\ t + ahead >= from /\ t + ahead <= LaterOf(to, 0)
  <2>1. PICK s \in candles_between(from, to) : t = s - ahead
    BY <1>4 DEF InUTC
  <2>2. s \in formed /\ s >= LaterOf(from, 0) /\ s <= LaterOf(to, 0) /\ s \in Nat
    BY <1>2, <2>1 DEF candles_between
  <2>3. s >= from /\ t + ahead = s
    BY <1>1, <2>1, <2>2 DEF LaterOf
  <2>4. t \in Traded
    BY <2>1, <2>2 DEF Traded
  <2> QED
    BY <2>2, <2>3, <2>4
<1>5. ASSUME NEW from \in Int, NEW to \in Int, NEW t,
             t \in Traded, t + ahead >= from, t + ahead <= LaterOf(to, 0)
      PROVE  t \in InUTC(candles_between(from, to))
  <2>1. t \in Int /\ t + ahead \in formed /\ t + ahead >= 0
    BY <1>3, <1>5
  <2> DEFINE s == t + ahead
  <2>2. s \in formed /\ s >= LaterOf(from, 0) /\ s <= LaterOf(to, 0) /\ t = s - ahead
    BY <1>1, <1>5, <2>1 DEF LaterOf
  <2> HIDE DEF s
  <2>3. s \in candles_between(from, to)
    BY <2>2 DEF candles_between
  <2> QED
    BY <2>2, <2>3 DEF InUTC
<1>6. \A from, to \in Int :
         \A t : t \in InUTC(candles_between(from, to)) <=>
                  t \in Traded /\ t + ahead >= from /\ t + ahead <= LaterOf(to, 0)
  BY <1>4, <1>5
<1> QED
  BY <1>1, <1>2, <1>3, <1>6

LEMMA TradedFinite ==
    ASSUME CandlesTyped, NEW S \in SUBSET Traded
    PROVE  S \in SUBSET Int /\ IsFiniteSet(S)
<1> DEFINE f == [s \in formed |-> s - ahead]
<1>1. f \in Surjection(formed, Traded)
  BY DEF Surjection, Traded
<1>2. IsFiniteSet(formed)
  BY DEF CandlesTyped
<1> HIDE DEF f
<1>3. IsFiniteSet(Traded)
  BY <1>1, <1>2, FS_Surjection
<1>4. Traded \subseteq Int
  BY TimesInUTC
<1> QED
  BY <1>3, <1>4, FS_Subset

LEMMA RowsShow ==
    ASSUME CandlesTyped, NEW S \in SUBSET Traded
    PROVE  {OldestFirst(S)[i] : i \in DOMAIN OldestFirst(S)} = S
<1>1. S \in SUBSET Int /\ IsFiniteSet(S)
  BY TradedFinite
<1> DEFINE w == OldestFirst(S)
           n == Cardinality(S)
<1>2. w \in [1 .. n -> S] /\ \A t \in S : \E i \in 1 .. n : w[i] = t
  BY <1>1, OldestComeFirst
<1> HIDE DEF w, n
<1>3. {w[i] : i \in DOMAIN w} = S
  BY <1>2
<1> QED
  BY <1>3 DEF w

\* What a step that answers leaves, and what it gives.
LEMMA TypedAnswer ==
    ASSUME CandlesTyped, NEW kind, NEW from, NEW to, NEW count, NEW rows,
           Answered(kind, from, to, count, rows)
    PROVE  /\ CandlesTyped' /\ Traded' = Traded /\ hour' = hour
           /\ window'.kind = kind /\ window'.from = from /\ window'.to = to
           /\ window'.count = count /\ window'.rows = rows
           /\ Shown' = {rows[i] : i \in DOMAIN rows}
<1>1. /\ window' = [kind |-> kind, from |-> from, to |-> to, count |-> count, rows |-> rows]
      /\ ahead' = ahead /\ hour' = hour /\ formed' = formed
  BY DEF Answered
<1>2. CandlesTyped' /\ Traded' = Traded
  BY <1>1 DEF CandlesTyped, Traded
<1>3. /\ window'.kind = kind /\ window'.from = from /\ window'.to = to
      /\ window'.count = count /\ window'.rows = rows
  BY <1>1
<1> QED
  BY <1>1, <1>2, <1>3 DEF Shown

LEMMA HistoryIsFull ==
    ASSUME CandlesTyped, NEW from \in AskedTimes, NEW to \in AskedTimes, HistoryWindow(from, to)
    PROVE  CandlesInv'
<1> DEFINE start == LaterOf(from, to - Span)
           S == {t \in InUTC(candles_between(start + ahead, to + ahead)) : t >= start /\ t < to}
<1>1. Answered("history", from, <<to>>, 0, OldestFirst(S))
  BY DEF HistoryWindow
<1>2. from \in Int /\ to \in Int /\ Span \in Int /\ ahead \in Int
  BY CandlesAssumption, TimesInUTC
<1>3. start \in Int /\ \A t \in Int : t >= start <=> t >= from /\ t >= to - Span
  BY <1>2 DEF LaterOf
<1> HIDE DEF start
<1>4. \A t : t \in InUTC(candles_between(start + ahead, to + ahead)) <=>
               t \in Traded /\ t + ahead >= start + ahead /\ t + ahead <= LaterOf(to + ahead, 0)
  BY <1>2, <1>3, TimesInUTC
<1>5. \A t \in Traded : t \in Int
  BY TimesInUTC
<1>6. S = {t \in Traded : t >= from /\ t < to /\ t >= to - Span}
  <2>1. ASSUME NEW t \in S PROVE t \in Traded /\ t >= from /\ t < to /\ t >= to - Span
    BY <1>2, <1>3, <1>4, <1>5, <2>1
  <2>2. ASSUME NEW t \in Traded, t >= from, t < to, t >= to - Span PROVE t \in S
    <3>1. t \in Int /\ t >= start
      BY <1>3, <1>5, <2>2
    <3>2. t + ahead >= start + ahead /\ t + ahead <= LaterOf(to + ahead, 0)
      BY <1>2, <1>3, <2>2, <3>1 DEF LaterOf
    <3> QED
      BY <1>4, <2>2, <3>1, <3>2
  <2> QED
    BY <2>1, <2>2
<1>7. /\ CandlesTyped' /\ Traded' = Traded /\ window'.kind = "history" /\ window'.from = from
      /\ window'.to = <<to>> /\ Shown' = {OldestFirst(S)[i] : i \in DOMAIN OldestFirst(S)}
  <2> HIDE DEF S
  <2> QED
    BY <1>1, TypedAnswer
<1>8. S \in SUBSET Traded
  BY <1>6
<1> HIDE DEF S
<1>9. Shown' = S
  BY <1>7, <1>8, RowsShow
<1>10. window'.to[1] = to
  BY <1>7
<1>11. WindowIsFull' /\ LatestAreLast'
  <2>1. WindowIsFull'
    BY <1>6, <1>7, <1>9, <1>10 DEF WindowIsFull
  <2>2. LatestAreLast'
    BY <1>7 DEF LatestAreLast
  <2> QED
    BY <2>1, <2>2
<1> QED
  BY <1>7, <1>11 DEF CandlesInv, WindowsAreTrue

LEMMA DealsAreFull ==
    ASSUME CandlesTyped, NEW from \in AskedTimes, NEW to \in AskedTimes, DealsWindow(from, to)
    PROVE  CandlesInv'
<1> DEFINE S == {t \in InUTC(candles_between(from + ahead, to + ahead)) : t >= from /\ t < to}
<1>1. Answered("deals", from, <<to>>, 0, OldestFirst(S))
  BY DEF DealsWindow
<1>2. from \in Int /\ to \in Int /\ ahead \in Int
  BY CandlesAssumption, TimesInUTC
<1>4. \A t : t \in InUTC(candles_between(from + ahead, to + ahead)) <=>
               t \in Traded /\ t + ahead >= from + ahead /\ t + ahead <= LaterOf(to + ahead, 0)
  BY <1>2, TimesInUTC
<1>5. \A t \in Traded : t \in Int
  BY TimesInUTC
<1>6. S = {t \in Traded : t >= from /\ t < to}
  <2>1. ASSUME NEW t \in S PROVE t \in Traded /\ t >= from /\ t < to
    BY <1>4, <2>1
  <2>2. ASSUME NEW t \in Traded, t >= from, t < to PROVE t \in S
    <3>1. t \in Int
      BY <1>5, <2>2
    <3>2. t + ahead >= from + ahead /\ t + ahead <= LaterOf(to + ahead, 0)
      BY <1>2, <2>2, <3>1 DEF LaterOf
    <3> QED
      BY <1>4, <2>2, <3>1, <3>2
  <2> QED
    BY <2>1, <2>2
<1>7. /\ CandlesTyped' /\ Traded' = Traded /\ window'.kind = "deals" /\ window'.from = from
      /\ window'.to = <<to>> /\ Shown' = {OldestFirst(S)[i] : i \in DOMAIN OldestFirst(S)}
  <2> HIDE DEF S
  <2> QED
    BY <1>1, TypedAnswer
<1>8. S \in SUBSET Traded
  BY <1>6
<1> HIDE DEF S
<1>9. Shown' = S
  BY <1>7, <1>8, RowsShow
<1>10. window'.to[1] = to
  BY <1>7
<1>11. WindowIsFull' /\ LatestAreLast'
  <2>1. WindowIsFull'
    BY <1>6, <1>7, <1>9, <1>10 DEF WindowIsFull
  <2>2. LatestAreLast'
    BY <1>7 DEF LatestAreLast
  <2> QED
    BY <2>1, <2>2
<1> QED
  BY <1>7, <1>11 DEF CandlesInv, WindowsAreTrue

\* The last rows: no more than bounds for, all if there are fewer, and none is passed over.
LEMMA LastRows ==
    ASSUME NEW S \in SUBSET Int, IsFiniteSet(S), NEW count \in Nat
    PROVE  LET r == TheLast(count, OldestFirst(S))
           IN  /\ Len(r) \in Nat /\ Len(r) <= count /\ {r[i] : i \in DOMAIN r} \subseteq S
               /\ \A t \in S \ {r[i] : i \in DOMAIN r} : \A s \in {r[i] : i \in DOMAIN r} : t < s
               /\ Len(r) < count => {r[i] : i \in DOMAIN r} = S
<1> DEFINE w == OldestFirst(S)
           n == Cardinality(S)
           r == TheLast(count, w)
           shown == {r[i] : i \in DOMAIN r}
<1>1. /\ n \in Nat /\ w \in [1 .. n -> S]
      /\ \A i, j \in 1 .. n : i < j => w[i] < w[j]
      /\ \A t \in S : \E i \in 1 .. n : w[i] = t
  BY OldestComeFirst
<1> HIDE DEF n, w
<1>2. w \in Seq(S) /\ Len(w) = n /\ DOMAIN w = 1 .. n
  BY <1>1
<1>3. r = IF n - count > 0 THEN SubSeq(w, n - count + 1, n) ELSE w
  BY <1>2 DEF TheLast
<1>4. \A x : x \in shown <=> \E i \in DOMAIN r : r[i] = x
  OBVIOUS
<1> HIDE DEF r, shown
<1>5. CASE n - count > 0
  <2>1. r = SubSeq(w, n - count + 1, n)
    BY <1>3, <1>5
  <2>2. n - count + 1 \in Int /\ n \in Int /\ n - count + 1 <= n + 1 /\ n - (n - count + 1) + 1 = count
    BY <1>1, <1>5
  <2>3. \A i \in n - count + 1 .. n : w[i] \in S
    BY <1>1, <1>5
  <2>4. /\ r \in Seq(S)
        /\ Len(r) = IF n - count + 1 <= n THEN n - (n - count + 1) + 1 ELSE 0
        /\ \A i \in 1 .. n - (n - count + 1) + 1 : r[i] = w[n - count + 1 + i - 1]
    BY <2>1, <2>2, <2>3, SubSeqProperties
  <2>5. Len(r) = count /\ DOMAIN r = 1 .. count
    <3>1. Len(r) = count
      BY <1>1, <2>2, <2>4
    <3> QED
      BY <2>4, <3>1
  <2>6. \A i \in 1 .. count : n - count + i \in 1 .. n /\ r[i] = w[n - count + i]
    <3> SUFFICES ASSUME NEW i \in 1 .. count
                 PROVE  n - count + i \in 1 .. n /\ r[i] = w[n - count + i]
      OBVIOUS
    <3>1. n - count + i \in 1 .. n /\ n - count + 1 + i - 1 = n - count + i
      BY <1>1, <1>5
    <3>2. r[i] = w[n - count + 1 + i - 1]
      BY <2>2, <2>4
    <3> QED
      BY <3>1, <3>2
  <2>7. shown \subseteq S
    <3> SUFFICES ASSUME NEW x \in shown PROVE x \in S
      OBVIOUS
    <3>1. PICK i \in 1 .. count : r[i] = x
      BY <1>4, <2>5
    <3> QED
      BY <1>1, <2>6, <3>1
  <2>8. ASSUME NEW t \in S \ shown, NEW s \in shown PROVE t < s
    <3>1. PICK i \in 1 .. count : s = w[n - count + i]
      BY <1>4, <2>5, <2>6
    <3>2. PICK j \in 1 .. n : w[j] = t
      BY <1>1
    <3>3. j <= n - count
      <4> SUFFICES ASSUME j > n - count PROVE FALSE
        BY <1>1
      <4>1. j - (n - count) \in 1 .. count /\ n - count + (j - (n - count)) = j
        BY <1>1
      <4>2. r[j - (n - count)] = t
        BY <2>6, <3>2, <4>1
      <4> QED
        BY <1>4, <2>5, <4>1, <4>2
    <3>4. n - count + i \in 1 .. n /\ j < n - count + i
      BY <1>1, <2>6, <3>3
    <3> QED
      BY <1>1, <3>1, <3>2, <3>4
  <2>9. Len(r) \in Nat /\ Len(r) <= count /\ ~(Len(r) < count)
    BY <2>5
  <2> QED
    BY <2>7, <2>8, <2>9 DEF r, shown, w
<1>6. CASE ~(n - count > 0)
  <2>1. r = w
    BY <1>3, <1>6
  <2>2. DOMAIN r = 1 .. n /\ Len(r) = n /\ n <= count
    BY <1>1, <1>2, <1>6, <2>1
  <2>3. \A i \in 1 .. n : r[i] \in S
    BY <1>1, <2>1
  <2>4. \A t \in S : \E i \in 1 .. n : r[i] = t
    BY <1>1, <2>1
  <2>5. shown = S
    BY <1>4, <2>2, <2>3, <2>4
  <2> QED
    BY <1>1, <2>2, <2>5 DEF r, shown, w
<1> QED
  BY <1>5, <1>6

LEMMA LatestCome ==
    ASSUME CandlesTyped, NEW count \in Counts,
           NEW end \in {Now} \union {<<t>> : t \in AskedTimes}, HistoryLatest(count, end)
    PROVE  CandlesInv'
<1> DEFINE bounds == rates_window(count, end)
           S == {t \in InUTC(candles_between(bounds[1], bounds[2])) : end = Now \/ t < end[1]}
           w == OldestFirst(S)
           r == TheLast(count, w)
           last == IF end = Now THEN hour ELSE end[1]
           wanted == {t \in Traded : end = Now \/ t < end[1]}
           weekend == IF end = Now THEN 0 ELSE Weekend
<1>1. Answered("latest", 0, end, count, r)
  BY DEF HistoryLatest
<1>2. /\ ahead \in Int /\ hour \in Int /\ count \in Nat /\ Spare \in Nat /\ Weekend \in Nat
      /\ formed \subseteq 0 .. hour + ahead
  BY CandlesAssumption, TimesInUTC DEF CandlesTyped
<1>3. end = Now \/ \E t \in AskedTimes : end = <<t>>
  OBVIOUS
<1>4. last \in Int /\ (end # Now => end[1] \in Int)
  <2>1. AskedTimes \subseteq Int
    BY CandlesAssumption
  <2> QED
    BY <1>2, <1>3, <2>1
<1>5. /\ bounds[1] \in Int /\ bounds[2] \in Int /\ bounds[2] = last + ahead
      /\ bounds[1] <= last + ahead - count - weekend
  <2>1. CASE end = Now
    BY <1>2, <2>1 DEF rates_window
  <2>2. CASE end # Now
    BY <1>2, <1>4, <2>2 DEF rates_window
  <2> QED
    BY <2>1, <2>2
<1>6. weekend \in Int
  BY <1>2
<1> HIDE DEF bounds
<1>7. \A t : t \in InUTC(candles_between(bounds[1], bounds[2])) <=>
               t \in Traded /\ t + ahead >= bounds[1] /\ t + ahead <= LaterOf(bounds[2], 0)
  BY <1>5, TimesInUTC
<1>8. \A t \in Traded : t \in Int /\ t + ahead \in formed
  BY TimesInUTC
<1>9. S \subseteq wanted
  BY <1>7
<1>10. ASSUME NEW t \in wanted \ S
       PROVE  t \in Int /\ t < last - count - weekend /\ \A s \in S : t < s
  <2>1. t \in Int /\ t \in Traded /\ (end = Now \/ t < end[1])
    BY <1>8, <1>10
  <2>2. t + ahead <= bounds[2] /\ t + ahead <= LaterOf(bounds[2], 0)
    <3>1. CASE end = Now
      <4>1. t + ahead \in 0 .. hour + ahead
        BY <1>2, <1>8, <2>1
      <4> QED
        BY <1>2, <1>5, <3>1, <4>1 DEF LaterOf
    <3>2. CASE end # Now
      BY <1>2, <1>4, <1>5, <2>1, <3>2 DEF LaterOf
    <3> QED
      BY <3>1, <3>2
  <2>3. t \notin InUTC(candles_between(bounds[1], bounds[2]))
    BY <1>10, <2>1
  <2>4. t + ahead < bounds[1]
    BY <1>2, <1>5, <1>7, <2>1, <2>2, <2>3
  <2> HIDE DEF last, weekend
  <2>5. t < last - count - weekend
    BY <1>2, <1>4, <1>5, <1>6, <2>1, <2>4
  <2>6. ASSUME NEW s \in S PROVE t < s
    <3>1. s \in Int /\ s + ahead >= bounds[1]
      BY <1>7, <1>8, <2>6
    <3> QED
      BY <1>2, <1>5, <2>1, <2>4, <3>1
  <2> QED
    BY <2>1, <2>5, <2>6
<1>11. S \in SUBSET Int /\ IsFiniteSet(S)
  <2>1. S \in SUBSET Traded
    BY <1>9
  <2> HIDE DEF S
  <2> QED
    BY <2>1, TradedFinite
<1>12. r = TheLast(count, OldestFirst(S))
  OBVIOUS
<1> HIDE DEF S, w, r
<1>13. /\ CandlesTyped' /\ Traded' = Traded /\ hour' = hour /\ window'.kind = "latest"
       /\ window'.to = end /\ window'.count = count /\ window'.rows = r
       /\ Shown' = {r[i] : i \in DOMAIN r}
  BY <1>1, TypedAnswer
<1>14. /\ Len(r) \in Nat /\ Len(r) <= count /\ Shown' \subseteq S
       /\ \A t \in S \ Shown' : \A s \in Shown' : t < s
       /\ Len(r) < count => Shown' = S
  <2>1. LET q == TheLast(count, OldestFirst(S))
        IN  /\ Len(q) \in Nat /\ Len(q) <= count /\ {q[i] : i \in DOMAIN q} \subseteq S
            /\ \A t \in S \ {q[i] : i \in DOMAIN q} : \A s \in {q[i] : i \in DOMAIN q} : t < s
            /\ Len(q) < count => {q[i] : i \in DOMAIN q} = S
    BY <1>2, <1>11, LastRows
  <2> QED
    BY <1>12, <1>13, <2>1
<1>15. /\ Shown' \subseteq wanted
       /\ \A t \in wanted \ Shown' : \A s \in Shown' : t < s
       /\ Len(r) < count => \A t \in wanted \ Shown' : t < last - count - weekend
  <2> HIDE DEF wanted, last, weekend
  <2>1. Shown' \subseteq wanted
    BY <1>9, <1>14
  <2>2. ASSUME NEW t \in wanted \ Shown', NEW s \in Shown' PROVE t < s
    BY <1>10, <1>14, <2>2
  <2>3. ASSUME Len(r) < count, NEW t \in wanted \ Shown' PROVE t < last - count - weekend
    BY <1>10, <1>14, <2>3
  <2> QED
    BY <2>1, <2>2, <2>3
<1>16. WindowIsFull'
  BY <1>13 DEF WindowIsFull
<1>17. LatestAreLast'
  BY <1>13, <1>14, <1>15 DEF LatestAreLast
<1> QED
  BY <1>13, <1>16, <1>17 DEF CandlesInv, WindowsAreTrue

LEMMA NewCandle ==
    ASSUME CandlesTyped, NEW traded \in BOOLEAN, CandleForms(traded)
    PROVE  CandlesInv'
<1>1. /\ hour' = hour + 1 /\ ahead' = ahead /\ window' = NoWindow
      /\ formed' = IF traded THEN formed \union {hour' + ahead} ELSE formed
  BY DEF CandleForms
<1>2. ahead \in Int /\ ahead >= -2 /\ hour \in Int /\ hour >= 1
  BY TimesInUTC DEF CandlesTyped
<1>3. formed \subseteq 0 .. hour + ahead /\ IsFiniteSet(formed)
  BY DEF CandlesTyped
<1>4. IsFiniteSet(formed')
  BY <1>1, <1>3, FS_AddElement
<1>5. 0 .. hour + ahead \subseteq 0 .. hour' + ahead /\ hour' + ahead \in 0 .. hour' + ahead
  BY <1>1, <1>2
<1>6. formed' \subseteq 0 .. hour' + ahead'
  BY <1>1, <1>3, <1>5
<1>7. CandlesTyped'
  BY <1>1, <1>2, <1>4, <1>6 DEF CandlesTyped
<1>8. WindowsAreTrue'
  BY <1>1 DEF WindowsAreTrue, WindowIsFull, LatestAreLast, NoWindow
<1> QED
  BY <1>7, <1>8 DEF CandlesInv

LEMMA CandlesInvInit == CandlesInit => CandlesInv
<1> SUFFICES ASSUME CandlesInit PROVE CandlesInv
  OBVIOUS
<1>1. ahead \in Shifts /\ hour = 1 /\ formed = {} /\ window = NoWindow
  BY DEF CandlesInit
<1>2. CandlesTyped
  BY <1>1, FS_EmptySet DEF CandlesTyped
<1>3. WindowsAreTrue
  BY <1>1 DEF WindowsAreTrue, WindowIsFull, LatestAreLast, NoWindow
<1> QED
  BY <1>2, <1>3 DEF CandlesInv

LEMMA CandlesInvStep == CandlesInv /\ [CandlesNext]_windows => CandlesInv'
<1> SUFFICES ASSUME CandlesInv, [CandlesNext]_windows PROVE CandlesInv'
  OBVIOUS
<1>1. CandlesTyped
  BY DEF CandlesInv
<1>2. ASSUME NEW traded \in BOOLEAN, CandleForms(traded) PROVE CandlesInv'
  BY <1>1, <1>2, NewCandle
<1>3. ASSUME NEW from \in AskedTimes, NEW to \in AskedTimes, HistoryWindow(from, to)
      PROVE  CandlesInv'
  BY <1>1, <1>3, HistoryIsFull
<1>4. ASSUME NEW from \in AskedTimes, NEW to \in AskedTimes, DealsWindow(from, to)
      PROVE  CandlesInv'
  BY <1>1, <1>4, DealsAreFull
<1>5. ASSUME NEW count \in Counts, NEW end \in {Now} \union {<<t>> : t \in AskedTimes},
             HistoryLatest(count, end)
      PROVE  CandlesInv'
  BY <1>1, <1>5, LatestCome
<1>6. CASE UNCHANGED windows
  <2>1. ahead' = ahead /\ hour' = hour /\ formed' = formed /\ window' = window
    BY <1>6 DEF windows
  <2>2. Shown' = Shown /\ Traded' = Traded
    BY <2>1 DEF Shown, Traded
  <2>3. CandlesTyped'
    BY <1>1, <2>1 DEF CandlesTyped
  <2>4. WindowIsFull /\ LatestAreLast
    BY DEF CandlesInv, WindowsAreTrue
  <2>5. WindowIsFull'
    BY <2>1, <2>2, <2>4 DEF WindowIsFull
  <2>6. LatestAreLast'
    BY <2>1, <2>2, <2>4 DEF LatestAreLast
  <2> QED
    BY <2>3, <2>5, <2>6 DEF CandlesInv, WindowsAreTrue
<1> QED
  BY <1>2, <1>3, <1>4, <1>5, <1>6 DEF CandlesNext

\* For any shift of the server's clock and any times bounds for, a window has all the candles
\* or deals of its time in UTC, of candles at most the last Span, and nothing else; and the
\* latest candles pass none over (session.rs `history`, `deals`, `history_latest`).
THEOREM WindowsAreInUTC == CandlesSpec => []WindowsAreTrue
<1>1. CandlesSpec => []CandlesInv
  BY CandlesInvInit, CandlesInvStep, PTL DEF CandlesSpec
<1>2. CandlesInv => WindowsAreTrue
  BY DEF CandlesInv
<1> QED
  BY <1>1, <1>2, PTL

------------------------------------------------------------------------------
(* The search for a server: places in a list, what is dialled and what is offered *)

LEMMA LeastPlace ==
    ASSUME NEW S \in SUBSET Nat, S # {}
    PROVE  First(S) \in S /\ \A j \in S : First(S) <= j
<1>1. PICK n \in S : TRUE
  OBVIOUS
<1>2. PICK m \in S : \A j \in 0 .. m - 1 : j \notin S
  BY <1>1, LeastNatural
<1>3. \A j \in S : m <= j
  BY <1>2
<1> QED
  BY <1>2, <1>3 DEF First

LEMMA PlacesInOrder ==
    ASSUME NEW S \in SUBSET Int, IsFiniteSet(S)
    PROVE  /\ Cardinality(S) \in Nat
           /\ InOrder(S) \in [1 .. Cardinality(S) -> S]
           /\ \A i, j \in 1 .. Cardinality(S) : i < j => InOrder(S)[i] < InOrder(S)[j]
           /\ \A t \in S : \E i \in 1 .. Cardinality(S) : InOrder(S)[i] = t
<1>1. InOrder(S) = OldestFirst(S)
  BY DEF InOrder, OldestFirst
<1> QED
  BY <1>1, OldestComeFirst

SearchTyped ==
    /\ catalogue \in Seq([name : ServerNames, access : Seq(AccessTexts)])

\* What is listed of a server's access.
AccessList(access) == access \in Seq(AccessTexts)

LEMMA AccessIsText ==
    ASSUME NEW access, AccessList(access)
    PROVE  /\ DOMAIN access \subseteq Nat /\ IsFiniteSet(DOMAIN access)
           /\ DOMAIN access = 1 .. Len(access) /\ Len(access) \in Nat
           /\ \A i \in DOMAIN access : access[i] = Text(access[i].host, access[i].port)
<1>1. access \in Seq(AccessTexts)
  BY DEF AccessList
<1>2. DOMAIN access = 1 .. Len(access) /\ Len(access) \in Nat
  BY <1>1
<1>3. ASSUME NEW i \in DOMAIN access
      PROVE  access[i] = Text(access[i].host, access[i].port)
  <2>1. access[i] \in [host : STRING, port : STRING]
    BY <1>1, <1>3, SearchAssumption
  <2> QED
    BY <2>1 DEF Text
<1>4. IsFiniteSet(1 .. Len(access)) /\ 1 .. Len(access) \subseteq Nat
  BY <1>2, FS_Interval
<1> QED
  BY <1>2, <1>3, <1>4

Hosts(access) ==
    {text.host : text \in {t \in Elements(access) :
                              t.host # "" /\ t.port \in Ports \union {NoPort}}}

LEMMA UsableHosts ==
    ASSUME NEW access, AccessList(access)
    PROVE  /\ Usable(access) \subseteq DOMAIN access
           /\ Usable(access) = {i \in DOMAIN access :
                                   access[i].host # "" /\ access[i].port \in Ports \union {NoPort}}
           /\ \A h : h \in Hosts(access) <=> \E i \in Usable(access) : h = access[i].host
<1>1. Usable(access) = {i \in DOMAIN access :
                           access[i].host # "" /\ access[i].port \in Ports \union {NoPort}}
  BY DEF Usable, HasPort
<1>2. ASSUME NEW h \in Hosts(access) PROVE \E i \in Usable(access) : h = access[i].host
  <2>1. PICK t \in Elements(access) : h = t.host /\ t.host # "" /\ t.port \in Ports \union {NoPort}
    BY <1>2 DEF Hosts
  <2>2. PICK i \in DOMAIN access : t = access[i]
    BY <2>1 DEF Elements
  <2> QED
    BY <1>1, <2>1, <2>2
<1>3. ASSUME NEW i \in Usable(access) PROVE access[i].host \in Hosts(access)
  <2>1. /\ i \in DOMAIN access /\ access[i] \in Elements(access)
        /\ access[i].host # "" /\ access[i].port \in Ports \union {NoPort}
    BY <1>1, <1>3 DEF Elements
  <2> QED
    BY <2>1 DEF Hosts
<1> QED
  BY <1>1, <1>2, <1>3

\* The host of the web port, if one has it.
WebHost(access, host) == \E p \in {WebPort, NoPort} : Text(host, p) \in Elements(access)

LEMMA DialledIsPublished ==
    ASSUME NEW access, AccessList(access)
    PROVE  /\ pick_web_terminal(access) = NotFound <=> Hosts(access) = {}
           /\ pick_web_terminal(access) # NotFound =>
                  /\ \E i \in Usable(access) : pick_web_terminal(access) = Text(access[i].host, NoPort)
                  /\ pick_web_terminal(access).host \in Hosts(access)
                  /\ (\E h \in Hosts(access) : WebHost(access, h)) =>
                         WebHost(access, pick_web_terminal(access).host)
<1> DEFINE web == {i \in Usable(access) : access[i].port \in {WebPort, NoPort}}
           U == Usable(access)
           preferred == IF web # {} THEN web ELSE U
           dialled == pick_web_terminal(access)
<1>1. DOMAIN access \subseteq Nat /\ U \subseteq DOMAIN access /\ web \subseteq U
  BY AccessIsText, UsableHosts
<1>2. \A h : h \in Hosts(access) <=> \E i \in U : h = access[i].host
  BY UsableHosts
<1>3. \A i \in U : access[i].host # ""
  BY UsableHosts
<1>4. dialled = IF preferred = {} THEN NotFound ELSE Text(access[First(preferred)].host, NoPort)
  BY DEF pick_web_terminal
<1>p. preferred = IF web # {} THEN web ELSE U
  OBVIOUS
<1>w. \A i : i \in web <=> i \in U /\ access[i].port \in {WebPort, NoPort}
  OBVIOUS
<1> HIDE DEF web, U, dialled, preferred
<1>5. CASE U = {}
  <2>1. dialled = NotFound
    BY <1>1, <1>4, <1>5, <1>p
  <2>2. Hosts(access) = {}
    BY <1>2, <1>5
  <2> QED
    BY <2>1, <2>2 DEF dialled
<1>6. ASSUME NEW i \in U, dialled = Text(access[i].host, NoPort)
      PROVE  /\ dialled # NotFound /\ dialled.host = access[i].host /\ dialled.host \in Hosts(access)
             /\ Hosts(access) # {}
  <2>1. access[i].host \in Hosts(access)
    BY <1>2
  <2> QED
    BY <1>3, <1>6, <2>1 DEF Text, NotFound
<1>7. \A i \in web : WebHost(access, access[i].host)
  <2> SUFFICES ASSUME NEW i \in web PROVE WebHost(access, access[i].host)
    OBVIOUS
  <2>1. i \in DOMAIN access /\ access[i] = Text(access[i].host, access[i].port)
    BY <1>1, AccessIsText
  <2>2. access[i] \in Elements(access) /\ access[i].port \in {WebPort, NoPort}
    BY <1>w, <2>1 DEF Elements
  <2> QED
    BY <2>1, <2>2 DEF WebHost
<1>8. ASSUME NEW h \in Hosts(access), WebHost(access, h) PROVE web # {}
  <2>1. PICK p \in {WebPort, NoPort} : Text(h, p) \in Elements(access)
    BY <1>8 DEF WebHost
  <2>2. PICK i \in DOMAIN access : access[i] = Text(h, p)
    BY <2>1 DEF Elements
  <2>3. access[i].host = h /\ access[i].port = p
    BY <2>2 DEF Text
  <2>4. h # ""
    BY <1>2, <1>3
  <2>5. p \in Ports \union {NoPort}
    BY DEF Ports
  <2>6. i \in U
    BY <2>2, <2>3, <2>4, <2>5, UsableHosts DEF U
  <2> QED
    BY <1>w, <2>3, <2>6
<1>9. CASE U # {} /\ web # {}
  <2>1. web \in SUBSET Nat
    BY <1>1
  <2>2. First(web) \in web
    BY <1>9, <2>1, LeastPlace
  <2>3. First(web) \in U /\ dialled = Text(access[First(web)].host, NoPort)
    BY <1>1, <1>4, <1>9, <1>p, <2>2
  <2>4. /\ dialled # NotFound /\ dialled.host = access[First(web)].host
        /\ dialled.host \in Hosts(access) /\ Hosts(access) # {}
    BY <1>6, <2>3
  <2>5. WebHost(access, dialled.host)
    BY <1>7, <2>2, <2>4
  <2> QED
    BY <2>3, <2>4, <2>5 DEF U, dialled
<1>10. CASE U # {} /\ web = {}
  <2>1. U \in SUBSET Nat
    BY <1>1
  <2>2. First(U) \in U
    BY <1>10, <2>1, LeastPlace
  <2>3. dialled = Text(access[First(U)].host, NoPort)
    BY <1>4, <1>10, <1>p
  <2>4. /\ dialled # NotFound /\ dialled.host = access[First(U)].host
        /\ dialled.host \in Hosts(access) /\ Hosts(access) # {}
    BY <1>6, <2>2, <2>3
  <2> QED
    BY <1>8, <1>10, <2>2, <2>3, <2>4 DEF U, dialled
<1> QED
  BY <1>5, <1>9, <1>10

\* What was offered, in the order of the list.
Points(access) == LET added == InOrder(Added(access))
                  IN  [n \in DOMAIN added |-> Offered(access[added[n]])]

LEMMA OfferedOnce ==
    ASSUME NEW access, AccessList(access)
    PROVE  /\ \A i \in DOMAIN access :
                  access[i] # EmptyText => Offered(access[i]) \in Elements(Points(access))
           /\ \A m, n \in DOMAIN Points(access) : Points(access)[m] = Points(access)[n] => m = n
<1> DEFINE A == Added(access)
           w == InOrder(A)
           count == Cardinality(A)
           points == Points(access)
<1>1. /\ DOMAIN access \subseteq Nat /\ IsFiniteSet(DOMAIN access)
      /\ DOMAIN access = 1 .. Len(access) /\ Len(access) \in Nat
  BY AccessIsText
<1>2. \A i : i \in A <=> /\ i \in DOMAIN access /\ access[i] # EmptyText
                         /\ \A j \in 1 .. i - 1 :
                               access[j] # EmptyText => Offered(access[j]) # Offered(access[i])
  BY DEF Added
<1>3. A \in SUBSET Int /\ IsFiniteSet(A)
  <2>1. A \subseteq DOMAIN access
    BY <1>2
  <2> HIDE DEF A
  <2> QED
    BY <1>1, <2>1, FS_Subset
<1>4. /\ count \in Nat /\ w \in [1 .. count -> A]
      /\ \A i, j \in 1 .. count : i < j => w[i] < w[j]
      /\ \A t \in A : \E i \in 1 .. count : w[i] = t
  BY <1>3, PlacesInOrder
<1>5. points = [n \in DOMAIN w |-> Offered(access[w[n]])]
  BY DEF Points
<1> HIDE DEF A, w, count, points
<1>6. DOMAIN points = 1 .. count /\ \A n \in 1 .. count : points[n] = Offered(access[w[n]])
  BY <1>4, <1>5
<1>7. ASSUME NEW i \in DOMAIN access, access[i] # EmptyText
      PROVE  Offered(access[i]) \in Elements(points)
  <2> DEFINE same == {j \in DOMAIN access : access[j] # EmptyText /\ Offered(access[j]) = Offered(access[i])}
  <2>1. same \in SUBSET Nat /\ i \in same
    BY <1>1, <1>7
  <2>2. PICK m \in same : \A j \in 0 .. m - 1 : j \notin same
    BY <2>1, LeastNatural
  <2>3. m \in DOMAIN access /\ access[m] # EmptyText /\ Offered(access[m]) = Offered(access[i])
    BY <2>2
  <2>4. ASSUME NEW j \in 1 .. m - 1, access[j] # EmptyText
        PROVE  Offered(access[j]) # Offered(access[m])
    <3>1. m \in 1 .. Len(access) /\ Len(access) \in Nat
      BY <1>1, <2>3
    <3>2. j \in 1 .. Len(access) /\ j \in 0 .. m - 1
      BY <3>1
    <3>3. j \in DOMAIN access /\ j \notin same
      BY <1>1, <2>2, <3>2
    <3> QED
      BY <2>3, <2>4, <3>3
  <2>5. m \in A
    BY <1>2, <2>3, <2>4
  <2>6. PICK n \in 1 .. count : w[n] = m
    BY <1>4, <2>5
  <2>7. points[n] = Offered(access[i]) /\ n \in DOMAIN points
    BY <1>6, <2>3, <2>6
  <2> QED
    BY <2>7 DEF Elements
<1>8. ASSUME NEW m \in 1 .. count, NEW n \in 1 .. count, m < n
      PROVE  points[m] # points[n]
  <2>1. w[m] \in A /\ w[n] \in A /\ w[m] < w[n]
    BY <1>4, <1>8
  <2>2. w[m] \in 1 .. w[n] - 1 /\ access[w[m]] # EmptyText
    <3>1. w[m] \in 1 .. Len(access) /\ w[n] \in 1 .. Len(access)
      BY <1>1, <1>2, <2>1
    <3>2. w[m] \in 1 .. w[n] - 1
      BY <1>1, <2>1, <3>1
    <3> QED
      BY <1>2, <2>1, <3>2
  <2>3. Offered(access[w[m]]) # Offered(access[w[n]])
    BY <1>2, <2>1, <2>2
  <2> QED
    BY <1>6, <2>3
<1>9. ASSUME NEW m \in DOMAIN points, NEW n \in DOMAIN points, points[m] = points[n] PROVE m = n
  <2>1. m \in 1 .. count /\ n \in 1 .. count
    BY <1>6, <1>9
  <2>2. ~(m < n) /\ ~(n < m)
    BY <1>8, <1>9, <2>1
  <2> QED
    BY <1>4, <2>1, <2>2
<1> QED
  BY <1>7, <1>9 DEF points

LEMMA UsableOffered ==
    ASSUME NEW access, AccessList(access), NEW i \in Usable(access)
    PROVE  Text(access[i].host, NoPort) \in Elements(Points(access))
<1>1. /\ i \in DOMAIN access /\ access[i].host # ""
      /\ access[i].port \in Ports \union {NoPort}
  BY UsableHosts
<1>2. access[i] = Text(access[i].host, access[i].port)
  BY <1>1, AccessIsText
<1>3. access[i] # EmptyText
  <2>1. EmptyText.host = ""
    BY DEF EmptyText, Text
  <2> QED
    BY <1>1, <2>1
<1>4. Offered(access[i]) = Text(access[i].host, NoPort)
  <2>1. CASE access[i].port \in Ports
    BY <1>1, <2>1 DEF Offered, HasPort
  <2>2. CASE access[i].port \notin Ports
    <3>1. access[i].port = NoPort
      BY <1>1, <2>2
    <3> QED
      BY <1>2, <2>2, <3>1 DEF Offered, HasPort
  <2> QED
    BY <2>1, <2>2
<1> QED
  BY <1>1, <1>3, <1>4, OfferedOnce

LEMMA SearchKeepsTypes == SearchSpec => []SearchTyped
<1>1. SearchInit => SearchTyped
  BY DEF SearchInit, SearchTyped
<1>2. SearchTyped /\ [SearchNext]_catalogue => SearchTyped'
  <2> SUFFICES ASSUME SearchTyped, [SearchNext]_catalogue PROVE SearchTyped'
    OBVIOUS
  <2> DEFINE Server == [name : ServerNames, access : Seq(AccessTexts)]
  <2>0. catalogue \in Seq(Server)
    BY DEF SearchTyped
  <2>1. CASE ListServer
    <3>1. PICK name \in ServerNames : catalogue' = Append(catalogue, [name |-> name, access |-> <<>>])
      BY <2>1 DEF ListServer
    <3>2. [name |-> name, access |-> <<>>] \in Server
      OBVIOUS
    <3> HIDE DEF Server
    <3>3. Append(catalogue, [name |-> name, access |-> <<>>]) \in Seq(Server)
      BY <2>0, <3>2
    <3> QED
      BY <3>1, <3>3 DEF SearchTyped, Server
  <2>2. CASE ListAccess
    <3>1. PICK text \in AccessTexts :
              catalogue' = [catalogue EXCEPT ![Len(catalogue)].access = Append(@, text)]
      BY <2>2 DEF ListAccess
    <3>2. catalogue # <<>>
      BY <2>2 DEF ListAccess
    <3> DEFINE n == Len(catalogue)
               grown == [catalogue[n] EXCEPT !.access = Append(@, text)]
    <3>3. n \in 1 .. n /\ n \in Nat /\ DOMAIN catalogue = 1 .. n
      BY <2>0, <3>2
    <3>4. catalogue[n] \in Server
      <4> HIDE DEF Server, n
      <4> QED
        BY <2>0, <3>3
    <3>5. Append(catalogue[n].access, text) \in Seq(AccessTexts)
      BY <3>4
    <3>6. grown \in Server
      BY <3>4, <3>5
    <3>7. catalogue' = [catalogue EXCEPT ![n] = grown]
      BY <3>1
    <3> HIDE DEF Server, grown, n
    <3>8. [catalogue EXCEPT ![n] = grown] \in Seq(Server)
      BY <2>0, <3>3, <3>6
    <3> QED
      BY <3>7, <3>8 DEF SearchTyped, Server
  <2>3. CASE catalogue' = catalogue
    BY <2>3 DEF SearchTyped
  <2> QED
    BY <2>1, <2>2, <2>3 DEF SearchNext
<1> QED
  BY <1>1, <1>2, PTL DEF SearchSpec

LEMMA HostsOfAll == SearchTyped => HostsAreTrue
<1> SUFFICES ASSUME SearchTyped, NEW name \in ServerNames
             PROVE  LET named == {i \in DOMAIN catalogue : catalogue[i].name.lower = name.lower}
                        first == CHOOSE i \in named : \A j \in named : i <= j
                        dialled == find_web_terminal(name)
                        offered == access_points(name)
                        Web(host) == \E p \in {WebPort, NoPort} :
                                         Text(host, p) \in Elements(catalogue[first].access)
                    IN  /\ named = {} <=> name.lower \notin {n.lower : n \in list_servers}
                        /\ named = {} => dialled = NotFound
                        /\ named # {} =>
                            /\ dialled = NotFound <=> Published(first) = {}
                            /\ dialled # NotFound =>
                                   /\ dialled.host \in Published(first) /\ dialled \in Elements(offered)
                                   /\ (\E h \in Published(first) : Web(h)) => Web(dialled.host)
                            /\ \A h \in Published(first) : Text(h, NoPort) \in Elements(offered)
                            /\ \A m, n \in DOMAIN offered : offered[m] = offered[n] => m = n
  BY DEF HostsAreTrue
<1> DEFINE named == {i \in DOMAIN catalogue : catalogue[i].name.lower = name.lower}
           first == CHOOSE i \in named : \A j \in named : i <= j
           dialled == find_web_terminal(name)
           offered == access_points(name)
           access == AccessOf(name)
<1>1. named = hits_named(name) /\ first = First(named)
  BY DEF hits_named, First
<1>2. catalogue \in Seq([name : ServerNames, access : Seq(AccessTexts)])
  BY DEF SearchTyped
<1>9. \A i \in DOMAIN catalogue : catalogue[i].access \in Seq(AccessTexts)
  <2> DEFINE Server == [name : ServerNames, access : Seq(AccessTexts)]
  <2>1. \A entry \in Server : entry.access \in Seq(AccessTexts)
    OBVIOUS
  <2>2. catalogue \in Seq(Server)
    BY <1>2
  <2> HIDE DEF Server
  <2>3. \A i \in DOMAIN catalogue : catalogue[i] \in Server
    BY <2>2
  <2> QED
    BY <2>1, <2>3
<1>3. named \subseteq Nat /\ named \subseteq DOMAIN catalogue
  BY <1>2
<1>4. named = {} <=> name.lower \notin {n.lower : n \in list_servers}
  BY DEF list_servers
<1>5. named = {} => dialled = NotFound
  BY <1>1 DEF find_web_terminal
<1>6. ASSUME named # {}
      PROVE  /\ AccessList(access) /\ access = catalogue[first].access
             /\ dialled = pick_web_terminal(access) /\ offered = Points(access)
             /\ Published(first) = Hosts(access)
  <2>1. first \in named
    BY <1>1, <1>3, <1>6, LeastPlace
  <2>2. access = catalogue[first].access
    BY <1>1 DEF AccessOf
  <2>3. AccessList(access)
    <3> HIDE DEF first, named
    <3>1. catalogue[first].access \in Seq(AccessTexts)
      BY <1>9, <1>3, <2>1
    <3> QED
      BY <2>2, <3>1 DEF AccessList
  <2>4. dialled = pick_web_terminal(access) /\ offered = Points(access)
    BY <1>1, <1>6 DEF find_web_terminal, access_points, Points
  <2>5. Published(first) = Hosts(access)
    BY <2>2 DEF Published, Hosts
  <2> QED
    BY <2>2, <2>3, <2>4, <2>5
<1> HIDE DEF named, first, dialled, offered, access
<1>7. ASSUME named # {}
      PROVE  /\ dialled = NotFound <=> Published(first) = {}
             /\ dialled # NotFound =>
                    /\ dialled.host \in Published(first) /\ dialled \in Elements(offered)
                    /\ (\E h \in Published(first) : WebHost(access, h)) => WebHost(access, dialled.host)
             /\ \A h \in Published(first) : Text(h, NoPort) \in Elements(offered)
             /\ \A m, n \in DOMAIN offered : offered[m] = offered[n] => m = n
  <2>1. \A i \in Usable(access) : Text(access[i].host, NoPort) \in Elements(Points(access))
    BY <1>6, <1>7, UsableOffered
  <2>2. \A h : h \in Hosts(access) <=> \E i \in Usable(access) : h = access[i].host
    BY <1>6, <1>7, UsableHosts
  <2>3. /\ pick_web_terminal(access) = NotFound <=> Hosts(access) = {}
        /\ pick_web_terminal(access) # NotFound =>
              /\ \E i \in Usable(access) : pick_web_terminal(access) = Text(access[i].host, NoPort)
              /\ pick_web_terminal(access).host \in Hosts(access)
              /\ (\E h \in Hosts(access) : WebHost(access, h)) =>
                     WebHost(access, pick_web_terminal(access).host)
    BY <1>6, <1>7, DialledIsPublished
  <2>4. \A m, n \in DOMAIN Points(access) : Points(access)[m] = Points(access)[n] => m = n
    BY <1>6, <1>7, OfferedOnce
  <2>5. \A h \in Hosts(access) : Text(h, NoPort) \in Elements(Points(access))
    BY <2>1, <2>2
  <2>6. pick_web_terminal(access) # NotFound => pick_web_terminal(access) \in Elements(Points(access))
    BY <2>1, <2>3
  <2> QED
    BY <1>6, <1>7, <2>3, <2>4, <2>5, <2>6
<1>8. named # {} => \A host : WebHost(access, host) <=>
                     \E p \in {WebPort, NoPort} : Text(host, p) \in Elements(catalogue[first].access)
  BY <1>6 DEF WebHost
<1> QED
  BY <1>4, <1>5, <1>7, <1>8 DEF named, first, dialled, offered

\* Whatever the companies list, the host dialled for a name is one its server publishes, of
\* the web port if there is one, and is among those offered, which are all it publishes and
\* each once (search.rs `find_web_terminal`, `access_points`).
THEOREM HostsArePublished == SearchSpec => []HostsAreTrue
<1>1. SearchSpec => []SearchTyped
  BY SearchKeepsTypes
<1> QED
  BY <1>1, HostsOfAll, PTL

=============================================================================
