--------------------------- MODULE WebtermCandles ----------------------------
(***************************************************************************)
(* mt5-webterm/src/session.rs `history`, `history_latest` and `deals`: the *)
(* windows an application asks for in UTC, on a server with a clock of its *)
(* own.  A unit of time is what a candle takes; a deal happens at most     *)
(* once in a unit, and candles and deals are both just their times here.   *)
(***************************************************************************)
EXTENDS Integers, Sequences, FiniteSets

CONSTANTS Shifts,            \* how far the server's clock may be ahead of UTC
          Span,             \* the longest window `history` asks for, 5000 candles
          Spare, Weekend,   \* what `rates_window` adds: 10 candles, and 3 days
          Counts, AskedTimes,   \* the arguments of calls
          LastUnit          \* bound: how long the market is followed

\* No candle is from before 1970 on the server's clock; the first forms at 2 in UTC.
ASSUME CandlesAssumption ==
    /\ Shifts \subseteq Int /\ \A shift \in Shifts : shift >= -2
    /\ Span \in Nat /\ Spare \in Nat /\ Weekend \in Nat
    /\ Counts \subseteq Nat /\ AskedTimes \subseteq Int

VARIABLES ahead, hour,   \* the server's shift, as it told with the account; the time in UTC
          formed,       \* external: when candles formed, on the server's clock
          window        \* the last call with what it returned

windows == <<ahead, hour, formed, window>>

Now == <<>>     \* no `before`: Option::None
NoWindow == [kind |-> "none"]

CandlesInit ==
    ahead \in Shifts /\ hour = 1 /\ formed = {} /\ window = NoWindow

\* Time passes, with trading or without.
CandleForms(traded) ==
    /\ hour < LastUnit
    /\ hour' = hour + 1
    /\ formed' = IF traded THEN formed \union {hour' + ahead} ELSE formed
    /\ window' = NoWindow /\ UNCHANGED ahead

LaterOf(x, y) == IF x > y THEN x ELSE y

\* What the server has, both ends included, which are asked for clamped to what the request
\* can hold: from 1970, and to a time beyond the bound.
candles_between(from, to) == {t \in formed : t >= LaterOf(from, 0) /\ t <= LaterOf(to, 0)}

InUTC(times) == {t - ahead : t \in times}

\* The server gives the oldest first, and what is made of its times keeps their order: as
\* many of them come before each as its place says.
OldestFirst(times) ==
    [n \in 1 .. Cardinality(times) |->
        CHOOSE t \in times : Cardinality({s \in times : s < t}) = n - 1]

\* One call in a unit of time is enough: it leaves nothing behind.
Answered(kind, from, to, count, rows) ==
    /\ window = NoWindow
    /\ window' = [kind |-> kind, from |-> from, to |-> to, count |-> count, rows |-> rows]
    /\ UNCHANGED <<ahead, hour, formed>>

------------------------------------------------------------------------------

HistoryWindow(from, to) ==
    LET start == LaterOf(from, to - Span)
    IN  Answered("history", from, <<to>>, 0,
                 OldestFirst({t \in InUTC(candles_between(start + ahead, to + ahead)) :
                                  t >= start /\ t < to}))

\* Fault: the window ends at the time in UTC.
UTCWindow(count, before) ==
    IF before = Now THEN <<hour - (count + Spare), hour>>
    ELSE <<before[1] + ahead - (count + Spare) * 2 - Weekend, before[1] + ahead>>
rates_window(count, before) ==
    IF before = Now THEN <<hour + ahead - (count + Spare), hour + ahead>>
    ELSE <<before[1] + ahead - (count + Spare) * 2 - Weekend, before[1] + ahead>>

TheLast(count, rows) ==
    LET extra == Len(rows) - count
    IN  IF extra > 0 THEN SubSeq(rows, extra + 1, Len(rows)) ELSE rows

HistoryLatest(count, before) ==
    LET asked == rates_window(count, before)
    IN  Answered("latest", 0, before, count,
                 TheLast(count, OldestFirst({t \in InUTC(candles_between(asked[1], asked[2])) :
                                                 before = Now \/ t < before[1]})))

DealsWindow(from, to) ==
    Answered("deals", from, <<to>>, 0,
             OldestFirst({t \in InUTC(candles_between(from + ahead, to + ahead)) :
                              t >= from /\ t < to}))

CandlesNext ==
    \/ \E traded \in BOOLEAN : CandleForms(traded)
    \/ \E from \in AskedTimes, to \in AskedTimes :
           HistoryWindow(from, to) \/ DealsWindow(from, to)
    \/ \E count \in Counts, before \in {Now} \union {<<t>> : t \in AskedTimes} :
           HistoryLatest(count, before)

CandlesSpec == CandlesInit /\ [][CandlesNext]_windows

------------------------------------------------------------------------------
(* Properties *)

Traded == {t - ahead : t \in formed}
Shown == {window.rows[i] : i \in DOMAIN window.rows}

\* Of a window everything is returned and nothing else: of a long one of candles the end.
WindowIsFull ==
    window.kind \in {"history", "deals"} =>
        Shown =
            {t \in Traded : /\ t >= window.from /\ t < window.to[1]
                            /\ window.kind = "history" => t >= window.to[1] - Span}

\* The last candles: none is passed over, and fewer than asked for come only where the
\* market was closed for longer than the window allows.
LatestAreLast ==
    window.kind = "latest" =>
        LET last == IF window.to = Now THEN hour ELSE window.to[1]
            wanted == {t \in Traded : window.to = Now \/ t < window.to[1]}
        IN  /\ Shown \subseteq wanted /\ Len(window.rows) <= window.count
            /\ \A t \in wanted \ Shown, s \in Shown : t < s
            /\ Len(window.rows) < window.count =>
                   \A t \in wanted \ Shown :
                       t < last - window.count - (IF window.to = Now THEN 0 ELSE Weekend)

\* The windows of candles and deals are the application's, whatever the server's clock is.
WindowsAreTrue == WindowIsFull /\ LatestAreLast

=============================================================================
