---------------------------- MODULE BarContainers ----------------------------
(***************************************************************************)
(* mt5-native/src/bars.rs: one-minute bars in a container.  Its packed      *)
(* integers (PackedBits) are here a sequence of integers, read one after    *)
(* another: an anchor (tag 0) gives a bar in full, a run (1) gives bars of   *)
(* the minutes that follow as differences, a skip (2) passes over minutes.   *)
(* Two bits of the anchor's flags say which columns the rows carry from     *)
(* there on; the others carry a column each until the next anchor.          *)
(***************************************************************************)
EXTENDS Integers, Sequences, SequencesExt

CONSTANTS Limit             \* the point of the container's differences

VARIABLES stream,           \* what the broker has written
          sent,             \* the bars it wrote
          columns           \* its flags: of the last anchor, and the sticky two

containers == <<stream, sent, columns>>

HasFlag(flags, bit) == (flags \div 2^bit) % 2 = 1
SpreadBit == 0
RealBit == 1
UnknownBit == 2
ExtraBit == 3

------------------------------------------------------------------------------
(* Reading: container *)

Begin == [at |-> 0, time |-> 0, open |-> 0, close |-> 0, anchored |-> FALSE,
          flags |-> 0, spread |-> FALSE, real |-> FALSE, bars |-> <<>>]
Refuse == [Begin EXCEPT !.at = -1]

Enough(ints, r, n) == r.at >= 0 /\ r.at + n <= Len(ints)
At(ints, r, i) == ints[r.at + i]

Column(on) == IF on THEN 1 ELSE 0

\* Fault: a run carries the columns of the last anchor.
OfAnchor(r, bit, sticky) == HasFlag(r.flags, bit)
\* An anchor carries the columns of its flags, a run those of any anchor before.
Carried(r, bit, sticky) == sticky

\* One row, the open already known.  Offsets of a run are counted in points.
ReadRow(ints, r, scale, spread, real) ==
    LET extra == HasFlag(r.flags, ExtraBit)
        size == 4 + Column(spread) + Column(real) + Column(extra)
    IN IF ~Enough(ints, r, size) THEN Refuse
       ELSE [r EXCEPT
               !.at = @ + size,
               !.close = scale * At(ints, r, 3),
               !.bars = Append(@,
                  [time |-> r.time, open |-> r.open,
                   high |-> r.open + scale * At(ints, r, 1),
                   low |-> r.open - scale * At(ints, r, 2),
                   close |-> r.open + scale * At(ints, r, 3),
                   volume |-> At(ints, r, 4),
                   spread |-> IF spread THEN At(ints, r, 5) ELSE 0,
                   real |-> IF real THEN At(ints, r, 5 + Column(spread)) ELSE 0])]

ReadAnchor(ints, r) ==
    IF ~Enough(ints, r, 4) \/ HasFlag(At(ints, r, 2), UnknownBit) THEN Refuse
    ELSE LET flags == At(ints, r, 2)
             anchor == [r EXCEPT !.at = @ + 4, !.time = At(ints, r, 3), !.open = At(ints, r, 4),
                                 !.anchored = TRUE, !.flags = flags,
                                 !.spread = @ \/ HasFlag(flags, SpreadBit),
                                 !.real = @ \/ HasFlag(flags, RealBit)]
         IN ReadRow(ints, anchor, 1, HasFlag(flags, SpreadBit), HasFlag(flags, RealBit))

\* A bar opens a difference away from where the last one closed.
NextOpen(r, gap) == r.open + Limit * gap + r.close

ReadNext(ints, r) ==
    IF ~Enough(ints, r, 1) THEN Refuse
    ELSE ReadRow(ints,
                 [r EXCEPT !.at = @ + 1, !.time = @ + 1, !.open = NextOpen(r, At(ints, r, 1))],
                 Limit, Carried(r, SpreadBit, r.spread), Carried(r, RealBit, r.real))

\* An empty run stands before a gap of a session and is no bar.
ReadRun(ints, r, count) ==
    IF ~Enough(ints, r, 2) \/ ~r.anchored THEN Refuse
    ELSE LET run == At(ints, r, 2)
         IN IF run < 0 \/ run > count - Len(r.bars) THEN Refuse
            ELSE FoldLeft(LAMBDA s, i : ReadNext(ints, s), [r EXCEPT !.at = @ + 2],
                          [i \in 1 .. run |-> i])

ReadSkip(ints, r) ==
    IF ~Enough(ints, r, 2) \/ ~r.anchored THEN Refuse
    ELSE [r EXCEPT !.at = @ + 2, !.time = @ + At(ints, r, 2)]

ReadTag(ints, r, count) ==
    IF ~Enough(ints, r, 1) THEN Refuse
    ELSE CASE At(ints, r, 1) = 0 -> ReadAnchor(ints, r)
           [] At(ints, r, 1) = 1 -> ReadRun(ints, r, count)
           [] At(ints, r, 1) = 2 -> ReadSkip(ints, r)
           [] OTHER -> Refuse

RECURSIVE ReadOn(_, _, _)
ReadOn(ints, r, count) ==
    IF r.at < 0 \/ Len(r.bars) >= count THEN r ELSE ReadOn(ints, ReadTag(ints, r, count), count)

\* The header says how many bars to expect.
Container(ints, count) ==
    LET r == ReadOn(ints, Begin, count)
    IN [ok |-> r.at >= 0, bars |-> r.bars]

------------------------------------------------------------------------------
(* The broker, external *)

WriterInit ==
    /\ stream = <<>> /\ sent = <<>>
    /\ columns = [flags |-> 0, spread |-> FALSE, real |-> FALSE]

\* A row in the code's order: offsets of high, low and close, the volume, and the
\* columns in force.
Row(b, scale, spread, real, extra) ==
    <<(b.high - b.open) \div scale, (b.open - b.low) \div scale, (b.close - b.open) \div scale,
      b.volume>>
        \o (IF spread THEN <<b.spread>> ELSE <<>>)
        \o (IF real THEN <<b.real>> ELSE <<>>)
        \o (IF extra THEN <<7>> ELSE <<>>)

\* A bar that rises or falls by two points, with the columns in force.
Bar(time, open, rise, spread, real) ==
    LET span == 2 * Limit * rise
        close == open + span
    IN [time |-> time, open |-> open, volume |-> 9,
        high |-> (IF span > 0 THEN close ELSE open) + Limit,
        low |-> (IF span < 0 THEN close ELSE open) - 2 * Limit,
        close |-> close, spread |-> IF spread THEN 3 ELSE 0, real |-> IF real THEN 5 ELSE 0]

\* Times are minutes.
WriteAnchor(time, flags, rise) ==
    LET spread == HasFlag(flags, SpreadBit)
        real == HasFlag(flags, RealBit)
        b == Bar(time, 100 + time, rise, spread, real)
    IN /\ sent # <<>> => Last(sent).time < time
       /\ stream' = stream \o <<0, flags, time, b.open>>
                           \o Row(b, 1, spread, real, HasFlag(flags, ExtraBit))
       /\ sent' = Append(sent, b)
       /\ columns' = [flags |-> flags, spread |-> columns.spread \/ spread,
                      real |-> columns.real \/ real]

\* The bars after the gap, one a minute, all with the same gap between close and open.
WriteRun(skip, gap, rises) ==
    LET from == Last(sent)
        Next(b, rise) == Bar(b.time + 1, b.close + Limit * gap, rise, columns.spread, columns.real)
        run == FoldLeft(LAMBDA bs, rise : Append(bs, Next(Last(bs), rise)),
                        <<[from EXCEPT !.time = @ + skip]>>, rises)
        row(b) == <<gap>> \o Row(b, Limit, columns.spread, columns.real,
                                 HasFlag(columns.flags, ExtraBit))
    IN /\ sent # <<>>
       /\ stream' = stream \o (IF skip = 0 THEN <<>> ELSE <<1, 0, 2, skip>>)
                           \o <<1, Len(rises)>>
                           \o FlattenSeq([i \in 1 .. Len(rises) |-> row(run[i + 1])])
       /\ sent' = sent \o Tail(run)
       /\ UNCHANGED columns

------------------------------------------------------------------------------
(* Properties *)

\* A container is decoded to the bars it was written with, whatever anchors, runs,
\* gaps and columns the broker chose.
BarsSurvive == Container(stream, Len(sent)) = [ok |-> TRUE, bars |-> sent]

=============================================================================
