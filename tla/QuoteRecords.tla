---------------------------- MODULE QuoteRecords ----------------------------
(***************************************************************************)
(* Batches of records in packed bits: live ticks (command 50) and snapshots *)
(* (51) of mt5-native/src/quotes.rs, each record ended by a boundary, and   *)
(* market depth (52) of depth.rs, where records follow one another without  *)
(* alignment.  A record is the sequence of its fields as they are written.  *)
(* The 64 mask bits are cut down to four, all widths to one byte.           *)
(***************************************************************************)
EXTENDS PackedBits

CONSTANTS MaxEntries,       \* of a depth record and of a batch, 100_000
          MaxRecords        \* of a depth batch, 1024

VARIABLES batch,            \* which command the batch is for
          bits,             \* what the broker has written
          meant             \* the records it wrote

records == <<batch, bits, meant>>

Width == 8
Has(mask, bit) == (mask \div 2^bit) % 2 = 1

------------------------------------------------------------------------------
(* Which fields a record has, and how each is packed *)

LiveOrder == <<0, 1>>
\* A snapshot has two of its fields the other way round (27 before 26).
SnapshotOrder == <<1, 0>>
Extensions == <<2, 3>>
\* The highest bits stand for another value behind the extensions.
Additional == <<3>>

Unsigned == {1}
Signs(bits_, unsigned) ==
    [i \in DOMAIN bits_ |-> IF bits_[i] \in unsigned THEN "unsigned" ELSE "signed"]

Present(mask, order) == SelectSeq(order, LAMBDA bit : Has(mask, bit))

\* How the fields behind the mask are packed.
LiveFields(mask) ==
    Signs(Present(mask, LiveOrder), Unsigned) \o Signs(Present(mask, Extensions), {2, 3})
SnapshotFields(mask) ==
    Signs(Present(mask, SnapshotOrder), Unsigned) \o Signs(Present(mask, Extensions), {2, 3})
        \o Signs(Present(mask, Additional), {3})

\* A depth record goes on with as many entries as it says: mask, type, price,
\* volume and a value nobody knows.
Entry == <<"unsigned", "unsigned", "signed", "magnitude", "signed">>
Entries(n) == FlattenSeq([i \in 1 .. n |-> Entry])

------------------------------------------------------------------------------
(* Reading fields *)

ReadField(data, at, packing) ==
    IF packing = "magnitude" THEN ReadMagnitude(data, at, Width)
    ELSE ReadPacked(data, at, Width, packing = "signed")

Extended(row, field) == [at |-> field.at, fields |-> Append(row.fields, field.value)]
Take(data, from, packings) ==
    FoldLeft(LAMBDA row, packing : Extended(row, ReadField(data, row.at, packing)),
             from, packings)

Start(at) == [at |-> at, fields |-> <<>>]
Refused == Start(Lost)

\* The mask is the third value of a live tick and the second of a snapshot.
QuoteHead(command) == IF command = "live" THEN <<"signed", "signed", "unsigned">>
                                          ELSE <<"signed", "unsigned", "signed">>
MaskedFields(fields, command) ==
    IF command = "live" THEN LiveFields(fields[3]) ELSE SnapshotFields(fields[2])

Masked(data, head, command) == Take(data, head, MaskedFields(head.fields, command))
Aligned(data, row) == [row EXCEPT !.at = ReadBoundary(data, @).at]
ReadQuote(data, at, command) ==
    Aligned(data, Masked(data, Take(data, Start(at), QuoteHead(command)), command))

DepthHead == <<"signed", "signed", "unsigned", "unsigned">>
WithEntries(data, head) ==
    IF head.at = Lost \/ head.fields[4] > MaxEntries THEN Refused
    ELSE Take(data, head, Entries(head.fields[4]))
ReadDepth(data, at) == WithEntries(data, Take(data, Start(at), DepthHead))

------------------------------------------------------------------------------
(* Batches: an error refuses the whole batch *)

Batch(ok, rows) == [ok |-> ok, rows |-> rows]
After(row, batch_) == Batch(batch_.ok, <<row>> \o batch_.rows)

\* A record, and the batch from where it ends.
Follow(row, rest) ==
    IF row.at = Lost THEN Batch(FALSE, <<>>) ELSE After(row.fields, rest[row.at])

DecodeQuotes(data, command) ==
    LET Rest[at \in Nat] ==
          IF at >= Len(data) THEN Batch(TRUE, <<>>)
          ELSE Follow(ReadQuote(data, at, command), Rest)
    IN Rest[0]

\* A depth batch is bounded in its records and in all their entries; a record's fourth
\* field counts its own.
Bounded(rows) ==
    /\ Len(rows) <= MaxRecords
    /\ FoldLeft(LAMBDA n, row : n + row[4], 0, rows) <= MaxEntries

Within(all) == IF Bounded(all.rows) THEN all ELSE Batch(FALSE, <<>>)

Further(data, at) == Len(data) - at > 7

DecodeDepth(data) ==
    LET Rest[at \in Nat] ==
          IF ~Further(data, at)
          THEN Batch(Bits(data, at, Len(data) - at).value = 0, <<>>)
          ELSE Follow(ReadDepth(data, at), Rest)
    IN Within(Rest[0])

Decoded(data) == IF batch = "depth" THEN DecodeDepth(data) ELSE DecodeQuotes(data, batch)

------------------------------------------------------------------------------
(* Writing: encode_quote, encode_depth_record *)

PackField(value, packing) ==
    IF packing = "magnitude" THEN SignedMagnitude(value) ELSE Packed(value, Width)

Pack(fields, packings) == FlattenSeq([i \in DOMAIN fields |-> PackField(fields[i], packings[i])])

\* Values for the packings of fields, all from one: v, or 0 where v cannot be.
ValuesFor(v, packings) ==
    [i \in DOMAIN packings |-> IF packings[i] = "unsigned" /\ v < 0 THEN 0 ELSE v]

WriteQuote(symbol, seconds, mask, v) ==
    LET head == IF batch = "live" THEN <<symbol, seconds, mask>> ELSE <<symbol, mask, seconds>>
        packings == QuoteHead(batch) \o MaskedFields(head, batch)
        fields == head \o ValuesFor(v, MaskedFields(head, batch))
        packed == Pack(fields, packings)
    IN /\ batch \in {"live", "snapshot"}
       /\ bits' = bits \o packed \o Boundary(packed)
       /\ meant' = Append(meant, fields)
       /\ UNCHANGED batch

WriteDepth(symbol, n, v) ==
    LET fields == <<symbol, v, 0, n>> \o ValuesFor(v, Entries(n))
    IN /\ batch = "depth"
       /\ bits' = bits \o Pack(fields, DepthHead \o Entries(n))
       /\ meant' = Append(meant, fields)
       /\ UNCHANGED batch

------------------------------------------------------------------------------
(* Properties *)

Cut(torn, rows) == torn.ok => IsPrefix(torn.rows, rows)

\* A batch is decoded to the records it was written with, whatever fields they carry and
\* wherever in a byte they begin, and one beyond the bounds is refused.  Of a batch cut
\* short, at any byte, nothing is decoded but its first records: a length that is read from
\* the stream never makes up a record.
BatchesSurvive ==
    /\ Decoded(Padded(bits)) =
         IF batch = "depth" /\ ~Bounded(meant) THEN Batch(FALSE, <<>>) ELSE Batch(TRUE, meant)
    /\ \A n \in 0 .. (Len(bits) \div 8) : Cut(Decoded(SubSeq(bits, 1, 8 * n)), meant)

=============================================================================
