----------------------------- MODULE WireLayout ------------------------------
(***************************************************************************)
(* Bodies of fixed-width fields.  A layout is a sequence of fields, each a *)
(* name and its width in bytes.  A body is its length and what is written  *)
(* in it: at an offset the width and the value of the field that begins    *)
(* there.  What a reader takes from any other place is Junk.               *)
(***************************************************************************)
EXTENDS Integers, Sequences

Junk == <<"junk">>
Short == <<"short">>    \* fewer bytes than the reader wants
Half(value) == <<"half", value>>

Starts(layout) ==
    LET start[i \in 1 .. Len(layout) + 1] ==
            IF i = 1 THEN 0 ELSE start[i - 1] + layout[i - 1][2]
    IN  start

Size(layout) == Starts(layout)[Len(layout) + 1]

\* What a record of this layout has at which offset.
Fields(layout) ==
    LET starts == Starts(layout)
        at == {starts[i] : i \in 1 .. Len(layout)}
    IN  [o \in at |-> layout[CHOOSE i \in 1 .. Len(layout) : starts[i] = o]]

Bare == [len |-> 0, at |-> [o \in {} |-> 0]]

\* n records of the given fields and size, the values of which tell the field, the
\* section and the record they belong to.
Records(fields, size, section, n) ==
    [len |-> n * size,
     at |-> [o \in {(r - 1) * size + f : r \in 1 .. n, f \in DOMAIN fields} |->
                <<fields[o % size][2], <<fields[o % size][1], section, 1 + (o \div size)>>>>]]

Number(width, value) == [len |-> width, at |-> [o \in {0} |-> <<width, value>>]]

Join(a, b) ==
    [len |-> a.len + b.len,
     at |-> [o \in DOMAIN a.at \union {a.len + p : p \in DOMAIN b.at} |->
                IF o < a.len THEN a.at[o] ELSE b.at[o - a.len]]]

Cut(body, len) == [body EXCEPT !.len = len]

Take(body, offset, width) ==
    IF offset + width > body.len THEN Short
    ELSE IF offset \notin DOMAIN body.at THEN Junk
    ELSE IF body.at[offset][1] = width THEN body.at[offset][2]
    ELSE IF body.at[offset][1] > width THEN Half(body.at[offset][2]) ELSE Junk

\* What a reader makes of a record at base: reads tells offset and width by name.
TakeAll(body, reads, base) ==
    [f \in DOMAIN reads |-> Take(body, base + reads[f][1], reads[f][2])]

\* What it should make of it.
Meant(reads, section, r) == [f \in DOMAIN reads |-> <<f, section, r>>]

\* A buffer of zeroes written one field after the other, the later over the earlier.
Intact(size, writes) ==
    \A i \in DOMAIN writes :
        /\ writes[i][1] + writes[i][2] <= size
        /\ \A j \in i + 1 .. Len(writes) :
             \/ writes[j][1] >= writes[i][1] + writes[i][2]
             \/ writes[i][1] >= writes[j][1] + writes[j][2]

=============================================================================
