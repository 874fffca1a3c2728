----------------------------- MODULE WireGrammar -----------------------------
(***************************************************************************)
(* Bodies made of lists within lists.  A grammar is a sequence of items:   *)
(* bytes nobody reads, fields that are kept, arrays of a stride, lists of  *)
(* groups, groups present only behind a status of 0, and bytes a size      *)
(* tells.  Writes is the broker by such a grammar, Follows the reader.     *)
(***************************************************************************)
EXTENDS WireLayout

Skipped(size) == <<"skip", size>>
Kept(name, size) == <<"keep", size, name>>
Arrays(stride) == <<"array", stride>>
Each(least, group) == <<"each", least, group>>  \* least: bytes such a group takes
Changed(group) == <<"changed", 0, group>>
Sized(size) == <<"sized", size>>    \* a size, other bytes, then that many
Chosen == <<"chosen", 0>>           \* a size, or after 0 another, then that many

------------------------------------------------------------------------------
(* The writer *)

Opaque(size) == [Bare EXCEPT !.len = size]
Counter(n) == Number(4, <<n>>)

\* Part s of a body, every list of which has n entries; a field holds its name, its part
\* and its place in the lists.
RECURSIVE Writes(_, _, _, _)
Writes(group, s, n, place) ==
    LET one(item) ==
            CASE item[1] = "skip" -> Opaque(item[2])
              [] item[1] = "keep" -> Number(item[2], <<item[3], s, place>>)
              [] item[1] = "array" -> Join(Counter(n), Opaque(n * item[2]))
              [] item[1] = "changed" ->
                   IF n = 0 THEN Counter(1)
                   ELSE Join(Counter(0), Writes(item[3], s, n, place))
              [] item[1] = "each" ->
                   LET list[i \in 0 .. n] ==
                           IF i = 0 THEN Counter(n)
                           ELSE Join(list[i - 1], Writes(item[3], s, n, Append(place, i)))
                   IN  list[n]
              [] item[1] = "sized" -> Join(Join(Counter(n), Opaque(item[2])), Opaque(n))
              [] item[1] = "chosen" ->
                   IF s = 1 THEN Join(Join(Counter(0), Counter(n)), Opaque(n))
                   ELSE Join(Counter(3), Opaque(3))
    IN  IF group = <<>> THEN Bare ELSE Join(one(Head(group)), Writes(Tail(group), s, n, place))

------------------------------------------------------------------------------
(* The reader: where it is, and the fields it has kept *)

Bad == -1

\* A number; what is none where one is wanted counts as an invalid one.
Word(b, p) ==
    IF /\ p + 4 <= b.len /\ p \in DOMAIN b.at
       /\ b.at[p][1] = 4 /\ Len(b.at[p][2]) = 1
    THEN b.at[p][2][1] ELSE Bad

\* A count of entries that take at least so many bytes each.
Count(b, p, least) ==
    IF Word(b, p) < 0 \/ Word(b, p) > (b.len - p - 4) \div least THEN Bad ELSE Word(b, p)

Past(b, r, size) == [r EXCEPT !.at = IF @ = Bad \/ @ + size > b.len THEN Bad ELSE @ + size]

Failed(r) == [r EXCEPT !.at = Bad]

Keeps(b, r, name, size) ==
    [Past(b, r, size) EXCEPT !.kept = Append(@, <<name, Take(b, r.at, size)>>)]

\* Fault: the bytes between are skipped before the size is read.
SizeLast(b, r, size) ==
    IF Count(b, r.at + size, 1) = Bad THEN Failed(r)
    ELSE Past(b, r, size + 4 + Count(b, r.at + size, 1))
Sizes(b, r, size) ==
    IF Count(b, r.at, 1) = Bad THEN Failed(r) ELSE Past(b, r, 4 + size + Count(b, r.at, 1))

RECURSIVE Follows(_, _, _)
Follows(b, r, group) ==
    IF r.at = Bad \/ group = <<>> THEN r
    ELSE LET item == Head(group)
             count == Count(b, r.at, IF item[1] = "each" THEN item[2] ELSE 1)
             one ==
                 CASE item[1] = "skip" -> Past(b, r, item[2])
                   [] item[1] = "keep" -> Keeps(b, r, item[3], item[2])
                   [] item[1] = "sized" -> Sizes(b, r, item[2])
                   [] item[1] = "changed" /\ Word(b, r.at) = 0 ->
                        Follows(b, Past(b, r, 4), item[3])
                   [] item[1] = "changed" /\ Word(b, r.at) = 1 -> Past(b, r, 4)
                   [] item[1] = "changed" /\ Word(b, r.at) \notin {0, 1} -> Failed(r)
                   [] item[1] \in {"array", "each", "chosen"} /\ count = Bad -> Failed(r)
                   [] item[1] = "array" /\ count # Bad -> Past(b, r, 4 + count * item[2])
                   [] item[1] = "each" /\ count # Bad ->
                        LET after[i \in 0 .. count] ==
                                IF i = 0 THEN Past(b, r, 4) ELSE Follows(b, after[i - 1], item[3])
                        IN  after[count]
                   [] item[1] = "chosen" /\ count > 0 -> Past(b, r, 4 + count)
                   [] item[1] = "chosen" /\ count = 0 ->
                        IF Count(b, r.at + 4, 1) = Bad THEN Failed(r)
                        ELSE Past(b, r, 8 + Count(b, r.at + 4, 1))
         IN  Follows(b, one, Tail(group))

\* The fields of a name, in order.
Called(kept, name) ==
    LET those == SelectSeq(kept, LAMBDA k : k[1] = name)
    IN  [i \in DOMAIN those |-> those[i][2]]

\* Each field of a name, with those kept behind it up to the next.
Groups(kept, name) ==
    LET heads == SelectSeq([i \in DOMAIN kept |-> i], LAMBDA i : kept[i][1] = name)
        last(g) == IF g = Len(heads) THEN Len(kept) ELSE heads[g + 1] - 1
    IN  [g \in DOMAIN heads |-> SubSeq(kept, heads[g], last(g))]

=============================================================================
