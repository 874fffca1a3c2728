----------------------------- MODULE Compression -----------------------------
(***************************************************************************)
(* mt5-native/src/compression.rs: the LZO1X body of a compressed payload,   *)
(* byte for byte.  An instruction copies literals from the stream or repeats *)
(* what was already decoded; up to three literals may hang on a repetition,  *)
(* and their number decides what the next instruction means.                *)
(***************************************************************************)
EXTENDS Integers, Sequences, SequencesExt

CONSTANTS MaxOutput         \* what the caller allows, MAX_MESSAGE

VARIABLES packed,           \* what the sender has written, without the end marker
          plain,            \* what it means
          behind            \* literals behind its last instruction, 4 after a run

compression == <<packed, plain, behind>>

EndMarker == <<17, 0, 0>>
Least(a, b) == IF a < b THEN a ELSE b

------------------------------------------------------------------------------
(* lzo1x_decompress: r holds the position, the output and the state *)

Corrupt == [at |-> -1, out |-> <<>>, state |-> 0]
Byte(data, r) == data[r.at + 1]
Skip(r, n) == [r EXCEPT !.at = @ + n]
Holds(data, r, n) == r.at >= 0 /\ r.at + n <= Len(data)

\* A length of 0 goes on in bytes: 255 for each zero, and a last one.
LengthExtension(data, r, seed, mask) ==
    IF seed # 0 THEN [r |-> r, length |-> seed]
    ELSE LET ends == {i \in 1 .. Len(data) - r.at : data[r.at + i] # 0}
             i == CHOOSE i \in ends : \A j \in ends : i <= j
         IN IF ends = {} \/ mask + 255 * (i - 1) > MaxOutput THEN [r |-> Corrupt, length |-> 0]
            ELSE [r |-> Skip(r, i), length |-> mask + 255 * (i - 1) + data[r.at + i]]

Literal(data, r, n, size) ==
    IF ~Holds(data, r, n) \/ Len(r.out) + n > size THEN Corrupt
    ELSE [r EXCEPT !.at = @ + n, !.out = @ \o SubSeq(data, r.at + 1, r.at + n)]

\* Fault: a repetition that reaches into itself copies only what was there.
Stuck(out, distance, n) ==
    out \o [i \in 1 .. n |-> out[Len(out) - distance + Least(i, distance)]]
\* What is repeated may be what the repetition itself has just written.
Repeat(out, distance, n) ==
    out \o [i \in 1 .. n |-> out[Len(out) - distance + 1 + ((i - 1) % distance)]]

Match(r, distance, n, size) ==
    IF r.at < 0 \/ distance < 1 \/ distance > Len(r.out) \/ Len(r.out) + n > size THEN Corrupt
    ELSE [r EXCEPT !.out = Repeat(@, distance, n)]

\* The literals behind a match come before the next token.
Followed(data, r, n, size) == [Literal(data, r, n, size) EXCEPT !.state = n]

\* A token below 16: a run of literals after a match without any, else a short match.
Run(data, r, token, size) ==
    LET long == LengthExtension(data, r, token, 15)
    IN [Literal(data, long.r, long.length + 3, size) EXCEPT !.state = 4]

ShortMatch(data, r, token, size) ==
    IF ~Holds(data, r, 1) THEN Corrupt
    ELSE LET near == (token \div 4) + 4 * Byte(data, r)
         IN Followed(data,
                     IF r.state = 4 THEN Match(Skip(r, 1), near + 2049, 3, size)
                                    ELSE Match(Skip(r, 1), near + 1, 2, size),
                     token % 4, size)

\* A match with its distance in two bytes: below 64 a near one, below 32 a far one,
\* whose least distance is the end of the stream.
Ended(data, r, token, size) ==
    /\ token = 17 /\ r.at = Len(data)
    /\ data[r.at] = 0 /\ data[r.at - 1] = 0
    /\ Len(r.out) = size

LongMatch(data, r, token, size) ==
    LET far == token < 32
        mask == IF far THEN 7 ELSE 31
        long == LengthExtension(data, r, token % (mask + 1), mask)
        word == data[long.r.at + 1] + 256 * data[long.r.at + 2]
        distance == IF far THEN 16384 * (1 + ((token \div 8) % 2)) + word \div 4
                           ELSE word \div 4 + 1
    IN IF ~Holds(data, long.r, 2) THEN Corrupt
       ELSE IF far /\ distance = 16384
            THEN IF Ended(data, Skip(long.r, 2), token, size)
                 THEN [Skip(long.r, 2) EXCEPT !.state = -1] ELSE Corrupt
            ELSE Followed(data, Match(Skip(long.r, 2), distance, long.length + 2, size),
                          word % 4, size)

NearMatch(data, r, token, size) ==
    IF ~Holds(data, r, 1) THEN Corrupt
    ELSE Followed(data,
                  Match(Skip(r, 1), ((token \div 4) % 8) + 8 * Byte(data, r) + 1,
                        (token \div 32) + 1, size),
                  token % 4, size)

Instruction(data, r, size) ==
    IF ~Holds(data, r, 1) THEN Corrupt
    ELSE LET token == Byte(data, r)
             next == Skip(r, 1)
         IN IF token < 16 /\ r.state = 0 THEN Run(data, next, token, size)
            ELSE IF token < 16 THEN ShortMatch(data, next, token, size)
            ELSE IF token < 64 THEN LongMatch(data, next, token, size)
            ELSE NearMatch(data, next, token, size)

RECURSIVE Instructions(_, _, _)
Instructions(data, r, size) ==
    IF r.at < 0 \/ r.state = -1 THEN r
    ELSE Instructions(data, Instruction(data, r, size), size)

\* A first byte above 17 stands for literals at once.
Opening(data, size) ==
    IF data[1] <= 17 THEN [Corrupt EXCEPT !.at = 0]
    ELSE [Literal(data, [Corrupt EXCEPT !.at = 1], data[1] - 17, size)
            EXCEPT !.state = Least(data[1] - 17, 4)]

Decompress(data, size) ==
    IF size > MaxOutput \/ ~IsSuffix(EndMarker, data) THEN Corrupt
    ELSE Instructions(data, Opening(data, size), size)

------------------------------------------------------------------------------
(* lzo1x_store, and an external sender that compresses better *)

LongLength(n) == [i \in 1 .. (n - 1) \div 255 |-> 0] \o <<((n - 1) % 255) + 1>>

Store(data) ==
    IF data = <<>> THEN <<>>
    ELSE IF Len(data) <= 238 THEN <<Len(data) + 17>> \o data
    ELSE <<0>> \o LongLength(Len(data) - 18) \o data

\* Literals that tell where they stand: what the byte at a place is.
Mark(place) == (place + 3 * (place \div 256)) % 256
Fresh(n) == [i \in 1 .. n |-> Mark(Len(plain) + i)]

SenderInit == packed = <<>> /\ plain = <<>> /\ behind = 0

PutStored(n) ==
    /\ packed = <<>>
    /\ packed' = Store(Fresh(n))
    /\ plain' = Fresh(n)
    /\ behind' = Least(n, 4)

PutOpening(n) ==
    /\ packed = <<>>
    /\ packed' = <<17 + n>> \o Fresh(n)
    /\ plain' = Fresh(n)
    /\ behind' = Least(n, 4)

PutRun(n) ==
    /\ behind = 0
    /\ packed' = packed \o (IF n <= 18 THEN <<n - 3>> ELSE <<0>> \o LongLength(n - 18)) \o Fresh(n)
    /\ plain' = plain \o Fresh(n)
    /\ behind' = 4

\* A repetition: each byte is the one `distance` before it, and so one that was there.
Again(distance, n) ==
    LET end == Len(plain)
    IN plain \o [i \in 1 .. n |->
                   plain[CHOOSE j \in end - distance + 1 .. end : (end + i - j) % distance = 0]]

\* Repetitions with f literals behind them: two bytes after a few literals, three from
\* farther back after many, three to eight, or any number, from near or far.
PutMatch(instruction, distance, n, f) ==
    LET fresh == [i \in 1 .. f |-> Mark(Len(plain) + n + i)]
    IN /\ distance <= Len(plain)
       /\ packed' = packed \o instruction \o fresh
       /\ plain' = Again(distance, n) \o fresh
       /\ behind' = f

PutShort(distance, f) ==
    /\ behind \in 1 .. 3
    /\ PutMatch(<<f + 4 * ((distance - 1) % 4), (distance - 1) \div 4>>, distance, 2, f)

PutShortAfterRun(distance, f) ==
    /\ behind = 4
    /\ PutMatch(<<f + 4 * ((distance - 2049) % 4), (distance - 2049) \div 4>>, distance, 3, f)

PutNear(distance, n, f) ==
    PutMatch(<<32 * (n - 1) + 4 * ((distance - 1) % 8) + f, (distance - 1) \div 8>>,
               distance, n, f)

PutLong(distance, n, f) ==
    LET word == 4 * (distance - 1) + f
    IN PutMatch((IF n <= 33 THEN <<32 + n - 2>> ELSE <<32>> \o LongLength(n - 33))
                      \o <<word % 256, word \div 256>>, distance, n, f)

\* From more than 16384 back; beyond 32767 a bit of the first byte counts for 16384 more.
PutFar(distance, n, f) ==
    LET upper == IF distance > 32767 THEN 8 ELSE 0
        word == 4 * (distance - 16384 - 2048 * upper) + f
    IN PutMatch((IF n <= 9 THEN <<16 + upper + n - 2>> ELSE <<16 + upper>> \o LongLength(n - 9))
                      \o <<word % 256, word \div 256>>, distance, n, f)

------------------------------------------------------------------------------
(* Properties *)

Whole == packed \o EndMarker

\* Whatever was compressed comes out again, also at the lengths where an instruction needs
\* another byte, and only for the size in the envelope: with another one it is refused.
PayloadsSurvive ==
    /\ LET r == Decompress(Whole, Len(plain)) IN r.at >= 0 /\ r.out = plain
    /\ \A size \in {Len(plain) - 1, Len(plain) + 1} \ {-1} : Decompress(Whole, size).at < 0

=============================================================================
