---------------------------- MODULE PackedBits ------------------------------
(***************************************************************************)
(* mt5-native/src/bitpack.rs: integers in a stream of bits, low bits first. *)
(* A packed integer is a run of K-bit digits whose sum counts its pairs of  *)
(* bits, the last digit below the sentinel, and then those bits.  What a    *)
(* reader returns is a record: the value and where it stopped, Lost after   *)
(* an error.  Storage widths are parameters of the operators.               *)
(***************************************************************************)
EXTENDS Integers, Sequences, SequencesExt

CONSTANT K                  \* BitReader::k, 2 for quotes and depth

ASSUME PackedBitsAssumption == K \in 1 .. 8

Lost == -1
Sentinel == 2^K - 1

BitLen(v) == CHOOSE n \in 0 .. 64 : v < 2^n /\ (n > 0 => v >= 2^(n - 1))
ToBits(v, n) == [i \in 1 .. n |-> (v \div 2^(i - 1)) % 2]
FromBits(bits) ==
    LET upTo[i \in 0 .. Len(bits)] == IF i = 0 THEN 0 ELSE upTo[i - 1] + bits[i] * 2^(i - 1)
    IN upTo[Len(bits)]

------------------------------------------------------------------------------
(* BitWriter *)

\* Fault: the digit that equals the sentinel ends the run.
UnendedDigits(units) ==
    FlattenSeq([i \in 1 .. (units - 1) \div Sentinel |-> ToBits(Sentinel, K)])
        \o ToBits(units - Sentinel * ((units - 1) \div Sentinel), K)
Digits(units) ==
    FlattenSeq([i \in 1 .. units \div Sentinel |-> ToBits(Sentinel, K)])
        \o ToBits(units % Sentinel, K)

Pairs(v) == (BitLen(v) + 1) \div 2

Packed(v, width) ==
    LET masked == v % 2^width
    IN Digits(Pairs(masked)) \o ToBits(masked, 2 * Pairs(masked))

Magnitude(v) == IF v < 0 THEN -v ELSE v
SignedMagnitude(v) ==
    Digits(Pairs(Magnitude(v))) \o <<IF v < 0 THEN 1 ELSE 0>>
        \o ToBits(Magnitude(v), 2 * Pairs(Magnitude(v)))

\* A whole byte when the stream is aligned.
Boundary(bits) == [i \in 1 .. 8 - (Len(bits) % 8) |-> 0]

\* The data are bytes: what is not written is zero.
Padded(bits) == bits \o [i \in 1 .. (8 - (Len(bits) % 8)) % 8 |-> 0]

------------------------------------------------------------------------------
(* BitReader *)

Read(at, value) == [at |-> at, value |-> value]
Failed == Read(Lost, 0)

Bits(data, at, n) ==
    IF at = Lost \/ at + n > Len(data) THEN Failed
    ELSE Read(at + n, FromBits(SubSeq(data, at + 1, at + n)))

\* The sentinels in front of the first other digit; so many exceed the width before that.
Sentinels(data, at, width) ==
    LET ends == {j \in 0 .. width \div (2 * Sentinel) :
                   Bits(data, at + j * K, K).value # Sentinel}
    IN IF ends = {} THEN Lost ELSE CHOOSE j \in ends : \A i \in ends : j <= i

LengthOf(n, digit, width) ==
    LET length == 2 * (n * Sentinel + digit.value)
    IN IF digit.at = Lost \/ length > width THEN Failed ELSE Read(digit.at, length)

\* The number of bits of the value.
Prefix(data, at, width) ==
    LET n == Sentinels(data, at, width)
    IN IF n = Lost THEN Failed ELSE LengthOf(n, Bits(data, at + n * K, K), width)

BitsOf(data, length) == Bits(data, length.at, length.value)

\* Two's complement of a width.
Signed(read, width) ==
    IF read.value >= 2^(width - 1) THEN Read(read.at, read.value - 2^width) ELSE read

ReadPacked(data, at, width, signed) ==
    IF signed THEN Signed(BitsOf(data, Prefix(data, at, width)), width)
    ELSE BitsOf(data, Prefix(data, at, width))

Negated(sign, read) == IF sign.value = 1 THEN Read(read.at, -read.value) ELSE read

ReadMagnitude(data, at, width) ==
    LET length == Prefix(data, at, width)
        sign == Bits(data, length.at, 1)
    IN Negated(sign, Bits(data, sign.at, length.value))

ReadBoundary(data, at) ==
    IF at = Lost THEN Failed ELSE Bits(data, at, 8 - (at % 8))

=============================================================================
