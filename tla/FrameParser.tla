----------------------------- MODULE FrameParser -----------------------------
(***************************************************************************)
(* mt5-native/src/frame.rs `FrameParser`: reads split the stream anywhere,  *)
(* and the parser keeps what is not yet a frame.  A byte is the frame it    *)
(* belongs to, by its place in `sent`, and its place in that frame; what a  *)
(* header says can be read when all its bytes are there.  NativeSession     *)
(* takes frames as units; this module is why it may.                        *)
(***************************************************************************)
EXTENDS Integers, Sequences, SequencesExt

CONSTANTS HeaderLen,        \* HEADER_LEN, 9
          MaxPayload,       \* max_payload
          MaxFrames         \* bound: frames the peer sends

ASSUME FrameAssumption == HeaderLen \in Nat \ {0} /\ MaxPayload \in Nat /\ MaxFrames \in Nat

VARIABLES sizes,            \* of the frames the peer sent, as their headers say
          unread,           \* bytes sent and not read
          buffer,           \* FrameParser::buffer
          parsed,           \* the frames returned, by their number
          broken            \* feed returned an error

parser == <<sizes, unread, buffer, parsed, broken>>

\* A length that is not refused.
Sound(size) == size >= 0 /\ size <= MaxPayload

\* Frame::pack: of a frame with a bad length only the header is sent.
Bytes(k, size) ==
    [i \in 1 .. HeaderLen + (IF Sound(size) THEN size ELSE 0) |-> <<k, i>>]

Complete(k) == [i \in 1 .. HeaderLen + sizes[k] |-> <<k, i>>]

ParserInit ==
    sizes = <<>> /\ unread = <<>> /\ buffer = <<>> /\ parsed = <<>> /\ broken = FALSE

Outcome(ok, frames, rest) == [ok |-> ok, frames |-> frames, rest |-> rest]

\* Fault: a header is looked at when something follows it.
LateHeader(bytes) == Len(bytes) > HeaderLen
HasHeader(bytes) == Len(bytes) >= HeaderLen

\* What a header says; bytes out of step make no sense.
Declared(bytes) == IF bytes[HeaderLen] = <<bytes[1][1], HeaderLen>> THEN sizes[bytes[1][1]] ELSE -1

\* Another frame is taken from the head of the rest, if all of it is there.
NextFrame(out) ==
    LET size == Declared(out.rest)
        end == HeaderLen + size
    IN IF ~out.ok \/ ~HasHeader(out.rest) THEN out
       ELSE IF ~Sound(size) THEN [out EXCEPT !.ok = FALSE]
       ELSE IF Len(out.rest) < end THEN out
       ELSE Outcome(TRUE, Append(out.frames, SubSeq(out.rest, 1, end)),
                    SubSeq(out.rest, end + 1, Len(out.rest)))

\* The frames at the head of the bytes; a bad length refuses them all.
Frames(bytes) ==
    LET after[n \in 0 .. Len(bytes)] ==
          IF n = 0 THEN Outcome(TRUE, <<>>, bytes) ELSE NextFrame(after[n - 1])
    IN after[Len(bytes)]

\* feed, with one read of n bytes.
Feed(n) ==
    LET out == Frames(buffer \o SubSeq(unread, 1, n))
    IN /\ ~broken
       /\ unread' = SubSeq(unread, n + 1, Len(unread))
       /\ broken' = ~out.ok
       /\ buffer' = IF out.ok THEN out.rest ELSE buffer \o SubSeq(unread, 1, n)
       /\ parsed' = IF out.ok THEN parsed \o out.frames ELSE parsed
       /\ UNCHANGED sizes

\* The peer; size -1 stands for all the lengths that are refused.
SendFrame(size) ==
    /\ Len(sizes) < MaxFrames
    /\ sizes' = Append(sizes, size)
    /\ unread' = unread \o Bytes(Len(sizes'), size)
    /\ UNCHANGED <<buffer, parsed, broken>>

ParserNext ==
    \/ \E n \in 1 .. Len(unread) : Feed(n)
    \/ \E size \in -1 .. MaxPayload : SendFrame(size)

ParserSpec == ParserInit /\ [][ParserNext]_parser

------------------------------------------------------------------------------
(* Properties *)

\* The parser returns whole frames in the order they were sent, all that have been
\* read in full, however the reads split them, until a bad header has been read.
SplitsDoNotMatter ==
    /\ parsed = [k \in 1 .. Len(parsed) |-> Complete(k)]
    /\ ~broken =>
         /\ buffer \o unread = FlattenSeq([k \in 1 .. Len(sizes) - Len(parsed) |->
                                             Bytes(Len(parsed) + k, sizes[Len(parsed) + k])])
         /\ Len(sizes) > Len(parsed) =>
              LET next == sizes[Len(parsed) + 1]
              IN Len(buffer) < HeaderLen + (IF Sound(next) THEN next ELSE 0)

\* A stream is refused as soon as a header with a bad length has been read, and for
\* nothing else.
RefusedForItsHeader ==
    LET upto(k) == Len(FlattenSeq([j \in 1 .. k |-> Bytes(j, sizes[j])]))
        read == upto(Len(sizes)) - Len(unread)
    IN broken = \E k \in DOMAIN sizes : ~Sound(sizes[k]) /\ upto(k) <= read

=============================================================================
