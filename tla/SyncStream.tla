----------------------------- MODULE SyncStream ------------------------------
(***************************************************************************)
(* mt5-native/src/sync/account.rs: the synchronization stream, a status    *)
(* word and sections in any order, each of a tag and of what its grammar   *)
(* says.  The sections nobody reads are walked through too: their counts   *)
(* say where the next one begins.                                          *)
(*                                                                         *)
(* The stream is a body of WireLayout.  Its writer is the broker, by the   *)
(* grammar the code documents; the reader is the code's.                   *)
(***************************************************************************)
EXTENDS Integers, Sequences

LOCAL INSTANCE SequencesExt
LOCAL INSTANCE WireGrammar

CONSTANTS MaxSections,  \* bound: sections of a stream
          Repeats,      \* how often every list of a section repeats: not at all, or thrice
          Carriers      \* tags of the sections that may follow a second one

VARIABLE syncing         \* build, status and sections of what the broker has written

------------------------------------------------------------------------------
(* The grammar of each section *)

Foundation == <<
    Kept("terms", 4228), Arrays(1228), Each(1, <<Skipped(908), Arrays(160)>>), Skipped(656),
    Each(1, <<Skipped(932), Arrays(160)>>),
    Changed(<<Each(1, <<Kept("symbol", 1952), Kept("group", 1228)>>
                   \o [i \in 1 .. 14 |-> Arrays(40)] \o <<Skipped(80)>>),
              Arrays(4)>>),
    Changed(<<Arrays(392)>>) >>

Routing == <<Skipped(396), Kept("zone", 4), Skipped(132),
             Each(1, <<Kept("point", 268), Each(1, <<Kept("address", 148)>>)>>)>>

Auxiliary == <<Changed(<<Each(1, <<Skipped(100), Arrays(128), Arrays(128)>>), Arrays(4)>>)>>

Collection103 ==
    <<Changed(<<Each(1, <<Skipped(1240), Arrays(1), Arrays(256), Arrays(256), Arrays(292),
                       Arrays(292)>>),
                Arrays(8), Skipped(16)>>)>>

Collection120 == <<Each(1, <<Skipped(776), Chosen, Arrays(528), Arrays(208), Arrays(112)>>)>>

Blobs == <<Each(1, <<Skipped(20), Sized(104)>>)>>

Tags == {7, 17, 23, 24, 31, 36, 37, 40, 103, 105, 120, 121, 128, 132, 139}

Grammar == [tag \in Tags |->
    CASE tag = 7 -> Foundation
      [] tag = 17 -> <<Arrays(90)>>
      [] tag = 23 -> Routing
      [] tag = 24 -> <<Arrays(136)>>
      [] tag = 31 -> <<Skipped(4), Each(1, <<Kept("order", 636)>>)>>
      [] tag = 36 -> <<Skipped(4), Each(1, <<Kept("position", 672)>>)>>
      [] tag = 37 -> <<Kept("account", 2996)>>
      [] tag = 40 -> Auxiliary
      [] tag = 103 -> Collection103
      [] tag = 105 -> <<Arrays(128)>>
      [] tag = 120 -> Collection120
      [] tag \in {121, 128} -> Blobs
      [] tag = 132 -> <<Skipped(3084), Arrays(1288)>>
      [] tag = 139 -> <<Skipped(16)>>]

------------------------------------------------------------------------------
(* The broker *)

\* A section behind a tag of 0 is a routing one, after bytes that are no 23.
Section(s) ==
    LET section == syncing.sections[s]
        tag == Number(1, section.tag)
    IN  IF section.tag \notin Tags THEN tag
        ELSE Join(IF section.hidden THEN Join(Join(Number(1, 0), Number(1, 17)), tag) ELSE tag,
                  Writes(Grammar[section.tag], s, section.n, <<>>))

Preamble == Counter(syncing.status)

\* The stream up to its s-th section.
Upto[s \in 0 .. MaxSections] == IF s = 0 THEN Preamble ELSE Join(Upto[s - 1], Section(s))

SyncInit == syncing \in [build : {4071, 4072}, status : {0, 1}, sections : {<<>>}]

Puts(tag, n, hidden) ==
    /\ syncing.build = 4072 /\ syncing.status = 0
    /\ Len(syncing.sections) < MaxSections
    /\ Len(syncing.sections) >= 2 => tag \in Carriers
    /\ syncing' = [syncing EXCEPT !.sections =
                     Append(@, [tag |-> tag, n |-> n, hidden |-> hidden])]

SyncNext ==
    \/ \E tag \in Tags \union {255}, n \in Repeats : Puts(tag, n, FALSE)
    \/ \E n \in Repeats : Puts(23, n, TRUE)

SyncSpec == SyncInit /\ [][SyncNext]_syncing

------------------------------------------------------------------------------
(* The reader *)

\* Where the tag is: behind a 0 at the next 23.
TagAt(b, p) ==
    LET sentinels == {q \in DOMAIN b.at : q > p /\ q < b.len /\ b.at[q] = <<1, 23>>}
    IN  IF b.at[p] # <<1, 0>> THEN p
        ELSE IF sentinels = {} THEN Bad ELSE CHOOSE q \in sentinels : \A o \in sentinels : q <= o

\* A second routing replaces the first; of anything else more is added.
Enters(r, tag, p) ==
    [at |-> p + 1, seen |-> r.seen \union {tag},
     kept |-> IF tag # 23 THEN r.kept
              ELSE SelectSeq(r.kept, LAMBDA k : k[1] \notin {"zone", "point", "address"})]

\* A second foundation or account is refused.
RECURSIVE Sections(_, _)
Sections(b, r) ==
    IF r.at \in {Bad, b.len} THEN r
    ELSE LET p == TagAt(b, r.at)
             tag == b.at[p][2]
         IN  IF p = Bad THEN Failed(r)
             ELSE IF tag \notin Tags \/ tag \in {7, 37} \intersect r.seen THEN Failed(r)
             ELSE Sections(b, Follows(b, Enters(r, tag, p), Grammar[tag]))

\* The text of an address: some are empty, and some points have one twice.
Text(address) ==
    LET place == address[3]
    IN  IF place[2] = 2 THEN <<>> ELSE IF place[1] = 1 THEN <<"host">> ELSE <<"host", place[2]>>

\* The addresses of a point that say something, each once.
Distinct(addresses) ==
    FoldLeft(LAMBDA found, a : IF a = <<>> \/ Contains(found, a) THEN found ELSE Append(found, a),
             <<>>, addresses)

AccessPoints(kept) ==
    LET points == Groups(kept, "point")
        texts(group) == [j \in DOMAIN Called(group, "address") |-> Text(Called(group, "address")[j])]
    IN  [i \in DOMAIN points |-> <<points[i][1][2], Distinct(texts(points[i]))>>]

Rejected == [account |-> <<>>]

parse_synchronized_state(b, build) ==
    LET r == Sections(b, [at |-> 4, seen |-> {}, kept |-> <<>>])
        of(name) == Called(r.kept, name)
    IN  IF build < 4072 \/ Word(b, 0) # 0 \/ r.at = Bad \/ of("account") = <<>> THEN Rejected
        ELSE [account |-> of("account"), terms |-> of("terms"),
              symbols |-> [i \in DOMAIN of("symbol") |-> <<of("symbol")[i], of("group")[i]>>],
              orders |-> of("order"), positions |-> of("position"), zone |-> of("zone"),
              points |-> AccessPoints(r.kept)]

------------------------------------------------------------------------------
(* Properties *)

Sent == syncing.sections
Carrying(tag) == SelectSeq([s \in DOMAIN Sent |-> s], LAMBDA s : Sent[s].tag = tag)
Tokens(name, s) == [j \in 1 .. Sent[s].n |-> <<name, s, <<j>>>>]
AllTokens(name, tag) == FlattenSeq([i \in DOMAIN Carrying(tag) |-> Tokens(name, Carrying(tag)[i])])
Single(name, tag) == [i \in DOMAIN Carrying(tag) |-> <<name, Carrying(tag)[i], <<>>>>]

Meaning ==
    [account |-> Single("account", 37), terms |-> Single("terms", 7),
     symbols |-> [i \in DOMAIN AllTokens("symbol", 7) |->
                     <<AllTokens("symbol", 7)[i], AllTokens("group", 7)[i]>>],
     orders |-> AllTokens("order", 31), positions |-> AllTokens("position", 36),
     zone |-> IF Carrying(23) = <<>> THEN <<>> ELSE <<Single("zone", 23)[Len(Carrying(23))]>>,
     points |-> IF Carrying(23) = <<>> THEN <<>>
                ELSE [j \in 1 .. Sent[Last(Carrying(23))].n |->
                         <<Tokens("point", Last(Carrying(23)))[j],
                           IF j = 1 THEN << <<"host">> >>
                           ELSE << <<"host", 1>>, <<"host", 3>> >>>>]]

Unreadable ==
    \/ syncing.build < 4072 \/ syncing.status # 0
    \/ Len(Carrying(37)) # 1 \/ Len(Carrying(7)) > 1 \/ Carrying(255) # <<>>

\* Where the last of the sections could be cut: behind and within every field of it.
Edges(b, first) == {q \in {o + d : o \in DOMAIN b.at, d \in {0, 1}} : q > first /\ q < b.len}

\* Login takes from the synchronization exactly what the broker wrote, in whatever order
\* the sections come and whatever the sections nobody reads hold; a stream that ends
\* within a section is refused, never taken for a shorter one.
SyncSurvives ==
    LET k == Len(Sent)
    IN  /\ parse_synchronized_state(Upto[k], syncing.build) =
              IF Unreadable THEN Rejected ELSE Meaning
        /\ k = 2 =>
              \A len \in Edges(Upto[k], Upto[k - 1].len) :
                  parse_synchronized_state(Cut(Upto[k], len), syncing.build) = Rejected

=============================================================================
