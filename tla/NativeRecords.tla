---------------------------- MODULE NativeRecords ----------------------------
(***************************************************************************)
(* What brokers push (mt5-native updates.rs, account.rs, trade.rs), the    *)
(* trade request that one of them echoes, and the fixed records of both    *)
(* (records.rs).  The layouts of the records are those the repository's    *)
(* conformance suite holds, mt5-native/tests/fixtures/records.json, with   *)
(* the fields nobody reads drawn together; the places read are the code's. *)
(***************************************************************************)
EXTENDS Integers, Sequences

LOCAL INSTANCE SequencesExt
LOCAL INSTANCE WireGrammar

CONSTANTS MaxPushed,    \* bound: records of a message
          Tails,        \* bytes a server may append to a record of a trade result
          Missing       \* bytes that may be missing at the end of a message

VARIABLE message        \* the kind of message, its records, and what else is so about it

------------------------------------------------------------------------------
(* The records *)

OrderRecord == <<
    <<"ticket_number", 8>>, <<"id", 80>>, <<"symbol", 64>>, <<"history_time", 8>>,
    <<"open_time", 8>>, <<"expiration_time", 8>>, <<"execution_time", 8>>, <<"type", 4>>,
    <<"rules", 24>>, <<"open_price", 8>>, <<"stop_limit_price", 8>>, <<"price", 8>>,
    <<"stop_loss", 8>>, <<"take_profit", 8>>, <<"volume_units", 8>>,
    <<"requested_volume_units", 8>>, <<"state", 4>>, <<"expert_id", 8>>, <<"deal_ticket", 8>>,
    <<"comment", 64>>, <<"rest", 284>> >>

OrderFields == {
    <<"ticket_number", 0, 8>>, <<"symbol", 88, 64>>, <<"type", 184, 4>>, <<"state", 268, 4>>,
    <<"open_time", 160, 8>>, <<"history_time", 152, 8>>, <<"execution_time", 176, 8>>,
    <<"expiration_time", 168, 8>>, <<"open_price", 212, 8>>, <<"stop_limit_price", 220, 8>>,
    <<"stop_loss", 236, 8>>, <<"take_profit", 244, 8>>, <<"requested_volume_units", 260, 8>>,
    <<"volume_units", 252, 8>>, <<"expert_id", 272, 8>>, <<"comment", 288, 64>>}

DealRecord == <<
    <<"ticket_number", 8>>, <<"id", 80>>, <<"order_ticket", 8>>, <<"more", 8>>,
    <<"open_time", 8>>, <<"opaque", 8>>, <<"symbol", 64>>, <<"type", 4>>, <<"direction", 4>>,
    <<"open_price", 8>>, <<"price", 8>>, <<"stop_loss", 8>>, <<"take_profit", 8>>,
    <<"volume_units", 8>>, <<"profit", 8>>, <<"profit_rate", 8>>, <<"volume_rate", 8>>,
    <<"commission", 8>>, <<"unknown", 8>>, <<"swap", 8>>, <<"expert_id", 8>>,
    <<"position_ticket", 8>>, <<"comment", 64>>, <<"contract_size", 8>>, <<"digits", 4>>,
    <<"money_digits", 4>>, <<"opaques", 172>>, <<"open_time_ms", 8>>, <<"rest", 116>> >>

Deal == {
    <<"ticket_number", 0, 8>>, <<"order_ticket", 88, 8>>, <<"position_ticket", 288, 8>>,
    <<"symbol", 120, 64>>, <<"type", 184, 4>>, <<"direction", 188, 4>>, <<"open_time", 104, 8>>,
    <<"open_time_ms", 548, 8>>, <<"open_price", 192, 8>>, <<"price", 200, 8>>,
    <<"stop_loss", 208, 8>>, <<"take_profit", 216, 8>>, <<"volume_units", 224, 8>>,
    <<"profit", 232, 8>>, <<"commission", 256, 8>>, <<"swap", 272, 8>>, <<"expert_id", 280, 8>>,
    <<"comment", 296, 64>>, <<"profit_rate", 240, 8>>, <<"volume_rate", 248, 8>>,
    <<"contract_size", 360, 8>>, <<"money_digits", 372, 4>>}

AccountRecord == <<
    <<"login", 8>>, <<"names", 448>>, <<"trade_flags", 4>>, <<"addresses", 1376>>,
    <<"balance", 8>>, <<"credit", 8>>, <<"opaque", 76>>, <<"blocked", 8>>, <<"opaques", 84>>,
    <<"leverage", 4>>, <<"rest", 972>> >>

Account == {
    <<"login", 0, 8>>, <<"balance", 1836, 8>>, <<"credit", 1844, 8>>, <<"blocked", 1928, 8>>,
    <<"leverage", 2020, 4>>, <<"trade_flags", 456, 4>>}

TermsRecord == <<
    <<"opaque", 3080>>, <<"currency", 64>>, <<"digits", 4>>, <<"opaques", 404>>,
    <<"acc_method", 4>>, <<"unknown", 8>>, <<"margin_mode", 4>>, <<"rest", 660>> >>

AccountTerms == {<<"currency", 3080, 64>>, <<"digits", 3144, 4>>, <<"acc_method", 3552, 4>>,
                 <<"margin_mode", 3564, 4>>}

SymbolRecord == <<
    <<"update_time", 8>>, <<"symbol", 64>>, <<"texts", 1216>>, <<"unknown_text_1288", 32>>,
    <<"profit_currency", 32>>, <<"margin_currency", 32>>, <<"colors", 40>>, <<"digits", 4>>,
    <<"points", 8>>, <<"limit_points", 8>>, <<"id", 4>>, <<"opaque", 184>>, <<"tick_value", 8>>,
    <<"tick_size", 8>>, <<"contract_size", 8>>, <<"gtc_mode", 4>>, <<"calc_mode", 4>>,
    <<"rest", 288>> >>

Symbol == {
    <<"digits", 1424, 4>>, <<"id", 1444, 4>>, <<"symbol", 8, 64>>, <<"points", 1428, 8>>,
    <<"contract_size", 1648, 8>>, <<"tick_size", 1640, 8>>, <<"tick_value", 1632, 8>>,
    <<"unknown_text_1288", 1288, 32>>, <<"profit_currency", 1320, 32>>,
    <<"margin_currency", 1352, 32>>, <<"calc_mode", 1660, 4>>}

GroupRecord == <<
    <<"group_name", 264>>, <<"rates", 40>>, <<"trade_mode", 4>>, <<"sl", 4>>, <<"tp", 4>>,
    <<"trade_type", 4>>, <<"fill_policy", 4>>, <<"expiration", 4>>, <<"order_flags", 4>>,
    <<"requotes", 412>>, <<"min_volume", 8>>, <<"max_volume", 8>>, <<"volume_step", 8>>,
    <<"opaque", 64>>, <<"unknown_832", 4>>, <<"initial_margin", 8>>, <<"maintenance_margin", 8>>,
    <<"init_margin_rate", 64>>, <<"mntn_margin_rate", 64>>, <<"unknown", 8>>,
    <<"hedged_margin", 8>>, <<"rest", 232>> >>

SymbolGroup == {
    <<"trade_type", 316, 4>>, <<"trade_mode", 304, 4>>, <<"fill_policy", 320, 4>>,
    <<"order_flags", 328, 4>>, <<"min_volume", 744, 8>>, <<"max_volume", 752, 8>>,
    <<"volume_step", 760, 8>>, <<"sl", 308, 4>>, <<"tp", 312, 4>>, <<"initial_margin", 836, 8>>,
    <<"maintenance_margin", 844, 8>>, <<"init_margin_rate", 852, 64>>,
    <<"mntn_margin_rate", 916, 64>>, <<"expiration", 324, 4>>, <<"unknown_832", 832, 4>>,
    <<"hedged_margin", 988, 8>>}

ResultRecord == <<
    <<"status", 4>>, <<"position_id", 8>>, <<"ticket", 8>>, <<"volume_units", 8>>,
    <<"open_price", 8>>, <<"quotes", 32>>, <<"comment", 64>>, <<"rest", 128>> >>

TradeResult == {
    <<"status", 0, 4>>, <<"position_id", 4, 8>>, <<"ticket", 12, 8>>, <<"volume_units", 20, 8>>,
    <<"open_price", 28, 8>>, <<"comment", 68, 64>>}

\* Every place read is that of a field, all of it.
Documented(layout, size, reads) ==
    /\ Size(layout) = size
    /\ \A read \in reads :
         \E i \in DOMAIN layout : layout[i] = <<read[1], read[3]>> /\ Starts(layout)[i] = read[2]

RecordsDocumented ==
    /\ Documented(OrderRecord, 636, OrderFields) /\ Documented(DealRecord, 672, Deal)
    /\ Documented(AccountRecord, 2996, Account) /\ Documented(TermsRecord, 4228, AccountTerms)
    /\ Documented(SymbolRecord, 1952, Symbol) /\ Documented(GroupRecord, 1228, SymbolGroup)
    /\ Documented(ResultRecord, 260, TradeResult)

------------------------------------------------------------------------------
(* The trade request: its fields one behind the other, those set by        *)
(* build_trade_record, and where the broker looks for them                  *)

TRADE_FIELDS == <<
    <<"request_id", 4>>, <<"opaque_016", 64>>, <<"trade_type", 4>>, <<"login", 8>>,
    <<"opaque_017", 72>>, <<"transfer_login", 8>>, <<"text_018", 128>>, <<"symbol", 64>>,
    <<"volume_units", 8>>, <<"unknown_01a", 8>>, <<"digits", 4>>, <<"unknown_01b", 8>>,
    <<"opaque_01c", 20>>, <<"order_ticket", 8>>, <<"opaque_01d", 64>>, <<"unknown_01e", 8>>,
    <<"expiration_time", 8>>, <<"order_type", 4>>, <<"fill_policy", 4>>,
    <<"expiration_type", 4>>, <<"flags", 8>>, <<"placed_type", 4>>, <<"opaque_01f", 16>>,
    <<"price", 8>>, <<"stop_limit_price", 8>>, <<"stop_loss", 8>>, <<"take_profit", 8>>,
    <<"deviation", 8>>, <<"opaque_020", 32>>, <<"expert_id", 8>>, <<"comment", 64>>,
    <<"position_ticket", 8>>, <<"opposite_position_ticket", 8>>, <<"opaque_021", 112>> >>

TradeRequest == {
    <<"request_id", 0, 4>>, <<"trade_type", 68, 4>>, <<"login", 72, 8>>, <<"symbol", 288, 64>>,
    <<"volume_units", 352, 8>>, <<"digits", 368, 4>>, <<"order_ticket", 400, 8>>,
    <<"expiration_time", 480, 8>>, <<"order_type", 488, 4>>, <<"fill_policy", 492, 4>>,
    <<"expiration_type", 496, 4>>, <<"placed_type", 508, 4>>, <<"price", 528, 8>>,
    <<"stop_limit_price", 536, 8>>, <<"stop_loss", 544, 8>>, <<"take_profit", 552, 8>>,
    <<"deviation", 560, 8>>, <<"expert_id", 600, 8>>, <<"comment", 608, 64>>,
    <<"position_ticket", 672, 8>>, <<"opposite_position_ticket", 680, 8>>}

------------------------------------------------------------------------------
(* Messages: what a record of each subtype is made of *)

Transaction == <<Skipped(4), Kept("action", 4), Skipped(144)>>

Pushed == [kind \in {7, 19, 31, 33} |->
    CASE kind = 7 ->
           <<Each(3348, <<Skipped(32), Kept("symbol", 1952), Kept("group", 1228)>>
                        \o [i \in 1 .. 14 |-> Arrays(40)] \o <<Skipped(80)>>)>>
      [] kind = 19 -> <<Each(3212, <<Skipped(216), Kept("account", 2996)>>)>>
      [] kind = 31 -> <<Each(788, Transaction \o <<Kept("order", 636)>>)>>
      [] kind = 33 ->
           <<Each(1760, Transaction \o
                <<Kept("deal", 672), Kept("position", 672), Skipped(8), Kept("balance", 8),
                  Kept("credit", 8), Skipped(168), Skipped(64),
                  Each(672, <<Kept("related deal", 672)>>),
                  Each(672, <<Kept("related position", 672)>>)>>)>>]

\* Beside the subtypes: a signed request, and a list of tagged values.
SignedRequest == 0
Tagged == 85

MessageInit ==
    message \in [kind : {1, 7, 19, 31, 33, 35, SignedRequest, Tagged}, n : {0}, action : {1},
                 dealt : {TRUE}, digits : {5}, tail : {0}, short : {0}, units : {5}]

\* What a field holds, where the decoder looks closer; odd is only the first record.
ActionOf(field) == IF field[3] = <<1>> THEN message.action ELSE 1
DealtIn(field) == IF field[3] = <<1>> THEN message.dealt ELSE TRUE
DigitsOf(field) == IF field[3] = <<1>> THEN message.digits ELSE 5

MessageNext ==
    \/ message.n < MaxPushed /\ message' = [message EXCEPT !.n = @ + 1]
    \/ /\ message.kind \in {31, 33}
       /\ \E action \in 0 .. 3, dealt \in BOOLEAN :
            message' = [message EXCEPT !.action = action, !.dealt = dealt]
    \/ message.kind = 7 /\ \E d \in {-1, 0, 12, 13} : message' = [message EXCEPT !.digits = d]
    \/ /\ message.kind = 35 /\ message.short = 0
       /\ \E n \in Tails : message' = [message EXCEPT !.tail = n]
    \/ message.kind = SignedRequest /\ \E n \in {32, 33} : message' = [message EXCEPT !.units = n]
    \/ \E n \in Missing :
         \* What the size of a record is follows from that of the message.
         /\ message.kind = 35 => message.tail = 0 /\ n > 0
         /\ message' = [message EXCEPT !.short = n]

MessageSpec == MessageInit /\ [][MessageNext]_message

------------------------------------------------------------------------------
(* updates.rs, account.rs *)

Reject == <<"reject">>
Ok(value) == <<"ok", value>>

\* A change of the balance is told with an added deal only.
PositionChange(group) ==
    LET of(name) == Called(group, name)
    IN  [deal |-> of("deal"), position |-> of("position"),
         balance |-> IF ActionOf(of("action")[1]) = 0 /\ DealtIn(of("deal")[1])
                     THEN of("balance") \o of("credit") ELSE <<>>,
         deals |-> of("related deal"), positions |-> of("related position")]

decode_update(b, kind) ==
    LET r == Follows(b, [at |-> 1, kept |-> <<>>],
                     IF kind \in DOMAIN Pushed THEN Pushed[kind] ELSE <<>>)
        of(name) == Called(r.kept, name)
        groups == Groups(r.kept, "action")
    IN  IF \/ r.at = Bad
           \/ kind \notin {1, 19} /\ r.at # b.len
           \/ \E i \in DOMAIN of("action") : ActionOf(of("action")[i]) \notin 0 .. 2
           \/ \E i \in DOMAIN of("symbol") : DigitsOf(of("symbol")[i]) \notin 0 .. 12
        THEN Reject
        ELSE Ok(CASE kind = 1 -> <<>>
                  [] kind = 7 -> [i \in DOMAIN of("symbol") |-> <<of("symbol")[i], of("group")[i]>>]
                  [] kind = 19 -> of("account")
                  [] kind = 31 -> [i \in DOMAIN groups |->
                                      <<ActionOf(groups[i][1][2]), Called(groups[i], "order")>>]
                  [] kind = 33 -> [i \in DOMAIN groups |-> PositionChange(groups[i])])

------------------------------------------------------------------------------
(* trade.rs, tlv.rs *)

\* UTF-16, padded or truncated to the field without a word.
utf16_field(text, size) ==
    IF 2 * message.units <= size THEN text ELSE <<"beginning", text, size \div 2>>

build_trade_record(r) ==
    LET record == Records(Fields(TRADE_FIELDS), Size(TRADE_FIELDS), r, 1)
        texts == {o \in DOMAIN record.at : record.at[o][2][1] \in {"symbol", "comment"}}
    IN  [record EXCEPT !.at = [o \in DOMAIN @ |->
            IF o \in texts THEN <<64, utf16_field(@[o][2], 64)>> ELSE @[o]]]

encode_tlvs(items) ==
    LET value(i) == IF items[i][2] = 0 THEN Bare ELSE Number(items[i][2], items[i])
        upto[i \in 0 .. Len(items)] ==
            IF i = 0 THEN Bare
            ELSE Join(upto[i - 1],
                      Join(Join(Number(1, <<items[i][1]>>), Counter(items[i][2])), value(i)))
    IN  upto[Len(items)]

RECURSIVE parse_tlvs(_, _)
parse_tlvs(b, p) ==
    LET size == Word(b, p + 1)
        rest == parse_tlvs(b, p + 5 + size)
    IN  CASE p = b.len -> Ok(<<>>)
          [] p < b.len /\ (b.len - p < 5 \/ Count(b, p + 1, 1) = Bad) -> Reject
          [] p < b.len /\ b.len - p >= 5 /\ Count(b, p + 1, 1) # Bad ->
               IF rest = Reject THEN Reject
               ELSE Ok(<< <<Take(b, p, 1)[1],
                            IF size = 0 THEN <<>> ELSE Take(b, p + 5, size)>> >> \o rest[2])

make_signed_trade_payload(r) ==
    Join(Join(Number(1, <<0>>), build_trade_record(r)), encode_tlvs(<< <<85, 32>> >>))

\* Fault: nothing is appended to a record.
BaseStride(b) == 1212
Stride(b) == (b.len - 5) \div Word(b, 1)

\* The request an update echoes is known by its number.
TradeUpdate(b, base) ==
    [field \in {<<read[1], 952 + read[2], read[3]>> : read \in TradeResult}
               \union {<<"request_id", 152, 4>>} |-> Take(b, base + field[2], field[3])]

parse_trade_update_35(b) ==
    IF b.len < 5 \/ Word(b, 1) <= 0 THEN Reject
    ELSE IF (b.len - 5) % Word(b, 1) # 0 \/ Stride(b) < 1212 THEN Reject
    ELSE Ok([i \in 1 .. Word(b, 1) |-> TradeUpdate(b, 5 + (i - 1) * Stride(b))])

------------------------------------------------------------------------------
(* The messages as they were sent *)

Results(n) ==
    LET one(r) == Join(Join(Opaque(152), build_trade_record(r)),
                       Join(Records(Fields(ResultRecord), 260, r, 1), Opaque(message.tail)))
        upto[r \in 0 .. n] == IF r = 0 THEN Bare ELSE Join(upto[r - 1], one(r))
    IN  upto[n]

Items(n) == [i \in 1 .. n |-> <<80 + i, 16 * (i - 1)>>]

Body ==
    LET head == Number(1, <<message.kind>>)
        n == message.n
    IN  CASE message.kind \in {7, 19, 31, 33} -> Join(head, Writes(Pushed[message.kind], 1, n, <<>>))
          [] message.kind = 35 -> Join(head, Join(Counter(n), Results(n)))
          [] message.kind = 1 -> Join(head, Opaque(n))
          [] message.kind = SignedRequest -> make_signed_trade_payload(n)
          [] message.kind = Tagged -> encode_tlvs(Items(n))

Came == Cut(Body, IF message.short > Body.len THEN 0 ELSE Body.len - message.short)

Told(name, i) == <<name, 1, i>>
ToldEach(name, i) == [j \in 1 .. message.n |-> Told(name, i \o <<j>>)]
ActionAt(i) == IF i = 1 THEN message.action ELSE 1

\* What the client should make of a whole message.
AsTold ==
    [i \in 1 .. (IF message.kind = 1 THEN 0 ELSE message.n) |->
        CASE message.kind = 7 -> <<Told("symbol", <<i>>), Told("group", <<i>>)>>
          [] message.kind = 19 -> Told("account", <<i>>)
          [] message.kind = 31 -> <<ActionAt(i), <<Told("order", <<i>>)>>>>
          [] message.kind = 33 ->
               [deal |-> <<Told("deal", <<i>>)>>, position |-> <<Told("position", <<i>>)>>,
                balance |-> IF ActionAt(i) = 0 /\ (i = 1 => message.dealt)
                            THEN <<Told("balance", <<i>>), Told("credit", <<i>>)>> ELSE <<>>,
                deals |-> ToldEach("related deal", <<i>>),
                positions |-> ToldEach("related position", <<i>>)]]

\* One record that cannot be understood spoils the message.
Senseless ==
    /\ message.kind # 1
    /\ \/ message.n > 0 /\ (message.action = 3 \/ message.digits \notin 0 .. 12)
       \/ message.short > 0
       \/ message.short < 0 /\ message.kind # 19

------------------------------------------------------------------------------
(* Properties *)

\* Changes of symbols, accounts, orders and positions come through as they were told, all
\* of a message or nothing of it, and at most the account takes more bytes than it knows.
UpdatesSurvive ==
    message.kind \in {1, 7, 19, 31, 33} /\ Came.len > 0 =>
        decode_update(Came, message.kind) = IF Senseless THEN Reject ELSE Ok(AsTold)

\* A result names the request it answers, with everything in its place, whatever the
\* server appends to its records.
ResultsSurvive ==
    message.kind = 35 =>
        parse_trade_update_35(Came) =
            IF message.n = 0 \/ message.short # 0 THEN Reject
            ELSE Ok([r \in 1 .. message.n |->
                     [field \in {<<read[1], 952 + read[2], read[3]>> : read \in TradeResult}
                                \union {<<"request_id", 152, 4>>} |-> <<field[1], r, 1>>]])

\* The broker finds every field of a request where it looks for it, and its signature;
\* of a symbol or comment longer than 32 units it finds the first 32.
RequestsSurvive ==
    message.kind = SignedRequest /\ message.short = 0 =>
        /\ Body.len = 838
        /\ \A read \in TradeRequest :
             LET meant == <<read[1], message.n, 1>>
             IN  Take(Body, 1 + read[2], read[3]) =
                     IF read[1] \in {"symbol", "comment"} /\ message.units > 32
                     THEN <<"beginning", meant, 32>> ELSE meant
        /\ parse_tlvs([len |-> 37, at |-> [o \in {0, 1, 5} |-> Body.at[801 + o]]], 0)
              = Ok(<< <<85, <<85, 32>>>> >>)

\* A list that is cut is refused unless it ends with one of its items.
ListsSurvive ==
    message.kind = Tagged /\ message.short >= 0 =>
        LET whole == {k \in 0 .. message.n : encode_tlvs(Items(k)).len = Came.len}
            of(k) == [i \in 1 .. k |-> <<Items(k)[i][1], IF i = 1 THEN <<>> ELSE Items(k)[i]>>]
        IN  parse_tlvs(Came, 0) =
                IF whole = {} THEN Reject ELSE Ok(of(CHOOSE k \in whole : TRUE))

\* Every message of the broker the client decodes, and every trade it signs, says what it
\* said when it was sent, but for texts the client cuts to their field, and the records
\* are read where the repository documents them.
RecordsSurvive ==
    /\ RecordsDocumented
    /\ UpdatesSurvive /\ ResultsSurvive /\ RequestsSurvive /\ ListsSurvive

=============================================================================
