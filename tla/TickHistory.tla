----------------------------- MODULE TickHistory -----------------------------
(***************************************************************************)
(* mt5-session/src/client/history.rs `ticks` and the answers it pages       *)
(* through (mt5-native/src/tick_history.rs, history.rs): the broker keeps a *)
(* container per date, says with `more` that others follow, and sends the   *)
(* ticks it has not filed yet as trailing hours of the last answer.  A tick *)
(* is a time and one of its prices; a row leaves out a price that did not   *)
(* change.  Ticks arrive and are filed while the client pages.              *)
(***************************************************************************)
EXTENDS Integers, Sequences, SequencesExt, FiniteSets

CONSTANTS DayLength,        \* 86_400_000
          HourLength,       \* 3_600_000
          RowLimit,         \* MAX_TICKS, 1_000_000
          PageLimit,        \* 64
          DayLimit,         \* 31
          Ranges,           \* the ranges asked for, <<from, to>>
          TickPrices, LastTime, MaxTicks    \* bounds: the market's ticks

ASSUME TickAssumption ==
    /\ {DayLength, HourLength, PageLimit, DayLimit} \subseteq Nat \ {0}
    /\ RowLimit \in Nat /\ TickPrices \subseteq Nat /\ {LastTime, MaxTicks} \subseteq Nat
    /\ Ranges \subseteq Int \X Int

VARIABLES ticks,            \* the broker's, oldest first
          filed,            \* how many of them are in containers
          call              \* of the client

market == <<ticks, filed, call>>

DateOf(time) == time \div DayLength

\* The elements of a sequence that are in S, in their order.
Those(s, S) ==
    LET kept[n \in 0 .. Len(s)] ==
          IF n = 0 THEN <<>> ELSE IF s[n] \in S THEN Append(kept[n - 1], s[n]) ELSE kept[n - 1]
    IN kept[Len(s)]

------------------------------------------------------------------------------
(* A column group: times as differences, a price or nothing new. *)

\* What the broker packs: the first price of a group is always there.
Columns(rows, first, last) ==
    [n \in 1 .. last - first + 1 |->
       LET row == rows[first + n - 1]
           previous == rows[first + n - 2]
           same == n > 1 /\ previous.price = row.price
       IN [lapse |-> row.time - IF n = 1 THEN 0 ELSE previous.time,
           price |-> IF same THEN 0 ELSE row.price, flagged |-> ~same]]

\* read_column_group_limited: the time column is a running sum.
Rows(group) ==
    LET time[n \in 0 .. Len(group)] == IF n = 0 THEN 0 ELSE time[n - 1] + group[n].lapse
    IN [n \in DOMAIN group |->
          [time |-> time[n], price |-> group[n].price, flagged |-> group[n].flagged]]

\* A container: of a date with one group, of trailing hours with a group each.
Hour(rows, h) ==
    LET of == {i \in DOMAIN rows : rows[i].time \div HourLength = h}
    IN IF of = {} THEN <<>>
       ELSE Columns(rows, CHOOSE i \in of : \A j \in of : i <= j,
                          CHOOSE i \in of : \A j \in of : i >= j)

Filed(date, rows) == [date |-> date, groups |-> <<Columns(rows, 1, Len(rows))>>]
Trailing(date, rows) ==
    LET hours == [h \in 1 .. (LastTime \div HourLength) + 1 |-> Hour(rows, h - 1)]
    IN [date |-> date, groups |-> Those(hours, ToSet(hours) \ {<<>>})]

\* container
Unpacked(box) == FlattenSeq([g \in DOMAIN box.groups |-> Rows(box.groups[g])])

\* materialize_ticks: zero without its flag is the price before; nothing is 0 at first.
PriceOf(row, price) == IF row.price # 0 \/ row.flagged THEN row.price ELSE price
Materialized(rows) ==
    LET price[n \in 0 .. Len(rows)] == IF n = 0 THEN 0 ELSE PriceOf(rows[n], price[n - 1])
    IN [n \in DOMAIN rows |-> [time |-> rows[n].time, price |-> price[n]]]

------------------------------------------------------------------------------
(* The broker: external, as the client's tests and its cache request have it. *)

On(rows, date) == Those(rows, {t \in ToSet(rows) : DateOf(t.time) = date})
FiledOn(date) == On(SubSeq(ticks, 1, filed), date)
UnfiledOn(date) == On(SubSeq(ticks, filed + 1, Len(ticks)), date)

\* It answers for the day and the day before.
Dates(day) == {day - 1, day}

\* Those the client's cache, named by its descriptors, does not hold as they are now.
Stale(day, cached) ==
    {d \in Dates(day) :
       /\ FiledOn(d) # <<>>
       /\ \A i \in DOMAIN cached : cached[i] # Filed(d, FiledOn(d))}

TrailingHours(day) ==
    FlattenSeq([i \in 1 .. 2 |->
       LET d == day - 2 + i
       IN IF UnfiledOn(d) = <<>> THEN <<>> ELSE <<Trailing(d, UnfiledOn(d))>>])

\* A container an answer, the last with the trailing hours; or "more" with nothing new.
Answers(day, cached) ==
    LET stale == Stale(day, cached)
        boxes == {<<Filed(d, FiledOn(d))>> : d \in stale}
        last == IF stale = {} THEN {<<>>} ELSE IF Cardinality(stale) = 1 THEN boxes ELSE {}
    IN {[more |-> TRUE, boxes |-> b, trailing |-> <<>>] : b \in boxes \cup {cached}}
       \cup {[more |-> FALSE, boxes |-> b, trailing |-> TrailingHours(day)] : b \in last}

NewTick(time, price) ==
    /\ Len(ticks) < MaxTicks
    /\ Len(ticks) > 0 => time >= ticks[Len(ticks)].time
    /\ ticks' = Append(ticks, [time |-> time, price |-> price])
    /\ UNCHANGED <<filed, call>>

FileTicks(upTo) == filed' = upTo /\ UNCHANGED <<ticks, call>>

------------------------------------------------------------------------------
(* The client: ticks *)

NoCall == [phase |-> "idle", from |-> 0, to |-> 0, day |-> 0, pages |-> 0,
           cached |-> <<>>, output |-> <<>>, known |-> 0]

TicksInit == ticks = <<>> /\ filed = 0 /\ call = NoCall

Fail == call' = [NoCall EXCEPT !.phase = "failed"]

Return(output) == [call EXCEPT !.phase = "done", !.cached = <<>>, !.output = output]

\* The days of a range, and whether `date` has tokens for them and they are not too many.
Allowed(from, to) == from >= 0 /\ DateOf(to - 1) - DateOf(from) < DayLimit

AskTicks(from, to) ==
    /\ call.phase = "idle"
    /\ IF from < to /\ ~Allowed(from, to) THEN Fail
       ELSE call' = [NoCall EXCEPT !.phase = IF from >= to THEN "done" ELSE "asking",
                                   !.from = from, !.to = to, !.day = DateOf(from),
                                   !.known = Len(ticks)]
    /\ UNCHANGED <<ticks, filed>>

\* A container takes the place of the one of its date.
Merged(cached, box) ==
    LET same == {i \in DOMAIN cached : cached[i].date = box.date}
    IN IF same = {} THEN Append(cached, box)
       ELSE [cached EXCEPT ![CHOOSE i \in same : TRUE] = box]

RowCount(boxes) == Len(FlattenSeq([i \in DOMAIN boxes |-> FlattenSeq(boxes[i].groups)]))

\* sort_by_key is stable: what comes before an element is smaller, or equal and before it.
SortedBy(keys, s) ==
    LET place[i \in DOMAIN s] ==
          Cardinality({j \in DOMAIN s : keys[j] < keys[i] \/ (keys[j] = keys[i] /\ j <= i)})
    IN [n \in DOMAIN s |-> s[CHOOSE i \in DOMAIN s : place[i] = n]]

\* Fault: rows of the range, whatever the day.
AnyDay(row) == row.time >= call.from /\ row.time < call.to
\* Rows of the range on the day asked for.
Wanted(row) == row.time >= call.from /\ row.time < call.to /\ DateOf(row.time) = call.day

\* The output with a day that is complete.
WithDay(cached, trailing) ==
    LET boxes == SortedBy([i \in DOMAIN cached |-> cached[i].date], cached) \o trailing
        rows == Materialized(FlattenSeq([i \in DOMAIN boxes |-> Unpacked(boxes[i])]))
    IN call.output \o Those(rows, {row \in ToSet(rows) : Wanted(row)})

\* Fault: the day stays.
SameDay(output) == [call EXCEPT !.pages = 0, !.cached = <<>>, !.output = <<>>]
\* The call after a complete day.
AfterDay(output) ==
    IF DateOf(call.to - 1) = call.day
    THEN Return(SortedBy([i \in DOMAIN output |-> output[i].time], output))
    ELSE [call EXCEPT !.day = @ + 1, !.pages = 0, !.cached = <<>>, !.output = output]

\* No page is left after this one.
LastPage == call.pages + 1 = PageLimit

\* An answer that others follow: it brings something new, and a page is left.
MoreFollows(cached) ==
    IF call.cached = cached \/ LastPage THEN Fail
    ELSE call' = [call EXCEPT !.pages = @ + 1, !.cached = cached]

DayComplete(output) == IF Len(output) > RowLimit THEN Fail ELSE call' = AfterDay(output)

TicksAnswered(answer) ==
    \E cached \in {FoldLeft(Merged, call.cached, answer.boxes)} :
       /\ call.phase = "asking"
       /\ IF RowCount(answer.boxes \o answer.trailing) > RowLimit \/ RowCount(cached) > RowLimit
          THEN Fail
          ELSE IF answer.more THEN MoreFollows(cached)
          ELSE \E output \in {WithDay(cached, answer.trailing)} : DayComplete(output)
       /\ UNCHANGED <<ticks, filed>>

\* request: the answer does not come in time, or is refused, or the connection is gone.
TicksFailed == call.phase = "asking" /\ Fail /\ UNCHANGED <<ticks, filed>>

AnswerTicks ==
    call.phase = "asking" /\ \E answer \in Answers(call.day, call.cached) : TicksAnswered(answer)

TicksNext ==
    \/ \E time \in 0 .. LastTime, price \in TickPrices : NewTick(time, price)
    \/ \E upTo \in filed + 1 .. Len(ticks) : FileTicks(upTo)
    \/ \E range \in Ranges : AskTicks(range[1], range[2])
    \/ AnswerTicks
    \/ TicksFailed

TicksSpec == TicksInit /\ [][TicksNext]_market

\* The loop of `request` ends at its deadline.
TicksFairness == WF_market(TicksFailed \/ AnswerTicks)

------------------------------------------------------------------------------
(* Properties *)

InRange(rows) == Those(rows, {t \in ToSet(rows) : t.time >= call.from /\ t.time < call.to})
OnDay(rows, day) == On(InRange(rows), day)

\* However ticks arrive and are filed between the pages, `ticks` returns for each day of its
\* range the broker's ticks from the first on, once each and with the prices they had, and
\* none that was there when it was called is left out.
TicksComplete ==
    call.phase = "done" =>
      /\ InRange(call.output) = call.output
      /\ \A i, j \in DOMAIN call.output : i < j => call.output[i].time <= call.output[j].time
      /\ \A day \in {DateOf(t) : t \in 0 .. LastTime} :
           /\ IsPrefix(OnDay(call.output, day), OnDay(ticks, day))
           /\ IsPrefix(OnDay(SubSeq(ticks, 1, call.known), day), OnDay(call.output, day))

\* A call ends, whatever the broker goes on answering.
TicksEnd == call.phase = "asking" ~> call.phase # "asking"

=============================================================================
