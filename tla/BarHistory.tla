----------------------------- MODULE BarHistory -----------------------------
(***************************************************************************)
(* mt5-session/src/client/history.rs `bars`: pages backwards from the end   *)
(* of the range, a page for a day, and asks for the day before the oldest   *)
(* bar it has seen until that is at the start of the range.  Bars are named *)
(* by their minute; the one that is forming changes until the next begins.  *)
(***************************************************************************)
EXTENDS Integers, FiniteSets, FiniteSetsExt

CONSTANTS BarDay,           \* minutes of a day
          BarPages,         \* 256
          BarRanges,        \* the ranges asked for, <<from, to>>
          LastMinute        \* bound: of the market

ASSUME BarAssumption ==
    /\ {BarDay, BarPages} \subseteq Nat \ {0} /\ LastMinute \in Nat
    /\ BarRanges \subseteq Int \X Int

VARIABLES traded,           \* the broker's bars, <<minute, version>>
          paging            \* of the client

charts == <<traded, paging>>

NoPaging == [phase |-> "idle", from |-> 0, to |-> 0, before |-> 0, pages |-> 0,
             bars |-> {}, known |-> {}]

Minutes(bars) == {bar[1] : bar \in bars}

BarsInit ==
    /\ \E minutes \in SUBSET (0 .. LastMinute) : traded = {<<m, 0>> : m \in minutes}
    /\ paging = NoPaging

------------------------------------------------------------------------------
(* The broker: external. *)

\* A bar closes for good when the next one begins.
NextBar(minute) ==
    /\ \A m \in Minutes(traded) : m < minute
    /\ traded' = traded \cup {<<minute, 0>>}
    /\ UNCHANGED paging

\* A trade in the minute of the last bar.
BarForms ==
    /\ <<Max(Minutes(traded)), 0>> \in traded
    /\ traded' = (traded \ {<<Max(Minutes(traded)), 0>>}) \cup {<<Max(Minutes(traded)), 1>>}
    /\ UNCHANGED paging

\* Whole days up to the one asked for, back past the minute the client has come to; when
\* there is nothing so old, the day again or nothing.
Pages(before) ==
    LET back(day) == {bar \in traded : bar[1] \div BarDay \in day .. before \div BarDay}
        pages == {back(day) : day \in 0 .. before \div BarDay}
        further == {page \in pages : \E bar \in page : bar[1] <= before}
    IN IF further = {} THEN {{}, back(before \div BarDay)} ELSE further

------------------------------------------------------------------------------
(* The client: bars *)

PagingFails == paging' = [NoPaging EXCEPT !.phase = "failed"]

Request(p) == IF p.before < 0 THEN [NoPaging EXCEPT !.phase = "failed"] ELSE p

AskBars(from, to) ==
    /\ paging.phase = "idle"
    /\ paging' = IF from >= to THEN [NoPaging EXCEPT !.phase = "done"]
                 ELSE Request([NoPaging EXCEPT !.phase = "asking", !.from = from, !.to = to,
                                               !.before = to - 1, !.known = traded])
    /\ UNCHANGED traded

\* Fault: a bar at the start of the range is left out.
InsertedPast(bars, page) ==
    {bar \in bars : bar[1] \notin Minutes(page)}
    \cup {bar \in page : bar[1] > paging.from /\ bar[1] < paging.to}

\* insert: the bar of the later page stays.
Inserted(bars, page) ==
    {bar \in bars : bar[1] \notin Minutes(page)}
    \cup {bar \in page : bar[1] >= paging.from /\ bar[1] < paging.to}

NoProgress(oldest) == oldest >= paging.before

BarsAnswered(page) ==
    LET oldest == Min({paging.before} \cup Minutes(page))
        bars == Inserted(paging.bars, page)
    IN /\ paging.phase = "asking"
       /\ CASE page = {} \/ oldest <= paging.from ->
                 paging' = [paging EXCEPT !.phase = "done", !.bars = bars]
            [] page # {} /\ oldest > paging.from
               /\ (NoProgress(oldest) \/ paging.pages + 1 = BarPages) -> PagingFails
            [] OTHER ->
                 paging' = Request([paging EXCEPT !.bars = bars, !.pages = @ + 1,
                                                  !.before = oldest - 1])
       /\ UNCHANGED traded

BarsFailed == paging.phase = "asking" /\ PagingFails /\ UNCHANGED traded

AnswerBars == \E page \in Pages(paging.before) : BarsAnswered(page)

BarsNext ==
    \/ \E minute \in 0 .. LastMinute : NextBar(minute)
    \/ Minutes(traded) # {} /\ BarForms
    \/ \E range \in BarRanges : AskBars(range[1], range[2])
    \/ AnswerBars
    \/ BarsFailed

BarsSpec == BarsInit /\ [][BarsNext]_charts

------------------------------------------------------------------------------
(* Properties *)

\* Wherever the pages begin, the bars that were all there when `bars` was called are all in
\* what it returns, once each; what it returns beyond them are bars that came since, and a
\* bar is not as the broker has it only if it has changed since.
BarsComplete ==
    paging.phase = "done" =>
      /\ \A m \in Minutes(paging.known) :
           m >= paging.from /\ m < paging.to => m \in Minutes(paging.bars)
      /\ Cardinality(Minutes(paging.bars)) = Cardinality(paging.bars)
      /\ \A bar \in paging.bars :
           /\ bar[1] >= paging.from /\ bar[1] < paging.to
           /\ bar[1] \in Minutes(traded)
           /\ bar \notin traded => <<bar[1], 1>> \in traded \ paging.known

=============================================================================
