---------------------------- MODULE WebtermSpecs ----------------------------
(***************************************************************************)
(* mt5-webterm/src/session.rs `load_specs` and what a snapshot makes of    *)
(* it: the money a tick of each symbol is worth.  The list of symbols      *)
(* tells of a symbol its name and how it is calculated; the rest comes     *)
(* with further requests, which may fail.  A profit in a foreign currency  *)
(* is converted with the quote of a pair, which is looked for by its name. *)
(*                                                                         *)
(* A name is its number, the two currencies it begins with and how much    *)
(* follows them.  A value is a fraction: how much, and divided by what.    *)
(***************************************************************************)
EXTENDS Integers, FiniteSets

CONSTANTS Instruments,        \* the numbers of the symbols the broker lists
          Specified(_),      \* what their names and full specifications say
          Deposit,      \* the currency of the account
          Sought,       \* the symbols a snapshot asks about
          PairQuotes    \* what may be cached of a symbol; NoPairQuote: nothing

\* A market's bid is not above its ask.
ASSUME SpecsAssumption ==
    /\ Instruments \subseteq Nat \ {0} /\ Sought \subseteq Instruments
    /\ \A n \in Instruments :
         {Specified(n).rest, Specified(n).tickSize, Specified(n).point, Specified(n).contract,
          Specified(n).tickValue} \subseteq Nat
    /\ \A q \in PairQuotes : q.bid \in Nat /\ q.ask \in Nat /\ q.bid <= q.ask

NoPairQuote == [bid |-> 0, ask |-> 0]
NoMoney == <<0, 1>>

VARIABLES
    phase,          \* where load_specs and its snapshot are
    complete,          \* Client::symbols: whose full specification is there
    foreign,        \* the profit currencies to convert
    chosen,         \* the pair of each of them, or 0
    pairQuotes,     \* Client::quotes, by the time the snapshot takes them
    worth           \* Snapshot::tick_values

specs == <<phase, complete, foreign, chosen, pairQuotes, worth>>

Currencies == {Specified(n).profit : n \in Instruments}

SpecsInit ==
    /\ phase = "missing" /\ complete \in SUBSET Instruments
    /\ foreign = {} /\ chosen = [c \in Currencies |-> 0]
    /\ pairQuotes \in [Instruments -> PairQuotes] /\ worth = [n \in Sought |-> NoMoney]

------------------------------------------------------------------------------
(* load_specs *)

\* Another task may ask for specifications as well.
OtherLoads(n) ==
    /\ phase # "done" /\ complete' = complete \union {n}
    /\ UNCHANGED <<phase, foreign, chosen, pairQuotes, worth>>

\* symbol_info keeps what comes back, and its error is ignored.
Loads(ok, wanted) == complete' = IF ok THEN complete \union wanted ELSE complete

LoadMissing(ok) ==
    /\ phase = "missing"
    /\ Loads(ok, Sought)
    /\ phase' = "currencies"
    /\ UNCHANGED <<foreign, chosen, pairQuotes, worth>>

\* pair_candidates: told by the names alone.
Candidates(c) ==
    {n \in Instruments : Specified(n).mode \in {0, 5} /\ Specified(n).head \in {<<c, Deposit>>, <<Deposit, c>>}}

LoadPairs(ok) ==
    /\ phase = "currencies"
    /\ foreign' = {Specified(n).profit : n \in Sought \intersect complete} \ {Deposit}
    /\ Loads(ok, UNION {Candidates(c) : c \in foreign'})
    /\ phase' = "pairs"
    /\ UNCHANGED <<chosen, pairQuotes, worth>>

\* The shortest name first.
Before(m, n) ==
    \/ Specified(m).rest < Specified(n).rest
    \/ Specified(m).rest = Specified(n).rest /\ m < n

\* pair_direction: what the pair quotes, whatever its name is.
Forward(n, c) == Specified(n).base = c /\ Specified(n).profit = Deposit
Backward(n, c) == Specified(n).base = Deposit /\ Specified(n).profit = c

\* Fault: the name is believed.
NamedPairs(c) == Candidates(c) \intersect complete
Pairs(c) == {n \in Candidates(c) \intersect complete : Forward(n, c) \/ Backward(n, c)}

Choose ==
    /\ phase = "pairs"
    /\ chosen' = [c \in Currencies |->
                    IF c \in foreign /\ Pairs(c) # {}
                    THEN CHOOSE n \in Pairs(c) : \A m \in Pairs(c) \ {n} : Before(n, m)
                    ELSE 0]
    /\ phase' = "quotes"
    /\ UNCHANGED <<complete, foreign, pairQuotes, worth>>

------------------------------------------------------------------------------
(* The values *)

PairQuoted(n) == n # 0 /\ pairQuotes[n].bid > 0 /\ pairQuotes[n].ask > 0

\* conversion_rate: priced on the side that makes a loss larger.
Rate(c) ==
    IF c = Deposit THEN <<1, 1>>
    ELSE IF ~PairQuoted(chosen[c]) THEN NoMoney
    ELSE IF Forward(chosen[c], c) THEN <<pairQuotes[chosen[c]].ask, 1>>
    ELSE <<1, pairQuotes[chosen[c]].bid>>

TickSize(s) == IF s.tickSize > 0 THEN s.tickSize ELSE s.point

\* In the profit currency, per lot.
PerTick(s) == IF s.mode \in {0, 2, 3, 4, 5, 32} THEN TickSize(s) * s.contract ELSE s.tickValue

\* A value of 0 is left out.
Value ==
    /\ phase = "quotes"
    /\ worth' = [n \in Sought |->
                    IF n \in complete
                    THEN LET rate == Rate(Specified(n).profit)
                         IN  IF PerTick(Specified(n)) * rate[1] = 0 THEN NoMoney
                             ELSE <<PerTick(Specified(n)) * rate[1], rate[2]>>
                    ELSE NoMoney]
    /\ phase' = "done"
    /\ UNCHANGED <<complete, foreign, chosen, pairQuotes>>

SpecsNext ==
    \/ \E ok \in BOOLEAN : LoadMissing(ok) \/ LoadPairs(ok)
    \/ Choose \/ Value
    \/ \E n \in Instruments : OtherLoads(n)

SpecsSpec == SpecsInit /\ [][SpecsNext]_specs

------------------------------------------------------------------------------
(* Properties *)

AtLeast(v, over, under) == v[1] * under >= over * v[2]

\* A value converted with pair m covers a loss whichever side of its quote is dealt.
Covered(n, v, m) ==
    LET money == PerTick(Specified(n))
        c == Specified(n).profit
    IN  \/ /\ Specified(m).base = c /\ Specified(m).profit = Deposit
           /\ AtLeast(v, money * pairQuotes[m].bid, 1) /\ AtLeast(v, money * pairQuotes[m].ask, 1)
        \/ /\ Specified(m).base = Deposit /\ Specified(m).profit = c
           /\ AtLeast(v, money, pairQuotes[m].bid) /\ AtLeast(v, money, pairQuotes[m].ask)

\* "A symbol whose rate is unknown is absent rather than guessed": every value told is
\* in the account's own currency or converted with a quoted pair of just the two
\* currencies, on the side that does not understate a loss, whichever requests failed.
\* None is missing whose specification, pair and quote are there.
TickValuesTrue ==
    phase = "done" =>
        \A n \in Sought :
            LET v == worth[n]
                c == Specified(n).profit
                quoted == {m \in Instruments : PairQuoted(m)}
            IN  /\ v # NoMoney /\ c = Deposit => v = <<PerTick(Specified(n)), 1>>
                /\ v # NoMoney /\ c # Deposit => \E m \in quoted : Covered(n, v, m)
                /\ n \in complete /\ (c = Deposit \/ PairQuoted(chosen[c]))
                   => v # NoMoney \/ PerTick(Specified(n)) = 0

=============================================================================
