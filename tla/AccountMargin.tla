---------------------------- MODULE AccountMargin ----------------------------
(***************************************************************************)
(* The margin an account needs: mt5-native/src/margin.rs under             *)
(* mt5-session/src/client/margin.rs, over an account that opens positions  *)
(* and places orders.                                                      *)
(*                                                                         *)
(* Money is counted in parts, 1 / Parts of a unit of the currency: within  *)
(* the bounds every amount is a whole number of them.  Not finite numbers, *)
(* and the rounding of the total, are left out.                            *)
(***************************************************************************)
EXTENDS Integers, Sequences

LOCAL INSTANCE SequencesExt
LOCAL INSTANCE Functions

CONSTANTS Terms,            \* symbols of different terms, by name
          Leverage,
          AccountGroups,           \* what the account's group may say, and the symbols it trades
          PendingRates,     \* conversion rates of pending orders, by symbol; 0 if none
          Volumes,
          Fills,            \* prices and conversion rates of positions, by symbol
          MaxUnits,         \* bound: volume of the positions, and of the orders, of a symbol
          MaxExposures      \* bound: positions and orders

VARIABLE portfolio          \* group, positions and orders, as the client has them

Parts == 576                \* a multiple of twice the leverage and of the squares of the volumes
None == -1                  \* no formula, or an error

Exposure(symbol, side, volume, price, rate) ==
    [symbol |-> symbol, side |-> side, volume |-> volume, price |-> price, rate |-> rate]

PortfolioInit ==
    \E group \in AccountGroups : portfolio = [group |-> group, positions |-> <<>>, orders |-> <<>>]

Total(exposures, symbol) ==
    FoldLeft(LAMBDA sum, e : IF e.symbol = symbol THEN sum + e.volume ELSE sum, 0, exposures)

May(exposures, symbol, volume) ==
    /\ Total(exposures, symbol) + volume <= MaxUnits
    /\ Len(portfolio.positions) + Len(portfolio.orders) < MaxExposures

\* On a netting account there is one position of a symbol.
Opens(symbol, side, volume, fill) ==
    /\ May(portfolio.positions, symbol, volume)
    /\ portfolio.group.accounting # 2 => \A i \in DOMAIN portfolio.positions :
                                           portfolio.positions[i].symbol # symbol
    /\ portfolio' = [portfolio EXCEPT !.positions =
                        Append(@, Exposure(symbol, side, volume, fill[1], fill[2]))]

Places(symbol, side, volume, price) ==
    /\ May(portfolio.orders, symbol, volume)
    /\ portfolio' = [portfolio EXCEPT !.orders =
                        Append(@, Exposure(symbol, side, volume, price, PendingRates[symbol]))]

PortfolioNext ==
    \E symbol \in portfolio.group.symbols, volume \in Volumes :
        \E fill \in Fills[symbol] :
            \/ \E side \in {0, 1} : Opens(symbol, side, volume, fill)
            \/ \E side \in {1, 2, 3} : Places(symbol, side, volume, fill[1])

PortfolioSpec == PortfolioInit /\ [][PortfolioNext]_portfolio

------------------------------------------------------------------------------
(* margin.rs *)

\* Several exposures: their volume, and their prices and rates times the volume of each.
NoLeg == [units |-> 0, prices |-> 0, rates |-> 0]

\* Fault: every exposure counts as much, whatever its volume.
AddedOnce(leg, e) ==
    [units |-> leg.units + e.volume, prices |-> leg.prices + e.price, rates |-> leg.rates + e.rate]
Added(leg, e) ==
    [units |-> leg.units + e.volume, prices |-> leg.prices + e.price * e.volume,
     rates |-> leg.rates + e.rate * e.volume]

Leg(exposures, side) ==
    FoldLeft(LAMBDA leg, e : IF e.side = side THEN Added(leg, e) ELSE leg, NoLeg, exposures)

Both(a, b) ==
    [units |-> a.units + b.units, prices |-> a.prices + b.prices, rates |-> a.rates + b.rates]

Usable(e) == e.price > 0 /\ e.rate > 0

\* The amount for so many lots at the leg's mean price and rate, times half of doubled.
Amount(t, lots, leg, doubled, fixed, contract) ==
    LET leveraged == t.mode \in {"forex", "cfd leverage"}
        priced == t.mode \in {"cfd", "cfd leverage", "index"}
        divisor == 2 * leg.units * (IF leveraged THEN Leverage ELSE 1)
        each == CASE fixed > 0 -> fixed
                  [] fixed = 0 /\ t.mode = "futures" -> 0
                  [] fixed = 0 /\ t.mode = "index" -> (contract * t.tickValue) \div t.tickSize
                  [] fixed = 0 /\ t.mode \notin {"futures", "index"} -> contract
    IN  CASE \/ t.mode = "other" \/ (leveraged /\ Leverage <= 0)
             \/ t.mode = "index" /\ t.tickSize <= 0 -> None
          [] fixed = 0 /\ priced ->
               (Parts * lots * each * leg.prices * leg.rates * doubled) \div (divisor * leg.units)
          [] OTHER -> (Parts * lots * each * leg.rates * doubled) \div divisor

\* order_margin: opening and maintenance each have rates and a fixed amount of their own,
\* maintenance that of opening where it has none.
LegMargin(t, lots, leg, side, maintenance) ==
    IF lots = 0 THEN 0
    ELSE IF ~t.valid THEN None
    ELSE Amount(t, lots, leg, 2 * (IF maintenance THEN t.maintenanceRates ELSE t.rates)[side + 1],
                IF maintenance /\ t.maintenance > 0 THEN t.maintenance ELSE t.initial, t.contract)

\* A sum is there if all its amounts are.
Sum(amounts) ==
    IF \E i \in DOMAIN amounts : amounts[i] = None THEN None
    ELSE FoldFunction(LAMBDA a, b : a + b, 0, amounts)

Greater(x, y) == IF x > y THEN x ELSE y

PendingMargin(t, orders, sides) ==
    Sum([i \in DOMAIN sides |->
            IF t.rates[sides[i] + 1] = 0 THEN 0
            ELSE LET leg == Leg(orders, sides[i])
                 IN  LegMargin(t, leg.units, leg, sides[i], FALSE)])

LargerLeg(t, buys, sells, orders) ==
    LET bought == Sum(<<LegMargin(t, buys.units, buys, 0, TRUE),
                        PendingMargin(t, orders, <<2, 4, 6>>)>>)
        sold == Sum(<<LegMargin(t, sells.units, sells, 1, TRUE),
                      PendingMargin(t, orders, <<3, 5, 7>>)>>)
    IN  IF None \in {bought, sold} THEN None ELSE Greater(bought, sold)

CoveredMargin(t, covered, all) ==
    IF covered = 0 \/ t.hedged = 0 THEN 0
    ELSE Amount(t, covered, all, t.maintenanceRates[1] + t.maintenanceRates[2],
                IF t.initial > 0 THEN t.hedged ELSE 0, t.hedged)

CoveredAndNot(t, buys, sells, orders) ==
    LET side == IF sells.units > buys.units THEN 1 ELSE 0
        larger == IF side = 1 THEN sells ELSE buys
        covered == buys.units + sells.units - larger.units
    IN  Sum(<<PendingMargin(t, orders, <<2, 3, 4, 5, 6, 7>>),
              LegMargin(t, larger.units - covered, larger, side, TRUE),
              CoveredMargin(t, covered, Both(buys, sells))>>)

hedging_margin(t, positions, orders) ==
    LET buys == Leg(positions, 0)
        sells == Leg(positions, 1)
    IN  CASE \/ ~t.valid
             \/ \E i \in DOMAIN positions : ~Usable(positions[i])
             \/ \E i \in DOMAIN orders : ~Usable(orders[i]) -> None
          [] OTHER -> IF t.largerLeg THEN LargerLeg(t, buys, sells, orders)
                      ELSE CoveredAndNot(t, buys, sells, orders)

------------------------------------------------------------------------------
(* client/margin.rs *)

HeldIn(exposures, symbol) == SelectSeq(exposures, LAMBDA e : e.symbol = symbol /\ e.volume > 0)

Netted(t, positions) ==
    IF positions = <<>> THEN 0
    ELSE LET p == positions[1]
         IN  IF ~Usable(p) THEN None ELSE LegMargin(t, p.volume, Added(NoLeg, p), p.side, TRUE)

SymbolMargin(account, symbol) ==
    LET t == Terms[symbol]
        positions == HeldIn(account.positions, symbol)
        pending == HeldIn(account.orders, symbol)
        orders == SelectSeq(pending, LAMBDA o : t.rates[o.side + 1] # 0)
    IN  CASE \E i \in DOMAIN pending : pending[i].side \notin 2 .. 7 -> None
          [] \E i \in DOMAIN orders : orders[i].rate = 0 -> None
          [] positions = <<>> /\ orders = <<>> -> 0
          [] account.group.model # 1 -> None
          [] account.group.accounting = 2 -> hedging_margin(t, positions, orders)
          [] OTHER -> IF Len(positions) <= 1 /\ orders = <<>> THEN Netted(t, positions) ELSE None

margin(account) ==
    IF account.group.digits \notin 0 .. 8 THEN None
    ELSE Sum([symbol \in DOMAIN Terms |-> SymbolMargin(account, symbol)])

------------------------------------------------------------------------------
(* Properties *)

\* Two exposures of a side at one price and rate make the same margin as one.
Splits(account) ==
    LET last == account.positions[Len(account.positions)]
        part == [last EXCEPT !.volume = 1]
        rest == [last EXCEPT !.volume = @ - 1]
    IN  Len(account.positions) > 0 /\ last.volume > 1 =>
            margin([account EXCEPT !.positions = Front(@) \o <<part, rest>>])
                \in {margin(account)} \union (IF account.group.accounting = 2 THEN {} ELSE {None})

\* Nor does it matter which came first.
Ordered(account) ==
    margin([account EXCEPT !.positions = Reverse(@), !.orders = Reverse(@)]) = margin(account)

\* A hedge takes no more than its positions would each, where the broker's rate is one
\* and a covered lot is not dearer than an uncovered one.
HedgesAtMost(account) ==
    LET alone(i) == margin([account EXCEPT !.positions = <<@[i]>>, !.orders = <<>>])
        t(i) == Terms[account.positions[i].symbol]
        fair == \A i \in DOMAIN account.positions :
                    /\ account.positions[i].rate = account.positions[1].rate
                    /\ t(i).hedged <= (IF t(i).initial > 0 THEN t(i).initial ELSE t(i).contract)
                    /\ t(i).maintenance \in {0, t(i).initial}
                    /\ t(i).maintenanceRates[1] = t(i).maintenanceRates[2]
    IN  account.orders = <<>> /\ fair /\ margin(account) # None =>
            margin(account) <= Sum([i \in DOMAIN account.positions |-> alone(i)])

\* Where something is open that is not wholly covered, and its terms take margin, the
\* answer is neither nothing nor what other symbols need.
NeverNothing(account) ==
    \A symbol \in DOMAIN Terms :
        LET t == Terms[symbol]
            positions == HeldIn(account.positions, symbol)
            bare == Leg(positions, 0).units # Leg(positions, 1).units
            free == t.valid /\ (0 \in {t.maintenanceRates[1], t.maintenanceRates[2]}
                                \/ (t.mode = "futures" /\ t.initial = 0 /\ t.maintenance = 0)
                                \/ t.contract = 0)
            without == [account EXCEPT
                           !.positions = SelectSeq(@, LAMBDA p : p.symbol # symbol),
                           !.orders = SelectSeq(@, LAMBDA o : o.symbol # symbol)]
        IN  bare /\ ~free /\ margin(account) # None =>
                /\ t.mode # "other" /\ t.valid /\ (t.mode = "index" => t.tickSize > 0)
                /\ margin(account) > margin(without)

\* The margin is that of the account, however its positions came about; a hedge is no
\* burden; and what cannot be computed is an error, never a zero estimate.
MarginIsTrue ==
    /\ Splits(portfolio) /\ Ordered(portfolio)
    /\ HedgesAtMost(portfolio) /\ NeverNothing(portfolio)

=============================================================================
