------------------------------ MODULE Backtest ------------------------------
(***************************************************************************)
(* A backtest of StockAnalyzer: backend/app/services/trading/              *)
(* stock_analyzer.py.  Bar by bar, an indicator is on either side of its   *)
(* lines; a crossing turns the strategy's stance; the simulation buys and  *)
(* sells at the bar's close, risk exits first.                             *)
(*                                                                         *)
(* How an indicator's value follows from the prices is not modelled: where *)
(* it lies is chosen for each bar from Placings.  Money is counted in      *)
(* ten-thousandths, in which a fee of one basis point is exact; the        *)
(* roundings are those the code asks for, not those of its floats.         *)
(***************************************************************************)
EXTENDS Integers, Sequences

CONSTANTS Prices,    \* the closes
          Capital,   \* initial_capital, in the unit of Prices
          Cent,      \* what a trade's pnl_amount is rounded to, in ten-thousandths
          Risks,     \* the risk settings: percentages or Off, and fee_bps
          Placings, \* where the indicators may lie at a bar
          Bars       \* the length of the window

ASSUME PricesAssumption == Prices \subseteq Nat \ {0}
ASSUME CapitalAssumption == Capital \in Nat \ {0}
ASSUME BarsAssumption == Bars \in Nat
ASSUME CentAssumption == Cent \in Nat \ {0}

Off == -1
ASSUME FeesAssumption == \A r \in Risks : r.fee \in Nat /\ r.fee <= 10000

VARIABLES strategy,   \* the strategy asked for
          risk,       \* its risk settings
          lies,       \* where each indicator lies at the last bar
          stances,    \* each indicator's Position at the last bar
          positions,  \* the strategy's Position, bar by bar
          cash, shares,
          entry, peak, entered, \* of the position held: its price, its highest close, its bar
          trades,     \* the round trips: the bars of entry and exit, and why it was left
          won, lost   \* the sum of the winning trades' pnl_amount, and of the others' what is missing

marketVars == <<lies, stances, positions>>
holdingVars == <<shares, entry, peak, entered>>
backtestVars == <<strategy, risk, marketVars, cash, holdingVars, trades, won, lost>>

---------------------------------------------------------------------------
\* Indicators and strategies

Indicators == {"sma", "macd", "rsi", "bollinger", "obv"}
Strategies == Indicators \cup {"combined"}

(* Where an indicator lies: below its lower line, on it, between the lines,
   on its upper line or above; or its window is not full yet.  An average
   has one line, another average, and lies on 0, 2 or 4.                    *)
Unread == -1
BuyLine(i) == IF i \in {"rsi", "bollinger"} THEN 1 ELSE 2
SellLine(i) == IF i \in {"rsi", "bollinger"} THEN 3 ELSE 2

\* Only the bands must have been left for good: from a band's line itself no signal comes.
Touching(i) == i # "bollinger"

CrossesUp(i, was, now) ==
    /\ was # Unread /\ now > BuyLine(i)
    /\ was < BuyLine(i) \/ (was = BuyLine(i) /\ Touching(i))

CrossesDown(i, was, now) ==
    /\ now # Unread /\ now < SellLine(i)
    /\ was > SellLine(i) \/ (was = SellLine(i) /\ Touching(i))

\* A stance lasts until the other signal.
Stance(i, was, now, before) ==
    CASE CrossesDown(i, was, now) -> -1
      [] CrossesUp(i, was, now) -> 1
      [] OTHER -> before

COMBINED_THRESHOLD == 3
Net(st) == st["sma"] + st["macd"] + st["rsi"] + st["bollinger"] + st["obv"]

Voted(st, before) ==
    CASE Net(st) <= -COMBINED_THRESHOLD -> -1
      [] Net(st) >= COMBINED_THRESHOLD -> 1
      [] OTHER -> before

---------------------------------------------------------------------------
\* Fills

Unit == 10000
Held == shares > 0
Now == Len(positions)                      \* the last bar simulated
Cost(px) == px * (Unit + risk.fee)         \* of buying one share
Proceeds(px) == px * (Unit - risk.fee)     \* of selling one
Affordable(px) == cash \div Cost(px)

Fallen(from, px, percent) == percent # Off /\ (px - from) * 100 <= -percent * from
Risen(from, px, percent) == percent # Off /\ (px - from) * 100 >= percent * from

Higher(a, b) == IF a > b THEN a ELSE b

Turned(before, after, to) == after = to /\ before # to

ExitReason(px, before, after) ==
    CASE Fallen(entry, px, risk.stop) -> "stop_loss"
      [] Risen(entry, px, risk.profit) -> "take_profit"
      [] Fallen(Higher(peak, px), px, risk.trail) -> "trailing_stop"
      [] Turned(before, after, -1) -> "signal"
      [] OTHER -> "none"

BacktestInit ==
    /\ strategy \in Strategies /\ risk \in Risks
    /\ lies = [i \in Indicators |-> IF i = "macd" THEN 2 ELSE Unread] \* its averages start equal
    /\ stances = [i \in Indicators |-> 0]
    /\ positions = <<0>>
    /\ cash = Capital * Unit /\ shares = 0
    /\ entry = 0 /\ peak = 0 /\ entered = 0
    /\ trades = <<>> /\ won = 0 /\ lost = 0

\* Mutated: the gain of a trade is counted without the fee of selling.
GainBeforeFee(px) == shares * (px * Unit - Cost(entry))
Gain(px) == shares * (Proceeds(px) - Cost(entry))

\* A half is rounded as its float falls.
Rounded(x) == {y \in {Cent * (x \div Cent), Cent * (x \div Cent + 1)} :
                 2 * (y - x) <= Cent /\ 2 * (x - y) <= Cent}

\* The trade's pnl_pct is above zero when rounded to millionths.
Winning(px) == Proceeds(px) - Cost(entry) > Cost(entry) \div 2000000

\* The position is left, for a risk or on the signal.
Leave(px, reason) ==
    /\ Held /\ reason # "none"
    /\ cash' = cash + shares * Proceeds(px)
    /\ shares' = 0 /\ peak' = Higher(peak, px)
    /\ \E pnl_amount \in Rounded(Gain(px)) :
          /\ won' = IF Winning(px) THEN won + pnl_amount ELSE won
          /\ lost' = IF Winning(px) THEN lost ELSE lost - pnl_amount
    /\ trades' = Append(trades, [in |-> entered, out |-> Now + 1, reason |-> reason])
    /\ UNCHANGED <<entry, entered>>

\* It is kept, and its highest close with it.
Keep(px, reason) ==
    /\ Held /\ reason = "none"
    /\ peak' = Higher(peak, px)
    /\ UNCHANGED <<cash, shares, entry, entered, trades, won, lost>>

\* Mutated: the stance, not the crossing, is what is bought on.
EntersOnStance(before, after) == after = 1
Enters(before, after) == Turned(before, after, 1)

\* As many shares as the cash buys, on a new crossing.
Enter(px, before, after) ==
    /\ ~Held /\ Enters(before, after) /\ Affordable(px) > 0
    /\ shares' = Affordable(px)
    /\ cash' = cash - Affordable(px) * Cost(px)
    /\ entry' = px /\ peak' = px /\ entered' = Now + 1
    /\ UNCHANGED <<trades, won, lost>>

StayOut(px, before, after) ==
    /\ ~Held /\ ~(Enters(before, after) /\ Affordable(px) > 0)
    /\ UNCHANGED <<cash, holdingVars, trades, won, lost>>

\* One bar: the indicators, the strategy's Position, and the fill at its close.
Bar(px, now) ==
    /\ Now < Bars
    /\ lies' = now
    /\ stances' = [i \in Indicators |-> Stance(i, lies[i], now[i], stances[i])]
    /\ positions' = Append(positions, IF strategy = "combined" THEN Voted(stances', positions[Now])
                                                               ELSE stances'[strategy])
    /\ LET before == positions[Now]
           after == positions'[Now + 1]
           reason == ExitReason(px, before, after)
       IN  \/ Leave(px, reason) \/ Keep(px, reason)
           \/ Enter(px, before, after) \/ StayOut(px, before, after)
    /\ UNCHANGED <<strategy, risk>>

BacktestNext == \E px \in Prices, now \in Placings : Bar(px, now)
BacktestSpec == BacktestInit /\ [][BacktestNext]_backtestVars

---------------------------------------------------------------------------
(* The metrics and the list of trades tell the same story as the cash: at
   every bar what there is, the position taken at what it cost, is the capital
   with the trades' gains and losses, fees included on both sides, and what
   rounding each trade's pnl_amount (stock_analyzer.py:459) takes or adds comes
   to half a cent a trade at most, also where a gain too small to be a win is
   counted among the losses; and no share was bought on credit.             *)
MoneyAddsUpToRounding ==
    LET there == cash + shares * Cost(entry)
        told  == Capital * Unit + won - lost
    IN  /\ cash >= 0 /\ shares >= 0
        /\ 2 * (there - told) <= Cent * Len(trades)
        /\ 2 * (told - there) <= Cent * Len(trades)

(* "No re-entry after a risk exit until a new crossing" (_simulate()'s
   docstring), whichever exit it was: between leaving a position and the
   entry into the next the stance turned to buying once more.               *)
TurnsIn(from, to) == \E b \in from .. to : positions[b] = 1 /\ positions[b - 1] # 1
NoReentryWithoutCrossing ==
    /\ \A k \in 2 .. Len(trades) : TurnsIn(trades[k - 1].out + 1, trades[k].in)
    /\ Held /\ trades # <<>> => TurnsIn(trades[Len(trades)].out + 1, entered)
=============================================================================
