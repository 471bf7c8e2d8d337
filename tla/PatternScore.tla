---------------------------- MODULE PatternScore ----------------------------
(***************************************************************************)
(* The pure functions of the stock analysis memory (analysis_memory.py):   *)
(* how alike two indicator snapshots are, which remembered ones come       *)
(* first, whether a forecast was right.  Scores are in thousandths and     *)
(* returns in percent, so that every number is an integer: the weights     *)
(* .3, .3, .25 and .15 of the code are 300, 300, 250 and 150.              *)
(***************************************************************************)
EXTENDS Integers, FiniteSets, Sequences, FiniteSetsExt

Bands == {"high", "medium", "normal", "low"}
Signs == {"bullish", "neutral", "bearish"}
Snapshots == [rsi : 0..100, macd : Signs, ma : Signs \cup {"mixed"}, vol : Bands]
Forecasts == {"BUY", "SELL", "HOLD"}

SimThreshold == 250
DedupThreshold == 970
CorrectBonus == 100
SameTickerBonus == 50
MoveBand == 2
HoldBand == 5

Abs(x) == IF x < 0 THEN -x ELSE x

\* Two bands of volatility are near when they are equal or one is the middle.
VolSimilar(a, b) == a = b \/ {a, b} \cap {"medium", "normal"} # {}

\* The weighted likeness of two snapshots: 300 * (1 - |difference of RSI| / 30)
\* is 10 * (30 - |difference|), and a near band earns half of its weight.
Similarity(x, y) ==
    LET rsi == 10 * Max({0, 30 - Abs(x.rsi - y.rsi)})
        macd == IF x.macd = y.macd THEN 300 ELSE 0
        ma == IF x.ma = y.ma THEN 250 ELSE 0
        vol == IF x.vol = y.vol THEN 150 ELSE IF VolSimilar(x.vol, y.vol) THEN 75 ELSE 0
    IN  rsi + macd + ma + vol

\* The score under which a remembered analysis is ranked: a known success and
\* the same stock count for it.
Rank(likeness, knownRight, sameTicker) ==
    likeness + (IF knownRight THEN CorrectBonus ELSE 0)
             + (IF sameTicker THEN SameTickerBonus ELSE 0)

\* The n best of the set S under score, the earlier one first among equals.
Best(S, score, n) ==
    {i \in S : Cardinality({j \in S : \/ score[j] > score[i]
                                      \/ score[j] = score[i] /\ j < i}) < n}

\* Was the forecast right, when the price went from entry to exit?
Judge(forecast, entry, exit) ==
    LET move == (exit - entry) * 100
    IN  CASE forecast = "BUY" -> move > MoveBand * entry
          [] forecast = "SELL" -> move < -MoveBand * entry
          [] forecast = "HOLD" -> Abs(move) <= HoldBand * entry
          [] OTHER -> FALSE

\* The first bar of the dates on or after target, or none yet.
\* Mutated: the first bar after the target.
OnOrAfterStrict(dates, target) == {d \in dates : d > target /\ \A e \in dates : e > target => d <= e}
OnOrAfter(dates, target) == {d \in dates : d >= target /\ \A e \in dates : e >= target => d <= e}
=============================================================================
