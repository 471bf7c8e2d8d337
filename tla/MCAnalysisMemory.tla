--------------------------- MODULE MCAnalysisMemory ---------------------------
EXTENDS AnalysisMemory
CONSTANTS A, B
\* Four days.  The market of A is closed on the third, the one of B on the
\* second too; the closing price of A's last day differs from the price before.
MCTrading == (A :> {0, 1, 3}) @@ (B :> {0, 3})
Prices(a, b) == [s \in {A, B} |-> [d \in 0..3 |-> (IF s = A THEN a ELSE b)[d + 1]]]
MCClose == Prices(<<100, 103, 103, 100>>, <<100, 100, 100, 104>>)
MCPartial == Prices(<<100, 103, 103, 104>>, <<100, 100, 100, 104>>)
MCSnap == [s \in {A, B} |-> [d \in 0..3 |->
             [rsi |-> 40 + 5 * d, macd |-> "bullish", ma |-> "bullish", vol |-> "low"]]]
MCHorizons == ("24h" :> 1) @@ ("3d" :> 2)
MCOutlooks == {{"24h", "3d"}}
=============================================================================
