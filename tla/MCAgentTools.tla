----------------------------- MODULE MCAgentTools -----------------------------
(***************************************************************************)
(* The chat, the agent and its tools on small instances: three turns of a  *)
(* session and its deletion; a conversation of two turns; two sentences    *)
(* about taxes; a pasted message; the pages of a search; five bars of a    *)
(* backtest.  They do not share state: each behaviour is of one of them.   *)
(***************************************************************************)
EXTENDS AgentTurn, TaxCalculation, FraudCheck, WebResearch, Backtest

CONSTANTS NumTurns, MaxDeletes, MaxBreaks, InFlight

VARIABLES scene, \* which of them
          stored, row, pc, run, gone, first, count, sent, deleter, deletes, kept, wiped, crossed

Session == INSTANCE ChatSession WITH lost <- gone, shown <- sent

ASSUME SessionAssumption == Session!ChatAssumption

sessionVars ==
    <<stored, row, pc, run, gone, first, count, sent, deleter, deletes, kept, wiped, crossed>>

MCTools == {"persona_rag", "graph_rag", "doc_rag", "tax_and_market_lookup", "tax_calculator",
            "fraud_check", "product_research", "cheongyak_lookup", "news_research",
            "nts_law_research", "stock_backtest", "stock_quick"}

\* The model chooses none, one or two.
MCRoutes == {{}} \cup {{a, b} : a, b \in MCTools}

Plain == [words |-> {}, greets |-> FALSE, short |-> FALSE, asks |-> FALSE, data |-> FALSE, stock |-> FALSE]
Saying(words) == [Plain EXCEPT !.words = words]

\* Every word by itself would do for _keyword_route(); these pair them, and greet.
MCMessages ==
    {Plain,
     [Plain EXCEPT !.greets = TRUE, !.short = TRUE],
     [Plain EXCEPT !.greets = TRUE, !.short = TRUE, !.asks = TRUE],
     [Saying({"backtest", "RSI"}) EXCEPT !.stock = TRUE, !.data = TRUE],
     Saying({"gift", "peers"}), Saying({"tax rate", "deposit"}),
     Saying({"base rate", "ruling"}), Saying({"subscription", "scam"})}


\* Sentences about a sale for a price at which the exemption, the rates or the
\* deductions change, in either order, with and without their verbs and the rest.
Amt(role, value, verb, near, split) ==
    [role |-> role, value |-> value, verb |-> verb, near |-> near, split |-> split]
Sentence(type, amounts, months, sole, adjusted, earned) ==
    [type |-> type, amounts |-> amounts, months |-> months, sole |-> sole,
     adjusted |-> adjusted, earned |-> earned]

Sold(near) == {Amt("sale", v, TRUE, near, FALSE) : v \in {70300, 119950}}
Bought(near) == {Amt("cost", v, TRUE, near, FALSE) : v \in {60000, 100000}}
SoldAndBought(near) == {<<s, c>> : s \in Sold(near), c \in Bought(FALSE)}
BoughtAndSold(near) == {<<c, s>> : s \in Sold(FALSE), c \in Bought(near)}
Unclear == { << Amt("sale", 91000, FALSE, FALSE, FALSE), Amt("cost", 60000, FALSE, FALSE, FALSE) >>,
             << Amt("cost", 60000, TRUE, FALSE, TRUE), Amt("sale", 91000, TRUE, FALSE, FALSE) >>,
             << Amt("sale", 121000, TRUE, FALSE, TRUE) >>, <<>> }

MCSentences ==
    {Sentence("housing_sale", a, m, "yes", FALSE, FALSE) : a \in SoldAndBought(TRUE), m \in {18, 66}}
    \cup {Sentence("housing_sale", a, m, "yes", FALSE, FALSE) : a \in BoughtAndSold(TRUE), m \in {Unknown, 66}}
    \cup {Sentence("housing_sale", a, 36, "no", TRUE, FALSE) : a \in SoldAndBought(FALSE)}
    \cup {Sentence("housing_sale", a, 36, "unknown", TRUE, FALSE) : a \in BoughtAndSold(FALSE)}
    \cup {Sentence("housing_sale", a, m, "unknown", FALSE, FALSE) :
        a \in Unclear \cup {<<c>> : c \in Bought(TRUE)}, m \in {Unknown, 66}}
    \cup {Sentence("none", a, 66, "unknown", FALSE, FALSE) : a \in Unclear}
    \cup {Sentence("foreign_stock_sale", a, Unknown, "unknown", FALSE, FALSE) :
        a \in {p \in SoldAndBought(TRUE) \cup BoughtAndSold(TRUE) : \E i \in {1, 2} : p[i].value = 70300}
              \cup {<<s>> : s \in Sold(FALSE)}}
    \cup {Sentence("foreign_stock_sale", << Amt("profit", 60000, FALSE, FALSE, FALSE) >>,
                   Unknown, "unknown", FALSE, TRUE),
          Sentence("interest_dividend", << Amt("income", 2500, FALSE, FALSE, FALSE) >>,
                   Unknown, "unknown", FALSE, FALSE)}

\* Up to three phrases, or one and up to three hosts.
UpToThree(S) == {{}} \cup {{a, b, c} : a, b, c \in S}
MCPasted ==
    {[phrases |-> p, hosts |-> {}] : p \in UpToThree(Phrases)}
    \cup {[phrases |-> p, hosts |-> h] : p \in {{a} : a \in Phrases}, h \in UpToThree(Hosts)}

\* Up to three records, of which the first two are opened.
Links == {"taxlaw", "law", "other", "none"}
MCLists == {<<>>} \cup {<<a>> : a \in Links} \cup {<<a, b, "law">> : a, b \in Links}

\* All indicators up or down, some of them, one on its line, one not read yet.
Up(S) == [i \in Indicators |-> IF i \in S THEN 4 ELSE 0]
MCPlacings == {Up({}), Up(Indicators), Up({"sma", "macd", "rsi"}),
               [Up({"bollinger"}) EXCEPT !["sma"] = 2], [Up({"obv"}) EXCEPT !["bollinger"] = 1, !["sma"] = Unread]}
MCRisks == {[stop |-> 8, profit |-> Off, trail |-> 12, fee |-> 5],
            [stop |-> Off, profit |-> 20, trail |-> Off, fee |-> 100]}

toolVars == <<taxVars, fraudVars, researchVars>>

MCInit ==
    /\ scene \in {"session", "turn", "tax", "fraud", "research", "backtest"}
    /\ Session!Init
    /\ AgentInit /\ (scene # "turn" => message = Plain)
    /\ TaxInit
    /\ FraudInit
    /\ ResearchInit /\ (scene # "research" => research = "news")
    /\ BacktestInit
    /\ strategy \in (IF scene = "backtest" THEN {"sma", "bollinger", "combined"} ELSE {"sma"})
    /\ scene # "backtest" => risk = [stop |-> 8, profit |-> Off, trail |-> 12, fee |-> 5]

MCNext ==
    /\ UNCHANGED scene
    /\ \/ scene = "session" /\ Session!Next /\ UNCHANGED <<turnVars, toolVars, backtestVars>>
       \/ /\ UNCHANGED sessionVars
          /\ \/ scene = "turn" /\ AgentNext /\ UNCHANGED <<toolVars, backtestVars>>
             \/ scene = "tax" /\ TaxNext /\ UNCHANGED <<turnVars, fraudVars, researchVars, backtestVars>>
             \/ scene = "fraud" /\ FraudNext /\ UNCHANGED <<turnVars, taxVars, researchVars, backtestVars>>
             \/ scene = "research" /\ ResearchNext /\ UNCHANGED <<turnVars, taxVars, fraudVars, backtestVars>>
             \/ scene = "backtest" /\ BacktestNext /\ UNCHANGED <<turnVars, toolVars>>

MCSpec == MCInit /\ [][MCNext]_<<scene, sessionVars, turnVars, toolVars, backtestVars>>

-----------------------------------------------------------------------------
\* ChatSession's properties: what a reply is written from, what is shown and stored, and
\* what becomes of it.
WrittenFromTheRightInputs == Session!WrittenFromTheRightInputs
ShownAndStoredAlike == Session!ShownAndStoredAlike
NoTurnLostUnlessCrossed == Session!NoTurnLostUnlessCrossed
DeletedStaysDeletedUnlessCrossed == Session!DeletedStaysDeletedUnlessCrossed
=============================================================================
