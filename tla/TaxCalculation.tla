---------------------------- MODULE TaxCalculation ----------------------------
(***************************************************************************)
(* The tax calculator of the agent: what the user said becomes the         *)
(* arguments of a calculation (agent/nodes/tax_calculator.py), which code  *)
(* carries out with the rates of a registry (services/tax).                *)
(*                                                                         *)
(*   latest_user_text           Mention   a sentence, after others         *)
(*   _llm_slots                 ReadByModel   any of the figures, or none  *)
(*   _kwargs_from_slots         FromSlots                                  *)
(*   _regex_kwargs              FromText   when the slots are not enough   *)
(*   tax_calculator             Tax                                        *)
(*                                                                         *)
(* The model is given the last messages too, the agent's own replies among *)
(* them, and may take any figure from them; the patterns look there for    *)
(* the kind of tax, the holding time and the area.                         *)
(* Amounts are in units of 10,000 won; a fraction of a unit is cut off.    *)
(***************************************************************************)
EXTENDS Integers, FiniteSetsExt, SequencesExt

CONSTANTS Sentences,    \* what users say
          MaxSentences  \* bound: sentences

ASSUME SentencesAssumption == MaxSentences \in Nat

Unknown == -1

\* What is calculated.  A year the registry lacks gets the default year's rates, and
\* there is one year.
Housing(sale, cost, months, sole, adjusted) ==
    [type |-> "housing_sale", sale |-> sale, cost |-> cost, months |-> months,
     sole |-> sole, adjusted |-> adjusted]
Foreign(sale, cost) == [type |-> "foreign_stock_sale", sale |-> sale, cost |-> cost]
Interest(income) == [type |-> "interest_dividend", income |-> income]
AskBack == [type |-> "ask back"]

VARIABLES
    said,       \* the sentence: its tax and what it says, figure by figure
    heard,      \* what the three messages before it say
    sentences,  \* how many there were
    slots,      \* what the model read
    asked,      \* the arguments, or AskBack
    taxStep     \* "said", "read", "asked"

taxVars == <<said, heard, sentences, slots, asked, taxStep>>

(* ------------------------------ services/tax ------------------------------ *)

\* _RATES_2025: upper end, rate in percent, credit (누진공제).
Unlimited == 1000000
Brackets == << [upper |-> 1200,  rate |-> 6,  credit |-> 0],
               [upper |-> 4600,  rate |-> 15, credit |-> 108],
               [upper |-> 8800,  rate |-> 24, credit |-> 522],
               [upper |-> 15000, rate |-> 35, credit |-> 1340],
               [upper |-> 30000, rate |-> 38, credit |-> 1790],
               [upper |-> 50000, rate |-> 40, credit |-> 2390],
               [upper |-> Unlimited, rate |-> 45, credit |-> 4890] >>
MinHold == 2
AdjustedLimit == 90000
GeneralLimit == 120000
LbtsYearly == 8
LbtsSoleMax == 80
LbtsGeneralMax == 40
LbtsMinHold == 3
DeductionPerYear == 250
EducationRate == 10
ForeignRate == 20
LocalRatio == 10
ForeignDeduction == 250
WithholdingTenths == 154

\* (a * b) \div c, without the large product.
MulDiv(a, b, c) == 1000 * (((a \div 1000) * b) \div c)
                   + (1000 * (((a \div 1000) * b) % c) + (a % 1000) * b) \div c

Percent(amount, rate) == (amount * rate) \div 100

BracketOf(base) == Brackets[Min({i \in DOMAIN Brackets : base <= Brackets[i].upper})]

ProgressiveTax(base) ==
    Max({Percent(base, BracketOf(base).rate) - BracketOf(base).credit, 0})

\* Mutated: a home above the limit is taxed on the whole gain.
TaxableGainWhole(k) == k.sale - k.cost

\* The limit of the exemption of an only home.
LimitFor(k) == IF k.adjusted THEN AdjustedLimit ELSE GeneralLimit

Exemptible(k) == k.sole /\ k.months >= 12 * MinHold

\* int(holding_years)
YearsHeld(k) == k.months \div 12

\* Of an only home held long enough, the part of the gain above the limit.
TaxableGain(k) ==
    IF Exemptible(k) THEN MulDiv(k.sale - k.cost, k.sale - LimitFor(k), k.sale)
    ELSE k.sale - k.cost

LbtsRate(k) ==
    IF k.months < 12 * LbtsMinHold THEN 0
    ELSE Min({(YearsHeld(k) - 2) * LbtsYearly, IF k.sole THEN LbtsSoleMax ELSE LbtsGeneralMax})

\* The base: the gain less the deduction for long holding and that for each year.
HousingBase(k) ==
    Max({TaxableGain(k) - Percent(TaxableGain(k), LbtsRate(k)) - YearsHeld(k) * DeductionPerYear, 0})

WithSurtax(national, rate) == national + Percent(national, rate)

HousingTax(k) ==
    IF k.sale <= k.cost \/ (Exemptible(k) /\ k.sale <= LimitFor(k)) THEN 0
    ELSE WithSurtax(ProgressiveTax(HousingBase(k)), EducationRate)

ForeignTax(k) ==
    WithSurtax(Percent(Max({k.sale - k.cost - ForeignDeduction, 0}), ForeignRate), LocalRatio)

Tax(k) == CASE k.type = "housing_sale"       -> HousingTax(k)
            [] k.type = "foreign_stock_sale" -> ForeignTax(k)
            [] k.type = "interest_dividend"  -> (k.income * WithholdingTenths) \div 1000

(* ---------------------------- the node: reading ---------------------------- *)

\* A sentence names up to two amounts in an order.  Each is the price of the sale, what
\* the thing cost, a profit or an income; it may be followed by its verb (팔, 샀), and the
\* verb of the next, or of a sale without a price, may be within _HINT_WINDOW_CHARS of
\* it.  split: "2억 5000만", two amounts to _AMOUNT_RE.
WindowOf(amounts, i) ==
    LET verbOf(j) == IF amounts[j].verb THEN {amounts[j].role} ELSE {}
    IN  verbOf(i) \cup (IF ~amounts[i].near THEN {}
                        ELSE IF i + 1 \in DOMAIN amounts THEN verbOf(i + 1) ELSE {"sale"})

\* _amount_spans(), with the verbs in the window of each.
SpansOf(amounts) ==
    LET span(i, value) == [value |-> value, verbs |-> WindowOf(amounts, i)]
        spans(i) == IF amounts[i].split
                    THEN LET rest == amounts[i].value % 10000
                         IN  << span(i, amounts[i].value - rest), span(i, rest) >>
                    ELSE << span(i, amounts[i].value) >>
    IN  FlattenSeq([i \in DOMAIN amounts |-> spans(i)])

\* Mutated: a verb of selling in the window comes first.
HintSaleFirst(span) ==
    IF "sale" \in span.verbs THEN "sale" ELSE IF "cost" \in span.verbs THEN "cost" ELSE "none"

\* _ACQ_VERB_RE is tried first.
Hint(span) ==
    IF "cost" \in span.verbs THEN "cost" ELSE IF "sale" \in span.verbs THEN "sale" ELSE "none"

\* split_sale_and_acquisition(): the last hinted amount of each kind, up to where both
\* are known; or else the first two amounts, or the only hinted one, or the first.
SaleAndCost(spans) ==
    LET hinted(kind, n) == {i \in 1 .. n : Hint(spans[i]) = kind}
        value(kind, n) == IF hinted(kind, n) = {} THEN Unknown ELSE spans[Max(hinted(kind, n))].value
        complete == {n \in DOMAIN spans : hinted("sale", n) # {} /\ hinted("cost", n) # {}}
        all == Len(spans)
    IN  IF complete # {}
        THEN [sale |-> value("sale", Min(complete)), cost |-> value("cost", Min(complete))]
        ELSE IF all >= 2 THEN [sale |-> spans[1].value, cost |-> spans[2].value]
        ELSE IF hinted("sale", all) \cup hinted("cost", all) # {}
        THEN [sale |-> value("sale", all), cost |-> value("cost", all)]
        ELSE [sale |-> IF all = 1 THEN spans[1].value ELSE Unknown, cost |-> Unknown]

\* _detect_calc_type(): of the sentence, or of all the messages, in which one kind comes
\* before another.
TypeInText ==
    LET types == {heard[i].type : i \in DOMAIN heard}
    IN  IF said.type # "none" THEN said.type
        ELSE CASE "interest_dividend" \in types  -> "interest_dividend"
               [] "foreign_stock_sale" \in types -> "foreign_stock_sale"
               [] "housing_sale" \in types       -> "housing_sale"
               [] OTHER                          -> "none"

\* parse_holding_years(): of the sentence, or of the first message that has one.
MonthsInText ==
    LET at == {i \in DOMAIN heard : heard[i].months # Unknown}
    IN  IF said.months # Unknown \/ at = {} THEN said.months ELSE heard[Min(at)].months

AdjustedInText == said.adjusted \/ \E i \in DOMAIN heard : heard[i].adjusted

\* _regex_kwargs().  An only home is the default of the calculator.
FromText ==
    LET spans == SpansOf(said.amounts)
        pair == SaleAndCost(spans)
    IN  CASE TypeInText = "interest_dividend" ->
                 IF spans = <<>> THEN AskBack ELSE Interest(spans[1].value)
          [] TypeInText = "foreign_stock_sale" ->
                 IF said.earned /\ Len(spans) = 1 THEN Foreign(spans[1].value, 0)
                 ELSE IF Unknown \in {pair.sale, pair.cost} THEN AskBack
                 ELSE Foreign(pair.sale, pair.cost)
          [] TypeInText = "housing_sale" ->
                 IF Unknown \in {pair.sale, pair.cost, MonthsInText} THEN AskBack
                 ELSE Housing(pair.sale, pair.cost, MonthsInText, TRUE, AdjustedInText)
          [] OTHER -> AskBack

\* _kwargs_from_slots(); AskBack: not enough.
FromSlots(s) ==
    CASE s.type = "interest_dividend" ->
             IF s.income = Unknown THEN AskBack ELSE Interest(s.income)
      [] s.type = "foreign_stock_sale" ->
             IF Unknown \notin {s.sale, s.cost} THEN Foreign(s.sale, s.cost)
             ELSE IF s.profit # Unknown THEN Foreign(s.profit, 0)
             ELSE IF s.sale # Unknown THEN Foreign(s.sale, 0)
             ELSE AskBack
      [] s.type = "housing_sale" ->
             IF Unknown \in {s.sale, s.cost, s.months} THEN AskBack
             ELSE Housing(s.sale, s.cost, s.months, s.sole # "no", s.adjusted)
      [] OTHER -> AskBack

Roles == {"sale", "cost", "profit", "income"}

\* The figure of a kind that the sentence names.
Named(role) ==
    LET at == {i \in DOMAIN said.amounts : said.amounts[i].role = role}
    IN  IF at = {} THEN Unknown ELSE said.amounts[Min(at)].value

\* What the sentence and the messages before it name.
InDialogue(role) == {Named(role)} \cup {heard[i].figures[role] : i \in DOMAIN heard}
MonthsInDialogue == {said.months} \cup {heard[i].months : i \in DOMAIN heard}

\* What the model may read: each figure as anybody said it, or not at all; the type of
\* the sentence, when it has one.
Readings ==
    {[type |-> type, sale |-> sale, cost |-> cost, profit |-> profit, income |-> income,
      months |-> months, sole |-> sole, adjusted |-> adjusted] :
        type \in IF said.type # "none" THEN {said.type} ELSE {heard[i].type : i \in DOMAIN heard},
        sale \in InDialogue("sale") \cup {Unknown}, cost \in InDialogue("cost") \cup {Unknown},
        profit \in InDialogue("profit") \cup {Unknown}, income \in InDialogue("income") \cup {Unknown},
        months \in MonthsInDialogue \cup {Unknown},
        sole \in {said.sole, "unknown"} \cup {heard[i].sole : i \in DOMAIN heard},
        adjusted \in {AdjustedInText, FALSE}}

Nothing == [type |-> "none"]

(* --------------------------------- the node -------------------------------- *)

TaxInit == /\ said = Nothing /\ heard = <<>> /\ sentences = 0
           /\ slots = Nothing /\ asked = AskBack
           /\ taxStep = "idle"

Figures(sale, cost, profit, income) ==
    [role \in Roles |-> CASE role = "sale" -> sale [] role = "cost" -> cost
                         [] role = "profit" -> profit [] role = "income" -> income]
NoFigures == Figures(Unknown, Unknown, Unknown, Unknown)
FiguresOf(k) ==
    CASE k.type = "interest_dividend" -> Figures(Unknown, Unknown, Unknown, k.income)
      [] k.type \in {"housing_sale", "foreign_stock_sale"} -> Figures(k.sale, k.cost, k.sale - k.cost, Unknown)
      [] OTHER -> NoFigures

SoleOf(k) == IF k.type # "housing_sale" THEN "unknown" ELSE IF k.sole THEN "yes" ELSE "no"

\* What the reply to a sentence repeats: the kind of tax (_guidance names it, or every
\* kind), perhaps the amounts, the gain and whether it was an only home, the time that was
\* used, and perhaps the words for an area, in whatever sense.
Repeats ==
    {[type |-> IF TypeInText = "none" THEN "interest_dividend" ELSE TypeInText,
      figures |-> told.figures, sole |-> told.sole, months |-> months, adjusted |-> adjusted] :
        told \in {[figures |-> NoFigures, sole |-> "unknown"],
                  [figures |-> FiguresOf(asked), sole |-> SoleOf(asked)]},
        months \in {Unknown} \cup (IF asked.type = "housing_sale" THEN {asked.months} ELSE {}),
        adjusted \in BOOLEAN}

\* raw_msgs[-4:]: a sentence and the three messages before it.
LastThree(messages) == SubSeq(messages, Max({1, Len(messages) - 2}), Len(messages))

Mention ==
    /\ taxStep \in {"idle", "asked"}
    /\ sentences < MaxSentences
    /\ sentences' = sentences + 1
    /\ said' \in Sentences
    /\ IF taxStep = "idle" THEN UNCHANGED heard
       ELSE \E reply \in Repeats :
               heard' = LastThree(heard \o << [type |-> said.type, figures |-> [role \in Roles |-> Named(role)],
                                               sole |-> said.sole, months |-> said.months,
                                               adjusted |-> said.adjusted],
                                              reply >>)
    /\ slots' = Nothing /\ asked' = AskBack
    /\ taxStep' = "said"

\* _llm_slots(): the model answers, or not.
ReadByModel ==
    /\ taxStep = "said"
    /\ slots' \in Readings \cup {Nothing}
    /\ taxStep' = "read"
    /\ UNCHANGED <<said, heard, sentences, asked>>

\* The slots first; if they are not enough, the text; if neither is, ask back.
FillIn ==
    /\ taxStep = "read"
    /\ asked' = IF FromSlots(slots) # AskBack THEN FromSlots(slots) ELSE FromText
    /\ taxStep' = "asked"
    /\ UNCHANGED <<said, heard, sentences, slots>>

TaxNext ==
    \/ Mention
    \/ ReadByModel
    \/ FillIn

-----------------------------------------------------------------------------
\* A sentence may leave the kind of tax to others before it.  With an amount in two parts,
\* or one without a verb of its own, its text does not say which is which; and a sale of
\* stock of which only one figure is known is taken for all profit.
Ambiguous ==
    \/ said.type = "none"
    \/ \E i \in DOMAIN said.amounts :
          \/ said.amounts[i].split
          \/ said.amounts[i].role \in {"sale", "cost"} /\ ~said.amounts[i].verb
    \/ asked.type = "foreign_stock_sale" /\ asked.cost = 0 /\ asked.sale \notin InDialogue("profit")

\* A tax is calculated from figures that were given, each in its place, unless the
\* sentence is ambiguous: read by the patterns, from those of the sentence, whatever the
\* window of an amount holds besides its own verb, and the time held may be that of an
\* earlier message only if the sentence has none; read by the model, from those of the
\* dialogue, of which nobody checks that they were of this sale.
UsedAsSaidUnlessAmbiguous ==
    LET byModel == FromSlots(slots) # AskBack
        given(role) == (IF byModel THEN InDialogue(role) ELSE {Named(role)}) \ {Unknown}
    IN  taxStep = "asked" /\ asked # AskBack /\ ~Ambiguous =>
        CASE asked.type = "housing_sale" ->
                 /\ asked.sale \in given("sale") /\ asked.cost \in given("cost")
                 /\ asked.months \in IF byModel \/ said.months = Unknown THEN MonthsInDialogue ELSE {said.months}
          [] asked.type = "foreign_stock_sale" ->
                 \/ asked.sale \in given("sale") /\ asked.cost \in given("cost")
                 \/ asked.sale \in given("profit") /\ asked.cost = 0
          [] asked.type = "interest_dividend" -> asked.income \in given("income")

\* Selling for more leaves more after tax: across the limit of the exemption, the
\* steps of the deductions and those of the rates, but for the step of the rates at
\* 88 million won.
StepOfCredit == 8800

SellingHigherKeepsMoreUnlessAtStep ==
    taxStep = "asked" /\ asked.type = "housing_sale" =>
        \A more \in {10, 100, 1000} :
            LET higher == [asked EXCEPT !.sale = @ + more]
            IN  \/ HousingTax(higher) - HousingTax(asked) <= more
                \/ HousingBase(asked) <= StepOfCredit /\ StepOfCredit < HousingBase(higher)

\* rates.py calls the table one of credits (누진공제): a credit stands for what the slices of
\* the income below are taxed less, so the tax is that of the slices.
TaxOfSlices(base) ==
    LET lower(i) == IF i = 1 THEN 0 ELSE Brackets[i - 1].upper
        slice(i) == Max({Min({base, Brackets[i].upper}) - lower(i), 0})
    IN  MapThenSumSet(LAMBDA i : Percent(slice(i), Brackets[i].rate), DOMAIN Brackets)

CreditIsOfSlices ==
    taxStep = "asked" /\ asked.type = "housing_sale" =>
        LET base == HousingBase(asked)
        IN  TaxOfSlices(base) - ProgressiveTax(base) \in -Len(Brackets) .. Len(Brackets)
=============================================================================
