------------------------------ MODULE AgentProofs ------------------------------
(***************************************************************************)
(* The chat session, the agent's turn, its web research, fraud check and   *)
(* backtest, and the stock analysis memory, for all values of their        *)
(* parameters.                                                             *)
(*                                                                         *)
(* ChatSession.  What is stored is what some run held, so that the history *)
(* is right if the copies of all runs are (ConversationInv).  What is lost *)
(* and what comes back is a matter of overlaps: while a turn is under way  *)
(* alone, nobody holds a copy of the thread without it (KeptInv), and a    *)
(* session deleted while nothing is under way stays empty (WipedInv).      *)
(*                                                                         *)
(* AgentTurn.  ContextIsOfThisTurn speaks of the moment of the reply only. *)
(* What makes it inductive is what leads there: the reset empties the      *)
(* context before the superstep, and during it the writes have one entry   *)
(* of each tool that has returned (TurnInv).  A turn that fails in its     *)
(* superstep leaves writes behind, which the next message drops: that is   *)
(* why nothing is claimed of them while the session is idle.               *)
(*                                                                         *)
(* Backtest.  MoneyAddsUpToRounding is inductive once what it multiplies   *)
(* is known to be numbers (PurseOK): a purchase turns cash into shares at  *)
(* their cost, a sale is worth the cost of its shares and its gain, and    *)
(* what a trade's amount is rounded by is what the bound grows by.         *)
(* NoReentryWithoutCrossing speaks of past bars, which no step changes;    *)
(* BooksOK says that the bars it speaks of are there.                      *)
(*                                                                         *)
(* AnalysisMemory.  A row differs from the one before it because it was    *)
(* compared with the latest of its stock and day when that was looked up;  *)
(* so the lookup has to stay good until the insert (LookOK), and the row   *)
(* before has to be the latest (OrderOK).  For the back-fill that means    *)
(* that there is none at all (FillOK).  No outcome from the future is      *)
(* shown because outcomes are of the first bar they can be of (LabelsOK).  *)
(***************************************************************************)
EXTENDS MCAgentTools, AnalysisMemory, CollectionLemmas, SequenceTheorems, FiniteSetTheorems, TLAPS

(* ------------------------------ the agent's turn ---------------------------- *)

\* One entry of each of the tools, all of this turn.
OneOfEach(entries, tools) ==
    /\ \A i \in DOMAIN entries : entries[i].turn = turn /\ entries[i].tool \in tools
    /\ \A t \in tools : \E i \in DOMAIN entries : entries[i].tool = t
    /\ \A i, j \in DOMAIN entries : entries[i].tool = entries[j].tool => i = j

TurnInv ==
    /\ TurnTypeOK
    /\ step = "intent" => writes = <<>>
    /\ step = "tools" => /\ context = <<>>
                         /\ todo \subseteq Dispatched(route)
                         /\ OneOfEach(writes, Dispatched(route) \ todo)
    /\ step = "synthesize" => OneOfEach(context, Dispatched(route))

-----------------------------------------------------------------------------
\* The keyword lists name nodes only.
LEMMA KeywordsAreTools == \A m : KeywordRoute(m) \subseteq Tools
<1>1. \A w : Selects(w) \subseteq Tools
  BY KeywordsAssumption DEF Selects
<1>2. {"graph_rag"} \subseteq Tools
  BY KeywordsAssumption
<1> QED BY <1>1, <1>2 DEF KeywordRoute

\* What a node adds is an entry of its own and of this turn.
LEMMA ContributionsAreEntries ==
  ASSUME TurnTypeOK, NEW t \in Tools, NEW e \in Contributions(t)
  PROVE  e \in Entry /\ e.turn = turn /\ e.tool = t
<1>1. KindsOf(t) \subseteq Kinds
  BY DEF KindsOf, StockBacktest, StockAnalysis, CheongyakLookup, ProductResearch, NewsResearch,
         NtsLawResearch, Calculator, Retrieval, Kinds
<1>2. e \in [turn : {turn}, tool : {t}, kind : KindsOf(t), passages : SUBSET Passages]
  BY DEF Contributions
<1>3. turn \in Nat
  BY TurnAssumption DEF TurnTypeOK
<1> QED BY <1>1, <1>2, <1>3 DEF Entry

\* One more tool returns.
LEMMA OneMore ==
  ASSUME NEW entries \in Seq(Entry), NEW tools, NEW t, t \notin tools,
         NEW e \in Entry, e.turn = turn, e.tool = t, OneOfEach(entries, tools)
  PROVE  OneOfEach(Append(entries, e), tools \cup {t})
<1> DEFINE n == Len(entries)
           more == Append(entries, e)
<1>1. n \in Nat /\ DOMAIN entries = 1 .. n
  BY LenProperties
<1>2. DOMAIN more = 1 .. n + 1 /\ more[n + 1] = e /\ \A i \in 1 .. n : more[i] = entries[i]
  BY <1>1
<1>3. \A i \in 1 .. n : entries[i].turn = turn /\ entries[i].tool \in tools /\ entries[i].tool # t
  BY <1>1 DEF OneOfEach
<1> HIDE DEF more, n
<1>4. \A i \in DOMAIN more : more[i].turn = turn /\ more[i].tool \in tools \cup {t}
  BY <1>1, <1>2, <1>3
<1>5. ASSUME NEW u \in tools \cup {t} PROVE \E i \in DOMAIN more : more[i].tool = u
  <2>1. CASE u = t
    BY <1>1, <1>2, <2>1
  <2>2. CASE u \in tools
    <3>1. PICK i \in 1 .. n : entries[i].tool = u
      BY <1>1, <2>2 DEF OneOfEach
    <3> QED BY <1>1, <1>2, <3>1
  <2> QED BY <2>1, <2>2
<1>6. ASSUME NEW i \in DOMAIN more, NEW j \in DOMAIN more, more[i].tool = more[j].tool PROVE i = j
  <2>1. CASE i \in 1 .. n /\ j \in 1 .. n
    BY <1>1, <1>2, <1>6, <2>1 DEF OneOfEach
  <2>2. CASE i = n + 1 /\ j \in 1 .. n
    BY <1>2, <1>3, <1>6, <2>2
  <2>3. CASE i \in 1 .. n /\ j = n + 1
    BY <1>2, <1>3, <1>6, <2>3
  <2> QED BY <1>1, <1>2, <2>1, <2>2, <2>3
<1> QED BY <1>4, <1>5, <1>6 DEF OneOfEach, more

-----------------------------------------------------------------------------
\* The turn is routed: the context is empty, and nothing has returned.
LEMMA RouteKeeps ==
  ASSUME TurnInv, NEW tools \in SUBSET Tools, NEW named \in BOOLEAN, Route(tools, named)
  PROVE  TurnInv'
<1>1. /\ step = "intent" /\ writes = <<>> /\ writes' = writes /\ turn' = turn /\ message' = message
      /\ route' = tools /\ ticker' = named /\ context' = <<>> /\ todo' = tools
      /\ step' = IF tools = {} THEN "synthesize" ELSE "tools"
  BY DEF Route, TurnInv, Reset, Dispatched
<1>2. Dispatched(route') = tools
  BY <1>1 DEF Dispatched
<1>3. TurnTypeOK'
  BY <1>1 DEF TurnInv, TurnTypeOK
<1>4. OneOfEach(<<>>, {})'
  BY DEF OneOfEach
<1>5. step' = "tools" => todo' \subseteq Dispatched(route') /\ OneOfEach(writes, Dispatched(route) \ todo)'
  BY <1>1, <1>2, <1>4
<1>6. step' = "synthesize" => OneOfEach(context, Dispatched(route))'
  BY <1>1, <1>2, <1>4
<1> QED BY <1>1, <1>3, <1>5, <1>6 DEF TurnInv

\* A tool returns.
LEMMA RunToolKeeps ==
  ASSUME TurnInv, NEW t \in Tools, RunTool(t)
  PROVE  TurnInv'
<1>1. PICK e \in Contributions(t) : writes' = Append(writes, e)
  BY DEF RunTool
<1>2. /\ step = "tools" /\ t \in todo /\ todo' = todo \ {t}
      /\ UNCHANGED <<turn, step, message, route, ticker, context>>
  BY DEF RunTool, route_
<1>3. e \in Entry /\ e.turn = turn /\ e.tool = t
  BY ContributionsAreEntries DEF TurnInv
<1>4. TurnTypeOK'
  BY <1>1, <1>2, <1>3 DEF TurnInv, TurnTypeOK
<1>5. OneOfEach(writes', (Dispatched(route) \ todo) \cup {t})
  BY <1>1, <1>2, <1>3, OneMore DEF TurnInv, TurnTypeOK
<1>6. (Dispatched(route) \ todo) \cup {t} = Dispatched(route') \ todo'
  BY <1>2 DEF TurnInv
<1>7. OneOfEach(writes, Dispatched(route) \ todo)'
  BY <1>2, <1>5, <1>6 DEF OneOfEach
<1> QED BY <1>2, <1>4, <1>7 DEF TurnInv, Dispatched

\* The superstep ends: what its tools returned is the context.
LEMMA JoinKeeps ==
  ASSUME TurnInv, Join
  PROVE  TurnInv'
<1>1. /\ step = "tools" /\ todo = {} /\ context = <<>> /\ writes \in Seq(Entry)
      /\ writes' = <<>> /\ step' = "synthesize"
      /\ UNCHANGED <<turn, message, route, ticker, todo>>
  BY DEF Join, route_, TurnInv, TurnTypeOK
<1>2. context' = writes
  BY <1>1, ConcatEmptySeq DEF Join, Merged
<1>3. TurnTypeOK'
  BY <1>1, <1>2 DEF TurnInv, TurnTypeOK
<1>4. OneOfEach(writes, Dispatched(route))
  BY <1>1 DEF TurnInv
<1>5. OneOfEach(context, Dispatched(route))'
  BY <1>1, <1>2, <1>4 DEF OneOfEach, Dispatched
<1> QED BY <1>1, <1>3, <1>5 DEF TurnInv

\* The steps that leave the context and what it is compared with alone.
LEMMA OthersKeep ==
  ASSUME TurnInv, \/ \E m \in Messages : Say(m)
                  \/ TurnFails
                  \/ \E echo \in {"none", "sources"} : Synthesize(echo)
                  \/ Show
                  \/ UNCHANGED turnVars
  PROVE  TurnInv'
<1>1. ASSUME NEW m \in Messages, Say(m) PROVE TurnInv'
  <2>1. /\ step' = "intent" /\ writes' = <<>> /\ todo' = {} /\ turn' = turn + 1 /\ message' = m
        /\ turn < MaxTurns /\ UNCHANGED <<route, ticker, context>>
    BY <1>1 DEF Say, route_
  <2>2. turn' \in 0 .. MaxTurns
    BY <2>1, TurnAssumption DEF TurnInv, TurnTypeOK
  <2>3. TurnTypeOK'
    BY <2>1, <2>2 DEF TurnInv, TurnTypeOK
  <2> QED BY <2>1, <2>3 DEF TurnInv
<1>2. ASSUME step' \in {"idle", "shown"}, UNCHANGED <<turn, message, route_, context, todo, writes>>
      PROVE  TurnInv'
  BY <1>2 DEF TurnInv, TurnTypeOK, route_
<1>3. CASE TurnFails
  BY <1>2, <1>3 DEF TurnFails
<1>4. ASSUME NEW echo \in {"none", "sources"}, Synthesize(echo) PROVE TurnInv'
  BY <1>2, <1>4 DEF Synthesize
<1>5. CASE Show
  BY <1>2, <1>5 DEF Show
<1>6. CASE UNCHANGED turnVars
  BY <1>6 DEF TurnInv, TurnTypeOK, turnVars, route_, OneOfEach, Dispatched
<1> QED BY <1>1, <1>3, <1>4, <1>5, <1>6

\* Only what doc_rag found has passages, and the browser shows what the reply of this turn
\* lists, once there is one.
PassagesAreOfDocRag(entries) ==
    \A i \in DOMAIN entries : entries[i].passages # {} =>
        entries[i].tool = "doc_rag" /\ entries[i].kind = "result"

SourcesInv ==
    /\ PassagesAreOfDocRag(context) /\ PassagesAreOfDocRag(writes)
    /\ step # "shown" => shown = NothingShown
    /\ step = "shown" =>
        /\ \A i \in DOMAIN context : context[i].turn = turn
        /\ reply.sources = SourcesIn(context)
        /\ shown # NothingShown => shown = [sources |-> ListShown(reply), calculated |-> reply.calculated]

\* Every step keeps it.
LEMMA SourcesStep ==
  ASSUME TurnInv, SourcesInv, [AgentNext]_turnVars
  PROVE  SourcesInv'
<1>1. ASSUME NEW m \in Messages, Say(m) PROVE SourcesInv'
  BY <1>1 DEF Say, route_, SourcesInv, PassagesAreOfDocRag
<1>2. ASSUME NEW tools, NEW named, Route(tools, named) PROVE SourcesInv'
  BY <1>2 DEF Route, Reset, SourcesInv, PassagesAreOfDocRag
<1>3. ASSUME NEW t \in Tools, RunTool(t) PROVE SourcesInv'
  <2>1. PICK e \in Contributions(t) : writes' = Append(writes, e)
    BY <1>3 DEF RunTool
  <2>2. step = "tools" /\ UNCHANGED <<step, context, shown>>
    BY <1>3 DEF RunTool, route_
  <2>3. e \in Entry /\ (e.passages # {} => e.tool = "doc_rag" /\ e.kind = "result")
    BY ContributionsAreEntries DEF TurnInv, Contributions
  <2>4. writes \in Seq(Entry)
    BY DEF TurnInv, TurnTypeOK
  <2>5. \A i \in DOMAIN writes' : writes'[i] = e \/ (i \in DOMAIN writes /\ writes'[i] = writes[i])
    BY <2>1, <2>3, <2>4
  <2>6. PassagesAreOfDocRag(writes')
    BY <2>3, <2>5 DEF SourcesInv, PassagesAreOfDocRag
  <2> QED BY <2>2, <2>6 DEF SourcesInv, PassagesAreOfDocRag
<1>4. CASE TurnFails
  BY <1>4 DEF TurnFails, route_, SourcesInv, PassagesAreOfDocRag
<1>5. CASE Join
  <2>1. /\ step = "tools" /\ context = <<>> /\ writes \in Seq(Entry)
        /\ writes' = <<>> /\ step' = "synthesize" /\ UNCHANGED shown
    BY <1>5 DEF Join, route_, TurnInv, TurnTypeOK
  <2>2. context' = writes
    BY <1>5, <2>1, ConcatEmptySeq DEF Join, Merged
  <2> QED BY <2>1, <2>2 DEF SourcesInv, PassagesAreOfDocRag
<1>6. ASSUME NEW echo \in {"none", "sources"}, Synthesize(echo) PROVE SourcesInv'
  <2>1. /\ step = "synthesize" /\ step' = "shown" /\ shown' = shown
        /\ UNCHANGED <<turn, context, writes>> /\ reply'.sources = SourcesIn(context)
    BY <1>6 DEF Synthesize, route_
  <2>2. \A i \in DOMAIN context : context[i].turn = turn
    BY <2>1 DEF TurnInv, OneOfEach
  <2> QED BY <2>1, <2>2 DEF SourcesInv, PassagesAreOfDocRag, SourcesIn
<1>7. CASE Show
  BY <1>7 DEF Show, route_, SourcesInv, PassagesAreOfDocRag, SourcesIn
<1>8. CASE UNCHANGED turnVars
  BY <1>8 DEF turnVars, route_, SourcesInv, PassagesAreOfDocRag, SourcesIn
<1> QED BY <1>1, <1>2, <1>3, <1>4, <1>5, <1>6, <1>7, <1>8 DEF AgentNext, Greet, RouteByModel, RouteByKeywords

\* TurnInv is kept by every step.
LEMMA TurnStep ==
  ASSUME TurnInv, [AgentNext]_turnVars
  PROVE  TurnInv'
<1>1. CASE Greet
  BY <1>1, RouteKeeps DEF Greet
<1>2. CASE RouteByModel
  BY <1>2, RouteKeeps, TurnAssumption DEF RouteByModel
<1>3. CASE RouteByKeywords
  <2> DEFINE tools == KeywordRoute(message)
             named == message.stock /\ tools \cap {"stock_backtest", "stock_quick"} # {}
  <2>1. tools \in SUBSET Tools
    BY KeywordsAreTools
  <2>2. Route(tools, named)
    BY <1>3 DEF RouteByKeywords
  <2>3. named \in BOOLEAN
    OBVIOUS
  <2> HIDE DEF tools, named
  <2> QED BY <2>1, <2>2, <2>3, RouteKeeps
<1>4. ASSUME NEW t \in Tools, RunTool(t) PROVE TurnInv'
  BY <1>4, RunToolKeeps
<1>5. CASE Join
  BY <1>5, JoinKeeps
<1> QED BY <1>1, <1>2, <1>3, <1>4, <1>5, OthersKeep DEF AgentNext

\* It holds where a conversation begins.
LEMMA TurnBegins == AgentInit => TurnInv
<1>1. <<>> \in Seq(Entry)
  BY EmptySeq
<1>2. 0 \in 0 .. MaxTurns
  BY TurnAssumption
<1>3. AgentInit => TurnTypeOK
  BY <1>1, <1>2 DEF AgentInit, TurnTypeOK
<1> QED BY <1>3 DEF AgentInit, TurnInv

-----------------------------------------------------------------------------
\* When synthesize_node runs, tool_context has one entry of each tool dispatched in this
\* turn and none of another: for any tools, however many turns and whichever of them fail.
THEOREM ContextIsFresh == AgentSpec => []ContextIsOfThisTurn
<1>1. TurnInv => ContextIsOfThisTurn
  BY DEF TurnInv, ContextIsOfThisTurn, OneOfEach
<1> QED BY <1>1, TurnBegins, TurnStep, PTL DEF AgentSpec

\* The browser lists the passages that doc_rag found in this turn, all of them unless the model
\* wrote a headline of its own (ShownSourcesWereFound): _doc_rag_sources() and splitChatSources().
THEOREM ShownWereFound == AgentSpec => []ShownSourcesWereFound
<1>1. AgentInit => SourcesInv
  BY DEF AgentInit, SourcesInv, PassagesAreOfDocRag
<1>2. SourcesInv => ShownSourcesWereFound
  <2> SUFFICES ASSUME SourcesInv, shown # NothingShown
               PROVE  /\ shown.sources \subseteq UNION {context[i].passages :
                                                   i \in {j \in DOMAIN context : context[j].turn = turn}}
                      /\ reply.echo = "none" =>
                            shown.sources = UNION {context[i].passages :
                                                   i \in {j \in DOMAIN context : context[j].turn = turn}}
    BY DEF ShownSourcesWereFound
  <2>1. step = "shown" /\ shown.sources = ListShown(reply) /\ reply.sources = SourcesIn(context)
        /\ PassagesAreOfDocRag(context) /\ \A i \in DOMAIN context : context[i].turn = turn
    BY DEF SourcesInv
  <2>2. SourcesIn(context) = UNION {context[i].passages :
                                    i \in {j \in DOMAIN context : context[j].turn = turn}}
    BY <2>1 DEF SourcesIn, PassagesAreOfDocRag
  <2> QED BY <2>1, <2>2 DEF ListShown
<1> QED BY <1>1, <1>2, TurnBegins, TurnStep, SourcesStep, PTL DEF AgentSpec

(* --------------------------------- the backtest ------------------------------ *)

PurseOK ==
    /\ risk \in Risks
    /\ cash \in Nat /\ shares \in Nat /\ entry \in Nat
    /\ won \in Int /\ lost \in Int

Reasons == {"stop_loss", "take_profit", "trailing_stop", "signal", "none"}
Trade == [in : Nat, out : Nat, reason : Reasons]

BooksOK ==
    /\ strategy \in Strategies
    /\ stances \in [Indicators -> Int]
    /\ positions \in Seq(Int) /\ Now >= 1
    /\ trades \in Seq(Trade)
    /\ \A k \in 1 .. Len(trades) : trades[k].in <= Now /\ trades[k].out \in 1 .. Now
    /\ entered \in 0 .. Now

BacktestInv == PurseOK /\ MoneyAddsUpToRounding /\ BooksOK /\ NoReentryWithoutCrossing

-----------------------------------------------------------------------------
\* No shares are worth nothing.
LEMMA ZeroTimes == \A x \in Int : 0 * x = 0
  OBVIOUS

\* The gain of a sale is what it brings less what its shares cost.
LEMMA TimesMinus == \A s, p, c \in Int : s * (p - c) = s * p - s * c
  OBVIOUS

\* What some shares cost is a number.
LEMMA TimesNat == \A a, b \in Nat : a * b \in Nat
  OBVIOUS

\* A price with its fee is positive.
LEMMA TimesPositive == \A a, b \in Nat \ {0} : a * b \in Nat \ {0}
  OBVIOUS

\* As many as can be paid for cost no more than there is.
LEMMA DivTimes == \A c \in Nat, d \in Nat \ {0} : c \div d \in Nat /\ (c \div d) * d <= c
  OBVIOUS

(* What a share costs and what it brings, with the fee; and that no more   *)
(* shares are bought than the cash pays for.                               *)
LEMMA Amounts ==
  ASSUME PurseOK, NEW px \in Prices
  PROVE  /\ Cost(px) \in Nat \ {0} /\ Proceeds(px) \in Nat /\ Cost(entry) \in Nat
         /\ Affordable(px) \in Nat /\ Affordable(px) * Cost(px) \in Nat
         /\ Affordable(px) * Cost(px) <= cash
<1> DEFINE fee == risk.fee
           up == Unit + fee
           down == Unit - fee
<1>1. fee \in Nat /\ fee <= 10000
  BY FeesAssumption DEF PurseOK
<1> HIDE DEF fee
<1>2. up \in Nat \ {0} /\ down \in Nat
  BY <1>1 DEF Unit
<1> HIDE DEF up, down
<1>3. px \in Nat \ {0} /\ entry \in Nat /\ cash \in Nat
  BY PricesAssumption DEF PurseOK
<1>4. Cost(px) \in Nat \ {0}
  BY <1>2, <1>3, TimesPositive DEF Cost, up, fee
<1>5. Proceeds(px) \in Nat /\ Cost(entry) \in Nat
  BY <1>2, <1>3, TimesNat DEF Proceeds, Cost, up, down, fee
<1>6. Affordable(px) \in Nat /\ Affordable(px) * Cost(px) <= cash
  BY <1>3, <1>4, DivTimes DEF Affordable
<1>7. Affordable(px) * Cost(px) \in Nat
  BY <1>4, <1>6, TimesNat
<1> QED BY <1>4, <1>5, <1>6, <1>7

\* What a rounded amount is off by.
LEMMA RoundedIsNear ==
  ASSUME NEW x \in Int, NEW y \in Rounded(x)
  PROVE  y \in Int /\ 2 * (y - x) <= Cent /\ 2 * (x - y) <= Cent
<1> DEFINE k == x \div Cent
<1>1. k \in Int /\ Cent \in Int
  BY CentAssumption
<1> HIDE DEF k
<1>2. Cent * k \in Int /\ Cent * (k + 1) \in Int
  BY <1>1
<1> QED BY <1>2 DEF Rounded, k

\* One trade more.
LEMMA OneTimesMore == \A c, n \in Int : c * (n + 1) = c * n + c /\ c * n \in Int
  OBVIOUS

(* A sale is worth what its shares cost, and the gain.                     *)
LEMMA SaleAddsUp ==
  ASSUME PurseOK, NEW px \in Prices
  PROVE  /\ shares * Proceeds(px) \in Nat /\ shares * Cost(entry) \in Nat /\ Gain(px) \in Int
         /\ shares * Proceeds(px) = shares * Cost(entry) + Gain(px)
<1>1. Proceeds(px) \in Nat /\ Cost(entry) \in Nat /\ shares \in Nat
  BY Amounts DEF PurseOK
<1>2. shares * Proceeds(px) \in Nat /\ shares * Cost(entry) \in Nat
  BY <1>1, TimesNat
<1>3. Gain(px) = shares * Proceeds(px) - shares * Cost(entry)
  BY <1>1, TimesMinus DEF Gain
<1> QED BY <1>2, <1>3

-----------------------------------------------------------------------------
(* A bar keeps the money and its types.                                    *)
LEMMA PurseStep ==
  ASSUME PurseOK, BooksOK, MoneyAddsUpToRounding,
         NEW px \in Prices, NEW placing \in Placings, Bar(px, placing)
  PROVE  PurseOK' /\ MoneyAddsUpToRounding'
<1> DEFINE before == positions[Now]
           after == positions'[Now + 1]
           reason == ExitReason(px, before, after)
           told == Capital * Unit + won - lost
           n == Len(trades)
<1>0. risk' = risk /\ Capital * Unit \in Int /\ px \in Nat
  BY CapitalAssumption, PricesAssumption DEF Bar, Unit
<1>a. trades \in Seq(Trade) /\ n \in Nat /\ Cent \in Nat /\ Cent * n \in Int
  <2>1. trades \in Seq(Trade) /\ n \in Nat /\ Cent \in Nat
    BY CentAssumption DEF BooksOK
  <2> QED BY <2>1, OneTimesMore
<1>1. CASE Leave(px, reason)
  <2>1. PICK pnl_amount \in Rounded(Gain(px)) :
          /\ cash' = cash + shares * Proceeds(px) /\ shares' = 0 /\ entry' = entry
          /\ \/ won' = won + pnl_amount /\ lost' = lost
             \/ won' = won /\ lost' = lost - pnl_amount
    BY <1>1 DEF Leave
  <2>2. /\ pnl_amount \in Int
        /\ 2 * (pnl_amount - Gain(px)) <= Cent /\ 2 * (Gain(px) - pnl_amount) <= Cent
    BY SaleAddsUp, RoundedIsNear
  <2>3. PurseOK'
    BY <1>0, <2>1, <2>2, SaleAddsUp DEF PurseOK
  <2>4. Cost(entry)' = Cost(entry) /\ Cost(entry) \in Nat
    BY <1>0, <2>1, Amounts DEF Cost
  <2>5. shares' * Cost(entry)' = 0
    BY <2>1, <2>4, ZeroTimes
  <2>6. Cent * Len(trades') = Cent * n + Cent
    <3>1. Len(trades') = n + 1
      BY <1>1, <1>a DEF Leave
    <3> QED BY <1>a, <3>1, OneTimesMore
  <2>7. cash' = (cash + shares * Cost(entry)) + Gain(px) /\ Capital * Unit + won' - lost' = told + pnl_amount
    BY <1>0, <2>1, <2>2, SaleAddsUp DEF PurseOK
  <2> HIDE DEF before, after, reason
  <2>8. told \in Int /\ shares * Cost(entry) \in Int /\ cash \in Nat /\ Gain(px) \in Int /\ shares * Proceeds(px) \in Nat
    BY <1>0, SaleAddsUp DEF PurseOK
  <2>9. /\ 2 * ((cash + shares * Cost(entry)) - told) <= Cent * n
        /\ 2 * (told - (cash + shares * Cost(entry))) <= Cent * n
    BY DEF MoneyAddsUpToRounding
  <2> HIDE DEF told, n
  <2>10. /\ 2 * (cash' - (told + pnl_amount)) <= Cent * n + Cent
         /\ 2 * ((told + pnl_amount) - cash') <= Cent * n + Cent
    <3> DEFINE there == cash + shares * Cost(entry)
               bound == Cent * n
               gain == Gain(px)
    <3>1. there \in Int /\ bound \in Int /\ gain \in Int /\ Cent \in Int /\ cash' = there + gain
      BY <1>a, <2>7, <2>8
    <3>2. 2 * (there - told) <= bound /\ 2 * (told - there) <= bound
      BY <2>9
    <3>3. 2 * (pnl_amount - gain) <= Cent /\ 2 * (gain - pnl_amount) <= Cent
      BY <2>2
    <3> HIDE DEF there, bound, gain
    <3>4. /\ 2 * ((there + gain) - (told + pnl_amount)) <= bound + Cent
          /\ 2 * ((told + pnl_amount) - (there + gain)) <= bound + Cent
      BY <2>2, <2>8, <3>1, <3>2, <3>3
    <3> QED BY <3>1, <3>4 DEF bound
  <2>11. cash' >= 0 /\ shares' >= 0 /\ cash' \in Int
    BY <2>1, <2>3 DEF PurseOK
  <2>12. cash' + shares' * Cost(entry)' = cash'
    BY <2>5, <2>11
  <2>13. /\ 2 * (cash' - (Capital * Unit + won' - lost')) <= Cent * Len(trades')
         /\ 2 * ((Capital * Unit + won' - lost') - cash') <= Cent * Len(trades')
    BY <2>6, <2>7, <2>10
  <2>14. MoneyAddsUpToRounding'
    BY <2>11, <2>12, <2>13 DEF MoneyAddsUpToRounding
  <2> QED BY <2>3, <2>14
<1>2. CASE Keep(px, reason)
  <2>1. UNCHANGED <<cash, shares, entry, trades, won, lost, risk>>
    BY <1>0, <1>2 DEF Keep
  <2> QED BY <2>1 DEF PurseOK, MoneyAddsUpToRounding, Cost
<1>3. CASE Enter(px, before, after)
  <2>1. /\ shares = 0 /\ shares' = Affordable(px) /\ entry' = px
        /\ cash' = cash - Affordable(px) * Cost(px) /\ UNCHANGED <<trades, won, lost>>
    BY <1>3 DEF Enter, Held, PurseOK
  <2>2. PurseOK'
    BY <1>0, <2>1, Amounts DEF PurseOK
  <2>3. shares' * Cost(entry)' = Affordable(px) * Cost(px)
    BY <1>0, <2>1 DEF Cost
  <2>4. shares * Cost(entry) = 0
    BY <2>1, Amounts, ZeroTimes
  <2>5. cash' + shares' * Cost(entry)' = cash + shares * Cost(entry)
    BY <2>1, <2>3, <2>4, Amounts DEF PurseOK
  <2>6. cash' >= 0 /\ shares' >= 0
    BY <2>2 DEF PurseOK
  <2> QED BY <2>1, <2>2, <2>5, <2>6 DEF MoneyAddsUpToRounding
<1>4. CASE StayOut(px, before, after)
  <2>1. UNCHANGED <<cash, shares, entry, trades, won, lost, risk>>
    BY <1>0, <1>4 DEF StayOut, holdingVars
  <2> QED BY <2>1 DEF PurseOK, MoneyAddsUpToRounding, Cost
<1> QED BY <1>1, <1>2, <1>3, <1>4 DEF Bar

-----------------------------------------------------------------------------
(* A bar adds one Position and changes none.                               *)
LEMMA OneMoreBar ==
  ASSUME BooksOK, NEW px \in Prices, NEW placing \in Placings, Bar(px, placing)
  PROVE  /\ strategy' \in Strategies
         /\ stances' \in [Indicators -> Int]
         /\ positions' \in Seq(Int) /\ Now' = Now + 1
         /\ \A b \in 1 .. Now : positions'[b] = positions[b]
<1>1. stances' \in [Indicators -> Int]
  <2>1. \A i \in Indicators : Stance(i, lies[i], placing[i], stances[i]) \in Int
    BY DEF Stance, BooksOK
  <2> QED BY <2>1 DEF Bar
<1>2. positions[Now] \in Int
  BY DEF BooksOK, Now
<1>3. Voted(stances', positions[Now]) \in Int
  BY <1>2 DEF Voted
<1>4. strategy # "combined" => stances'[strategy] \in Int
  BY <1>1 DEF BooksOK, Strategies
<1>5. PICK p \in Int : positions' = Append(positions, p)
  BY <1>3, <1>4 DEF Bar
<1>6. strategy' \in Strategies
  BY DEF Bar, BooksOK
<1> QED BY <1>1, <1>5, <1>6 DEF BooksOK, Now

\* A position is closed for one of the reasons, or none.
LEMMA ExitReasonTyped == \A px, before, after : ExitReason(px, before, after) \in Reasons
  BY DEF ExitReason, Reasons

(* So a turn once taken is a turn for good.                                *)
LEMMA TurnsStay ==
  ASSUME BooksOK, NEW px \in Prices, NEW placing \in Placings, Bar(px, placing),
         NEW from \in Nat, NEW to \in Nat, from >= 2, to <= Now, TurnsIn(from, to)
  PROVE  \E b \in from .. to : positions'[b] = 1 /\ positions'[b - 1] # 1
<1>1. PICK b \in from .. to : positions[b] = 1 /\ positions[b - 1] # 1
  BY DEF TurnsIn
<1>2. b \in 1 .. Now /\ b - 1 \in 1 .. Now
  BY DEF BooksOK, Now
<1>3. positions'[b] = 1 /\ positions'[b - 1] # 1
  BY <1>1, <1>2, OneMoreBar
<1> QED BY <1>3

(* A bar keeps the books, and who enters has waited for a new crossing.    *)
LEMMA BooksStep ==
  ASSUME PurseOK, BooksOK, NoReentryWithoutCrossing,
         NEW px \in Prices, NEW placing \in Placings, Bar(px, placing)
  PROVE  BooksOK' /\ NoReentryWithoutCrossing'
<1> DEFINE before == positions[Now]
           after == positions'[Now + 1]
           reason == ExitReason(px, before, after)
           n == Len(trades)
           Turns(from, to) == \E b \in from .. to : positions'[b] = 1 /\ positions'[b - 1] # 1
<1>0. /\ Now \in Nat /\ Now >= 1 /\ Now' = Now + 1 /\ n \in Nat
      /\ entered \in 0 .. Now /\ shares \in Nat
  <2>1. positions \in Seq(Int) /\ trades \in Seq(Trade) /\ Now >= 1 /\ entered \in 0 .. Now
    BY DEF BooksOK
  <2>2. Now \in Nat /\ n \in Nat
    BY <2>1 DEF Now
  <2>3. Now' = Now + 1
    BY OneMoreBar
  <2>4. shares \in Nat
    BY DEF PurseOK
  <2> QED BY <2>1, <2>2, <2>3, <2>4
<1>1. \A k \in 1 .. n : trades[k].in \in Nat /\ trades[k].out \in 1 .. Now /\ trades[k].in <= Now
  <2> SUFFICES ASSUME NEW k \in 1 .. n
               PROVE  trades[k].in \in Nat /\ trades[k].out \in 1 .. Now /\ trades[k].in <= Now
    OBVIOUS
  <2>1. trades \in Seq(Trade) /\ trades[k].out \in 1 .. Now /\ trades[k].in <= Now
    BY DEF BooksOK
  <2>2. trades[k] \in Trade
    BY <2>1
  <2>3. trades[k].in \in Nat
    BY <2>2 DEF Trade
  <2> QED BY <2>1, <2>3
<1>2. \A k \in 2 .. n : Turns(trades[k - 1].out + 1, trades[k].in)
  <2> SUFFICES ASSUME NEW k \in 2 .. n PROVE Turns(trades[k - 1].out + 1, trades[k].in)
    OBVIOUS
  <2>1. k - 1 \in 1 .. n /\ k \in 1 .. n
    BY <1>0
  <2>2. TurnsIn(trades[k - 1].out + 1, trades[k].in)
    BY DEF NoReentryWithoutCrossing
  <2>3. /\ trades[k - 1].out + 1 \in Nat /\ trades[k].in \in Nat
        /\ trades[k - 1].out + 1 >= 2 /\ trades[k].in <= Now
    <3>1. trades[k - 1].out \in 1 .. Now
      BY <1>1, <2>1
    <3>2. trades[k].in \in Nat /\ trades[k].in <= Now
      BY <1>1, <2>1
    <3> QED BY <1>0, <3>1, <3>2
  <2> QED BY <2>2, <2>3, TurnsStay
<1>3. ASSUME Held, n >= 1 PROVE Turns(trades[n].out + 1, entered)
  <2>1. TurnsIn(trades[n].out + 1, entered)
    BY <1>3 DEF NoReentryWithoutCrossing
  <2>2. trades[n].out + 1 \in Nat /\ trades[n].out + 1 >= 2
    BY <1>0, <1>1, <1>3
  <2> QED BY <1>0, <2>1, <2>2, TurnsStay
<1> HIDE DEF Turns
<1>4. ASSUME UNCHANGED <<trades, entered>>, shares' = 0 \/ UNCHANGED shares
      PROVE  BooksOK' /\ NoReentryWithoutCrossing'
  <2>1. BooksOK'
    <3>1. trades \in Seq(Trade) /\ trades' = trades /\ Len(trades') = n
      BY <1>4 DEF BooksOK
    <3>2. \A k \in 1 .. n : trades[k].in <= Now' /\ trades[k].out \in 1 .. Now'
      BY <1>0, <1>1
    <3>3. entered' \in 0 .. Now'
      BY <1>0, <1>4
    <3>4. strategy' \in Strategies /\ stances' \in [Indicators -> Int] /\ positions' \in Seq(Int) /\ Now' >= 1
      BY <1>0, OneMoreBar
    <3> QED BY <3>1, <3>2, <3>3, <3>4 DEF BooksOK
  <2>2. \A k \in 2 .. Len(trades') : TurnsIn(trades[k - 1].out + 1, trades[k].in)'
    BY <1>2, <1>4 DEF TurnsIn, Turns
  <2>3. ASSUME Held', trades' # <<>> PROVE TurnsIn(trades[Len(trades)].out + 1, entered)'
    BY <1>0, <1>3, <1>4, <2>3 DEF TurnsIn, Turns, Held, BooksOK
  <2> QED BY <2>1, <2>2, <2>3 DEF NoReentryWithoutCrossing
<1>5. CASE Leave(px, reason)
  <2> DEFINE last == [in |-> entered, out |-> Now + 1, reason |-> reason]
  <2>1. Held /\ trades' = Append(trades, last) /\ shares' = 0 /\ entered' = entered
    BY <1>5 DEF Leave
  <2>2. reason \in Reasons
    BY ExitReasonTyped
  <2> HIDE DEF reason
  <2>3. last \in Trade
    <3>1. entered \in Nat /\ Now + 1 \in Nat
      BY <1>0
    <3> QED BY <2>2, <3>1 DEF Trade
  <2> HIDE DEF last
  <2>4. /\ trades' \in Seq(Trade) /\ Len(trades') = n + 1
        /\ \A k \in 1 .. n : trades'[k] = trades[k]
        /\ trades'[n + 1] = last
    BY <2>1, <2>3 DEF BooksOK
  <2>5. last.in = entered /\ last.out = Now + 1
    BY DEF last
  <2>6. BooksOK'
    <3>1. trades' \in Seq(Trade) /\ Len(trades') = n + 1
      BY <2>4
    <3>2. \A k \in 1 .. n : trades[k].in <= Now' /\ trades[k].out \in 1 .. Now'
      BY <1>0, <1>1
    <3>2a. \A k \in 1 .. n + 1 : trades'[k].in <= Now' /\ trades'[k].out \in 1 .. Now'
      <4>1. last.in <= Now' /\ last.out \in 1 .. Now'
        BY <1>0, <2>5
      <4>2. \A k \in 1 .. n + 1 : k \in 1 .. n \/ k = n + 1
        BY <1>0
      <4> QED BY <2>4, <3>2, <4>1, <4>2
    <3>3. entered' \in 0 .. Now'
      BY <1>0, <2>1
    <3>4. strategy' \in Strategies /\ stances' \in [Indicators -> Int] /\ positions' \in Seq(Int) /\ Now' >= 1
      BY <1>0, OneMoreBar
    <3> QED BY <3>1, <3>2a, <3>3, <3>4 DEF BooksOK
  <2>7. ASSUME NEW k \in 2 .. n + 1 PROVE Turns(trades'[k - 1].out + 1, trades'[k].in)
    <3>1. CASE k \in 2 .. n
      BY <1>0, <1>2, <2>4, <3>1
    <3>2. CASE k = n + 1
      BY <1>0, <1>3, <2>1, <2>4, <2>5, <3>2
    <3> QED BY <1>0, <3>1, <3>2
  <2>8. ~Held'
    BY <2>1 DEF Held
  <2> QED BY <2>4, <2>6, <2>7, <2>8 DEF NoReentryWithoutCrossing, TurnsIn, Turns
<1>6. CASE Keep(px, reason)
  BY <1>4, <1>6 DEF Keep
<1>7. CASE Enter(px, before, after)
  <2>1. UNCHANGED trades /\ entered' = Now + 1
    BY <1>7 DEF Enter
  <2>2. BooksOK'
    <3>1. trades \in Seq(Trade) /\ trades' = trades /\ Len(trades') = n
      BY <2>1 DEF BooksOK
    <3>2. \A k \in 1 .. n : trades[k].in <= Now' /\ trades[k].out \in 1 .. Now'
      BY <1>0, <1>1
    <3>3. entered' \in 0 .. Now'
      BY <1>0, <2>1
    <3>4. strategy' \in Strategies /\ stances' \in [Indicators -> Int] /\ positions' \in Seq(Int) /\ Now' >= 1
      BY <1>0, OneMoreBar
    <3> QED BY <3>1, <3>2, <3>3, <3>4 DEF BooksOK
  <2>3. positions'[Now + 1] = 1 /\ positions'[Now] # 1
    BY <1>0, <1>7, OneMoreBar DEF Enter, Enters, Turned
  <2>4. \A k \in 2 .. Len(trades') : TurnsIn(trades[k - 1].out + 1, trades[k].in)'
    BY <1>2, <2>1 DEF TurnsIn, Turns
  <2>5. ASSUME trades' # <<>> PROVE TurnsIn(trades[Len(trades)].out + 1, entered)'
    <3>1. n \in 1 .. n /\ trades[n].out + 1 <= Now + 1 /\ trades[n].out \in Nat
      BY <1>0, <1>1, <2>1, <2>5 DEF BooksOK
    <3>2. Now + 1 \in trades[n].out + 1 .. Now + 1 /\ (Now + 1) - 1 = Now
      BY <1>0, <3>1
    <3> QED BY <2>1, <2>3, <3>2 DEF TurnsIn
  <2> QED BY <2>2, <2>4, <2>5 DEF NoReentryWithoutCrossing
<1>8. CASE StayOut(px, before, after)
  BY <1>4, <1>8 DEF StayOut, holdingVars
<1> QED BY <1>5, <1>6, <1>7, <1>8 DEF Bar

-----------------------------------------------------------------------------
(* The invariant holds of every bar of every backtest.                     *)
THEOREM Invariance == BacktestSpec => []BacktestInv
<1>1. BacktestInit => BacktestInv
  <2> SUFFICES ASSUME BacktestInit PROVE BacktestInv
    OBVIOUS
  <2>1. PurseOK
    BY CapitalAssumption DEF BacktestInit, PurseOK, Unit
  <2>2. Cost(entry) \in Int
    <3> DEFINE fee == risk.fee
               up == Unit + fee
    <3>1. fee \in Nat /\ fee <= 10000
      BY <2>1, FeesAssumption DEF PurseOK
    <3> HIDE DEF fee
    <3>2. up \in Int
      BY <3>1 DEF Unit
    <3> HIDE DEF up
    <3>3. entry = 0 /\ Cost(entry) = entry * up
      BY DEF BacktestInit, Cost, up, fee
    <3> QED BY <3>2, <3>3, ZeroTimes
  <2>3. MoneyAddsUpToRounding
    <3>1. cash = Capital * Unit /\ cash \in Nat /\ shares = 0 /\ won = 0 /\ lost = 0 /\ Len(trades) = 0
      BY <2>1 DEF BacktestInit, PurseOK
    <3>2. shares * Cost(entry) = 0
      BY <2>2, <3>1, ZeroTimes
    <3>3. Cent * Len(trades) = 0
      BY <3>1, CentAssumption
    <3> QED BY <3>1, <3>2, <3>3 DEF MoneyAddsUpToRounding
  <2>4. BooksOK
    BY DEF BacktestInit, BooksOK, Now
  <2>5. NoReentryWithoutCrossing
    BY DEF BacktestInit, NoReentryWithoutCrossing
  <2> QED BY <2>1, <2>3, <2>4, <2>5 DEF BacktestInv
<1>2. BacktestInv /\ [BacktestNext]_backtestVars => BacktestInv'
  <2> SUFFICES ASSUME BacktestInv, [BacktestNext]_backtestVars PROVE BacktestInv'
    OBVIOUS
  <2>1. ASSUME NEW px \in Prices, NEW placing \in Placings, Bar(px, placing) PROVE BacktestInv'
    BY <2>1, PurseStep, BooksStep DEF BacktestInv
  <2>2. CASE UNCHANGED backtestVars
    BY <2>2 DEF BacktestInv, backtestVars, marketVars, holdingVars, PurseOK, MoneyAddsUpToRounding, Cost,
                BooksOK, Now, NoReentryWithoutCrossing, TurnsIn, Held
  <2> QED BY <2>1, <2>2 DEF BacktestNext
<1> QED BY <1>1, <1>2, PTL DEF BacktestSpec

(* Whatever the prices do, the cash never goes below zero and the trades   *)
(* account for all of it, fees included, to half a cent a trade.           *)
THEOREM AccountsBalance == BacktestSpec => []MoneyAddsUpToRounding
<1>1. BacktestInv => MoneyAddsUpToRounding
  BY DEF BacktestInv
<1> QED BY <1>1, Invariance, PTL

(* Whichever exit it was, nothing is bought again before the stance has    *)
(* turned to buying once more.                                             *)
THEOREM NoReentry == BacktestSpec => []NoReentryWithoutCrossing
<1>1. BacktestInv => NoReentryWithoutCrossing
  BY DEF BacktestInv
<1> QED BY <1>1, Invariance, PTL

(* ------------------------------- the fraud check ----------------------------- *)

\* One message has the signs of another, and perhaps more.
Fewer(a, b) == a.phrases \subseteq b.phrases /\ a.hosts \subseteq b.hosts

\* Lists of three.
LEMMA ThreeAreFinite == \A x, y, z : IsFiniteSet({x, y, z})
<1> SUFFICES ASSUME NEW x, NEW y, NEW z PROVE IsFiniteSet({x, y, z})
  OBVIOUS
<1>1. IsFiniteSet({x})
  BY FS_Singleton
<1>2. IsFiniteSet({x} \cup {y})
  BY <1>1, FS_AddElement
<1>3. IsFiniteSet(({x} \cup {y}) \cup {z})
  BY <1>2, FS_AddElement
<1>4. ({x} \cup {y}) \cup {z} = {x, y, z}
  OBVIOUS
<1> QED BY <1>3, <1>4

\* The phrases found grow with the message.
LEMMA FoundGrows ==
  ASSUME NEW a, NEW b, Fewer(a, b)
  PROVE  \A list : /\ Found(a, list) \subseteq Found(b, list) /\ Found(b, list) \subseteq list
                   /\ Has(a, list) => Has(b, list)
BY DEF Fewer, Found, Has

\* A capped score grows with what is found.
LEMMA CappedGrows ==
  ASSUME NEW S, NEW T, S \subseteq T, IsFiniteSet(T), NEW k \in Nat, NEW c \in Nat
  PROVE  Capped(S, k, c) \in Nat /\ Capped(T, k, c) \in Nat /\ Capped(S, k, c) <= Capped(T, k, c)
<1>1. Cardinality(S) \in Nat /\ Cardinality(T) \in Nat /\ Cardinality(S) <= Cardinality(T)
  BY FS_Subset, FS_CardinalityType
<1>2. \A m, n \in Nat : m <= n => m * k \in Nat /\ n * k \in Nat /\ m * k <= n * k
  <2> SUFFICES ASSUME NEW m \in Nat, NEW n \in Nat, m <= n
               PROVE  m * k \in Nat /\ n * k \in Nat /\ m * k <= n * k
    OBVIOUS
  <2>1. PICK d \in Nat : n = m + d
    <3>1. n - m \in Nat /\ n = m + (n - m)
      OBVIOUS
    <3> QED BY <3>1
  <2>2. m * k \in Nat /\ d * k \in Nat
    BY TimesNat
  <2>3. n * k = m * k + d * k
    BY <2>1
  <2> QED BY <2>2, <2>3
<1>3. PICK m : m = Cardinality(S) * k
  OBVIOUS
<1>4. PICK n : n = Cardinality(T) * k
  OBVIOUS
<1>5. m \in Nat /\ n \in Nat /\ m <= n
  BY <1>1, <1>2, <1>3, <1>4
<1>6. Capped(S, k, c) = (IF m <= c THEN m ELSE c) /\ Capped(T, k, c) = (IF n <= c THEN n ELSE c)
  BY <1>3, <1>4, <1>5, MinOfTwo DEF Capped
<1> QED BY <1>5, <1>6

\* What is found of a list of at most three phrases.
LEMMA ListGrows ==
  ASSUME NEW a, NEW b, Fewer(a, b), NEW list, IsFiniteSet(list), NEW k \in Nat, NEW c \in Nat
  PROVE  /\ Capped(Found(a, list), k, c) \in Nat /\ Capped(Found(b, list), k, c) \in Nat
         /\ Capped(Found(a, list), k, c) <= Capped(Found(b, list), k, c)
<1>1. Found(a, list) \subseteq Found(b, list) /\ Found(b, list) \subseteq list
  BY FoundGrows
<1>2. IsFiniteSet(Found(b, list))
  BY <1>1, FS_Subset
<1> QED BY <1>1, <1>2, CappedGrows

\* The lists that are counted.
LEMMA ListsAreFinite ==
  IsFiniteSet(HighReturn) /\ IsFiniteSet(SnsLure) /\ IsFiniteSet(AdvancePayment)
    /\ IsFiniteSet(CryptoKeywords) /\ IsFiniteSet(Imitations)
BY ThreeAreFinite DEF HighReturn, SnsLure, AdvancePayment, CryptoKeywords, Imitations

\* The scores of the single categories are naturals and grow with the message.
LEMMA UrlGrows ==
  ASSUME NEW a, NEW b, Fewer(a, b)
  PROVE  UrlScore(a) \in Nat /\ UrlScore(b) \in Nat /\ UrlScore(a) <= UrlScore(b)
<1>1. PICK A : A = a.hosts \ OfficialHosts
  OBVIOUS
<1>2. PICK B : B = b.hosts \ OfficialHosts
  OBVIOUS
<1>3. A \subseteq B
  BY <1>1, <1>2 DEF Fewer
<1>4. A \cap Imitations \subseteq B \cap Imitations /\ IsFiniteSet(B \cap Imitations)
  BY <1>3, ListsAreFinite, FS_Subset
<1>5. /\ Capped(A \cap Imitations, 30, 30) \in Nat /\ Capped(B \cap Imitations, 30, 30) \in Nat
      /\ Capped(A \cap Imitations, 30, 30) <= Capped(B \cap Imitations, 30, 30)
  BY <1>4, CappedGrows
<1>6. /\ A \cap IpHosts # {} => B \cap IpHosts # {}
      /\ A \cap Shorteners # {} => B \cap Shorteners # {}
      /\ (A \cap SuspiciousTlds) \ Imitations # {} => (B \cap SuspiciousTlds) \ Imitations # {}
  BY <1>3
<1>7. /\ UrlScore(a) = Score(A \cap IpHosts # {}, 30) + Score(A \cap Shorteners # {}, 15)
             + Capped(A \cap Imitations, 30, 30) + Score((A \cap SuspiciousTlds) \ Imitations # {}, 15)
      /\ UrlScore(b) = Score(B \cap IpHosts # {}, 30) + Score(B \cap Shorteners # {}, 15)
             + Capped(B \cap Imitations, 30, 30) + Score((B \cap SuspiciousTlds) \ Imitations # {}, 15)
  BY <1>1, <1>2 DEF UrlScore
<1> QED BY <1>5, <1>6, <1>7 DEF Score

\* An institution is named, it threatens, the account is safe, somebody poses as it.
LEMMA ImpersonationGrows ==
  ASSUME NEW a, NEW b, Fewer(a, b)
  PROVE  ImpersonationScore(a) \in Nat /\ ImpersonationScore(b) \in Nat
         /\ ImpersonationScore(a) <= ImpersonationScore(b)
<1>1. \A list : Has(a, list) => Has(b, list)
  BY FoundGrows
<1> DEFINE account == {"safe account"}
           deposit == {"deposit"}
           posing == {"posing as"}
           named(m) == Score(Has(m, Institutions), 15)
           threatens(m) == Score(Has(m, Institutions) /\ Has(m, Coercion), 20)
           safe(m) == Score(Has(m, account) /\ Has(m, deposit), 15)
           poses(m) == Score(Has(m, posing), 30)
<1> HIDE DEF account, deposit, posing
<1>2. named(a) \in Nat /\ named(b) \in Nat /\ named(a) <= named(b)
  BY <1>1 DEF Score
<1>3. threatens(a) \in Nat /\ threatens(b) \in Nat /\ threatens(a) <= threatens(b)
  BY <1>1 DEF Score
<1>4. safe(a) \in Nat /\ safe(b) \in Nat /\ safe(a) <= safe(b)
  BY <1>1 DEF Score
<1>5. poses(a) \in Nat /\ poses(b) \in Nat /\ poses(a) <= poses(b)
  BY <1>1 DEF Score
<1>6. /\ ImpersonationScore(a) = named(a) + threatens(a) + safe(a) + poses(a)
      /\ ImpersonationScore(b) = named(b) + threatens(b) + safe(b) + poses(b)
  BY Zenon DEF ImpersonationScore, account, deposit, posing
<1> HIDE DEF named, threatens, safe, poses
<1> QED BY <1>2, <1>3, <1>4, <1>5, <1>6

\* A relative in need, or money asked for from a new number.
LEMMA FamilyGrows ==
  ASSUME NEW a, NEW b, Fewer(a, b)
  PROVE  FamilyScore(a) \in Nat /\ FamilyScore(b) \in Nat /\ FamilyScore(a) <= FamilyScore(b)
<1>1. /\ \A list : Has(a, list) => Has(b, list)
      /\ IsFamily(a) => IsFamily(b)
  BY FoundGrows DEF IsFamily
<1>2. PICK m : m = 30 + Score(Has(a, Transfer), 25) + Score(Has(a, Secrecy), 20)
  OBVIOUS
<1>3. PICK n : n = 30 + Score(Has(b, Transfer), 25) + Score(Has(b, Secrecy), 20)
  OBVIOUS
<1>4. m \in Nat /\ n \in Nat /\ m <= n
  BY <1>1, <1>2, <1>3 DEF Score
<1>5. /\ FamilyScore(a) = IF IsFamily(a) THEN (IF m <= 75 THEN m ELSE 75) ELSE 0
      /\ FamilyScore(b) = IF IsFamily(b) THEN (IF n <= 75 THEN n ELSE 75) ELSE 0
  BY <1>2, <1>3, <1>4, MinOfTwo DEF FamilyScore
<1> QED BY <1>1, <1>4, <1>5

\* The targets of a loan, the speed of it.
LEMMA LoanGrows ==
  ASSUME NEW a, NEW b, Fewer(a, b)
  PROVE  LoanScore(a) \in Nat /\ LoanScore(b) \in Nat /\ LoanScore(a) <= LoanScore(b)
<1>1. \A list : Has(a, list) => Has(b, list)
  BY FoundGrows
<1>2. PICK m : m = Score(Has(a, LoanTarget), 30) + Score(Has(a, LoanInstant), 20)
  OBVIOUS
<1>3. PICK n : n = Score(Has(b, LoanTarget), 30) + Score(Has(b, LoanInstant), 20)
  OBVIOUS
<1>4. m \in Nat /\ n \in Nat /\ m <= n
  BY <1>1, <1>2, <1>3 DEF Score
<1>5. /\ LoanScore(a) = (IF m <= 50 THEN m ELSE 50)
      /\ LoanScore(b) = (IF n <= 50 THEN n ELSE 50)
  BY <1>2, <1>3, <1>4, MinOfTwo DEF LoanScore
<1> QED BY <1>4, <1>5

\* Coins, and a deposit of them.
LEMMA CryptoGrows ==
  ASSUME NEW a, NEW b, Fewer(a, b)
  PROVE  CryptoScore(a) \in Nat /\ CryptoScore(b) \in Nat /\ CryptoScore(a) <= CryptoScore(b)
<1>1. \A list : Has(a, list) => Has(b, list)
  BY FoundGrows
<1>2. PICK m : m = Capped(Found(a, CryptoKeywords), 15, 30)
  OBVIOUS
<1>3. PICK n : n = Capped(Found(b, CryptoKeywords), 15, 30)
  OBVIOUS
<1>4. m \in Nat /\ n \in Nat /\ m <= n
  BY <1>2, <1>3, ListGrows, ListsAreFinite
<1> QED BY <1>1, <1>2, <1>3, <1>4 DEF CryptoScore, Score

\* A refund, and pressure or a link with it.
LEMMA RefundGrows ==
  ASSUME NEW a, NEW b, Fewer(a, b)
  PROVE  RefundScore(a) \in Nat /\ RefundScore(b) \in Nat /\ RefundScore(a) <= RefundScore(b)
<1>1. \A list : Has(a, list) => Has(b, list)
  BY FoundGrows
<1>2. PICK m : m = 20 + Score(Has(a, RefundPressure \cup RefundLure), 25)
  OBVIOUS
<1>3. PICK n : n = 20 + Score(Has(b, RefundPressure \cup RefundLure), 25)
  OBVIOUS
<1>4. m \in Nat /\ n \in Nat /\ m <= n
  BY <1>1, <1>2, <1>3 DEF Score
<1>5. /\ RefundScore(a) = Score(Has(a, RefundMention), IF m <= 45 THEN m ELSE 45)
      /\ RefundScore(b) = Score(Has(b, RefundMention), IF n <= 45 THEN n ELSE 45)
  <2>1. Min({m, 45}) = (IF m <= 45 THEN m ELSE 45) /\ Min({n, 45}) = IF n <= 45 THEN n ELSE 45
    BY <1>4, MinOfTwo
  <2>2. RefundScore(a) = Score(Has(a, RefundMention), Min({m, 45}))
    BY <1>2, Zenon DEF RefundScore
  <2>3. RefundScore(b) = Score(Has(b, RefundMention), Min({n, 45}))
    BY <1>3, Zenon DEF RefundScore
  <2> QED BY <2>1, <2>2, <2>3
<1> QED BY <1>1, <1>4, <1>5 DEF Score

\* A side job, and what is to be paid for it first.
LEMMA PartTimeGrows ==
  ASSUME NEW a, NEW b, Fewer(a, b)
  PROVE  PartTimeScore(a) \in Nat /\ PartTimeScore(b) \in Nat /\ PartTimeScore(a) <= PartTimeScore(b)
<1>1. \A list : Has(a, list) => Has(b, list)
  BY FoundGrows
<1>2. PICK m : m = 25 + Score(Has(a, UpfrontCost), 25)
  OBVIOUS
<1>3. PICK n : n = 25 + Score(Has(b, UpfrontCost), 25)
  OBVIOUS
<1>4. m \in Nat /\ n \in Nat /\ m <= n
  BY <1>1, <1>2, <1>3 DEF Score
<1>5. /\ PartTimeScore(a) = Score(Has(a, Recruit), IF m <= 50 THEN m ELSE 50)
      /\ PartTimeScore(b) = Score(Has(b, Recruit), IF n <= 50 THEN n ELSE 50)
  BY <1>2, <1>3, <1>4, MinOfTwo DEF PartTimeScore
<1> QED BY <1>1, <1>4, <1>5 DEF Score

\* All signals together.
LEMMA SignalsGrow ==
  ASSUME NEW a, NEW b, Fewer(a, b)
  PROVE  \A c \in DOMAIN Signals(b) :
            Signals(a)[c] \in Nat /\ Signals(b)[c] \in Nat /\ Signals(a)[c] <= Signals(b)[c]
<1>1. /\ \A m : DOMAIN Signals(m) = {"url", "highReturn", "sns", "advance", "impersonation", "family",
                                     "loan", "crypto", "refund", "partTime"}
  BY DEF Signals
<1>2. ASSUME NEW list \in {HighReturn, SnsLure, AdvancePayment}, NEW k \in Nat, NEW cap \in Nat
      PROVE  /\ Capped(Found(a, list), k, cap) \in Nat /\ Capped(Found(b, list), k, cap) \in Nat
             /\ Capped(Found(a, list), k, cap) <= Capped(Found(b, list), k, cap)
  <2>1. IsFiniteSet(list)
    BY <1>2, ListsAreFinite
  <2> QED BY <2>1, ListGrows
<1>3. \A c \in {"highReturn", "sns", "advance"} :
         Signals(a)[c] \in Nat /\ Signals(b)[c] \in Nat /\ Signals(a)[c] <= Signals(b)[c]
  <2>1. /\ Signals(a).highReturn = Capped(Found(a, HighReturn), 25, 50)
        /\ Signals(b).highReturn = Capped(Found(b, HighReturn), 25, 50)
        /\ Signals(a).sns = Capped(Found(a, SnsLure), 10, 20)
        /\ Signals(b).sns = Capped(Found(b, SnsLure), 10, 20)
        /\ Signals(a).advance = Capped(Found(a, AdvancePayment), 25, 50)
        /\ Signals(b).advance = Capped(Found(b, AdvancePayment), 25, 50)
    BY DEF Signals
  <2>2. /\ Capped(Found(a, HighReturn), 25, 50) \in Nat /\ Capped(Found(b, HighReturn), 25, 50) \in Nat
        /\ Capped(Found(a, HighReturn), 25, 50) <= Capped(Found(b, HighReturn), 25, 50)
    BY <1>2
  <2>3. /\ Capped(Found(a, SnsLure), 10, 20) \in Nat /\ Capped(Found(b, SnsLure), 10, 20) \in Nat
        /\ Capped(Found(a, SnsLure), 10, 20) <= Capped(Found(b, SnsLure), 10, 20)
    BY <1>2
  <2>4. /\ Capped(Found(a, AdvancePayment), 25, 50) \in Nat /\ Capped(Found(b, AdvancePayment), 25, 50) \in Nat
        /\ Capped(Found(a, AdvancePayment), 25, 50) <= Capped(Found(b, AdvancePayment), 25, 50)
    BY <1>2
  <2> QED BY <2>1, <2>2, <2>3, <2>4
<1>4. \A c \in {"url", "impersonation", "family", "loan", "crypto", "refund", "partTime"} :
         Signals(a)[c] \in Nat /\ Signals(b)[c] \in Nat /\ Signals(a)[c] <= Signals(b)[c]
  BY UrlGrows, ImpersonationGrows, FamilyGrows, LoanGrows, CryptoGrows, RefundGrows, PartTimeGrows
  DEF Signals
<1> QED BY <1>1, <1>3, <1>4

\* The sum, less the relief.
LEMMA TotalGrows ==
  ASSUME NEW a, NEW b, Fewer(a, b)
  PROVE  /\ Total(a) \in Nat /\ Total(b) \in Nat
         /\ Total(a) <= Total(b) + Score(Relieved(b), Relief)
         /\ Guides(a) \subseteq Guides(b)
<1> DEFINE sum(s) == s.url + s.highReturn + s.sns + s.advance + s.impersonation + s.family + s.loan
                       + s.crypto + s.refund + s.partTime
<1>1. PICK s : s = Signals(a)
  OBVIOUS
<1>2. PICK t : t = Signals(b)
  OBVIOUS
<1>3. DOMAIN t = {"url", "highReturn", "sns", "advance", "impersonation", "family", "loan", "crypto",
                  "refund", "partTime"}
  BY <1>2 DEF Signals
<1>4. \A c \in DOMAIN t : s[c] \in Nat /\ t[c] \in Nat /\ s[c] <= t[c]
  BY <1>1, <1>2, SignalsGrow
<1>5. sum(s) \in Nat /\ sum(t) \in Nat /\ sum(s) <= sum(t)
  BY <1>3, <1>4
<1>7. Score(Relieved(a), Relief) \in Nat /\ Score(Relieved(b), Relief) \in Nat
  BY DEF Score, Relief
<1>6. Total(a) = Max({0, sum(s) - Score(Relieved(a), Relief)})
      /\ Total(b) = Max({0, sum(t) - Score(Relieved(b), Relief)})
  <2> DEFINE left(r, relief) == r.url + r.highReturn + r.sns + r.advance + r.impersonation + r.family
                                  + r.loan + r.crypto + r.refund + r.partTime - relief
  <2>1. Total(a) = Max({0, left(s, Score(Relieved(a), Relief))})
    BY <1>1, Zenon DEF Total
  <2>2. Total(b) = Max({0, left(t, Score(Relieved(b), Relief))})
    BY <1>2, Zenon DEF Total
  <2>3. /\ left(s, Score(Relieved(a), Relief)) = sum(s) - Score(Relieved(a), Relief)
        /\ left(t, Score(Relieved(b), Relief)) = sum(t) - Score(Relieved(b), Relief)
    BY <1>3, <1>4, <1>7
  <2> QED BY <2>1, <2>2, <2>3
<1>8. Guides(a) \subseteq Guides(b)
  <2>1. Guided \subseteq DOMAIN t
    BY <1>3 DEF Guided
  <2> QED BY <1>1, <1>2, <1>4, <2>1 DEF Guides
<1>9. PICK m : m = sum(s)
  OBVIOUS
<1>10. PICK n : n = sum(t)
  OBVIOUS
<1> HIDE DEF sum
<1>11. /\ Total(a) = (IF m - Score(Relieved(a), Relief) >= 0 THEN m - Score(Relieved(a), Relief) ELSE 0)
       /\ Total(b) = (IF n - Score(Relieved(b), Relief) >= 0 THEN n - Score(Relieved(b), Relief) ELSE 0)
  BY <1>5, <1>6, <1>7, <1>9, <1>10, MaxOfTwo
<1> QED BY <1>5, <1>7, <1>8, <1>9, <1>10, <1>11

\* The report is that of the message.
FraudInv ==
    /\ fraudStep \in {"received", "scanned"} => text \in [phrases : SUBSET Phrases, hosts : SUBSET Hosts]
    /\ fraudStep = "scanned" => report = Report(text)

\* Without one of its phrases or hosts a message would not be judged more harshly, nor come with
\* more advice, save for the relief of official hosts (MoreSignsNeverSofter): for all messages
\* that can be made of the phrases and hosts, scan_message() and format_report().
THEOREM MoreSigns == FraudSpec => []MoreSignsNeverSofter
<1>1. FraudInit => FraudInv
  BY DEF FraudInit, FraudInv
<1>2. FraudInv /\ [FraudNext]_fraudVars => FraudInv'
  <2> SUFFICES ASSUME FraudInv, [FraudNext]_fraudVars PROVE FraudInv'
    OBVIOUS
  <2>1. CASE Receive
    BY <2>1, PastedAssumption DEF Receive, FraudInv
  <2>2. CASE Scan
    BY <2>2 DEF Scan, FraudInv, Report
  <2>3. CASE Enrich
    BY <2>3 DEF Enrich, FraudInv
  <2>4. CASE UNCHANGED fraudVars
    BY <2>4 DEF fraudVars, FraudInv, Report
  <2> QED BY <2>1, <2>2, <2>3, <2>4 DEF FraudNext
<1>3. FraudInv => MoreSignsNeverSofter
  <2> SUFFICES ASSUME FraudInv, fraudStep = "scanned" PROVE MoreSignsNeverSofter
    BY DEF MoreSignsNeverSofter
  <2>1. report.score = Total(text) /\ report.verdict = Verdict(Total(text)) /\ report.guides = Guides(text)
    BY DEF FraudInv, Report
  <2>2. ASSUME NEW m, Fewer(m, text)
        PROVE  /\ Total(m) <= report.score + Score(Relieved(text), Relief)
               /\ ~Relieved(text) => Harsher[Verdict(Total(m))] <= Harsher[report.verdict]
               /\ Guides(m) \subseteq report.guides
    <3>1. /\ Total(m) \in Nat /\ Total(text) \in Nat
          /\ Total(m) <= Total(text) + Score(Relieved(text), Relief)
          /\ Guides(m) \subseteq Guides(text)
      BY <2>2, TotalGrows
    <3>2. ~Relieved(text) => Total(m) <= Total(text)
      BY <3>1 DEF Score
    <3>3. \A x, y \in Nat : x <= y => Harsher[Verdict(x)] <= Harsher[Verdict(y)]
      BY DEF Harsher, Verdict
    <3> QED BY <2>1, <3>1, <3>2, <3>3
  <2>3. /\ \A p : Fewer([text EXCEPT !.phrases = @ \ {p}], text)
        /\ \A h : Fewer([text EXCEPT !.hosts = @ \ {h}], text)
    BY DEF FraudInv, Fewer
  <2> QED BY <2>2, <2>3 DEF MoreSignsNeverSofter
<1> QED BY <1>1, <1>2, <1>3, PTL DEF FraudSpec

(* -------------------------------- the research ------------------------------- *)

Excerpts == [page : Nat, at : {"official", "elsewhere", "redirected", "failed", "no link", "not allowed",
                               "pending", "not installed", "no body"}]

\* What may stand under the i-th record in the end.
ItsOwn(s, i, d) ==
    /\ d.at # "pending"
    /\ Labelled(d) =>
          \/ d.page = i /\ d.at = "official"
          \/ records[s][i] = "taxlaw" /\ browser # "off" /\ d.page \in {0, i}
          \/ d = Note("redirected")

\* What the browser has for the pages that are left to it.
PagesOK(s) ==
    /\ Len(rendered[s]) <= Len(pending[s])
    /\ \A j \in DOMAIN pending[s] : records[s][pending[s][j]] = "taxlaw" /\ browser # "off"
    /\ \A j \in DOMAIN rendered[s] :
          rendered[s][j].page \in {0, pending[s][j]} /\ rendered[s][j].at # "pending"

\* Before the browser is closed: what is fetched is its own, what is not is left to it.
DetailsOK(s) ==
    \A i \in DOMAIN detail[s] :
        \/ ItsOwn(s, i, detail[s][i])
        \/ detail[s][i].at = "pending" /\ \E j \in DOMAIN pending[s] : pending[s][j] = i

SectionOK(s) ==
    /\ thread[s] \in {"ask", "again", "details", "render", "close", "done", "raised"}
    /\ records[s] \in Seq({"taxlaw", "law", "other", "none"}) /\ pending[s] \in Seq(Nat)
    /\ position[s] \in Nat \ {0}
    /\ detail[s] \in Seq(Excerpts) /\ rendered[s] \in Seq(Excerpts)
    /\ thread[s] \in {"ask", "again"} => /\ records[s] = <<>> /\ pending[s] = <<>> /\ detail[s] = <<>>
                                         /\ rendered[s] = <<>> /\ position[s] = 1
    /\ thread[s] = "details" => /\ position[s] <= Top(records[s]) + 1
                                /\ Len(detail[s]) = position[s] - 1 /\ rendered[s] = <<>>
    /\ thread[s] \in {"render", "close", "raised"} =>
          Len(detail[s]) = Top(records[s]) /\ pending[s] # <<>>
    /\ thread[s] = "render" => position[s] <= Len(pending[s]) /\ Len(rendered[s]) = position[s] - 1
    /\ thread[s] = "close" => Len(rendered[s]) = Len(pending[s])
    /\ thread[s] = "raised" => browser = "ready"
    /\ thread[s] = "done" => /\ Len(detail[s]) = Top(records[s])
                             /\ \A i \in DOMAIN detail[s] : ItsOwn(s, i, detail[s][i])
    /\ PagesOK(s)
    /\ thread[s] # "done" => DetailsOK(s)

\* The functions of the sections, and the notes that are written when all threads have ended.
ResearchInv ==
    /\ DOMAIN thread = Sections /\ DOMAIN records = Sections /\ DOMAIN position = Sections
    /\ DOMAIN pending = Sections /\ DOMAIN rendered = Sections /\ DOMAIN detail = Sections
    /\ \A s \in Sections : SectionOK(s)
    /\ notes \in {"none", "sections", "failed"}
    /\ notes = "sections" => \A s \in Sections : thread[s] = "done"
    /\ notes = "failed" => /\ \A s \in Sections : thread[s] \in {"done", "raised"}
                           /\ \E s \in Sections : thread[s] = "raised"

\* What a step of another section leaves alone.
Elsewhere(s) ==
    /\ browser' = browser /\ notes' = notes
    /\ DOMAIN thread' = Sections /\ DOMAIN records' = Sections /\ DOMAIN position' = Sections
    /\ DOMAIN pending' = Sections /\ DOMAIN rendered' = Sections /\ DOMAIN detail' = Sections
    /\ \A r \in Sections \ {s} :
          /\ thread'[r] = thread[r] /\ records'[r] = records[r] /\ position'[r] = position[r]
          /\ pending'[r] = pending[r] /\ rendered'[r] = rendered[r] /\ detail'[r] = detail[r]

\* A section whose thread has not ended takes a step.
LEMMA SectionSteps ==
  ASSUME ResearchInv, NEW s \in Sections, thread[s] \notin {"done", "raised"}, Elsewhere(s), SectionOK(s)'
  PROVE  ResearchInv'
<1>1. ASSUME NEW r \in Sections \ {s} PROVE SectionOK(r)'
  <2>1. /\ thread'[r] = thread[r] /\ records'[r] = records[r] /\ position'[r] = position[r]
        /\ pending'[r] = pending[r] /\ rendered'[r] = rendered[r] /\ detail'[r] = detail[r]
        /\ browser' = browser /\ SectionOK(r)
    BY DEF Elsewhere, ResearchInv
  <2> QED BY <2>1 DEF SectionOK, ItsOwn, PagesOK, DetailsOK
<1>2. notes = "none"
  BY DEF ResearchInv
<1> QED BY <1>1, <1>2 DEF ResearchInv, Elsewhere

\* How many records are shown.
LEMMA TopOfList ==
  ASSUME NEW list \in Seq({"taxlaw", "law", "other", "none"})
  PROVE  Top(list) \in 0 .. Len(list) /\ Top(list) \in Nat /\ (list = <<>> => Top(list) = 0)
BY ResearchAssumption DEF Top

\* The searches: nothing is shown yet.
LEMMA AskingKeeps ==
  ASSUME ResearchInv, NEW s \in Sections, AskTavily(s) \/ AskNaver(s) \/ AskLaw(s)
  PROVE  ResearchInv'
<1>1. /\ thread[s] \in {"ask", "again"} /\ SectionOK(s)
      /\ UNCHANGED <<browser, position, pending, rendered, detail, notes>>
  BY DEF AskTavily, AskNaver, AskLaw, lawVars, ResearchInv
<1>2. PICK next \in {"again", "done", "details"} : thread' = [thread EXCEPT ![s] = next]
  BY DEF AskTavily, AskNaver, AskLaw
<1>3. PICK list \in Seq({"taxlaw", "law", "other", "none"}) :
         /\ DOMAIN records' = Sections /\ records'[s] = list
         /\ \A r \in Sections \ {s} : records'[r] = records[r]
         /\ next = "done" => Top(list) = 0
         /\ next = "again" => list = <<>>
  <2>1. records[s] = <<>> /\ <<>> \in Seq({"taxlaw", "law", "other", "none"}) /\ DOMAIN records = Sections
    BY <1>1 DEF SectionOK, ResearchInv
  <2>2. CASE UNCHANGED records
    BY <2>1, <2>2, TopOfList
  <2>3. CASE AskLaw(s) /\ ~UNCHANGED records
    <3>1. PICK list \in Lists : /\ records' = [records EXCEPT ![s] = list]
                                /\ thread' = [thread EXCEPT ![s] = IF Top(list) = 0 THEN "done" ELSE "details"]
      BY <2>3 DEF AskLaw
    <3>2. next = IF Top(list) = 0 THEN "done" ELSE "details"
      BY <1>2, <3>1 DEF ResearchInv
    <3> QED BY <2>1, <3>1, <3>2, ResearchAssumption
  <2> QED BY <2>2, <2>3 DEF AskTavily, AskNaver, lawVars
<1>4. Elsewhere(s) /\ thread'[s] = next /\ records'[s] = list
  BY <1>1, <1>2, <1>3 DEF Elsewhere, ResearchInv
<1>5. pending[s] = <<>> /\ detail[s] = <<>> /\ rendered[s] = <<>> /\ position[s] = 1
  BY <1>1 DEF SectionOK
<1>6. SectionOK(s)'
  BY <1>1, <1>3, <1>4, <1>5, TopOfList DEF SectionOK, PagesOK, DetailsOK
<1> QED BY <1>1, <1>4, <1>6, SectionSteps

\* Notes, and texts of pages.
LEMMA NoteIs ==
  /\ \A t : Note(t).page = 0 /\ Note(t).at = t
  /\ \A t \in {"redirected", "failed", "no link", "not allowed", "pending", "not installed", "no body"} :
        Note(t) \in Excerpts
  /\ \A n \in Nat : \A t \in {"official", "elsewhere"} : [page |-> n, at |-> t] \in Excerpts
BY DEF Note, Excerpts

\* A record is looked up, or left to the browser.
LEMMA ViewDetailKeeps ==
  ASSUME ResearchInv, NEW s \in Sections, ViewDetail(s)
  PROVE  ResearchInv'
<1>1. PICK i : i = position[s]
  OBVIOUS
<1>2. PICK link : link = records[s][i]
  OBVIOUS
<1>3. /\ thread[s] = "details" /\ i <= Top(records[s]) /\ SectionOK(s)
      /\ position' = [position EXCEPT ![s] = i + 1]
      /\ UNCHANGED <<browser, thread, records, rendered, notes>>
  BY <1>1 DEF ViewDetail, ResearchInv
<1>4. /\ i \in Nat \ {0} /\ Len(detail[s]) = i - 1 /\ rendered[s] = <<>>
      /\ records[s] \in Seq({"taxlaw", "law", "other", "none"})
      /\ pending[s] \in Seq(Nat) /\ detail[s] \in Seq(Excerpts) /\ PagesOK(s) /\ DetailsOK(s)
  BY <1>1, <1>3 DEF SectionOK
<1>5. i \in DOMAIN records[s]
  BY <1>3, <1>4, TopOfList
<1>6. ASSUME NEW d \in Excerpts, NEW more \in Seq(Nat),
             detail' = [detail EXCEPT ![s] = Append(@, d)], DOMAIN pending' = Sections, pending'[s] = more,
             \A r \in Sections \ {s} : pending'[r] = pending[r],
             \A j \in DOMAIN pending[s] : j \in DOMAIN more /\ more[j] = pending[s][j],
             \A j \in DOMAIN more : records[s][more[j]] = "taxlaw" /\ browser # "off",
             ItsOwn(s, i, d) \/ (d.at = "pending" /\ \E j \in DOMAIN more : more[j] = i)
      PROVE  ResearchInv'
  <2>1. PICK longer : longer = Append(detail[s], d)
    OBVIOUS
  <2>2. /\ longer \in Seq(Excerpts) /\ Len(longer) = i
        /\ \A k \in DOMAIN longer : (k \in DOMAIN detail[s] /\ longer[k] = detail[s][k]) \/ (k = i /\ longer[k] = d)
    <3>1. Len(detail[s]) + 1 = i
      BY <1>4
    <3> QED BY <1>4, <2>1, <3>1, AppendIs
  <2>3. Elsewhere(s) /\ position'[s] = i + 1 /\ detail'[s] = longer /\ pending'[s] = more
    BY <1>3, <1>6, <2>1 DEF Elsewhere, ResearchInv
  <2>4. \A k \in DOMAIN longer : \/ ItsOwn(s, k, longer[k])
                                 \/ longer[k].at = "pending" /\ \E j \in DOMAIN more : more[j] = k
    <3>1. ASSUME NEW k \in DOMAIN detail[s], longer[k] = detail[s][k]
          PROVE  \/ ItsOwn(s, k, longer[k])
                 \/ longer[k].at = "pending" /\ \E j \in DOMAIN more : more[j] = k
      <4>1. \/ ItsOwn(s, k, detail[s][k])
            \/ detail[s][k].at = "pending" /\ \E j \in DOMAIN pending[s] : pending[s][j] = k
        BY <1>4 DEF DetailsOK
      <4> QED BY <1>6, <3>1, <4>1
    <3> QED BY <1>6, <2>2, <3>1
  <2>5. DetailsOK(s)'
    BY <1>3, <2>3, <2>4 DEF DetailsOK, ItsOwn
  <2>6. PagesOK(s)'
    BY <1>3, <1>4, <1>6, <2>3 DEF PagesOK
  <2>7. SectionOK(s)'
    <3>1. records'[s] = records[s] /\ rendered'[s] = rendered[s] /\ thread'[s] = "details"
      BY <1>3
    <3>2. i + 1 \in Nat \ {0} /\ i + 1 <= Top(records[s]) + 1 /\ Len(longer) = (i + 1) - 1
      BY <1>3, <1>4, <2>2, TopOfList
    <3> QED BY <1>4, <1>6, <2>2, <2>3, <2>5, <2>6, <3>1, <3>2, EmptySeq DEF SectionOK
  <2> QED BY <1>3, <2>3, <2>7, SectionSteps
<1>7. CASE link = "taxlaw" /\ browser # "off"
  <2>1. PICK more : more = Append(pending[s], i)
    OBVIOUS
  <2>2. DOMAIN pending' = Sections /\ pending'[s] = more /\ (\A r \in Sections \ {s} : pending'[r] = pending[r])
        /\ detail' = [detail EXCEPT ![s] = Append(@, Note("pending"))]
    BY <1>1, <1>2, <1>7, <2>1 DEF ViewDetail, ResearchInv
  <2>3. /\ more \in Seq(Nat) /\ \A j \in DOMAIN pending[s] : j \in DOMAIN more /\ more[j] = pending[s][j]
        /\ \A j \in DOMAIN more : (j \in DOMAIN pending[s] /\ more[j] = pending[s][j]) \/ more[j] = i
        /\ \E j \in DOMAIN more : more[j] = i
    <3>1. pending[s] \in Seq(Nat) /\ i \in Nat
      BY <1>4
    <3>2. /\ more \in Seq(Nat) /\ more[Len(pending[s]) + 1] = i /\ Len(pending[s]) + 1 \in DOMAIN more
          /\ \A j \in DOMAIN pending[s] : j \in DOMAIN more /\ more[j] = pending[s][j]
          /\ \A j \in DOMAIN more : j \in DOMAIN pending[s] \/ j = Len(pending[s]) + 1
      BY <2>1, <3>1, AppendIs
    <3> QED BY <3>2
  <2>4. \A j \in DOMAIN more : records[s][more[j]] = "taxlaw" /\ browser # "off"
    BY <1>2, <1>4, <1>7, <2>3 DEF PagesOK
  <2>5. Note("pending") \in Excerpts /\ Note("pending").at = "pending"
    BY NoteIs
  <2> QED BY <1>6, <2>2, <2>3, <2>4, <2>5
<1>8. CASE ~(link = "taxlaw" /\ browser # "off")
  <2>1. PICK d \in DetailFor(link, i) : detail' = [detail EXCEPT ![s] = Append(@, d)] /\ UNCHANGED pending
    BY <1>1, <1>2, <1>8 DEF ViewDetail
  <2>2. DOMAIN pending' = Sections /\ pending' = pending
    BY <2>1 DEF ResearchInv
  <2>3. \/ d = [page |-> i, at |-> "official"]
        \/ d = Note("redirected") \/ d = Note("failed") \/ d = Note("no link") \/ d = Note("not allowed")
    BY DEF DetailFor, Fetched
  <2>4. d \in Excerpts
    BY <1>4, <2>3, NoteIs
  <2>6. \/ d.page = i /\ d.at = "official"
        \/ d = Note("redirected") /\ d.at = "redirected"
        \/ d.at \in {"failed", "no link", "not allowed"}
    <3>1. CASE d = [page |-> i, at |-> "official"]
      BY <3>1
    <3>2. CASE d = Note("redirected")
      BY <3>2 DEF Note
    <3>3. CASE d = Note("failed")
      BY <3>3 DEF Note
    <3>4. CASE d = Note("no link")
      BY <3>4 DEF Note
    <3>5. CASE d = Note("not allowed")
      BY <3>5 DEF Note
    <3> QED BY <2>3, <3>1, <3>2, <3>3, <3>4, <3>5
  <2>5. ItsOwn(s, i, d)
    BY <2>6 DEF ItsOwn, Labelled
  <2> QED BY <1>4, <1>6, <2>1, <2>2, <2>4, <2>5 DEF PagesOK
<1> QED BY <1>7, <1>8

\* After the last record: the section is complete, or the browser is to open.
LEMMA OpenBrowserKeeps ==
  ASSUME ResearchInv, NEW s \in Sections, OpenBrowser(s)
  PROVE  ResearchInv'
<1>1. /\ thread[s] = "details" /\ position[s] > Top(records[s]) /\ SectionOK(s)
      /\ UNCHANGED <<browser, records, pending, detail, notes>>
  BY DEF OpenBrowser, ResearchInv
<1>2. /\ position[s] \in Nat \ {0} /\ Len(detail[s]) = position[s] - 1 /\ position[s] <= Top(records[s]) + 1
      /\ rendered[s] = <<>> /\ records[s] \in Seq({"taxlaw", "law", "other", "none"})
      /\ pending[s] \in Seq(Nat) /\ detail[s] \in Seq(Excerpts) /\ PagesOK(s) /\ DetailsOK(s)
  BY <1>1 DEF SectionOK
<1>3. Top(records[s]) \in Nat
  BY <1>2, TopOfList
<1>4. Len(detail[s]) = Top(records[s])
  BY <1>1, <1>2, <1>3
<1>5. CASE /\ pending[s] = <<>> /\ thread' = [thread EXCEPT ![s] = "done"]
           /\ UNCHANGED <<position, rendered>>
  <2>1. Elsewhere(s) /\ thread'[s] = "done"
    BY <1>1, <1>5 DEF Elsewhere, ResearchInv
  <2>2. \A i \in DOMAIN detail[s] : ItsOwn(s, i, detail[s][i])
    BY <1>2, <1>5 DEF DetailsOK
  <2>3. SectionOK(s)'
    BY <1>1, <1>2, <1>4, <1>5, <2>1, <2>2 DEF SectionOK, PagesOK, ItsOwn
  <2> QED BY <1>1, <2>1, <2>3, SectionSteps
<1>6. CASE /\ pending[s] # <<>> /\ browser = "missing"
           /\ rendered' = [rendered EXCEPT ![s] = [j \in DOMAIN pending[s] |-> Note("not installed")]]
           /\ thread' = [thread EXCEPT ![s] = "close"] /\ UNCHANGED position
  <2>1. PICK got : got = [j \in DOMAIN pending[s] |-> Note("not installed")]
    OBVIOUS
  <2>2. Elsewhere(s) /\ thread'[s] = "close" /\ rendered'[s] = got
    BY <1>1, <1>6, <2>1 DEF Elsewhere, ResearchInv
  <2>3. /\ got \in Seq(Excerpts) /\ Len(got) = Len(pending[s]) /\ DOMAIN got = DOMAIN pending[s]
        /\ \A j \in DOMAIN got : got[j].page = 0 /\ got[j].at # "pending"
    <3>0. PICK n : n = Note("not installed")
      OBVIOUS
    <3>1. Len(pending[s]) \in Nat /\ DOMAIN pending[s] = 1 .. Len(pending[s])
      BY <1>2
    <3>2. n \in Excerpts /\ n.page = 0 /\ n.at # "pending"
      BY <3>0 DEF Note, Excerpts
    <3>3. got = [j \in 1 .. Len(pending[s]) |-> n]
      BY <2>1, <3>0, <3>1
    <3> QED BY <3>1, <3>2, <3>3
  <2>4. PagesOK(s)'
    BY <1>1, <1>2, <2>2, <2>3 DEF PagesOK
  <2>5. DetailsOK(s)'
    BY <1>1, <1>2 DEF DetailsOK, ItsOwn
  <2>6. SectionOK(s)'
    BY <1>1, <1>2, <1>4, <1>6, <2>2, <2>3, <2>4, <2>5 DEF SectionOK
  <2> QED BY <1>1, <2>2, <2>6, SectionSteps
<1>7. CASE /\ pending[s] # <<>> /\ browser = "ready" /\ thread' = [thread EXCEPT ![s] = "render"]
           /\ position' = [position EXCEPT ![s] = 1] /\ UNCHANGED rendered
  <2>1. Elsewhere(s) /\ thread'[s] = "render" /\ position'[s] = 1 /\ rendered'[s] = <<>>
    BY <1>1, <1>2, <1>7 DEF Elsewhere, ResearchInv
  <2>2. Len(pending[s]) >= 1
    BY <1>2, <1>7, EmptySeq
  <2>3. PagesOK(s)' /\ DetailsOK(s)'
    BY <1>1, <1>2, <2>1 DEF PagesOK, DetailsOK, ItsOwn
  <2>4. SectionOK(s)'
    <3>1. records'[s] = records[s] /\ pending'[s] = pending[s] /\ detail'[s] = detail[s]
      BY <1>1
    <3>2. 1 <= Len(pending[s]) /\ Len(rendered'[s]) = 1 - 1 /\ 1 \in Nat \ {0} /\ rendered'[s] \in Seq(Excerpts)
      BY <2>1, <2>2, EmptySeq
    <3> QED BY <1>2, <1>4, <1>7, <2>1, <2>3, <3>1, <3>2 DEF SectionOK
  <2> QED BY <1>1, <2>1, <2>4, SectionSteps
<1>8. CASE /\ pending[s] # <<>> /\ browser = "ready" /\ thread' = [thread EXCEPT ![s] = "raised"]
           /\ UNCHANGED <<position, rendered>>
  <2>1. Elsewhere(s) /\ thread'[s] = "raised" /\ position'[s] = position[s] /\ rendered'[s] = <<>>
    BY <1>1, <1>2, <1>8 DEF Elsewhere, ResearchInv
  <2>2. PagesOK(s)' /\ DetailsOK(s)'
    BY <1>1, <1>2, <2>1 DEF PagesOK, DetailsOK, ItsOwn
  <2>3. SectionOK(s)'
    BY <1>1, <1>2, <1>4, <1>8, <2>1, <2>2, EmptySeq DEF SectionOK
  <2> QED BY <1>1, <2>1, <2>3, SectionSteps
<1> QED BY <1>5, <1>6, <1>7, <1>8 DEF OpenBrowser

\* A page is read, or not.
LEMMA RenderKeeps ==
  ASSUME ResearchInv, NEW s \in Sections, Render(s)
  PROVE  ResearchInv'
<1>1. PICK j : j = position[s]
  OBVIOUS
<1>2. PICK next : next = IF j = Len(pending[s]) THEN "close" ELSE "render"
  OBVIOUS
<1>3. /\ thread[s] = "render" /\ SectionOK(s) /\ UNCHANGED <<browser, records, pending, detail, notes>>
      /\ position' = [position EXCEPT ![s] = j + 1] /\ thread' = [thread EXCEPT ![s] = next]
  BY <1>1, <1>2 DEF Render, ResearchInv
<1>4. PICK got : /\ \/ got = [page |-> pending[s][j], at |-> "official"]
                     \/ got = [page |-> pending[s][j], at |-> "elsewhere"]
                     \/ got = Note("no body")
                     \/ got = Note("failed")
                  /\ rendered' = [rendered EXCEPT ![s] = Append(@, got)]
  BY <1>1 DEF Render
<1>5. /\ j \in Nat \ {0} /\ j <= Len(pending[s]) /\ Len(rendered[s]) = j - 1 /\ pending[s] # <<>>
      /\ Len(detail[s]) = Top(records[s]) /\ pending[s] \in Seq(Nat) /\ rendered[s] \in Seq(Excerpts)
      /\ detail[s] \in Seq(Excerpts) /\ records[s] \in Seq({"taxlaw", "law", "other", "none"})
      /\ PagesOK(s) /\ DetailsOK(s)
  BY <1>1, <1>3 DEF SectionOK
<1>l. Len(pending[s]) \in Nat /\ j \in Nat \ {0} /\ j <= Len(pending[s]) /\ Len(rendered[s]) = j - 1
  <2>1. pending[s] \in Seq(Nat)
    BY <1>5
  <2>2. j \in Nat \ {0} /\ j <= Len(pending[s]) /\ Len(rendered[s]) = j - 1
    BY <1>5
  <2> QED BY <2>1, <2>2
<1>6. j \in DOMAIN pending[s] /\ pending[s][j] \in Nat
  BY <1>5, ElementIs
<1>7. got \in Excerpts /\ got.page \in {0, pending[s][j]} /\ got.at # "pending"
  <2>1. CASE got = Note("no body")
    BY <2>1 DEF Note, Excerpts
  <2>2. CASE got = Note("failed")
    BY <2>2 DEF Note, Excerpts
  <2>3. CASE got = [page |-> pending[s][j], at |-> "official"]
    BY <1>6, <2>3 DEF Excerpts
  <2>4. CASE got = [page |-> pending[s][j], at |-> "elsewhere"]
    BY <1>6, <2>4 DEF Excerpts
  <2> QED BY <1>4, <2>1, <2>2, <2>3, <2>4
<1>8. PICK longer : longer = Append(rendered[s], got)
  OBVIOUS
<1>9. /\ longer \in Seq(Excerpts) /\ Len(longer) = j
      /\ \A k \in DOMAIN longer : (k \in DOMAIN rendered[s] /\ longer[k] = rendered[s][k]) \/ (k = j /\ longer[k] = got)
  <2>1. Len(rendered[s]) + 1 = j
    BY <1>l
  <2>2. rendered[s] \in Seq(Excerpts)
    BY <1>5
  <2> QED BY <1>7, <1>8, <2>1, <2>2, AppendIs
<1>10. Elsewhere(s) /\ thread'[s] = next /\ position'[s] = j + 1 /\ rendered'[s] = longer
  BY <1>3, <1>4, <1>8 DEF Elsewhere, ResearchInv
<1>11. \A k \in DOMAIN longer : longer[k].page \in {0, pending[s][k]} /\ longer[k].at # "pending"
  BY <1>5, <1>7, <1>9 DEF PagesOK
<1>12. PagesOK(s)'
  BY <1>3, <1>5, <1>9, <1>10, <1>11 DEF PagesOK
<1>13. DetailsOK(s)'
  BY <1>3, <1>5 DEF DetailsOK, ItsOwn
<1>14. next = "close" => Len(longer) = Len(pending[s])
  BY <1>2, <1>9
<1>15. next = "render" => j + 1 <= Len(pending[s])
  BY <1>2, <1>l
<1>16. SectionOK(s)'
  <2>1. records'[s] = records[s] /\ pending'[s] = pending[s] /\ detail'[s] = detail[s]
    BY <1>3
  <2>2. j + 1 \in Nat \ {0} /\ Len(longer) = (j + 1) - 1 /\ next \in {"close", "render"}
    BY <1>2, <1>l, <1>9
  <2> QED BY <1>5, <1>9, <1>10, <1>12, <1>13, <1>14, <1>15, <2>1, <2>2 DEF SectionOK
<1> QED BY <1>3, <1>10, <1>16, SectionSteps

\* What the browser got goes under the records it was for.
LEMMA CloseBrowserKeeps ==
  ASSUME ResearchInv, NEW s \in Sections, CloseBrowser(s)
  PROVE  ResearchInv'
<1>1. PICK all : all = Paired(detail[s], pending[s], rendered[s])
  OBVIOUS
<1>2. /\ thread[s] = "close" /\ SectionOK(s) /\ UNCHANGED <<browser, records, position, pending, rendered, notes>>
      /\ detail' = [detail EXCEPT ![s] = all] /\ thread' = [thread EXCEPT ![s] = "done"]
  BY <1>1 DEF CloseBrowser, ResearchInv
<1>3. /\ Len(rendered[s]) = Len(pending[s]) /\ position[s] \in Nat \ {0}
      /\ Len(detail[s]) = Top(records[s]) /\ pending[s] \in Seq(Nat) /\ rendered[s] \in Seq(Excerpts)
      /\ detail[s] \in Seq(Excerpts) /\ records[s] \in Seq({"taxlaw", "law", "other", "none"})
      /\ PagesOK(s) /\ DetailsOK(s)
  BY <1>2 DEF SectionOK
<1>4. /\ DOMAIN all = DOMAIN detail[s]
      /\ \A i \in DOMAIN detail[s] :
            \/ \E j \in DOMAIN pending[s] : pending[s][j] = i /\ all[i] = rendered[s][j]
            \/ (\A j \in DOMAIN pending[s] : pending[s][j] # i) /\ all[i] = detail[s][i]
  <2>1. ASSUME NEW i \in DOMAIN detail[s], \E j \in DOMAIN pending[s] : pending[s][j] = i
        PROVE  \E j \in DOMAIN pending[s] : pending[s][j] = i /\ all[i] = rendered[s][j]
    <3>1. PICK j : j = CHOOSE k \in DOMAIN pending[s] : pending[s][k] = i
      OBVIOUS
    <3>2. j \in DOMAIN pending[s] /\ pending[s][j] = i
      BY <2>1, <3>1
    <3>3. all[i] = rendered[s][j]
      BY <1>1, <2>1, <3>1 DEF Paired
    <3> QED BY <3>2, <3>3
  <2>2. ASSUME NEW i \in DOMAIN detail[s], ~\E j \in DOMAIN pending[s] : pending[s][j] = i
        PROVE  all[i] = detail[s][i]
    BY <1>1, <2>2 DEF Paired
  <2>3. DOMAIN all = DOMAIN detail[s]
    BY <1>1 DEF Paired
  <2> QED BY <2>1, <2>2, <2>3
<1>5. DOMAIN rendered[s] = DOMAIN pending[s] /\ DOMAIN detail[s] = 1 .. Len(detail[s]) /\ Len(detail[s]) \in Nat
  BY <1>3
<1>6. ASSUME NEW i \in DOMAIN all PROVE all[i] \in Excerpts /\ ItsOwn(s, i, all[i])
  <2>1. CASE \E j \in DOMAIN pending[s] : pending[s][j] = i /\ all[i] = rendered[s][j]
    <3>1. PICK j \in DOMAIN pending[s] : pending[s][j] = i /\ all[i] = rendered[s][j]
      BY <2>1
    <3>2. /\ records[s][i] = "taxlaw" /\ browser # "off"
          /\ all[i].page \in {0, i} /\ all[i].at # "pending" /\ all[i] \in Excerpts
      BY <1>3, <1>5, <3>1 DEF PagesOK
    <3> QED BY <3>2 DEF ItsOwn
  <2>2. CASE (\A j \in DOMAIN pending[s] : pending[s][j] # i) /\ all[i] = detail[s][i]
    BY <1>3, <1>4, <2>2 DEF DetailsOK
  <2> QED BY <1>4, <2>1, <2>2
<1>7. all \in Seq(Excerpts) /\ Len(all) = Len(detail[s])
  <2>1. all = [i \in 1 .. Len(detail[s]) |-> all[i]]
    BY <1>1, <1>4, <1>5 DEF Paired
  <2> QED BY <1>4, <1>5, <1>6, <2>1
<1>8. Elsewhere(s) /\ thread'[s] = "done" /\ detail'[s] = all
  BY <1>2 DEF Elsewhere, ResearchInv
<1>9. PagesOK(s)' /\ \A i \in DOMAIN all : ItsOwn(s, i, all[i])'
  BY <1>2, <1>3, <1>6 DEF PagesOK, ItsOwn
<1>10. SectionOK(s)'
  BY <1>2, <1>3, <1>7, <1>8, <1>9 DEF SectionOK, ItsOwn
<1> QED BY <1>2, <1>8, <1>10, SectionSteps

\* Under each record that is shown stands what was found on its own page, also where some pages
\* come from the browser later, and notes are lost only where the browser does not start
\* (DetailsOfTheirOwn): for any lists, sections and number of records, nts_law.py.
THEOREM DetailsAreTheirOwn == ResearchSpec => []DetailsOfTheirOwn
<1>1. ResearchInit => ResearchInv
  <2> SUFFICES ASSUME ResearchInit PROVE ResearchInv
    OBVIOUS
  <2>1. ASSUME NEW s \in Sections PROVE SectionOK(s)
    <3>1. /\ thread[s] = "ask" /\ records[s] = <<>> /\ position[s] = 1 /\ pending[s] = <<>>
          /\ rendered[s] = <<>> /\ detail[s] = <<>>
      BY DEF ResearchInit
    <3> QED BY <3>1 DEF SectionOK, PagesOK, DetailsOK
  <2> QED BY <2>1 DEF ResearchInit, ResearchInv
<1>2. ResearchInv /\ [ResearchNext]_researchVars => ResearchInv'
  <2> SUFFICES ASSUME ResearchInv, [ResearchNext]_researchVars PROVE ResearchInv'
    OBVIOUS
  <2>1. ASSUME UNCHANGED <<browser, thread, lawVars>>,
               \/ UNCHANGED notes
               \/ /\ \A s \in Sections : thread[s] \in {"done", "raised"}
                  /\ notes' = IF \E s \in Sections : thread[s] = "raised" THEN "failed" ELSE "sections"
        PROVE  ResearchInv'
    <3>1. ASSUME NEW s \in Sections PROVE SectionOK(s)'
      BY <2>1 DEF lawVars, ResearchInv, SectionOK, PagesOK, DetailsOK, ItsOwn
    <3>2. /\ notes' \in {"none", "sections", "failed"}
          /\ notes' = "sections" => \A s \in Sections : thread[s] = "done"
          /\ notes' = "failed" => /\ \A s \in Sections : thread[s] \in {"done", "raised"}
                                  /\ \E s \in Sections : thread[s] = "raised"
      BY <2>1 DEF ResearchInv
    <3> QED BY <2>1, <3>1, <3>2 DEF lawVars, ResearchInv
  <2>2. CASE Collect
    BY <2>1, <2>2 DEF Collect
  <2>3. CASE UNCHANGED researchVars
    BY <2>1, <2>3 DEF researchVars, lawVars
  <2> QED BY <2>2, <2>3, AskingKeeps, ViewDetailKeeps, OpenBrowserKeeps, RenderKeeps, CloseBrowserKeeps
      DEF ResearchNext
<1>3. ResearchInv => DetailsOfTheirOwn
  <2> SUFFICES ASSUME ResearchInv PROVE DetailsOfTheirOwn
    OBVIOUS
  <2>1. ASSUME notes = "sections", NEW s \in Sections
        PROVE  /\ Len(detail[s]) = Top(records[s])
               /\ \A i \in DOMAIN detail[s] : ItsOwn(s, i, detail[s][i])
    BY <2>1 DEF ResearchInv, SectionOK
  <2>2. ASSUME notes = "failed" PROVE browser = "ready" /\ \E s \in Sections : pending[s] # <<>>
    BY <2>2 DEF ResearchInv, SectionOK
  <2> QED BY <2>1, <2>2 DEF DetailsOfTheirOwn, ItsOwn
<1> QED BY <1>1, <1>2, <1>3, PTL DEF ResearchSpec

(* ------------------------------ the chat session ---------------------------- *)

Turns == Session!Turns
Human(t) == Session!Human(t)
Ai(t) == Session!Ai(t)
Messages_ == Seq(Session!Message)

\* Where a turn is, for turns at the given steps.
HasAsked(at, t) == at[t] \notin {"new", "prepared"}
Replied(at, t) == at[t] \in {"net", "count", "upsert", "done", "broken"}
Running(t) == pc[t] \in {"intent", "tools", "writing", "streaming", "net", "count", "upsert"}

\* A history in which every message comes once, of turns that have begun, and every reply
\* directly after its question.
History(ms, at) ==
    /\ \A i, j \in DOMAIN ms : ms[i] = ms[j] => i = j
    /\ \A i \in DOMAIN ms : HasAsked(at, ms[i].turn)
    /\ \A i \in DOMAIN ms : ms[i].by = "ai" =>
          Replied(at, ms[i].turn) /\ i > 1 /\ ms[i - 1] = Human(ms[i].turn)

EndsWith(ms, m) == ms # <<>> /\ ms[Len(ms)] = m

\* What the user has been sent of a turn.
SentAt(stage, t) ==
    CASE stage \in {"new", "prepared", "intent", "tools", "writing"} -> <<>>
      [] stage = "streaming" -> <<<<t, "body">>>>
      [] OTHER -> <<<<t, "body">>, <<t, "footer">>>>

TurnOK(t) ==
    /\ ~Running(t) => gone[t] = {} /\ run[t] = Session!Empty
    /\ History(run[t].messages, pc)
    /\ pc[t] \in {"intent", "tools", "writing", "streaming"} => EndsWith(run[t].messages, Human(t))
    /\ pc[t] = "tools" => run[t].context = {}
    /\ pc[t] \in {"writing", "streaming"} => run[t].context \subseteq {t}
    /\ pc[t] # "broken" => sent[t] = SentAt(pc[t], t)

ConversationInv ==
    /\ Session!TypeOK
    /\ sent = [t \in Turns |-> sent[t]]
    /\ History(stored.messages, pc)
    /\ \A t \in Turns : TurnOK(t)

-----------------------------------------------------------------------------
\* The types of the parameters and messages.
LEMMA SessionTypes ==
  /\ NumTurns \in Nat /\ Turns = 1 .. NumTurns
  /\ \A t \in Turns : Human(t) \in Session!Message /\ Ai(t) \in Session!Message /\ Human(t) # Ai(t)
  /\ \A m \in Session!Message : m.turn \in Turns /\ (m = Human(m.turn) \/ m = Ai(m.turn))
  /\ \A t \in Turns : /\ Human(t).turn = t /\ Human(t).by = "human"
                      /\ Ai(t).turn = t /\ Ai(t).by = "ai"
BY SessionAssumption DEF Session!ChatAssumption, Turns, Session!Turns, Human, Ai, Session!Human, Session!Ai,
                         Session!Message

\* A history stays right as the turns go on.
LEMMA Onwards ==
  ASSUME NEW ms \in Messages_, NEW at, NEW then, History(ms, at),
         \A s \in Turns : (HasAsked(at, s) => HasAsked(then, s)) /\ (Replied(at, s) => Replied(then, s))
  PROVE  History(ms, then)
<1>1. \A i \in DOMAIN ms : ms[i].turn \in Turns
  BY SessionTypes DEF Messages_
<1> QED BY <1>1 DEF History

\* No messages.
LEMMA NoHistory == \A at : <<>> \in Messages_ /\ History(<<>>, at)
BY DEF History, Messages_

\* A message that is not there yet, and if it is a reply, comes after its question.
LEMMA AppendHistory ==
  ASSUME NEW ms \in Messages_, NEW at, NEW m \in Session!Message, History(ms, at),
         \A i \in DOMAIN ms : ms[i] # m, HasAsked(at, m.turn),
         m.by = "ai" => Replied(at, m.turn) /\ EndsWith(ms, Human(m.turn))
  PROVE  Append(ms, m) \in Messages_ /\ History(Append(ms, m), at) /\ EndsWith(Append(ms, m), m)
<1> DEFINE n == Len(ms)
<1>1. /\ n \in Nat /\ DOMAIN ms = 1 .. n /\ Append(ms, m) \in Messages_ /\ Len(Append(ms, m)) = n + 1
      /\ Append(ms, m)[n + 1] = m /\ \A i \in 1 .. n : Append(ms, m)[i] = ms[i]
      /\ Append(ms, m) # <<>>
  BY AppendProperties DEF Messages_
<1>2. PICK more : more = Append(ms, m)
  OBVIOUS
<1>3. DOMAIN more = 1 .. n + 1
  BY <1>1, <1>2 DEF Messages_
<1>4. \A i \in 1 .. n + 1 : i \in 1 .. n \/ i = n + 1
  BY <1>1
<1>5. EndsWith(ms, Human(m.turn)) => n >= 1 /\ ms[n] = Human(m.turn)
  BY <1>1, EmptySeq DEF EndsWith, Messages_
<1> HIDE DEF n
<1>6. \A i, j \in DOMAIN more : more[i] = more[j] => i = j
  BY <1>1, <1>2, <1>3, <1>4 DEF History
<1>7. \A i \in DOMAIN more : HasAsked(at, more[i].turn)
  BY <1>1, <1>2, <1>3, <1>4 DEF History
<1>8. ASSUME NEW i \in DOMAIN more, more[i].by = "ai"
      PROVE  Replied(at, more[i].turn) /\ i > 1 /\ more[i - 1] = Human(more[i].turn)
  <2>1. CASE i \in 1 .. n
    <3>1. ms[i].by = "ai" /\ more[i] = ms[i]
      BY <1>1, <1>2, <1>8, <2>1
    <3>2. Replied(at, ms[i].turn) /\ i > 1 /\ ms[i - 1] = Human(ms[i].turn)
      BY <1>1, <2>1, <3>1 DEF History
    <3>3. i - 1 \in 1 .. n
      BY <1>1, <2>1, <3>2
    <3> QED BY <1>1, <1>2, <3>1, <3>2, <3>3
  <2>2. CASE i = n + 1
    <3>1. more[i] = m
      BY <1>1, <1>2, <2>2
    <3>2. n >= 1 /\ ms[n] = Human(m.turn) /\ Replied(at, m.turn)
      BY <1>5, <1>8, <3>1
    <3>3. i - 1 = n /\ n \in 1 .. n
      BY <1>1, <2>2, <3>2
    <3> QED BY <1>1, <1>2, <2>2, <3>1, <3>2, <3>3
  <2> QED BY <1>3, <1>4, <2>1, <2>2
<1> QED BY <1>1, <1>2, <1>6, <1>7, <1>8 DEF History, EndsWith

\* Every turn adds two messages at most.
LEMMA LengthBound ==
  ASSUME NEW ms \in Messages_, NEW at, History(ms, at)
  PROVE  Len(ms) \in 0 .. 2 * NumTurns
<1> DEFINE n == Len(ms)
           place == [i \in 1 .. n |-> IF ms[i].by = "ai" THEN 2 * ms[i].turn ELSE 2 * ms[i].turn - 1]
<1>1. n \in Nat /\ NumTurns \in Nat /\ DOMAIN ms = 1 .. n
  BY SessionTypes DEF Messages_
<1>2. ASSUME NEW i \in 1 .. n
      PROVE  /\ ms[i].turn \in 1 .. NumTurns
             /\ ms[i] = (IF ms[i].by = "ai" THEN Ai(ms[i].turn) ELSE Human(ms[i].turn))
  <2>1. ms[i] \in Session!Message
    BY <1>1 DEF Messages_
  <2> QED BY <2>1, SessionTypes
<1>3. place \in [1 .. n -> 1 .. 2 * NumTurns]
  BY <1>1, <1>2
<1>4. ASSUME NEW i \in 1 .. n, NEW j \in 1 .. n, place[i] = place[j] PROVE i = j
  <2>3. /\ place[i] = (IF ms[i].by = "ai" THEN 2 * ms[i].turn ELSE 2 * ms[i].turn - 1)
        /\ place[j] = (IF ms[j].by = "ai" THEN 2 * ms[j].turn ELSE 2 * ms[j].turn - 1)
    OBVIOUS
  <2>4. ms[i].turn \in Int /\ ms[j].turn \in Int
    BY <1>1, <1>2
  <2>5. \A a, b \in Int : (2 * a = 2 * b => a = b) /\ (2 * a - 1 = 2 * b - 1 => a = b) /\ 2 * a # 2 * b - 1
    OBVIOUS
  <2> HIDE DEF place, n
  <2>1. ms[i].turn = ms[j].turn /\ (ms[i].by = "ai" <=> ms[j].by = "ai")
    <3>1. PICK a \in Int : a = ms[i].turn
      BY <2>4
    <3>2. PICK b \in Int : b = ms[j].turn
      BY <2>4
    <3>3. place[i] = place[j]
      BY <1>4
    <3>4. (ms[i].by = "ai" <=> ms[j].by = "ai") /\ a = b
      <4>1. CASE ms[i].by = "ai" /\ ms[j].by = "ai"
        BY <2>3, <2>5, <3>1, <3>2, <3>3, <4>1
      <4>2. CASE ms[i].by # "ai" /\ ms[j].by # "ai"
        BY <2>3, <2>5, <3>1, <3>2, <3>3, <4>2
      <4>3. CASE ms[i].by = "ai" /\ ms[j].by # "ai"
        BY <2>3, <2>5, <3>1, <3>2, <3>3, <4>3
      <4>4. CASE ms[i].by # "ai" /\ ms[j].by = "ai"
        BY <2>3, <2>5, <3>1, <3>2, <3>3, <4>4
      <4> QED BY <4>1, <4>2, <4>3, <4>4
    <3> QED BY <3>1, <3>2, <3>4
  <2>2. ms[i] = ms[j]
    BY <1>2, <2>1
  <2> QED BY <1>1, <2>2 DEF History
<1>5. place \in Injection(1 .. n, 1 .. 2 * NumTurns)
  BY <1>3, <1>4 DEF Injection, IsInjective
<1>6. /\ IsFiniteSet(1 .. 2 * NumTurns) /\ Cardinality(1 .. 2 * NumTurns) = 2 * NumTurns
      /\ Cardinality(1 .. n) = n
  <2>1. 1 \in Int /\ n \in Int /\ 2 * NumTurns \in Int /\ 2 * NumTurns >= 0 /\ n >= 0
    BY <1>1
  <2> HIDE DEF n
  <2>2. Cardinality(1 .. n) = IF 1 > n THEN 0 ELSE n - 1 + 1
    BY <2>1, FS_Interval
  <2>3. IsFiniteSet(1 .. 2 * NumTurns) /\ Cardinality(1 .. 2 * NumTurns) = IF 1 > 2 * NumTurns THEN 0 ELSE 2 * NumTurns - 1 + 1
    BY <2>1, FS_Interval
  <2> QED BY <2>1, <2>2, <2>3
<1>7. n <= 2 * NumTurns
  <2> HIDE DEF place
  <2> QED BY <1>5, <1>6, FS_Injection
<1> QED BY <1>1, <1>7

-----------------------------------------------------------------------------
\* No turn goes back.
Forth == \A s \in Turns : (HasAsked(pc, s) => HasAsked(pc', s)) /\ (Replied(pc, s) => Replied(pc', s))

\* The parts of the invariant's types that the proofs use.
LEMMA ConversationTypes ==
  ASSUME ConversationInv
  PROVE  /\ pc \in [Turns -> {"new", "done", "broken", "prepared", "intent", "tools", "writing",
                              "streaming", "net", "count", "upsert"}]
         /\ stored \in Session!State /\ stored.messages \in Messages_
         /\ run \in [Turns -> Session!State] /\ \A t \in Turns : run[t].messages \in Messages_
         /\ gone \in [Turns -> SUBSET Session!Channels] /\ DOMAIN sent = Turns
BY DEF ConversationInv, Session!TypeOK, Session!Idle, Session!State, Turns, Messages_

\* What is stored of a superstep is of the channels' types.
LEMMA StoredTyped ==
  ASSUME NEW ch \in Session!State, NEW left, NEW all,
         all = [c \in Session!Channels |-> IF c \in left THEN Session!Empty[c] ELSE ch[c]]
  PROVE  /\ all \in Session!State
         /\ all.messages = IF "messages" \in left THEN <<>> ELSE ch.messages
         /\ "profile" \notin left => all.profile = ch.profile
<1>1. /\ all.messages = IF "messages" \in left THEN <<>> ELSE ch.messages
      /\ all.profile = IF "profile" \in left THEN FALSE ELSE ch.profile
      /\ all.context = IF "context" \in left THEN {} ELSE ch.context
  BY DEF Session!Channels, Session!Empty
<1>2. all = [messages |-> all.messages, profile |-> all.profile, context |-> all.context]
  BY DEF Session!Channels
<1>3. all.messages \in Seq(Session!Message) /\ all.profile \in BOOLEAN /\ all.context \in SUBSET Session!Turns
  <2>1. ch.messages \in Seq(Session!Message) /\ ch.profile \in BOOLEAN /\ ch.context \in SUBSET Session!Turns
    BY DEF Session!State
  <2>2. <<>> \in Seq(Session!Message)
    BY EmptySeq
  <2>3. all.profile \in BOOLEAN
    BY <1>1, <2>1, Zenon
  <2>4. all.messages \in Seq(Session!Message)
    BY <1>1, <2>1, <2>2
  <2>5. all.context \in SUBSET Session!Turns
    BY <1>1, <2>1
  <2> QED BY <2>3, <2>4, <2>5
<1> QED BY <1>1, <1>2, <1>3 DEF Session!State

\* What a step leaves alone stays right while other turns go on.
LEMMA Untouched ==
  ASSUME ConversationInv, Forth, NEW s \in Turns, pc'[s] = pc[s], run'[s] = run[s], sent'[s] = sent[s],
         ~Running(s) => gone'[s] = {}
  PROVE  TurnOK(s)'
<1>1. TurnOK(s) /\ run[s].messages \in Messages_
  BY ConversationTypes DEF ConversationInv
<1>2. History(run[s].messages, pc')
  BY <1>1, Onwards DEF TurnOK, Forth
<1>3. Running(s)' <=> Running(s)
  BY DEF Running
<1> QED BY <1>1, <1>2, <1>3 DEF TurnOK

\* A superstep ends.
LEMMA SuperstepKeeps ==
  ASSUME ConversationInv, NEW t \in Turns, NEW ch \in Session!State, NEW changed \in SUBSET Session!Channels,
         NEW next \in {"intent", "tools", "writing", "net"},
         pc[t] \in {"prepared", "intent", "tools", "streaming"},
         Session!Goto(t, next), Session!Save(t, ch, changed),
         UNCHANGED <<row, first, count, deleter, kept, wiped, crossed>>,
         sent' = [s \in Turns |-> sent'[s]], sent'[t] = SentAt(next, t),
         \A s \in Turns \ {t} : sent'[s] = sent[s],
         History(ch.messages, pc'),
         next # "net" => EndsWith(ch.messages, Human(t)),
         next = "tools" => ch.context = {},
         next = "writing" => ch.context \subseteq {t}
  PROVE  ConversationInv'
<1>1. /\ pc' = [pc EXCEPT ![t] = next] /\ run' = [run EXCEPT ![t] = ch]
      /\ gone' = [gone EXCEPT ![t] = @ \ changed]
      /\ stored' = [c \in Session!Channels |-> IF c \in gone[t] \ changed THEN Session!Empty[c] ELSE ch[c]]
  BY DEF Session!Goto, Session!Save
<1>2. /\ pc'[t] = next /\ run'[t] = ch
      /\ \A s \in Turns \ {t} : pc'[s] = pc[s] /\ run'[s] = run[s] /\ gone'[s] = gone[s]
      /\ pc' \in [Turns -> {"new", "done", "broken", "prepared", "intent", "tools", "writing",
                            "streaming", "net", "count", "upsert"}]
      /\ run' \in [Turns -> Session!State] /\ gone' \in [Turns -> SUBSET Session!Channels]
  BY <1>1, ConversationTypes
<1>3. Forth
  BY <1>2 DEF Forth, HasAsked, Replied
<1>4. stored' \in Session!State /\ stored'.messages = IF "messages" \in gone[t] \ changed THEN <<>> ELSE ch.messages
  <2>1. PICK left : left = gone[t] \ changed
    OBVIOUS
  <2>2. stored' = [c \in Session!Channels |-> IF c \in left THEN Session!Empty[c] ELSE ch[c]]
    BY <1>1, <2>1
  <2>3. PICK all : all = stored'
    OBVIOUS
  <2>4. all = [c \in Session!Channels |-> IF c \in left THEN Session!Empty[c] ELSE ch[c]]
    BY <2>2, <2>3
  <2>5. all \in Session!State /\ all.messages = IF "messages" \in left THEN <<>> ELSE ch.messages
    BY <2>4, StoredTyped
  <2> QED BY <2>1, <2>3, <2>5
<1>5. Session!TypeOK'
  BY <1>2, <1>4 DEF ConversationInv, Session!TypeOK, Session!Idle, Turns
<1>6. History(stored'.messages, pc')
  BY <1>4, NoHistory
<1>7. TurnOK(t)'
  <2>1. Running(t)' /\ pc'[t] = next /\ next \notin {"streaming", "broken"}
    BY <1>2 DEF Running
  <2> QED BY <1>2, <2>1 DEF TurnOK
<1>8. ASSUME NEW s \in Turns \ {t} PROVE TurnOK(s)'
  <2>1. ~Running(s) => gone'[s] = {}
    BY <1>2 DEF ConversationInv, TurnOK
  <2> QED BY <1>2, <1>3, <2>1, Untouched
<1> QED BY <1>5, <1>6, <1>7, <1>8 DEF ConversationInv

\* The user's message joins what is stored.
LEMMA BeginKeeps ==
  ASSUME ConversationInv, NEW t \in Turns, Session!Begin(t)
  PROVE  ConversationInv'
<1> DEFINE ms == stored.messages
           profile == stored.profile \/ first[t]
           changed == {"messages"} \cup (IF first[t] THEN {"profile"} ELSE {})
<1>1. /\ pc[t] = "prepared" /\ Session!Goto(t, "intent") /\ sent' = sent
      /\ Session!Save(t, [messages |-> Append(ms, Human(t)), profile |-> profile, context |-> stored.context], changed)
      /\ UNCHANGED <<row, first, count, deleter, kept, wiped, crossed>>
  BY DEF Session!Begin, Session!history, Human
<1>2. /\ pc' = [pc EXCEPT ![t] = "intent"] /\ ms \in Messages_ /\ stored.context \in SUBSET Session!Turns
      /\ pc \in [Turns -> {"new", "done", "broken", "prepared", "intent", "tools", "writing",
                           "streaming", "net", "count", "upsert"}]
  BY <1>1, ConversationTypes DEF Session!Goto, Session!State
<1>3. profile \in BOOLEAN
  <2>1. stored.profile \in BOOLEAN /\ first[t] \in BOOLEAN
    BY DEF ConversationInv, Session!TypeOK, Session!State, Turns
  <2> QED BY <2>1
<1>4. PICK at : at = pc'
  OBVIOUS
<1>5. History(ms, at) /\ HasAsked(at, t)
  <2>1. Forth
    <3>1. pc[t] = "prepared"
      BY <1>1
    <3> QED BY <1>2, <3>1 DEF Forth, HasAsked, Replied
  <2>2. History(ms, pc)
    BY DEF ConversationInv
  <2> QED BY <1>1, <1>2, <1>4, <2>1, <2>2, Onwards DEF Forth, HasAsked
<1>6. \A i \in DOMAIN ms : ms[i] # Human(t)
  <2>1. \A i \in DOMAIN ms : HasAsked(pc, ms[i].turn)
    BY DEF ConversationInv, History
  <2> QED BY <1>1, <2>1, SessionTypes DEF HasAsked
<1>7. PICK more : more = Append(ms, Human(t))
  OBVIOUS
<1>8. more \in Messages_ /\ History(more, at) /\ EndsWith(more, Human(t))
  <2>1. Human(t) \in Session!Message /\ Human(t).turn = t /\ Human(t).by # "ai"
    BY SessionTypes
  <2> HIDE DEF ms
  <2> QED BY <1>2, <1>5, <1>6, <1>7, <2>1, AppendHistory
<1>9. PICK ch : ch = [messages |-> more, profile |-> profile, context |-> stored.context]
  OBVIOUS
<1>10. ch \in Session!State /\ ch.messages = more
  BY <1>2, <1>3, <1>8, <1>9 DEF Session!State, Messages_
<1>11. PICK all : all = changed
  OBVIOUS
<1>12. all \in SUBSET Session!Channels
  BY <1>11 DEF Session!Channels
<1>13. /\ sent' = [s \in Turns |-> sent'[s]] /\ sent'[t] = SentAt("intent", t)
       /\ \A s \in Turns \ {t} : sent'[s] = sent[s]
  BY <1>1 DEF ConversationInv, TurnOK, SentAt
<1>14. Session!Save(t, ch, all)
  BY <1>1, <1>7, <1>9, <1>11
<1> HIDE DEF ms, changed, profile
<1> QED BY <1>1, <1>4, <1>8, <1>10, <1>12, <1>13, <1>14, SuperstepKeeps

\* The intent node empties the context, whichever way it leads.
LEMMA IntentKeeps ==
  ASSUME ConversationInv, NEW t \in Turns, Session!Intent(t)
  PROVE  ConversationInv'
<1>1. PICK next \in {"tools", "writing"} : Session!Goto(t, next)
  BY DEF Session!Intent
<1>2. PICK ch : ch = [run[t] EXCEPT !.context = {}]
  OBVIOUS
<1>3. /\ pc[t] = "intent" /\ sent' = sent /\ Session!Save(t, ch, {"context"})
      /\ UNCHANGED <<row, first, count, deleter, kept, wiped, crossed>>
  BY <1>2 DEF Session!Intent, Session!history, Session!Merge
<1>4. run[t] \in Session!State /\ run[t].messages \in Messages_
      /\ pc \in [Turns -> {"new", "done", "broken", "prepared", "intent", "tools", "writing",
                           "streaming", "net", "count", "upsert"}]
  BY ConversationTypes
<1>5. ch \in Session!State /\ ch.messages = run[t].messages /\ ch.context = {}
  BY <1>2, <1>4 DEF Session!State
<1>6. History(run[t].messages, pc) /\ EndsWith(run[t].messages, Human(t)) /\ sent[t] = <<>>
  BY <1>3 DEF ConversationInv, TurnOK, SentAt
<1>7. Forth
  BY <1>1, <1>3, <1>4 DEF Session!Goto, Forth, HasAsked, Replied
<1>8. History(ch.messages, pc') /\ EndsWith(ch.messages, Human(t))
  BY <1>4, <1>5, <1>6, <1>7, Onwards DEF Forth
<1>9. /\ sent' = [s \in Turns |-> sent'[s]] /\ sent'[t] = SentAt(next, t)
      /\ \A s \in Turns \ {t} : sent'[s] = sent[s]
  BY <1>3, <1>6 DEF ConversationInv, SentAt
<1> QED BY <1>1, <1>3, <1>5, <1>8, <1>9, SuperstepKeeps DEF Session!Channels

\* The tools add what belongs to this turn.
LEMMA RunToolsKeeps ==
  ASSUME ConversationInv, NEW t \in Turns, Session!RunTools(t)
  PROVE  ConversationInv'
<1>1. Session!Goto(t, "writing")
  BY DEF Session!RunTools
<1>2. PICK ch : ch = [run[t] EXCEPT !.context = @ \cup {t}]
  OBVIOUS
<1>3. /\ pc[t] = "tools" /\ sent' = sent /\ Session!Save(t, ch, {"context"})
      /\ UNCHANGED <<row, first, count, deleter, kept, wiped, crossed>>
  BY <1>2 DEF Session!RunTools, Session!history, Session!Merge
<1>4. run[t] \in Session!State /\ run[t].messages \in Messages_
      /\ pc \in [Turns -> {"new", "done", "broken", "prepared", "intent", "tools", "writing",
                           "streaming", "net", "count", "upsert"}]
  BY ConversationTypes
<1>6. /\ History(run[t].messages, pc) /\ EndsWith(run[t].messages, Human(t)) /\ sent[t] = <<>>
      /\ run[t].context = {}
  BY <1>3 DEF ConversationInv, TurnOK, SentAt
<1>5. ch \in Session!State /\ ch.messages = run[t].messages /\ ch.context = {t}
  BY <1>2, <1>4, <1>6 DEF Session!State, Turns
<1>7. Forth
  BY <1>1, <1>3, <1>4 DEF Session!Goto, Forth, HasAsked, Replied
<1>8. History(ch.messages, pc') /\ EndsWith(ch.messages, Human(t))
  BY <1>4, <1>5, <1>6, <1>7, Onwards DEF Forth
<1>9. /\ sent' = [s \in Turns |-> sent'[s]] /\ sent'[t] = SentAt("writing", t)
      /\ \A s \in Turns \ {t} : sent'[s] = sent[s]
  BY <1>3, <1>6 DEF ConversationInv, SentAt
<1> QED BY <1>1, <1>3, <1>5, <1>8, <1>9, SuperstepKeeps DEF Session!Channels

\* What the update handler sends after the tokens, and the safety net after both.
LEMMA RestOfReply ==
  ASSUME NEW b, NEW f
  PROVE  /\ <<b>> \o Session!Remainder(<<b, f>>, <<b>>) = <<b, f>>
         /\ Session!Remainder(<<b, f>>, <<b, f>>) = <<>>
         /\ \A q : Session!Remainder(<<q>>, <<b, f>>) = <<>>
         /\ \A c, g : c # b => Session!Remainder(<<c, g>>, <<b, f>>) = <<>>
<1> DEFINE S == {b, f}
           one == <<b>>
           two == <<b, f>>
           rest == SubSeq(two, 2, 2)
<1>1. /\ one \in Seq(S) /\ two \in Seq(S) /\ Len(one) = 1 /\ Len(two) = 2
      /\ one[1] = b /\ two[1] = b /\ two[2] = f
  OBVIOUS
<1>2. one \o rest = two
  <2>1. rest \in Seq(S) /\ Len(rest) = 1 /\ rest[1] = f
    OBVIOUS
  <2> HIDE DEF one, two, rest, S
  <2>2. /\ one \o rest \in Seq(S) /\ Len(one \o rest) = Len(one) + Len(rest)
        /\ \A i \in 1 .. Len(one) + Len(rest) :
              (one \o rest)[i] = IF i <= Len(one) THEN one[i] ELSE rest[i - Len(one)]
    BY <1>1, <2>1, ConcatProperties
  <2>3. PICK all : all = one \o rest
    OBVIOUS
  <2>4. all \in Seq(S) /\ Len(all) = 2
    BY <1>1, <2>1, <2>2, <2>3
  <2>5. \A i \in 1 .. 2 : i = 1 \/ i = 2
    OBVIOUS
  <2>6. all[1] = one[1] /\ all[2] = rest[1]
    BY <1>1, <2>1, <2>2, <2>3
  <2>7. \A i \in 1 .. 2 : all[i] = two[i]
    BY <1>1, <2>1, <2>5, <2>6
  <2> QED BY <1>1, <2>3, <2>4, <2>7, SeqEqual
<1>3. SubSeq(two, 1, 1) = one
  <2>1. SubSeq(two, 1, 1) \in Seq(S) /\ Len(SubSeq(two, 1, 1)) = 1 /\ SubSeq(two, 1, 1)[1] = b
    OBVIOUS
  <2> HIDE DEF one, two, S
  <2> QED BY <1>1, <2>1, SeqEqual
<1>4. SubSeq(one, 1, 1) = one /\ SubSeq(two, 1, 2) = two
  <2> HIDE DEF one, two, S
  <2> QED BY <1>1, SubSeqFull
<1>5. \A c, g : SubSeq(<<c, g>>, 1, 2)[1] = c /\ Len(<<c, g>>) = 2
  OBVIOUS
<1>6. \A q : Len(<<q>>) = 1
  OBVIOUS
<1>7. \A s : SubSeq(s, 3, 2) = <<>>
  OBVIOUS
<1> HIDE DEF one, two, S
<1>8. one \o Session!Remainder(two, one) = two
  BY <1>1, <1>2, <1>3, <1>4 DEF Session!Remainder, Session!IsPrefix
<1>9. Session!Remainder(two, two) = <<>>
  BY <1>1, <1>7 DEF Session!Remainder, Session!IsPrefix
<1>10. \A q : Session!Remainder(<<q>>, two) = <<>>
  BY <1>1, <1>6 DEF Session!Remainder, Session!IsPrefix
<1>11. \A c, g : c # b => Session!Remainder(<<c, g>>, two) = <<>>
  BY <1>1, <1>4, <1>5 DEF Session!Remainder, Session!IsPrefix
<1> QED BY <1>8, <1>9, <1>10, <1>11 DEF one, two

\* What belongs to a reply.
LEMMA ContentOfReply ==
  ASSUME NEW t \in Turns
  PROVE  /\ Session!Content(Ai(t)) = <<<<t, "body">>, <<t, "footer">>>>
         /\ Session!Content(Human(t)) = <<<<t, "question">>>>
BY SessionTypes DEF Session!Content, Ai, Human

\* The reply joins what the run holds, and its footer what has been sent.
LEMMA UpdateKeeps ==
  ASSUME ConversationInv, NEW t \in Turns, Session!Update(t)
  PROVE  ConversationInv'
<1> DEFINE ms == run[t].messages
<1>1. PICK more : more = Append(ms, Ai(t))
  OBVIOUS
<1>2. PICK ch : ch = [run[t] EXCEPT !.messages = more]
  OBVIOUS
<1>3. /\ pc[t] = "streaming" /\ Session!Goto(t, "net") /\ Session!Save(t, ch, {"messages"})
      /\ UNCHANGED <<row, first, count, deleter, kept, wiped, crossed>>
      /\ sent' = [sent EXCEPT ![t] = @ \o Session!Remainder(Session!Content(Ai(t)), @)]
  BY <1>1, <1>2 DEF Session!Update, Session!history, Ai
<1>4. /\ run[t] \in Session!State /\ ms \in Messages_ /\ DOMAIN sent = Turns
      /\ pc \in [Turns -> {"new", "done", "broken", "prepared", "intent", "tools", "writing",
                           "streaming", "net", "count", "upsert"}]
  BY ConversationTypes
<1>5. PICK at : at = pc'
  OBVIOUS
<1>6. at = [pc EXCEPT ![t] = "net"]
  BY <1>3, <1>5 DEF Session!Goto
<1>7. Forth
  BY <1>3, <1>4, <1>5, <1>6 DEF Forth, HasAsked, Replied
<1>8. History(ms, pc) /\ EndsWith(ms, Human(t)) /\ sent[t] = <<<<t, "body">>>>
  BY <1>3 DEF ConversationInv, TurnOK, SentAt
<1>9. History(ms, at) /\ HasAsked(at, t) /\ Replied(at, t)
  <2>1. History(ms, at)
    BY <1>4, <1>5, <1>7, <1>8, Onwards DEF Forth
  <2>2. at[t] = "net"
    BY <1>4, <1>6
  <2> QED BY <2>1, <2>2 DEF HasAsked, Replied
<1>10. \A i \in DOMAIN ms : ms[i] # Ai(t)
  <2>1. Ai(t).by = "ai" /\ Ai(t).turn = t
    BY SessionTypes
  <2>2. ~Replied(pc, t)
    BY <1>3 DEF Replied
  <2> QED BY <1>8, <2>1, <2>2 DEF History
<1>11. more \in Messages_ /\ History(more, at)
  BY <1>1, <1>4, <1>8, <1>9, <1>10, AppendHistory, SessionTypes
<1>12. ch \in Session!State /\ ch.messages = more
  BY <1>2, <1>4, <1>11 DEF Session!State, Messages_
<1>13. sent'[t] = SentAt("net", t)
  <2>1. PICK b : b = <<t, "body">>
    OBVIOUS
  <2>2. PICK f : f = <<t, "footer">>
    OBVIOUS
  <2>3. sent'[t] = sent[t] \o Session!Remainder(Session!Content(Ai(t)), sent[t])
    BY <1>3, <1>4
  <2>4. sent'[t] = <<b>> \o Session!Remainder(<<b, f>>, <<b>>)
    BY <1>8, <2>1, <2>2, <2>3, ContentOfReply
  <2> QED BY <2>1, <2>2, <2>4, RestOfReply DEF SentAt
<1>14. /\ sent' = [s \in Turns |-> sent'[s]] /\ \A s \in Turns \ {t} : sent'[s] = sent[s]
  BY <1>3, <1>4
<1> HIDE DEF ms
<1> QED BY <1>3, <1>5, <1>11, <1>12, <1>13, <1>14, SuperstepKeeps DEF Session!Channels

-----------------------------------------------------------------------------
\* A step of one turn that saves nothing.
LEMMA TurnStepKeeps ==
  ASSUME ConversationInv, NEW t \in Turns,
         NEW next \in {"prepared", "streaming", "count", "upsert", "done", "broken"},
         Session!Goto(t, next), UNCHANGED stored,
         pc[t] = "new" => next = "prepared", pc[t] # "new" => next # "prepared",
         next = "streaming" => pc[t] = "writing",
         Replied(pc, t) => next \in {"count", "upsert", "done", "broken"},
         row' \in [title : 0 .. NumTurns, count : 0 .. 2 * NumTurns],
         first' \in [Turns -> BOOLEAN], count' \in [Turns -> 0 .. 2 * NumTurns],
         deleter' \in {"idle", "row"}, kept' \in SUBSET Turns, wiped' \in BOOLEAN,
         crossed' \in SUBSET (Turns \cup {Session!Deletion}),
         sent' = [s \in Turns |-> sent'[s]], \A s \in Turns \ {t} : sent'[s] = sent[s],
         next # "broken" => sent'[t] = SentAt(next, t),
         \/ next \in {"streaming", "count", "upsert"} /\ Running(t) /\ UNCHANGED <<run, gone>>
         \/ next = "prepared" /\ UNCHANGED <<run, gone>>
         \/ /\ next \in {"done", "broken"}
            /\ run' = [run EXCEPT ![t] = Session!Empty] /\ gone' = [gone EXCEPT ![t] = {}]
  PROVE  ConversationInv'
<1>1. /\ pc' = [pc EXCEPT ![t] = next]
      /\ pc \in [Turns -> {"new", "done", "broken", "prepared", "intent", "tools", "writing",
                           "streaming", "net", "count", "upsert"}]
      /\ run \in [Turns -> Session!State] /\ gone \in [Turns -> SUBSET Session!Channels]
      /\ stored \in Session!State /\ stored.messages \in Messages_ /\ run[t].messages \in Messages_
  BY ConversationTypes DEF Session!Goto
<1>2. /\ pc' \in [Turns -> {"new", "done", "broken", "prepared", "intent", "tools", "writing",
                            "streaming", "net", "count", "upsert"}]
      /\ pc'[t] = next /\ \A s \in Turns \ {t} : pc'[s] = pc[s]
  BY <1>1
<1>3. Session!Empty \in Session!State /\ Session!Empty.messages = <<>>
  BY NoHistory DEF Session!Empty, Session!State, Messages_
<1>4. /\ run' \in [Turns -> Session!State] /\ gone' \in [Turns -> SUBSET Session!Channels]
      /\ \A s \in Turns \ {t} : run'[s] = run[s] /\ gone'[s] = gone[s]
      /\ next \in {"done", "broken"} => run'[t] = Session!Empty /\ gone'[t] = {}
      /\ next \notin {"done", "broken"} => run'[t] = run[t] /\ gone'[t] = gone[t]
  <2>1. CASE UNCHANGED <<run, gone>> /\ next \notin {"done", "broken"}
    BY <1>1, <2>1
  <2>2. CASE /\ next \in {"done", "broken"}
             /\ run' = [run EXCEPT ![t] = Session!Empty] /\ gone' = [gone EXCEPT ![t] = {}]
    BY <1>1, <1>3, <2>2
  <2> QED BY <2>1, <2>2
<1>5. Session!TypeOK'
  <2> USE DEF ConversationInv, Session!TypeOK, Turns, Session!Idle
  <2> QED BY <1>1, <1>2, <1>4
<1>6. Forth
  BY <1>1, <1>2 DEF Forth, HasAsked, Replied
<1>7. History(stored'.messages, pc')
  <2>1. History(stored.messages, pc)
    BY DEF ConversationInv
  <2>2. History(stored.messages, pc')
    BY <1>1, <1>6, <2>1, Onwards DEF Forth
  <2> QED BY <2>2
<1>8. History(run[t].messages, pc') /\ History(<<>>, pc')
  <2>1. History(run[t].messages, pc)
    BY DEF ConversationInv, TurnOK
  <2>2. History(run[t].messages, pc')
    BY <1>1, <1>6, <2>1, Onwards DEF Forth
  <2> QED BY <2>2, NoHistory
<1>9. TurnOK(t)'
  <2>1. CASE next \in {"done", "broken"}
    BY <1>2, <1>3, <1>4, <1>8, <2>1 DEF TurnOK, Running
  <2>2. CASE next = "prepared"
    BY <1>1, <1>2, <1>4, <1>8, <2>2 DEF ConversationInv, TurnOK, Running
  <2>3. CASE next \in {"streaming", "count", "upsert"}
    BY <1>1, <1>2, <1>4, <1>8, <2>3 DEF ConversationInv, TurnOK, Running
  <2> QED BY <2>1, <2>2, <2>3
<1>10. ASSUME NEW s \in Turns \ {t} PROVE TurnOK(s)'
  <2>1. ~Running(s) => gone'[s] = {}
    BY <1>4 DEF ConversationInv, TurnOK
  <2> QED BY <1>2, <1>4, <1>6, <2>1, Untouched
<1> QED BY <1>5, <1>7, <1>9, <1>10 DEF ConversationInv

\* A turn begins.
LEMMA PrepareKeeps ==
  ASSUME ConversationInv, NEW t \in Turns, Session!Prepare(t)
  PROVE  ConversationInv'
<1>1. /\ pc[t] = "new" /\ Session!Goto(t, "prepared")
      /\ UNCHANGED <<stored, row, run, gone, count, sent, deleter, kept>>
      /\ first' = [first EXCEPT ![t] = stored.messages = <<>>] /\ wiped' = FALSE
      /\ crossed' = IF Session!UnderWay = {} THEN crossed ELSE crossed \cup Session!UnderWay \cup {t}
  BY DEF Session!Prepare
<1>2. row \in [title : 0 .. NumTurns, count : 0 .. 2 * NumTurns] /\ count \in [Turns -> 0 .. 2 * NumTurns]
      /\ first \in [Turns -> BOOLEAN] /\ deleter \in {"idle", "row"} /\ kept \in SUBSET Turns
      /\ crossed \in SUBSET (Turns \cup {Session!Deletion})
  BY DEF ConversationInv, Session!TypeOK, Turns
<1>3. Session!UnderWay \in SUBSET (Turns \cup {Session!Deletion})
  BY DEF Session!UnderWay, Session!Active, Turns
<1>4. crossed' \in SUBSET (Turns \cup {Session!Deletion}) /\ wiped' \in BOOLEAN
  BY <1>1, <1>2, <1>3
<1>5. first' \in [Turns -> BOOLEAN]
  BY <1>1, <1>2
<1>6. /\ sent' = [s \in Turns |-> sent'[s]] /\ \A s \in Turns \ {t} : sent'[s] = sent[s]
      /\ sent'[t] = SentAt("prepared", t)
  BY <1>1 DEF ConversationInv, TurnOK, SentAt
<1>7. ~Replied(pc, t)
  BY <1>1 DEF Replied
<1> QED BY <1>1, <1>2, <1>4, <1>5, <1>6, <1>7, TurnStepKeeps

\* What TurnStepKeeps asks of the variables that a step leaves alone.
LEMMA OtherTypes ==
  ASSUME ConversationInv
  PROVE  /\ row \in [title : 0 .. NumTurns, count : 0 .. 2 * NumTurns]
         /\ first \in [Turns -> BOOLEAN] /\ count \in [Turns -> 0 .. 2 * NumTurns]
         /\ deleter \in {"idle", "row"} /\ kept \in SUBSET Turns /\ wiped \in BOOLEAN
         /\ crossed \in SUBSET (Turns \cup {Session!Deletion})
         /\ sent = [s \in Turns |-> sent[s]]
BY DEF ConversationInv, Session!TypeOK, Turns

\* The tokens go out.
LEMMA WriteKeeps ==
  ASSUME ConversationInv, NEW t \in Turns, Session!Write(t)
  PROVE  ConversationInv'
<1>1. /\ pc[t] = "writing" /\ Session!Goto(t, "streaming")
      /\ UNCHANGED <<stored, row, run, gone, first, count, deleter, kept, wiped, crossed>>
      /\ sent' = [sent EXCEPT ![t] = Append(@, <<t, "body">>)]
  BY DEF Session!Write, Session!history
<1>2. sent[t] = <<>> /\ DOMAIN sent = Turns
  BY <1>1, ConversationTypes DEF ConversationInv, TurnOK, SentAt
<1>3. /\ sent' = [s \in Turns |-> sent'[s]] /\ \A s \in Turns \ {t} : sent'[s] = sent[s]
      /\ sent'[t] = Append(<<>>, <<t, "body">>)
  BY <1>1, <1>2
<1>4. sent'[t] = SentAt("streaming", t)
  BY <1>3 DEF SentAt
<1>5. Running(t) /\ ~Replied(pc, t)
  BY <1>1 DEF Running, Replied
<1> QED BY <1>1, <1>3, <1>4, <1>5, OtherTypes, TurnStepKeeps

\* The safety net finds nothing left to send, whoever's message is the last one.
LEMMA NetKeeps ==
  ASSUME ConversationInv, NEW t \in Turns, Session!Net(t)
  PROVE  ConversationInv'
<1>1. /\ pc[t] = "net" /\ Session!Goto(t, "count")
      /\ UNCHANGED <<stored, row, run, gone, first, count, deleter, kept, wiped, crossed>>
      /\ sent' = [sent EXCEPT ![t] =
             IF stored.messages = <<>> THEN @
             ELSE @ \o Session!Remainder(Session!Content(Session!Last(stored.messages)), @)]
  BY DEF Session!Net, Session!history
<1>2. PICK two : two = <<<<t, "body">>, <<t, "footer">>>>
  OBVIOUS
<1>3. sent[t] = two /\ DOMAIN sent = Turns /\ stored.messages \in Messages_
  BY <1>1, <1>2, ConversationTypes DEF ConversationInv, TurnOK, SentAt
<1>4. /\ sent' = [s \in Turns |-> sent'[s]] /\ \A s \in Turns \ {t} : sent'[s] = sent[s]
      /\ sent'[t] = IF stored.messages = <<>> THEN two
                    ELSE two \o Session!Remainder(Session!Content(Session!Last(stored.messages)), two)
  BY <1>1, <1>3
<1>5. two \o <<>> = two
  BY <1>2
<1>6. ASSUME stored.messages # <<>>
      PROVE  Session!Remainder(Session!Content(Session!Last(stored.messages)), two) = <<>>
  <2>1. PICK m \in Session!Message : m = Session!Last(stored.messages)
    BY <1>3, <1>6, EmptySeq DEF Session!Last, Messages_
  <2>2. PICK s \in Turns : m = Human(s) \/ m = Ai(s)
    BY SessionTypes
  <2>3. PICK content : content = Session!Content(m)
    OBVIOUS
  <2>4. PICK b : b = <<t, "body">>
    OBVIOUS
  <2>5. PICK f : f = <<t, "footer">>
    OBVIOUS
  <2>6. two = <<b, f>>
    BY <1>2, <2>4, <2>5
  <2>7. Session!Remainder(content, <<b, f>>) = <<>>
    <3>1. CASE m = Human(s)
      <4>1. PICK q : q = <<s, "question">>
        OBVIOUS
      <4>2. content = <<q>>
        BY <2>3, <3>1, <4>1, ContentOfReply
      <4> QED BY <4>2, RestOfReply
    <3>2. CASE m = Ai(s) /\ s = t
      <4>1. content = <<b, f>>
        BY <2>3, <2>4, <2>5, <3>2, ContentOfReply
      <4> QED BY <4>1, RestOfReply
    <3>3. CASE m = Ai(s) /\ s # t
      <4>1. PICK c : c = <<s, "body">>
        OBVIOUS
      <4>2. PICK g : g = <<s, "footer">>
        OBVIOUS
      <4>3. content = <<c, g>>
        BY <2>3, <3>3, <4>1, <4>2, ContentOfReply
      <4>4. c # b
        BY <2>4, <3>3, <4>1
      <4> QED BY <4>3, <4>4, RestOfReply
    <3> QED BY <2>2, <3>1, <3>2, <3>3
  <2> QED BY <2>1, <2>3, <2>6, <2>7
<1>7. sent'[t] = SentAt("count", t)
  BY <1>2, <1>4, <1>5, <1>6 DEF SentAt
<1>8. Running(t)
  BY <1>1 DEF Running
<1> QED BY <1>1, <1>4, <1>7, <1>8, OtherTypes, TurnStepKeeps

\* The messages are counted.
LEMMA CountKeeps ==
  ASSUME ConversationInv, NEW t \in Turns, Session!Count(t)
  PROVE  ConversationInv'
<1>1. /\ pc[t] = "count" /\ Session!Goto(t, "upsert")
      /\ UNCHANGED <<stored, row, run, gone, first, sent, deleter, kept, wiped, crossed>>
      /\ count' = [count EXCEPT ![t] = Len(stored.messages)]
  BY DEF Session!Count, Session!history
<1>2. Len(stored.messages) \in 0 .. 2 * NumTurns
  BY ConversationTypes, LengthBound DEF ConversationInv
<1>3. count' \in [Turns -> 0 .. 2 * NumTurns]
  BY <1>1, <1>2, OtherTypes
<1>4. /\ sent' = [s \in Turns |-> sent'[s]] /\ \A s \in Turns \ {t} : sent'[s] = sent[s]
      /\ sent'[t] = SentAt("upsert", t)
  BY <1>1 DEF ConversationInv, TurnOK, SentAt
<1>5. Running(t)
  BY <1>1 DEF Running
<1> QED BY <1>1, <1>3, <1>4, <1>5, OtherTypes, TurnStepKeeps

\* The turn ends.
LEMMA UpsertKeeps ==
  ASSUME ConversationInv, NEW t \in Turns, Session!Upsert(t)
  PROVE  ConversationInv'
<1>1. /\ pc[t] = "upsert" /\ Session!Goto(t, "done")
      /\ run' = [run EXCEPT ![t] = Session!Empty] /\ gone' = [gone EXCEPT ![t] = {}]
      /\ first' = [first EXCEPT ![t] = FALSE] /\ count' = [count EXCEPT ![t] = 0]
      /\ row' = [title |-> IF row = Session!NoRow THEN t ELSE row.title, count |-> count[t]]
      /\ kept' = kept \cup {t} /\ UNCHANGED <<stored, sent, deleter, wiped, crossed>>
  BY DEF Session!Upsert, Session!Over
<1>2. NumTurns \in Nat /\ Turns = 1 .. NumTurns
  BY SessionTypes
<1>3. row' \in [title : 0 .. NumTurns, count : 0 .. 2 * NumTurns]
  BY <1>1, <1>2, OtherTypes
<1>4. first' \in [Turns -> BOOLEAN] /\ count' \in [Turns -> 0 .. 2 * NumTurns] /\ kept' \in SUBSET Turns
  BY <1>1, <1>2, OtherTypes
<1>5. /\ sent' = [s \in Turns |-> sent'[s]] /\ \A s \in Turns \ {t} : sent'[s] = sent[s]
      /\ sent'[t] = SentAt("done", t)
  BY <1>1 DEF ConversationInv, TurnOK, SentAt
<1> QED BY <1>1, <1>3, <1>4, <1>5, OtherTypes, TurnStepKeeps

\* The turn breaks off.
LEMMA BreakKeeps ==
  ASSUME ConversationInv, NEW t \in Turns, Session!Break(t)
  PROVE  ConversationInv'
<1>1. /\ pc[t] \notin Session!Idle /\ Session!Goto(t, "broken")
      /\ run' = [run EXCEPT ![t] = Session!Empty] /\ gone' = [gone EXCEPT ![t] = {}]
      /\ first' = [first EXCEPT ![t] = FALSE] /\ count' = [count EXCEPT ![t] = 0]
      /\ UNCHANGED <<stored, row, sent, deleter, kept, wiped, crossed>>
  BY DEF Session!Break, Session!Over, Session!Active, Session!history
<1>2. first' \in [Turns -> BOOLEAN] /\ count' \in [Turns -> 0 .. 2 * NumTurns]
  BY <1>1, OtherTypes, SessionTypes
<1>3. sent' = [s \in Turns |-> sent'[s]] /\ \A s \in Turns \ {t} : sent'[s] = sent[s]
  BY <1>1 DEF ConversationInv
<1>4. pc[t] # "new"
  BY <1>1 DEF Session!Idle
<1> QED BY <1>1, <1>2, <1>3, <1>4, OtherTypes, TurnStepKeeps

\* The checkpoints go; a run that goes on will not write back the channels it leaves alone.
LEMMA DeleteThreadKeeps ==
  ASSUME ConversationInv, Session!DeleteThread
  PROVE  ConversationInv'
<1>1. /\ deleter' = "row" /\ stored' = Session!Empty
      /\ gone' = [t \in Turns |-> IF t \in Session!Active /\ pc[t] # "prepared" THEN Session!Channels ELSE {}]
      /\ kept' = {} /\ wiped' = TRUE
      /\ crossed' = IF Session!Active = {} THEN crossed \ {Session!Deletion}
                    ELSE crossed \cup Session!Active \cup {Session!Deletion}
      /\ UNCHANGED <<row, pc, run, first, count, sent>>
  BY DEF Session!DeleteThread, Turns
<1>2. Session!Empty \in Session!State /\ Session!Empty.messages = <<>>
  BY NoHistory DEF Session!Empty, Session!State, Messages_
<1>3. crossed' \in SUBSET (Turns \cup {Session!Deletion})
  <2>1. Session!Active \in SUBSET Turns
    BY DEF Session!Active, Turns
  <2> QED BY <1>1, <2>1, OtherTypes
<1>4. gone' \in [Turns -> SUBSET Session!Channels]
  BY <1>1
<1>5. Session!TypeOK'
  <2> USE DEF ConversationInv, Session!TypeOK, Turns
  <2> QED BY <1>1, <1>2, <1>3, <1>4
<1>6. History(stored'.messages, pc')
  BY <1>1, <1>2, NoHistory
<1>7. ASSUME NEW t \in Turns PROVE TurnOK(t)'
  <2>1. ~Running(t) => gone'[t] = {}
    BY <1>1, ConversationTypes DEF Running, Session!Active, Session!Idle, Turns
  <2> QED BY <1>1, <1>7, <2>1 DEF ConversationInv, TurnOK, Running
<1>8. sent' = [t \in Turns |-> sent'[t]]
  BY <1>1 DEF ConversationInv
<1> QED BY <1>5, <1>6, <1>7, <1>8 DEF ConversationInv

\* The row goes.
LEMMA DeleteRowKeeps ==
  ASSUME ConversationInv, Session!DeleteRow
  PROVE  ConversationInv'
<1>1. deleter' = "idle" /\ row' = Session!NoRow
      /\ UNCHANGED <<stored, pc, run, gone, first, count, sent, kept, wiped, crossed>>
  BY DEF Session!DeleteRow, Session!turns, Session!history
<1>2. row' \in [title : 0 .. NumTurns, count : 0 .. 2 * NumTurns]
  BY <1>1, SessionTypes DEF Session!NoRow
<1>3. Session!TypeOK'
  <2> USE DEF ConversationInv, Session!TypeOK, Turns
  <2> QED BY <1>1, <1>2
<1> QED BY <1>1, <1>3 DEF ConversationInv, TurnOK, Running

\* Where a session begins.
LEMMA ConversationInit == Session!Init => ConversationInv
<1> SUFFICES ASSUME Session!Init PROVE ConversationInv
  OBVIOUS
<1> USE DEF Session!Init
<1>1. Session!Empty \in Session!State /\ Session!Empty.messages = <<>>
  BY NoHistory DEF Session!Empty, Session!State, Messages_
<1>2. row \in [title : 0 .. NumTurns, count : 0 .. 2 * NumTurns] /\ count \in [Turns -> 0 .. 2 * NumTurns]
  BY SessionTypes DEF Session!NoRow, Turns
<1>3. Session!TypeOK
  BY <1>1, <1>2 DEF Session!TypeOK, Session!Idle, Turns
<1>4. History(stored.messages, pc)
  BY <1>1, NoHistory
<1>5. ASSUME NEW t \in Turns PROVE TurnOK(t)
  <2>1. pc[t] = "new" /\ run[t] = Session!Empty /\ gone[t] = {} /\ sent[t] = <<>>
    BY <1>5 DEF Turns
  <2>2. History(run[t].messages, pc)
    BY <1>1, <2>1, NoHistory
  <2> QED BY <2>1, <2>2 DEF TurnOK, SentAt
<1>6. sent = [t \in Turns |-> sent[t]]
  BY DEF Turns
<1> QED BY <1>3, <1>4, <1>5, <1>6 DEF ConversationInv

\* No step of the session spoils the conversation.
LEMMA ConversationStep ==
  ASSUME ConversationInv, [Session!Next]_(Session!vars)
  PROVE  ConversationInv'
<1>1. ASSUME NEW t \in Turns, Session!Turn(t) PROVE ConversationInv'
  BY <1>1, PrepareKeeps, BeginKeeps, IntentKeeps, RunToolsKeeps, WriteKeeps, UpdateKeeps, NetKeeps,
     CountKeeps, UpsertKeeps DEF Session!Turn
<1>2. ASSUME UNCHANGED Session!vars PROVE ConversationInv'
  <2>1. UNCHANGED <<stored, row, pc, run, gone, first, count, sent, deleter, kept, wiped, crossed>>
    BY <1>2 DEF Session!vars, Session!turns, Session!history
  <2>2. Session!TypeOK'
    <3> USE DEF ConversationInv, Session!TypeOK
    <3> QED BY <2>1
  <2> QED BY <2>1, <2>2 DEF ConversationInv, TurnOK, Running
<1> QED BY <1>1, <1>2, BreakKeeps, DeleteThreadKeeps, DeleteRowKeeps DEF Session!Next, Turns

(* The stored history is one of whole replies after their questions, and what the user has been
   sent of an acknowledged turn is its stored reply (ShownAndStoredAlike), for any number of
   turns, deletions and failures at a time: _record_session() and the three senders of
   chat_service.py. *)
THEOREM StoredAndShown == Session!Spec => []ShownAndStoredAlike
<1>1. ConversationInv => ShownAndStoredAlike
  <2> SUFFICES ASSUME ConversationInv PROVE Session!ShownAndStoredAlike
    BY DEF ShownAndStoredAlike
  <2>1. ASSUME NEW i \in DOMAIN stored.messages, stored.messages[i].by = "ai"
        PROVE  i > 1 /\ stored.messages[i - 1] = Session!Human(stored.messages[i].turn)
    BY <2>1 DEF ConversationInv, History, Human
  <2>2. ASSUME NEW t \in Turns, pc[t] = "done" PROVE sent[t] = Session!Content(Session!Ai(t))
    <3>1. sent[t] = <<<<t, "body">>, <<t, "footer">>>>
      BY <2>2 DEF ConversationInv, TurnOK, SentAt
    <3> QED BY <3>1, ContentOfReply DEF Ai
  <2> QED BY <2>1, <2>2 DEF Session!ShownAndStoredAlike, Turns
<1> QED BY <1>1, ConversationInit, ConversationStep, PTL DEF Session!Spec

-----------------------------------------------------------------------------
\* Of two at a time, both are remembered as crossed.
OverlapsAreKnown ==
    \A a, b \in Session!UnderWay : a # b => a \in crossed

\* While nothing has overlapped, what is stored has the profile, and so has every run; the first
\* turn of a stored thread is still its first when it begins.
ProfileIsKept ==
    crossed = {} =>
        /\ stored.messages # <<>> => stored.profile
        /\ \A t \in Turns :
              /\ gone[t] = {}
              /\ pc[t] = "prepared" => (first[t] <=> stored.messages = <<>>)
              /\ Running(t) => run[t].profile

\* A turn that is stored and whose place in the history nobody has disturbed.
Kept(t) == t \notin crossed /\ (t \in kept \/ pc[t] \in {"net", "count", "upsert"})
HoldsTurn(ms, t) == Session!Contains(ms, Human(t)) /\ Session!Contains(ms, Ai(t))

\* It is in what is stored and in every copy of it that may be stored again.
KeptInv ==
    /\ \A t \in kept : pc[t] = "done"
    /\ \A t \in Turns : Kept(t) =>
          /\ HoldsTurn(stored.messages, t)
          /\ \A s \in Turns \ {t} : Running(s) => "messages" \notin gone[s] /\ HoldsTurn(run[s].messages, t)

\* A session deleted by itself stays empty until somebody asks.
WipedInv ==
    wiped /\ Session!Deletion \notin crossed =>
        /\ Session!Active = {}
        /\ stored.messages = <<>>
        /\ deleter = "idle" => row = Session!NoRow

OverlapInv == OverlapsAreKnown /\ ProfileIsKept /\ KeptInv /\ WipedInv

\* Who is under way, by the steps the turns are at.
LEMMA WhoIsUnderWay ==
  ASSUME ConversationInv
  PROVE  /\ \A t \in Turns : t \in Session!UnderWay <=> pc[t] = "prepared" \/ Running(t)
         /\ \A t \in Turns : t \in Session!Active <=> pc[t] = "prepared" \/ Running(t)
         /\ \A t \in Turns : t # Session!Deletion
         /\ Session!UnderWay = Session!Active \cup (IF deleter = "idle" THEN {} ELSE {Session!Deletion})
         /\ Session!Active \in SUBSET Turns
BY ConversationTypes, SessionTypes DEF Session!UnderWay, Session!Active, Session!Idle, Session!Deletion, Turns,
                                       Running

\* A message that joins leaves the others where they are.
LEMMA HoldsOn ==
  ASSUME NEW ms \in Messages_, NEW m \in Session!Message, NEW t \in Turns
  PROVE  /\ HoldsTurn(ms, t) => HoldsTurn(Append(ms, m), t)
         /\ EndsWith(ms, Human(t)) /\ m = Ai(t) => HoldsTurn(Append(ms, m), t)
<1>1. PICK more : more = Append(ms, m)
  OBVIOUS
<1>2. /\ Len(ms) \in Nat /\ Len(more) = Len(ms) + 1 /\ more[Len(ms) + 1] = m
      /\ \A i \in 1 .. Len(ms) : more[i] = ms[i]
  BY <1>1, AppendProperties DEF Messages_
<1>3. EndsWith(ms, Human(t)) => Len(ms) \in 1 .. Len(ms) /\ ms[Len(ms)] = Human(t)
  BY <1>2, EmptySeq DEF EndsWith, Messages_
<1>4. \A i \in 1 .. Len(ms) : i \in 1 .. Len(more)
  BY <1>2
<1>5. Len(ms) + 1 \in 1 .. Len(more)
  BY <1>2
<1> QED BY <1>1, <1>2, <1>3, <1>4, <1>5 DEF HoldsTurn, Session!Contains

\* A superstep ends, and what is written has all that was stored and undisturbed.
LEMMA SuperstepKeepsOverlap ==
  ASSUME ConversationInv, ConversationInv', OverlapInv,
         NEW t \in Turns, NEW ch \in Session!State, NEW changed \in SUBSET Session!Channels,
         NEW next \in {"intent", "tools", "writing", "net"},
         pc[t] \in {"prepared", "intent", "tools", "streaming"},
         Session!Goto(t, next), Session!Save(t, ch, changed),
         UNCHANGED <<row, first, count, deleter, kept, wiped, crossed>>,
         \A s \in Turns \ {t} : Kept(s) => "messages" \notin gone[t] \ changed /\ HoldsTurn(ch.messages, s),
         next = "net" => "messages" \in changed /\ HoldsTurn(ch.messages, t),
         crossed = {} => ch.profile
  PROVE  OverlapInv'
<1>1. /\ pc' = [pc EXCEPT ![t] = next] /\ run' = [run EXCEPT ![t] = ch]
      /\ gone' = [gone EXCEPT ![t] = @ \ changed]
      /\ stored' = [c \in Session!Channels |-> IF c \in gone[t] \ changed THEN Session!Empty[c] ELSE ch[c]]
  BY DEF Session!Goto, Session!Save
<1>2. /\ pc'[t] = next /\ run'[t] = ch /\ gone'[t] = gone[t] \ changed
      /\ \A s \in Turns \ {t} : pc'[s] = pc[s] /\ run'[s] = run[s] /\ gone'[s] = gone[s]
  BY <1>1, ConversationTypes
<1>3. /\ stored'.messages = IF "messages" \in gone[t] \ changed THEN <<>> ELSE ch.messages
      /\ "profile" \notin gone[t] \ changed => stored'.profile = ch.profile
  <2>1. PICK left : left = gone[t] \ changed
    OBVIOUS
  <2>2. PICK all : all = stored'
    OBVIOUS
  <2>3. all = [c \in Session!Channels |-> IF c \in left THEN Session!Empty[c] ELSE ch[c]]
    BY <1>1, <2>1, <2>2
  <2>4. /\ all.messages = IF "messages" \in left THEN <<>> ELSE ch.messages
        /\ "profile" \notin left => all.profile = ch.profile
    BY <2>3, StoredTyped
  <2> QED BY <2>1, <2>2, <2>4
<1>4. t \in Session!UnderWay /\ t \in Session!Active
  BY WhoIsUnderWay DEF Running
<1>5. \A s \in Turns : (pc[s] = "prepared" \/ Running(s)) <=> (pc'[s] = "prepared" \/ Running(s)')
  BY <1>2 DEF Running
<1>6. Session!Active' = Session!Active /\ Session!UnderWay' = Session!UnderWay
  <2>1. \A s \in Turns : pc[s] \notin Session!Idle <=> pc'[s] \notin Session!Idle
    BY <1>2 DEF Session!Idle
  <2>2. Session!Active = {s \in Turns : pc[s] \notin Session!Idle}
        /\ Session!Active' = {s \in Turns : pc'[s] \notin Session!Idle}
    BY DEF Session!Active, Turns
  <2>3. Session!Active' = Session!Active
    BY <2>1, <2>2
  <2> QED BY <2>3 DEF Session!UnderWay
<1>7. OverlapsAreKnown'
  BY <1>6 DEF OverlapInv, OverlapsAreKnown
<1>8. \A s \in Turns \ {t} : t \notin crossed => pc[s] # "prepared" /\ ~Running(s)
  <2>1. \A s \in Turns : pc[s] = "prepared" \/ Running(s) => s \in Session!UnderWay
    BY WhoIsUnderWay
  <2> QED BY <1>4, <2>1 DEF OverlapInv, OverlapsAreKnown
<1>9. ProfileIsKept'
  <2> SUFFICES ASSUME crossed = {}
               PROVE  /\ stored'.profile
                      /\ \A s \in Turns : /\ gone'[s] = {} /\ pc'[s] # "prepared"
                                          /\ Running(s)' => run'[s].profile
    BY DEF ProfileIsKept, Turns
  <2>1. \A s \in Turns : gone[s] = {}
    BY DEF OverlapInv, ProfileIsKept
  <2>2. stored'.profile = ch.profile /\ ch.profile
    BY <1>3, <2>1
  <2>3. \A s \in Turns : gone'[s] = {}
    BY <1>2, <2>1
  <2>4. pc'[t] # "prepared" /\ run'[t].profile
    BY <1>2, <2>2
  <2>5. \A s \in Turns \ {t} : pc'[s] # "prepared" /\ ~Running(s)'
    BY <1>2, <1>8 DEF Running
  <2> QED BY <2>2, <2>3, <2>4, <2>5, Zenon
<1>10. KeptInv'
  <2>1. \A s \in kept : s \in Turns /\ pc[s] = "done"
    BY DEF OverlapInv, KeptInv, ConversationInv, Session!TypeOK, Turns
  <2>2. t \notin kept
    BY <2>1
  <2>3. \A s \in kept' : pc'[s] = "done"
    BY <1>2, <2>1, <2>2
  <2>4. \A s \in Turns \ {t} : Kept(s)' => Kept(s)
    BY <1>2 DEF Kept
  <2>5. Kept(t)' => next = "net" /\ t \notin crossed
    BY <1>2, <2>2 DEF Kept
  <2>6. ASSUME NEW s \in Turns, Kept(s)' PROVE HoldsTurn(stored'.messages, s)
    BY <1>3, <2>4, <2>5, <2>6
  <2>7. ASSUME NEW s \in Turns, Kept(s)', NEW r \in Turns \ {s}, Running(r)'
        PROVE  "messages" \notin gone'[r] /\ HoldsTurn(run'[r].messages, s)
    <3>1. CASE s = t
      <4>1. ~Running(r)
        BY <1>8, <2>5, <2>7, <3>1
      <4> QED BY <1>2, <2>7, <3>1, <4>1 DEF Running
    <3>2. CASE s # t /\ r = t
      BY <1>2, <2>4, <2>7, <3>2
    <3>3. CASE s # t /\ r # t
      <4>1. Kept(s) /\ Running(r)
        BY <1>2, <2>4, <2>7, <3>3 DEF Running
      <4>2. "messages" \notin gone[r] /\ HoldsTurn(run[r].messages, s)
        BY <4>1 DEF OverlapInv, KeptInv
      <4> QED BY <1>2, <3>3, <4>2
    <3> QED BY <3>1, <3>2, <3>3
  <2> QED BY <2>3, <2>6, <2>7 DEF KeptInv, Turns
<1>11. WipedInv'
  BY <1>4 DEF OverlapInv, WipedInv
<1> QED BY <1>7, <1>9, <1>10, <1>11 DEF OverlapInv

\* The run loads what is stored: everything that is undisturbed, and the profile.
LEMMA BeginKeepsOverlap ==
  ASSUME ConversationInv, ConversationInv', OverlapInv, NEW t \in Turns, Session!Begin(t)
  PROVE  OverlapInv'
<1>1. PICK more : more = Append(stored.messages, Human(t))
  OBVIOUS
<1>2. PICK profile : profile = (stored.profile \/ first[t])
  OBVIOUS
<1>3. PICK ch : ch = [messages |-> more, profile |-> profile, context |-> stored.context]
  OBVIOUS
<1>4. PICK changed : changed = {"messages"} \cup (IF first[t] THEN {"profile"} ELSE {})
  OBVIOUS
<1>5. /\ pc[t] = "prepared" /\ Session!Goto(t, "intent") /\ Session!Save(t, ch, changed)
      /\ UNCHANGED <<row, first, count, deleter, kept, wiped, crossed>>
  BY <1>1, <1>2, <1>3, <1>4 DEF Session!Begin, Session!history, Human
<1>6. /\ stored.messages \in Messages_ /\ stored.context \in SUBSET Session!Turns
      /\ stored.profile \in BOOLEAN /\ first[t] \in BOOLEAN
  BY ConversationTypes DEF ConversationInv, Session!TypeOK, Session!State, Turns
<1>7. profile \in BOOLEAN
  BY <1>2, <1>6
<1>8. more \in Messages_
  BY <1>1, <1>6, AppendProperties, SessionTypes DEF Messages_
<1>9. ch \in Session!State /\ ch.messages = more /\ ch.profile = profile
  BY <1>3, <1>6, <1>7, <1>8 DEF Session!State, Messages_
<1>10. changed \in SUBSET Session!Channels /\ "messages" \in changed
  BY <1>4 DEF Session!Channels
<1>11. \A s \in Turns \ {t} : Kept(s) => "messages" \notin gone[t] \ changed /\ HoldsTurn(ch.messages, s)
  <2>1. \A s \in Turns : Kept(s) => HoldsTurn(stored.messages, s)
    BY DEF OverlapInv, KeptInv
  <2> QED BY <1>1, <1>6, <1>9, <1>10, <2>1, HoldsOn, SessionTypes
<1>12. crossed = {} => ch.profile
  <2> SUFFICES ASSUME crossed = {} PROVE ch.profile
    OBVIOUS
  <2>1. (stored.messages # <<>> => stored.profile) /\ (first[t] <=> stored.messages = <<>>)
    BY <1>5 DEF OverlapInv, ProfileIsKept
  <2>2. stored.profile \/ first[t]
    BY <2>1, Zenon
  <2> QED BY <1>2, <1>9, <2>2, Zenon
<1> QED BY <1>5, <1>9, <1>10, <1>11, <1>12, SuperstepKeepsOverlap

\* The intent node and the tools leave the messages and the profile as they are.
LEMMA ContextKeepsOverlap ==
  ASSUME ConversationInv, ConversationInv', OverlapInv, NEW t \in Turns, NEW added \in SUBSET Session!Turns,
         NEW next \in {"tools", "writing"}, pc[t] \in {"intent", "tools"},
         Session!Goto(t, next), Session!Save(t, [run[t] EXCEPT !.context = added], {"context"}),
         UNCHANGED <<row, first, count, deleter, kept, wiped, crossed>>
  PROVE  OverlapInv'
<1>1. PICK ch : ch = [run[t] EXCEPT !.context = added]
  OBVIOUS
<1>2. run[t] \in Session!State /\ Running(t)
  BY ConversationTypes DEF Running
<1>3. ch \in Session!State /\ ch.messages = run[t].messages /\ ch.profile = run[t].profile
  BY <1>1, <1>2 DEF Session!State
<1>4. \A s \in Turns \ {t} : Kept(s) => "messages" \notin gone[t] \ {"context"} /\ HoldsTurn(ch.messages, s)
  BY <1>2, <1>3 DEF OverlapInv, KeptInv
<1>5. crossed = {} => ch.profile
  <2>1. crossed = {} => run[t].profile
    BY <1>2 DEF OverlapInv, ProfileIsKept
  <2> QED BY <1>3, <2>1, Zenon
<1> QED BY <1>1, <1>3, <1>4, <1>5, SuperstepKeepsOverlap DEF Session!Channels

\* The reply joins what the run holds, whose last message is its question.
LEMMA UpdateKeepsOverlap ==
  ASSUME ConversationInv, ConversationInv', OverlapInv, NEW t \in Turns, Session!Update(t)
  PROVE  OverlapInv'
<1>1. PICK more : more = Append(run[t].messages, Ai(t))
  OBVIOUS
<1>2. PICK ch : ch = [run[t] EXCEPT !.messages = more]
  OBVIOUS
<1>3. /\ pc[t] = "streaming" /\ Session!Goto(t, "net") /\ Session!Save(t, ch, {"messages"})
      /\ UNCHANGED <<row, first, count, deleter, kept, wiped, crossed>>
  BY <1>1, <1>2 DEF Session!Update, Session!history, Ai
<1>4. run[t] \in Session!State /\ run[t].messages \in Messages_ /\ Running(t)
  BY <1>3, ConversationTypes DEF Running
<1>5. more \in Messages_
  BY <1>1, <1>4, AppendProperties, SessionTypes DEF Messages_
<1>6. ch \in Session!State /\ ch.messages = more /\ ch.profile = run[t].profile
  BY <1>2, <1>4, <1>5 DEF Session!State, Messages_
<1>7. \A s \in Turns \ {t} : Kept(s) => "messages" \notin gone[t] \ {"messages"} /\ HoldsTurn(ch.messages, s)
  <2>1. \A s \in Turns \ {t} : Kept(s) => HoldsTurn(run[t].messages, s)
    BY <1>4 DEF OverlapInv, KeptInv
  <2> QED BY <1>1, <1>4, <1>6, <2>1, HoldsOn, SessionTypes
<1>8. HoldsTurn(ch.messages, t)
  <2>1. EndsWith(run[t].messages, Human(t))
    BY <1>3 DEF ConversationInv, TurnOK
  <2> QED BY <1>1, <1>4, <1>6, <2>1, HoldsOn, SessionTypes
<1>9. crossed = {} => ch.profile
  <2>1. crossed = {} => run[t].profile
    BY <1>4 DEF OverlapInv, ProfileIsKept
  <2> QED BY <1>6, <2>1, Zenon
<1> QED BY <1>3, <1>6, <1>7, <1>8, <1>9, SuperstepKeepsOverlap DEF Session!Channels

\* A turn goes on without saving anything.
LEMMA PlainStepKeepsOverlap ==
  ASSUME ConversationInv, OverlapInv, NEW t \in Turns, NEW next \in {"streaming", "count", "upsert"},
         Session!Goto(t, next), Running(t), next = "streaming" <=> ~Replied(pc, t),
         UNCHANGED <<stored, row, run, gone, first, deleter, kept, wiped, crossed>>
  PROVE  OverlapInv'
<1>1. pc'[t] = next /\ \A s \in Turns \ {t} : pc'[s] = pc[s]
  BY ConversationTypes DEF Session!Goto
<1>2. \A s \in Turns : (Running(s)' <=> Running(s)) /\ (pc[s] \in Session!Idle <=> pc'[s] \in Session!Idle)
  BY <1>1 DEF Running, Session!Idle
<1>3. \A s \in Turns : pc'[s] = "prepared" => pc[s] = "prepared"
  BY <1>1
<1>4. t \notin kept
  BY DEF OverlapInv, KeptInv, Running
<1>5. \A s \in Turns : Kept(s)' => Kept(s)
  BY <1>1, <1>4 DEF Kept, Replied, Running
<1>6. Session!Active' = Session!Active
  BY <1>2 DEF Session!Active, Turns
<1>7. OverlapsAreKnown'
  BY <1>6 DEF OverlapInv, OverlapsAreKnown, Session!UnderWay
<1>8. ProfileIsKept'
  BY <1>2, <1>3, Zenon DEF OverlapInv, ProfileIsKept, Turns
<1>9. KeptInv'
  <2>1. \A s \in kept' : pc'[s] = "done"
    BY <1>1, <1>4, ConversationTypes DEF OverlapInv, KeptInv, ConversationInv, Session!TypeOK, Turns
  <2> QED BY <1>2, <1>5, <2>1 DEF OverlapInv, KeptInv
<1>10. WipedInv'
  BY <1>6 DEF OverlapInv, WipedInv
<1> QED BY <1>7, <1>8, <1>9, <1>10 DEF OverlapInv

\* A turn is over.
LEMMA OverKeepsOverlap ==
  ASSUME ConversationInv, OverlapInv, NEW t \in Turns, NEW next \in {"done", "broken"},
         Session!Over(t, next), pc[t] = "prepared" \/ Running(t),
         \/ next = "broken" /\ UNCHANGED <<row, kept>>
         \/ next = "done" /\ pc[t] = "upsert" /\ kept' = kept \cup {t},
         UNCHANGED <<stored, deleter, wiped, crossed>>
  PROVE  OverlapInv'
<1>1. /\ pc' = [pc EXCEPT ![t] = next] /\ run' = [run EXCEPT ![t] = Session!Empty]
      /\ gone' = [gone EXCEPT ![t] = {}] /\ first' = [first EXCEPT ![t] = FALSE]
  BY DEF Session!Over, Session!Goto
<1>2. /\ pc'[t] = next /\ gone'[t] = {}
      /\ \A s \in Turns \ {t} : pc'[s] = pc[s] /\ run'[s] = run[s] /\ gone'[s] = gone[s]
  BY <1>1, ConversationTypes
<1>3. \A s \in Turns \ {t} : first'[s] = first[s]
  BY <1>1, OtherTypes, Zenon
<1>4. t \in Session!Active /\ t \notin kept
  BY WhoIsUnderWay DEF OverlapInv, KeptInv, Running
<1>5. Session!Active' \in SUBSET Session!Active
  BY <1>2, <1>4 DEF Session!Active, Session!Idle, Turns
<1>6. OverlapsAreKnown'
  <2>1. Session!UnderWay' \in SUBSET Session!UnderWay
    BY <1>5 DEF Session!UnderWay
  <2> QED BY <2>1 DEF OverlapInv, OverlapsAreKnown
<1>7. ProfileIsKept'
  <2> SUFFICES ASSUME crossed = {}
               PROVE  /\ stored.messages # <<>> => stored.profile
                      /\ \A s \in Turns : /\ gone'[s] = {}
                                          /\ pc'[s] = "prepared" => (first'[s] <=> stored.messages = <<>>)
                                          /\ Running(s)' => run'[s].profile
    BY DEF ProfileIsKept, Turns
  <2>1. ~Running(t)' /\ pc'[t] # "prepared"
    BY <1>2 DEF Running
  <2>2. ASSUME NEW s \in Turns \ {t}
        PROVE  /\ gone'[s] = {}
               /\ pc'[s] = "prepared" => (first'[s] <=> stored.messages = <<>>)
               /\ Running(s)' => run'[s].profile
    BY <1>2, <1>3, <2>2, Zenon DEF OverlapInv, ProfileIsKept, Running
  <2>3. stored.messages # <<>> => stored.profile
    BY Zenon DEF OverlapInv, ProfileIsKept
  <2> QED BY <1>2, <2>1, <2>2, <2>3, Zenon
<1>8. KeptInv'
  <2>1. \A s \in kept' : pc'[s] = "done"
    BY <1>2, <1>4 DEF OverlapInv, KeptInv, ConversationInv, Session!TypeOK, Turns
  <2>2. \A s \in Turns : Kept(s)' => Kept(s)
    BY <1>2 DEF Kept
  <2>3. \A s \in Turns : Running(s)' => s # t /\ Running(s)
    BY <1>2 DEF Running
  <2> QED BY <1>2, <2>1, <2>2, <2>3 DEF OverlapInv, KeptInv
<1>9. WipedInv'
  BY <1>4 DEF OverlapInv, WipedInv
<1> QED BY <1>6, <1>7, <1>8, <1>9 DEF OverlapInv

\* A turn begins; whoever is under way is remembered, and so is it.
LEMMA PrepareKeepsOverlap ==
  ASSUME ConversationInv, OverlapInv, NEW t \in Turns, Session!Prepare(t)
  PROVE  OverlapInv'
<1>1. /\ pc[t] = "new" /\ pc' = [pc EXCEPT ![t] = "prepared"]
      /\ UNCHANGED <<stored, row, run, gone, deleter, kept>>
      /\ first' = [first EXCEPT ![t] = stored.messages = <<>>] /\ wiped' = FALSE
      /\ crossed' = IF Session!UnderWay = {} THEN crossed ELSE crossed \cup Session!UnderWay \cup {t}
  BY DEF Session!Prepare, Session!Goto
<1>2. pc'[t] = "prepared" /\ \A s \in Turns \ {t} : pc'[s] = pc[s]
  BY <1>1, ConversationTypes
<1>3. /\ first'[t] <=> stored.messages = <<>>
      /\ \A s \in Turns \ {t} : first'[s] = first[s]
  BY <1>1, OtherTypes, Zenon
<1>4. t \notin kept
  BY <1>1 DEF OverlapInv, KeptInv
<1>5. Session!Active' = Session!Active \cup {t}
  BY <1>2 DEF Session!Active, Session!Idle, Turns
<1>6. Session!UnderWay' = Session!UnderWay \cup {t}
  BY <1>1, <1>5 DEF Session!UnderWay
<1>7. OverlapsAreKnown'
  BY <1>1, <1>6 DEF OverlapsAreKnown
<1>8. \A s \in Turns : Running(s)' <=> s # t /\ Running(s)
  BY <1>1, <1>2 DEF Running
<1>9. ProfileIsKept'
  <2> SUFFICES ASSUME crossed' = {}
               PROVE  /\ stored.messages # <<>> => stored.profile
                      /\ \A s \in Turns : /\ gone[s] = {}
                                          /\ pc'[s] = "prepared" => (first'[s] <=> stored.messages = <<>>)
                                          /\ Running(s)' => run[s].profile
    BY <1>1 DEF ProfileIsKept
  <2>1. crossed = {}
    BY <1>1
  <2>2. ASSUME NEW s \in Turns \ {t}
        PROVE  /\ gone[s] = {}
               /\ pc'[s] = "prepared" => (first'[s] <=> stored.messages = <<>>)
               /\ Running(s)' => run[s].profile
    BY <1>2, <1>3, <1>8, <2>1, <2>2, Zenon DEF OverlapInv, ProfileIsKept
  <2>3. gone[t] = {} /\ (stored.messages # <<>> => stored.profile)
    BY <2>1, Zenon DEF OverlapInv, ProfileIsKept
  <2> QED BY <1>3, <1>8, <2>2, <2>3, Zenon
<1>10. KeptInv'
  <2>1. \A s \in kept' : pc'[s] = "done"
    BY <1>1, <1>2, <1>4 DEF OverlapInv, KeptInv, ConversationInv, Session!TypeOK, Turns
  <2>2. \A s \in Turns : Kept(s)' => Kept(s)
    BY <1>1, <1>2, <1>4 DEF Kept
  <2> QED BY <1>1, <1>8, <2>1, <2>2 DEF OverlapInv, KeptInv
<1>11. WipedInv'
  BY <1>1 DEF WipedInv
<1> QED BY <1>7, <1>9, <1>10, <1>11 DEF OverlapInv

\* The checkpoints are deleted; the turns under way are remembered, and so is the deletion.
LEMMA DeleteThreadKeepsOverlap ==
  ASSUME ConversationInv, OverlapInv, Session!DeleteThread
  PROVE  OverlapInv'
<1>1. /\ deleter = "idle" /\ deleter' = "row" /\ stored' = Session!Empty
      /\ gone' = [t \in Turns |-> IF t \in Session!Active /\ pc[t] # "prepared" THEN Session!Channels ELSE {}]
      /\ kept' = {} /\ wiped' = TRUE
      /\ crossed' = IF Session!Active = {} THEN crossed \ {Session!Deletion}
                    ELSE crossed \cup Session!Active \cup {Session!Deletion}
      /\ UNCHANGED <<pc, run>>
  BY DEF Session!DeleteThread, Turns
<1>2. stored'.messages = <<>>
  BY <1>1 DEF Session!Empty
<1>3. Session!Active' = Session!Active
  BY <1>1 DEF Session!Active
<1>4. Session!UnderWay' = Session!Active \cup {Session!Deletion}
  BY <1>1, <1>3 DEF Session!UnderWay
<1>5. OverlapsAreKnown'
  BY <1>1, <1>4 DEF OverlapsAreKnown
<1>6. \A s \in Turns : pc[s] = "prepared" \/ Running(s) => s \in Session!Active
  BY WhoIsUnderWay
<1>7. ProfileIsKept'
  <2> SUFFICES ASSUME crossed' = {}
               PROVE  \A s \in Turns : gone'[s] = {} /\ pc[s] # "prepared" /\ ~Running(s)
    BY <1>1, <1>2 DEF ProfileIsKept, Running
  <2>1. Session!Active = {}
    BY <1>1
  <2> QED BY <1>1, <1>6, <2>1
<1>8. KeptInv'
  <2>1. \A s \in Turns : ~Kept(s)'
    BY <1>1, <1>6 DEF Kept, Running
  <2> QED BY <1>1, <2>1 DEF KeptInv
<1>9. WipedInv'
  BY <1>1, <1>2, <1>3 DEF WipedInv
<1> QED BY <1>5, <1>7, <1>8, <1>9 DEF OverlapInv

\* The row is deleted.
LEMMA DeleteRowKeepsOverlap ==
  ASSUME ConversationInv, OverlapInv, Session!DeleteRow
  PROVE  OverlapInv'
<1>1. deleter' = "idle" /\ row' = Session!NoRow
      /\ UNCHANGED <<stored, pc, run, gone, first, kept, wiped, crossed>>
  BY DEF Session!DeleteRow, Session!turns, Session!history
<1>2. Session!Active' = Session!Active
  BY <1>1 DEF Session!Active
<1>3. Session!UnderWay' \in SUBSET Session!UnderWay
  BY <1>1, <1>2 DEF Session!UnderWay
<1>4. OverlapsAreKnown'
  BY <1>1, <1>3 DEF OverlapInv, OverlapsAreKnown
<1>5. ProfileIsKept'
  BY <1>1, Zenon DEF OverlapInv, ProfileIsKept, Running
<1>6. KeptInv'
  BY <1>1 DEF OverlapInv, KeptInv, Kept, Running
<1>7. WipedInv'
  BY <1>1, <1>2 DEF OverlapInv, WipedInv
<1> QED BY <1>4, <1>5, <1>6, <1>7 DEF OverlapInv

\* Nothing has overlapped where a session begins.
LEMMA OverlapInit == Session!Init => OverlapInv
<1> SUFFICES ASSUME Session!Init PROVE OverlapInv
  OBVIOUS
<1>1. /\ \A t \in Turns : pc[t] = "new" /\ gone[t] = {}
      /\ stored.messages = <<>> /\ kept = {} /\ wiped = FALSE /\ deleter = "idle"
  BY DEF Session!Init, Session!Empty, Turns
<1>2. Session!Active = {} /\ Session!UnderWay = {}
  BY <1>1 DEF Session!UnderWay, Session!Active, Session!Idle, Turns
<1>3. OverlapsAreKnown
  BY <1>2 DEF OverlapsAreKnown
<1>4. ProfileIsKept
  BY <1>1 DEF ProfileIsKept, Running
<1>5. KeptInv
  BY <1>1 DEF KeptInv, Kept
<1>6. WipedInv
  BY <1>1 DEF WipedInv
<1> QED BY <1>3, <1>4, <1>5, <1>6 DEF OverlapInv

\* No step of the session spoils what is known of overlaps.
LEMMA OverlapStep ==
  ASSUME ConversationInv, ConversationInv', OverlapInv, [Session!Next]_(Session!vars)
  PROVE  OverlapInv'
<1>1. ASSUME NEW t \in Turns, Session!Intent(t) PROVE OverlapInv'
  <2>1. PICK next \in {"tools", "writing"} : Session!Goto(t, next)
    BY <1>1 DEF Session!Intent
  <2>2. /\ pc[t] = "intent" /\ Session!Save(t, [run[t] EXCEPT !.context = {}], {"context"})
        /\ UNCHANGED <<row, first, count, deleter, kept, wiped, crossed>>
    BY <1>1 DEF Session!Intent, Session!history, Session!Merge
  <2> QED BY <2>1, <2>2, ContextKeepsOverlap
<1>2. ASSUME NEW t \in Turns, Session!RunTools(t) PROVE OverlapInv'
  <2>1. PICK added : added = run[t].context \cup {t}
    OBVIOUS
  <2>2. added \in SUBSET Session!Turns
    BY <2>1, ConversationTypes DEF Session!State, Turns
  <2>3. /\ pc[t] = "tools" /\ Session!Save(t, [run[t] EXCEPT !.context = added], {"context"})
        /\ UNCHANGED <<row, first, count, deleter, kept, wiped, crossed>> /\ Session!Goto(t, "writing")
    BY <1>2, <2>1 DEF Session!RunTools, Session!history, Session!Merge
  <2> QED BY <2>2, <2>3, ContextKeepsOverlap
<1>3. ASSUME NEW t \in Turns, Session!Write(t) \/ Session!Net(t) \/ Session!Count(t) PROVE OverlapInv'
  <2>1. PICK next \in {"streaming", "count", "upsert"} :
           /\ Session!Goto(t, next) /\ Running(t) /\ (next = "streaming" <=> ~Replied(pc, t))
           /\ UNCHANGED <<stored, row, run, gone, first, deleter, kept, wiped, crossed>>
    BY <1>3 DEF Session!Write, Session!Net, Session!Count, Session!history, Running, Replied
  <2> QED BY <2>1, PlainStepKeepsOverlap
<1>4. ASSUME NEW t \in Turns, Session!Upsert(t) PROVE OverlapInv'
  BY <1>4, OverKeepsOverlap DEF Session!Upsert, Running
<1>5. ASSUME NEW t \in Turns, Session!Break(t) PROVE OverlapInv'
  <2>1. pc[t] = "prepared" \/ Running(t)
    BY <1>5, WhoIsUnderWay DEF Session!Break
  <2> QED BY <1>5, <2>1, OverKeepsOverlap DEF Session!Break, Session!history
<1>6. ASSUME UNCHANGED Session!vars PROVE OverlapInv'
  <2>1. UNCHANGED <<stored, row, pc, run, gone, first, count, deleter, kept, wiped, crossed>>
    BY <1>6 DEF Session!vars, Session!turns, Session!history
  <2>2. Session!Active' = Session!Active /\ Session!UnderWay' = Session!UnderWay
    BY <2>1 DEF Session!Active, Session!UnderWay
  <2>3. OverlapsAreKnown' /\ WipedInv'
    BY <2>1, <2>2 DEF OverlapInv, OverlapsAreKnown, WipedInv
  <2>4. ProfileIsKept'
    BY <2>1, Zenon DEF OverlapInv, ProfileIsKept, Running
  <2>5. KeptInv'
    BY <2>1 DEF OverlapInv, KeptInv, Kept, Running
  <2> QED BY <2>3, <2>4, <2>5 DEF OverlapInv
<1>7. ASSUME NEW t \in Turns, Session!Turn(t) PROVE OverlapInv'
  BY <1>1, <1>2, <1>3, <1>4, <1>7, PrepareKeepsOverlap, BeginKeepsOverlap, UpdateKeepsOverlap DEF Session!Turn
<1> QED BY <1>5, <1>6, <1>7, DeleteThreadKeepsOverlap, DeleteRowKeepsOverlap DEF Session!Next, Turns

\* Both invariants together are kept by every step.
LEMMA SessionInvariant == Session!Spec => [](ConversationInv /\ OverlapInv)
BY ConversationInit, OverlapInit, ConversationStep, OverlapStep, PTL DEF Session!Spec

(* A reply is written from the context of its own turn, and while nothing has overlapped with the
   user's profile (WrittenFromTheRightInputs), for any number of turns, deletions and failures at
   a time: the channels of state.py and _prepare_inputs() of chat_service.py. *)
THEOREM RightInputs == Session!Spec => []WrittenFromTheRightInputs
<1>1. ConversationInv /\ OverlapInv => WrittenFromTheRightInputs
  <2> SUFFICES ASSUME ConversationInv, OverlapInv PROVE Session!WrittenFromTheRightInputs
    BY DEF WrittenFromTheRightInputs
  <2>1. ASSUME NEW t \in Turns, pc[t] \in {"writing", "streaming"}
        PROVE  run[t].context \subseteq {t} /\ (crossed = {} => run[t].profile)
    <3>1. Running(t)
      BY <2>1 DEF Running
    <3>2. run[t].context \subseteq {t}
      BY <2>1 DEF ConversationInv, TurnOK
    <3>3. crossed = {} => run[t].profile
      BY <3>1, Zenon DEF OverlapInv, ProfileIsKept
    <3> QED BY <3>2, <3>3, Zenon
  <2>2. Session!TypeOK
    BY DEF ConversationInv
  <2> QED BY <2>1, <2>2, Zenon DEF Session!WrittenFromTheRightInputs, Turns
<1> QED BY <1>1, SessionInvariant, PTL

(* An acknowledged turn during which no other turn and no deletion was under way stays in the
   history, whatever overlaps before and after it (NoTurnLostUnlessCrossed): every run loads the
   newest checkpoint and saves its own copy of the channels. *)
THEOREM UndisturbedTurnsStay == Session!Spec => []NoTurnLostUnlessCrossed
<1>1. ConversationInv /\ OverlapInv => NoTurnLostUnlessCrossed
  <2> SUFFICES ASSUME ConversationInv, OverlapInv, NEW t \in kept \ crossed PROVE ~Session!Lost(t)
    BY DEF NoTurnLostUnlessCrossed, Session!NoTurnLostUnlessCrossed
  <2>1. t \in Turns
    BY DEF ConversationInv, Session!TypeOK, Turns
  <2>2. HoldsTurn(stored.messages, t)
    BY <2>1 DEF OverlapInv, KeptInv, Kept
  <2> QED BY <2>2 DEF HoldsTurn, Session!Lost, Human, Ai
<1> QED BY <1>1, SessionInvariant, PTL

(* A session deleted while no turn was under way stays deleted, history and row, until somebody
   asks again (DeletedStaysDeletedUnlessCrossed): delete_session() of api/chat.py. *)
THEOREM DeletedStaysDeleted == Session!Spec => []DeletedStaysDeletedUnlessCrossed
<1>1. OverlapInv => DeletedStaysDeletedUnlessCrossed
  BY DEF OverlapInv, WipedInv, DeletedStaysDeletedUnlessCrossed, Session!DeletedStaysDeletedUnlessCrossed
<1> QED BY <1>1, SessionInvariant, PTL

(* ------------------------ the stock analysis memory ------------------------ *)

\* What is stored of an outcome, a row, an analysis under way, a validation that scores.
Marks == [exit : 0..LastDay, forming : BOOLEAN, ok : BOOLEAN]
Row == [ticker : Tickers, created : 0..3 * LastDay + 2, choice : Forecasts, outlook : SUBSET UNION Outlooks,
        price : {Close[s][d] : s \in Tickers, d \in 0..LastDay}, snap : Snapshots,
        label : Marks \cup {Unscored}, outcome : SUBSET UNION Outlooks, blind : BOOLEAN]
Analysis == [pc : {"report", "look", "insert"}, ticker : Tickers, bar : 0..LastDay, asof : Int,
             seen : SUBSET (Tickers \X Int), choice : Forecasts, outlook : SUBSET UNION Outlooks, blind : BOOLEAN]
IsScoring(x) ==
    /\ x \in [pc : {"score"}, todo : {x.todo}, writes : {x.writes}, aborted : BOOLEAN]
    /\ x.todo \in Seq(Nat) /\ \A k \in DOMAIN x.todo : x.todo[k] \in Ids
    /\ x.writes \in [DOMAIN x.writes -> Marks] /\ DOMAIN x.writes \subseteq Ids

\* The types of the state.
MemoryTypes ==
    /\ now \in 0..3 * LastDay + 2
    /\ rows \in Seq(Row)
    /\ asking \in [Askers -> Analysis \cup {Idle}]
    /\ fill \in [pc : {"off", "scan", "wait"}, todo : SUBSET (Tickers \X (0..LastDay)),
                 existing : SUBSET (Tickers \X (0..LastDay))]
    /\ valid = [v \in Validators |-> valid[v]]
    /\ \A v \in Validators : valid[v] \in {Idle, [pc |-> "horizons"]} \/ IsScoring(valid[v])

\* Requests are about today; the back-fill waits for its analysis, which is of a past day.
AskersOK ==
    /\ \A a \in Requests : asking[a] # Idle => asking[a].asof = Live
    /\ asking[Filler] # Idle => fill.pc = "wait" /\ asking[Filler].asof = Midnight(asking[Filler].bar)

\* An outcome is of the bar it has to be of and, unless that one was forming, of its close.
Fits(i, label) ==
    /\ label.exit \in Exits(i)
    /\ label.forming \/ label.ok = Judge(rows[i].choice, rows[i].price, Close[rows[i].ticker][label.exit])

\* The outcomes stored, and those a validation is about to store.
LabelsOK ==
    /\ \A i \in Scored(Ids) : Fits(i, rows[i].label)
    /\ \A v \in Validators : Scoring(v) => \A i \in DOMAIN valid[v].writes : Fits(i, valid[v].writes[i])

\* Of a stock and day later rows are of later moments, none of one to come.
OrderOK ==
    /\ \A i \in Ids : rows[i].created <= now
    /\ \A i, j \in Ids : i < j /\ rows[i].ticker = rows[j].ticker /\ Day(rows[i].created) = Day(rows[j].created)
                         => rows[i].created <= rows[j].created

\* The back-fill is about days before today, and knows of every row of those days: requests
\* store under today, and what it stores itself it notes.
FillOK ==
    fill.pc # "off" =>
        \E end \in 0..LastDay :
            /\ end < Day(now)
            /\ \A p \in fill.todo : p[2] <= end
            /\ asking[Filler] # Idle => /\ asking[Filler].bar <= end
                                        /\ <<asking[Filler].ticker, asking[Filler].bar>> \notin fill.existing
            /\ \A i \in Ids : Day(rows[i].created) <= end =>
                    <<rows[i].ticker, Day(rows[i].created)>> \in fill.existing

\* What was no duplicate when it was looked for is none until it is stored, as long as nothing
\* of its stock is stored.
LookOK ==
    \A a \in Askers : asking[a] # Idle /\ asking[a].pc = "insert" /\ ~asking[a].blind => Duplicates(a) = {}

\* The inductive invariant.
MemoryInv ==
    /\ MemoryTypes /\ AskersOK /\ LabelsOK /\ OrderOK /\ FillOK /\ LookOK
    /\ NoLookAheadUnlessCalendarsDiffer /\ NoTwinUnlessBlind

(* A day is three thirds. *)
LEMMA DayIs ==
  ASSUME NEW t \in Nat
  PROVE  Day(t) \in Nat /\ 3 * Day(t) <= t /\ t < 3 * Day(t) + 3
BY DEF Day

(* Later moments are not of earlier days. *)
LEMMA DaysGrow ==
  ASSUME NEW t \in Nat, NEW u \in Nat, t <= u
  PROVE  Day(t) <= Day(u)
BY DEF Day

(* The constants. *)
LEMMA MemoryConstants ==
  /\ LastDay \in Nat /\ Horizon \in Nat /\ Horizon > 0 /\ EndAgo \in Nat /\ EndAgo > 0
  /\ \A s \in Tickers : Trading[s] \subseteq 0..LastDay
  /\ \A s \in Tickers, d \in 0..LastDay : Snap[s][d] \in Snapshots
  /\ Answers \subseteq Forecasts /\ Asked \subseteq Tickers /\ Loop \in Validators
  /\ Filler \notin Requests /\ Filler \in Askers /\ Requests \subseteq Askers
  /\ 3 * LastDay + 2 \in Nat
BY CalendarAssumption DEF Filler, Askers

(* Of two snapshots neither is more like the other. *)
LEMMA AlikeEitherWay ==
  ASSUME NEW x \in Snapshots, NEW y \in Snapshots
  PROVE  Similarity(x, y) = Similarity(y, x) /\ Similarity(x, y) \in Int
<1>1. x.rsi \in Int /\ y.rsi \in Int
  BY DEF Snapshots
<1>2. Abs(x.rsi - y.rsi) = Abs(y.rsi - x.rsi) /\ Abs(x.rsi - y.rsi) \in Int
  BY <1>1 DEF Abs
<1> DEFINE gap == 30 - Abs(x.rsi - y.rsi)
<1>3. Max({0, gap}) \in Int /\ 30 - Abs(y.rsi - x.rsi) = gap
  <2>1. gap \in Int
    BY <1>2
  <2>2. Max({0, gap}) = IF 0 >= gap THEN 0 ELSE gap
    BY <2>1, MaxOfTwo
  <2> QED BY <1>2, <2>1, <2>2
<1>4. VolSimilar(x.vol, y.vol) = VolSimilar(y.vol, x.vol)
  <2>1. {x.vol, y.vol} = {y.vol, x.vol}
    OBVIOUS
  <2> QED BY <2>1 DEF VolSimilar
<1> DEFINE rsi == Max({0, gap})
           macd == IF x.macd = y.macd THEN 300 ELSE 0
           ma == IF x.ma = y.ma THEN 250 ELSE 0
           vol == IF x.vol = y.vol THEN 150 ELSE IF VolSimilar(x.vol, y.vol) THEN 75 ELSE 0
<1>5. Similarity(x, y) = 10 * rsi + macd + ma + vol
  BY DEF Similarity
<1>6. Similarity(y, x) = 10 * rsi + macd + ma + vol
  <2>1. macd = (IF y.macd = x.macd THEN 300 ELSE 0) /\ ma = (IF y.ma = x.ma THEN 250 ELSE 0)
    OBVIOUS
  <2>2. vol = IF y.vol = x.vol THEN 150 ELSE IF VolSimilar(y.vol, x.vol) THEN 75 ELSE 0
    BY <1>4
  <2>3. rsi = Max({0, 30 - Abs(y.rsi - x.rsi)})
    BY <1>3
  <2> HIDE DEF rsi, macd, ma, vol
  <2> QED BY <2>1, <2>2, <2>3 DEF Similarity
<1>7. macd \in Int /\ ma \in Int /\ vol \in Int
  OBVIOUS
<1> HIDE DEF macd, ma, vol, rsi
<1> QED BY <1>3, <1>5, <1>6, <1>7 DEF rsi

(* A bar at which an outcome is judged: the first on or after the target day, not yet to come. *)
LEMMA ExitIs ==
  ASSUME NEW s \in Tickers, NEW created \in Nat, NEW days \in Nat, NEW d \in ExitBar(s, created, days)
  PROVE  /\ d \in Trading[s] /\ d \in 0..LastDay /\ d >= Day(created) + days /\ d <= Day(now)
         /\ \A e \in Trading[s] : e >= Day(created) + days => d <= e
         /\ ExitBar(s, created, days) = {d}
<1> DEFINE target == Day(created) + days
<1>0. Day(created) \in Nat
  BY DayIs
<1>1. target \in Nat /\ LastDay \in Nat /\ Trading[s] \subseteq 0..LastDay
  BY <1>0, MemoryConstants
<1>2. target <= LastDay
  <2> HIDE DEF target
  <2>1. ~(target > LastDay)
    BY DEF ExitBar, target
  <2> QED BY <1>1, <2>1
<1>3. FirstBar[s][target] = OnOrAfter(Trading[s], target)
  <2>1. target \in 0..LastDay
    BY <1>1, <1>2
  <2> HIDE DEF target
  <2> QED BY <2>1 DEF FirstBar
<1>4. ExitBar(s, created, days) = {b \in OnOrAfter(Trading[s], target) : b < target + HistBuffer /\ b <= Day(now)}
  <2>1. ~(target > LastDay)
    BY <1>1, <1>2
  <2> QED BY <1>3, <2>1 DEF ExitBar
<1> HIDE DEF target
<1>5. d \in OnOrAfter(Trading[s], target) /\ d <= Day(now)
  BY <1>4
<1>6. d \in Trading[s] /\ d >= target /\ \A e \in Trading[s] : e >= target => d <= e
  BY <1>5 DEF OnOrAfter
<1>7. \A b \in ExitBar(s, created, days) : b = d
  <2> SUFFICES ASSUME NEW b \in OnOrAfter(Trading[s], target) PROVE b = d
    BY <1>4
  <2>1. b \in Trading[s] /\ b >= target /\ \A e \in Trading[s] : e >= target => b <= e
    BY DEF OnOrAfter
  <2>2. b \in Int /\ d \in Int /\ b <= d /\ d <= b
    BY <1>1, <1>6, <2>1
  <2> QED BY <2>2
<1> QED BY <1>1, <1>5, <1>6, <1>7 DEF target

(* What is known of the state: the moments, the rows, the analyses and the validations under way. *)
LEMMA MemoryTypesMean ==
  ASSUME MemoryTypes
  PROVE  /\ now \in Nat /\ now <= 3 * LastDay + 2 /\ Day(now) \in 0..LastDay
         /\ Ids = 1..Len(rows) /\ Len(rows) \in Nat /\ Ids \subseteq Nat
         /\ \A i \in Ids : /\ rows[i] \in Row /\ rows[i].ticker \in Tickers /\ rows[i].created \in Nat
                           /\ rows[i].snap \in Snapshots /\ Day(rows[i].created) \in 0..LastDay
         /\ \A a \in Askers : asking[a] # Idle =>
                /\ asking[a] \in Analysis /\ asking[a].ticker \in Tickers /\ asking[a].bar \in 0..LastDay
                /\ Snap[asking[a].ticker][asking[a].bar] \in Snapshots
         /\ \A v \in Validators : Scoring(v) => IsScoring(valid[v])
<1>1. LastDay \in Nat
  BY MemoryConstants
<1>2. ASSUME NEW t \in 0..3 * LastDay + 2 PROVE t \in Nat /\ t <= 3 * LastDay + 2 /\ Day(t) \in 0..LastDay
  BY <1>1 DEF Day
<1>3. now \in Nat /\ now <= 3 * LastDay + 2 /\ Day(now) \in 0..LastDay
  BY <1>2 DEF MemoryTypes
<1>4. rows \in Seq(Row)
  BY DEF MemoryTypes
<1>5. Ids = 1..Len(rows) /\ Len(rows) \in Nat /\ Ids \subseteq Nat /\ \A i \in Ids : rows[i] \in Row
  BY <1>4 DEF Ids
<1>6. ASSUME NEW i \in Ids
      PROVE  /\ rows[i] \in Row /\ rows[i].ticker \in Tickers /\ rows[i].created \in Nat
             /\ rows[i].snap \in Snapshots /\ Day(rows[i].created) \in 0..LastDay
  <2>1. rows[i] \in Row
    BY <1>5
  <2>2. rows[i].ticker \in Tickers /\ rows[i].snap \in Snapshots /\ rows[i].created \in 0..3 * LastDay + 2
    BY <2>1 DEF Row
  <2> QED BY <1>2, <2>1, <2>2
<1>7. ASSUME NEW a \in Askers, asking[a] # Idle
      PROVE  /\ asking[a] \in Analysis /\ asking[a].ticker \in Tickers /\ asking[a].bar \in 0..LastDay
             /\ Snap[asking[a].ticker][asking[a].bar] \in Snapshots
  <2>1. asking[a] \in Analysis
    BY <1>7 DEF MemoryTypes
  <2>2. asking[a].ticker \in Tickers /\ asking[a].bar \in 0..LastDay
    BY <2>1 DEF Analysis
  <2> QED BY <2>1, <2>2, MemoryConstants
<1>8. \A v \in Validators : Scoring(v) => IsScoring(valid[v])
  BY DEF Scoring, MemoryTypes, Idle
<1> QED BY <1>3, <1>5, <1>6, <1>7, <1>8

(* The greatest of some days. *)
LEMMA LastOfDays ==
  ASSUME NEW S, S \subseteq 0..LastDay, S # {}
  PROVE  Max(S) \in S /\ \A d \in S : Max(S) >= d
<1>1. LastDay \in Nat
  BY MemoryConstants
<1>2. S \subseteq Nat /\ \A d \in S : d <= LastDay
  BY <1>1
<1> QED BY <1>1, <1>2, MaxIsGreatest

(* An analysis ends. *)
LEMMA EndsKeep ==
  ASSUME MemoryTypes, AskersOK, NEW a \in Askers, asking[a] # Idle, NEW known \in BOOLEAN, Ends(a, known)
  PROVE  /\ asking' \in [Askers -> Analysis \cup {Idle}]
         /\ fill' \in [pc : {"off", "scan", "wait"}, todo : SUBSET (Tickers \X (0..LastDay)),
                      existing : SUBSET (Tickers \X (0..LastDay))]
         /\ AskersOK'
<1>1. asking \in [Askers -> Analysis \cup {Idle}] /\ asking' = [asking EXCEPT ![a] = Idle]
  BY DEF MemoryTypes, Ends
<1>2. <<asking[a].ticker, asking[a].bar>> \in Tickers \X (0..LastDay)
  BY MemoryTypesMean
<1>3. fill' \in [pc : {"off", "scan", "wait"}, todo : SUBSET (Tickers \X (0..LastDay)),
                existing : SUBSET (Tickers \X (0..LastDay))]
  BY <1>2 DEF MemoryTypes, Ends
<1>4. asking'[Filler] # Idle => a # Filler /\ asking'[Filler] = asking[Filler] /\ fill' = fill
  BY <1>1, MemoryConstants DEF Ends
<1>5. \A b \in Requests : asking'[b] # Idle => asking'[b] = asking[b]
  BY <1>1, MemoryConstants
<1> QED BY <1>1, <1>3, <1>4, <1>5 DEF AskersOK

\* Of a row nothing changes but its results.
Stays(i) == /\ i \in Ids'
            /\ rows'[i].ticker = rows[i].ticker /\ rows'[i].created = rows[i].created
            /\ rows'[i].choice = rows[i].choice /\ rows'[i].price = rows[i].price
            /\ rows'[i].snap = rows[i].snap /\ rows'[i].blind = rows[i].blind

\* The row an analysis is stored as.
NewRow(a) == [ticker |-> asking[a].ticker, created |-> StoredAt(a), choice |-> asking[a].choice,
              outlook |-> asking[a].outlook, price |-> Close[asking[a].ticker][asking[a].bar],
              snap |-> Snap[asking[a].ticker][asking[a].bar], label |-> Unscored, outcome |-> {},
              blind |-> asking[a].blind]

\* It is stored behind the others, and the analysis is over; those of the same stock that are about
\* to be stored know of it.
Stores(a) ==
    /\ asking[a] # Idle /\ asking[a].pc = "insert"
    /\ rows' = Append(rows, NewRow(a)) /\ UNCHANGED <<now, memory, valid>>
    /\ asking' = [b \in Askers |->
          IF b = a THEN Idle
          ELSE IF asking[b] # Idle /\ asking[b].pc = "insert" /\ asking[b].ticker = asking[a].ticker
               THEN [asking[b] EXCEPT !.blind = TRUE] ELSE asking[b]]
    /\ fill' = IF a # Filler THEN fill
               ELSE [fill EXCEPT !.pc = "scan", !.existing = @ \cup {<<asking[a].ticker, asking[a].bar>>}]

(* An insert stores, or fails. *)
LEMMA InsertIs ==
  ASSUME MemoryTypes, NEW a \in Askers, Insert(a)
  PROVE  \/ Stores(a)
         \/ Ends(a, FALSE) /\ asking[a] # Idle /\ UNCHANGED <<rows, now, memory, valid>>
<1> DEFINE others == {b \in UnderWay \ {a} : asking[b].pc = "insert" /\ asking[b].ticker = asking[a].ticker}
           known == [b \in Askers |-> IF b = a THEN Idle
                                      ELSE IF b \in others THEN [asking[b] EXCEPT !.blind = TRUE] ELSE asking[b]]
<1>1. asking[a] # Idle /\ asking[a].pc = "insert" /\ UNCHANGED <<now, memory, valid>>
  BY DEF Insert
<1>2. CASE Ends(a, FALSE) /\ UNCHANGED rows
  BY <1>1, <1>2
<1>3. CASE ~(Ends(a, FALSE) /\ UNCHANGED rows)
  <2>1. /\ rows' = Append(rows, NewRow(a)) /\ asking' = known
        /\ fill' = IF a # Filler THEN fill
                   ELSE [fill EXCEPT !.pc = "scan", !.existing = @ \cup {<<asking[a].ticker, asking[a].bar>>}]
    BY <1>3 DEF Insert, NewRow
  <2>2. \A b \in Askers : b # a => (b \in others <=> asking[b] # Idle /\ asking[b].pc = "insert"
                                                  /\ asking[b].ticker = asking[a].ticker)
    BY DEF UnderWay
  <2>3. known = [b \in Askers |->
          IF b = a THEN Idle
          ELSE IF asking[b] # Idle /\ asking[b].pc = "insert" /\ asking[b].ticker = asking[a].ticker
               THEN [asking[b] EXCEPT !.blind = TRUE] ELSE asking[b]]
    BY <2>2
  <2> QED BY <1>1, <2>1, <2>3 DEF Stores
<1> QED BY <1>2, <1>3

(* What is stored is a row, of a day that is not to come. *)
LEMMA NewRowIs ==
  ASSUME MemoryTypes, AskersOK, NEW a \in Askers, asking[a] # Idle
  PROVE  /\ NewRow(a) \in Row /\ StoredAt(a) \in Nat
         /\ a # Filler => StoredAt(a) = now
         /\ a = Filler => StoredAt(a) = Midnight(asking[a].bar) /\ Day(StoredAt(a)) = asking[a].bar
<1>1. /\ asking[a] \in Analysis /\ asking[a].ticker \in Tickers /\ asking[a].bar \in 0..LastDay
      /\ now \in 0..3 * LastDay + 2 /\ LastDay \in Nat
      /\ Snap[asking[a].ticker][asking[a].bar] \in Snapshots
  BY MemoryTypesMean, MemoryConstants DEF MemoryTypes
<1>2. a # Filler => StoredAt(a) = now
  BY DEF Askers, AskersOK, StoredAt
<1>3. a = Filler => StoredAt(a) = Midnight(asking[a].bar)
  <2>1. asking[a].bar \in Nat
    BY <1>1
  <2>2. Midnight(asking[a].bar) # Live
    BY <2>1 DEF Midnight, Live
  <2> QED BY <2>2 DEF AskersOK, StoredAt
<1>4. \A d \in 0..LastDay : Midnight(d) \in 0..3 * LastDay + 2 /\ Day(Midnight(d)) = d
  BY <1>1 DEF Midnight, Day
<1>5. StoredAt(a) \in 0..3 * LastDay + 2
  BY <1>1, <1>2, <1>3, <1>4
<1>6. NewRow(a) \in Row
  BY <1>1, <1>5 DEF NewRow, Row, Analysis
<1> QED BY <1>1, <1>2, <1>3, <1>4, <1>5, <1>6

\* A validation writes its results into the rows.
Committed(v) ==
    /\ Scoring(v) /\ UNCHANGED <<now, memory, asking, fill>>
    /\ Ids' = Ids /\ rows' \in Seq(Row)
    /\ \A i \in Ids : Stays(i) /\ rows'[i].label = IF Holds(v, i) THEN valid[v].writes[i] ELSE rows[i].label
    /\ \E next \in {Idle, [pc |-> "horizons"]} : valid' = [valid EXCEPT ![v] = next]

(* A commit does nothing else. *)
LEMMA CommitIs ==
  ASSUME MemoryTypes, NEW v \in Validators, Commit(v)
  PROVE  Committed(v)
<1>1. /\ Scoring(v) /\ IsScoring(valid[v]) /\ Ids = 1..Len(rows) /\ Len(rows) \in Nat
      /\ \A i \in Ids : rows[i] \in Row
  BY MemoryTypesMean DEF Commit
<1>2. rows' = [i \in Ids |-> IF Holds(v, i) THEN [rows[i] EXCEPT !.label = valid[v].writes[i]] ELSE rows[i]]
  BY DEF Commit
<1>3. ASSUME NEW i \in Ids
      PROVE  /\ rows'[i] \in Row /\ rows'[i].label = IF Holds(v, i) THEN valid[v].writes[i] ELSE rows[i].label
             /\ rows'[i].ticker = rows[i].ticker /\ rows'[i].created = rows[i].created
             /\ rows'[i].choice = rows[i].choice /\ rows'[i].price = rows[i].price
             /\ rows'[i].snap = rows[i].snap /\ rows'[i].blind = rows[i].blind
  <2>1. rows[i] \in Row
    BY <1>1
  <2>2. CASE Holds(v, i)
    <3>1. valid[v].writes[i] \in Marks
      BY <1>1, <2>2 DEF IsScoring, Holds
    <3>2. rows'[i] = [rows[i] EXCEPT !.label = valid[v].writes[i]]
      BY <1>2, <2>2
    <3> QED BY <2>1, <2>2, <3>1, <3>2 DEF Row
  <2>3. CASE ~Holds(v, i)
    BY <1>2, <2>1, <2>3
  <2> QED BY <2>2, <2>3
<1>4. Ids' = Ids /\ rows' \in Seq(Row)
  <2>1. DOMAIN rows' = 1..Len(rows) /\ Ids' = Ids
    BY <1>1, <1>2 DEF Ids
  <2>2. rows' \in [1..Len(rows) -> Row]
    BY <1>1, <1>2, <1>3, <2>1
  <2> QED BY <1>1, <2>1, <2>2
<1>5. \E next \in {Idle, [pc |-> "horizons"]} : valid' = [valid EXCEPT ![v] = next]
  BY DEF Commit
<1>6. UNCHANGED <<now, memory, asking, fill>>
  BY DEF Commit
<1> QED BY <1>1, <1>3, <1>4, <1>5, <1>6 DEF Committed, Stays

\* It notes the horizons it has scored.
Outlined(v) ==
    /\ UNCHANGED <<now, memory, asking, fill>> /\ Ids' = Ids /\ rows' \in Seq(Row)
    /\ \A i \in Ids : Stays(i) /\ rows'[i].label = rows[i].label
    /\ valid' = [valid EXCEPT ![v] = Idle]

(* The last step of a validation does nothing else. *)
LEMMA HorizonsAre ==
  ASSUME MemoryTypes, NEW v \in Validators, ValidateHorizons(v)
  PROVE  Outlined(v)
<1>1. Ids = 1..Len(rows) /\ Len(rows) \in Nat /\ \A i \in Ids : rows[i] \in Row
  BY MemoryTypesMean
<1>2. rows' = [i \in Ids |-> IF i \notin Newest(Incomplete) THEN rows[i]
                           ELSE [rows[i] EXCEPT !.outcome = rows[i].outcome \cup Scorable(i)]]
  BY DEF ValidateHorizons
<1>3. ASSUME NEW i \in Ids
      PROVE  /\ rows'[i] \in Row /\ rows'[i].label = rows[i].label
             /\ rows'[i].ticker = rows[i].ticker /\ rows'[i].created = rows[i].created
             /\ rows'[i].choice = rows[i].choice /\ rows'[i].price = rows[i].price
             /\ rows'[i].snap = rows[i].snap /\ rows'[i].blind = rows[i].blind
  <2>1. rows[i] \in Row /\ rows[i].outcome \cup Scorable(i) \in SUBSET UNION Outlooks
    BY <1>1 DEF Scorable, Row
  <2>2. CASE i \in Newest(Incomplete)
    <3>1. rows'[i] = [rows[i] EXCEPT !.outcome = rows[i].outcome \cup Scorable(i)]
      BY <1>2, <2>2
    <3> QED BY <2>1, <3>1 DEF Row
  <2>3. CASE i \notin Newest(Incomplete)
    BY <1>2, <2>1, <2>3
  <2> QED BY <2>2, <2>3
<1>4. Ids' = Ids /\ rows' \in Seq(Row)
  <2>1. DOMAIN rows' = 1..Len(rows) /\ Ids' = Ids
    BY <1>1, <1>2 DEF Ids
  <2>2. rows' \in [1..Len(rows) -> Row]
    BY <1>1, <1>2, <1>3, <2>1
  <2> QED BY <1>1, <2>1, <2>2
<1>5. UNCHANGED <<now, memory, asking, fill>> /\ valid' = [valid EXCEPT ![v] = Idle]
  BY DEF ValidateHorizons
<1> QED BY <1>3, <1>4, <1>5 DEF Outlined, Stays

(* A stored row joins the others. *)
LEMMA StoresRow ==
  ASSUME MemoryTypes, AskersOK, NEW a \in Askers, Stores(a)
  PROVE  /\ rows' \in Seq(Row) /\ Ids \subseteq Ids' /\ Len(rows) + 1 \in Ids'
         /\ \A i \in Ids : rows'[i] = rows[i] /\ i < Len(rows) + 1
         /\ \A i \in Ids' : i \in Ids \/ i = Len(rows) + 1
         /\ rows'[Len(rows) + 1] = NewRow(a) /\ NewRow(a) \in Row
<1>1. rows \in Seq(Row) /\ NewRow(a) \in Row /\ rows' = Append(rows, NewRow(a))
  BY NewRowIs DEF MemoryTypes, Stores
<1>2. Ids = 1..Len(rows) /\ Len(rows) \in Nat
  BY MemoryTypesMean
<1>3. /\ Append(rows, NewRow(a)) \in Seq(Row) /\ Append(rows, NewRow(a))[Len(rows) + 1] = NewRow(a)
      /\ Len(rows) + 1 \in DOMAIN Append(rows, NewRow(a))
      /\ \A i \in DOMAIN rows : i \in DOMAIN Append(rows, NewRow(a)) /\ Append(rows, NewRow(a))[i] = rows[i]
      /\ \A i \in DOMAIN Append(rows, NewRow(a)) : i \in DOMAIN rows \/ i = Len(rows) + 1
  BY <1>1, AppendIs
<1> QED BY <1>1, <1>2, <1>3 DEF Ids

\* The validations.
ValidTypes == /\ valid = [v \in Validators |-> valid[v]]
              /\ \A v \in Validators : valid[v] \in {Idle, [pc |-> "horizons"]} \/ IsScoring(valid[v])

(* Validations that stand still or end are unmoved by rows that join. *)
LEMMA ValidsStay ==
  ASSUME ValidTypes, Ids \subseteq Ids', \A v \in Validators : valid'[v] = valid[v] \/ valid'[v] \in {Idle, [pc |-> "horizons"]},
         valid' = [v \in Validators |-> valid'[v]]
  PROVE  ValidTypes'
<1>1. ASSUME NEW v \in Validators, valid'[v] = valid[v], IsScoring(valid[v]) PROVE IsScoring(valid[v])'
  BY <1>1 DEF IsScoring
<1> QED BY <1>1 DEF ValidTypes, Idle

(* A row is passed over. *)
LEMMA SkippedIs ==
  ASSUME MemoryTypes, NEW v \in Validators, Scoring(v)
  PROVE  Skipped(v) \in [pc : {"score"}, todo : {Tail(valid[v].todo)}, writes : {valid[v].writes},
                         aborted : {valid[v].aborted}]
<1>1. IsScoring(valid[v])
  BY MemoryTypesMean
<1>2. valid[v] \in [pc : {"score"}, todo : {valid[v].todo}, writes : {valid[v].writes}, aborted : {valid[v].aborted}]
  BY <1>1 DEF IsScoring
<1> QED BY <1>2 DEF Skipped

(* The results of a validation have one more. *)
LEMMA JudgedIs ==
  ASSUME MemoryTypes, NEW v \in Validators, Scoring(v), valid[v].todo # <<>>, Exits(Head(valid[v].todo)) # {}
  PROVE  LET i == Head(valid[v].todo)
             results == Judged(v).writes
         IN  /\ IsScoring(Judged(v)) /\ i \in Ids /\ Judged(v).todo = Tail(valid[v].todo)
             /\ DOMAIN results = DOMAIN valid[v].writes \cup {i}
             /\ \A j \in DOMAIN valid[v].writes \ {i} : results[j] = valid[v].writes[j]
             /\ Fits(i, results[i])
<1> DEFINE x == valid[v]
           i == Head(x.todo)
           exit == Max(Exits(i))
           ok == Judge(rows[i].choice, rows[i].price, Shown(rows[i].ticker, exit))
           label == [exit |-> exit, forming |-> exit = Day(now) /\ BarOpen(now), ok |-> ok]
           results == [j \in DOMAIN x.writes \cup {i} |-> IF j = i THEN label ELSE x.writes[j]]
<1>1. IsScoring(x)
  BY MemoryTypesMean
<1>2. x.todo \in Seq(Nat) /\ x.todo # <<>> /\ \A k \in DOMAIN x.todo : x.todo[k] \in Ids
  BY <1>1 DEF IsScoring
<1>3. i \in Ids /\ Tail(x.todo) \in Seq(Nat) /\ \A k \in DOMAIN Tail(x.todo) : Tail(x.todo)[k] \in Ids
  BY <1>2
<1>4. rows[i].ticker \in Tickers /\ rows[i].created \in Nat /\ Horizon \in Nat /\ now \in Nat
  BY <1>3, MemoryTypesMean, MemoryConstants
<1>5. PICK d \in Exits(i) : TRUE
  OBVIOUS
<1>6. Exits(i) = {d} /\ d \in 0..LastDay
  BY <1>4, <1>5, ExitIs DEF Exits
<1>7. exit = d
  <2>1. d \in Int
    BY <1>6
  <2> QED BY <1>6, <2>1 DEF Max
<1>8. ok \in BOOLEAN
  <2>1. rows[i].choice \in Forecasts
    <3>1. rows[i] \in Row
      BY <1>3, MemoryTypesMean
    <3> QED BY <3>1 DEF Row
  <2>2. \A p, e : Judge("BUY", p, e) \in BOOLEAN
    BY DEF Judge
  <2>3. \A p, e : Judge("SELL", p, e) \in BOOLEAN
    BY DEF Judge
  <2>4. \A p, e : Judge("HOLD", p, e) \in BOOLEAN
    BY DEF Judge
  <2> QED BY <2>1, <2>2, <2>3, <2>4 DEF Forecasts
<1>9. label \in Marks
  BY <1>6, <1>7, <1>8 DEF Marks
<1>10. Judged(v) = [Skipped(v) EXCEPT !.writes = results]
  BY DEF Judged
<1>11. Skipped(v) \in [pc : {"score"}, todo : {Tail(x.todo)}, writes : {x.writes}, aborted : {x.aborted}]
  BY SkippedIs
<1> HIDE DEF results, label, i
<1>12. Judged(v) \in [pc : {"score"}, todo : {Tail(x.todo)}, writes : {results}, aborted : {x.aborted}]
  BY <1>10, <1>11
<1>13. /\ DOMAIN results = DOMAIN x.writes \cup {i} /\ results \in [DOMAIN results -> Marks] /\ DOMAIN results \subseteq Ids
       /\ \A j \in DOMAIN x.writes \ {i} : results[j] = x.writes[j]
       /\ results[i] = label
  BY <1>1, <1>3, <1>9 DEF IsScoring, results
<1>14. Fits(i, label)
  <2>1. label.exit = d /\ label.ok = ok /\ label.forming = (d = Day(now) /\ BarOpen(now))
    BY <1>7 DEF label
  <2>2. ~(d = Day(now) /\ BarOpen(now)) => ok = Judge(rows[i].choice, rows[i].price, Close[rows[i].ticker][d])
    BY <1>7 DEF Shown, i
  <2> QED BY <1>6, <2>1, <2>2 DEF Fits
<1>15. IsScoring(Judged(v))
  <2>1. x.aborted \in BOOLEAN
    BY <1>1 DEF IsScoring
  <2> QED BY <1>3, <1>12, <1>13, <2>1 DEF IsScoring
<1>16. Judged(v).writes = results /\ Judged(v).todo = Tail(x.todo)
  BY <1>12
<1> QED BY <1>3, <1>13, <1>14, <1>15, <1>16 DEF i

\* A scoring validation whose results fit; a step of the validations that leaves only such.
Sound(x) == IsScoring(x) /\ \A i \in DOMAIN x.writes : Fits(i, x.writes[i])

ValidsStep ==
    /\ UNCHANGED <<now, memory, rows, asking, fill>>
    /\ valid' = [w \in Validators |-> valid'[w]]
    /\ \A w \in Validators : \/ valid'[w] = valid[w]
                             \/ valid'[w] \in {Idle, [pc |-> "horizons"]}
                             \/ Sound(valid'[w])

(* A validation takes rows that are due. *)
LEMMA BatchIs ==
  ASSUME MemoryTypes, NEW S, S \subseteq Due, NEW order \in SetToSeqs(S)
  PROVE  /\ order \in Seq(Nat) /\ \A k \in DOMAIN order : order[k] \in Ids
         /\ \A i \in ToSet(order) : rows[i].label = Unscored
<1>1. Ids = 1..Len(rows) /\ Len(rows) \in Nat /\ S \subseteq Ids
  BY MemoryTypesMean DEF Due
<1>2. IsFiniteSet(S)
  <2>1. IsFiniteSet(1..Len(rows))
    BY <1>1, FS_Interval
  <2> QED BY <1>1, <2>1, FS_Subset
<1>3. Cardinality(S) \in Nat
  BY <1>2, FS_CardinalityType
<1>4. order \in [1..Cardinality(S) -> S]
  BY DEF SetToSeqs
<1>5. order \in Seq(Nat) /\ \A k \in DOMAIN order : order[k] \in S
  <2>1. PICK n \in Nat : order \in [1..n -> S]
    BY <1>3, <1>4
  <2>2. S \subseteq Nat
    BY <1>1
  <2>3. order \in [1..n -> Nat] /\ DOMAIN order = 1..n
    BY <2>1, <2>2
  <2>4. order \in Seq(Nat)
    BY <2>3
  <2> QED BY <2>1, <2>3, <2>4
<1> QED BY <1>1, <1>5 DEF ToSet, Due

(* How the validations go on until they write. *)
LEMMA ValidsStepIs ==
  ASSUME MemoryTypes, LabelsOK, NEW v \in Validators, BeginValidation(v) \/ ScoreRow(v) \/ Deadlock(v)
  PROVE  ValidsStep
<1>1. valid = [w \in Validators |-> valid[w]] /\ DOMAIN valid = Validators
  BY DEF MemoryTypes
<1>2. \A w \in Validators : Scoring(w) => IsScoring(valid[w]) /\ Sound(valid[w])
  BY MemoryTypesMean DEF LabelsOK, Sound
<1>3. ASSUME NEW w \in Validators, Scoring(w), valid[w].todo # <<>>, Exits(Head(valid[w].todo)) # {}
      PROVE  Sound(Judged(w))
  <2>1. /\ IsScoring(Judged(w)) /\ DOMAIN Judged(w).writes = DOMAIN valid[w].writes \cup {Head(valid[w].todo)}
        /\ \A j \in DOMAIN valid[w].writes \ {Head(valid[w].todo)} : Judged(w).writes[j] = valid[w].writes[j]
        /\ Fits(Head(valid[w].todo), Judged(w).writes[Head(valid[w].todo)])
    BY <1>3, JudgedIs
  <2>2. \A j \in DOMAIN valid[w].writes : Fits(j, valid[w].writes[j])
    BY <1>2, <1>3 DEF Sound
  <2> QED BY <2>1, <2>2 DEF Sound
<1>4. ASSUME NEW w \in Validators, Scoring(w), valid[w].todo # <<>>
      PROVE  /\ Sound(Skipped(w))
             /\ Sound([Skipped(w) EXCEPT !.aborted = TRUE, !.writes = <<>>])
  <2>1. /\ Skipped(w) \in [pc : {"score"}, todo : {Tail(valid[w].todo)}, writes : {valid[w].writes},
                          aborted : {valid[w].aborted}]
        /\ IsScoring(valid[w]) /\ Sound(valid[w])
    BY <1>2, <1>4, SkippedIs
  <2>2. /\ valid[w].todo \in Seq(Nat) /\ \A k \in DOMAIN valid[w].todo : valid[w].todo[k] \in Ids
        /\ valid[w].aborted \in BOOLEAN /\ valid[w].todo # <<>>
    BY <1>4, <2>1 DEF IsScoring
  <2>3. Tail(valid[w].todo) \in Seq(Nat) /\ \A k \in DOMAIN Tail(valid[w].todo) : Tail(valid[w].todo)[k] \in Ids
    BY <2>2
  <2>4. Skipped(w).todo = Tail(valid[w].todo) /\ Skipped(w).writes = valid[w].writes
    BY <2>1
  <2>5. Sound(Skipped(w))
    BY <2>1, <2>2, <2>3, <2>4 DEF Sound, IsScoring
  <2>6. PICK x : x = [Skipped(w) EXCEPT !.aborted = TRUE, !.writes = <<>>]
    OBVIOUS
  <2>7. x \in [pc : {"score"}, todo : {Tail(valid[w].todo)}, writes : {<<>>}, aborted : {TRUE}]
    BY <2>1, <2>6
  <2>8. <<>> \in [DOMAIN <<>> -> Marks] /\ DOMAIN <<>> = {}
    OBVIOUS
  <2>9. x.todo = Tail(valid[w].todo) /\ x.writes = <<>>
    BY <2>7
  <2>10. Sound(x)
    BY <2>3, <2>7, <2>8, <2>9 DEF Sound, IsScoring
  <2> QED BY <2>5, <2>6, <2>10
<1>5. CASE BeginValidation(v)
  <2>1. PICK S \in SUBSET Due : \E order \in SetToSeqs(S) :
          valid' = [valid EXCEPT ![v] = IF S = {} THEN [pc |-> "horizons"]
                     ELSE [pc |-> "score", todo |-> order, writes |-> <<>>, aborted |-> FALSE]]
    BY <1>5 DEF BeginValidation, kSubset
  <2>2. PICK order \in SetToSeqs(S) :
          valid' = [valid EXCEPT ![v] = IF S = {} THEN [pc |-> "horizons"]
                     ELSE [pc |-> "score", todo |-> order, writes |-> <<>>, aborted |-> FALSE]]
    BY <2>1
  <2>3. order \in Seq(Nat) /\ \A k \in DOMAIN order : order[k] \in Ids
    BY BatchIs
  <2>4. PICK x : x = [pc |-> "score", todo |-> order, writes |-> <<>>, aborted |-> FALSE]
    OBVIOUS
  <2>5. /\ x \in [pc : {"score"}, todo : {order}, writes : {<<>>}, aborted : {FALSE}]
        /\ x.todo = order /\ x.writes = <<>>
    BY <2>4
  <2>6. <<>> \in [DOMAIN <<>> -> Marks] /\ DOMAIN <<>> = {}
    OBVIOUS
  <2>7. Sound(x)
    BY <2>3, <2>5, <2>6 DEF Sound, IsScoring
  <2>8. valid' = [valid EXCEPT ![v] = IF S = {} THEN [pc |-> "horizons"] ELSE x]
    BY <2>2, <2>4
  <2>9. UNCHANGED <<now, memory, rows, asking, fill>>
    BY <1>5 DEF BeginValidation
  <2> QED BY <1>1, <2>7, <2>8, <2>9 DEF ValidsStep
<1>6. CASE ScoreRow(v)
  <2>1. Scoring(v) /\ valid[v].todo # <<>> /\ UNCHANGED <<now, memory, rows, asking, fill>>
    BY <1>6 DEF ScoreRow
  <2>2. CASE valid' = [valid EXCEPT ![v] = Skipped(v)]
    BY <1>1, <1>4, <2>1, <2>2 DEF ValidsStep
  <2>3. CASE Exits(Head(valid[v].todo)) # {} /\ valid' = [valid EXCEPT ![v] = Judged(v)]
    BY <1>1, <1>3, <2>1, <2>3 DEF ValidsStep
  <2> QED BY <1>6, <2>2, <2>3 DEF ScoreRow
<1>7. CASE Deadlock(v)
  <2>1. Scoring(v) /\ valid[v].todo # <<>> /\ UNCHANGED <<now, memory, rows, asking, fill>>
    BY <1>7 DEF Deadlock
  <2>2. PICK w \in Validators \ {v} :
          /\ Scoring(w) /\ valid[w].todo # <<>> /\ Holds(v, Head(valid[w].todo))
          /\ valid' = [valid EXCEPT ![v] = [Skipped(v) EXCEPT !.aborted = TRUE, !.writes = <<>>], ![w] = Judged(w)]
    BY <1>7 DEF Deadlock
  <2>3. Exits(Head(valid[w].todo)) # {}
    <3>1. Fits(Head(valid[w].todo), valid[v].writes[Head(valid[w].todo)])
      BY <1>2, <2>1, <2>2 DEF Sound, Holds
    <3> QED BY <3>1 DEF Fits
  <2>4. Sound(Judged(w)) /\ Sound([Skipped(v) EXCEPT !.aborted = TRUE, !.writes = <<>>])
    BY <1>3, <1>4, <2>1, <2>2, <2>3
  <2>5. PICK x : x = [Skipped(v) EXCEPT !.aborted = TRUE, !.writes = <<>>]
    OBVIOUS
  <2>6. valid' = [valid EXCEPT ![v] = x, ![w] = Judged(w)] /\ Sound(x)
    BY <2>2, <2>4, <2>5
  <2> QED BY <1>1, <2>1, <2>4, <2>6 DEF ValidsStep
<1> QED BY <1>5, <1>6, <1>7

\* The types of the analyses and of the back-fill.
AskingTypes == asking \in [Askers -> Analysis \cup {Idle}]
FillTypes == fill \in [pc : {"off", "scan", "wait"}, todo : SUBSET (Tickers \X (0..LastDay)),
                      existing : SUBSET (Tickers \X (0..LastDay))]

(* An analysis begins. *)
LEMMA AskIs ==
  ASSUME MemoryTypes, AskersOK, NEW a \in Requests, NEW s \in Asked, Ask(a, s)
  PROVE  /\ AskingTypes' /\ AskersOK' /\ UNCHANGED <<now, memory, rows, fill, valid>>
         /\ \A b \in Askers \ {a} : asking'[b] = asking[b]
         /\ asking'[a] # Idle /\ asking'[a].pc = "report"
<1>1. PICK bar \in Trading[s] :
        asking' = [asking EXCEPT ![a] = [pc |-> "report", ticker |-> s, bar |-> bar, asof |-> Live,
                 seen |-> {}, choice |-> "HOLD", outlook |-> {}, blind |-> FALSE]]
  BY DEF Ask
<1>2. PICK x : x = [pc |-> "report", ticker |-> s, bar |-> bar, asof |-> Live,
                 seen |-> {}, choice |-> "HOLD", outlook |-> {}, blind |-> FALSE]
  OBVIOUS
<1>3. s \in Tickers /\ bar \in 0..LastDay /\ a \in Askers /\ a # Filler
  BY MemoryConstants
<1>4. Live \in Int /\ {} \in SUBSET (Tickers \X Int) /\ {} \in SUBSET UNION Outlooks
  BY DEF Live
<1>5. x \in Analysis /\ x # Idle /\ x.asof = Live /\ x.pc = "report"
  BY <1>2, <1>3, <1>4 DEF Analysis, Forecasts, Idle
<1>6. asking' = [asking EXCEPT ![a] = x] /\ asking \in [Askers -> Analysis \cup {Idle}]
  BY <1>1, <1>2 DEF MemoryTypes
<1>7. UNCHANGED <<now, memory, rows, fill, valid>>
  BY DEF Ask
<1>8. AskersOK'
  BY <1>3, <1>5, <1>6, <1>7, MemoryConstants DEF AskersOK
<1> QED BY <1>3, <1>5, <1>6, <1>7, <1>8 DEF AskingTypes

\* An analysis moves on to its next stage.
Advances(a, stage) ==
    /\ UNCHANGED <<now, memory, rows, fill, valid>>
    /\ asking[a] # Idle /\ asking'[a] \in Analysis /\ asking'[a] # Idle
    /\ asking'[a].pc = stage /\ asking'[a].ticker = asking[a].ticker /\ asking'[a].bar = asking[a].bar
    /\ asking'[a].asof = asking[a].asof /\ asking'[a].seen = asking[a].seen
    /\ asking' = [asking EXCEPT ![a] = asking'[a]]

(* It is an analysis still. *)
LEMMA AdvancesKeep ==
  ASSUME MemoryTypes, AskersOK, NEW a \in Askers, NEW stage, Advances(a, stage)
  PROVE  AskingTypes' /\ AskersOK'
<1>1. asking \in [Askers -> Analysis \cup {Idle}]
  BY DEF MemoryTypes
<1>2. AskingTypes'
  BY <1>1 DEF Advances, AskingTypes
<1>3. \A b \in Askers \ {a} : asking'[b] = asking[b]
  BY <1>1 DEF Advances
<1>4. AskersOK'
  BY <1>1, <1>3, MemoryConstants DEF AskersOK, Advances
<1> QED BY <1>2, <1>4

(* A forecast ends the analysis, or is about to be stored. *)
LEMMA ForecastIs ==
  ASSUME MemoryTypes, NEW a \in Askers, Forecast(a)
  PROVE  /\ asking[a] # Idle
         /\ \/ Ends(a, FALSE) /\ UNCHANGED <<now, memory, rows, valid>>
            \/ Advances(a, "look")
<1>1. asking[a] # Idle /\ asking[a] \in Analysis /\ asking \in [Askers -> Analysis \cup {Idle}]
  BY MemoryTypesMean DEF Forecast, MemoryTypes
<1>2. CASE Ends(a, FALSE)
  BY <1>1, <1>2 DEF Forecast
<1>3. CASE ~Ends(a, FALSE)
  <2>1. PICK c \in Answers, o \in Outlooks :
          asking' = [asking EXCEPT ![a].pc = "look", ![a].choice = c, ![a].outlook = o]
    BY <1>3 DEF Forecast
  <2>2. PICK x : x = [asking[a] EXCEPT !.pc = "look", !.choice = c, !.outlook = o]
    OBVIOUS
  <2>3. c \in Forecasts /\ o \in SUBSET UNION Outlooks
    BY MemoryConstants
  <2>4. /\ x \in Analysis /\ x.pc = "look" /\ x.ticker = asking[a].ticker /\ x.bar = asking[a].bar
        /\ x.asof = asking[a].asof /\ x.seen = asking[a].seen
    BY <1>1, <2>2, <2>3 DEF Analysis
  <2>5. asking' = [asking EXCEPT ![a] = x]
    BY <1>1, <2>1, <2>2
  <2>6. asking'[a] = x /\ x # Idle
    BY <1>1, <2>4, <2>5 DEF Idle
  <2>7. UNCHANGED <<now, memory, rows, fill, valid>>
    BY <1>3 DEF Forecast
  <2> QED BY <1>1, <2>4, <2>5, <2>6, <2>7 DEF Advances
<1> QED BY <1>2, <1>3

(* A duplicate ends it; with none, or when the lookup fails, it goes on to the insert. *)
LEMMA FindDuplicateIs ==
  ASSUME MemoryTypes, NEW a \in Askers, FindDuplicate(a)
  PROVE  /\ asking[a] # Idle
         /\ \/ Ends(a, TRUE) /\ UNCHANGED <<now, memory, rows, valid>>
            \/ Advances(a, "insert") /\ (Duplicates(a) = {} \/ asking'[a].blind)
<1>1. asking[a] # Idle /\ asking[a] \in Analysis /\ asking \in [Askers -> Analysis \cup {Idle}]
  BY MemoryTypesMean DEF FindDuplicate, MemoryTypes
<1>2. ASSUME NEW blind \in BOOLEAN, asking' = [asking EXCEPT ![a].pc = "insert", ![a].blind = blind],
             UNCHANGED <<now, memory, rows, fill, valid>>
      PROVE  Advances(a, "insert") /\ asking'[a].blind = blind
  <2>1. PICK x : x = [asking[a] EXCEPT !.pc = "insert", !.blind = blind]
    OBVIOUS
  <2>2. /\ x \in Analysis /\ x.pc = "insert" /\ x.ticker = asking[a].ticker /\ x.bar = asking[a].bar
        /\ x.asof = asking[a].asof /\ x.seen = asking[a].seen /\ x.blind = blind
    BY <1>1, <2>1 DEF Analysis
  <2>3. asking' = [asking EXCEPT ![a] = x]
    BY <1>1, <1>2, <2>1
  <2>4. asking'[a] = x /\ x # Idle
    BY <1>1, <2>2, <2>3 DEF Idle
  <2> QED BY <1>1, <1>2, <2>2, <2>3, <2>4 DEF Advances
<1>3. CASE Duplicates(a) = {} /\ asking' = [asking EXCEPT ![a].pc = "insert"] /\ UNCHANGED fill
  <2>1. asking[a].blind \in BOOLEAN
    BY <1>1 DEF Analysis
  <2>2. asking' = [asking EXCEPT ![a].pc = "insert", ![a].blind = asking[a].blind]
    BY <1>1, <1>3 DEF Analysis
  <2>3. UNCHANGED <<now, memory, rows, fill, valid>>
    BY <1>3 DEF FindDuplicate
  <2> QED BY <1>1, <1>2, <1>3, <2>1, <2>2, <2>3
<1>4. CASE asking' = [asking EXCEPT ![a].pc = "insert", ![a].blind = TRUE] /\ UNCHANGED fill
  <2>1. UNCHANGED <<now, memory, rows, fill, valid>>
    BY <1>4 DEF FindDuplicate
  <2> QED BY <1>1, <1>2, <1>4, <2>1
<1>5. CASE Ends(a, TRUE)
  BY <1>1, <1>5 DEF FindDuplicate
<1> QED BY <1>3, <1>4, <1>5 DEF FindDuplicate

(* A run of the back-fill begins with all that is stored known to it. *)
LEMMA StartFillIs ==
  ASSUME MemoryTypes, StartFill
  PROVE  /\ FillTypes' /\ fill.pc = "off" /\ fill'.pc = "scan" /\ UNCHANGED <<now, memory, rows, asking, valid>>
         /\ \E end \in 0..LastDay : /\ end < Day(now) /\ \A p \in fill'.todo : p[2] <= end
         /\ \A i \in Ids : <<rows[i].ticker, Day(rows[i].created)>> \in fill'.existing
<1> DEFINE existing == {<<rows[i].ticker, Day(rows[i].created)>> : i \in Ids}
           dates == GridDates(0, Day(now) - EndAgo, EveryDays)
           end == Day(now) - EndAgo
<1>1. /\ fill.pc = "off" /\ Day(now) >= EndAgo /\ UNCHANGED <<now, memory, rows, asking, valid>>
      /\ fill' = [pc |-> "scan", existing |-> existing, todo |-> (Tickers \X dates) \ existing]
  BY DEF StartFill
<1>2. Day(now) \in 0..LastDay /\ LastDay \in Nat /\ EndAgo \in Nat /\ EndAgo > 0
  BY MemoryTypesMean, MemoryConstants
<1>3. end \in 0..LastDay /\ end < Day(now)
  BY <1>1, <1>2
<1>4. dates \subseteq 0..end
  BY DEF GridDates
<1>5. dates \subseteq 0..LastDay /\ \A d \in dates : d <= end
  <2> HIDE DEF dates, end
  <2> QED BY <1>2, <1>3, <1>4
<1>6. existing \subseteq Tickers \X (0..LastDay)
  BY MemoryTypesMean
<1> HIDE DEF dates, existing, end
<1>7. PICK ahead : ahead = (Tickers \X dates) \ existing
  OBVIOUS
<1>8. ahead \subseteq Tickers \X (0..LastDay) /\ \A p \in ahead : p[2] <= end
  BY <1>5, <1>7
<1>9. fill' = [pc |-> "scan", existing |-> existing, todo |-> ahead]
  BY <1>1, <1>7
<1> QED BY <1>1, <1>3, <1>6, <1>8, <1>9 DEF FillTypes, existing

(* What reaches the prompt of an analysis of a past date are outcomes a horizon old. *)
LEMMA ContextIs ==
  ASSUME MemoryTypes, NEW s \in Tickers, NEW snap, NEW bar \in 0..LastDay, NEW i \in Context(s, snap, Midnight(bar))
  PROVE  i \in Ids /\ rows[i].label # Unscored /\ rows[i].created <= Midnight(bar) - 3 * Horizon
<1>1. Midnight(bar) # Live /\ Midnight(bar) \in Nat /\ Horizon \in Nat /\ \A j \in Ids : rows[j].created \in Nat
  BY MemoryConstants, MemoryTypesMean DEF Midnight, Live
<1>2. CASE i \in SimilarPatterns(s, snap, Midnight(bar)) /\ OutcomeKnown(i, Midnight(bar))
  <2>1. i \in Candidates(s, Midnight(bar))
    BY <1>2 DEF SimilarPatterns, Best
  <2> QED BY <1>1, <1>2, <2>1 DEF Candidates, OfTicker, OutcomeKnown
<1>3. CASE i \in LevelRows(s, Midnight(bar))
  <2>1. i \in Scored(AsOfWindow(Midnight(bar)))
    BY <1>3 DEF LevelRows, OfTicker
  <2> QED BY <1>1, <2>1 DEF AsOfWindow, Scored
<1> QED BY <1>2, <1>3 DEF Context

\* The back-fill passes over a date and stock, or begins an analysis.
Passes(next) == /\ fill' = [fill EXCEPT !.todo = @ \ {next}] /\ UNCHANGED <<now, memory, rows, asking, valid>>
Begins(next) ==
    /\ UNCHANGED <<now, memory, rows, valid>>
    /\ fill' = [fill EXCEPT !.todo = @ \ {next}, !.pc = "wait"]
    /\ asking'[Filler] \in Analysis /\ asking'[Filler].pc = "report"
    /\ asking'[Filler].asof = Midnight(asking'[Filler].bar) /\ asking'[Filler].bar <= next[2]
    /\ <<asking'[Filler].ticker, asking'[Filler].bar>> \notin fill.existing
    /\ \A x \in asking'[Filler].seen :
          \E i \in Ids : /\ x = <<rows[i].ticker, rows[i].label.exit>> /\ rows[i].label # Unscored
                        /\ rows[i].created <= Midnight(asking'[Filler].bar) - 3 * Horizon
    /\ asking' = [asking EXCEPT ![Filler] = asking'[Filler]]

(* It does nothing else. *)
LEMMA ScanIs ==
  ASSUME MemoryTypes, ScanNext
  PROVE  fill.pc = "scan" /\ \E next \in fill.todo : Passes(next) \/ Begins(next)
<1>1. /\ fill.pc = "scan" /\ UNCHANGED <<now, memory, rows, valid>>
      /\ fill \in [pc : {"off", "scan", "wait"}, todo : SUBSET (Tickers \X (0..LastDay)),
                      existing : SUBSET (Tickers \X (0..LastDay))]
      /\ asking \in [Askers -> Analysis \cup {Idle}]
  BY DEF ScanNext, MemoryTypes
<1> DEFINE data(next) == {d \in Trading[next[1]] : d <= next[2]}
           bar(next) == Max(data(next))
           x(next) == [pc |-> "report", ticker |-> next[1], bar |-> bar(next), asof |-> Midnight(bar(next)),
                       seen |-> {<<rows[i].ticker, rows[i].label.exit>> :
                                    i \in Context(next[1], Snap[next[1]][bar(next)], Midnight(bar(next)))},
                       choice |-> "HOLD", outlook |-> {}, blind |-> FALSE]
<1>2. PICK next \in fill.todo :
         IF data(next) = {} \/ <<next[1], bar(next)>> \in fill.existing
         THEN fill' = [fill EXCEPT !.todo = @ \ {next}] /\ UNCHANGED asking
         ELSE /\ fill' = [[fill EXCEPT !.todo = @ \ {next}] EXCEPT !.pc = "wait"]
              /\ asking' = [asking EXCEPT ![Filler] = x(next)]
  BY DEF ScanNext
<1>3. next[1] \in Tickers /\ next[2] \in 0..LastDay
  BY <1>1
<1>4. CASE data(next) = {} \/ <<next[1], bar(next)>> \in fill.existing
  BY <1>1, <1>2, <1>4 DEF Passes
<1>5. CASE ~(data(next) = {} \/ <<next[1], bar(next)>> \in fill.existing)
  <2>1. bar(next) \in data(next) /\ bar(next) \in 0..LastDay
    <3>1. data(next) \subseteq 0..LastDay /\ data(next) # {}
      BY <1>3, <1>5, MemoryConstants
    <3> HIDE DEF data
    <3> QED BY <3>1, LastOfDays
  <2>2. bar(next) <= next[2]
    BY <2>1
  <2> DEFINE b == bar(next)
             told == Context(next[1], Snap[next[1]][b], Midnight(b))
             seen == {<<rows[i].ticker, rows[i].label.exit>> : i \in told}
  <2> HIDE DEF bar, data
  <2>3. \A i \in told : i \in Ids /\ rows[i].label # Unscored /\ rows[i].created <= Midnight(b) - 3 * Horizon
    <3> HIDE DEF b
    <3>1. b \in 0..LastDay
      BY <2>1 DEF b
    <3> QED BY <1>3, <3>1, ContextIs
  <2> HIDE DEF told
  <2>4. seen \in SUBSET (Tickers \X Int)
    <3>1. ASSUME NEW i \in told PROVE rows[i].ticker \in Tickers /\ rows[i].label.exit \in Int
      <4>1. rows[i] \in Row /\ rows[i].label # Unscored
        BY <2>3, <3>1, MemoryTypesMean
      <4> QED BY <4>1 DEF Row, Marks
    <3> QED BY <3>1
  <2>5. PICK y : y = x(next)
    OBVIOUS
  <2>6. /\ y \in Analysis /\ y.pc = "report" /\ y.ticker = next[1] /\ y.bar = b /\ y.asof = Midnight(b) /\ y.seen = seen
    <3>1. y = [pc |-> "report", ticker |-> next[1], bar |-> b, asof |-> Midnight(b), seen |-> seen,
               choice |-> "HOLD", outlook |-> {}, blind |-> FALSE]
      BY <2>5 DEF told
    <3>2. b \in 0..LastDay /\ Midnight(b) \in Int
      BY <2>1 DEF Midnight
    <3> HIDE DEF seen, b
    <3> QED BY <1>3, <2>4, <3>1, <3>2 DEF Analysis, Forecasts
  <2>7. fill' = [fill EXCEPT !.todo = @ \ {next}, !.pc = "wait"] /\ asking' = [asking EXCEPT ![Filler] = y]
    BY <1>1, <1>2, <1>5, <2>5
  <2>8. asking'[Filler] = y
    BY <1>1, <2>7, MemoryConstants
  <2>9. \A z \in seen : \E i \in Ids : /\ z = <<rows[i].ticker, rows[i].label.exit>> /\ rows[i].label # Unscored
                                      /\ rows[i].created <= Midnight(b) - 3 * Horizon
    BY <2>3
  <2>10. <<next[1], b>> \notin fill.existing /\ b <= next[2]
    BY <1>5, <2>2
  <2> HIDE DEF seen, b
  <2> QED BY <1>1, <2>6, <2>7, <2>8, <2>9, <2>10 DEF Begins
<1> HIDE DEF data, bar, x
<1> QED BY <1>1, <1>4, <1>5

\* No row joins, and none changes but in its results.
Steady == Ids' = Ids /\ \A i \in Ids : Stays(i)

(* As time goes on, what an outcome is judged by stays. *)
LEMMA ExitsKeep ==
  ASSUME MemoryTypes, now' \in Nat, now <= now', NEW i \in Ids, Stays(i)
  PROVE  \A d \in Exits(i) : d \in Exits(i)'
<1>1. /\ rows[i].ticker \in Tickers /\ rows[i].created \in Nat /\ now \in Nat
      /\ rows'[i].ticker = rows[i].ticker /\ rows'[i].created = rows[i].created
  BY MemoryTypesMean DEF Stays
<1>2. Day(now) <= Day(now') /\ Day(now) \in Nat /\ Day(now') \in Nat
  BY <1>1, DaysGrow, DayIs
<1> SUFFICES ASSUME NEW d \in Exits(i) PROVE d \in Exits(i)'
  OBVIOUS
<1>3. d \in 0..LastDay /\ d <= Day(now)
  BY <1>1, ExitIs, MemoryConstants DEF Exits
<1>4. d <= Day(now')
  BY <1>2, <1>3, MemoryConstants
<1> DEFINE target == Day(rows[i].created) + Horizon
           chosen == FirstBar[rows[i].ticker][target]
<1>5. d \in IF target > LastDay THEN {} ELSE {e \in chosen : e < target + HistBuffer /\ e <= Day(now)}
  BY DEF Exits, ExitBar
<1>6. Exits(i)' = IF target > LastDay THEN {} ELSE {e \in chosen : e < target + HistBuffer /\ e <= Day(now')}
  BY <1>1 DEF Exits, ExitBar, FirstBar
<1> HIDE DEF target, chosen
<1> QED BY <1>4, <1>5, <1>6

(* The results that fitted fit again. *)
LEMMA FitsKeep ==
  ASSUME MemoryTypes, now' \in Nat, now <= now', NEW i \in Ids, Stays(i), NEW label, Fits(i, label)
  PROVE  Fits(i, label)'
BY ExitsKeep DEF Fits, Stays

(* The order of the rows and their likeness are as they were. *)
LEMMA SteadyKeeps ==
  ASSUME MemoryTypes, OrderOK, NoTwinUnlessBlind, Steady, now' \in Nat, now <= now'
  PROVE  OrderOK' /\ NoTwinUnlessBlind'
<1>1. now \in Nat /\ \A i \in Ids : rows[i].created \in Nat
  BY MemoryTypesMean
<1>2. \A i \in Ids : /\ rows'[i].ticker = rows[i].ticker /\ rows'[i].created = rows[i].created
                     /\ rows'[i].snap = rows[i].snap /\ rows'[i].blind = rows[i].blind
  BY DEF Steady, Stays
<1>3. OrderOK'
  BY <1>1, <1>2 DEF OrderOK, Steady
<1>4. NoTwinUnlessBlind'
  <2> SUFFICES ASSUME NEW i \in Ids, NEW j \in Ids, i < j, rows[i].ticker = rows[j].ticker,
                      Day(rows[i].created) = Day(rows[j].created), ~rows[j].blind,
                      \A k \in i+1..j-1 : rows'[k].ticker # rows'[j].ticker \/ Day(rows'[k].created) # Day(rows'[j].created)
               PROVE  Similarity(rows[i].snap, rows[j].snap) < DedupThreshold
    BY <1>2 DEF NoTwinUnlessBlind, Steady
  <2>1. \A k \in i+1..j-1 : k \in Ids
    BY MemoryTypesMean
  <2>2. \A k \in i+1..j-1 : rows[k].ticker # rows[j].ticker \/ Day(rows[k].created) # Day(rows[j].created)
    BY <1>2, <2>1
  <2> QED BY <2>2 DEF NoTwinUnlessBlind
<1> QED BY <1>3, <1>4

(* So is what an analysis is nearly the same as. *)
LEMMA DuplicatesKeep ==
  ASSUME Steady, now' = now, NEW a \in Askers,
         asking'[a].ticker = asking[a].ticker, asking'[a].bar = asking[a].bar, asking'[a].asof = asking[a].asof
  PROVE  Duplicates(a)' = Duplicates(a)
<1>1. /\ \A i \in Ids : rows'[i].ticker = rows[i].ticker /\ rows'[i].created = rows[i].created /\ rows'[i].snap = rows[i].snap
      /\ Ids' = Ids
  BY DEF Steady, Stays
<1>2. StoredAt(a)' = StoredAt(a)
  BY DEF StoredAt
<1> DEFINE day == {i \in OfTicker(Ids, asking[a].ticker) : Day(rows[i].created) = Day(StoredAt(a))}
           last == {i \in day : \A j \in day : rows[j].created <= rows[i].created}
<1>3. OfTicker(Ids, asking[a].ticker)' = OfTicker(Ids, asking[a].ticker) /\ OfTicker(Ids, asking[a].ticker) \subseteq Ids
  BY <1>1 DEF OfTicker
<1>4. day' = day /\ day \subseteq Ids
  BY <1>1, <1>2, <1>3
<1> HIDE DEF day
<1>5. last' = last /\ last \subseteq Ids
  BY <1>1, <1>4
<1> HIDE DEF last
<1>6. Duplicates(a) = {i \in last : Similarity(Snap[asking[a].ticker][asking[a].bar], rows[i].snap) >= DedupThreshold}
  BY DEF Duplicates, day, last
<1>7. Duplicates(a)' = {i \in last' : Similarity(Snap[asking'[a].ticker][asking'[a].bar], rows'[i].snap) >= DedupThreshold}
  BY DEF Duplicates, day, last
<1> QED BY <1>1, <1>5, <1>6, <1>7

(* Steps that touch neither the rows nor the validations, and take no time: what is left to show
   is about the analyses and the back-fill. *)
LEMMA MemoryAskingKeeps ==
  ASSUME MemoryInv, UNCHANGED <<now, rows, valid>>, AskingTypes', FillTypes', AskersOK', FillOK',
         NoLookAheadUnlessCalendarsDiffer',
         \A a \in Askers : asking'[a] # Idle /\ asking'[a].pc = "insert" =>
            /\ asking[a] # Idle
            /\ asking'[a].ticker = asking[a].ticker /\ asking'[a].bar = asking[a].bar /\ asking'[a].asof = asking[a].asof
            /\ asking'[a].blind \/ Duplicates(a) = {} \/ (asking[a].pc = "insert" /\ asking'[a].blind = asking[a].blind)
  PROVE  MemoryInv'
<1>1. MemoryTypes /\ LabelsOK /\ OrderOK /\ LookOK /\ NoTwinUnlessBlind
  BY DEF MemoryInv
<1>2. Steady
  BY DEF Steady, Stays, Ids
<1>3. now \in Nat
  BY <1>1, MemoryTypesMean
<1>4. OrderOK' /\ NoTwinUnlessBlind'
  BY <1>1, <1>2, <1>3, SteadyKeeps
<1>5. LabelsOK'
  <2>1. Ids' = Ids
    BY DEF Ids
  <2>2. \A i \in Ids : Exits(i)' = Exits(i)
    BY DEF Exits, ExitBar, FirstBar
  <2>3. \A v \in Validators : Scoring(v)' <=> Scoring(v)
    BY DEF Scoring, Idle
  <2>4. \A v \in Validators : Scoring(v) => DOMAIN valid[v].writes \subseteq Ids
    BY <1>1, MemoryTypesMean DEF IsScoring
  <2>5. Scored(Ids)' = Scored(Ids) /\ Scored(Ids) \subseteq Ids
    BY <2>1 DEF Scored
  <2>6. \A i \in Ids : /\ Fits(i, rows[i].label) => Fits(i, rows[i].label)'
                       /\ \A v \in Validators : Fits(i, valid[v].writes[i]) => Fits(i, valid[v].writes[i])'
    BY <2>2 DEF Fits
  <2> QED BY <1>1, <2>3, <2>4, <2>5, <2>6 DEF LabelsOK
<1>6. LookOK'
  <2> SUFFICES ASSUME NEW a \in Askers, asking'[a] # Idle, asking'[a].pc = "insert", ~asking'[a].blind
               PROVE  Duplicates(a)' = {}
    BY DEF LookOK, Idle
  <2>1. Duplicates(a) = {}
    BY <1>1 DEF LookOK
  <2>2. Duplicates(a)' = Duplicates(a)
    BY <1>2, DuplicatesKeep
  <2> QED BY <2>1, <2>2
<1>7. MemoryTypes'
  <2>1. \A v \in Validators : IsScoring(valid[v]) => IsScoring(valid[v])'
    BY DEF IsScoring, Ids
  <2> QED BY <1>1, <2>1 DEF MemoryTypes, AskingTypes, FillTypes, Idle
<1> QED BY <1>4, <1>5, <1>6, <1>7 DEF MemoryInv

(* A run of the back-fill that goes on knows what it knew. *)
LEMMA FillKeeps ==
  ASSUME MemoryInv, UNCHANGED <<now, rows>>, FillTypes', AskersOK',
         fill'.pc # "off" => /\ fill.pc # "off" /\ fill'.todo \subseteq fill.todo /\ fill.existing \subseteq fill'.existing
                             /\ asking'[Filler] # Idle =>
                                  /\ fill'.existing = fill.existing
                                  /\ \/ \E p \in fill.todo : asking'[Filler].bar <= p[2] /\ asking'[Filler].bar \in 0..LastDay
                                     \/ asking[Filler] # Idle /\ asking'[Filler].bar = asking[Filler].bar
                                                              /\ asking'[Filler].ticker = asking[Filler].ticker
                                  /\ <<asking'[Filler].ticker, asking'[Filler].bar>> \notin fill.existing
  PROVE  FillOK'
<1>1. CASE fill'.pc = "off"
  BY <1>1 DEF FillOK
<1>2. CASE fill'.pc # "off"
  <2>1. PICK end \in 0..LastDay :
            /\ end < Day(now)
            /\ \A p \in fill.todo : p[2] <= end
            /\ asking[Filler] # Idle => /\ asking[Filler].bar <= end
                                        /\ <<asking[Filler].ticker, asking[Filler].bar>> \notin fill.existing
            /\ \A i \in Ids : Day(rows[i].created) <= end =>
                    <<rows[i].ticker, Day(rows[i].created)>> \in fill.existing
    BY <1>2 DEF MemoryInv, FillOK
  <2>2. end < Day(now') /\ Ids' = Ids
    BY <2>1 DEF Ids
  <2>3. \A p \in fill'.todo : p[2] <= end
    BY <1>2, <2>1
  <2>4. asking'[Filler] # Idle => /\ asking'[Filler].bar <= end
                                  /\ <<asking'[Filler].ticker, asking'[Filler].bar>> \notin fill'.existing
    <3> SUFFICES ASSUME asking'[Filler] # Idle PROVE asking'[Filler].bar <= end
      BY <1>2
    <3>1. CASE asking[Filler] # Idle /\ asking'[Filler].bar = asking[Filler].bar
      BY <2>1, <3>1
    <3>2. CASE \E p \in fill.todo : asking'[Filler].bar <= p[2] /\ asking'[Filler].bar \in 0..LastDay
      <4>1. PICK p \in fill.todo : asking'[Filler].bar <= p[2] /\ asking'[Filler].bar \in 0..LastDay
        BY <3>2
      <4>2. p[2] \in 0..LastDay /\ p[2] <= end
        BY <2>1, <4>1 DEF MemoryInv, MemoryTypes
      <4> QED BY <4>1, <4>2, MemoryConstants
    <3> QED BY <1>2, <3>1, <3>2
  <2>5. \A i \in Ids' : Day(rows'[i].created) <= end => <<rows'[i].ticker, Day(rows'[i].created)>> \in fill'.existing
    BY <1>2, <2>1, <2>2
  <2> QED BY <2>1, <2>2, <2>3, <2>4, <2>5 DEF FillOK, Idle
<1> QED BY <1>1, <1>2

(* What a past analysis was shown is as before. *)
LEMMA SeenKeeps ==
  ASSUME NoLookAheadUnlessCalendarsDiffer,
         asking'[Filler] # Idle => /\ asking[Filler] # Idle /\ asking'[Filler].seen = asking[Filler].seen
                                   /\ asking'[Filler].bar = asking[Filler].bar
  PROVE  NoLookAheadUnlessCalendarsDiffer'
BY DEF NoLookAheadUnlessCalendarsDiffer, Idle

(* An analysis begins. *)
LEMMA AskKeeps ==
  ASSUME MemoryInv, NEW a \in Requests, NEW s \in Asked, Ask(a, s)
  PROVE  MemoryInv'
<1>1. /\ AskingTypes' /\ AskersOK' /\ UNCHANGED <<now, memory, rows, fill, valid>>
      /\ \A b \in Askers \ {a} : asking'[b] = asking[b]
      /\ asking'[a] # Idle /\ asking'[a].pc = "report"
  BY AskIs DEF MemoryInv
<1>2. FillTypes' /\ FillTypes
  BY <1>1 DEF MemoryInv, MemoryTypes, FillTypes
<1>3. asking'[Filler] = asking[Filler]
  BY <1>1, MemoryConstants
<1>4. FillOK'
  <2>1. asking[Filler] # Idle => fill.pc # "off"
    BY DEF MemoryInv, AskersOK
  <2>2. fill.pc # "off" /\ asking[Filler] # Idle => <<asking[Filler].ticker, asking[Filler].bar>> \notin fill.existing
    BY DEF MemoryInv, FillOK
  <2> QED BY <1>1, <1>2, <1>3, <2>1, <2>2, FillKeeps
<1>5. NoLookAheadUnlessCalendarsDiffer'
  BY <1>3, SeenKeeps DEF MemoryInv
<1> QED BY <1>1, <1>2, <1>4, <1>5, MemoryAskingKeeps

(* An analysis moves on. *)
LEMMA AdvanceKeeps ==
  ASSUME MemoryInv, NEW a \in Askers, NEW stage, Advances(a, stage), 
         stage = "look" \/ (stage = "insert" /\ (Duplicates(a) = {} \/ asking'[a].blind))
  PROVE  MemoryInv'
<1>1. AskingTypes' /\ AskersOK' /\ UNCHANGED <<now, memory, rows, fill, valid>>
  BY AdvancesKeep DEF MemoryInv, Advances
<1>2. FillTypes' /\ FillTypes /\ asking \in [Askers -> Analysis \cup {Idle}]
  BY <1>1 DEF MemoryInv, MemoryTypes, FillTypes
<1>3. \A b \in Askers \ {a} : asking'[b] = asking[b]
  BY <1>2 DEF Advances
<1>4. asking'[Filler] # Idle => /\ asking[Filler] # Idle /\ asking'[Filler].seen = asking[Filler].seen
                                /\ asking'[Filler].bar = asking[Filler].bar /\ asking'[Filler].ticker = asking[Filler].ticker
  BY <1>3, MemoryConstants DEF Advances
<1>5. FillOK'
  <2>1. asking[Filler] # Idle => fill.pc # "off"
    BY DEF MemoryInv, AskersOK
  <2>2. fill.pc # "off" /\ asking[Filler] # Idle => <<asking[Filler].ticker, asking[Filler].bar>> \notin fill.existing
    BY DEF MemoryInv, FillOK
  <2> QED BY <1>1, <1>2, <1>4, <2>1, <2>2, FillKeeps
<1>6. NoLookAheadUnlessCalendarsDiffer'
  BY <1>4, SeenKeeps DEF MemoryInv
<1>7. asking'[a].ticker = asking[a].ticker /\ asking'[a].bar = asking[a].bar /\ asking'[a].asof = asking[a].asof
      /\ asking[a] # Idle /\ (asking'[a].pc = "insert" => Duplicates(a) = {} \/ asking'[a].blind)
  BY DEF Advances
<1>8. ASSUME NEW b \in Askers, asking'[b] # Idle, asking'[b].pc = "insert"
      PROVE  /\ asking[b] # Idle
             /\ asking'[b].ticker = asking[b].ticker /\ asking'[b].bar = asking[b].bar /\ asking'[b].asof = asking[b].asof
             /\ asking'[b].blind \/ Duplicates(b) = {} \/ (asking[b].pc = "insert" /\ asking'[b].blind = asking[b].blind)
  <2>1. CASE b = a
    BY <1>7, <1>8, <2>1
  <2>2. CASE b # a
    BY <1>3, <1>8, <2>2
  <2> QED BY <2>1, <2>2
<1> QED BY <1>1, <1>2, <1>5, <1>6, <1>8, MemoryAskingKeeps

(* An analysis ends and stores nothing. *)
LEMMA EndKeeps ==
  ASSUME MemoryInv, NEW a \in Askers, asking[a] # Idle, NEW known \in BOOLEAN, Ends(a, known),
         UNCHANGED <<now, memory, rows, valid>>
  PROVE  MemoryInv'
<1>1. AskingTypes' /\ FillTypes' /\ AskersOK' /\ asking \in [Askers -> Analysis \cup {Idle}]
  BY EndsKeep DEF MemoryInv, AskingTypes, FillTypes, MemoryTypes
<1>2. asking' = [asking EXCEPT ![a] = Idle]
  BY DEF Ends
<1>3. \A b \in Askers : asking'[b] # Idle => asking'[b] = asking[b] /\ b # a
  BY <1>1, <1>2
<1>4. FillTypes
  BY DEF MemoryInv, MemoryTypes, FillTypes
<1>5. fill'.pc # "off" => /\ fill.pc # "off" /\ fill'.todo \subseteq fill.todo /\ fill.existing \subseteq fill'.existing
                          /\ asking'[Filler] # Idle => fill' = fill
  <2>1. CASE a # Filler
    BY <2>1 DEF Ends
  <2>2. CASE a = Filler
    <3>1. fill.pc = "wait"
      BY <2>2 DEF MemoryInv, AskersOK
    <3>2. asking'[Filler] = Idle
      BY <1>1, <1>2, <2>2
    <3>3. fill' = [fill EXCEPT !.pc = "scan", !.existing = IF known THEN @ \cup {<<asking[a].ticker, asking[a].bar>>} ELSE @]
      BY <2>2 DEF Ends
    <3>4. fill'.todo = fill.todo /\ fill.existing \subseteq fill'.existing
      BY <1>4, <3>3 DEF FillTypes
    <3> QED BY <3>1, <3>2, <3>4
  <2> QED BY <2>1, <2>2
<1>6. FillOK'
  <2>1. fill.pc # "off" /\ asking[Filler] # Idle => <<asking[Filler].ticker, asking[Filler].bar>> \notin fill.existing
    BY DEF MemoryInv, FillOK
  <2> QED BY <1>1, <1>3, <1>5, <2>1, MemoryConstants, FillKeeps
<1>7. NoLookAheadUnlessCalendarsDiffer'
  BY <1>3, MemoryConstants, SeenKeeps DEF MemoryInv
<1>8. \A b \in Askers : asking'[b] # Idle /\ asking'[b].pc = "insert" => asking[b] # Idle /\ asking[b].pc = "insert"
  BY <1>3
<1> QED BY <1>1, <1>3, <1>6, <1>7, <1>8, MemoryAskingKeeps

(* The back-fill starts. *)
LEMMA StartFillKeeps ==
  ASSUME MemoryInv, StartFill
  PROVE  MemoryInv'
<1>1. /\ FillTypes' /\ fill.pc = "off" /\ fill'.pc = "scan" /\ UNCHANGED <<now, memory, rows, asking, valid>>
      /\ \E end \in 0..LastDay : /\ end < Day(now) /\ \A p \in fill'.todo : p[2] <= end
      /\ \A i \in Ids : <<rows[i].ticker, Day(rows[i].created)>> \in fill'.existing
  BY StartFillIs DEF MemoryInv
<1>2. asking'[Filler] = Idle /\ \A a \in Askers : asking'[a] = asking[a]
  BY <1>1 DEF MemoryInv, AskersOK
<1>3. AskersOK' /\ AskingTypes'
  BY <1>1, <1>2, MemoryConstants DEF MemoryInv, AskersOK, AskingTypes, MemoryTypes, Idle
<1>4. FillOK'
  BY <1>1, <1>2 DEF FillOK, Idle, Ids
<1>5. NoLookAheadUnlessCalendarsDiffer'
  BY <1>2 DEF NoLookAheadUnlessCalendarsDiffer, Idle
<1>6. \A a \in Askers : asking'[a] # Idle /\ asking'[a].pc = "insert" /\ ~asking'[a].blind => Duplicates(a) = {}
  BY <1>2 DEF MemoryInv, LookOK
<1> QED BY <1>1, <1>2, <1>3, <1>4, <1>5, <1>6, MemoryAskingKeeps

(* It goes on to an analysis, which is shown only what was known on its date: an outcome is
   judged by the first bar on or after the target day, and that day is not past it. *)
LEMMA FillBeginKeeps ==
  ASSUME MemoryInv, fill.pc = "scan", NEW next \in fill.todo, Begins(next)
  PROVE  MemoryInv'
<1> DEFINE x == asking'[Filler]
<1>1. /\ UNCHANGED <<now, memory, rows, valid>>
      /\ fill' = [fill EXCEPT !.todo = @ \ {next}, !.pc = "wait"]
      /\ x \in Analysis /\ x.pc = "report" /\ x.asof = Midnight(x.bar) /\ x.bar <= next[2]
      /\ <<x.ticker, x.bar>> \notin fill.existing
      /\ asking' = [asking EXCEPT ![Filler] = x]
  BY DEF Begins
<1>2. FillTypes /\ asking \in [Askers -> Analysis \cup {Idle}] /\ Filler \in Askers
  BY MemoryConstants DEF MemoryInv, MemoryTypes, FillTypes
<1>3. /\ FillTypes' /\ AskingTypes' /\ fill'.pc = "wait" /\ fill'.todo = fill.todo \ {next}
      /\ fill'.existing = fill.existing
  BY <1>1, <1>2 DEF FillTypes, AskingTypes
<1>4. \A b \in Askers \ {Filler} : asking'[b] = asking[b]
  BY <1>1, <1>2
<1>5. AskersOK'
  BY <1>1, <1>3, <1>4, MemoryConstants DEF AskersOK, MemoryInv
<1>6. x.bar \in 0..LastDay
  BY <1>1 DEF Analysis
<1>7. FillOK'
  BY <1>1, <1>3, <1>5, <1>6, FillKeeps
<1>8. NoLookAheadUnlessCalendarsDiffer'
  <2> SUFFICES ASSUME NEW seen \in x.seen, seen[2] > x.bar, x.bar \in Trading[seen[1]]
               PROVE  FALSE
    BY DEF NoLookAheadUnlessCalendarsDiffer
  <2>1. PICK i \in Ids : /\ seen = <<rows[i].ticker, rows[i].label.exit>> /\ rows[i].label # Unscored
                         /\ rows[i].created <= Midnight(x.bar) - 3 * Horizon
    BY DEF Begins
  <2>2. Fits(i, rows[i].label)
    BY <2>1 DEF MemoryInv, LabelsOK, Scored
  <2>3. rows[i].ticker \in Tickers /\ rows[i].created \in Nat /\ Horizon \in Nat
    BY MemoryTypesMean, MemoryConstants DEF MemoryInv
  <2>4. PICK e : e = rows[i].label.exit
    OBVIOUS
  <2>5. e \in ExitBar(rows[i].ticker, rows[i].created, Horizon)
    BY <2>2, <2>4 DEF Fits, Exits
  <2>6. e \in 0..LastDay /\ \A d \in Trading[rows[i].ticker] : d >= Day(rows[i].created) + Horizon => e <= d
    BY <2>3, <2>5, ExitIs, MemoryConstants
  <2>7. x.bar >= Day(rows[i].created) + Horizon
    <3>1. 3 * Day(rows[i].created) <= rows[i].created /\ Day(rows[i].created) \in Nat
      BY <2>3, DayIs
    <3>2. x.bar \in Nat
      BY <1>6, MemoryConstants
    <3>3. rows[i].created <= 3 * x.bar - 3 * Horizon
      BY <2>1 DEF Midnight
    <3> HIDE DEF x
    <3> QED BY <2>3, <3>1, <3>2, <3>3
  <2>8. e <= x.bar /\ e > x.bar
    BY <2>1, <2>4, <2>6, <2>7
  <2>9. x.bar \in Int /\ e \in Int
    BY <1>6, <2>6
  <2> QED BY <2>8, <2>9
<1>9. \A a \in Askers : asking'[a] # Idle /\ asking'[a].pc = "insert" =>
        asking[a] # Idle /\ asking'[a] = asking[a]
  BY <1>1, <1>4
<1>10. \A a \in Askers : asking[a] # Idle /\ asking[a].pc = "insert" /\ ~asking[a].blind => Duplicates(a) = {}
  BY DEF MemoryInv, LookOK
<1> QED BY <1>1, <1>3, <1>5, <1>7, <1>8, <1>9, <1>10, MemoryAskingKeeps

(* It passes over a date. *)
LEMMA PassKeeps ==
  ASSUME MemoryInv, fill.pc = "scan", NEW next \in fill.todo, Passes(next)
  PROVE  MemoryInv'
<1>1. UNCHANGED <<now, memory, rows, asking, valid>> /\ fill' = [fill EXCEPT !.todo = @ \ {next}]
  BY DEF Passes
<1>2. FillTypes
  BY DEF MemoryInv, MemoryTypes, FillTypes
<1>3. FillTypes' /\ fill'.pc = "scan" /\ fill'.todo = fill.todo \ {next} /\ fill'.existing = fill.existing
  BY <1>1, <1>2 DEF FillTypes
<1>4. asking'[Filler] = Idle /\ asking[Filler] = Idle
  BY <1>1 DEF MemoryInv, AskersOK
<1>5. AskersOK' /\ AskingTypes'
  BY <1>1, <1>4 DEF MemoryInv, AskersOK, AskingTypes, MemoryTypes, Idle
<1>6. FillOK'
  BY <1>1, <1>3, <1>4, <1>5, FillKeeps
<1>7. NoLookAheadUnlessCalendarsDiffer'
  BY <1>4 DEF NoLookAheadUnlessCalendarsDiffer, Idle
<1>8. \A a \in Askers : asking[a] # Idle /\ asking[a].pc = "insert" /\ ~asking[a].blind => Duplicates(a) = {}
  BY DEF MemoryInv, LookOK
<1> QED BY <1>1, <1>3, <1>5, <1>6, <1>7, <1>8, MemoryAskingKeeps DEF Idle

(* It ends. *)
LEMMA StopFillKeeps ==
  ASSUME MemoryInv, StopFill
  PROVE  MemoryInv'
<1>1. /\ UNCHANGED <<now, memory, rows, valid>> /\ fill' = [pc |-> "off", todo |-> {}, existing |-> {}]
      /\ asking' = [asking EXCEPT ![Filler] = Idle]
  BY DEF StopFill
<1>2. asking \in [Askers -> Analysis \cup {Idle}] /\ Filler \in Askers
  BY MemoryConstants DEF MemoryInv, MemoryTypes
<1>3. asking'[Filler] = Idle /\ \A a \in Askers \ {Filler} : asking'[a] = asking[a]
  BY <1>1, <1>2
<1>4. FillTypes' /\ AskingTypes'
  BY <1>1, <1>2 DEF FillTypes, AskingTypes
<1>5. AskersOK'
  BY <1>3, MemoryConstants DEF MemoryInv, AskersOK, Idle
<1>6. FillOK'
  BY <1>1 DEF FillOK
<1>7. NoLookAheadUnlessCalendarsDiffer'
  BY <1>3 DEF NoLookAheadUnlessCalendarsDiffer, Idle
<1>8. \A a \in Askers : asking[a] # Idle /\ asking[a].pc = "insert" /\ ~asking[a].blind => Duplicates(a) = {}
  BY DEF MemoryInv, LookOK
<1>9. \A a \in Askers : asking'[a] # Idle => asking'[a] = asking[a]
  BY <1>3
<1> QED BY <1>1, <1>4, <1>5, <1>6, <1>7, <1>8, <1>9, MemoryAskingKeeps

(* Steps of the validations: what is left to show is about their results. *)
LEMMA ValidatingKeeps ==
  ASSUME MemoryInv, Steady, rows' \in Seq(Row), UNCHANGED <<now, asking, fill>>, ValidTypes', LabelsOK'
  PROVE  MemoryInv'
<1>1. MemoryTypes'
  BY DEF MemoryInv, MemoryTypes, ValidTypes, Idle
<1>2. AskersOK' /\ NoLookAheadUnlessCalendarsDiffer'
  BY DEF MemoryInv, AskersOK, NoLookAheadUnlessCalendarsDiffer, Idle
<1>3. OrderOK' /\ NoTwinUnlessBlind'
  BY SteadyKeeps, MemoryTypesMean DEF MemoryInv
<1>4. LookOK'
  <2> SUFFICES ASSUME NEW a \in Askers, asking[a] # Idle, asking[a].pc = "insert", ~asking[a].blind
               PROVE  Duplicates(a)' = {}
    BY DEF LookOK, Idle
  <2>1. Duplicates(a)' = Duplicates(a)
    BY DuplicatesKeep
  <2> QED BY <2>1 DEF MemoryInv, LookOK
<1>5. FillOK'
  <2>1. Ids' = Ids /\ \A i \in Ids : rows'[i].ticker = rows[i].ticker /\ rows'[i].created = rows[i].created
    BY DEF Steady, Stays
  <2> QED BY <2>1 DEF MemoryInv, FillOK, Idle
<1> QED BY <1>1, <1>2, <1>3, <1>4, <1>5 DEF MemoryInv

(* A validation before it writes into the rows. *)
LEMMA ValidsKeep ==
  ASSUME MemoryInv, ValidsStep
  PROVE  MemoryInv'
<1>1. UNCHANGED <<now, memory, rows, asking, fill>> /\ Ids' = Ids
  BY DEF ValidsStep, Ids
<1>2. Steady /\ rows' \in Seq(Row)
  BY <1>1 DEF Steady, Stays, MemoryInv, MemoryTypes
<1>3. MemoryTypes /\ LabelsOK /\ now \in Nat
  BY MemoryTypesMean DEF MemoryInv
<1>4. \A w \in Validators : valid[w] \in {Idle, [pc |-> "horizons"]} \/ Sound(valid[w])
  <2> SUFFICES ASSUME NEW w \in Validators, IsScoring(valid[w]), valid[w] # Idle PROVE Sound(valid[w])
    BY <1>3 DEF MemoryTypes
  <2>1. Scoring(w)
    BY DEF IsScoring, Scoring
  <2> QED BY <1>3, <2>1 DEF Sound, LabelsOK
<1>5. \A w \in Validators : valid'[w] \in {Idle, [pc |-> "horizons"]} \/ Sound(valid'[w])
  BY <1>4 DEF ValidsStep
<1>6. ASSUME NEW w \in Validators, Sound(valid'[w])
      PROVE  /\ IsScoring(valid[w])' /\ Scoring(w)'
             /\ \A i \in DOMAIN valid'[w].writes : Fits(i, valid[w].writes[i])'
  <2>1. IsScoring(valid[w])' /\ DOMAIN valid'[w].writes \subseteq Ids
    BY <1>1, <1>6 DEF Sound, IsScoring
  <2>2. \A i \in Ids : Exits(i)' = Exits(i)
    BY <1>1 DEF Exits, ExitBar, FirstBar
  <2>3. \A i \in DOMAIN valid'[w].writes : Fits(i, valid[w].writes[i])'
    BY <1>1, <1>6, <2>1, <2>2 DEF Sound, Fits
  <2>4. valid'[w].pc = "score"
    BY <2>1 DEF IsScoring
  <2>5. valid'[w] # Idle
    <3>1. valid'[w] \in [pc : {"score"}, todo : {valid'[w].todo}, writes : {valid'[w].writes}, aborted : BOOLEAN]
      BY <1>6 DEF Sound, IsScoring
    <3>2. DOMAIN valid'[w] = {"pc", "todo", "writes", "aborted"} /\ DOMAIN Idle = {"pc"}
      BY <3>1 DEF Idle
    <3> QED BY <3>2
  <2> QED BY <2>1, <2>3, <2>4, <2>5 DEF Scoring, Idle
<1>7. ValidTypes'
  BY <1>5, <1>6 DEF ValidTypes, ValidsStep, Idle
<1>8. LabelsOK'
  <2>1. \A i \in Scored(Ids) : Fits(i, rows[i].label)
    BY <1>3 DEF LabelsOK
  <2>2. Scored(Ids)' = Scored(Ids) /\ \A i \in Scored(Ids) : Fits(i, rows[i].label)'
    BY <1>1, <2>1 DEF Scored, Fits, Exits, ExitBar, FirstBar
  <2>3. \A w \in Validators : Scoring(w)' => Sound(valid'[w])
    BY <1>5 DEF Scoring, Idle
  <2> QED BY <1>6, <2>2, <2>3 DEF LabelsOK
<1> QED BY <1>1, <1>2, <1>7, <1>8, ValidatingKeeps

(* A validation that ends, with or without results for the rows. *)
LEMMA ValidationEnds ==
  ASSUME MemoryInv, NEW v \in Validators, NEW next \in {Idle, [pc |-> "horizons"]}, valid' = [valid EXCEPT ![v] = next],
         UNCHANGED <<now, asking, fill>>, rows' \in Seq(Row), Steady,
         \A i \in Ids : rows'[i].label # Unscored => Fits(i, rows'[i].label)
  PROVE  MemoryInv'
<1>1. MemoryTypes /\ LabelsOK /\ now \in Nat /\ DOMAIN valid = Validators
  BY MemoryTypesMean DEF MemoryInv, MemoryTypes
<1>2. valid'[v] = next /\ \A w \in Validators \ {v} : valid'[w] = valid[w]
  BY <1>1
<1>3. ValidTypes'
  <2>1. ValidTypes /\ Ids \subseteq Ids'
    BY <1>1 DEF ValidTypes, MemoryTypes, Steady
  <2>2. valid' = [w \in Validators |-> valid'[w]]
    BY <1>1
  <2> QED BY <1>2, <2>1, <2>2, ValidsStay
<1>4. \A i \in Ids : \A d \in Exits(i) : d \in Exits(i)'
  BY <1>1, ExitsKeep DEF Steady
<1>5. \A i \in Ids : /\ rows'[i].choice = rows[i].choice /\ rows'[i].price = rows[i].price
                     /\ rows'[i].ticker = rows[i].ticker
  BY DEF Steady, Stays
<1>6. \A i \in Scored(Ids)' : Fits(i, rows[i].label)'
  <2>1. \A i \in Scored(Ids)' : i \in Ids /\ rows'[i].label # Unscored
    BY DEF Scored, Steady, Unscored
  <2> QED BY <1>4, <1>5, <2>1 DEF Fits
<1>7. \A w \in Validators : Scoring(w)' => \A i \in DOMAIN valid'[w].writes : Fits(i, valid[w].writes[i])'
  <2> SUFFICES ASSUME NEW w \in Validators, Scoring(w)', NEW i \in DOMAIN valid'[w].writes
               PROVE  Fits(i, valid[w].writes[i])'
    OBVIOUS
  <2>1. w # v /\ valid'[w] = valid[w]
    BY <1>2 DEF Scoring, Idle
  <2>2. Scoring(w)
    BY <2>1 DEF Scoring, Idle
  <2>3. i \in Ids /\ Fits(i, valid[w].writes[i])
    BY <1>1, <2>1, <2>2, MemoryTypesMean DEF LabelsOK, IsScoring
  <2> QED BY <1>4, <1>5, <2>1, <2>3 DEF Fits
<1>8. LabelsOK'
  BY <1>6, <1>7 DEF LabelsOK
<1> QED BY <1>3, <1>8, ValidatingKeeps

(* It writes its results into the rows. *)
LEMMA CommitKeeps ==
  ASSUME MemoryInv, NEW v \in Validators, Commit(v)
  PROVE  MemoryInv'
<1>1. Committed(v)
  BY CommitIs DEF MemoryInv
<1>2. Scoring(v) /\ UNCHANGED <<now, asking, fill>> /\ rows' \in Seq(Row) /\ Steady
  BY <1>1 DEF Committed, Steady
<1>3. PICK next \in {Idle, [pc |-> "horizons"]} : valid' = [valid EXCEPT ![v] = next]
  BY <1>1 DEF Committed
<1>4. \A i \in Ids : rows'[i].label # Unscored => Fits(i, rows'[i].label)
  <2> SUFFICES ASSUME NEW i \in Ids, rows'[i].label # Unscored PROVE Fits(i, rows'[i].label)
    OBVIOUS
  <2>1. rows'[i].label = IF Holds(v, i) THEN valid[v].writes[i] ELSE rows[i].label
    BY <1>1 DEF Committed
  <2>2. CASE Holds(v, i)
    BY <1>2, <2>1, <2>2 DEF MemoryInv, LabelsOK, Holds
  <2>3. CASE ~Holds(v, i)
    BY <2>1, <2>3 DEF MemoryInv, LabelsOK, Scored
  <2> QED BY <2>2, <2>3
<1> QED BY <1>2, <1>3, <1>4, ValidationEnds

(* It scores the horizons. *)
LEMMA HorizonsKeep ==
  ASSUME MemoryInv, NEW v \in Validators, ValidateHorizons(v)
  PROVE  MemoryInv'
<1>1. Outlined(v)
  BY HorizonsAre DEF MemoryInv
<1>2. UNCHANGED <<now, asking, fill>> /\ rows' \in Seq(Row) /\ Steady /\ valid' = [valid EXCEPT ![v] = Idle]
  BY <1>1 DEF Outlined, Steady
<1>3. \A i \in Ids : rows'[i].label # Unscored => Fits(i, rows'[i].label)
  BY <1>1 DEF Outlined, MemoryInv, LabelsOK, Scored
<1> QED BY <1>2, <1>3, ValidationEnds

(* Time goes on: the analyses that have looked for a duplicate are over by then. *)
LEMMA TickKeeps ==
  ASSUME MemoryInv, Tick
  PROVE  MemoryInv'
<1>1. /\ now < 3 * LastDay + 2 /\ now' = now + 1 /\ UNCHANGED <<memory, rows, asking, fill, valid>>
      /\ \A a \in Askers : asking[a] # Idle => asking[a].pc = "report"
  BY DEF Tick
<1>2. MemoryTypes /\ LabelsOK /\ now \in Nat /\ now' \in Nat /\ now <= now' /\ 3 * LastDay + 2 \in Nat
  BY <1>1, MemoryTypesMean, MemoryConstants DEF MemoryInv
<1>3. Steady /\ Ids' = Ids
  BY <1>1 DEF Steady, Stays, Ids
<1>4. OrderOK' /\ NoTwinUnlessBlind'
  BY <1>2, <1>3, SteadyKeeps DEF MemoryInv
<1>5. MemoryTypes'
  <2>1. now' \in 0..3 * LastDay + 2
    BY <1>1, <1>2
  <2>2. \A v \in Validators : IsScoring(valid[v]) => IsScoring(valid[v])'
    BY <1>1, <1>3 DEF IsScoring
  <2> QED BY <1>1, <1>2, <2>1, <2>2 DEF MemoryTypes, Idle
<1>6. AskersOK' /\ NoLookAheadUnlessCalendarsDiffer'
  BY <1>1 DEF MemoryInv, AskersOK, NoLookAheadUnlessCalendarsDiffer, Idle
<1>7. LookOK'
  BY <1>1 DEF LookOK, Idle
<1>8. FillOK'
  <2>1. Day(now) <= Day(now') /\ Day(now) \in Nat /\ Day(now') \in Nat
    BY <1>2, DaysGrow, DayIs
  <2>2. \A end \in 0..LastDay : end < Day(now) => end < Day(now')
    BY <2>1, MemoryConstants
  <2> QED BY <1>1, <1>3, <2>2 DEF MemoryInv, FillOK, Idle
<1>9. LabelsOK'
  <2>1. \A i \in Ids : \A d \in Exits(i) : d \in Exits(i)'
    BY <1>2, <1>3, ExitsKeep DEF Steady
  <2>2. Scored(Ids)' = Scored(Ids) /\ Scored(Ids) \subseteq Ids
    BY <1>1, <1>3 DEF Scored
  <2>3. \A v \in Validators : Scoring(v)' <=> Scoring(v)
    BY <1>1 DEF Scoring, Idle
  <2>4. \A v \in Validators : Scoring(v) => DOMAIN valid[v].writes \subseteq Ids
    BY <1>2, MemoryTypesMean DEF IsScoring
  <2>5. \A i \in Ids : /\ Fits(i, rows[i].label) => Fits(i, rows[i].label)'
                       /\ \A v \in Validators : Fits(i, valid[v].writes[i]) => Fits(i, valid[v].writes[i])'
    BY <1>1, <2>1 DEF Fits
  <2> QED BY <1>1, <1>2, <2>2, <2>3, <2>4, <2>5 DEF LabelsOK
<1> QED BY <1>4, <1>5, <1>6, <1>7, <1>8, <1>9 DEF MemoryInv

(* A forecast is stored.  A live one is the latest row there is, one of a past date the only one of
   its stock and day; and the row before it, the latest when duplicates were looked for, was not
   nearly the same. *)
LEMMA StoreKeeps ==
  ASSUME MemoryInv, NEW a \in Askers, Stores(a)
  PROVE  MemoryInv'
<1> DEFINE s == asking[a].ticker
           bar == asking[a].bar
           n == Len(rows) + 1
           new == NewRow(a)
<1>1. MemoryTypes /\ AskersOK /\ LabelsOK /\ OrderOK /\ FillOK /\ LookOK /\ NoTwinUnlessBlind
  BY DEF MemoryInv
<1>2. /\ asking[a] # Idle /\ asking[a].pc = "insert" /\ UNCHANGED <<now, memory, valid>>
      /\ fill' = IF a # Filler THEN fill ELSE [fill EXCEPT !.pc = "scan", !.existing = @ \cup {<<s, bar>>}]
  BY DEF Stores
<1>3. /\ rows' \in Seq(Row) /\ Ids \subseteq Ids' /\ n \in Ids'
      /\ \A i \in Ids : rows'[i] = rows[i] /\ i < n
      /\ \A i \in Ids' : i \in Ids \/ i = n
      /\ rows'[n] = new /\ new \in Row
  BY <1>1, StoresRow
<1>4. /\ now \in Nat /\ Day(now) \in Nat /\ Ids = 1..Len(rows) /\ Len(rows) \in Nat /\ Ids \subseteq Nat
      /\ \A i \in Ids : /\ rows[i].ticker \in Tickers /\ rows[i].created \in Nat /\ rows[i].snap \in Snapshots
                        /\ Day(rows[i].created) \in 0..LastDay
      /\ s \in Tickers /\ bar \in 0..LastDay /\ Snap[s][bar] \in Snapshots /\ asking[a] \in Analysis
  BY <1>1, <1>2, MemoryTypesMean, MemoryConstants
<1>5. /\ StoredAt(a) \in Nat
      /\ a # Filler => StoredAt(a) = now
      /\ a = Filler => StoredAt(a) = Midnight(bar) /\ Day(StoredAt(a)) = bar
  BY <1>1, <1>2, NewRowIs
<1>6. /\ new.ticker = s /\ new.created = StoredAt(a) /\ new.snap = Snap[s][bar] /\ new.label = Unscored
      /\ new.blind = asking[a].blind
  BY DEF NewRow
<1>7. a = Filler => /\ fill.pc = "wait" /\ fill'.pc = "scan" /\ fill'.todo = fill.todo
                    /\ fill'.existing = fill.existing \cup {<<s, bar>>}
  <2>1. a = Filler => fill.pc = "wait"
    BY <1>1, <1>2 DEF AskersOK
  <2>2. FillTypes
    BY <1>1 DEF MemoryTypes, FillTypes
  <2> QED BY <1>2, <2>1, <2>2 DEF FillTypes
<1>8. /\ asking'[a] = Idle /\ AskingTypes'
      /\ \A b \in Askers \ {a} : asking[b] = Idle => asking'[b] = Idle
      /\ \A b \in Askers \ {a} : asking[b] # Idle =>
            /\ asking'[b].pc = asking[b].pc /\ asking'[b].ticker = asking[b].ticker /\ asking'[b].bar = asking[b].bar
            /\ asking'[b].asof = asking[b].asof /\ asking'[b].seen = asking[b].seen
            /\ asking[b].pc = "insert" /\ ~asking'[b].blind => asking[b].ticker # s /\ ~asking[b].blind
  <2> DEFINE known(b) == [asking[b] EXCEPT !.blind = TRUE]
             joins(b) == asking[b] # Idle /\ asking[b].pc = "insert" /\ asking[b].ticker = s
  <2>1. asking' = [b \in Askers |-> IF b = a THEN Idle ELSE IF joins(b) THEN known(b) ELSE asking[b]]
    BY DEF Stores
  <2>2. \A b \in Askers : asking[b] \in Analysis \cup {Idle}
    BY <1>1 DEF MemoryTypes
  <2>3. \A b \in Askers : asking[b] # Idle =>
          /\ known(b) \in Analysis /\ known(b).pc = asking[b].pc /\ known(b).ticker = asking[b].ticker
          /\ known(b).bar = asking[b].bar /\ known(b).asof = asking[b].asof /\ known(b).seen = asking[b].seen
          /\ known(b).blind
    BY <2>2 DEF Analysis
  <2> HIDE DEF known
  <2>4. AskingTypes'
    BY <2>1, <2>2, <2>3 DEF AskingTypes
  <2> QED BY <2>1, <2>3, <2>4
<1>9. FillTypes'
  <2>1. FillTypes /\ <<s, bar>> \in Tickers \X (0..LastDay)
    BY <1>1, <1>4 DEF MemoryTypes, FillTypes
  <2> QED BY <1>2, <2>1 DEF FillTypes
<1>10. AskersOK'
  <2>1. \A b \in Requests : asking'[b] # Idle => asking'[b].asof = Live
    BY <1>1, <1>8, MemoryConstants DEF AskersOK
  <2>2. asking'[Filler] # Idle => fill' = fill /\ a # Filler
    BY <1>2, <1>8
  <2>3. asking'[Filler] # Idle => /\ asking[Filler] # Idle /\ asking'[Filler].asof = asking[Filler].asof
                                  /\ asking'[Filler].bar = asking[Filler].bar
    BY <1>8, <2>2, MemoryConstants
  <2> QED BY <1>1, <2>1, <2>2, <2>3 DEF AskersOK, Idle
<1>11. MemoryTypes'
  <2>1. \A v \in Validators : IsScoring(valid[v]) => IsScoring(valid[v])'
    BY <1>2, <1>3 DEF IsScoring
  <2> QED BY <1>1, <1>2, <1>3, <1>8, <1>9, <2>1 DEF MemoryTypes, AskingTypes, FillTypes, Idle
<1>12. LabelsOK'
  <2>1. \A i \in Ids : Exits(i)' = Exits(i)
    BY <1>2, <1>3 DEF Exits, ExitBar, FirstBar
  <2>2. \A i \in Scored(Ids)' : i \in Scored(Ids) /\ i \in Ids
    BY <1>3, <1>6 DEF Scored, Unscored
  <2>3. \A v \in Validators : Scoring(v)' <=> Scoring(v)
    BY <1>2 DEF Scoring, Idle
  <2>4. \A v \in Validators : Scoring(v) => DOMAIN valid[v].writes \subseteq Ids
    BY <1>1, MemoryTypesMean DEF IsScoring
  <2>5. \A i \in Ids : /\ Fits(i, rows[i].label) => Fits(i, rows[i].label)'
                       /\ \A v \in Validators : Fits(i, valid[v].writes[i]) => Fits(i, valid[v].writes[i])'
    BY <1>2, <1>3, <2>1 DEF Fits
  <2> QED BY <1>1, <1>2, <2>2, <2>3, <2>4, <2>5 DEF LabelsOK
<1>13. a = Filler => bar < Day(now) /\ \A i \in Ids : rows[i].ticker = s => Day(rows[i].created) # bar
  <2> SUFFICES ASSUME a = Filler
               PROVE  bar < Day(now) /\ \A i \in Ids : rows[i].ticker = s => Day(rows[i].created) # bar
    OBVIOUS
  <2>1. PICK end \in 0..LastDay :
            /\ end < Day(now) /\ bar <= end /\ <<s, bar>> \notin fill.existing
            /\ \A i \in Ids : Day(rows[i].created) <= end => <<rows[i].ticker, Day(rows[i].created)>> \in fill.existing
    BY <1>1, <1>2, <1>7 DEF FillOK
  <2>2. bar < Day(now)
    BY <1>4, <2>1, MemoryConstants
  <2> QED BY <1>4, <2>1, <2>2
<1>14. OrderOK'
  <2>1. StoredAt(a) <= now
    <3>1. CASE a # Filler
      BY <1>4, <1>5, <3>1
    <3>2. CASE a = Filler
      <4>1. Day(now) \in Nat /\ 3 * Day(now) <= now /\ bar \in Nat /\ bar < Day(now) /\ StoredAt(a) = 3 * bar
        BY <1>4, <1>5, <1>13, <3>2, DayIs, MemoryConstants DEF Midnight
      <4> HIDE DEF bar
      <4> QED BY <1>4, <4>1
    <3> QED BY <3>1, <3>2
  <2>2. \A i \in Ids : rows[i].ticker = s /\ Day(rows[i].created) = Day(StoredAt(a)) => rows[i].created <= StoredAt(a)
    BY <1>1, <1>5, <1>13 DEF OrderOK
  <2>3. \A i \in Ids' : rows'[i].created <= now'
    BY <1>1, <1>2, <1>3, <1>6, <2>1 DEF OrderOK
  <2>4. ASSUME NEW i \in Ids', NEW j \in Ids', i < j, rows'[i].ticker = rows'[j].ticker,
               Day(rows'[i].created) = Day(rows'[j].created)
        PROVE  rows'[i].created <= rows'[j].created
    <3>1. CASE j = n
      <4>1. i \in Ids
        BY <1>3, <1>4, <2>4, <3>1
      <4> QED BY <1>3, <1>6, <2>2, <2>4, <3>1, <4>1
    <3>2. CASE j \in Ids
      <4>1. i \in Ids
        BY <1>3, <1>4, <2>4, <3>2
      <4> QED BY <1>1, <1>3, <2>4, <3>2, <4>1 DEF OrderOK
    <3> QED BY <1>3, <3>1, <3>2
  <2> QED BY <2>3, <2>4 DEF OrderOK
<1>15. FillOK'
  <2> SUFFICES ASSUME fill'.pc # "off" PROVE FillOK'
    BY DEF FillOK
  <2>0. fill.pc # "off"
    BY <1>2, <1>7
  <2>1. PICK end \in 0..LastDay :
            /\ end < Day(now)
            /\ \A p \in fill.todo : p[2] <= end
            /\ asking[Filler] # Idle => /\ asking[Filler].bar <= end
                                        /\ <<asking[Filler].ticker, asking[Filler].bar>> \notin fill.existing
            /\ \A i \in Ids : Day(rows[i].created) <= end =>
                    <<rows[i].ticker, Day(rows[i].created)>> \in fill.existing
    BY <1>1, <2>0 DEF FillOK
  <2>2. fill'.todo = fill.todo /\ fill.existing \subseteq fill'.existing /\ (a # Filler => fill' = fill)
    BY <1>2, <1>7
  <2>3. asking'[Filler] # Idle => /\ asking'[Filler].bar <= end
                                  /\ <<asking'[Filler].ticker, asking'[Filler].bar>> \notin fill'.existing
    BY <1>8, <2>1, <2>2, MemoryConstants
  <2>4. \A i \in Ids' : Day(rows'[i].created) <= end => <<rows'[i].ticker, Day(rows'[i].created)>> \in fill'.existing
    <3>1. Day(StoredAt(a)) <= end => <<s, Day(StoredAt(a))>> \in fill'.existing
      <4>1. CASE a = Filler
        BY <1>5, <1>7, <4>1
      <4>2. CASE a # Filler
        <5>1. Day(StoredAt(a)) = Day(now) /\ end \in Nat
          BY <1>5, <4>2, MemoryConstants
        <5> QED BY <1>4, <2>1, <5>1
      <4> QED BY <4>1, <4>2
    <3>2. rows'[n].ticker = s /\ rows'[n].created = StoredAt(a)
      BY <1>3, <1>6
    <3> QED BY <1>3, <2>1, <2>2, <3>1, <3>2
  <2> QED BY <1>2, <2>1, <2>2, <2>3, <2>4 DEF FillOK, Idle
<1>16. LookOK'
  <2> SUFFICES ASSUME NEW b \in Askers, asking'[b] # Idle, asking'[b].pc = "insert", ~asking'[b].blind
               PROVE  Duplicates(b)' = {}
    BY DEF LookOK, Idle
  <2>1. /\ b # a /\ asking[b] # Idle /\ asking[b].pc = "insert" /\ asking[b].ticker # s /\ ~asking[b].blind
        /\ asking'[b].ticker = asking[b].ticker /\ asking'[b].bar = asking[b].bar /\ asking'[b].asof = asking[b].asof
    BY <1>8
  <2>2. Duplicates(b) = {}
    BY <1>1, <2>1 DEF LookOK
  <2>3. OfTicker(Ids, asking[b].ticker)' = OfTicker(Ids, asking[b].ticker)
        /\ OfTicker(Ids, asking[b].ticker) \subseteq Ids
    BY <1>3, <1>6, <2>1 DEF OfTicker
  <2>4. StoredAt(b)' = StoredAt(b)
    BY <1>2, <2>1 DEF StoredAt
  <2> DEFINE day == {i \in OfTicker(Ids, asking[b].ticker) : Day(rows[i].created) = Day(StoredAt(b))}
             last == {i \in day : \A j \in day : rows[j].created <= rows[i].created}
  <2>5. day' = day /\ day \subseteq Ids
    BY <1>3, <2>3, <2>4
  <2> HIDE DEF day
  <2>6. last' = last /\ last \subseteq Ids
    BY <1>3, <2>5
  <2> HIDE DEF last
  <2>7. Duplicates(b) = {i \in last : Similarity(Snap[asking[b].ticker][asking[b].bar], rows[i].snap) >= DedupThreshold}
    BY DEF Duplicates, day, last
  <2>8. Duplicates(b)' = {i \in last' : Similarity(Snap[asking'[b].ticker][asking'[b].bar], rows'[i].snap) >= DedupThreshold}
    BY DEF Duplicates, day, last
  <2> QED BY <1>3, <2>1, <2>2, <2>6, <2>7, <2>8
<1>17. NoLookAheadUnlessCalendarsDiffer'
  <2>1. asking'[Filler] # Idle => /\ asking[Filler] # Idle /\ asking'[Filler].seen = asking[Filler].seen
                                  /\ asking'[Filler].bar = asking[Filler].bar
    BY <1>8, MemoryConstants
  <2> QED BY <2>1, SeenKeeps DEF MemoryInv
<1>18. NoTwinUnlessBlind'
  <2> SUFFICES ASSUME NEW i \in Ids', NEW j \in Ids', i < j, rows'[i].ticker = rows'[j].ticker,
                      Day(rows'[i].created) = Day(rows'[j].created), ~rows'[j].blind,
                      \A k \in i+1..j-1 : rows'[k].ticker # rows'[j].ticker \/ Day(rows'[k].created) # Day(rows'[j].created)
               PROVE  Similarity(rows'[i].snap, rows'[j].snap) < DedupThreshold
    BY DEF NoTwinUnlessBlind
  <2>1. i \in Ids /\ i \in Nat
    BY <1>3, <1>4
  <2>2. CASE j \in Ids
    <3>1. \A k \in i+1..j-1 : k \in Ids
      BY <1>4, <2>1, <2>2
    <3>2. \A k \in i+1..j-1 : rows[k].ticker # rows[j].ticker \/ Day(rows[k].created) # Day(rows[j].created)
      BY <1>3, <2>2, <3>1
    <3> QED BY <1>1, <1>3, <2>1, <2>2, <3>2 DEF NoTwinUnlessBlind
  <2>3. CASE j = n
    <3> DEFINE day == {k \in OfTicker(Ids, s) : Day(rows[k].created) = Day(StoredAt(a))}
               last == {k \in day : \A m \in day : rows[m].created <= rows[k].created}
    <3>1. rows'[i] = rows[i] /\ rows'[j] = new
      BY <1>3, <2>1, <2>3
    <3>2. i \in day
      BY <1>6, <2>1, <3>1 DEF OfTicker
    <3>3. \A k \in day : rows[k].created <= rows[i].created
      <4> SUFFICES ASSUME NEW k \in day PROVE rows[k].created <= rows[i].created
        OBVIOUS
      <4>1. k \in Ids /\ rows[k].ticker = s /\ Day(rows[k].created) = Day(StoredAt(a))
        BY DEF OfTicker
      <4>2. k \notin i+1..j-1
        BY <1>3, <1>6, <3>1, <4>1
      <4>3. k <= i
        BY <1>3, <1>4, <2>1, <2>3, <4>1, <4>2
      <4>4. CASE k = i
        BY <1>4, <4>1, <4>4
      <4>5. CASE k < i
        <5>1. rows[i].ticker = s /\ Day(rows[i].created) = Day(StoredAt(a))
          BY <3>2 DEF OfTicker
        <5> QED BY <1>1, <2>1, <4>1, <4>5, <5>1 DEF OrderOK
      <4> QED BY <1>4, <2>1, <4>1, <4>3, <4>4, <4>5
    <3>4. i \in last
      BY <3>2, <3>3
    <3>5. Duplicates(a) = {}
      BY <1>1, <1>2, <1>6, <3>1 DEF LookOK
    <3>6. ~(Similarity(Snap[s][bar], rows[i].snap) >= DedupThreshold)
      BY <3>4, <3>5 DEF Duplicates
    <3>7. /\ Similarity(rows[i].snap, Snap[s][bar]) = Similarity(Snap[s][bar], rows[i].snap)
          /\ Similarity(Snap[s][bar], rows[i].snap) \in Int
      BY <1>4, <2>1, AlikeEitherWay
    <3>8. DedupThreshold \in Int
      BY DEF DedupThreshold
    <3> HIDE DEF s, bar
    <3>9. Similarity(rows[i].snap, Snap[s][bar]) < DedupThreshold
      BY <3>6, <3>7, <3>8
    <3> QED BY <1>6, <3>1, <3>9
  <2> QED BY <1>3, <2>2, <2>3
<1> QED BY <1>10, <1>11, <1>12, <1>14, <1>15, <1>16, <1>17, <1>18 DEF MemoryInv

(* Nothing is remembered at first. *)
LEMMA MemoryInit ==
  ASSUME Init
  PROVE  MemoryInv
<1>1. rows = <<>> /\ Ids = {} /\ now = 0 /\ LastDay \in Nat
  BY MemoryConstants DEF Init, Ids
<1>2. /\ \A a \in Askers : asking[a] = Idle
      /\ asking \in [Askers -> Analysis \cup {Idle}]
      /\ asking[Filler] = Idle /\ \A a \in Requests : asking[a] = Idle
  BY MemoryConstants DEF Init
<1>3. (\A v \in Validators : valid[v] = Idle) /\ valid = [v \in Validators |-> valid[v]]
  BY DEF Init
<1>4. ~\E v \in Validators : Scoring(v)
  BY <1>3 DEF Scoring
<1>5. fill = [pc |-> "off", todo |-> {}, existing |-> {}]
  BY DEF Init
<1>6. MemoryTypes
  <2>1. now \in 0..3 * LastDay + 2 /\ rows \in Seq(Row)
    BY <1>1
  <2> QED BY <1>2, <1>3, <1>5, <2>1 DEF MemoryTypes
<1>7. AskersOK /\ LookOK /\ NoLookAheadUnlessCalendarsDiffer
  BY <1>2 DEF AskersOK, LookOK, NoLookAheadUnlessCalendarsDiffer
<1>8. LabelsOK /\ OrderOK /\ NoTwinUnlessBlind
  BY <1>1, <1>4 DEF LabelsOK, OrderOK, NoTwinUnlessBlind, Scored
<1>9. FillOK
  BY <1>5 DEF FillOK
<1> QED BY <1>6, <1>7, <1>8, <1>9 DEF MemoryInv

(* Every step keeps the invariant. *)
LEMMA MemoryStep ==
  ASSUME MemoryInv, [Next]_vars
  PROVE  MemoryInv'
<1>1. ASSUME UNCHANGED <<now, rows, asking, fill, valid>> PROVE MemoryInv'
  <2>1. /\ FillTypes /\ AskingTypes /\ AskersOK /\ FillOK /\ NoLookAheadUnlessCalendarsDiffer /\ LookOK
    BY DEF MemoryInv, MemoryTypes, FillTypes, AskingTypes
  <2>2. FillTypes' /\ AskingTypes' /\ AskersOK' /\ FillOK' /\ NoLookAheadUnlessCalendarsDiffer'
    BY <1>1, <2>1 DEF FillTypes, AskingTypes, AskersOK, FillOK, NoLookAheadUnlessCalendarsDiffer, Idle, Ids
  <2> QED BY <1>1, <2>1, <2>2, MemoryAskingKeeps DEF LookOK
<1>2. CASE UNCHANGED vars
  BY <1>1, <1>2 DEF vars
<1>3. CASE Tick
  BY <1>3, TickKeeps
<1>4. CASE Construct
  BY <1>1, <1>4 DEF Construct
<1>5. CASE StartFill
  BY <1>5, StartFillKeeps
<1>6. CASE ScanNext
  <2>1. MemoryTypes
    BY DEF MemoryInv
  <2> QED BY <1>6, <2>1, ScanIs, PassKeeps, FillBeginKeeps
<1>7. CASE StopFill
  BY <1>7, StopFillKeeps
<1>8. ASSUME NEW a \in Requests, NEW s \in Asked, Ask(a, s) PROVE MemoryInv'
  BY <1>8, AskKeeps
<1>9. ASSUME NEW a \in Askers, Forecast(a) PROVE MemoryInv'
  <2>1. /\ asking[a] # Idle
        /\ \/ Ends(a, FALSE) /\ UNCHANGED <<now, memory, rows, valid>>
           \/ Advances(a, "look")
    BY <1>9, ForecastIs DEF MemoryInv
  <2>2. CASE Ends(a, FALSE) /\ UNCHANGED <<now, memory, rows, valid>>
    BY <2>1, <2>2, EndKeeps
  <2>3. CASE Advances(a, "look")
    BY <2>3, AdvanceKeeps
  <2> QED BY <2>1, <2>2, <2>3
<1>10. ASSUME NEW a \in Askers, FindDuplicate(a) PROVE MemoryInv'
  <2>1. /\ asking[a] # Idle
        /\ \/ Ends(a, TRUE) /\ UNCHANGED <<now, memory, rows, valid>>
           \/ Advances(a, "insert") /\ (Duplicates(a) = {} \/ asking'[a].blind)
    BY <1>10, FindDuplicateIs DEF MemoryInv
  <2>2. CASE Ends(a, TRUE) /\ UNCHANGED <<now, memory, rows, valid>>
    BY <2>1, <2>2, EndKeeps
  <2>3. CASE Advances(a, "insert") /\ (Duplicates(a) = {} \/ asking'[a].blind)
    BY <2>3, AdvanceKeeps
  <2> QED BY <2>1, <2>2, <2>3
<1>11. ASSUME NEW a \in Askers, Insert(a) PROVE MemoryInv'
  <2>1. \/ Stores(a)
        \/ Ends(a, FALSE) /\ asking[a] # Idle /\ UNCHANGED <<rows, now, memory, valid>>
    BY <1>11, InsertIs DEF MemoryInv
  <2>2. CASE Ends(a, FALSE) /\ asking[a] # Idle /\ UNCHANGED <<rows, now, memory, valid>>
    BY <2>2, EndKeeps
  <2> QED BY <2>1, <2>2, StoreKeeps
<1>12. ASSUME NEW v \in Validators, BeginValidation(v) \/ Validating(v) PROVE MemoryInv'
  <2>1. CASE BeginValidation(v) \/ ScoreRow(v) \/ Deadlock(v)
    BY <2>1, ValidsStepIs, ValidsKeep DEF MemoryInv
  <2>2. CASE Commit(v)
    BY <2>2, CommitKeeps
  <2>3. CASE ValidateHorizons(v)
    BY <2>3, HorizonsKeep
  <2> QED BY <1>12, <2>1, <2>2, <2>3 DEF Validating
<1> QED BY <1>2, <1>3, <1>4, <1>5, <1>6, <1>7, <1>8, <1>9, <1>10, <1>11, <1>12 DEF Next

(* The invariant of the analysis memory holds throughout. *)
LEMMA MemoryAlways == Spec => []MemoryInv
BY MemoryInit, MemoryStep, PTL DEF Spec

(* An analysis of a past date is shown no outcome that was decided after that date
   (analysis_memory.py:224), unless the remembered stock had no bar on it. *)
THEOREM NoLookAhead == Spec => []NoLookAheadUnlessCalendarsDiffer
<1>1. MemoryInv => NoLookAheadUnlessCalendarsDiffer
  BY DEF MemoryInv
<1> QED BY <1>1, MemoryAlways, PTL

(* Two rows of a stock and day that follow each other differ, unless the lookup of the second failed
   or another row of the stock was stored since (analysis_memory.py:315, 337, 359). *)
THEOREM NoTwin == Spec => []NoTwinUnlessBlind
<1>1. MemoryInv => NoTwinUnlessBlind
  BY DEF MemoryInv
<1> QED BY <1>1, MemoryAlways, PTL

(* An outcome follows from the close of the first bar on or after the target day, whenever it is
   judged, unless that bar was still forming (analysis_memory.py:83). *)
THEOREM OutcomeOfTarget == Spec => []OutcomeIsOfTargetCloseUnlessForming
<1>1. ASSUME MemoryInv PROVE OutcomeIsOfTargetCloseUnlessForming
  <2> SUFFICES ASSUME NEW i \in Scored(Ids)
               PROVE  LET label == rows[i].label
                          later == {d \in Trading[rows[i].ticker] : d >= Day(rows[i].created) + Horizon}
                      IN  \/ label.forming
                          \/ /\ label.exit = Min(later)
                             /\ label.ok = Judge(rows[i].choice, rows[i].price, Close[rows[i].ticker][Min(later)])
    BY DEF OutcomeIsOfTargetCloseUnlessForming
  <2> DEFINE label == rows[i].label
             later == {d \in Trading[rows[i].ticker] : d >= Day(rows[i].created) + Horizon}
  <2>1. i \in Ids /\ Fits(i, label)
    BY <1>1 DEF MemoryInv, LabelsOK, Scored
  <2>2. rows[i].ticker \in Tickers /\ rows[i].created \in Nat /\ Horizon \in Nat /\ LastDay \in Nat
        /\ Trading[rows[i].ticker] \subseteq 0..LastDay
    BY <1>1, <2>1, MemoryTypesMean, MemoryConstants DEF MemoryInv
  <2>3. PICK e : e = label.exit
    OBVIOUS
  <2>4. e \in ExitBar(rows[i].ticker, rows[i].created, Horizon)
    BY <2>1, <2>3 DEF Fits, Exits
  <2>5. e \in later /\ e \in Nat /\ \A d \in later : e <= d
    BY <2>2, <2>4, ExitIs
  <2>6. later \subseteq Nat
    BY <2>2
  <2> HIDE DEF later
  <2>7. Min(later) \in later /\ \A d \in later : Min(later) <= d
    BY <2>5, <2>6, MinIsLeast
  <2>8. Min(later) = e
    <3>1. Min(later) \in Nat /\ e <= Min(later) /\ Min(later) <= e
      BY <2>5, <2>6, <2>7
    <3> QED BY <2>5, <3>1
  <2>9. label.forming \/ label.ok = Judge(rows[i].choice, rows[i].price, Close[rows[i].ticker][label.exit])
    BY <2>1 DEF Fits
  <2> QED BY <2>3, <2>8, <2>9 DEF later
<1> QED BY <1>1, MemoryAlways, PTL

(* Only a commit changes an outcome, and both what it writes and what it writes over fit. *)
LEMMA OutcomeStep ==
  ASSUME MemoryInv, [Next]_vars, NEW i \in Scored(Ids)
  PROVE  \/ rows'[i].label = rows[i].label
         \/ /\ rows'[i].label.exit = rows[i].label.exit
            /\ rows[i].label.forming \/ rows'[i].label.forming
<1>0. MemoryTypes /\ AskersOK /\ i \in Ids /\ rows[i].label # Unscored
  BY DEF MemoryInv, Scored
<1>1. CASE UNCHANGED rows
  BY <1>1
<1>2. ASSUME NEW a \in Askers, Insert(a) PROVE rows'[i].label = rows[i].label
  BY <1>0, <1>2, InsertIs, StoresRow
<1>3. ASSUME NEW v \in Validators, ValidateHorizons(v) PROVE rows'[i].label = rows[i].label
  BY <1>0, <1>3, HorizonsAre DEF Outlined
<1>4. ASSUME NEW v \in Validators, Commit(v)
      PROVE  \/ rows'[i].label = rows[i].label
             \/ /\ rows'[i].label.exit = rows[i].label.exit
                /\ rows[i].label.forming \/ rows'[i].label.forming
  <2>1. Scoring(v) /\ rows'[i].label = IF Holds(v, i) THEN valid[v].writes[i] ELSE rows[i].label
    BY <1>0, <1>4, CommitIs DEF Committed
  <2>2. CASE ~Holds(v, i)
    BY <2>1, <2>2
  <2>3. CASE Holds(v, i)
    <3> DEFINE old == rows[i].label
               new == valid[v].writes[i]
    <3>1. new \in Marks /\ rows'[i].label = new
      BY <1>0, <2>1, <2>3, MemoryTypesMean DEF IsScoring, Holds
    <3>2. old \in Marks
      <4>1. rows[i] \in Row
        BY <1>0, MemoryTypesMean
      <4> QED BY <1>0, <4>1 DEF Row
    <3>3. Fits(i, old) /\ Fits(i, new)
      BY <2>1, <2>3 DEF MemoryInv, LabelsOK, Holds
    <3>4. old.exit = new.exit
      <4>1. rows[i].ticker \in Tickers /\ rows[i].created \in Nat /\ Horizon \in Nat
        BY <1>0, MemoryTypesMean, MemoryConstants
      <4>2. Exits(i) = {old.exit}
        BY <3>3, <4>1, ExitIs DEF Fits, Exits
      <4> QED BY <3>3, <4>2 DEF Fits
    <3>5. CASE ~old.forming /\ ~new.forming
      <4>1. old.ok = new.ok
        BY <3>3, <3>4, <3>5 DEF Fits
      <4> HIDE DEF old, new
      <4>2. old = new
        BY <3>1, <3>2, <3>4, <3>5, <4>1 DEF Marks
      <4> QED BY <3>1, <4>2 DEF old
    <3>6. CASE old.forming \/ new.forming
      BY <3>1, <3>4, <3>6
    <3> QED BY <3>5, <3>6
  <2> QED BY <2>2, <2>3
<1>5. ASSUME NEW a \in Askers, Forecast(a) \/ FindDuplicate(a) PROVE UNCHANGED rows
  BY <1>5 DEF Forecast, FindDuplicate
<1>6. ASSUME NEW v \in Validators, BeginValidation(v) \/ ScoreRow(v) \/ Deadlock(v) PROVE UNCHANGED rows
  BY <1>6 DEF BeginValidation, ScoreRow, Deadlock
<1>7. ASSUME NEW a \in Requests, NEW s \in Asked, Ask(a, s) PROVE UNCHANGED rows
  BY <1>7 DEF Ask
<1>8. CASE UNCHANGED vars \/ Tick \/ Construct \/ StartFill \/ ScanNext \/ StopFill
  BY <1>1, <1>8 DEF vars, Tick, Construct, StartFill, ScanNext, StopFill
<1> QED BY <1>1, <1>2, <1>3, <1>4, <1>5, <1>6, <1>7, <1>8 DEF Next, Validating

(* However many validations overlap and write over each other's outcomes: what is stored stays
   (analysis_memory.py:83, 601), unless one of them saw the bar while it was forming. *)
THEOREM OutcomeStands == Spec => OutcomeStandsUnlessForming
<1>1. MemoryInv /\ [Next]_vars =>
        [\A i \in Scored(Ids) :
           \/ rows'[i].label = rows[i].label
           \/ /\ rows'[i].label.exit = rows[i].label.exit
              /\ rows[i].label.forming \/ rows'[i].label.forming]_vars
  BY OutcomeStep
<1> QED BY <1>1, MemoryAlways, PTL DEF Spec, OutcomeStandsUnlessForming
=============================================================================
