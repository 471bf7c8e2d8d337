------------------------------- MODULE AgentTurn -------------------------------
(***************************************************************************)
(* One conversation with the agent (backend/app/services/agent): the       *)
(* LangGraph of graph.py, whose state the checkpointer keeps between the   *)
(* turns of a session.                                                     *)
(*                                                                         *)
(*   the user's message          Say                                       *)
(*   classify_intent, dispatch   Greet, RouteByModel, RouteByKeywords      *)
(*   the nodes of the tools      RunTool (at the same time), TurnFails     *)
(*   end of the superstep        Join (their writes are merged at once)    *)
(*   synthesize_node             Synthesize                                *)
(*   splitChatSources (browser)  Show                                      *)
(*                                                                         *)
(* A message is the kinds of words in it; a reply is what its footers say. *)
(***************************************************************************)
EXTENDS Naturals, Sequences

CONSTANTS Tools,       \* TOOL_NODES
          Messages,    \* what users may write
          Passages,    \* passages doc_rag may find
          MaxTurns,    \* bound: turns
          ModelRoutes  \* bound: what the model may answer

ASSUME TurnAssumption == MaxTurns \in Nat /\ ModelRoutes \subseteq SUBSET Tools
\* What _keyword_route() may name are nodes.
ASSUME KeywordsAssumption ==
    {"persona_rag", "graph_rag", "doc_rag", "tax_and_market_lookup", "tax_calculator", "fraud_check",
     "product_research", "cheongyak_lookup", "news_research", "nts_law_research",
     "stock_backtest", "stock_quick"} \subseteq Tools

VARIABLES
    turn,       \* turns begun
    step,       \* "idle", "intent", "tools", "synthesize", "shown"
    message,    \* the latest HumanMessage
    route,      \* state["route"]
    ticker,     \* state["ticker"] names a stock
    context,    \* state["tool_context"]
    todo,       \* the tools of the superstep that have not returned
    writes,     \* what the others returned; lost if the superstep fails
    reply,      \* the reply of the turn
    shown       \* what the browser makes of it

route_ == <<route, ticker>>
turnVars == <<turn, step, message, route_, context, todo, writes, reply, shown>>

Kinds == {"result", "asked back", "skipped", "failed"}
Entry == [turn : Nat, tool : Tools, kind : Kinds, passages : SUBSET Passages]
NoReply == [tools |-> {}, calculated |-> FALSE, sources |-> {}, echo |-> "none"]
NothingShown == [sources |-> {}, calculated |-> FALSE]

\* Words that only one of several lists of _keyword_route() holds, and words that are
\* in two: each selects the tools of its lists.
Selects(word) ==
    CASE word \in {"peers", "recommend"} -> {"persona_rag"}
      [] word = "grounds"                -> {"graph_rag"}
      [] word \in {"gift", "lease"}      -> {"doc_rag"}
      [] word = "tax rate"               -> {"doc_rag", "tax_and_market_lookup"}
      [] word = "exempt"                 -> {"doc_rag", "tax_calculator"}
      [] word = "scam"                   -> {"doc_rag", "fraud_check"}
      [] word = "deposit"                -> {"doc_rag", "product_research"}
      [] word = "subscription"           -> {"doc_rag", "cheongyak_lookup"}
      [] word = "exchange rate"          -> {"tax_and_market_lookup"}
      [] word = "how much"               -> {"tax_calculator"}
      [] word = "trust it"               -> {"fraud_check"}
      [] word = "base rate"              -> {"tax_and_market_lookup", "news_research"}
      [] word = "outlook"                -> {"news_research"}
      [] word = "ruling"                 -> {"nts_law_research"}
      [] word = "backtest"               -> {"stock_backtest"}
      [] word = "RSI"                    -> {"stock_quick"}
      [] OTHER                           -> {}

KeywordRoute(m) == LET found == UNION {Selects(w) : w \in m.words}
                   IN  IF found = {} THEN {"graph_rag"} ELSE found

\* Short, a greeting, and neither a question nor about data.
IsSmalltalk(m) == m.greets /\ m.short /\ ~m.asks /\ ~m.data

\* Mutated: nothing is reset.
ResetNothing == context

\* tool_context=None: the reducer empties it.
Reset == <<>>

\* dispatch(): only names of tools run.
Dispatched(tools) == tools \cap Tools

\* What the node of a tool adds, if it returns: it asks for what it lacks, says which
\* key is missing, or turns its exceptions into a line.
StockAnalysis == IF ticker THEN {"result", "failed"} ELSE {"asked back"}
StockBacktest == IF ticker THEN {"result", "failed"} ELSE {"asked back"}
CheongyakLookup == {"skipped", "result", "failed"}
ProductResearch == {"skipped", "result"}
NewsResearch == {"skipped", "result"}
NtsLawResearch == {"skipped", "result"}
Calculator == {"asked back", "result", "failed"}
Retrieval == {"result", "failed"}

KindsOf(t) ==
    CASE t = "stock_backtest"   -> StockBacktest
      [] t = "stock_quick"      -> StockAnalysis
      [] t = "cheongyak_lookup" -> CheongyakLookup
      [] t = "product_research" -> ProductResearch
      [] t = "news_research"    -> NewsResearch
      [] t = "nts_law_research" -> NtsLawResearch
      [] t = "tax_calculator"   -> Calculator
      [] OTHER                  -> Retrieval

\* Only a result of doc_rag names passages, if it found some.
Contributions(t) ==
    {e \in [turn : {turn}, tool : {t}, kind : KindsOf(t), passages : SUBSET Passages] :
        e.passages # {} => t = "doc_rag" /\ e.kind = "result"}

\* The parts of these nodes after the key check are not in a try.
Unguarded == {"product_research", "news_research"}

AgentInit ==
    /\ turn = 0 /\ step = "idle"
    /\ message \in Messages
    /\ route = {} /\ ticker = FALSE
    /\ context = <<>> /\ todo = {} /\ writes = <<>>
    /\ reply = NoReply /\ shown = NothingShown

\* The input of a turn; what the last one left in its superstep is discarded.
Say(m) ==
    /\ step \in {"idle", "shown"}
    /\ turn < MaxTurns
    /\ turn' = turn + 1
    /\ step' = "intent"
    /\ message' = m
    /\ todo' = {} /\ writes' = <<>>
    /\ reply' = NoReply /\ shown' = NothingShown
    /\ UNCHANGED <<route_, context>>

\* What classify_intent() returns, and dispatch().
Route(tools, named) ==
    /\ step = "intent"
    /\ route' = tools
    /\ ticker' = named
    /\ context' = Reset
    /\ todo' = Dispatched(tools)
    /\ step' = IF Dispatched(tools) = {} THEN "synthesize" ELSE "tools"
    /\ UNCHANGED <<turn, message, writes, reply, shown>>

Greet == IsSmalltalk(message) /\ Route({}, FALSE)

\* Any tools of the schema, and a stock if the model sees one.
RouteByModel ==
    /\ ~IsSmalltalk(message)
    /\ \E tools \in ModelRoutes, named \in BOOLEAN : Route(tools, named)

\* The model fails, or its answer does not fit the schema.
RouteByKeywords ==
    LET tools == KeywordRoute(message)
    IN  /\ ~IsSmalltalk(message)
        /\ Route(tools, message.stock /\ tools \cap {"stock_backtest", "stock_quick"} # {})

RunTool(t) ==
    /\ step = "tools"
    /\ t \in todo
    /\ \E e \in Contributions(t) : writes' = Append(writes, e)
    /\ todo' = todo \ {t}
    /\ UNCHANGED <<turn, step, message, route_, context, reply, shown>>

\* An unguarded node or the last call of the model raises, or the process ends: the
\* session keeps the state of the last superstep.
TurnFails ==
    /\ \/ step = "tools" /\ todo \cap Unguarded # {}
       \/ step = "synthesize"
    /\ step' = "idle"
    /\ UNCHANGED <<turn, message, route_, context, todo, writes, reply, shown>>

\* merge_tool_context(), for every tool of the superstep.
Merged(left, right) == left \o right

Join ==
    /\ step = "tools"
    /\ todo = {}
    /\ context' = Merged(context, writes)
    /\ writes' = <<>>
    /\ step' = "synthesize"
    /\ UNCHANGED <<turn, message, route_, todo, reply, shown>>

\* _doc_rag_sources(): the passages of the results of doc_rag in the context.
SourcesIn(entries) ==
    UNION {entries[i].passages : i \in {j \in DOMAIN entries :
                                          entries[j].tool = "doc_rag" /\ entries[j].kind = "result"}}

\* The model writes; the footers follow.  It may write a headline of a footer itself
\* (echo): the replies it has seen have them.
Synthesize(echo) ==
    /\ step = "synthesize"
    /\ reply' = [tools |-> Dispatched(route),
                 calculated |-> "tax_calculator" \in Dispatched(route),
                 sources |-> SourcesIn(context),
                 echo |-> echo]
    /\ step' = "shown"
    /\ UNCHANGED <<turn, message, route_, context, todo, writes, shown>>

\* Mutated: the items after a headline are taken as far as they go.
ListAsFarAsItGoes(r) == IF r.echo = "sources" THEN Passages ELSE r.sources

\* The list after the first headline "sources" counts if nothing else follows it; after
\* one that the model wrote, the footers follow.
ListShown(r) == IF r.echo = "sources" THEN {} ELSE r.sources

\* splitChatSources(): the first headline of each kind decides.
Show ==
    /\ step = "shown"
    /\ shown # [sources |-> ListShown(reply), calculated |-> reply.calculated]
    /\ shown' = [sources |-> ListShown(reply), calculated |-> reply.calculated]
    /\ UNCHANGED <<turn, step, message, route_, context, todo, writes, reply>>

AgentNext ==
    \/ \E m \in Messages : Say(m)
    \/ Greet
    \/ RouteByModel
    \/ RouteByKeywords
    \/ \E t \in Tools : RunTool(t)
    \/ TurnFails
    \/ Join
    \/ \E echo \in {"none", "sources"} : Synthesize(echo)
    \/ Show

AgentSpec == AgentInit /\ [][AgentNext]_turnVars

-----------------------------------------------------------------------------
TurnTypeOK ==
    /\ turn \in 0 .. MaxTurns
    /\ step \in {"idle", "intent", "tools", "synthesize", "shown"}
    /\ message \in Messages
    /\ route \subseteq Tools /\ ticker \in BOOLEAN
    /\ todo \subseteq Tools
    /\ context \in Seq(Entry) /\ writes \in Seq(Entry)

\* The reply is written from what the tools of this turn found: the state of the
\* session outlives a turn, and a turn may fail in the middle of its superstep, but
\* when synthesize_node runs, tool_context has one entry of each tool that was
\* dispatched, and none of another turn or tool.
ContextIsOfThisTurn ==
    /\ TurnTypeOK
    /\ step = "synthesize" =>
        /\ \A i \in DOMAIN context : /\ context[i].turn = turn
                                     /\ context[i].tool \in Dispatched(route)
        /\ \A t \in Dispatched(route) : \E i \in DOMAIN context : context[i].tool = t
        /\ \A i, j \in DOMAIN context : context[i].tool = context[j].tool => i = j

\* The browser lists passages that doc_rag found in this turn and no others, and all of
\* them unless the model wrote a headline of its own.
ShownSourcesWereFound ==
    LET found == UNION {context[i].passages : i \in {j \in DOMAIN context : context[j].turn = turn}}
    IN  shown # NothingShown => /\ shown.sources \subseteq found
                                /\ reply.echo = "none" => shown.sources = found
=============================================================================
