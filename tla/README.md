# Verification of midas-touch

TLA+ models of the parts of midas-touch whose correctness depends on order, overlap,
failure, time or boundaries; TLC runs over small instances of them; and theorems, checked by
TLAPS, about most of them (section 5). `PROJECT.json` holds the same information in tabular form:
components, runs, the source lines of every definition, hazards and findings.

A comment above a definition names the statement of the code it stands for. Definitions
whose comment begins with *Mutated* are variants of the definition that follows, altered
the way a plausible bug would alter it; no specification uses them. Each shows that some
run would notice the bug.

## 1. The system

An assistant for personal finance. A browser talks to a FastAPI server (one process, one
event loop, sync handlers on a thread pool). The server answers chat turns with a LangGraph
agent whose model calls go to NVIDIA NIM, keeps sessions and tables in PostgreSQL and a
knowledge graph in Neo4j, and starts command-line pipelines as subprocesses. systemd runs the
server on one VM and a timer deploys what is pushed to `main`.

    browser --HTTP/SSE--> rate-limit middleware --> chat service --> agent graph --> NIMChatOpenAI
       |      |                                       |               |   tools        |  key rotator
       |      +--> market caches, page cache,         v               v                v
       | polls     analysis memory       PostgreSQL checkpoints   tax, fraud,     slot files (one per key)
       +-------------> job manager                                searches, backtest   ^
                          | subprocesses                                                |
                          v                                                             |
                 ingestion, backfill, clean-up, graph builder, entity resolution --> NIMOpenAI
                          |
                          v
                 PostgreSQL (emb_passages, graph_checkpoints), Neo4j

### Components

| component | its state | its operations | what is hard | what makes it correct |
|---|---|---|---|---|
| NIM call-rate limiter (`shared/utils/nim_rate_limit.py`) | one slot file per API key, shared by all processes | `reserve(key, rpm)` | `flock` against Python's file buffer; clock read before the lock; kills; full disk | no window holds more than rpm starts; first come, first served; no needless wait; every call returns |
| API key rotator (`api_key_rotator.py`) | current index, cooldown per key | `get_key`, `rotate`, `mark_failed`, implicit reset | one instance, many requests | a failed key rests as long as it was told to; retries use another key |
| Pipeline client (`nim_openai.py`) | rotator and back-off delay per worker | call with retries | back-off and late sleeps against booked slots; cooldowns expiring between attempts | the calls, not only the bookings, keep the limit; all keys tried before giving up |
| Agent client (`agent/llm.py`) | the rotator of the process | stream with retries | requests interleaving on one rotator; an error after the first token | a started answer is never replayed; every request ends |
| Chat sessions (`chat_service.py`, `api/chat.py`, `agent/graph.py`, checkpointer) | thread checkpoint, `chat_sessions` row, the run's own copy, what has been streamed | a turn in supersteps; deletion; client leaving | read-modify-write of a thread across supersteps; three senders of one reply | no turn lost; the user sees the stored reply once; deleted stays deleted |
| Agent routing and turn (`agent/nodes`, `agent/state.py`, `chat-sources.ts`) | the channels of the state: route, tool context | route, fan out, join, synthesize, show | a turn fails in its superstep and the session keeps its context | the reply is written from this turn's results; the sources listed were found |
| Tax calculator and registry (`services/tax`, `nodes/tax_calculator.py`) | the figures taken from the sentences | read by model or patterns, ask back, calculate | two figures told apart by verbs or order, or taken from earlier in the dialogue; edges of brackets and exemption | what was said is what is used; earning more never leaves less |
| Fraud check (`tools/fraud_check.py`) | a report | scan, score, enrich | thirteen lists that add up, cap, combine and relieve | more signs never make a message look better |
| Searches (`tools/web`, their nodes) | answers, details and one browser per section | ask, open pages, collect | one browser for several pages, which may fail at any | what is shown under a record is of its own page |
| Stock analyzer (`trading/stock_analyzer.py`) | stances, position, cash, trades | a bar of a backtest | risk exits while the strategy still says buy; fees, whole shares and rounded amounts | the money adds up, but for the rounding of each trade; no re-entry without a new crossing |
| Analysis memory (`trading/analysis_memory.py`, `ai_analysis.py`, back-fill) | rows of forecasts, their outcomes and horizon labels | store, similar patterns, two validations, statistics | check and insert in two transactions, and a check that may fail; one transaction for many updates; as-of window | no look-ahead; judged by the right close, which stands, and in the end; no twins |
| Market caches (`api/users.py`, `api/stocks.py`) | data, its time, the flag of the update | answer, update, fill | the update of the boot beside those of requests | newer data only; live data not taken back; no flag without an update |
| Market load (`main.py` loop, `fetch_market_data.py`, `market.py`) | rows per indicator and day | check, fetch, save; command line | days without trading, late and corrected values; restarts, failing sources, stand-ins, a slow second run | what the sources show arrives in time; days out of reach final |
| Page cache of the subscription API (`cheongyak/api_client.py`, `api/cheongyak.py`) | pages with their ages | ask, prune, read, fetch, store | threads without a lock; a list in pages of different age | answers are true; the cache stays bounded |
| Job manager (`jobs.py`, `JobProgress.tsx`) | registry, file per job, subprocess, reader task, polling browser | start, read, reap, restart, poll, evict | crashes between memory and file; long lines; the browser across restarts | running means alive; a verdict stands; the poller is told |
| Rate-limit middleware (`middleware/rate_limit.py`) | deque per client and bucket | admit, refuse, clean up | window edges, rounding of Retry-After | the window holds; Retry-After is enough and no more |
| Knowledge base (`api/graph.py`, `embedding/` with `cleanup_passages.py`, `knowledge_graph/builder.py`) | originals, passages, embeddings, checkpoints, graph | upload, ingest, backfill, build, clean up, delete | separate transactions and two databases; any number of processes | done means in the graph; an embedding is of its text; nothing twice; cleaned means gone from both |
| Entity resolution (`entity_resolution.py`) | Neo4j nodes and relations | fetch, judge, merge query by query | a merge is many transactions; builders and other sessions beside it | no fact, mention or concept is lost, none invented |
| Automatic deployment (`infra/vm-autodeploy.sh`, timer, units, `vm.sh deploy`) | checkout, running process, CI verdicts | poll, gate, pull, restart, roll back | a push between fetch and pull; time-outs; systemd's start limit; manual deployments | only checked commits run; eventually the newest good one does; the service comes back |

How they interact: both clients take their start times from the slot ledgers (`NimClient`
and `NimChat` are built on the same `SlotMath` and `KeyRotator` as the ledger itself); a turn of the
agent (`AgentTurn`) is what happens inside a run of a chat session (`ChatSession`), and its
tools are `TaxCalculation`, `FraudCheck`, `WebResearch` and `Backtest`; the pipelines are the
subprocesses of the job manager, which dies and restarts with the service that deployment
restarts; builder, clean-up and entity resolution share Neo4j; the server's lifespan starts the update of the boot, the
market load and the validations of the analysis memory.

## 2. Modules

Reusable definitions first, then one module per component. An `MC` module extends the modules it
instantiates with the constants' definitions for TLC, and its `.cfg` files are the runs. Components that share no
state share an MC module: its variable `scene` says which of them a behaviour is of, and the others
stay where they began, so that the states of such a run are the sum, not the product, of theirs.

### Calls to the model

**`RateWindow`** is the abstract specification: a clock and the sequence of starts handed
out. A `Grant` adds any start, not before it is asked for, that keeps `Spread`: Limit + 1
consecutive starts span at least one window.

**`SlotMath`** is the arithmetic of `reserve()`: pruning (`Live`), the choice of the start
(`StartFor`) and `bisect.insort` (`Insort`). `NimLedger`, `NimSlotFile`, `NimClient` and
`NimChat` share it.

**`NimLedger`** is `reserve()` when calls on one key do not overlap: `Tick` and `Reserve`.
`slots` is the file, `granted` the history of all starts.

**`NimSlotFile`** is the same function system call by system call for several processes:
clock, open, lock, read, truncate, unlock, flush at `close()`. The order is the code's: the
`with` block closes the file *after* `LOCK_UN`, so the write leaves the process without the
lock. `Kill` may strike anywhere; open and flush may fail. `spoilt` records which of three
mishaps has occurred: *unflushed* (a lock taken before the last holder's flush), *stale clock*
(the file was pruned with a later time than this reader's) and *lost buffer* (the only copy of
the list was lost before its flush). It refines `NimLedger` until the first of them: the ledger's clock is the
time the file was last pruned with, and its slots are the file, or the writer's buffer between truncate and flush.

**`KeyRotator`**: each method of `APIKeyRotator` runs under one lock, hence one function from
rotator to rotator.

**`NimClient`**: workers with a client each. `Begin`, `Fire`, `Succeed`, `Fail` and `Abort`
are one pass through `_with_retry`; sleeping is a due time, which a sleep may overshoot by `MaxLate`
(`time.sleep` promises a lower bound only). `rested` notes that a key tried in
this request has come out of its cooldown, after which `rotate()` prefers it to the keys not tried yet.

**`NimChat`**: requests over one rotator. `TakeKey` (rotate and book), `Call`, `Chunk`,
`Finish`, `Retry` or `Raise`, `Again` or `GiveUp`. The four call paths of the class differ
only in how many chunks they yield. `crossed` holds the requests during which another one used the
rotator, `shared` the keys two requests used at once: what the code promises of retries and
exclusions holds outside these.

### The chat and the agent

**`ChatSession`**: turns as runs of the graph. A run loads the thread once (`Begin`), works on
its copy and saves it after every superstep (`Save`, in `Intent`, `RunTools`, `Update`). A save
writes changed channels and *refers* to stored values of the others, so a deletion under the
run loses those (`lost`). `Write`, `Update` and `Net` are the three senders of the reply. `Count` and
`Upsert` are the two transactions of `_record_session`. `Break` is an exception, or the
generator closed when the client leaves. `crossed` holds the turns (and the deletion) that overlapped another.

**`AgentTurn`**: inside a turn. `Greet`, `RouteByModel` and `RouteByKeywords` are the three ways
`classify_intent` ends; `Route` resets the context and sends to the nodes; `RunTool` is one node, which adds
exactly one entry, a result or a line that says why there is none; `Join` is the end of the superstep, when LangGraph applies all writes; `TurnFails` a
node without a guard, the last model call or the end of the process. `Say` drops what a failed superstep left. `Synthesize` and
`Show` carry the reply's footers to `splitChatSources()`.

**`TaxCalculation`**: a sentence is its kind of tax, its amounts with what stands around them, and the rest the code looks for; `ReadByModel` fills
slots with any of the figures of the dialogue, earlier messages included, or none, `FromText` applies the patterns, and the tax functions follow the
registry's numbers. Amounts are in units of 10,000 won.

**`FraudCheck`**: the categories' scores with caps, combinations and the relief of official hosts (`Total`), the verdict and the guides.

**`WebResearch`**: one thread per section; of a law search the first records are opened, by request or, where a page is drawn by
scripts, by one browser for all of them, which may fail to start or at any page.

**`Backtest`**: bar by bar the stances of the five indicators and of their vote, and `Leave`, `Keep`,
`Enter` or `StayOut` at the close. Where an indicator lies is chosen, not computed from the prices. Money
is in ten-thousandths, so that fees in basis points are exact; what a trade earned is kept as the code keeps it, rounded (`Rounded`, to a `Cent`).

### Data the server keeps

**`PatternScore`** and **`AnalysisMemory`**: the pure functions (similarity, ranking, judging) and the tables. Requests and the back-fill
check for a duplicate and insert in two steps, the insert also when the check has failed (`blind`); a validation picks rows, downloads bars and updates within one transaction, which a
deadlock with another validation aborts. Time is in thirds of a day, of which the last is after the close. The back-fill's list is a set of stocks and dates,
of which a step (`ScanNext`) takes one of the earliest date; it ends before today (`EndAgo`, two days unless `--end` is given).

**`MarketCache`**: both market caches: `which` tells them apart where they differ (the heat map's sample and its flag, the macro cache's defaults). A request that found the
cache empty fills it in a later step; an update publishes data before its time.

**`MarketIngest`**: the loop with its restarts (`Stop`, `ServerStart`), a slower run of the command line beside it, and the upsert of both. Four targets
stand for the fourteen, one for each way a value is obtained: a yield (FRED), the monthly rate, whose period may hold no value without anything failing, an
exchange rate and an index. The days a target has a value for, when its source first shows one and from when on it stays are constants
(`Observed`, `FirstSeen`, `FinalFrom`), so that weekends, holidays, late and corrected values are in every statement. `stoodIn` holds the
targets another source stood in for, because theirs had failed or had nothing.

**`SubscriptionLists`**: threads ask, prune in two steps (which another thread's store may break), read, fetch page by page and store.

**`KnowledgeBase`**: every statement is a transaction, every pipeline a process with its own
position. Passages are named by stem and index, texts by the upload they come from. `Cleanup`, `MatchChunks`, `DeleteRows` and
`DeleteChunks` are the clean-up of junk passages over both databases.

**`EntityMerge`**: sessions of entity resolution. Each structured query is a step:
`ReadOut`, `CopyOut`, `ReadIn`, `CopyIn`, `Delete`; `Fail` gives the merge up where it is.
`told` remembers every edge ever added, renamed by every merge; `late` the edges a
builder adds to the node being merged away after its relations in that direction were read.

### Operations

**`JobManager`**: one event loop, so a step ends at an `await`. `StartJob`, `Spawn`,
`ReadLine`, `LongLine` (readline raises beyond its buffer), `Exit` (the process), `Reap`,
`Crash` and `Restart` of the service, `Poll` of the browser. `Persist` may tear the file, as
`write_text` truncates first.

**`RateLimit`**: `dispatch()` decides without awaiting, so a request is one step (`Admit`, `Refuse`,
or `Fail` when the deque is empty and the limit is 0).

**`AutoDeploy`**: `Poll`, `Gate`, `Pull`, `Restart`, `HealthSeen`, `HealthMissing`, `Reset` of the script, `Kill` by
the unit's time-out, the service's `Start` and `Crash`, pushes and CI verdicts, and `vm.sh deploy` (`ManualBegin`, `ManualRestart`, `ManualEnd`),
which takes neither lock nor gate. Every start counts against systemd's start limit (`StartBurst` in an interval, which `IntervalEnds`
at any time: the unit does not fix when); beyond it a start, also one the script asks for, is `Refused` and the service stays down.

### Theorems

`NimLedgerProofs`, `SlotFileProofs`, `CallLimitsProofs` (both clients and the middleware), `OperationsProofs` (deployment, jobs, market caches
and market load), `AgentProofs` (session, turn, fraud check, research,
backtest, analysis memory), `KnowledgeProofs` (documents and merges); `SlotLemmas` and `CollectionLemmas` hold what
several of them need (section 5).

## 3. Runs

A property named `...Unless...` or `...Until...` holds except after the circumstance it names, which is a
history variable of the module and does occur in the run. Type invariants are conjuncts of one property of each component.

| run | instance | what it shows |
|---|---|---|
| `ledger` | limit 2, window 3, clock to 9, 7 grants | no window holds more than the limit; no start is later than it must be; the ledger implements `RateWindow` |
| `slot_file` | 2 processes, limit 2, window 2, clock to 3, 4 grants, 1 fault | every call returns, also past killed holders; until one of the three mishaps the file protocol implements `NimLedger`, so that the window holds and no booking is forgotten |
| `call_limits` | *outbound*: 2 workers, 3 keys, limit 1, window 2, 2 requests, 6 errors, sleeps up to a tick late until the third error; *inbound*: 2 clients, limits 2 and 0, second 2, window 4, cleanup 6, clock to 9 | until some client backs off the calls keep the limit, but for what one sleep overshoots; all keys are tried before a request is given up, unless a failed key was rested again by then; the middleware's window, Retry-After sufficient and tight, silent clients forgotten |
| `nim_chat` | 2 requests, 2 keys, limit 1, window 2, cooldowns 1 and 4, 2 chunks | a started answer is never replayed; every request ends; retries use another key and exclusions last, for requests no other one gets in the way of |
| `operations` | *deploy*: 3 commits, start limit 2, any two of: a kill, a missed health check, a crash, a manual deployment or restart; *jobs*: registry of 1, 2 jobs, 2 stages, a crash, a torn file, a long line | the gate holds unless overtaken or bypassed; good code ends up running, also after missed health checks and refused restarts, unless a push, a kill or a manual deployment comes in between or healthy code crashes into the start limit; the service comes back from broken code, unless systemd refused the script a restart; a job is shown as running, and kept, as long as a task will end it; success is that of the process; a verdict told stands across crashes; the polling browser is told |
| `knowledge` | *document*: 1 file of up to 2 passages, 2 uploads, 2 ingestions, a backfill, 2 builds, a clean-up with one junk passage, a deletion, a fault, 2 processes at once; *merge*: 3 names, a chunk, 2 sessions, 3 facts, a failing query | what a checkpoint says is done is in the graph, unless it was cleaned out; an embedding is of the text beside it as long as that text never changed; when no process fails or overlaps another, nothing is added twice, replaced texts are embedded anew and a clean-up leaves nothing behind in the graph; facts and concepts survive a merge and nothing is invented, but for what comes too late or sessions that overlap |
| `stock_analysis` | 2 stocks with different holidays, 4 days, 2 requests, the back-fill, 2 validators, 2 rows, batches of 2 | no back-filled forecast sees what was not known, but for a market closed on its day; outcomes are of the right close and stand, unless the bar was forming; no twins, unless the check was made blind by an overlapping store or its own failure; judged in the end, unless rows that cannot be judged fill the batch |
| `market_data` | *cache*: 2 requests and the boot, lifetime 2, clock to 3, either kind; *ingest*: 5 days with two closed ones, window of 3 days, a late yield, a corrected rate, a monthly series, restarts, one command-line run; *subscription*: 2 threads, a list of 3 then 4 notices of which 3 are kept, pages of 2, cache of 1 | a flag always has its update; only newer data replaces live data; what a source has shown for two intervals is stored and days out of reach hold their final value, outside the circumstances its history variables name; lists whole, a 500 means what it says, cache bounded |
| `agent_tools` | *session*: 3 turns, a deletion, a break, any two at a time; *turn*: 2 turns, routes of up to two tools, 8 messages; *tax*: dialogues of 2 sentences of some 200; *fraud*: up to three phrases, or one and three hosts; *research*: 2 sections, up to 3 records; *backtest*: 5 bars, 3 prices, 3 strategies, 2 risk settings | a reply is written from its own turn's inputs and results, what is shown is what is stored and what was found; no turn lost and deletions final for turns that do not cross; taxes use what was said, last or alone, and selling higher keeps more; more signs are never judged more softly; details stand under their own record; the money of a backtest adds up to half a cent a trade and nothing is bought again without a new crossing |

Three runs must be refuted by TLC, each of a statement of the repository that the code does not keep:

| run | the statement | what happens |
|---|---|---|
| `slot_file_race` | the key's limit holds across processes (`nim_rate_limit.py:8`) | the buffer is written after the unlock; another process reads the truncated file |
| `chat_session_two` | a session continues from turn to turn (`api/chat.py:3`) | of two overlapping runs the last save wins |
| `tax_slices` | the table is one of progressive deductions (`rates.py:88`, `calculator.py:95`) | from 88 million won on the deduction is 1.5 million less than the slices save |

### Other disagreements met while modelling

Where the code differs from what its comments say, the model follows the code, and the property
names the circumstance under which the statement fails:

| statement | what the code does | where it shows |
|---|---|---|
| at most rpm calls a minute (`nim_openai.py:51`) | the back-off is added after the slot was booked, so calls leave outside their slots; a sleep that overshoots brings two windows that much closer | `CallsKeepWindowUntilBackoff` |
| the next active key in turn (`api_key_rotator.py:80`) | after an error the first rested key is taken; with three keys the third may never be | `GivesUpAfterAllKeys`, `rested` |
| a retry uses another key (`tests/test_llm_retry.py:50`) | a request in between moves the shared index or clears the cooldowns | `OnAnotherKeyUnlessCrossed` |
| a key is excluded for as long as asked (`api_key_rotator.py:93`) | a later, shorter cooldown replaces the longer one | `ExcludedAsLongAsAskedUnlessShared` |
| only commits CI passed are deployed (`vm-autodeploy.sh:13`) | `git pull` fetches again after the gate | mishap *overtaken* |
| the VM follows main (`vm-autodeploy.sh:3`) | the changed files are computed for the older commit, or the script is killed after its pull: the newer backend is never restarted | mishaps *overtaken*, *killed* |
| it recovers by itself (`vm-autodeploy.sh:19`) | the rollback remembers nothing: every tick deploys the broken commit again, so the service comes back only to go down | `RecoversUnlessMishap` says no more than that it comes back |
| it recovers by itself (`vm-autodeploy.sh:19`) | code that ends at once uses up the starts systemd allows (`midas-backend.service:42`): the restart of the roll-back is refused, and as the checkout is then the old commit again, nothing starts the service before the next tick deploys the broken one | mishaps *refused*, *given up* |
| status is running, succeeded or failed (`jobs.py:45`) | a line above 64 KiB ends the reader outside its `try`; the job runs for ever | action `LongLine`; `RunningIffTaskAlive` |
| at most `_MAX_JOBS` (`jobs.py:126`) | nothing is evicted while all are running, and a restart loads every file | `EvictedNow`, `Restart` |
| history survives a restart (`jobs.py:28`) | the file is truncated before it is written | `Persist`; `VerdictStands` |
| deletion removes history and row (`api/chat.py:123`) | a turn under way brings both back | `DeletedStaysDeletedUnlessCrossed` |
| sessions are recorded at the end of the stream (`chat_service.py:110`) | a broken first turn leaves a thread without a row | actions `Break`, `Upsert` of `ChatSession` |
| the profile is not stored (`api/chat.py:46`) | it is a channel of the state, so it is | channel *profile* of `stored` |
| the sources are cut at the last headline (`tests/test_prompt_injection_defense.py:68`) | the browser takes the first one, which the model may have written: then no source is listed | `ListShown`, `ShownSourcesWereFound` |
| amounts that are not clear are asked back (`agent/nodes/tax_calculator.py:7`) | one amount written in two parts is taken for two, told apart by their order | `Ambiguous` |
| a sale without its purchase price is asked back (`_regex_kwargs`) | slots of a foreign stock with a sale only are taxed on the whole of it | `Ambiguous` |
| 429 with Retry-After (`rate_limit.py:47`) | with a limit of 0, `dq[0]` of an empty deque, a 500 | action `Fail` of `RateLimit` |
| the indicators are loaded daily (`main.py:101`) | a restart sleeps a whole interval, so that a value may be almost two old before it is asked for | `FreshUnlessDisturbed` |
| holes are filled by the next run (`main.py:83`) | a stand-in is another quantity (a five-year yield for the two-year one); a day that leaves the window keeps it. The monthly rate has one without any failure, as its week is empty for most of the month (`fetch_market_data.py:195`) | `stoodIn`; `SettledUnlessGapped` |
| one update at a time (`stocks.py`, `users.py`) | the update of the boot does not take the flag, and clears that of others | `overlapped`; `OnlyNewerReplacesLive` |
| a list is the provider's (`api_client.py:181`) | pages of different age stand in one list | `ListIsWholeUnlessMoved` |
| a 500 means that the key is missing (`api/cheongyak.py:40`) | so does a dict that changed while it was walked | `BlamesKeyUnlessShaken` |
| no forecast of the back-fill sees the future (`analysis_memory.py:224`) | the window counts calendar days; another market's holidays let a later outcome in | `NoLookAheadUnlessCalendarsDiffer` |
| an outcome is that of the target day (`analysis_memory.py:83`) | a validation on that day takes the forming bar | `OutcomeIsOfTargetCloseUnlessForming` |
| an analysis is stored once (`analysis_memory.py:315`) | check and insert are two transactions, and a check that fails counts as none found (`analysis_memory.py:337`) | `blind`; `NoTwinUnlessBlind` |
| a total of the trades (`stock_analyzer.py:459`) | each trade is rounded on its own, so that their sum is not the change of the account | `MoneyAddsUpToRounding` |
| embeddings are computed at once (`reingest.py:3`) | a death between two transactions keeps the old embedding, which no backfill replaces | `EmbeddingIsOfText` |
| processed passages are skipped (`builder.py:8`) | graph before checkpoint, errors swallowed: added again | `BuiltOnce`, condition `Calm` |
| a build reflects a re-ingested document (`api/graph.py:78`) | checkpoints name passages, not texts, so replaced texts are skipped | `BuiltOnce`, `reused` |
| junk is removed from both databases (`cleanup_passages.py:1`) | rows first: a death in between leaves their chunks for ever, and a row that was replaced meanwhile is deleted by its name | `BuiltOnce`, condition `Calm` |
| the list shows the documents in use (`api/graph.py:40`) | the tail of a longer earlier version stays | `Upsert` of `KnowledgeBase` |
| the original is deleted (`api/graph.py:46`) | the stem is not the file's name | `Delete` of `KnowledgeBase` |
| relations are moved to the kept node (`entity_resolution.py:8`) | chunks have no name, so their mentions are lost | `Merged`, `Entities` |
| safe merge (`entity_resolution.py:230`) | a relation added after the read is deleted with the node | `late` |
| safe deletion (`entity_resolution.py:296`) | two sessions that prefer different names delete both | `overlapped` |

Further observations, of which no property speaks. The macro endpoint looks for oil and silver under keys the load never writes, so these are always defaults.
The builder takes the first unprocessed passages: with a limit, passages whose extraction always fails keep the others out (`builder.py:483`).
The statistics `validate_recent()` returns count updates that were rolled back. The price of a live analysis is that of the last bar before today.
The reply's footer names the calculator whenever it was routed to, also when it asked back. Of the fraud check, an official host
with a port counts as an imitation, and three categories have no guide though the verdict may be danger. Of the law search, notes such as
*redirected* are labelled as text of the page, pages drawn by the browser are not checked again for where they are, and a browser that
does not start turns all sections into none. A year without a registry gets the default rates. A backtest trades at the close whose
signal it uses, a position still open at its end is no trade, and the grid search uses the default risk settings, not the user's.

### Bounds

Every bound is a constant named in the module (`MaxTime`, `MaxGrants`, `MaxRequests`,
`MaxFaults`, `NumTurns`, ...) and appears only in guards or ranges; time stops or the environment stops acting
at a bound, the program's own steps do not. Why they are enough:

* Limiters: a window violation involves Limit + 1 calls, and pruning matters from the first call that
  leaves the window. The `ledger` instance fits three windows of two and seven grants, so slots are pruned, re-used
  and pruned again. Two processes suffice for the file protocol, because each of its mishaps is a pair
  (one holder, one successor).
* Clients: giving up early needs a third key that is passed over, and six errors exhaust a request; a cooldown shorter
  and one longer than a window are both present. A sleep overshoots by one tick, until the third error (`MaxLate`, `LateErrors`); the theorem holds for any. For the agent, overlap is pairwise, and two keys can be exhausted in one request.
* Chat: overlap is pairwise (two turns, or a turn and a deletion); with three turns a reset context, a kept title and a
  deletion between turns all occur. A turn of the agent after one that failed needs two turns; two tools suffice for one to return and the other to fail.
* Tax and fraud: the sentences put prices on both sides of every edge (exemption, brackets, deductions), in either order, with and without verbs;
  three phrases reach every combination the score knows.
* Backtest: five bars allow a trade, a risk exit and an entry that must wait for a new crossing. Prices of 80, 100 and 125 trigger and miss each of the stops.
* Analysis memory: two stocks are needed for calendars to differ, two validators for a deadlock, four days for a horizon to end on a holiday.
  Two rows and batches of two: rows that cannot be judged never displace one that can, which `JudgedInTheEndUnlessCrowded` excuses; what crowding does is not explored.
* Market data: the boot and two requests give two updates and one who finds the flag up; the window of the load is left by days within the run,
  and two closed days make the last value older than an interval; a list of two pages can change between them and exceed what is kept, and a cache of one page is pruned at once.
* Jobs: a registry of one makes eviction happen with the second job, and persistence at every
  second line makes memory and file differ.
* Middleware: the clean-up of one client's request meets the buckets of the other; two windows and a clean-up fit the clock.
* Knowledge base: two passages let a shorter version leave a tail; two uploads let a text be replaced, also a junk one by one that is not;
  one fault at a time is injected, at every step.
* Deployment: three commits are the one running, the one checked and the one that overtakes it. Two starts in an interval let the script restart and roll
  back when nothing crashes, as the unit's five do, and one crash more is refused; with one, every roll-back would be.
* Entities: three names allow a merge of a merged node; relations include self-relations and ones both ways. What
  follows an overlap of two sessions is not explored (`NotOverlapped`): no property says anything of it.

Deadlock is not checked (`CHECK_DEADLOCK FALSE`): once all bounded activity is over the system rests.
Symmetry (of workers and clients, of entity names) is used in `call_limits` and `knowledge`, which check no liveness.

### Fairness

Liveness properties assume only what the scheduling gives. `slot_file`: weak fairness of the
steps inside `reserve()` (a running process proceeds) and strong fairness of `Lock`, because `flock()` queues its
waiters. `nim_chat`: time passes, and a request's own thread proceeds; a call ends by
its HTTP time-out at the latest. `operations`: the event loop runs its tasks, subprocesses
end, the service comes up after a restart, the browser's interval timer fires; the deployment's timer fires
and the script proceeds (its own time-outs bound each command), CI runs end, started good code gets healthy, an interval of systemd's start
limit ends (`IntervalEnds`), and a manual deployment is finished. That systemd starts the service again after a crash (`Restart=always`) is part of `Crash`, no assumption, and only within the limit. Each of these speaks of the actions of one of the run's two components; in behaviours of the other it asks for nothing, as at its
initial state none of its actions is enabled. `stock_analysis`: the server's validation loop comes round, and a validation that has begun
proceeds. No fairness is assumed of pushes, kills, faults, users, requests or builders.

## 4. What is only model-checked

These hold for the instances of section 3, and for no others that we know of:

* Liveness: fairness and ENABLED are beyond the prover.
* `FreshUnlessDisturbed` of the market load: not proved so far. It needs an invariant that relates the loop's next waking to the age of every value that a source shows.
* `AnswersAreTrue` of the subscription lists: it rests on sorting (`SetToSortSeq`, a CHOOSE over permutations) and on pages of a list put together, by induction over data.
* What sums over lists of any length and flattened sequences compute (`PatternScore`, `TaxCalculation`): the prover cannot instantiate induction principles.
  `FraudCheck` adds over a fixed record of lists of at most three phrases, which can be written out, and is proved.

## 5. What is proved

Each theorem is a property of a run for every value of the constants, under the named assumptions of its module. "Any number of" below means that the
bound of the run is a constant the proof knows nothing of but its type. Where a run checks several components
(`scene`), the theorem is about the component's own specification: a behaviour of the run is, on that component's variables, one of it or stays
at its initial state.

| component | theorem | property | assumptions on constants |
|---|---|---|---|
| `NimLedger` | `LedgerKeepsWindow`, `LedgerIsTight`, `LedgerImplementsPromise`, also `Invariance`, `TypeCorrect`, `LedgerIsFair` | `WindowHolds`, `NoNeedlessWait`, `KeepsPromise`; `IInv`, `TypeOK`, `FirstComeFirstServed` | limit and window positive (rpm >= 1, 60 s), bounds naturals |
| `NimSlotFile` | `FileImplementsLedger`, also `SlotFileInvariance` | `ImplementsLedgerUntilMishap`; `SlotFileInv` | as above; no process is called "none" |
| `NimClient` | `CallsKeepLimit`, `GivingUpTakesAllKeys` | `CallsKeepWindowUntilBackoff`, `GivesUpAfterAllKeys` | as for `NimLedger`; at least one key, positive cooldowns, other bounds and delays naturals |
| `NimChat` | `RetriesStayClean` | `RetriesAreClean` | as for `NimLedger`; at least one key, both cooldowns longer than the sleep after a failure (30 s and 300 s, 8 s), chunks and requests at a time positive |
| `RateLimit` | `LimitsAreExact` | `LimitIsExact` | limits naturals (0 allowed), a second and the window positive, the rest naturals |
| `AutoDeploy` | `OnlyCheckedCodeRuns` | `RunsCheckedUnlessOvertaken` | bounds naturals |
| `JobManager` | `VerdictsStand` | `VerdictStands` | registry, stages and lines between two saves positive, bounds naturals |
| `MarketCache` | `FlagIsKept`, `QuotesGetNoOlder` | `FlagHasUpdate`, `OnlyNewerReplacesLive` | lifetime and clock positive, the boot is not a request |
| `MarketIngest` | `OldDaysHoldTheirClose`, `ClosesStay` | `SettledUnlessGapped`, `FinalStaysUnlessOvertaken` | interval and days looked back positive, clock a natural, values shown no earlier than their day and final no earlier than shown, `Prompt` within the days looked back |
| `KnowledgeBase` | `EmbeddingsHold`, `BuildsHold` | `EmbeddingIsOfText`, `BuiltOnce` | pieces and retries positive, the other bounds and the limit naturals, every file has a stem, junk names pieces of uploads |
| `EntityMerge` | `FactsSurvive` | `FactsSurviveUnlessLate` | bounds naturals |
| `ChatSession` | `StoredAndShown`, `RightInputs`, `UndisturbedTurnsStay`, `DeletedStaysDeleted` | `ShownAndStoredAlike`, `WrittenFromTheRightInputs`, `NoTurnLostUnlessCrossed`, `DeletedStaysDeletedUnlessCrossed` | turns at a time positive, bounds naturals |
| `AgentTurn` | `ContextIsFresh`, `ShownWereFound` | `ContextIsOfThisTurn`, `ShownSourcesWereFound` | the tools the keyword lists and the model name are nodes |
| `FraudCheck` | `MoreSigns` | `MoreSignsNeverSofter` | messages are of the phrases and hosts |
| `WebResearch` | `DetailsAreTheirOwn` | `DetailsOfTheirOwn` | number of details a natural, lists of the four kinds of link |
| `AnalysisMemory` | `NoLookAhead`, `OutcomeOfTarget`, `NoTwin`, `OutcomeStands` | `NoLookAheadUnlessCalendarsDiffer`, `OutcomeIsOfTargetCloseUnlessForming`, `NoTwinUnlessBlind`, `OutcomeStandsUnlessForming` | days a natural, horizon and batch positive, the back-fill ends before today, calendars and snapshots of the days, requests numbered from 1 |
| `Backtest` | `AccountsBalance`, `NoReentry`, also `Invariance` | `MoneyAddsUpToRounding`, `NoReentryWithoutCrossing` | prices, capital and the cent positive, fees between 0 and 100 % |

**Lists of times** (`SlotLemmas`, `CollectionLemmas`). The limiter, the client and the middleware all decide from a list whose head has been cut off, while
the promise is about all calls. `IsLedger(all, s, now)` says that `s` is the tail of an ascending history whose head is out of the window, and that a booking in
the future is the tight one; booking, pruning and time keep it. `LeastElement` (well-ordering of the naturals) gives pruning its CHOOSE-free meaning.

**The ledger.** `WindowHolds` speaks of the whole history, but `Reserve` sees only the pruned file, so it is not inductive. `IInv` adds `FileIsRecentHistory`. The window
follows by cases: with room, the Limit-th start from the back was pruned, hence at least one window ago; when full, the start is one window after it by definition.
`KeepsPromise` maps every call of `reserve()` to a `Grant` of `RateWindow`.

**The file protocol.** Until a lock is taken before the last flush, a list is read with an older time than it was pruned with, or a buffer is lost, the processes
together take the steps of `NimLedger`: its clock is the time of the last pruning, its slots are the file, or the buffer that is about to become the file. `SlotFileInv`
says what makes them so: one process at a time is between its lock and its flush (the lock alone does not say that, it is released before the flush), the list is
a ledger of all starts handed out, and what the reader has decided is what the ledger decides; a call that asks has room for its start (`CountOK`). The types
hold after the mishaps too: `SortedIs` shows that `Sorted` sorts any list, and leaves an ascending one alone.

**The client.** A key's calls are not its slots: clients sleep until their slot, or longer, and may wake in any order. `ClientInv` says that until someone backs off the
i-th call of a key is made no earlier than the i-th slot of its ledger and at most `MaxLate` after it (`CallsAreSlots`), and that the sleepers hold the other slots, each one another
(`Seated`: a seating exists). A client that calls out of order takes the first slot that is left, and leaves its own, which is over too, to whoever held that one. So lateness does not add up:
two calls a limit apart are a window apart, but for one overshoot. For giving up, `RequestInv` counts in rounds: in the first, every attempt adds a failed key that
is cooling (`FirstRound`); when none is left all cooldowns are forgotten, and the second goes through the keys that had been cooling at the beginning
(`SecondRound`). Together that is fewer than 2 * NumKeys attempts, unless a cooldown ended in between.

**The agent's client.** That retries change the key needs to know where the rotator stands while a request sleeps: at the key that failed, which rests longer than the sleep
(`Steered`, for a request no other one crossed), so that `rotate()` goes on, also when all cooldowns are forgotten on the way. Exclusions last because a key in use is not excluded
(`KeysInUse`): the error of a lone user asks for the first exclusion, and only a second user of the same key could ask for a shorter one later. `ChatProgress` says that an attempt
that yielded something is the last.

**The middleware.** Hits are popped and whole keys deleted, so the deque of a key is only an end of its admissions (`Remembered`). `KeyInv` adds that the
admissions are ascending and Limit apart lie beyond a window, and that what a client was told depends on one admission alone, the one that has to leave
(`PromiseFits`): lemma `PromiseIsExact` then needs no history of the deque.

**Deployment.** A start takes what is checked out, a roll-back checks out what was before, and the pull comes after the gate: `DeployInv` requires all of them to have passed,
unless a pull was overtaken or somebody deployed by hand. The last commit that changed the backend does not depend on later commits, and a verdict of CI is never taken back.

**Jobs.** `JobInv` relates, job by job, the task, its child, the registry, the file (as it will be loaded after a restart) and what the browser was told. What makes it inductive is
that a status is in the file before anyone can be told it, as long as no file was torn, and that `start()` evicts only jobs that are over.

**Market caches.** `FlagHasUpdate` is inductive with the types; the step that matters is the end of the boot's update, which may clear the flag but never raise it.
`OrderInv` carries `OnlyNewerReplacesLive`: while nobody was about to fill the cache nobody does, and while no second update was started the only one began no
earlier than what is shown.

**Market load.** What a run has fetched is older than the table it is saved into. `IngestInv` says of the rows held that they are true, and harmless while no other
run has saved; that a clean run settles what was final in its window, and that a value that became final within `Prompt` of its day could be reached by every run since, for
as long as `Correctable` says. `ClosesStay` is an action property from the same invariant, by lemma `PublishedStays`: what is final remains what a source shows.

**The documents.** Ingestions, backfills, builds and clean-ups decide on rows they read earlier. `DocumentInv` says what such a reading is still worth: as long as no
text was replaced, what a process holds of a passage is what its row says, or said before it was deleted (`JobsOK`, `TablesOK`). Every chunk comes from an attempt of its own
of some build (`ChunksOK`), which also bounds their number: an injection into builds and retries. `CalmOK` carries `BuiltOnce`: in a calm history at most one process
is under way, and it says how far that one has got: chunks ahead of their checkpoint, rows ahead of their chunks.

**The merges.** A merge reads the edges of the node that goes, copies them one by one and deletes it, so that between two steps a fact is on one of the two nodes, on the list, or
on both. `MergeInv` says so of a session that is alone (`AloneOK`), first of the edges that leave the node, then of those that point to it; edges that were
written late, after the list was read, are the ones it exempts. Sessions that overlap are only typed.

**The session.** `ConversationInv` says of every copy of the history, stored or held by a run, that each message comes once and a reply directly after its question;
a new turn and a reply keep it, whichever copy is saved over which. `OverlapInv` is about who was alone: whoever is under way together is remembered as crossed; an undisturbed turn is in every copy
that may still be saved (`KeptInv`), and after an undisturbed deletion there is none (`WipedInv`). The length of a history is bounded because its messages are distinct.

**The agent's turn.** `ContextIsOfThisTurn` speaks of one moment; `TurnInv` adds what leads there: the context is empty during a superstep, and its writes have one entry of each
tool that has returned. Nothing is claimed of the writes while the session is idle, where a failed superstep leaves some. `SourcesInv` adds that only results of
doc_rag carry passages, and that the reply being shown was made from this context.

**The fraud check.** The score is monotone in the signs: each capped category, each combination and each relation between them is shown not to fall (`Fewer`), the relief of official
hosts is the only exception, and the verdict and the guides follow.

**The research.** `SectionOK` says of each section that before the browser is closed every detail is its record's own or is waiting for the browser, that the
browser's pages come in the order they were asked for, and that only records for the browser are among them; `Paired` then puts each where it belongs, at any number of pages.

**The analysis memory.** The lookup of a duplicate and the insert are two steps, so `NoTwin` needs that what was looked up stays good (`LookOK`: another row of the stock in between,
or a lookup that failed, sets `blind`, which the row keeps) and that the row before a new one is the latest of its day, which is the only one the lookup compares with (`OrderOK`). A live row is the latest because it is
stored under the present; a back-filled one because no other row of its day exists, as a run knows every row of the days it is about and what it has added itself (`FillOK`).
`LabelsOK` says of the outcomes, stored or still in a transaction, that they are of the first bar on or after the target day, which is what they will be of at any later time. From it
follow `OutcomeOfTarget`; `OutcomeStands`, for a second validation that commits over the first writes the same close, whatever the two read and when; and `NoLookAhead`: a row is shown
only when it is a horizon old, so a bar of its stock on the analysed date is on or after that first bar.

**The backtest.** `AccountsBalance` follows from `PurseOK` (what is multiplied is a number), `Amounts` (no more is bought than is paid for), `SaleAddsUp`, and a bound on the rounding of one
trade that adds up with their number (twice the difference is at most a cent for each). `NoReentry`:
between an exit and the next entry the stance has turned to buying; from `BooksOK` (trades lie in bars that are past) and `TurnsStay` (a bar changes no past stance).

## 6. Not modelled

| component | why |
|---|---|
| Tax-rate amendment preview (`rate_extraction.py`, `rate_diff.py`, `rate_validation.py`) | text to a comparison for a human; nothing is applied |
| Authentication and ownership | a token is read and compared, request by request; nothing changes between requests |
| Database layer | single statements, and connections lent for a `with` block and returned in its `finally`. What transactions do to one another is modelled in the components that run them |
| Web console | presentation; its protocol parts are in `JobManager` (polling), `AgentTurn` (sources) and `ChatSession` (what is shown) |
| Development scripts, CI definition | start-up of local processes; CI's verdict is an action of `AutoDeploy` |

And of modelled components: floating-point error (money is exact but for the rounding the code asks for); the start of a thread for an update of a market cache, if it fails; the
order of a subscription list, which the model has and no property speaks of; the order and limit by which candidates of a pattern search are read; sleeps of the agent client that overshoot; the indicator values, the quick analysis and the grid search of the stock analyzer (floating-point formulas over a price series);
the prompts, the parsing of structured answers and the embeddings; what the extractor finds in a passage and how a file is cut; the rate briefing's
cache (one entry, one lifetime); the synthetic data and personas, written once; the retrieval tools, which are queries without state.

## 7. Plan

Abstract specifications worth adding: an atomic session (turns as single steps) that `ChatSession` implements while no turns cross; an
atomic merge that `EntityMerge` implements without faults; a job ledger for `JobManager`.

Larger instances: unbounded builds, for the starvation of passages behind failing ones (`builder.py:483`).
