--------------------------- MODULE AnalysisMemory ---------------------------
(***************************************************************************)
(* The memory of stock analyses: requests and the back-fill of past dates  *)
(* store forecasts, validators score them against prices that come later,  *)
(* and the scores are shown to the next forecasts.                         *)
(*                                                                         *)
(* Time is counted in thirds of a day: the first two while a day's bar is  *)
(* still forming, the last one after the close.  Prices are constants:     *)
(* Close is the final price of a day's bar, Partial what a download shows  *)
(* of it before.                                                           *)
(***************************************************************************)
EXTENDS PatternScore, SequencesExt

CONSTANTS
    Tickers,        \* the stocks
    Asked,          \* those the live requests are about
    LastDay,        \* the last day of the calendar
    Trading,        \* [Tickers -> SUBSET (0..LastDay)]: days with a bar
    Close,          \* [Tickers -> [0..LastDay -> price]]
    Partial,        \* likewise, while the bar forms
    Snap,           \* [Tickers -> [0..LastDay -> Snapshots]]: indicators at a bar
    Answers,        \* what the model may forecast, a subset of Forecasts
    Outlooks,       \* the horizons an answer may cover, sets of their names
    Horizon,        \* _VALIDATION_HORIZON_DAYS
    Horizons,       \* _HORIZON_DAYS, horizon name -> days
    SinceDays,      \* how far back validate_horizons looks
    HistBuffer,     \* days of history asked for after a target
    StatDays,       \* window of the accuracy statistics
    MinSamples,     \* _MIN_CALIB_SAMPLES
    SimLimit,       \* how many similar analyses are shown
    BatchLimit,     \* rows a validation takes at most
    EndAgo,         \* the back-fill ends this many days ago
    EveryDays,      \* step of the back-fill's grid
    FirstWeekday,   \* weekday of day 0 (Monday is 0)
    Requests,       \* the requests for a live analysis, numbered from 1
    Validators,     \* validations that may overlap
    Loop,           \* the one the server starts again and again
    Vectors,        \* whether the database has the vector column
    MaxRows         \* bound on the rows and the analyses under way

ASSUME CalendarAssumption ==
    /\ LastDay \in Nat /\ Horizon \in Nat \ {0} /\ BatchLimit \in Nat \ {0}
    /\ Trading \in [Tickers -> SUBSET (0..LastDay)]
    /\ Snap \in [Tickers -> [0..LastDay -> Snapshots]]
    /\ Answers \subseteq Forecasts /\ Asked \subseteq Tickers /\ Loop \in Validators
    /\ Requests \subseteq Nat \ {0}
    /\ EndAgo \in Nat \ {0}        \* 2, unless --end says otherwise

VARIABLES
    now,        \* the time, in thirds of a day
    memory,     \* the singleton: "unset", "off" or "on"
    rows,       \* stock_analysis_memory, in order of id
    asking,     \* the analyses under way, by asker
    fill,       \* the back-fill run
    valid       \* the validations under way

vars == <<now, memory, rows, asking, fill, valid>>

Filler == 0
Askers == Requests \cup {Filler}
Live == -1
Unscored == [exit |-> -1]
Day(t) == t \div 3
BarOpen(t) == t % 3 # 2
Midnight(d) == 3 * d
Ids == DOMAIN rows
Available == memory = "on"

\* What a download shows of a day's bar: its close, or the price so far.
Shown(s, d) == IF d = Day(now) /\ BarOpen(now) THEN Partial[s][d] ELSE Close[s][d]

\* The first bar on or after the day `days` after the analysis, once there is
\* one; history is asked for up to HistBuffer days after that day.
FirstBar == [s \in Tickers |-> [d \in 0..LastDay |-> OnOrAfter(Trading[s], d)]]
\* Mutated: any bar since then, so that the latest is judged by.
ExitBarSince(s, created, days) ==
    LET target == Day(created) + days
    IN  IF target > LastDay THEN {}
        ELSE {d \in Trading[s] : d >= target /\ d < target + HistBuffer /\ d <= Day(now)}
ExitBar(s, created, days) ==
    LET target == Day(created) + days
    IN  IF target > LastDay THEN {}
        ELSE {d \in FirstBar[s][target] : d < target + HistBuffer /\ d <= Day(now)}

Idle == [pc |-> "idle"]

Init ==
    /\ now = 0
    /\ memory = "unset"
    /\ rows = <<>>
    /\ asking = [a \in Askers |-> Idle]
    /\ fill = [pc |-> "off", todo |-> {}, existing |-> {}]
    /\ valid = [v \in Validators |-> Idle]

\* Downloads and the model's answer take time, the statements on the database
\* next to none.
Tick ==
    /\ now < 3 * LastDay + 2 /\ fill.pc # "scan"
    /\ \A a \in Askers : asking[a] # Idle => asking[a].pc = "report"
    /\ \A v \in Validators : valid[v] # Idle => valid[v].pc = "score"
    /\ now' = now + 1
    /\ UNCHANGED <<memory, rows, asking, fill, valid>>

\* First use: the memory is on for the life of the process if the table could
\* be read at this moment, whatever became of the DDL before it.
Construct ==
    /\ memory = "unset"
    /\ memory' \in {"off", "on"}
    /\ UNCHANGED <<now, rows, asking, fill, valid>>
-----------------------------------------------------------------------------
(* What an analysis is shown of the memory. *)

\* The analyses inside the window of the statistics.  For a past date only
\* those old enough that their outcome was known on that date.
\* Mutated: no upper end, as in the live query.
AsOfWindowOpen(asof) ==
    {i \in Ids : rows[i].created > (IF asof = Live THEN now ELSE asof) - 3 * StatDays}
AsOfWindow(asof) ==
    IF asof = Live
    THEN {i \in Ids : rows[i].created > now - 3 * StatDays}
    ELSE {i \in Ids : /\ rows[i].created > asof - 3 * StatDays
                      /\ rows[i].created < asof - 3 * Horizon}

Scored(S) == {i \in S : rows[i].label # Unscored}
OfTicker(S, s) == {i \in S : rows[i].ticker = s}

\* Whose outcomes the accuracy per level counts: the stock's, or everybody's
\* when the stock has too few.
LevelRows(s, asof) ==
    LET all == Scored(AsOfWindow(asof))
        own == OfTicker(all, s)
    IN  IF Cardinality(own) < MinSamples THEN all ELSE own

\* Candidates: every stock's analyses when vectors are available.
Candidates(s, asof) ==
    LET past == {i \in Ids : asof = Live \/ rows[i].created < asof}
    IN  IF Vectors THEN past ELSE OfTicker(past, s)

OutcomeKnown(i, asof) ==
    /\ rows[i].label # Unscored
    /\ asof = Live \/ rows[i].created <= asof - 3 * Horizon

SimilarPatterns(s, snap, asof) ==
    LET near == {i \in Candidates(s, asof) : Similarity(snap, rows[i].snap) >= SimThreshold}
        score == [i \in near |->
                    Rank(Similarity(snap, rows[i].snap),
                         OutcomeKnown(i, asof) /\ rows[i].label.ok, rows[i].ticker = s)]
    IN  Best(near, score, SimLimit)

\* The rows whose outcomes reach the forecast's prompt.
Context(s, snap, asof) ==
    IF ~Available THEN {}
    ELSE {i \in SimilarPatterns(s, snap, asof) : OutcomeKnown(i, asof)} \cup LevelRows(s, asof)
-----------------------------------------------------------------------------
(* Analyses: of today, and of past dates. *)

UnderWay == {a \in Askers : asking[a] # Idle}
Room == Len(rows) + Cardinality(UnderWay) < MaxRows

\* A live analysis ends its download before today, so its price and its
\* indicators are those of the last bar before today.
Ask(a, s) ==
    /\ \A b \in Requests : b < a => asking[b] # Idle    \* the least free number
    /\ memory # "unset" /\ asking[a] = Idle /\ Room
    /\ \E bar \in Trading[s] :
          /\ bar < Day(now) /\ \A d \in Trading[s] : d < Day(now) => d <= bar
          /\ asking' = [asking EXCEPT ![a] =
                [pc |-> "report", ticker |-> s, bar |-> bar, asof |-> Live,
                 seen |-> {}, choice |-> "HOLD", outlook |-> {}, blind |-> FALSE]]
    /\ UNCHANGED <<now, memory, rows, fill, valid>>

\* The end of an analysis.  The back-fill goes on, and remembers what is stored.
Ends(a, stored) ==
    /\ asking' = [asking EXCEPT ![a] = Idle]
    /\ fill' = IF a # Filler THEN fill
               ELSE [fill EXCEPT !.pc = "scan",
                        !.existing = IF stored THEN @ \cup {<<asking[a].ticker, asking[a].bar>>} ELSE @]

\* The model answers with a forecast, for some of the horizons, or fails.
Forecast(a) ==
    /\ asking[a] # Idle /\ asking[a].pc = "report"
    /\ \/ Ends(a, FALSE)
       \/ /\ Available /\ UNCHANGED fill
          /\ \E c \in Answers, o \in Outlooks :
                asking' = [asking EXCEPT ![a].pc = "look", ![a].choice = c, ![a].outlook = o]
    /\ UNCHANGED <<now, memory, rows, valid>>

\* The date an analysis is stored under.
StoredAt(a) == IF asking[a].asof = Live THEN now ELSE asking[a].asof

\* The latest row of the same stock and day, if it is nearly the same.
\* Mutated: the day of the last bar is looked up, not the one stored under.
DuplicatesOfBar(a) ==
    {i \in OfTicker(Ids, asking[a].ticker) : Day(rows[i].created) = asking[a].bar}
Duplicates(a) ==
    LET day == {i \in OfTicker(Ids, asking[a].ticker) : Day(rows[i].created) = Day(StoredAt(a))}
        last == {i \in day : \A j \in day : rows[j].created <= rows[i].created}
    IN  {i \in last : Similarity(Snap[asking[a].ticker][asking[a].bar], rows[i].snap) >= DedupThreshold}

\* A lookup that fails counts as one that found nothing.
FindDuplicate(a) ==
    /\ asking[a] # Idle /\ asking[a].pc = "look"
    /\ IF Duplicates(a) = {}
       THEN asking' = [asking EXCEPT ![a].pc = "insert"] /\ UNCHANGED fill
       ELSE \/ Ends(a, TRUE)
            \/ asking' = [asking EXCEPT ![a].pc = "insert", ![a].blind = TRUE] /\ UNCHANGED fill
    /\ UNCHANGED <<now, memory, rows, valid>>

\* The insert is a transaction of its own, and may fail.  `blind` records, for
\* the property, that the look missed a duplicate or that another row of the
\* stock came between look and insert.
\* A live answer then carries the calibrated level, which changes no state.
Insert(a) ==
    /\ asking[a] # Idle /\ asking[a].pc = "insert"
    /\ \/ Ends(a, FALSE) /\ UNCHANGED rows
       \/ LET s == asking[a].ticker IN
          /\ rows' = Append(rows,
                [ticker |-> s, created |-> StoredAt(a), choice |-> asking[a].choice,
                 outlook |-> asking[a].outlook, price |-> Close[s][asking[a].bar],
                 snap |-> Snap[s][asking[a].bar], label |-> Unscored, outcome |-> {},
                 blind |-> asking[a].blind])
          /\ LET others == {b \in UnderWay \ {a} : asking[b].pc = "insert" /\ asking[b].ticker = s}
             IN  asking' = [b \in Askers |->
                    IF b = a THEN Idle
                    ELSE IF b \in others THEN [asking[b] EXCEPT !.blind = TRUE] ELSE asking[b]]
          /\ fill' = IF a # Filler THEN fill
                     ELSE [fill EXCEPT !.pc = "scan", !.existing = @ \cup {<<s, asking[a].bar>>}]
    /\ UNCHANGED <<now, memory, valid>>

\* The dates of the back-fill: every so many days, a week-end moved to Monday.
Weekday(d) == (d + FirstWeekday) % 7
Snapped(d) == IF Weekday(d) >= 5 THEN d + 7 - Weekday(d) ELSE d
GridDates(start, end, every) ==
    LET raw == {d \in start..end : (d - start) % Max({1, every}) = 0}
    IN  {Snapped(d) : d \in raw} \cap (start..end)

\* A run reads what is already stored, and leaves it out.
StartFill ==
    /\ fill.pc = "off" /\ Available /\ Room /\ Day(now) >= EndAgo
    /\ LET existing == {<<rows[i].ticker, Day(rows[i].created)>> : i \in Ids}
           dates == GridDates(0, Day(now) - EndAgo, EveryDays)
       IN  fill' = [pc |-> "scan", existing |-> existing, todo |-> (Tickers \X dates) \ existing]
    /\ UNCHANGED <<now, memory, rows, asking, valid>>

\* It walks the dates in ascending order, of each date the stocks in some order.
\* A stock without data or already stored under the date of its last bar is passed
\* over; otherwise the memory of that time is read.
ScanNext ==
    /\ fill.pc = "scan" /\ Room
    /\ \E next \in fill.todo :
       LET s == next[1]
           data == {d \in Trading[s] : d <= next[2]}
           bar == Max(data)
           rest == [fill EXCEPT !.todo = @ \ {next}]
       IN  /\ \A other \in fill.todo : next[2] <= other[2]
           /\ IF data = {} \/ <<s, bar>> \in fill.existing
              THEN fill' = rest /\ UNCHANGED asking
              ELSE /\ fill' = [rest EXCEPT !.pc = "wait"]
                   /\ asking' = [asking EXCEPT ![Filler] =
                         [pc |-> "report", ticker |-> s, bar |-> bar, asof |-> Midnight(bar),
                          seen |-> {<<rows[i].ticker, rows[i].label.exit>> :
                                       i \in Context(s, Snap[s][bar], Midnight(bar))},
                          choice |-> "HOLD", outlook |-> {}, blind |-> FALSE]]
    /\ UNCHANGED <<now, memory, rows, valid>>

\* The run ends, or is interrupted; started again, it goes on with what is missing.
StopFill ==
    /\ fill.pc # "off"
    /\ fill' = [pc |-> "off", todo |-> {}, existing |-> {}]
    /\ asking' = [asking EXCEPT ![Filler] = Idle]
    /\ UNCHANGED <<now, memory, rows, valid>>
-----------------------------------------------------------------------------
(* Validation. *)

\* Mutated: only the analyses whose target day is today.
DueToday == {i \in Ids : /\ rows[i].label = Unscored /\ rows[i].created < now - 3 * Horizon
                         /\ Day(rows[i].created) + Horizon = Day(now)}
Due == {i \in Ids : rows[i].label = Unscored /\ rows[i].created < now - 3 * Horizon}

\* The server's loop and an operator's request.  Only the loop goes on to the
\* horizons; a request with nothing due changes nothing.
\* The transaction of a validation takes at most BatchLimit of the due rows, in
\* any order.
BeginValidation(v) ==
    /\ valid[v] = Idle /\ Available /\ (v = Loop \/ Due # {})
    /\ \E S \in kSubset(IF Cardinality(Due) < BatchLimit THEN Cardinality(Due) ELSE BatchLimit, Due) :
       \E order \in SetToSeqs(S) :
          valid' = [valid EXCEPT ![v] =
             IF S = {} THEN [pc |-> "horizons"]
             ELSE [pc |-> "score", todo |-> order, writes |-> <<>>, aborted |-> FALSE]]
    /\ UNCHANGED <<now, memory, rows, asking, fill>>

Scoring(v) == valid[v] # Idle /\ valid[v].pc = "score"
Holds(v, i) == Scoring(v) /\ i \in DOMAIN valid[v].writes

Exits(i) == ExitBar(rows[i].ticker, rows[i].created, Horizon)
Skipped(v) == [valid[v] EXCEPT !.todo = Tail(@)]

\* What becomes of a validation when it updates its next row.
Judged(v) ==
    LET i == Head(valid[v].todo)
        exit == Max(Exits(i))
        label == [exit |-> exit, forming |-> exit = Day(now) /\ BarOpen(now),
                  ok |-> Judge(rows[i].choice, rows[i].price, Shown(rows[i].ticker, exit))]
        writes == valid[v].writes
    IN  [Skipped(v) EXCEPT !.writes =
            [j \in DOMAIN writes \cup {i} |-> IF j = i THEN label ELSE writes[j]]]

\* A row whose target day has no bar yet is left for a later validation.  The
\* update waits for a row another validation has updated; in a transaction
\* that a failed statement has aborted it fails, and the failure is swallowed.
ScoreRow(v) ==
    /\ Scoring(v) /\ valid[v].todo # <<>>
    /\ UNCHANGED <<now, memory, rows, asking, fill>>
    /\ LET i == Head(valid[v].todo) IN
       \/ /\ Exits(i) = {} \/ valid[v].aborted
          /\ valid' = [valid EXCEPT ![v] = Skipped(v)]
       \/ /\ Exits(i) # {} /\ ~valid[v].aborted
          /\ \A w \in Validators \ {v} : ~Holds(w, i)
          /\ valid' = [valid EXCEPT ![v] = Judged(v)]

\* Two validations that wait for each other: the database ends one of them, whose
\* work so far is lost and whose later statements fail; the other gets its row.
Deadlock(v) ==
    /\ Scoring(v) /\ valid[v].todo # <<>> /\ ~valid[v].aborted
    /\ UNCHANGED <<now, memory, rows, asking, fill>>
    /\ \E w \in Validators \ {v} :
          /\ Scoring(w) /\ valid[w].todo # <<>>
          /\ Holds(w, Head(valid[v].todo)) /\ Holds(v, Head(valid[w].todo))
          /\ valid' = [valid EXCEPT ![v] = [Skipped(v) EXCEPT !.aborted = TRUE, !.writes = <<>>],
                                    ![w] = Judged(w)]

Commit(v) ==
    /\ Scoring(v) /\ valid[v].todo = <<>>
    /\ rows' = [i \in Ids |->
          IF Holds(v, i) THEN [rows[i] EXCEPT !.label = valid[v].writes[i]] ELSE rows[i]]
    /\ valid' = [valid EXCEPT ![v] = IF v = Loop THEN [pc |-> "horizons"] ELSE Idle]
    /\ UNCHANGED <<now, memory, asking, fill>>

\* The rows that some horizon is still missing, the newest BatchLimit of them.
Incomplete ==
    {i \in Ids : /\ Cardinality(rows[i].outcome) < Cardinality(DOMAIN Horizons)
                 /\ rows[i].created < now - 3 /\ rows[i].created > now - 3 * SinceDays}
Newest(S) == Best(S, [i \in S |-> rows[i].created], BatchLimit)

\* The horizons of a row that can be scored: forecast, not scored yet, and with
\* a bar on or after their day.
Scorable(i) ==
    {h \in rows[i].outlook \ rows[i].outcome :
        ExitBar(rows[i].ticker, rows[i].created, Horizons[h]) # {}}

\* validate_horizons in one step, as an outcome that is stored first stays.  Which
\* horizons have been scored is kept, and not the result.
ValidateHorizons(v) ==
    /\ valid[v] # Idle /\ valid[v].pc = "horizons"
    /\ rows' = [i \in Ids |->
          IF i \notin Newest(Incomplete) THEN rows[i]
          ELSE [rows[i] EXCEPT !.outcome = @ \cup Scorable(i)]]
    /\ valid' = [valid EXCEPT ![v] = Idle]
    /\ UNCHANGED <<now, memory, asking, fill>>

Validating(v) == ScoreRow(v) \/ Deadlock(v) \/ Commit(v) \/ ValidateHorizons(v)

Next ==
    \/ Tick \/ Construct \/ StartFill \/ ScanNext \/ StopFill
    \/ \E a \in Requests, s \in Asked : Ask(a, s)
    \/ \E a \in Askers : Forecast(a) \/ FindDuplicate(a) \/ Insert(a)
    \/ \E v \in Validators : BeginValidation(v) \/ Validating(v)

\* The server starts its validation again and again, and a validation that has
\* begun runs on.
Fairness ==
    /\ WF_vars(BeginValidation(Loop) \/ Validating(Loop))
    /\ \A v \in Validators \ {Loop} : WF_vars(Validating(v))

Spec == Init /\ [][Next]_vars /\ Fairness
-----------------------------------------------------------------------------
(* Properties. *)

\* An analysis of a past date is shown no outcome that was decided after that
\* date (analysis_memory.py:224, backfill_stock_analysis.py:155), unless the
\* remembered stock had no bar on that date while the analysed one did: the
\* horizon is counted in days, and the outcome rolls to the next bar.
NoLookAheadUnlessCalendarsDiffer ==
    asking[Filler] # Idle =>
        \A seen \in asking[Filler].seen :
            seen[2] > asking[Filler].bar => asking[Filler].bar \notin Trading[seen[1]]

\* An outcome does not depend on when it is judged (analysis_memory.py:83): it
\* follows from the close of the first bar on or after the target day, unless
\* the validation ran while that very bar was forming.
OutcomeIsOfTargetCloseUnlessForming ==
    \A i \in Scored(Ids) :
        LET label == rows[i].label
            later == {d \in Trading[rows[i].ticker] : d >= Day(rows[i].created) + Horizon}
        IN  \/ label.forming
            \/ /\ label.exit = Min(later)
               /\ label.ok = Judge(rows[i].choice, rows[i].price, Close[rows[i].ticker][Min(later)])

\* A day's row of a stock differs from the one before it (analysis_memory.py:315,
\* 359), unless the lookup failed, which stores it all the same (337), or another
\* row was stored since.
NoTwinUnlessBlind ==
    \A i, j \in Ids :
        (/\ i < j /\ rows[i].ticker = rows[j].ticker /\ Day(rows[i].created) = Day(rows[j].created)
         /\ ~rows[j].blind
         /\ \A k \in i+1..j-1 : rows[k].ticker # rows[j].ticker
                               \/ Day(rows[k].created) # Day(rows[j].created))
        => Similarity(rows[i].snap, rows[j].snap) < DedupThreshold

\* An outcome that is stored stays what it is: a validation that picked the row
\* before it was judged writes over it unasked (analysis_memory.py:601), but, days
\* later even, nothing else (analysis_memory.py:83), unless one of the two saw the
\* bar while it was forming.
OutcomeStandsUnlessForming ==
    [][\A i \in Scored(Ids) :
         \/ rows'[i].label = rows[i].label
         \/ /\ rows'[i].label.exit = rows[i].label.exit
            /\ rows[i].label.forming \/ rows'[i].label.forming]_vars

\* Whether a due row can be judged now.
Judgeable(i) ==
    /\ rows[i].label = Unscored /\ rows[i].created < now - 3 * Horizon
    /\ ExitBar(rows[i].ticker, rows[i].created, Horizon) # {}
Stuck == {i \in Due : ~Judgeable(i)}

\* Again and again there is nothing left to judge: no outcome, unless rows that cannot be
\* judged fill a batch (analysis_memory.py:569), and no horizon of a recent analysis,
\* unless more rows miss a horizon than a batch takes (analysis_memory.py:658).
JudgedInTheEndUnlessCrowded ==
    /\ []<>(Cardinality(Stuck) < BatchLimit => \A i \in Ids : ~Judgeable(i))
    /\ []<>(Cardinality(Incomplete) <= BatchLimit => \A i \in Incomplete : Scorable(i) = {})
=============================================================================
