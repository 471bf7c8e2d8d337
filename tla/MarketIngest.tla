---------------------------- MODULE MarketIngest ----------------------------
(***************************************************************************)
(* The daily load of market indicators: the loop of the API server         *)
(* (main.py), the command line of the same pipeline                        *)
(* (fetch_market_data.py) and the table both write (market.py).            *)
(*                                                                         *)
(* Time is counted in half days.  Four targets stand for the fourteen of   *)
(* the pipeline, one for each way a value is obtained:                     *)
(*   "yield"  from FRED, else from a Yahoo index of ANOTHER maturity;      *)
(*   "fed"    the same, of a series with one value a month;                *)
(*   "rate"   from the Bank of Korea, else not at all;                     *)
(*   "index"  from Yahoo, whose last bar may still be forming.             *)
(* When a source has what is the providers' affair: no value on days the   *)
(* markets are closed, some values late, some corrected later.  A hole is  *)
(* filled by a later run, because every run asks for Lookback days and the *)
(* table keeps one row per day.                                            *)
(***************************************************************************)
EXTENDS Integers, Sequences

CONSTANTS Interval,  \* half days between two runs of the loop
          Lookback,  \* days every run asks for
          Observed,  \* the days a target has a value for
          FirstSeen, \* for each target and day, when its source first shows a value
          FinalFrom, \* and from when on the one that stays
          Prompt,    \* how long after its day a value may become final to be sure of its place
          MaxNow     \* bound of the clock, in half days

Day(t) == t \div 2
Days == 1..Day(MaxNow)
Targets == {"yield", "fed", "rate", "index"}

\* A day's value is not known before the day; Yahoo shows it from the next day on, because
\* the last day asked for is left out.
ASSUME MarketIngestAssumption ==
    /\ Interval \in Nat \ {0} /\ Lookback \in Nat \ {0} /\ MaxNow \in Nat
    /\ Prompt \in 0..2 * Lookback + 2
    /\ Observed \in [Targets -> SUBSET Days]
    /\ FirstSeen \in [Targets -> [Days -> Nat]] /\ FinalFrom \in [Targets -> [Days -> Nat]]
    /\ \A t \in Targets, d \in Days : 2 * d <= FirstSeen[t][d] /\ FirstSeen[t][d] <= FinalFrom[t][d]
    /\ \A d \in Days : 2 * d + 2 <= FinalFrom["index"][d]

VARIABLES now,
          stored,    \* market_snapshots: for each target and day what is stored
          saved,     \* MAX(created_at), None when the table is empty
          server,    \* the loop: where it is, when it wakes, what it fetched
          cli,       \* the command line: where it is, what it fetched, what it has yet to save
          clean,     \* when the last run that no source failed was saved
          disturbed, \* since then a run failed, the command line ran, or the server was down
          gapped,    \* once there was no clean run for as long as a day can be corrected
          stoodIn,   \* targets another source stood in for, theirs having failed or had nothing
          overtaken    \* a run saved what it had fetched before another one saved

ingestVars == <<now, stored, saved, server, cli, clean, disturbed, gapped, stoodIn, overtaken>>

None == -1
Batches == <<"yield", "fed", "rate", "index">> \* the order of the pipeline's targets
Values == {"none", "forming", "final", "proxy", "default"}
Nothing == [t \in Targets |-> [d \in Days |-> "none"]]

IngestTypeOK ==
    /\ now \in 0..MaxNow /\ saved \in 0..MaxNow \union {None} /\ clean \in 0..MaxNow
    /\ stored \in [Targets -> [Days -> Values]]
    /\ server.pc \in {"down", "asleep", "check", "fetch", "save"} /\ server.wake \in 0..MaxNow + Interval
    /\ cli.pc \in {"off", "save", "done"} /\ cli.left \in 0..Len(Batches)
    /\ stoodIn \subseteq Targets
    /\ disturbed \in BOOLEAN /\ gapped \in BOOLEAN /\ overtaken \in BOOLEAN

Seen(t, d, when) == d \in Observed[t] /\ FirstSeen[t][d] <= when
Published(t, d, when) == d \in Observed[t] /\ FinalFrom[t][d] <= when

(* The table starts as a back-fill leaves it: everything final is there.   *)
FirstNow == 4

IngestInit ==
    /\ now = FirstNow /\ saved = FirstNow /\ clean = FirstNow
    /\ stored = [t \in Targets |-> [d \in Days |-> IF Published(t, d, FirstNow) THEN "final" ELSE "none"]]
    /\ server = [pc |-> "check", wake |-> FirstNow, rows |-> Nothing, failed |-> FALSE]
    /\ cli = [pc |-> "off", rows |-> Nothing, left |-> 0]
    /\ disturbed = FALSE /\ gapped = FALSE /\ stoodIn = {} /\ overtaken = FALSE

-----------------------------------------------------------------------------
\* What a target's source shows of a day at present.
Shown(t, d) == IF Published(t, d, now) THEN "final" ELSE IF Seen(t, d, now) THEN "forming" ELSE "none"

(* fetch_yfinance_data: the last day is excluded.  For another target it   *)
(* has an index of its own on every day it trades.                         *)
Yahoo(t, from, to, d) ==
    IF ~(from <= d /\ d < to) THEN "none"
    ELSE IF t = "index" THEN Shown(t, d)
    ELSE IF Seen("index", d, now) THEN "proxy" ELSE "none"

(* fetch_fred_data, fetch_ecos_data: the last day is included.             *)
Official(t, from, to, d) == IF from <= d /\ d <= to THEN Shown(t, d) ELSE "none"

Source(t) == IF t = "index" THEN "Yahoo" ELSE IF t = "rate" THEN "BOK" ELSE "FRED"

(* fetch_target: an empty answer of the target's own source counts as a    *)
(* failure.  What no source has stays out.                                 *)
DefaultValue(from, to, d) == \* Mutated: a constant stands for every day no source has
    IF from <= d /\ d <= to THEN "default" ELSE "none"
NoSource(from, to, d) == "none"
FetchTarget(t, from, to, failed) ==
    LET own == [d \in Days |-> IF Source(t) \in failed \/ t = "index" THEN "none"
                               ELSE Official(t, from, to, d)]
    IN  IF \E d \in Days : own[d] # "none" THEN own
        ELSE [d \in Days |-> IF t = "rate" \/ "Yahoo" \in failed THEN NoSource(from, to, d)
                              ELSE Yahoo(t, from, to, d)]

FetchAll(from, to, failed) == [t \in Targets |-> FetchTarget(t, from, to, failed)]
Failures == {{}, {"FRED"}, {"BOK", "Yahoo"}, {"FRED", "BOK", "Yahoo"}}

(* bulk_upsert_market_snapshots: a row of the same day is replaced.        *)
Upsert(rows, targets) ==
    [t \in Targets |-> [d \in Days |->
        IF t \in targets /\ rows[t][d] # "none" THEN rows[t][d] ELSE stored[t][d]]]
HasRows(rows, targets) == \E t \in targets, d \in Days : rows[t][d] # "none"
Stood(rows) == {t \in Targets : \E d \in Days : rows[t][d] = "proxy"}

-----------------------------------------------------------------------------
Sleep == server' = [pc |-> "asleep", wake |-> now + Interval, rows |-> Nothing, failed |-> FALSE]

(* _ingest_due: the age of the table, whoever wrote it.                    *)
DueLater == saved = None \/ now - saved > Interval \* Mutated: strictly more than the interval
Due == saved = None \/ now - saved >= Interval

Check ==
    /\ server.pc = "check" \/ (server.pc = "asleep" /\ server.wake <= now)
    /\ IF Due THEN server' = [server EXCEPT !.pc = "fetch"] ELSE Sleep
    /\ UNCHANGED <<now, stored, saved, cli, clean, disturbed, gapped, stoodIn, overtaken>>

WindowStartShort == Day(now) - 1 \* Mutated: only the day before is asked for
WindowStart == Day(now) - Lookback

(* _run_market_ingest: fetches the window that ends today.  No rows: there *)
(* is nothing to save, and the loop sleeps as after a run.                 *)
FetchWindow ==
    /\ server.pc = "fetch"
    /\ \E failed \in Failures :
          LET rows == FetchAll(WindowStart, Day(now), failed)
          IN  /\ disturbed' = (disturbed \/ failed # {})
              /\ IF HasRows(rows, Targets)
                 THEN server' = [server EXCEPT !.pc = "save", !.rows = rows, !.failed = failed # {}]
                 ELSE Sleep
    /\ UNCHANGED <<now, stored, saved, cli, clean, gapped, stoodIn, overtaken>>

(* One transaction: all rows or none; the loop outlives the failure.       *)
SaveWindow ==
    /\ server.pc = "save"
    /\ \/ /\ stored' = Upsert(server.rows, Targets)
          /\ saved' = now
          /\ stoodIn' = stoodIn \union Stood(server.rows)
          /\ overtaken' = (overtaken \/ cli.pc = "save")
          /\ clean' = IF server.failed THEN clean ELSE now
          /\ disturbed' = ((server.failed /\ disturbed) \/ cli.pc = "save")
       \/ /\ disturbed' = TRUE
          /\ UNCHANGED <<stored, saved, stoodIn, overtaken, clean>>
    /\ Sleep
    /\ UNCHANGED <<now, cli, gapped>>

(* The server stops at any point of a run, and checks at once when it is   *)
(* back.                                                                   *)
Stop ==
    /\ server.pc # "down"
    /\ server' = [pc |-> "down", wake |-> now, rows |-> Nothing, failed |-> FALSE]
    /\ UNCHANGED <<now, stored, saved, cli, clean, disturbed, gapped, stoodIn, overtaken>>

ServerStart ==
    /\ server.pc = "down"
    /\ server' = [server EXCEPT !.pc = "check"]
    /\ disturbed' = (disturbed \/ server.wake < now)
    /\ UNCHANGED <<now, stored, saved, cli, clean, gapped, stoodIn, overtaken>>

-----------------------------------------------------------------------------
(* main of fetch_market_data.py, at most once: any period, saved in        *)
(* batches, here one for each target; a batch that fails is lost and the   *)
(* next one goes on.                                                       *)
CliFetch ==
    /\ cli.pc = "off"
    /\ \E from \in {1, Day(now)}, failed \in {{}, {"FRED"}} :
          LET rows == FetchAll(from, Day(now), failed)
          IN  IF HasRows(rows, Targets)
              THEN cli' = [pc |-> "save", rows |-> rows, left |-> Len(Batches)]
              ELSE cli' = [cli EXCEPT !.pc = "done"]
    /\ disturbed' = TRUE
    /\ UNCHANGED <<now, stored, saved, server, clean, gapped, stoodIn, overtaken>>

CliSave ==
    /\ cli.pc = "save" /\ cli.left > 0
    /\ LET batch == {Batches[Len(Batches) - cli.left + 1]}
       IN  \/ /\ stored' = Upsert(cli.rows, batch)
              /\ saved' = IF HasRows(cli.rows, batch) THEN now ELSE saved
              /\ stoodIn' = stoodIn \union (Stood(cli.rows) \intersect batch)
              /\ overtaken' = (overtaken \/ server.pc = "save")
           \/ UNCHANGED <<stored, saved, stoodIn, overtaken>>
    /\ cli' = [cli EXCEPT !.left = @ - 1]
    /\ disturbed' = TRUE
    /\ UNCHANGED <<now, server, clean, gapped>>

CliEnd ==
    /\ cli.pc = "save" /\ cli.left = 0
    /\ cli' = [pc |-> "done", rows |-> Nothing, left |-> 0]
    /\ UNCHANGED <<now, stored, saved, server, clean, disturbed, gapped, stoodIn, overtaken>>

(* A run of the loop takes less than half a day; the command line may take *)
(* longer.  A value that is final in time is in reach of the runs for as   *)
(* long as Correctable says.                                               *)
Correctable == 2 * Lookback + 2 - Prompt
IngestTick ==
    /\ now < MaxNow
    /\ server.pc = "down" \/ (server.pc = "asleep" /\ server.wake > now)
    /\ now' = now + 1
    /\ gapped' = (gapped \/ now' - clean > Correctable)
    /\ UNCHANGED <<stored, saved, server, cli, clean, disturbed, stoodIn, overtaken>>

IngestNext ==
    \/ Check \/ FetchWindow \/ SaveWindow \/ Stop \/ ServerStart
    \/ CliFetch \/ CliSave \/ CliEnd
    \/ IngestTick

IngestSpec == IngestInit /\ [][IngestNext]_ingestVars

-----------------------------------------------------------------------------
(* While the server runs and nothing fails, a value that has been final    *)
(* for two intervals is in the table, on the days the runs ask for and     *)
(* however often the server restarts.  A restart that finds the table      *)
(* young sleeps a whole interval, so that the age reaches almost two, not  *)
(* the one the loop promises (main.py:101).                                *)
FreshUnlessDisturbed ==
    /\ IngestTypeOK
    /\ ~disturbed /\ server.pc # "down" =>
         \A t \in Targets, d \in Days :
            d >= WindowStart /\ Published(t, d, now - (2 * Interval - 1)) => stored[t][d] = "final"

(* A day no run asks for any more has the value that stays, if that came   *)
(* in time, unless for as long as it could be corrected no run went        *)
(* through without a failure: what was missing or preliminary was put      *)
(* right in time (main.py:83).  For a target another source stood in for,  *)
(* the last days of the window keep the other's value for ever; the        *)
(* monthly series is one from the first run on.                            *)
SettledUnlessGapped ==
    ~gapped /\ ~overtaken =>
        \A t \in Targets \ stoodIn, d \in Days :
            (/\ d < WindowStart
             /\ Published(t, d, 2 * d + Prompt)) => stored[t][d] = "final"

(* A final value is never replaced by one that is not, unless another      *)
(* source stood in for the target's, or a run saved what it had fetched    *)
(* before another run saved.                                               *)
FinalStaysUnlessOvertaken ==
    [][\A t \in Targets, d \in Days :
          stored[t][d] = "final" => stored'[t][d] = "final" \/ t \in stoodIn' \/ overtaken']_ingestVars
=============================================================================
