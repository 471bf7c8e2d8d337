---------------------------- MODULE MarketCache ----------------------------
(***************************************************************************)
(* The two market caches of the API server: the heat map (api/stocks.py)   *)
(* and the macro indicators (api/users.py).  A request answers from memory *)
(* at once; when what is there is older than TTL it starts one background  *)
(* update, and a flag keeps others from starting a second.  main.py starts *)
(* an update of its own at boot, which never took the flag.                *)
(*                                                                         *)
(* The steps are those between which another thread can run: a request     *)
(* that found the cache empty fills it in a later step, an update writes   *)
(* the data before the time, and a failed update looks whether the cache   *)
(* is empty before it fills it.                                            *)
(***************************************************************************)
EXTENDS Integers, FiniteSets

CONSTANTS Requests,  \* threads that serve requests, each starts at most one update at a time
          Boot,      \* the update started when the server boots
          TTL,       \* _CACHE_TTL_SECONDS, _MACRO_TTL
          MaxTime    \* bound of the clock

ASSUME MarketCacheAssumption == TTL \in Nat \ {0} /\ MaxTime \in Nat \ {0} /\ Boot \notin Requests

VARIABLES which,      \* which of the two caches: "heat" or "macro"
          clock,
          data,      \* what is shown: its source, and when it was fetched
          stamp,     \* last_updated, 0 before the first update
          flag,      \* _IS_UPDATING_HEATMAP, _IS_UPDATING_MACRO
          lock,      \* the request that holds the lock, or Boot: free
          req,       \* each request: where it is, and when it came
          upd,       \* each update: where it is, and when it began
          crossed,   \* live data was published after another had seen the cache empty
          overlapped \* a request started an update while the one of the boot ran

cacheVars == <<which, clock, data, stamp, flag, lock, req, upd, crossed, overlapped>>

Updates == Requests \union {Boot}
Sources == {"none", "sample", "live"}
Empty == data.src = "none"

CacheTypeOK ==
    /\ which \in {"heat", "macro"} /\ clock \in 1..MaxTime /\ stamp \in 0..MaxTime
    /\ data \in [src : Sources, at : 0..MaxTime]
    /\ flag \in BOOLEAN /\ lock \in Updates /\ crossed \in BOOLEAN /\ overlapped \in BOOLEAN
    /\ req \in [Requests -> [pc : {"idle", "sample", "expiry", "locked", "answer"},
                             asked : 0..MaxTime]]
    /\ upd \in [Updates -> [pc : {"off", "fetch", "publish", "stamp", "failed", "fill", "finally"},
                            began : 0..MaxTime]]

CacheInit ==
    /\ which \in {"heat", "macro"} /\ clock = 1
    /\ data = [src |-> "none", at |-> 0] /\ stamp = 0
    /\ flag = FALSE /\ lock = Boot /\ crossed = FALSE /\ overlapped = FALSE
    /\ req = [r \in Requests |-> [pc |-> "idle", asked |-> 0]]
    /\ upd = [u \in Updates |-> IF u = Boot THEN [pc |-> "fetch", began |-> 1] ELSE [pc |-> "off", began |-> 0]]

At(r, pc) == req' = [req EXCEPT ![r].pc = pc]
Go(u, pc) == upd' = [upd EXCEPT ![u].pc = pc]

(* A request takes the time; the heat map also looks whether it is empty.  *)
Ask(r) ==
    /\ req[r].pc = "idle"
    /\ req' = [req EXCEPT ![r] =
                 [pc |-> IF which = "heat" /\ Empty THEN "sample" ELSE "expiry", asked |-> clock]]
    /\ UNCHANGED <<which, clock, data, stamp, flag, lock, upd, crossed, overlapped>>

(* The heat map is filled with the sample, whose time stays as it was so   *)
(* that the expiry below starts an update at once.                         *)
FillSample(r) ==
    /\ req[r].pc = "sample"
    /\ data' = [src |-> "sample", at |-> 0]
    /\ At(r, "expiry")
    /\ UNCHANGED <<which, clock, stamp, flag, lock, upd, crossed, overlapped>>

Expired(r) == req[r].asked - stamp >= TTL
Wanted(r, force) == force \/ Expired(r) \/ (which = "macro" /\ Empty)

(* The caller may ask for a refresh.  The lock is tried without waiting.   *)
CheckExpiry(r) ==
    /\ req[r].pc = "expiry"
    /\ \E force \in BOOLEAN :
          LET free == Wanted(r, force) /\ lock = Boot
          IN  /\ lock' = IF free THEN r ELSE lock
              /\ req' = [req EXCEPT ![r] = [pc |-> IF free THEN "locked" ELSE "answer", asked |-> 0]]
    /\ UNCHANGED <<which, clock, data, stamp, flag, upd, crossed, overlapped>>

MayStart == ~flag

StartUpdate(r) ==
    /\ req[r].pc = "locked"
    /\ upd[r].pc = "off" \/ ~MayStart
    /\ IF MayStart
       THEN /\ flag' = TRUE
            /\ upd' = [upd EXCEPT ![r] = [pc |-> "fetch", began |-> clock]]
            /\ overlapped' = (overlapped \/ upd[Boot].pc # "off")
       ELSE UNCHANGED <<flag, upd, overlapped>>
    /\ lock' = Boot
    /\ At(r, "answer")
    /\ UNCHANGED <<which, clock, data, stamp, crossed>>

(* The answer is what the cache holds now; the macro indicators fall back  *)
(* on the database when it holds nothing.                                  *)
Answer(r) ==
    /\ req[r].pc = "answer"
    /\ req' = [req EXCEPT ![r] = [pc |-> "idle", asked |-> 0]]
    /\ UNCHANGED <<which, clock, data, stamp, flag, lock, upd, crossed, overlapped>>

(* The batch of quotes comes, or the provider raises.  A stock or an       *)
(* indicator without a quote keeps its default, which is not a failure.    *)
Fetch(u) ==
    /\ upd[u].pc = "fetch"
    /\ \E pc \in {"publish", "failed"} : Go(u, pc)
    /\ UNCHANGED <<which, clock, data, stamp, flag, lock, req, crossed, overlapped>>

Publish(u) ==
    /\ upd[u].pc = "publish"
    /\ data' = [src |-> "live", at |-> upd[u].began]
    /\ crossed' = (\/ crossed
                   \/ \E r \in Requests : req[r].pc = "sample"
                   \/ \E v \in Updates \ {u} : upd[v].pc = "fill")
    /\ Go(u, "stamp")
    /\ UNCHANGED <<which, clock, stamp, flag, lock, req, overlapped>>

(* The heat map is dated by when its update began, the macro indicators by *)
(* when theirs ended.                                                      *)
Stamp(u) ==
    /\ upd[u].pc = "stamp"
    /\ stamp' = IF which = "heat" THEN upd[u].began ELSE clock
    /\ Go(u, "finally")
    /\ UNCHANGED <<which, clock, data, flag, lock, req, crossed, overlapped>>

FillsAlways == TRUE \* Mutated: a failed update replaces what is shown by the sample
FillsAfterFailure == Empty

Failed(u) ==
    /\ upd[u].pc = "failed"
    /\ Go(u, IF FillsAfterFailure THEN "fill" ELSE "finally")
    /\ UNCHANGED <<which, clock, data, stamp, flag, lock, req, crossed, overlapped>>

(* Only the heat map dates what it was filled with.                        *)
FillFallback(u) ==
    /\ upd[u].pc = "fill"
    /\ data' = [src |-> "sample", at |-> 0]
    /\ stamp' = IF which = "heat" THEN clock ELSE stamp
    /\ Go(u, "finally")
    /\ UNCHANGED <<which, clock, flag, lock, req, crossed, overlapped>>

(* Every update of the heat map clears the flag, the one of the boot too;  *)
(* for the macro indicators only the thread a request started does.        *)
FlagKeptByRequests(u) == IF which = "heat" THEN FALSE ELSE flag \* Mutated: the thread of a request forgets the flag
FlagAfter(u) == IF which = "heat" \/ u # Boot THEN FALSE ELSE flag

Finally(u) ==
    /\ upd[u].pc = "finally"
    /\ flag' = FlagAfter(u)
    /\ upd' = [upd EXCEPT ![u] = [pc |-> "off", began |-> 0]]
    /\ UNCHANGED <<which, clock, data, stamp, lock, req, crossed, overlapped>>

CacheTick ==
    /\ clock < MaxTime
    /\ clock' = clock + 1
    /\ UNCHANGED <<which, data, stamp, flag, lock, req, upd, crossed, overlapped>>

CacheNext ==
    \/ \E r \in Requests : \/ Ask(r) \/ FillSample(r) \/ CheckExpiry(r)
                           \/ StartUpdate(r) \/ Answer(r)
    \/ \E u \in Updates : \/ Fetch(u) \/ Publish(u) \/ Stamp(u)
                          \/ Failed(u) \/ FillFallback(u) \/ Finally(u)
    \/ CacheTick

CacheSpec == CacheInit /\ [][CacheNext]_cacheVars

-----------------------------------------------------------------------------
(* Live quotes, once shown, are not taken back for the sample or for the   *)
(* defaults, unless someone who had seen the cache empty was about to fill *)
(* it when they were published (stocks.py:540, stocks.py:479): then the    *)
(* sample stays for a whole TTL, dated as the live quotes it replaced.     *)
(* And they are never replaced by quotes asked for earlier, unless a       *)
(* request started an update while the one of the boot still ran: the      *)
(* latter did not take the flag, and the heat map's clears that of others, *)
(* so that from then on there may be two updates at any time               *)
(* (stocks.py:495, main.py:160).                                           *)
OnlyNewerReplacesLive ==
    [][data.src = "live" => /\ data'.src = "live" \/ crossed
                            /\ data'.src = "live" /\ ~overlapped' => data'.at >= data.at]_cacheVars

(* The flag is up only while an update a request started runs: else no     *)
(* request would ever start one again and the quotes would stand still     *)
(* until the server restarts.                                              *)
FlagHasUpdate == CacheTypeOK /\ (flag => \E r \in Requests : upd[r].pc # "off")
=============================================================================
