----------------------------- MODULE MCMarketData -----------------------------
(***************************************************************************)
(* The data the API server keeps of others, on small instances: two        *)
(* requests and the update of the boot for a market cache; five days of    *)
(* the market load with restarts, failing sources, a closed market and one *)
(* run of the command line; two threads on the cache of the subscription   *)
(* API, whose list gains a notice.  The three do not share state: each     *)
(* behaviour is of one of them.                                            *)
(***************************************************************************)
EXTENDS MarketCache, MarketIngest, SubscriptionLists

VARIABLE scene \* which of the three

\* Five days.  The markets are closed on the third and fourth; the yield of the second day is
\* late and its rate corrected, the month's value due in a month.
OpenDays == Days \ {3, 4}
MCObserved == [t \in Targets |-> IF t = "fed" THEN {1} ELSE OpenDays]
MCFirstSeen == [t \in Targets |-> [d \in Days |->
    CASE t = "fed" -> 40 [] t = "yield" -> 2 * d + (IF d = 2 THEN 5 ELSE 3) [] OTHER -> 2 * d + 1]]
MCFinalFrom == [t \in Targets |-> [d \in Days |->
    CASE t = "rate" -> 2 * d + (IF d = 2 THEN 3 ELSE 1) [] t = "index" -> 2 * d + 3 [] OTHER -> MCFirstSeen[t][d]]]

MCListings == << <<"a", "b", "c">>, <<"n", "a", "b", "c">> >>
MCNotices == [a |-> [announced |-> 2, starts |-> 1, ends |-> 1],
              b |-> [announced |-> 1, starts |-> 2, ends |-> 0],
              c |-> [announced |-> 3, starts |-> 0, ends |-> 0],
              n |-> [announced |-> 4, starts |-> 1, ends |-> 3]]

MCInit ==
    /\ scene \in {"cache", "ingest", "subscription"}
    /\ CacheInit /\ (scene # "cache" => which = "heat")
    /\ IngestInit
    /\ SubscriptionInit /\ (scene # "subscription" => keySet)

MCNext ==
    /\ UNCHANGED scene
    /\ \/ scene = "cache" /\ CacheNext /\ UNCHANGED <<ingestVars, subscriptionVars>>
       \/ scene = "ingest" /\ IngestNext /\ UNCHANGED <<cacheVars, subscriptionVars>>
       \/ scene = "subscription" /\ SubscriptionNext /\ UNCHANGED <<cacheVars, ingestVars>>

MCSpec == MCInit /\ [][MCNext]_<<scene, cacheVars, ingestVars, subscriptionVars>>
=============================================================================
