----------------------------- MODULE MCCallLimits -----------------------------
(***************************************************************************)
(* Calls kept to a number per window, outwards and inwards, on small       *)
(* instances: each behaviour is of pipeline clients calling the NIM        *)
(* endpoint (NimClient; one tick stands for 30 seconds and for one step of *)
(* back-off) or of requests to the backend (RateLimit; two clients, whose  *)
(* requests clean up after each other; the heavy bucket is shut).          *)
(***************************************************************************)
EXTENDS NimClient, TLC

CONSTANTS Clients, GlobalMax, HeavyMax, Second, RequestWindow, CleanupEvery, MaxRequestTime

VARIABLES scene, requestClock, hits, lastCleanup, admitted, promise

Inbound == INSTANCE RateLimit WITH Window <- RequestWindow, MaxTime <- MaxRequestTime,
                                   clock <- requestClock

ASSUME InboundAssumption == Inbound!LimitAssumption /\ Inbound!TimeAssumption

inboundVars == <<requestClock, hits, lastCleanup, admitted, promise>>

CallSymmetry == Permutations(Workers) \cup Permutations(Clients)

MCInit == scene \in {"outbound", "inbound"} /\ Init /\ Inbound!Init

MCNext == \/ scene = "outbound" /\ Next /\ UNCHANGED <<scene, inboundVars>>
          \/ scene = "inbound" /\ Inbound!Next /\ UNCHANGED <<scene, vars>>

MCSpec == MCInit /\ [][MCNext]_<<scene, vars, inboundVars>>

-----------------------------------------------------------------------------
\* RateLimit's property: no window holds more admissions than the limit, and Retry-After
\* is exact.
LimitIsExact == Inbound!LimitIsExact
=============================================================================
