------------------------------ MODULE MCNimChat ------------------------------
(***************************************************************************)
(* The agent's LLM calls (NimChat) on a small instance: requests are model *)
(* values; one tick stands for about ten seconds (window and cooldowns     *)
(* scaled down in proportion).                                             *)
(***************************************************************************)
EXTENDS SlotMath, KeyRotator

CONSTANTS Requests, Backoff, ChatRateCooldown, ChatFailCooldown, MaxChunks, InFlight, LastStart, MaxChatTime

VARIABLES chatClock, chatSlots, chatRot, chatPc, chatDue, used, chunks, outcome, promised, crossed, shared

Chat == INSTANCE NimChat WITH RateCooldown <- ChatRateCooldown, FailCooldown <- ChatFailCooldown,
                              MaxTime <- MaxChatTime, clock <- chatClock, slots <- chatSlots,
                              rot <- chatRot, pc <- chatPc, due <- chatDue

ASSUME ChatsAssumption == Chat!ChatAssumption

ChatSpec == Chat!FairSpec

-----------------------------------------------------------------------------
\* NimChat's properties: retries repeat nothing, take another key and keep exclusions; every
\* request ends.
RetriesAreClean == Chat!RetriesAreClean

EveryRequestEnds == Chat!EveryRequestEnds
=============================================================================
