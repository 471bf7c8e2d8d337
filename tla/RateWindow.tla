------------------------------ MODULE RateWindow ------------------------------
(***************************************************************************)
(* What shared/utils/nim_rate_limit.py promises its callers, and nothing   *)
(* of how it keeps the promise: a call slot starts no earlier than the     *)
(* moment it was asked for, no window of Window seconds holds more than    *)
(* Limit starts, and a slot handed out is never withdrawn.                 *)
(***************************************************************************)
EXTENDS Naturals, Sequences

CONSTANTS Limit,    \* rpm: starts per window
          Window    \* WINDOW_SECONDS

VARIABLES clock,    \* wall-clock time
          granted   \* start times handed out, in the order they were granted

vars == <<clock, granted>>

Ascending(s) == \A i, j \in DOMAIN s : i <= j => s[i] <= s[j]

\* Limit + 1 consecutive starts span at least one window.
Spread(s) == \A i \in DOMAIN s : i > Limit => s[i] >= s[i - Limit] + Window

Init == clock \in Nat /\ granted = <<>>

\* Time passes between two calls of reserve().
Tick == clock' \in Nat /\ clock' > clock /\ UNCHANGED granted

\* One call is given a slot: any start the window has room for.
Grant == /\ Len(granted') = Len(granted) + 1
         /\ \A i \in DOMAIN granted : granted'[i] = granted[i]
         /\ granted'[Len(granted')] >= clock
         /\ Ascending(granted')
         /\ Spread(granted')
         /\ UNCHANGED clock

Next == Tick \/ Grant

Spec == Init /\ [][Next]_vars
=============================================================================
