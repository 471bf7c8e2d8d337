------------------------------- MODULE NimLedger -------------------------------
(***************************************************************************)
(* The slot arithmetic of reserve() in shared/utils/nim_rate_limit.py, for *)
(* one API key whose calls of reserve() do not overlap: from reading the   *)
(* clock to closing the slot file, one process at a time.  What becomes of *)
(* the file when calls do overlap is the subject of NimSlotFile.           *)
(*                                                                         *)
(* slots is the content of <digest>.slots; granted is a history variable:  *)
(* every start ever handed out.                                            *)
(***************************************************************************)
EXTENDS SlotMath

CONSTANTS MaxTime,      \* bound: the last clock value
          MaxGrants     \* bound: how many calls of reserve() a run makes

ASSUME BoundAssumption == MaxTime \in Nat /\ MaxGrants \in Nat

VARIABLES clock, slots, granted

vars == <<clock, slots, granted>>

Init == /\ clock = 0
        /\ slots = <<>>
        /\ granted = <<>>

\* time.time() advances.
Tick == /\ clock' \in clock + 1 .. MaxTime
        /\ UNCHANGED <<slots, granted>>

\* reserve(): prune, choose the start, record it.
Reserve ==
    LET live == Live(slots, clock)
        start == StartFor(live, clock)
    IN  /\ Len(granted) < MaxGrants
        /\ slots' = Insort(live, start)
        /\ granted' = Append(granted, start)
        /\ UNCHANGED clock

Next == Tick \/ Reserve

Spec == Init /\ [][Next]_vars

-----------------------------------------------------------------------------
Promise == INSTANCE RateWindow

TypeOK == /\ clock \in 0 .. MaxTime
          /\ slots \in Seq(Nat)
          /\ granted \in Seq(Nat)

(* No window of Window seconds holds more than Limit reserved starts, although
   reserve() only ever looks at the slots it has not pruned yet
   (nim_rate_limit.py: "60초 창 안에 rpm개를 넘지 않도록"). *)
WindowHolds == Promise!Spread(granted)

(* Calls are never reordered: a later call of reserve() is not handed an earlier
   start, even when slots far in the future are already booked. *)
FirstComeFirstServed == Promise!Ascending(granted)

(* The limiter never delays a call further than the window demands: a start in
   the future is exactly one window after the start Limit calls earlier. *)
NoNeedlessWait ==
    \A i \in DOMAIN granted :
        \/ granted[i] <= clock
        \/ i > Limit /\ granted[i] = granted[i - Limit] + Window

(* The file remembers enough: it is the tail of the history, and what was
   pruned from it is out of every window a later call can fall in. *)
FileIsRecentHistory ==
    \E d \in 0 .. Len(granted) :
        /\ slots = SubSeq(granted, d + 1, Len(granted))
        /\ \A i \in 1 .. d : granted[i] + Window <= clock

(* The ledger implements the promise of RateWindow. *)
KeepsPromise == Promise!Spec
=============================================================================
