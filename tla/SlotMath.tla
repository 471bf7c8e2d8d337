------------------------------- MODULE SlotMath -------------------------------
(***************************************************************************)
(* What reserve() of shared/utils/nim_rate_limit.py computes between       *)
(* reading the slot file and writing it back.  A slot list holds the start *)
(* times booked for one API key, sorted.                                   *)
(***************************************************************************)
EXTENDS Naturals, Sequences

CONSTANTS Limit,        \* rpm
          Window        \* WINDOW_SECONDS

ASSUME LimitAssumption == Limit \in Nat \ {0}
ASSUME WindowAssumption == Window \in Nat \ {0}

\* Mutated: prunes a slot one tick before it leaves the window.
ExpiredCountEarly(s, now) ==
    CHOOSE k \in 0 .. Len(s) :
        /\ \A i \in 1 .. k : s[i] + Window <= now + 1
        /\ \A i \in k + 1 .. Len(s) : s[i] + Window > now + 1

\* How many entries of a sorted slot list are out of the window at time now.
ExpiredCount(s, now) ==
    CHOOSE k \in 0 .. Len(s) :
        /\ \A i \in 1 .. k : s[i] + Window <= now
        /\ \A i \in k + 1 .. Len(s) : s[i] + Window > now

\* slots = sorted(t for t in slots if t > now - WINDOW_SECONDS)
Live(s, now) == SubSeq(s, ExpiredCount(s, now) + 1, Len(s))

\* Mutated: one slot too many fits in the window.
StartForOneMore(live, now) ==
    IF Len(live) <= Limit
      THEN now
      ELSE LET free == live[Len(live) - Limit + 1] + Window
           IN  IF free > now THEN free ELSE now

\* Mutated: waits for the last slot instead of the Limit-th from the back.
StartForLast(live, now) ==
    IF Len(live) < Limit THEN now ELSE live[Len(live)] + Window

\* now while the window has room, otherwise the moment the Limit-th slot from
\* the back leaves the window.
StartFor(live, now) ==
    IF Len(live) < Limit
      THEN now
      ELSE LET free == live[Len(live) - Limit + 1] + Window
           IN  IF free > now THEN free ELSE now

\* bisect.insort (bisect_right) into a sorted list.
InsertionPoint(s, t) ==
    CHOOSE k \in 0 .. Len(s) :
        /\ \A i \in 1 .. k : s[i] <= t
        /\ \A i \in k + 1 .. Len(s) : s[i] > t

Insort(s, t) ==
    LET k == InsertionPoint(s, t)
    IN  SubSeq(s, 1, k) \o <<t>> \o SubSeq(s, k + 1, Len(s))

\* The slot list after one more call at time now.
Booked(s, now) == LET live == Live(s, now) IN Insort(live, StartFor(live, now))
=============================================================================
