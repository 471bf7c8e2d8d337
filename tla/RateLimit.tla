------------------------------- MODULE RateLimit -------------------------------
(***************************************************************************)
(* RateLimitMiddleware (backend/app/middleware/rate_limit.py): one deque   *)
(* of admission times per client IP and bucket.  dispatch() does not await *)
(* before it has decided, so a request is one step.  Time is counted in    *)
(* ticks, Second of them to a second: Retry-After is in whole seconds.     *)
(* Requests that are exempt (OPTIONS, health, not under /api/) touch       *)
(* nothing and are left out.                                               *)
(***************************************************************************)
EXTENDS Naturals, FiniteSets, Sequences

CONSTANTS Clients,
          GlobalMax,    \* RATE_LIMIT_PER_MIN
          HeavyMax,     \* RATE_LIMIT_HEAVY_PER_MIN
          Second,       \* ticks in a second
          Window,       \* window, in ticks
          CleanupEvery, \* _CLEANUP_EVERY, in ticks
          MaxTime       \* bound: the last clock value

LimitAssumption == GlobalMax \in Nat /\ HeavyMax \in Nat
TimeAssumption == /\ Second \in Nat \ {0} /\ Window \in Nat \ {0}
                  /\ CleanupEvery \in Nat /\ MaxTime \in Nat

VARIABLES
    clock,          \* time.monotonic()
    hits,           \* _hits, <<>> for a key that is not there
    lastCleanup,    \* _last_cleanup
    admitted,       \* history: every admission of a key
    promise         \* history: when Retry-After tells the client of a key to come back,
                    \* 0 if it has been admitted since

vars == <<clock, hits, lastCleanup, admitted, promise>>

Keys == Clients \X {"heavy", "global"}
LimitOf(k) == IF k[2] = "heavy" THEN HeavyMax ELSE GlobalMax

Init == /\ clock = 0
        /\ hits = [k \in Keys |-> <<>>]
        /\ lastCleanup = 0
        /\ admitted = [k \in Keys |-> <<>>]
        /\ promise = [k \in Keys |-> 0]

Tick == /\ clock < MaxTime
        /\ clock' = clock + 1
        /\ UNCHANGED <<hits, lastCleanup, admitted, promise>>

\* while dq and dq[0] < cutoff: dq.popleft()
Fresh(dq, now) ==
    LET k == CHOOSE k \in 0 .. Len(dq) : /\ \A i \in 1 .. k : dq[i] + Window < now
                                         /\ k < Len(dq) => dq[k + 1] + Window >= now
    IN  SubSeq(dq, k + 1, Len(dq))

Due(now) == now - lastCleanup >= CleanupEvery

\* _cleanup(): deletes the keys whose last hit is out of the window.
Cleaned(now) ==
    [k \in Keys |-> IF Due(now) /\ hits[k] # <<>> /\ hits[k][Len(hits[k])] + Window < now
                      THEN <<>> ELSE hits[k]]

\* Mutated: whole seconds, rounded down.
RetryAfterDown(dq, now) == (Window - (now - dq[1])) \div Second

\* int(window - (now - dq[0])) + 1
RetryAfter(dq, now) == (Window - (now - dq[1])) \div Second + 1

Arrive(k, dq) == /\ hits' = [Cleaned(clock) EXCEPT ![k] = dq]
                 /\ lastCleanup' = IF Due(clock) THEN clock ELSE lastCleanup
                 /\ UNCHANGED clock

Admit(k) ==
    LET dq == Fresh(Cleaned(clock)[k], clock)
    IN  /\ Len(dq) < LimitOf(k)
        /\ Arrive(k, Append(dq, clock))
        /\ admitted' = [admitted EXCEPT ![k] = Append(@, clock)]
        /\ promise' = [promise EXCEPT ![k] = 0]

Refuse(k) ==
    LET dq == Fresh(Cleaned(clock)[k], clock)
    IN  /\ Len(dq) >= LimitOf(k)
        /\ dq # <<>>
        /\ Arrive(k, dq)
        /\ promise' = [promise EXCEPT ![k] = clock + Second * RetryAfter(dq, clock)]
        /\ UNCHANGED admitted

\* A limit of 0 and an empty deque: dq[0] ends the request in an IndexError, a 500.
Fail(k) ==
    LET dq == Fresh(Cleaned(clock)[k], clock)
    IN  /\ Len(dq) >= LimitOf(k)
        /\ dq = <<>>
        /\ Arrive(k, dq)
        /\ UNCHANGED <<admitted, promise>>

Next == \/ Tick
        \/ \E k \in Keys : Admit(k) \/ Refuse(k) \/ Fail(k)

Spec == Init /\ [][Next]_vars

-----------------------------------------------------------------------------
TypeOK == /\ clock \in 0 .. MaxTime
          /\ hits \in [Keys -> Seq(0 .. MaxTime)]
          /\ \A k \in Keys : Len(hits[k]) <= LimitOf(k)
          /\ lastCleanup \in 0 .. clock
          /\ admitted \in [Keys -> Seq(0 .. MaxTime)]
          /\ promise \in [Keys -> Nat]

(* The limit is the limit, both ways.  No window, wherever it starts, holds more than Limit
   admissions of a key, although old hits are popped and whole keys deleted on the way (the
   sliding log is stricter than the fixed window of its docstring: both ends of the window
   count).  A client that waits as long as Retry-After told it is not refused again, unless
   it used the time for something else; and Retry-After is the first whole second at which
   it is so.  "빈 버킷을 주기적으로 정리해 메모리 상한을 둔다": a client that has been silent
   for a window when a cleanup runs is not remembered after it. *)
WindowHolds ==
    \A k \in Keys : \A i \in DOMAIN admitted[k] :
        i > LimitOf(k) => admitted[k][i] > admitted[k][i - LimitOf(k)] + Window

RetryAfterIsExact ==
    \A k \in Keys : promise[k] # 0 =>
        /\ clock >= promise[k] => Len(Fresh(hits[k], clock)) < LimitOf(k)
        /\ clock + Second <= promise[k] => Len(Fresh(hits[k], clock)) >= LimitOf(k)

SilentAreForgotten ==
    \A k \in Keys : hits[k] # <<>> => hits[k][Len(hits[k])] + Window >= lastCleanup

LimitIsExact ==
    /\ TypeOK
    /\ WindowHolds
    /\ RetryAfterIsExact
    /\ SilentAreForgotten
=============================================================================
