------------------------------- MODULE NimClient -------------------------------
(***************************************************************************)
(* NIMOpenAI of shared/utils/nim_openai.py: the pipelines' LLM client.     *)
(* Each worker of the graph builder borrows a client of its own, so a      *)
(* client makes one call at a time and has its own rotator and delay; all  *)
(* clients share the per-key slot ledgers of nim_rate_limit (one atomic    *)
(* booking here; what overlapping bookings do is in NimSlotFile).          *)
(*                                                                         *)
(*   _with_retry, attempt 1     Begin   rotate, reserve, start sleeping    *)
(*   call()                     Fire    the sleep is over, the call is out *)
(*   _handle_success            Succeed                                    *)
(*   _handle_api_error          Fail    back off, cool down, rotate; then  *)
(*                                      the next attempt reserves again    *)
(*   except Exception           Abort                                      *)
(***************************************************************************)
EXTENDS SlotMath, KeyRotator

CONSTANTS Workers,      \* the clients
          BackoffStep,  \* _backoff_step
          MaxDelay,     \* _max_delay
          RateCooldown, \* cooldown after a 429
          FailCooldown, \* cooldown after any other API error
          MaxLate,      \* bound: by how much a sleep may overshoot
          LateErrors,   \* bound: API errors after which no sleep overshoots any more
          MaxTime,      \* bound: the last clock value that passes during a call
          MaxRequests,  \* bound: requests of a run
          MaxErrors     \* bound: API errors of a run

ASSUME ClientAssumption ==
    /\ BackoffStep \in Nat /\ MaxDelay \in Nat /\ MaxTime \in Nat
    /\ MaxLate \in Nat /\ LateErrors \in Nat
    /\ MaxRequests \in Nat /\ MaxErrors \in Nat
    /\ RateCooldown \in Nat \ {0} /\ FailCooldown \in Nat \ {0}

VARIABLES
    clock,
    slots,      \* per key: the slot file
    calls,      \* per key, history: when HTTP calls were sent
    rot,        \* per worker: its rotator; api_key is the rotator's current key
    delay,      \* per worker: _current_delay, in ticks above _min_delay
    pc,         \* per worker: "idle", "sleeping" or "calling"
    due,        \* per worker: when the sleep before the call ends
    attempt,    \* per worker: the attempt of the current request
    tried,      \* per worker, history: the keys this request has called with
    ended,      \* per worker, history: how the last request ended
    rested,     \* per worker, history: a key the request had tried has rested since
    requests,   \* history: requests begun
    errors      \* history: calls that failed with an API error

worker == <<rot, delay, pc, due, attempt, tried, ended, rested>>
vars == <<clock, slots, calls, worker, requests, errors>>

\* Mutated: as many attempts as there are other keys.
MaxAttemptsOthers == NumKeys - 1

MaxAttempts == 2 * NumKeys

\* The delay after an error.
Longer(d) == Min({MaxDelay, d + BackoffStep})

Init == /\ clock = 0
        /\ slots = [k \in Keys |-> <<>>]
        /\ calls = [k \in Keys |-> <<>>]
        /\ rot = [w \in Workers |-> NewRotator]
        /\ delay = [w \in Workers |-> 0]
        /\ pc = [w \in Workers |-> "idle"]
        /\ due = [w \in Workers |-> 0]
        /\ attempt = [w \in Workers |-> 0]
        /\ tried = [w \in Workers |-> {}]
        /\ ended = [w \in Workers |-> "none"]
        /\ rested = [w \in Workers |-> FALSE]
        /\ requests = 0
        /\ errors = 0

Late == IF errors <= LateErrors THEN MaxLate ELSE 0

\* sleep() ends no earlier than asked for, and at most Late later.  Bound: past
\* MaxTime the clock only runs while some worker sleeps and none is in a call.
Tick == /\ \/ clock < MaxTime
           \/ /\ \E w \in Workers : pc[w] = "sleeping"
              /\ \A w \in Workers : pc[w] # "calling"
        /\ \A w \in Workers : pc[w] = "sleeping" => clock < due[w] + Late
        /\ clock' = clock + 1
        /\ rested' = [w \in Workers |->
                \/ rested[w]
                \/ pc[w] # "idle" /\ \E k \in tried[w] : rot[w].cooldown[k] = clock + 1]
        /\ UNCHANGED <<slots, calls, rot, delay, pc, due, attempt, tried, ended, requests, errors>>

\* _apply_delay() with key and delay d: book a slot, sleep its wait plus the delay.
Apply(w, key, d) ==
    LET start == StartFor(Live(slots[key], clock), clock)
    IN  /\ slots' = [slots EXCEPT ![key] = Booked(@, clock)]
        /\ due' = [due EXCEPT ![w] = start + d]
        /\ pc' = [pc EXCEPT ![w] = "sleeping"]

\* A request: the first attempt rotates the key, then books a slot for it.
Begin(w) ==
    /\ pc[w] = "idle"
    /\ requests < MaxRequests
    /\ requests' = requests + 1
    /\ rot' = [rot EXCEPT ![w] = Rotate(@, clock)]
    /\ Apply(w, rot'[w].index, delay[w])
    /\ attempt' = [attempt EXCEPT ![w] = 1]
    /\ tried' = [tried EXCEPT ![w] = {}]
    /\ ended' = [ended EXCEPT ![w] = "none"]
    /\ rested' = [rested EXCEPT ![w] = FALSE]
    /\ UNCHANGED <<clock, calls, delay, errors>>

Fire(w) ==
    /\ pc[w] = "sleeping"
    /\ due[w] <= clock
    /\ pc' = [pc EXCEPT ![w] = "calling"]
    /\ calls' = [calls EXCEPT ![rot[w].index] = Append(@, clock)]
    /\ tried' = [tried EXCEPT ![w] = @ \cup {rot[w].index}]
    /\ UNCHANGED <<clock, slots, rot, delay, due, attempt, ended, rested, requests, errors>>

End(w, how) == /\ pc' = [pc EXCEPT ![w] = "idle"]
               /\ ended' = [ended EXCEPT ![w] = how]
               /\ attempt' = [attempt EXCEPT ![w] = 0]
               /\ due' = [due EXCEPT ![w] = 0]

\* The delay halves; what is left below one tick snaps to the minimum.
Succeed(w) ==
    /\ pc[w] = "calling"
    /\ End(w, "ok")
    /\ delay' = [delay EXCEPT ![w] = @ \div 2]
    /\ UNCHANGED <<clock, slots, calls, rot, tried, rested, requests, errors>>

\* A RETRY_EXCEPTIONS error: longer delay, the failed key cools down, next key;
\* then the next attempt books its slot, or the last attempt raises.
Fail(w, cooldown) ==
    /\ pc[w] = "calling"
    /\ errors < MaxErrors
    /\ delay' = [delay EXCEPT ![w] = Longer(@)]
    /\ rot' = [rot EXCEPT ![w] = Rotate(MarkFailed(@, @.index, clock + cooldown), clock)]
    /\ \/ /\ attempt[w] = MaxAttempts
          /\ End(w, "gave up")
          /\ UNCHANGED slots
       \/ /\ attempt[w] < MaxAttempts
          /\ attempt' = [attempt EXCEPT ![w] = @ + 1]
          /\ Apply(w, rot'[w].index, delay'[w])
          /\ UNCHANGED ended
    /\ errors' = errors + 1
    /\ UNCHANGED <<clock, calls, tried, rested, requests>>

\* Any other exception leaves the loop at once.
Abort(w) ==
    /\ pc[w] = "calling"
    /\ End(w, "raised")
    /\ UNCHANGED <<clock, slots, calls, rot, delay, tried, rested, requests, errors>>

Next == \/ Tick
        \/ \E w \in Workers :
             \/ Begin(w)
             \/ Fire(w)
             \/ Succeed(w)
             \/ \E cooldown \in {RateCooldown, FailCooldown} : Fail(w, cooldown)
             \/ Abort(w)

Spec == Init /\ [][Next]_vars

-----------------------------------------------------------------------------
TypeOK ==
    /\ clock \in Nat
    /\ slots \in [Keys -> Seq(Nat)]
    /\ calls \in [Keys -> Seq(Nat)]
    /\ rot \in [Workers -> Rotator]
    /\ delay \in [Workers -> 0 .. MaxDelay]
    /\ pc \in [Workers -> {"idle", "sleeping", "calling"}]
    /\ due \in [Workers -> Nat]
    /\ attempt \in [Workers -> 0 .. MaxAttempts]
    /\ tried \in [Workers -> SUBSET Keys]
    /\ ended \in [Workers -> {"none", "ok", "gave up", "raised"}]
    /\ rested \in [Workers -> BOOLEAN]
    /\ requests \in 0 .. MaxRequests /\ errors \in 0 .. MaxErrors

(* The calls themselves, not only the bookings, respect the limit per key: "분당
   호출 수 자체는 nim_rate_limit.reserve()가 정확히 통제하므로" (nim_openai.py).  As
   long as no client has ever backed off, they do, but for what a sleep overshoots: a
   call goes out on the key its slot was booked for, and lateness does not add up. *)
CallsKeepWindowUntilBackoff ==
    /\ TypeOK
    /\ errors = 0 =>
         \A k \in Keys : \A i \in DOMAIN calls[k] :
           i > Limit => calls[k][i] + MaxLate >= calls[k][i - Limit] + Window

(* A request is given up only after every key had its turn ("다음 활성 API 키로 회전",
   rotate()), unless a key it had tried was rested again meanwhile: the key after an
   error is the first rested one, not the next, so that one is then taken again. *)
GivesUpAfterAllKeys ==
    \A w \in Workers : ended[w] = "gave up" => tried[w] = Keys \/ rested[w]
=============================================================================
