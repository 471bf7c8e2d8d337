-------------------------------- MODULE NimChat --------------------------------
(***************************************************************************)
(* NIMChatOpenAI of backend/app/services/agent/llm.py: the agent's LLM     *)
(* calls.  Every call builds a model of its own, but all share the one key *)
(* rotator of the process and, with the pipelines, the slot ledgers.       *)
(* _generate and _agenerate are the case of a stream with a single chunk.  *)
(*                                                                         *)
(*   build_chat_model             Start                                    *)
(*   _next_key, reserve, sleep    TakeKey  (then wait until due)           *)
(*   super()._stream              Call, Chunk, Finish                      *)
(*   except RETRY_EXCEPTIONS      Retry (cool the key down, back off)      *)
(*                                or Raise                                 *)
(*   raise last                   GiveUp                                   *)
(***************************************************************************)
EXTENDS SlotMath, KeyRotator, SequencesExt

CONSTANTS Requests,     \* LLM calls, each made once
          Backoff,      \* the sleep after a failed attempt, in ticks (at most 8 s)
          RateCooldown, \* cooldown after a 429
          FailCooldown, \* cooldown after a timeout, a connection error or a 5xx
          MaxChunks,    \* bound: chunks of one stream
          InFlight,     \* bound: requests in flight at a time
          LastStart,    \* bound: the last moment a request is made
          MaxTime       \* bound: the last clock value that passes during a call

ChatAssumption ==
    /\ Backoff \in Nat /\ RateCooldown \in Nat /\ FailCooldown \in Nat
    /\ Backoff < RateCooldown /\ Backoff < FailCooldown
    /\ MaxChunks \in Nat \ {0} /\ InFlight \in Nat \ {0} /\ LastStart \in Nat /\ MaxTime \in Nat

VARIABLES
    clock,
    slots,      \* per key: the slot file
    rot,        \* _rotator
    pc,         \* per request: "new", "ready", "waiting", "calling", "backoff", "ended"
    due,        \* per request: when its sleep ends
    used,       \* per request: the key of each attempt so far
    chunks,     \* per request, history: for each chunk yielded, the attempt it came from
    outcome,    \* per request, history: "none", "ok", "raised" or "gave up"
    promised,   \* per key, history: the longest exclusion mark_failed() was asked for
                \* since the cooldowns were last cleared
    crossed,    \* history: the requests during which another one used the rotator
    shared      \* history: the keys two requests used at the same time

request == <<pc, due, used, chunks, outcome>>
history == <<promised, crossed, shared>>
vars == <<clock, slots, rot, request, history>>

Attempts == IF NumKeys = 1 THEN 2 ELSE NumKeys + 1

Attempt(r) == Len(used[r])
Key(r) == Last(used[r])

Init == /\ clock = 0
        /\ slots = [k \in Keys |-> <<>>]
        /\ rot = NewRotator
        /\ pc = [r \in Requests |-> "new"]
        /\ due = [r \in Requests |-> 0]
        /\ used = [r \in Requests |-> <<>>]
        /\ chunks = [r \in Requests |-> <<>>]
        /\ outcome = [r \in Requests |-> "none"]
        /\ promised = [k \in Keys |-> 0]
        /\ crossed = {}
        /\ shared = {}

\* An LLM call may take any time; a sleep ends when it is due.  (What a late one does to
\* the window is in NimClient; here it would have to overshoot a cooldown to matter.)
\* Bound: past MaxTime the clock only runs while nobody is in a call.
Tick == /\ \/ clock < MaxTime
           \/ /\ \E r \in Requests : pc[r] \in {"waiting", "backoff"}
              /\ \A r \in Requests : pc[r] # "calling"
        /\ \A r \in Requests : pc[r] \in {"waiting", "backoff"} => due[r] > clock
        /\ \A r \in Requests : pc[r] # "ready"
        /\ clock' = clock + 1
        /\ UNCHANGED <<slots, rot, request, history>>

\* Any use of the rotator clears the cooldowns when all keys are cooling down.
ClearPromises == promised' = IF Exhausted(rot, clock) THEN [k \in Keys |-> 0] ELSE promised

UsingKey == {r \in Requests : pc[r] \in {"waiting", "calling"}}

\* History: r used the rotator, during every other request under way.
Cross(r) == crossed' = crossed \cup ({q \in Requests : pc[q] \notin {"new", "ended"}} \ {r})

\* build_chat_model() looks at the current key; the first attempt picks its own.
Start(r) ==
    /\ pc[r] = "new"
    /\ clock <= LastStart
    /\ Cardinality({q \in Requests : pc[q] \notin {"new", "ended"}}) < InFlight
    /\ rot' = GetKey(rot, clock)
    /\ ClearPromises
    /\ Cross(r)
    /\ pc' = [pc EXCEPT ![r] = "ready"]
    /\ UNCHANGED <<clock, slots, due, used, chunks, outcome, shared>>

\* key = self._next_key(); sleep(reserve(key)).
TakeKey(r) ==
    LET key == Rotate(rot, clock).index
    IN  /\ pc[r] = "ready"
        /\ rot' = Rotate(rot, clock)
        /\ ClearPromises
        /\ Cross(r)
        /\ shared' = IF \E q \in UsingKey : Key(q) = key THEN shared \cup {key} ELSE shared
        /\ used' = [used EXCEPT ![r] = Append(@, key)]
        /\ due' = [due EXCEPT ![r] = StartFor(Live(slots[key], clock), clock)]
        /\ slots' = [slots EXCEPT ![key] = Booked(@, clock)]
        /\ pc' = [pc EXCEPT ![r] = "waiting"]
        /\ UNCHANGED <<clock, chunks, outcome>>

Call(r) ==
    /\ pc[r] = "waiting"
    /\ due[r] <= clock
    /\ pc' = [pc EXCEPT ![r] = "calling"]
    /\ UNCHANGED <<clock, slots, rot, due, used, chunks, outcome, history>>

Chunk(r) ==
    /\ pc[r] = "calling"
    /\ Len(chunks[r]) < MaxChunks
    /\ chunks' = [chunks EXCEPT ![r] = Append(@, Attempt(r))]
    /\ UNCHANGED <<clock, slots, rot, pc, due, used, outcome, history>>

End(r, how) == /\ pc' = [pc EXCEPT ![r] = "ended"]
               /\ outcome' = [outcome EXCEPT ![r] = how]

Finish(r) ==
    /\ pc[r] = "calling"
    /\ End(r, "ok")
    /\ UNCHANGED <<clock, slots, rot, due, used, chunks, history>>

\* not started: this attempt has yielded nothing yet.
NotStarted(r) == Attempt(r) \notin Range(chunks[r])

\* _should_retry(exc) and not started: cool the key down, sleep, try again.
Retry(r, cooldown) ==
    LET until == clock + cooldown
    IN  /\ pc[r] = "calling"
        /\ NotStarted(r)
        /\ rot' = MarkFailed(rot, Key(r), until)
        /\ promised' = [promised EXCEPT ![Key(r)] = Max({@, until})]
        /\ Cross(r)
        /\ due' = [due EXCEPT ![r] = clock + Backoff]
        /\ pc' = [pc EXCEPT ![r] = "backoff"]
        /\ UNCHANGED <<clock, slots, used, chunks, outcome, shared>>

\* A 4xx other than 429, or an error after the first chunk.
Raise(r) ==
    /\ pc[r] = "calling"
    /\ End(r, "raised")
    /\ UNCHANGED <<clock, slots, rot, due, used, chunks, history>>

\* range(self._attempts()) is not used up.
AttemptsLeft(r) == Attempt(r) < Attempts

\* Mutated: repeats the call in place, for as long as it fails.
AgainInPlace(r) ==
    /\ pc[r] = "backoff"
    /\ pc' = [pc EXCEPT ![r] = "calling"]
    /\ UNCHANGED <<clock, slots, rot, due, used, chunks, outcome, history>>

Again(r) ==
    /\ pc[r] = "backoff"
    /\ due[r] <= clock
    /\ AttemptsLeft(r)
    /\ pc' = [pc EXCEPT ![r] = "ready"]
    /\ UNCHANGED <<clock, slots, rot, due, used, chunks, outcome, history>>

GiveUp(r) ==
    /\ pc[r] = "backoff"
    /\ due[r] <= clock
    /\ ~AttemptsLeft(r)
    /\ End(r, "gave up")
    /\ UNCHANGED <<clock, slots, rot, due, used, chunks, history>>

\* What the request's thread does by itself; every call ends, at the latest by timeout.
Proceed(r) ==
    \/ TakeKey(r)
    \/ Call(r)
    \/ Finish(r)
    \/ \E cooldown \in {RateCooldown, FailCooldown} : Retry(r, cooldown)
    \/ Raise(r)
    \/ Again(r)
    \/ GiveUp(r)

Next == \/ Tick
        \/ \E r \in Requests : Start(r) \/ Chunk(r) \/ Proceed(r)

Spec == Init /\ [][Next]_vars

FairSpec == Spec /\ WF_vars(Tick) /\ \A r \in Requests : WF_vars(Proceed(r))

-----------------------------------------------------------------------------
TypeOK ==
    /\ clock \in Nat
    /\ slots \in [Keys -> Seq(Nat)]
    /\ rot \in Rotator
    /\ pc \in [Requests -> {"new", "ready", "waiting", "calling", "backoff", "ended"}]
    /\ due \in [Requests -> Nat]
    /\ used \in [Requests -> Seq(Keys)]
    /\ \A r \in Requests : Attempt(r) <= Attempts
    /\ chunks \in [Requests -> Seq(1 .. Attempts)]
    /\ outcome \in [Requests -> {"none", "ok", "raised", "gave up"}]
    /\ promised \in [Keys -> Nat]
    /\ crossed \subseteq Requests
    /\ shared \subseteq Keys

(* What a retry may do.  Tokens already streamed to the user are never followed by the
   tokens of another attempt: everything a request yields comes from one attempt (_stream,
   _astream: "이미 흘린 토큰을 되돌릴 방법이 없다").  A failed attempt is repeated with
   another key (tests/test_llm_retry.py: "429 이후 다른 키로 재시도해야 한다"), unless
   another request has moved the shared index or cleared the cooldowns meanwhile.  A key is
   kept out for as long as it was excluded for, unless all keys are excluded (mark_failed:
   "일정 시간(초) 동안 선택에서 제외시킵니다"), or two requests were using the key at once:
   then the later, possibly shorter exclusion replaces the other. *)
NoReplay == \A r \in Requests : Cardinality(Range(chunks[r])) <= 1

OnAnotherKeyUnlessCrossed ==
    NumKeys > 1 =>
        \A r \in Requests \ crossed :
            \A i \in 2 .. Len(used[r]) : used[r][i] # used[r][i - 1]

ExcludedAsLongAsAskedUnlessShared ==
    \A k \in Keys \ shared : promised[k] > clock => rot.cooldown[k] >= promised[k]

RetriesAreClean ==
    /\ TypeOK
    /\ NoReplay
    /\ OnAnotherKeyUnlessCrossed
    /\ ExcludedAsLongAsAskedUnlessShared

(* Every request ends: with an answer, an error or by giving up. *)
EveryRequestEnds == \A r \in Requests : pc[r] # "new" ~> pc[r] = "ended"
=============================================================================
