---------------------------- MODULE CallLimitsProofs ----------------------------
(***************************************************************************)
(* The limits on calls, inwards and outwards, for all limits, windows and  *)
(* numbers of clients, keys, requests and errors.                          *)
(***************************************************************************)
EXTENDS MCCallLimits, MCNimChat, SlotLemmas, FiniteSetTheorems

(***************************************************************************)
(* Inwards.  The deque of a key is only the end of what was admitted for   *)
(* it: hits are popped and whole keys deleted.  Everything before that end *)
(* is out of the window (Remembered), so a count of the deque is a count   *)
(* of the window; and what Retry-After promises depends on one admission   *)
(* alone, the one that has to leave the window (PromiseFits).              *)
(***************************************************************************)
\* s is what is left of all, and what is cut off is out of the window.
EndOf(s, all, now) ==
    \E d \in 0 .. Len(all) : /\ s = SubSeq(all, d + 1, Len(all))
                             /\ \A i \in 1 .. d : all[i] + RequestWindow < now

Remembered(k) == EndOf(hits[k], admitted[k], requestClock)

PromiseFits(k) ==
    LET n == Len(admitted[k])
        limit == Inbound!LimitOf(k)
        free == admitted[k][n - limit + 1] + RequestWindow
    IN  promise[k] # 0 => limit \in 1 .. n /\ free < promise[k] /\ promise[k] <= free + Second

KeyInv(k) ==
    /\ Ascending(admitted[k])
    /\ \A i \in 1 .. Len(admitted[k]) : admitted[k][i] <= requestClock
    /\ Remembered(k)
    /\ PromiseFits(k)
    /\ Len(hits[k]) <= Inbound!LimitOf(k)
    /\ \A i \in 1 .. Len(admitted[k]) : i > Inbound!LimitOf(k) =>
            admitted[k][i] > admitted[k][i - Inbound!LimitOf(k)] + RequestWindow
    /\ hits[k] # <<>> => hits[k][Len(hits[k])] + RequestWindow >= lastCleanup

InboundInv == Inbound!TypeOK /\ \A k \in Inbound!Keys : KeyInv(k)

-----------------------------------------------------------------------------
\* Division rounds down, by less than the divisor.
LEMMA DivBounds ==
  ASSUME NEW x \in Nat, NEW s \in Nat \ {0}
  PROVE  x \div s \in Nat /\ s * (x \div s) <= x /\ x < s * (x \div s) + s
OBVIOUS

\* Of two hits, the older one leaves the window first.
LEMMA OlderLeavesFirst ==
  ASSUME NEW a \in Nat, NEW b \in Nat, NEW w \in Nat, NEW t \in Nat, a <= b
  PROVE  /\ b + w < t => a + w < t
         /\ a + w >= t => b + w >= t
OBVIOUS

\* What the assumptions say of the constants.
LEMMA InboundConstants ==
  /\ Second \in Nat \ {0} /\ RequestWindow \in Nat \ {0} /\ MaxRequestTime \in Nat
  /\ \A k \in Inbound!Keys : Inbound!LimitOf(k) \in Nat
BY InboundAssumption DEF Inbound!LimitAssumption, Inbound!TimeAssumption, Inbound!LimitOf

\* The loop that pops old hits stops at the first one that is not old.
LEMMA FreshEffect ==
  ASSUME NEW dq \in Seq(Nat), NEW now \in Nat
  PROVE  \E e \in 0 .. Len(dq) : /\ Inbound!Fresh(dq, now) = SubSeq(dq, e + 1, Len(dq))
                                 /\ \A i \in 1 .. e : dq[i] + RequestWindow < now
                                 /\ e < Len(dq) => dq[e + 1] + RequestWindow >= now
<1> DEFINE Stops(k) == /\ \A i \in 1 .. k : dq[i] + RequestWindow < now
                       /\ k < Len(dq) => dq[k + 1] + RequestWindow >= now
           T == {k \in 0 .. Len(dq) : k < Len(dq) => dq[k + 1] + RequestWindow >= now}
<1>1. Len(dq) \in T /\ T \subseteq Nat
  OBVIOUS
<1>2. PICK k \in T : \A j \in T : k <= j
  BY <1>1, LeastElement
<1>3. \A i \in 1 .. k : dq[i] + RequestWindow < now
  <2> SUFFICES ASSUME NEW i \in 1 .. k, dq[i] + RequestWindow >= now PROVE FALSE
    BY <1>2, InboundConstants
  <2>1. i - 1 \in T /\ ~(k <= i - 1)
    BY <1>2
  <2> QED BY <2>1, <1>2
<1>4. \E e \in 0 .. Len(dq) : Stops(e)
  BY <1>2, <1>3
<1>5. PICK e \in 0 .. Len(dq) : Stops(e) /\ Inbound!Fresh(dq, now) = SubSeq(dq, e + 1, Len(dq))
  BY <1>4 DEF Inbound!Fresh
<1> QED BY <1>5

\* What is left of an end of the admissions is the end that starts in the window.
LEMMA FreshOfEnd ==
  ASSUME NEW all \in Seq(Nat), Ascending(all), NEW now \in Nat, NEW s, EndOf(s, all, now)
  PROVE  \E e \in 0 .. Len(all) : /\ Inbound!Fresh(s, now) = SubSeq(all, e + 1, Len(all))
                                  /\ \A i \in 1 .. e : all[i] + RequestWindow < now
                                  /\ \A i \in e + 1 .. Len(all) : all[i] + RequestWindow >= now
<1> DEFINE n == Len(all)
<1>1. PICK d \in 0 .. n : s = SubSeq(all, d + 1, n) /\ \A i \in 1 .. d : all[i] + RequestWindow < now
  BY DEF EndOf
<1>2. s \in Seq(Nat) /\ Len(s) = n - d /\ \A i \in 1 .. n - d : s[i] = all[d + i]
  BY <1>1, SuffixProperties
<1>3. PICK p \in 0 .. Len(s) : /\ Inbound!Fresh(s, now) = SubSeq(s, p + 1, Len(s))
                               /\ \A i \in 1 .. p : s[i] + RequestWindow < now
                               /\ p < Len(s) => s[p + 1] + RequestWindow >= now
  BY <1>2, FreshEffect
<1>4. n \in Nat /\ d \in 0 .. n /\ p \in 0 .. n - d /\ d + p \in 0 .. n
  BY <1>1, <1>2
<1>5. Inbound!Fresh(s, now) = SubSeq(all, d + p + 1, n)
  BY <1>1, <1>3, <1>4, SuffixOfSuffix
<1>6. ASSUME NEW i \in 1 .. d + p PROVE all[i] + RequestWindow < now
  <2>1. CASE i > d
    <3>1. i - d \in 1 .. p /\ i - d \in 1 .. n - d /\ d + (i - d) = i
      BY <2>1, <1>4
    <3> QED BY <3>1, <1>2, <1>3
  <2> QED BY <1>1, <1>4, <2>1
<1>7. ASSUME NEW i \in d + p + 1 .. n PROVE all[i] + RequestWindow >= now
  <2> DEFINE m == d + (p + 1)
  <2>0. n \in Nat /\ d \in Nat /\ p \in Nat /\ i \in Int /\ d + p + 1 <= i /\ i <= n /\ Len(s) = n - d
    BY <1>2, <1>4
  <2>1. p + 1 \in 1 .. n - d /\ m \in 1 .. n /\ p < Len(s) /\ i \in 1 .. n /\ m <= i
    BY <2>0
  <2>2. all[m] + RequestWindow >= now
    BY <2>1, <1>2, <1>3
  <2> HIDE DEF m
  <2>3. all[m] <= all[i]
    BY <2>1 DEF Ascending
  <2>4. all[i] \in Nat /\ all[m] \in Nat
    BY <2>1, ElementOfSeq
  <2>5. RequestWindow \in Nat
    BY InboundConstants
  <2> HIDE DEF n
  <2> QED BY <2>2, <2>3, <2>4, <2>5, OlderLeavesFirst
<1> QED BY <1>4, <1>5, <1>6, <1>7

\* What is known of the lists of a key.
LEMMA KeyTypes ==
  ASSUME InboundInv, NEW k \in Inbound!Keys
  PROVE  /\ admitted[k] \in Seq(0 .. MaxRequestTime) /\ admitted[k] \in Seq(Nat)
         /\ hits[k] \in Seq(0 .. MaxRequestTime) /\ hits[k] \in Seq(Nat)
         /\ promise[k] \in Nat /\ requestClock \in 0 .. MaxRequestTime
         /\ requestClock \in Nat /\ lastCleanup \in Nat /\ lastCleanup <= requestClock
<1>1. /\ admitted[k] \in Seq(0 .. MaxRequestTime) /\ hits[k] \in Seq(0 .. MaxRequestTime)
      /\ promise[k] \in Nat /\ requestClock \in 0 .. MaxRequestTime
      /\ lastCleanup \in 0 .. requestClock
  BY DEF InboundInv, Inbound!TypeOK
<1>2. 0 .. MaxRequestTime \subseteq Nat
  BY InboundConstants
<1>3. admitted[k] \in Seq(Nat) /\ hits[k] \in Seq(Nat)
  BY <1>1, <1>2, SeqMonotonic
<1> QED BY <1>1, <1>2, <1>3

\* The clean-up leaves an end of the admissions too: the whole key goes only with its last hit.
LEMMA CleanedEnd ==
  ASSUME InboundInv, NEW k \in Inbound!Keys
  PROVE  /\ EndOf(Inbound!Cleaned(requestClock)[k], admitted[k], requestClock)
         /\ Inbound!Cleaned(requestClock)[k] \in {hits[k], <<>>}
<1> DEFINE all == admitted[k]
           n == Len(all)
           dropped == /\ Inbound!Due(requestClock) /\ hits[k] # <<>>
                  /\ hits[k][Len(hits[k])] + RequestWindow < requestClock
<1>1. Inbound!Cleaned(requestClock)[k] = IF dropped THEN <<>> ELSE hits[k]
  BY DEF Inbound!Cleaned
<1>2. EndOf(hits[k], all, requestClock) /\ Ascending(all) /\ all \in Seq(Nat) /\ hits[k] \in Seq(Nat)
  BY KeyTypes DEF InboundInv, KeyInv, Remembered
<1>3. CASE dropped
  <2>1. PICK d \in 0 .. n : hits[k] = SubSeq(all, d + 1, n)
    BY <1>2 DEF EndOf
  <2>2. Len(hits[k]) = n - d /\ \A i \in 1 .. n - d : hits[k][i] = all[d + i]
    BY <1>2, <2>1, SuffixProperties
  <2>3. n \in Nat /\ d \in Nat /\ Len(hits[k]) # 0 /\ Len(hits[k]) \in Nat
    BY <1>2, <1>3, <2>1
  <2>4. n - d \in 1 .. n - d /\ d + (n - d) = n /\ n \in 1 .. n
    BY <2>2, <2>3
  <2>5. all[n] + RequestWindow < requestClock
    BY <1>3, <2>2, <2>4
  <2>6. ASSUME NEW i \in 1 .. n PROVE all[i] + RequestWindow < requestClock
    <3>1. all[i] <= all[n]
      <4>1. i \in 1 .. n /\ n \in 1 .. n /\ i <= n
        BY <2>3
      <4> QED BY <4>1, <1>2, <2>4 DEF Ascending
    <3>2. all[i] \in Nat /\ all[n] \in Nat
      BY <1>2, <2>4, ElementOfSeq
    <3>3. requestClock \in Nat /\ RequestWindow \in Nat
      BY KeyTypes, InboundConstants
    <3> HIDE DEF all, n
    <3> QED BY <3>1, <3>2, <3>3, <2>5, OlderLeavesFirst
  <2>7. SubSeq(all, n + 1, n) = <<>> /\ n \in 0 .. n
    BY <1>2
  <2> QED BY <1>1, <1>3, <2>6, <2>7 DEF EndOf
<1>4. CASE ~dropped
  BY <1>1, <1>2, <1>4
<1> QED BY <1>3, <1>4

\* A request for another key takes nothing from key k but old hits.
LEMMA OtherKeyKeeps ==
  ASSUME InboundInv, NEW k \in Inbound!Keys,
         hits'[k] = Inbound!Cleaned(requestClock)[k], admitted'[k] = admitted[k],
         promise'[k] = promise[k], requestClock' = requestClock,
         lastCleanup' = IF Inbound!Due(requestClock) THEN requestClock ELSE lastCleanup
  PROVE  KeyInv(k)'
<1>1. KeyInv(k) /\ hits[k] \in Seq(Nat)
  BY KeyTypes DEF InboundInv
<1>2. Remembered(k)'
  BY CleanedEnd DEF Remembered, EndOf
<1>3. Len(hits'[k]) <= Inbound!LimitOf(k)
  BY <1>1, CleanedEnd, InboundConstants DEF KeyInv
<1>4. hits'[k] # <<>> => hits'[k][Len(hits'[k])] + RequestWindow >= lastCleanup'
  <2> SUFFICES ASSUME hits'[k] # <<>>
               PROVE  hits'[k][Len(hits'[k])] + RequestWindow >= lastCleanup'
    OBVIOUS
  <2> DEFINE last == hits[k][Len(hits[k])]
  <2>1. hits'[k] = hits[k]
    BY CleanedEnd
  <2>2. Len(hits[k]) \in 1 .. Len(hits[k]) /\ last \in Nat
    BY <1>1, <2>1
  <2>3. last + RequestWindow >= lastCleanup
    BY <1>1, <2>1 DEF KeyInv
  <2>4. Inbound!Due(requestClock) => ~(last + RequestWindow < requestClock)
    BY <2>1 DEF Inbound!Cleaned
  <2> HIDE DEF last
  <2>5. last + RequestWindow >= lastCleanup'
    BY <2>2, <2>3, <2>4, KeyTypes, InboundConstants
  <2> QED BY <2>1, <2>5 DEF last
<1>5. /\ Ascending(admitted[k])' /\ PromiseFits(k)'
      /\ \A i \in 1 .. Len(admitted'[k]) : admitted'[k][i] <= requestClock'
      /\ \A i \in 1 .. Len(admitted'[k]) : i > Inbound!LimitOf(k) =>
              admitted'[k][i] > admitted'[k][i - Inbound!LimitOf(k)] + RequestWindow
  BY <1>1 DEF KeyInv, Ascending, PromiseFits
<1> QED BY <1>2, <1>3, <1>4, <1>5 DEF KeyInv

\* What a request finds: the end of the admissions of its key that starts in the window.
LEMMA FreshNow ==
  ASSUME InboundInv, NEW k \in Inbound!Keys
  PROVE  \E e \in 0 .. Len(admitted[k]) :
           LET n == Len(admitted[k])
               dq == Inbound!Fresh(Inbound!Cleaned(requestClock)[k], requestClock)
           IN  /\ dq = SubSeq(admitted[k], e + 1, n)
               /\ dq \in Seq(0 .. MaxRequestTime) /\ Len(dq) = n - e
               /\ \A i \in 1 .. n - e : dq[i] = admitted[k][e + i]
               /\ \A i \in 1 .. e : admitted[k][i] + RequestWindow < requestClock
               /\ \A i \in e + 1 .. n : admitted[k][i] + RequestWindow >= requestClock
<1> DEFINE all == admitted[k]
           n == Len(all)
           dq == Inbound!Fresh(Inbound!Cleaned(requestClock)[k], requestClock)
<1>1. Ascending(all) /\ all \in Seq(Nat) /\ all \in Seq(0 .. MaxRequestTime) /\ requestClock \in Nat
  BY KeyTypes DEF InboundInv, KeyInv
<1>2. EndOf(Inbound!Cleaned(requestClock)[k], all, requestClock)
  BY CleanedEnd
<1>3. PICK e \in 0 .. n : /\ dq = SubSeq(all, e + 1, n)
                          /\ \A i \in 1 .. e : all[i] + RequestWindow < requestClock
                          /\ \A i \in e + 1 .. n : all[i] + RequestWindow >= requestClock
  BY <1>1, <1>2, FreshOfEnd
<1>4. /\ dq \in Seq(0 .. MaxRequestTime) /\ Len(dq) = n - e
      /\ \A i \in 1 .. n - e : dq[i] = all[e + i]
  BY <1>1, <1>3, SuffixProperties
<1> QED BY <1>3, <1>4

\* A request leaves types and the other keys in order.
LEMMA ArriveKeeps ==
  ASSUME InboundInv, NEW k \in Inbound!Keys, NEW dq \in Seq(0 .. MaxRequestTime),
         Inbound!Arrive(k, dq), Len(dq) <= Inbound!LimitOf(k),
         admitted' \in [Inbound!Keys -> Seq(0 .. MaxRequestTime)],
         promise' \in [Inbound!Keys -> Nat],
         \A j \in Inbound!Keys \ {k} : admitted'[j] = admitted[j] /\ promise'[j] = promise[j]
  PROVE  /\ Inbound!TypeOK'
         /\ \A j \in Inbound!Keys \ {k} : KeyInv(j)'
         /\ hits'[k] = dq
         /\ lastCleanup' <= requestClock /\ lastCleanup' \in Nat /\ requestClock' = requestClock
<1> DEFINE cleaned == Inbound!Cleaned(requestClock)
<1>1. /\ hits' = [cleaned EXCEPT ![k] = dq] /\ requestClock' = requestClock
      /\ lastCleanup' = IF Inbound!Due(requestClock) THEN requestClock ELSE lastCleanup
  BY DEF Inbound!Arrive
<1>2. Inbound!TypeOK
  BY DEF InboundInv
<1>3. ASSUME NEW j \in Inbound!Keys
      PROVE  cleaned[j] \in Seq(0 .. MaxRequestTime) /\ Len(cleaned[j]) <= Inbound!LimitOf(j)
  <2>1. hits[j] \in Seq(0 .. MaxRequestTime) /\ Len(hits[j]) <= Inbound!LimitOf(j)
    BY <1>2 DEF Inbound!TypeOK
  <2>2. <<>> \in Seq(0 .. MaxRequestTime) /\ Len(<<>>) = 0
    OBVIOUS
  <2>3. cleaned[j] = hits[j] \/ cleaned[j] = <<>>
    BY CleanedEnd
  <2>4. Inbound!LimitOf(j) \in Nat
    BY InboundConstants
  <2>5. CASE cleaned[j] = <<>>
    BY <2>2, <2>4, <2>5
  <2> QED BY <2>1, <2>3, <2>5
<1>4. DOMAIN cleaned = Inbound!Keys
  BY DEF Inbound!Cleaned
<1> HIDE DEF cleaned
<1>5. hits'[k] = dq /\ DOMAIN hits' = Inbound!Keys /\ \A j \in Inbound!Keys \ {k} : hits'[j] = cleaned[j]
  BY <1>1, <1>4
<1>6. hits' \in [Inbound!Keys -> Seq(0 .. MaxRequestTime)]
  BY <1>1, <1>3, <1>4
<1>7. \A j \in Inbound!Keys : Len(hits'[j]) <= Inbound!LimitOf(j)
  BY <1>3, <1>5
<1>8. lastCleanup' \in 0 .. requestClock /\ requestClock \in Nat
  BY <1>1, <1>2, InboundConstants DEF Inbound!TypeOK
<1>9. Inbound!TypeOK'
  BY <1>1, <1>2, <1>6, <1>7, <1>8 DEF Inbound!TypeOK
<1>10. ASSUME NEW j \in Inbound!Keys \ {k} PROVE KeyInv(j)'
  BY <1>1, <1>5, OtherKeyKeeps DEF cleaned
<1> QED BY <1>1, <1>5, <1>8, <1>9, <1>10

\* A request that is let in was not the limit-th of its window.
LEMMA AdmitKeeps ==
  ASSUME InboundInv, NEW k \in Inbound!Keys, Inbound!Admit(k)
  PROVE  InboundInv'
<1> DEFINE all == admitted[k]
           n == Len(all)
           limit == Inbound!LimitOf(k)
           now == requestClock
           dq == Inbound!Fresh(Inbound!Cleaned(now)[k], now)
           dq2 == Append(dq, now)
           all2 == Append(all, now)
<1>1. /\ Len(dq) < limit /\ Inbound!Arrive(k, dq2)
      /\ admitted' = [admitted EXCEPT ![k] = all2]
      /\ promise' = [promise EXCEPT ![k] = 0]
  BY DEF Inbound!Admit
<1>2. PICK e \in 0 .. n : /\ dq = SubSeq(all, e + 1, n)
                          /\ dq \in Seq(0 .. MaxRequestTime) /\ Len(dq) = n - e
                          /\ \A i \in 1 .. e : all[i] + RequestWindow < now
  BY FreshNow
<1>3. /\ all \in Seq(Nat) /\ all \in Seq(0 .. MaxRequestTime) /\ now \in 0 .. MaxRequestTime
      /\ now \in Nat /\ n \in Nat /\ limit \in Nat /\ RequestWindow \in Nat \ {0} /\ KeyInv(k)
  BY KeyTypes, InboundConstants DEF InboundInv
<1>4. dq2 \in Seq(0 .. MaxRequestTime) /\ Len(dq2) <= limit
  <2>1. dq2 \in Seq(0 .. MaxRequestTime) /\ Len(dq2) = Len(dq) + 1 /\ Len(dq) \in Nat
    BY <1>2, <1>3
  <2> HIDE DEF dq, dq2, limit
  <2> QED BY <1>1, <1>3, <2>1
<1>5. /\ all2 \in Seq(0 .. MaxRequestTime) /\ Len(all2) = n + 1 /\ all2[n + 1] = now
      /\ \A i \in 1 .. n : all2[i] = all[i] /\ all[i] \in Nat
  <2>1. /\ all2 \in Seq(0 .. MaxRequestTime) /\ Len(all2) = n + 1
        /\ all2[n + 1] = now /\ \A i \in 1 .. n : all2[i] = all[i]
    BY <1>3, AppendProperties
  <2>2. \A i \in 1 .. n : all[i] \in Nat
    BY <1>3
  <2> QED BY <2>1, <2>2
<1>6. dq2 = SubSeq(all2, e + 1, n + 1)
  <2>1. all \in Seq(Nat) /\ now \in Nat /\ e \in 0 .. Len(all) /\ dq = SubSeq(all, e + 1, Len(all))
    BY <1>2, <1>3
  <2> HIDE DEF all, now, dq
  <2>2. Append(dq, now) = SubSeq(Append(all, now), e + 1, Len(all) + 1)
    BY <2>1, SuffixOfAppend
  <2> QED BY <2>2
<1>7. dq2[Len(dq2)] = now
  <2>1. dq \in Seq(0 .. MaxRequestTime) /\ now \in 0 .. MaxRequestTime
    BY <1>2, <1>3
  <2> HIDE DEF dq, now
  <2> QED BY <2>1, AppendProperties
<1> HIDE DEF dq, dq2, all2
<1>8. /\ admitted'[k] = all2 /\ promise'[k] = 0
      /\ admitted' \in [Inbound!Keys -> Seq(0 .. MaxRequestTime)]
      /\ promise' \in [Inbound!Keys -> Nat]
      /\ \A j \in Inbound!Keys \ {k} : admitted'[j] = admitted[j] /\ promise'[j] = promise[j]
  BY <1>1, <1>5 DEF InboundInv, Inbound!TypeOK
<1>9. /\ Inbound!TypeOK' /\ \A j \in Inbound!Keys \ {k} : KeyInv(j)'
      /\ hits'[k] = dq2 /\ lastCleanup' <= now /\ lastCleanup' \in Nat /\ requestClock' = now
  BY <1>1, <1>4, <1>8, ArriveKeeps
<1>10. ASSUME NEW i \in 1 .. n PROVE all[i] <= now
  BY <1>3 DEF KeyInv
<1>11. Ascending(all2) /\ \A i \in 1 .. n + 1 : all2[i] <= now
  <2>1. \A i, j \in 1 .. n : i <= j => all[i] <= all[j]
    BY <1>3 DEF KeyInv, Ascending
  <2>2. \A i \in 1 .. n + 1 : i \in 1 .. n \/ i = n + 1
    <3>1. n \in Nat
      BY <1>3
    <3> HIDE DEF n
    <3> QED BY <3>1
  <2>3. ASSUME NEW i \in 1 .. n + 1 PROVE all2[i] <= now
    <3>1. CASE i = n + 1
      <4>1. all2[i] = now /\ now \in Nat
        BY <1>3, <1>5, <3>1
      <4> QED BY <4>1
    <3>2. CASE i \in 1 .. n
      <4>1. all2[i] = all[i] /\ all[i] <= now
        BY <1>5, <1>10, <3>2
      <4> QED BY <4>1
    <3> QED BY <2>2, <3>1, <3>2
  <2>4. ASSUME NEW i \in 1 .. n + 1, NEW j \in 1 .. n + 1, i <= j PROVE all2[i] <= all2[j]
    <3>1. CASE j = n + 1
      BY <3>1, <2>3, <1>5
    <3>2. CASE j \in 1 .. n
      <4>1. i \in 1 .. n
        BY <3>2, <2>4, <1>3
      <4> QED BY <4>1, <3>2, <2>1, <2>4, <1>5
    <3> QED BY <3>1, <3>2, <2>2
  <2> QED BY <2>3, <2>4, <1>5 DEF Ascending
<1>12. ASSUME NEW i \in 1 .. n + 1, i > limit PROVE all2[i] > all2[i - limit] + RequestWindow
  <2>0. e \in Nat /\ n - e < limit /\ e <= n
    BY <1>1, <1>2, <1>3
  <2> HIDE DEF n, limit
  <2>3. i \in Nat /\ 1 <= i - limit /\ i <= n + 1 /\ limit > 0
    BY <2>0, <1>3, <1>12
  <2>1. CASE i \in 1 .. n
    <3>1. i - limit \in 1 .. n
      BY <2>3, <2>1, <1>3
    <3>2. all[i] > all[i - limit] + RequestWindow
      BY <2>1, <1>3, <1>12 DEF KeyInv, n, limit
    <3> QED BY <2>1, <3>1, <3>2, <1>5
  <2>2. CASE i = n + 1
    <3>1. i - limit \in 1 .. e /\ i - limit \in 1 .. n
      BY <2>0, <2>2, <2>3, <1>3
    <3>2. all[i - limit] + RequestWindow < now
      BY <3>1, <1>2
    <3> QED BY <2>2, <3>1, <3>2, <1>3, <1>5
  <2> QED BY <2>1, <2>2, <1>3
<1>13. EndOf(dq2, all2, now)
  <2>1. e \in 0 .. n + 1 /\ \A i \in 1 .. e : i \in 1 .. n
    BY <1>2, <1>3
  <2> QED BY <2>1, <1>2, <1>5, <1>6 DEF EndOf
<1>14. KeyInv(k)'
  <2>1. Remembered(k)' /\ PromiseFits(k)' /\ Ascending(admitted[k])'
    BY <1>8, <1>9, <1>11, <1>13 DEF Remembered, PromiseFits, EndOf, Ascending
  <2>2. dq2[Len(dq2)] + RequestWindow >= lastCleanup'
    BY <1>3, <1>7, <1>9 DEF dq2
  <2> QED BY <2>1, <2>2, <1>4, <1>5, <1>8, <1>9, <1>11, <1>12 DEF KeyInv
<1> QED BY <1>9, <1>14 DEF InboundInv, Inbound!Keys

\* A request that is turned away is told when the oldest hit has left the window.
LEMMA RefuseKeeps ==
  ASSUME InboundInv, NEW k \in Inbound!Keys, Inbound!Refuse(k)
  PROVE  InboundInv'
<1> DEFINE all == admitted[k]
           n == Len(all)
           limit == Inbound!LimitOf(k)
           now == requestClock
           dq == Inbound!Fresh(Inbound!Cleaned(now)[k], now)
           until == now + Second * Inbound!RetryAfter(dq, now)
<1>1. /\ Len(dq) >= limit /\ dq # <<>> /\ Inbound!Arrive(k, dq)
      /\ promise' = [promise EXCEPT ![k] = until] /\ admitted' = admitted
  BY DEF Inbound!Refuse
<1>2. PICK e \in 0 .. n : /\ dq = SubSeq(all, e + 1, n)
                          /\ dq \in Seq(0 .. MaxRequestTime) /\ Len(dq) = n - e
                          /\ \A i \in 1 .. n - e : dq[i] = all[e + i]
                          /\ \A i \in 1 .. e : all[i] + RequestWindow < now
                          /\ \A i \in e + 1 .. n : all[i] + RequestWindow >= now
  BY FreshNow
<1>3. /\ all \in Seq(Nat) /\ now \in Nat /\ n \in Nat /\ limit \in Nat
      /\ RequestWindow \in Nat \ {0} /\ Second \in Nat \ {0} /\ KeyInv(k)
  BY KeyTypes, InboundConstants DEF InboundInv
<1>4. n - e = limit /\ e \in Nat /\ limit \in 1 .. n
  <2>1. e \in Nat /\ e <= n /\ n - e >= limit /\ n - e > 0
    <3>1. /\ dq \in Seq(0 .. MaxRequestTime) /\ dq # <<>> /\ Len(dq) = n - e /\ Len(dq) >= limit
          /\ n \in Nat /\ e \in 0 .. n
      BY <1>1, <1>2, <1>3
    <3> HIDE DEF dq, n, limit
    <3>2. Len(dq) \in Nat /\ Len(dq) # 0
      BY <3>1, EmptySeq
    <3> QED BY <3>1, <3>2
  <2> SUFFICES ASSUME n - e > limit PROVE FALSE
    BY <1>3, <2>1
  <2> DEFINE m == n - limit
  <2> HIDE DEF n, limit, dq
  <2>2. n \in 1 .. n /\ n > limit /\ m \in e + 1 .. n /\ m \in 1 .. n
    BY <1>3, <2>1
  <2>3. all[n] > all[m] + RequestWindow /\ all[n] <= now
    BY <1>3, <2>2 DEF KeyInv, n, limit
  <2> HIDE DEF m
  <2>4. all[m] + RequestWindow >= now
    BY <1>2, <2>2
  <2>5. all[n] \in Nat /\ all[m] \in Nat
    <3>1. n \in 1 .. Len(all) /\ m \in 1 .. Len(all) /\ all \in Seq(Nat)
      BY <1>3, <2>2 DEF n
    <3> HIDE DEF n, all
    <3> QED BY <3>1, ElementOfSeq
  <2> HIDE DEF n, all, now
  <2> QED BY <1>3, <2>3, <2>4, <2>5
<1> DEFINE first == all[n - limit + 1]
<1>5. dq[1] = first /\ first \in Nat /\ first <= now /\ first + RequestWindow >= now
  <2>1. 1 \in 1 .. n - e /\ e + 1 = n - limit + 1 /\ e + 1 \in e + 1 .. n /\ e + 1 \in 1 .. n
    <3> HIDE DEF n, limit
    <3> QED BY <1>3, <1>4
  <2>2. dq[1] = all[e + 1] /\ all[e + 1] + RequestWindow >= now
    BY <1>2, <2>1
  <2>3. all[e + 1] <= now
    BY <1>3, <2>1 DEF KeyInv
  <2>4. all[e + 1] \in Nat
    BY <1>3, <2>1, ElementOfSeq
  <2> QED BY <2>1, <2>2, <2>3, <2>4
<1> HIDE DEF first
<1>6. until \in Nat /\ first + RequestWindow < until /\ until <= first + RequestWindow + Second
  <2> DEFINE rest == RequestWindow - (now - first)
             q == rest \div Second
  <2>1. rest \in Nat /\ now + rest = first + RequestWindow
    BY <1>3, <1>5
  <2>2. Inbound!RetryAfter(dq, now) = q + 1
    BY <1>5 DEF Inbound!RetryAfter
  <2> HIDE DEF rest
  <2>3. q \in Nat /\ Second * q <= rest /\ rest < Second * q + Second
    BY <1>3, <2>1, DivBounds
  <2> HIDE DEF q
  <2>4. Second * (q + 1) = Second * q + Second /\ Second * q \in Nat
    BY <1>3, <2>3
  <2>5. until = now + (Second * q + Second)
    BY <2>2, <2>4
  <2> HIDE DEF until
  <2> DEFINE x == Second * q
  <2>6. x \in Nat /\ x <= rest /\ rest < x + Second /\ until = now + (x + Second)
    BY <2>3, <2>4, <2>5
  <2> HIDE DEF x
  <2> QED BY <1>3, <1>5, <2>1, <2>6
<1> HIDE DEF dq, until
<1>7. /\ promise'[k] = until /\ promise' \in [Inbound!Keys -> Nat]
      /\ admitted' \in [Inbound!Keys -> Seq(0 .. MaxRequestTime)]
      /\ \A j \in Inbound!Keys \ {k} : admitted'[j] = admitted[j] /\ promise'[j] = promise[j]
  BY <1>1, <1>6 DEF InboundInv, Inbound!TypeOK
<1>8. /\ Inbound!TypeOK' /\ \A j \in Inbound!Keys \ {k} : KeyInv(j)'
      /\ hits'[k] = dq /\ lastCleanup' <= now /\ lastCleanup' \in Nat /\ requestClock' = now
  <2>1. Len(dq) <= limit
    BY <1>2, <1>3, <1>4
  <2> QED BY <1>1, <1>2, <1>7, <2>1, ArriveKeeps
<1>9. KeyInv(k)'
  <2>1. Remembered(k)'
    BY <1>1, <1>2, <1>8 DEF Remembered, EndOf
  <2>2. PromiseFits(k)'
    BY <1>1, <1>4, <1>6, <1>7 DEF PromiseFits, first
  <2>3. dq[Len(dq)] + RequestWindow >= lastCleanup'
    <3>1. n - e \in 1 .. n - e /\ e + (n - e) = n /\ n \in e + 1 .. n /\ n \in 1 .. n
      BY <1>3, <1>4
    <3>2. dq[n - e] = all[n] /\ Len(dq) = n - e
      BY <1>2, <3>1
    <3>3. all[n] + RequestWindow >= now
      <4> HIDE DEF n
      <4> QED BY <1>2, <3>1
    <3>4. all[n] \in Nat
      BY <1>3, <3>1, ElementOfSeq
    <3>5. all[n] + RequestWindow >= lastCleanup'
      <4> HIDE DEF all, n, now
      <4> QED BY <1>3, <1>8, <3>3, <3>4
    <3> QED BY <3>2, <3>5
  <2>4. Len(dq) <= limit
    BY <1>2, <1>3, <1>4
  <2> QED BY <1>1, <1>3, <1>8, <2>1, <2>2, <2>3, <2>4 DEF KeyInv, Ascending
<1> QED BY <1>8, <1>9 DEF InboundInv, Inbound!Keys

\* A limit of 0 admits nothing, so that nothing has to be remembered.
LEMMA FailKeeps ==
  ASSUME InboundInv, NEW k \in Inbound!Keys, Inbound!Fail(k)
  PROVE  InboundInv'
<1> DEFINE all == admitted[k]
           now == requestClock
<1>1. /\ Inbound!Arrive(k, <<>>) /\ UNCHANGED <<admitted, promise>>
      /\ Inbound!Fresh(Inbound!Cleaned(now)[k], now) = <<>>
  BY DEF Inbound!Fail
<1>2. /\ Inbound!TypeOK' /\ \A j \in Inbound!Keys \ {k} : KeyInv(j)'
      /\ hits'[k] = <<>> /\ requestClock' = now
  <2>1. <<>> \in Seq(0 .. MaxRequestTime) /\ Len(<<>>) <= Inbound!LimitOf(k)
    BY InboundConstants
  <2> QED BY <1>1, <2>1, ArriveKeeps DEF InboundInv, Inbound!TypeOK
<1>3. EndOf(<<>>, all, now)
  <2>1. PICK e \in 0 .. Len(all) : /\ <<>> = SubSeq(all, e + 1, Len(all))
                                   /\ \A i \in 1 .. e : all[i] + RequestWindow < now
    BY <1>1, FreshNow
  <2> QED BY <2>1 DEF EndOf
<1>4. KeyInv(k)'
  <2>1. Len(<<>>) <= Inbound!LimitOf(k) /\ KeyInv(k)
    BY InboundConstants DEF InboundInv
  <2> QED BY <1>1, <1>2, <1>3, <2>1 DEF KeyInv, Remembered, PromiseFits, Ascending, EndOf
<1> QED BY <1>2, <1>4 DEF InboundInv, Inbound!Keys

\* What is out of the window stays out of it.
LEMMA InboundTickKeeps ==
  ASSUME InboundInv, Inbound!Tick
  PROVE  InboundInv'
<1>1. /\ requestClock < MaxRequestTime /\ requestClock' = requestClock + 1
      /\ UNCHANGED <<hits, lastCleanup, admitted, promise>>
  BY DEF Inbound!Tick
<1>2. Inbound!TypeOK'
  BY <1>1, InboundConstants DEF InboundInv, Inbound!TypeOK
<1>3. ASSUME NEW k \in Inbound!Keys PROVE KeyInv(k)'
  <2>1. /\ KeyInv(k) /\ admitted[k] \in Seq(Nat) /\ requestClock \in Nat
        /\ \A i \in 1 .. Len(admitted[k]) : admitted[k][i] \in Nat
    BY KeyTypes DEF InboundInv
  <2>2. \A i \in 1 .. Len(admitted'[k]) : admitted'[k][i] <= requestClock'
    BY <1>1, <2>1 DEF KeyInv
  <2>3. Remembered(k)'
    <3>1. PICK d \in 0 .. Len(admitted[k]) :
             /\ hits[k] = SubSeq(admitted[k], d + 1, Len(admitted[k]))
             /\ \A i \in 1 .. d : admitted[k][i] + RequestWindow < requestClock
      BY <2>1 DEF KeyInv, Remembered, EndOf
    <3>2. \A i \in 1 .. d : admitted[k][i] + RequestWindow < requestClock'
      <4>1. \A i \in 1 .. d : i \in 1 .. Len(admitted[k])
        BY <2>1, <3>1
      <4> TAKE i \in 1 .. d
      <4>2. admitted[k][i] \in Nat /\ admitted[k][i] + RequestWindow < requestClock
        BY <2>1, <3>1, <4>1
      <4>3. RequestWindow \in Nat /\ requestClock \in Nat /\ requestClock' = requestClock + 1
        BY <1>1, <2>1, InboundConstants
      <4> QED BY <4>2, <4>3
    <3> QED BY <1>1, <3>1, <3>2 DEF Remembered, EndOf
  <2> QED BY <1>1, <2>1, <2>2, <2>3 DEF KeyInv, PromiseFits, Ascending
<1> QED BY <1>2, <1>3 DEF InboundInv, Inbound!Keys

\* Retry-After is exact: the deque is full as long as the admission that has to leave the
\* window is in it, and not any more one second after that.
LEMMA PromiseIsExact ==
  ASSUME InboundInv, NEW k \in Inbound!Keys, promise[k] # 0
  PROVE  /\ requestClock >= promise[k]
              => Len(Inbound!Fresh(hits[k], requestClock)) < Inbound!LimitOf(k)
         /\ requestClock + Second <= promise[k]
              => Len(Inbound!Fresh(hits[k], requestClock)) >= Inbound!LimitOf(k)
<1> DEFINE all == admitted[k]
           n == Len(all)
           limit == Inbound!LimitOf(k)
           now == requestClock
           m == n - limit + 1
           dq == Inbound!Fresh(hits[k], now)
<1>1. /\ KeyInv(k) /\ all \in Seq(Nat) /\ now \in Nat /\ n \in Nat /\ limit \in Nat
      /\ promise[k] \in Nat /\ RequestWindow \in Nat \ {0} /\ Second \in Nat \ {0}
  BY KeyTypes, InboundConstants DEF InboundInv
<1>2. /\ limit \in 1 .. n
      /\ all[m] + RequestWindow < promise[k] /\ promise[k] <= all[m] + RequestWindow + Second
  BY <1>1 DEF KeyInv, PromiseFits
<1>9. m \in 1 .. n /\ all[m] \in Nat
  <2>1. m \in 1 .. n
    <3> HIDE DEF n, limit
    <3> QED BY <1>1, <1>2
  <2> HIDE DEF m
  <2> QED BY <1>1, <2>1
<1>3. PICK e \in 0 .. n : /\ dq = SubSeq(all, e + 1, n)
                          /\ \A i \in 1 .. e : all[i] + RequestWindow < now
                          /\ \A i \in e + 1 .. n : all[i] + RequestWindow >= now
  BY <1>1, FreshOfEnd DEF KeyInv, Remembered
<1>4. Len(dq) = n - e /\ e \in Nat
  BY <1>1, <1>3, SuffixProperties
<1> HIDE DEF dq, n, limit
<1>5. m \in e + 1 .. n <=> n - e >= limit
  <2>1. n \in Nat /\ e \in Nat /\ limit \in Nat /\ 1 <= limit /\ limit <= n
    BY <1>1, <1>2, <1>4
  <2> QED BY <2>1
<1>6. m \in 1 .. e <=> n - e < limit
  BY <1>1, <1>2, <1>4
<1> HIDE DEF m, now, all
<1>10. /\ now \in Nat /\ promise[k] \in Nat /\ RequestWindow \in Nat /\ Second \in Nat /\ all[m] \in Nat
       /\ all[m] + RequestWindow < promise[k] /\ promise[k] <= all[m] + RequestWindow + Second
  BY <1>1, <1>2, <1>9
<1>7. ASSUME now >= promise[k] PROVE n - e < limit
  <2>1. all[m] + RequestWindow < now
    BY <1>7, <1>10
  <2>2. ~(m \in e + 1 .. n)
    <3> SUFFICES ASSUME m \in e + 1 .. n PROVE FALSE
      OBVIOUS
    <3>1. all[m] + RequestWindow >= now
      BY <1>3
    <3> QED BY <1>10, <2>1, <3>1
  <2> QED BY <1>1, <1>4, <1>5, <2>2
<1>8. ASSUME now + Second <= promise[k] PROVE n - e >= limit
  <2>1. all[m] + RequestWindow >= now
    BY <1>8, <1>10
  <2>2. ~(m \in 1 .. e)
    <3> SUFFICES ASSUME m \in 1 .. e PROVE FALSE
      OBVIOUS
    <3>1. all[m] + RequestWindow < now
      BY <1>3
    <3> QED BY <1>10, <2>1, <3>1
  <2> QED BY <1>1, <1>4, <1>6, <2>2
<1> QED BY <1>4, <1>7, <1>8 DEF dq, limit, now

\* However many clients there are, whatever the limits, windows and clean-ups: no window
\* holds more admissions than the limit, Retry-After is the first whole second at which a
\* client that waited is admitted, and who was silent for a window is forgotten.
THEOREM LimitsAreExact == Inbound!Spec => []LimitIsExact
<1>1. Inbound!Init => InboundInv
  <2> SUFFICES ASSUME Inbound!Init PROVE InboundInv
    OBVIOUS
  <2>1. Inbound!TypeOK
    BY InboundConstants DEF Inbound!Init, Inbound!TypeOK
  <2>2. ASSUME NEW k \in Inbound!Keys PROVE KeyInv(k)
    <3>1. hits[k] = <<>> /\ admitted[k] = <<>> /\ promise[k] = 0
      BY DEF Inbound!Init
    <3>2. Len(<<>>) = 0 /\ <<>> = SubSeq(<<>>, 1, 0) /\ Inbound!LimitOf(k) \in Nat
      BY InboundConstants
    <3>3. Remembered(k)
      BY <3>1, <3>2 DEF Remembered, EndOf
    <3> QED BY <3>1, <3>2, <3>3 DEF KeyInv, Ascending, PromiseFits
  <2> QED BY <2>1, <2>2 DEF InboundInv
<1>2. InboundInv /\ [Inbound!Next]_(Inbound!vars) => InboundInv'
  <2> SUFFICES ASSUME InboundInv, [Inbound!Next]_(Inbound!vars) PROVE InboundInv'
    OBVIOUS
  <2>1. CASE UNCHANGED Inbound!vars
    BY <2>1 DEF Inbound!vars, InboundInv, Inbound!TypeOK, Inbound!Keys, Inbound!LimitOf, KeyInv,
                Ascending, Remembered, EndOf, PromiseFits
  <2> QED BY <2>1, AdmitKeeps, RefuseKeeps, FailKeeps, InboundTickKeeps DEF Inbound!Next
<1>3. InboundInv => LimitIsExact
  <2> SUFFICES ASSUME InboundInv PROVE LimitIsExact
    OBVIOUS
  <2>1. Inbound!RetryAfterIsExact
    BY PromiseIsExact DEF Inbound!RetryAfterIsExact
  <2>2. Inbound!WindowHolds
    <3> SUFFICES ASSUME NEW k \in Inbound!Keys, NEW i \in DOMAIN admitted[k], i > Inbound!LimitOf(k)
                 PROVE  admitted[k][i] > admitted[k][i - Inbound!LimitOf(k)] + RequestWindow
      BY DEF Inbound!WindowHolds
    <3>1. admitted[k] \in Seq(Nat) /\ KeyInv(k)
      BY KeyTypes DEF InboundInv
    <3> QED BY <3>1 DEF KeyInv
  <2>3. Inbound!SilentAreForgotten
    BY DEF InboundInv, KeyInv, Inbound!SilentAreForgotten
  <2> QED BY <2>1, <2>2, <2>3 DEF InboundInv, LimitIsExact, Inbound!LimitIsExact
<1> QED BY <1>1, <1>2, <1>3, PTL DEF Inbound!Spec

-----------------------------------------------------------------------------
(***************************************************************************)
(* Outwards: the calls themselves.  The slots booked for a key are a       *)
(* ledger; as long as nobody has backed off, a client that sleeps waits    *)
(* for its slot and for nothing else, so that the i-th call of a key is    *)
(* made no earlier than its i-th slot, and later by what one sleep         *)
(* overshoots at most.  Two that are awake may overtake each other: the    *)
(* one that calls takes the first slot that is left, and whoever booked    *)
(* it the other's, which is over as well.  Hence the calls are compared    *)
(* by time and not by client.                                              *)
(***************************************************************************)
Sleepers(k) == {w \in Workers : pc[w] = "sleeping" /\ rot[w].index = k}

\* Sleeper w holds the slot seat[w], the one it waits for or one that is over, each one
\* another, and no slot is left over.
Seated(seat, k, all) ==
    LET waiting == Len(calls[k]) + 1 .. Len(all)
    IN  /\ \A w \in Sleepers(k) :
             /\ seat[w] \in waiting
             /\ due[w] <= all[seat[w]]
             /\ all[seat[w]] <= due[w] \/ all[seat[w]] <= clock
        /\ \A v, w \in Sleepers(k) : seat[v] = seat[w] => v = w
        /\ \A i \in waiting : \E w \in Sleepers(k) : seat[w] = i

CallsAreSlots(k, all) ==
    /\ Len(calls[k]) <= Len(all)
    /\ \A i \in 1 .. Len(calls[k]) : all[i] <= calls[k][i] /\ calls[k][i] <= all[i] + MaxLate
    /\ \E seat : Seated(seat, k, all)

SlotsInv(k) ==
    \E all \in Seq(Nat) : /\ IsLedger(all, slots[k], clock)
                          /\ errors = 0 => CallsAreSlots(k, all)

ClientInv ==
    /\ TypeOK
    /\ \A w \in Workers : pc[w] = "sleeping" => due[w] + MaxLate >= clock
    /\ errors = 0 => \A w \in Workers : delay[w] = 0
    /\ \A k \in Keys : SlotsInv(k)

-----------------------------------------------------------------------------
Cooling(r, now) == {k \in Keys : r.cooldown[k] > now}

\* rotate() ends on a rested key; it forgets all cooldowns or none.
LEMMA RotateEffect ==
  ASSUME NEW r \in Rotator, NEW now \in Nat
  PROVE  /\ Rotate(r, now) \in Rotator
         /\ Rotate(r, now).index \notin Cooling(Rotate(r, now), now)
         /\ IF Cooling(r, now) = Keys
              THEN Cooling(Rotate(r, now), now) = {}
              ELSE Rotate(r, now).cooldown = r.cooldown
<1> DEFINE active == ActiveKeys(r, now)
           later == {k \in active : k > r.index}
           index == IF r.index \in active /\ later # {} THEN Min(later) ELSE Min(active)
           cooldown == Refresh(r, now).cooldown
<1>1. Keys # {} /\ Keys \subseteq Nat
  BY NumKeysAssumption DEF Keys
<1>2. r.index \in Keys /\ r.cooldown \in [Keys -> Nat]
  BY DEF Rotator
<1>3. active \subseteq Keys /\ active # {}
  BY <1>1 DEF ActiveKeys, Exhausted, Rested
<1>4. index \in active
  <2>1. active \subseteq Nat /\ later \subseteq Nat /\ later \subseteq active
    BY <1>1, <1>3
  <2>2. Min(active) \in active
    BY <1>3, <2>1, MinIsLeast
  <2>3. later # {} => Min(later) \in later
    BY <2>1, MinIsLeast
  <2> QED BY <2>1, <2>2, <2>3
<1>5. Exhausted(r, now) <=> Cooling(r, now) = Keys
  BY <1>2 DEF Exhausted, Rested, Cooling
<1>6. /\ Refresh(r, now) \in Rotator
      /\ Exhausted(r, now) => cooldown = [k \in Keys |-> 0]
      /\ ~Exhausted(r, now) => cooldown = r.cooldown
  BY DEF Refresh, Rotator
<1>7. \A k \in active : cooldown[k] <= now
  <2>1. CASE Exhausted(r, now)
    BY <1>3, <1>6, <2>1
  <2>2. CASE ~Exhausted(r, now)
    BY <1>6, <2>2 DEF ActiveKeys, Rested
  <2> QED BY <2>1, <2>2
<1>8. /\ Rotate(r, now) \in Rotator
      /\ Rotate(r, now).index = index /\ Rotate(r, now).cooldown = cooldown
  <2>1. Rotate(r, now) = [Refresh(r, now) EXCEPT !.index = index]
    BY DEF Rotate
  <2> HIDE DEF index
  <2> QED BY <1>3, <1>4, <1>6, <2>1 DEF Rotator
<1> HIDE DEF index, cooldown
<1>9. Rotate(r, now).index \notin Cooling(Rotate(r, now), now)
  <2>1. cooldown[index] <= now /\ cooldown[index] \in Nat
    BY <1>3, <1>4, <1>6, <1>7 DEF Rotator, cooldown
  <2> QED BY <1>8, <2>1 DEF Cooling
<1>10. Exhausted(r, now) => Cooling(Rotate(r, now), now) = {}
  BY <1>6, <1>8 DEF Cooling
<1> QED BY <1>5, <1>6, <1>8, <1>9, <1>10

\* mark_failed() takes the key off the rested ones.
LEMMA MarkEffect ==
  ASSUME NEW r \in Rotator, NEW now \in Nat, NEW until \in Nat, until > now
  PROVE  /\ MarkFailed(r, r.index, until) \in Rotator
         /\ Cooling(MarkFailed(r, r.index, until), now) = Cooling(r, now) \cup {r.index}
<1>1. r.index \in Keys /\ r.cooldown \in [Keys -> Nat]
  BY DEF Rotator
<1>2. /\ MarkFailed(r, r.index, until) \in Rotator
      /\ MarkFailed(r, r.index, until).cooldown = [r.cooldown EXCEPT ![r.index] = until]
  BY <1>1 DEF MarkFailed, Rotator
<1> QED BY <1>1, <1>2 DEF Cooling

\* What the assumptions say of the constants.
LEMMA ClientConstants ==
  /\ NumKeys \in Nat \ {0} /\ MaxAttempts \in Nat /\ MaxAttempts = 2 * NumKeys
  /\ BackoffStep \in Nat /\ MaxDelay \in Nat /\ MaxRequests \in Nat /\ MaxErrors \in Nat
  /\ RateCooldown \in Nat \ {0} /\ FailCooldown \in Nat \ {0} /\ MaxLate \in Nat
BY NumKeysAssumption, ClientAssumption DEF MaxAttempts

\* What is known of a client and of a key.
LEMMA ClientTypes ==
  ASSUME TypeOK, NEW w \in Workers
  PROVE  /\ clock \in Nat /\ rot[w] \in Rotator /\ rot[w].index \in Keys /\ delay[w] \in 0 .. MaxDelay
         /\ delay[w] \in Nat /\ attempt[w] \in 0 .. MaxAttempts /\ tried[w] \subseteq Keys
         /\ due[w] \in Nat /\ errors \in 0 .. MaxErrors /\ requests \in 0 .. MaxRequests
<1>1. /\ clock \in Nat /\ rot[w] \in Rotator /\ delay[w] \in 0 .. MaxDelay
      /\ attempt[w] \in 0 .. MaxAttempts /\ tried[w] \subseteq Keys
      /\ due[w] \in Nat /\ errors \in 0 .. MaxErrors /\ requests \in 0 .. MaxRequests
  BY DEF TypeOK
<1>2. rot[w].index \in Keys
  BY <1>1 DEF Rotator
<1> QED BY <1>1, <1>2, ClientConstants

\* Booking a slot and going to sleep.
LEMMA ApplyEffect ==
  ASSUME ClientInv, NEW w \in Workers, NEW key \in Keys, NEW d \in Nat, Apply(w, key, d)
  PROVE  \E start \in Nat :
           /\ start >= clock /\ due' = [due EXCEPT ![w] = start + d]
           /\ pc' = [pc EXCEPT ![w] = "sleeping"]
           /\ slots' \in [Keys -> Seq(Nat)]
           /\ \A k \in Keys \ {key} : slots'[k] = slots[k]
           /\ \A all \in Seq(Nat) : IsLedger(all, slots[key], clock) =>
                /\ start = StartFor(Live(slots[key], clock), clock)
                /\ Append(all, start) \in Seq(Nat)
                /\ IsLedger(Append(all, start), slots'[key], clock)
<1> DEFINE start == StartFor(Live(slots[key], clock), clock)
           booked == Booked(slots[key], clock)
<1>1. TypeOK /\ clock \in Nat /\ slots \in [Keys -> Seq(Nat)] /\ SlotsInv(key)
  BY DEF ClientInv, TypeOK
<1>2. /\ slots' = [slots EXCEPT ![key] = booked]
      /\ due' = [due EXCEPT ![w] = start + d]
      /\ pc' = [pc EXCEPT ![w] = "sleeping"]
  BY <1>1 DEF Apply
<1>3. ASSUME NEW all \in Seq(Nat), IsLedger(all, slots[key], clock)
      PROVE  /\ start \in Nat /\ start >= clock /\ booked \in Seq(Nat)
             /\ Append(all, start) \in Seq(Nat) /\ IsLedger(Append(all, start), booked, clock)
  BY <1>1, <1>3, BookingKeepsLedger
<1> HIDE DEF start, booked
<1>4. start \in Nat /\ start >= clock /\ booked \in Seq(Nat)
  BY <1>1, <1>3 DEF SlotsInv
<1>5. slots'[key] = booked /\ slots' \in [Keys -> Seq(Nat)] /\ \A k \in Keys \ {key} : slots'[k] = slots[k]
  BY <1>1, <1>2, <1>4
<1>6. \A all \in Seq(Nat) : IsLedger(all, slots[key], clock) =>
                /\ start = StartFor(Live(slots[key], clock), clock)
                /\ Append(all, start) \in Seq(Nat)
                /\ IsLedger(Append(all, start), slots'[key], clock)
  BY <1>3, <1>5 DEF start
<1> QED BY <1>2, <1>4, <1>5, <1>6

\* A key whose calls, slots and sleepers are as before is in order as before.
LEMMA KeyUntouched ==
  ASSUME NEW k \in Keys, SlotsInv(k), clock' = clock, slots'[k] = slots[k], calls'[k] = calls[k],
         errors' = errors, Sleepers(k)' = Sleepers(k), \A w \in Sleepers(k) : due'[w] = due[w]
  PROVE  SlotsInv(k)'
<1>1. PICK all \in Seq(Nat) : /\ IsLedger(all, slots[k], clock)
                              /\ errors = 0 => CallsAreSlots(k, all)
  BY DEF SlotsInv
<1>2. IsLedger(all, slots'[k], clock')
  BY <1>1
<1>3. CASE errors = 0
  <2>1. PICK seat : Seated(seat, k, all)
    BY <1>1, <1>3 DEF CallsAreSlots
  <2>2. Seated(seat, k, all)'
    BY <2>1 DEF Seated
  <2> QED BY <1>1, <1>2, <1>3, <2>2 DEF SlotsInv, CallsAreSlots
<1>4. CASE errors # 0
  BY <1>1, <1>2, <1>4 DEF SlotsInv
<1> QED BY <1>3, <1>4

\* A request takes a slot, the last one of the ledger, and a seat for it.
LEMMA BeginKeeps ==
  ASSUME ClientInv, NEW w \in Workers, Begin(w)
  PROVE  ClientInv'
<1>1. /\ TypeOK /\ clock \in Nat /\ rot[w] \in Rotator /\ delay[w] \in Nat
      /\ pc[w] = "idle" /\ requests < MaxRequests /\ requests' = requests + 1
      /\ UNCHANGED <<clock, calls, delay, errors>>
  BY ClientTypes DEF ClientInv, Begin
<1>2. PICK r \in Rotator : r = Rotate(rot[w], clock)
  BY <1>1, RotateEffect
<1>3. PICK key \in Keys : key = r.index
  BY <1>2 DEF Rotator
<1>4. rot' = [rot EXCEPT ![w] = r] /\ rot' \in [Workers -> Rotator] /\ rot'[w].index = key
  BY <1>1, <1>2, <1>3 DEF Begin, TypeOK
<1>5. Apply(w, key, delay[w])
  BY <1>4 DEF Begin
<1>6. PICK start \in Nat :
           /\ start >= clock /\ due' = [due EXCEPT ![w] = start + delay[w]]
           /\ pc' = [pc EXCEPT ![w] = "sleeping"]
           /\ slots' \in [Keys -> Seq(Nat)]
           /\ \A k \in Keys \ {key} : slots'[k] = slots[k]
           /\ \A all \in Seq(Nat) : IsLedger(all, slots[key], clock) =>
                /\ start = StartFor(Live(slots[key], clock), clock)
                /\ Append(all, start) \in Seq(Nat)
                /\ IsLedger(Append(all, start), slots'[key], clock)
  BY <1>1, <1>5, ApplyEffect
<1>7. TypeOK'
  <2>1. due' \in [Workers -> Nat] /\ pc' \in [Workers -> {"idle", "sleeping", "calling"}]
    <3>1. start + delay[w] \in Nat
      BY <1>1
    <3> QED BY <1>1, <1>6, <3>1 DEF TypeOK
  <2>2. requests' \in 0 .. MaxRequests
    <3>1. requests \in 0 .. MaxRequests /\ MaxRequests \in Nat
      BY <1>1, ClientConstants DEF TypeOK
    <3> QED BY <1>1, <3>1
  <2>3. attempt' \in [Workers -> 0 .. MaxAttempts]
    <3>1. 1 \in 0 .. MaxAttempts
      BY ClientConstants
    <3> QED BY <1>1, <3>1 DEF Begin, TypeOK
  <2>4. /\ tried' \in [Workers -> SUBSET Keys]
        /\ ended' \in [Workers -> {"none", "ok", "gave up", "raised"}]
        /\ rested' \in [Workers -> BOOLEAN]
    BY <1>1 DEF Begin, TypeOK
  <2> QED BY <1>1, <1>4, <1>6, <2>1, <2>2, <2>3, <2>4 DEF TypeOK
<1>8. \A v \in Workers : pc'[v] = "sleeping" => due'[v] + MaxLate >= clock'
  <2> SUFFICES ASSUME NEW v \in Workers, pc'[v] = "sleeping" PROVE due'[v] + MaxLate >= clock
    BY <1>1
  <2>1. CASE v = w
    <3>1. due'[v] = start + delay[w]
      BY <1>1, <1>6, <2>1 DEF TypeOK
    <3> QED BY <1>1, <1>6, <3>1, ClientConstants
  <2>2. CASE v # w
    BY <1>1, <1>6, <2>2 DEF ClientInv, TypeOK
  <2> QED BY <2>1, <2>2
<1>9. errors' = 0 => \A v \in Workers : delay'[v] = 0
  BY <1>1 DEF ClientInv
<1>10. /\ pc'[w] = "sleeping" /\ due'[w] = start + delay[w]
       /\ \A v \in Workers \ {w} : pc'[v] = pc[v] /\ due'[v] = due[v] /\ rot'[v] = rot[v]
  BY <1>1, <1>4, <1>6 DEF TypeOK
<1>11. ASSUME NEW k \in Keys \ {key} PROVE SlotsInv(k)'
  <2>1. Sleepers(k)' = Sleepers(k) /\ \A v \in Sleepers(k) : due'[v] = due[v]
    BY <1>1, <1>4, <1>10 DEF Sleepers
  <2> QED BY <1>1, <1>6, <2>1, KeyUntouched DEF ClientInv
<1>12. SlotsInv(key)'
  <2>1. PICK all \in Seq(Nat) : /\ IsLedger(all, slots[key], clock)
                                /\ errors = 0 => CallsAreSlots(key, all)
    BY DEF ClientInv, SlotsInv
  <2> DEFINE n == Len(all)
             m == Len(calls[key])
  <2>0. PICK all2 \in Seq(Nat) : all2 = Append(all, start)
    BY <1>6, <2>1
  <2>2. IsLedger(all2, slots'[key], clock')
    BY <1>1, <1>6, <2>0, <2>1
  <2>3. CASE errors # 0
    BY <1>1, <2>2, <2>3 DEF SlotsInv
  <2>4. CASE errors = 0
    <3>1. PICK seat : Seated(seat, key, all)
      BY <2>1, <2>4 DEF CallsAreSlots
    <3>0. PICK seat2 : seat2 = [v \in Sleepers(key) \cup {w} |-> IF v = w THEN n + 1 ELSE seat[v]]
      OBVIOUS
    <3>2. Sleepers(key)' = Sleepers(key) \cup {w} /\ w \notin Sleepers(key)
      BY <1>1, <1>4, <1>10 DEF Sleepers
    <3>3. /\ n \in Nat /\ m \in Nat /\ m <= n /\ Len(all2) = n + 1 /\ all2[n + 1] = start
          /\ \A i \in 1 .. n : all2[i] = all[i]
      <4>1. calls[key] \in Seq(Nat) /\ m <= n
        BY <1>1, <2>1, <2>4 DEF CallsAreSlots, TypeOK
      <4> QED BY <2>0, <4>1
    <3>4. due'[w] = start /\ \A v \in Sleepers(key) : due'[v] = due[v]
      BY <1>1, <1>10, <2>4, <3>2 DEF ClientInv, Sleepers
    <3>5. Len(calls'[key]) = m
      BY <1>1
    <3>6. \A v \in Sleepers(key) \cup {w} : seat2[v] = IF v = w THEN n + 1 ELSE seat[v]
      BY <3>0
    <3> HIDE DEF n, m
    <3>7. \A v \in Sleepers(key) : /\ seat[v] \in m + 1 .. n /\ due[v] <= all[seat[v]]
                                   /\ all[seat[v]] <= due[v] \/ all[seat[v]] <= clock
      BY <3>1 DEF Seated, n, m
    <3>8. ASSUME NEW v \in Sleepers(key)'
          PROVE  /\ seat2[v] \in m + 1 .. n + 1 /\ due'[v] <= all2[seat2[v]]
                 /\ all2[seat2[v]] <= due'[v] \/ all2[seat2[v]] <= clock'
      <4>1. CASE v = w
        <5>1. seat2[v] = n + 1 /\ due'[v] = start /\ all2[seat2[v]] = start
          BY <3>2, <3>3, <3>4, <3>6, <4>1
        <5>2. n + 1 \in m + 1 .. n + 1
          BY <3>3
        <5> QED BY <1>6, <5>1, <5>2
      <4>2. CASE v # w
        <5>1. /\ seat2[v] = seat[v] /\ seat[v] \in m + 1 .. n
              /\ due'[v] = due[v] /\ due[v] <= all[seat[v]]
              /\ all[seat[v]] <= due[v] \/ all[seat[v]] <= clock
          <6>1. v \in Sleepers(key)
            BY <3>2, <4>2
          <6>2. seat2[v] = seat[v]
            BY <3>6, <4>2, <6>1
          <6> QED BY <3>4, <3>7, <6>1, <6>2
        <5>2. seat[v] \in 1 .. n /\ seat[v] \in m + 1 .. n + 1
          <6>1. n \in Nat /\ m \in Nat /\ seat[v] \in m + 1 .. n
            BY <3>3, <5>1
          <6> QED BY <6>1
        <5> QED BY <1>1, <3>3, <5>1, <5>2
      <4> QED BY <4>1, <4>2
    <3>9. ASSUME NEW u \in Sleepers(key)', NEW v \in Sleepers(key)', seat2[u] = seat2[v]
          PROVE  u = v
      <4>1. \A x, y \in Sleepers(key) : seat[x] = seat[y] => x = y
        BY <3>1 DEF Seated
      <4>2. \A x \in Sleepers(key) : seat[x] # n + 1
        BY <3>3, <3>7
      <4> QED BY <3>2, <3>6, <3>9, <4>1, <4>2
    <3>10. ASSUME NEW i \in m + 1 .. n + 1 PROVE \E v \in Sleepers(key)' : seat2[v] = i
      <4>1. CASE i = n + 1
        BY <3>2, <3>6, <4>1
      <4>2. CASE i \in m + 1 .. n
        <5>1. PICK v \in Sleepers(key) : seat[v] = i
          BY <3>1, <4>2 DEF Seated, n, m
        <5> QED BY <3>2, <3>6, <5>1
      <4> QED BY <3>3, <4>1, <4>2
    <3>11. Seated(seat2, key, all2)'
      BY <3>3, <3>5, <3>8, <3>9, <3>10 DEF Seated
    <3>12. ASSUME NEW i \in 1 .. m
           PROVE  all2[i] <= calls'[key][i] /\ calls'[key][i] <= all2[i] + MaxLate
      <4>1. all[i] <= calls[key][i] /\ calls[key][i] <= all[i] + MaxLate
        BY <2>1, <2>4 DEF CallsAreSlots, m
      <4>2. i \in 1 .. n
        BY <3>3
      <4> QED BY <1>1, <3>3, <4>1, <4>2
    <3> QED BY <2>2, <3>3, <3>5, <3>11, <3>12 DEF SlotsInv, CallsAreSlots
  <2> QED BY <2>3, <2>4
<1> QED BY <1>7, <1>8, <1>9, <1>11, <1>12 DEF ClientInv

\* The next slot is due: whoever holds it takes over the seat of the client that calls.
LEMMA FireKeeps ==
  ASSUME ClientInv, NEW w \in Workers, Fire(w)
  PROVE  ClientInv'
<1>1. /\ TypeOK /\ clock \in Nat /\ pc[w] = "sleeping" /\ due[w] <= clock
      /\ UNCHANGED <<clock, slots, rot, delay, due, attempt, ended, rested, requests, errors>>
  BY ClientTypes DEF ClientInv, Fire
<1>2. PICK key \in Keys : key = rot[w].index
  BY <1>1, ClientTypes
<1>3. /\ pc' = [pc EXCEPT ![w] = "calling"]
      /\ calls' = [calls EXCEPT ![key] = Append(@, clock)]
      /\ tried' = [tried EXCEPT ![w] = @ \cup {key}]
  BY <1>2 DEF Fire
<1>4. /\ calls[key] \in Seq(Nat) /\ calls'[key] = Append(calls[key], clock)
      /\ \A k \in Keys \ {key} : calls'[k] = calls[k]
      /\ pc'[w] = "calling" /\ \A v \in Workers \ {w} : pc'[v] = pc[v]
  BY <1>1, <1>3 DEF TypeOK
<1>5. TypeOK'
  <2>1. calls' \in [Keys -> Seq(Nat)]
    <3>1. Append(calls[key], clock) \in Seq(Nat)
      BY <1>1, <1>4
    <3> QED BY <1>1, <1>3, <3>1 DEF TypeOK
  <2>2. tried' \in [Workers -> SUBSET Keys] /\ pc' \in [Workers -> {"idle", "sleeping", "calling"}]
    BY <1>1, <1>3 DEF TypeOK
  <2> QED BY <1>1, <2>1, <2>2 DEF TypeOK
<1>6. \A v \in Workers : pc'[v] = "sleeping" => due'[v] + MaxLate >= clock'
  BY <1>1, <1>4 DEF ClientInv
<1>7. errors' = 0 => \A v \in Workers : delay'[v] = 0
  BY <1>1 DEF ClientInv
<1>8. ASSUME NEW k \in Keys \ {key} PROVE SlotsInv(k)'
  <2>1. Sleepers(k)' = Sleepers(k) /\ \A v \in Sleepers(k) : due'[v] = due[v]
    BY <1>1, <1>2, <1>4 DEF Sleepers
  <2> QED BY <1>1, <1>4, <2>1, KeyUntouched DEF ClientInv
<1>9. SlotsInv(key)'
  <2>1. PICK all \in Seq(Nat) : /\ IsLedger(all, slots[key], clock)
                                /\ errors = 0 => CallsAreSlots(key, all)
    BY DEF ClientInv, SlotsInv
  <2>2. CASE errors # 0
    BY <1>1, <2>1, <2>2 DEF SlotsInv
  <2>3. CASE errors = 0
    <3> DEFINE n == Len(all)
               m == Len(calls[key])
    <3>1. PICK seat : Seated(seat, key, all)
      BY <2>1, <2>3 DEF CallsAreSlots
    <3>2. /\ \A u \in Sleepers(key) : /\ seat[u] \in m + 1 .. n /\ due[u] <= all[seat[u]]
                                      /\ all[seat[u]] <= due[u] \/ all[seat[u]] <= clock
          /\ \A x, y \in Sleepers(key) : seat[x] = seat[y] => x = y
          /\ \A i \in m + 1 .. n : \E u \in Sleepers(key) : seat[u] = i
      BY <3>1 DEF Seated
    <3>3. /\ w \in Sleepers(key) /\ Sleepers(key)' = Sleepers(key) \ {w}
          /\ \A u \in Sleepers(key) : due[u] + MaxLate >= clock
      BY <1>1, <1>2, <1>4 DEF Sleepers, ClientInv
    <3>4. (\A u \in Workers : due[u] \in Nat) /\ MaxLate \in Nat
      BY <1>1, ClientConstants DEF TypeOK
    <3>5. m \in Nat /\ n \in Nat /\ seat[w] \in m + 1 .. n
      BY <1>4, <3>2, <3>3
    <3>6. m < n /\ m + 1 \in m + 1 .. n /\ m + 1 \in 1 .. n /\ seat[w] \in 1 .. n /\ m + 1 <= seat[w]
      <4> HIDE DEF m, n
      <4> QED BY <3>5
    <3>7. PICK v \in Sleepers(key) : seat[v] = m + 1
      BY <3>2, <3>6
    <3>8. /\ all[m + 1] <= all[seat[w]] /\ all[seat[w]] <= clock /\ clock <= all[m + 1] + MaxLate
          /\ all[m + 1] \in Nat /\ all[seat[w]] \in Nat
      <4>1. all[m + 1] <= all[seat[w]]
        BY <2>1, <3>6 DEF IsLedger, Ascending
      <4>2. all[m + 1] \in Nat /\ all[seat[w]] \in Nat /\ due[w] \in Nat
        BY <3>4, <3>6
      <4>3. all[seat[w]] <= clock
        <5>1. all[seat[w]] <= due[w] \/ all[seat[w]] <= clock
          BY <3>2, <3>3
        <5> QED BY <1>1, <4>2, <5>1
      <4>4. clock <= all[m + 1] + MaxLate
        <5>1. v \in Workers /\ due[v] + MaxLate >= clock
          BY <3>3, <3>7 DEF Sleepers
        <5>2. due[v] <= all[m + 1]
          BY <3>2, <3>7
        <5> QED BY <1>1, <3>4, <4>2, <5>1, <5>2
      <4> QED BY <4>1, <4>2, <4>3, <4>4
    <3>9. PICK seat2 : seat2 = [u \in Sleepers(key) |-> IF u = v THEN seat[w] ELSE seat[u]]
      OBVIOUS
    <3>10. \A u \in Sleepers(key) : seat2[u] = IF u = v THEN seat[w] ELSE seat[u]
      BY <3>9
    <3>11. Len(calls'[key]) = m + 1
      BY <1>4
    <3>16. ASSUME NEW i \in 1 .. m + 1
           PROVE  all[i] <= calls'[key][i] /\ calls'[key][i] <= all[i] + MaxLate
      <4>1. CASE i = m + 1
        <5>1. calls'[key][i] = clock
          BY <1>4, <4>1
        <5>2. all[i] = all[m + 1] /\ all[m + 1] <= clock
          BY <1>1, <3>8, <4>1
        <5> QED BY <3>8, <5>1, <5>2
      <4>2. CASE i \in 1 .. m
        BY <1>4, <2>1, <2>3, <4>2 DEF CallsAreSlots
      <4>3. i = m + 1 \/ i \in 1 .. m
        <5> HIDE DEF m
        <5> QED BY <3>5
      <4> QED BY <4>1, <4>2, <4>3
    <3> HIDE DEF m, n
    <3>12. \A i \in m + 1 .. n : i # m + 1 => i \in m + 2 .. n
      BY <3>5
    <3>13. ASSUME NEW u \in Sleepers(key)'
           PROVE  /\ seat2[u] \in m + 2 .. n /\ due'[u] <= all[seat2[u]]
                  /\ all[seat2[u]] <= due'[u] \/ all[seat2[u]] <= clock'
      <4>1. u \in Sleepers(key) /\ u # w /\ due'[u] = due[u]
        BY <1>1, <3>3
      <4>2. CASE u = v
        <5>1. seat2[u] = seat[w] /\ seat[w] # m + 1
          BY <3>2, <3>3, <3>7, <3>10, <4>1, <4>2
        <5>2. due[u] <= all[m + 1] /\ u \in Workers
          BY <3>2, <3>7, <4>1, <4>2 DEF Sleepers
        <5>3. due[u] <= all[seat[w]] /\ all[seat[w]] <= clock
          BY <3>4, <3>8, <5>2
        <5>4. seat2[u] \in m + 2 .. n
          BY <3>5, <3>12, <5>1
        <5> QED BY <1>1, <4>1, <5>1, <5>3, <5>4
      <4>3. CASE u # v
        <5>1. seat2[u] = seat[u] /\ seat[u] # m + 1
          BY <3>2, <3>7, <3>10, <4>1, <4>3
        <5>2. /\ seat[u] \in m + 1 .. n /\ due[u] <= all[seat[u]]
              /\ all[seat[u]] <= due[u] \/ all[seat[u]] <= clock
          BY <3>2, <4>1
        <5> QED BY <1>1, <3>12, <4>1, <5>1, <5>2
      <4> QED BY <4>2, <4>3
    <3>14. ASSUME NEW x \in Sleepers(key)', NEW y \in Sleepers(key)', seat2[x] = seat2[y]
           PROVE  x = y
      BY <3>2, <3>3, <3>10, <3>14
    <3>15. ASSUME NEW i \in m + 2 .. n PROVE \E u \in Sleepers(key)' : seat2[u] = i
      <4>1. i \in m + 1 .. n /\ i # m + 1
        BY <3>5
      <4>2. PICK x \in Sleepers(key) : seat[x] = i
        BY <3>2, <4>1
      <4>3. CASE x = w
        <5>1. v \in Sleepers(key)' /\ seat2[v] = i
          BY <3>3, <3>7, <3>10, <4>1, <4>2, <4>3
        <5> QED BY <5>1
      <4>4. CASE x # w
        <5>1. x \in Sleepers(key)' /\ seat2[x] = i
          BY <3>3, <3>7, <3>10, <4>1, <4>2, <4>4
        <5> QED BY <5>1
      <4> QED BY <4>3, <4>4
    <3>17. m + 1 + 1 = m + 2 /\ m + 1 <= n
      BY <3>5, <3>6
    <3>18. Seated(seat2, key, all)'
      BY <3>11, <3>13, <3>14, <3>15, <3>17 DEF Seated, n
    <3>19. IsLedger(all, slots'[key], clock')
      BY <1>1, <2>1
    <3> QED BY <3>11, <3>16, <3>17, <3>18, <3>19 DEF SlotsInv, CallsAreSlots, n
  <2> QED BY <2>2, <2>3
<1> QED BY <1>5, <1>6, <1>7, <1>8, <1>9 DEF ClientInv

\* A client that is done leaves no seat behind.
LEMMA EndKeeps ==
  ASSUME ClientInv, NEW w \in Workers, pc[w] = "calling", NEW how \in {"ok", "raised"}, End(w, how),
         UNCHANGED <<clock, slots, calls, rot, tried, rested, requests, errors>>,
         \/ delay' = [delay EXCEPT ![w] = @ \div 2]
         \/ delay' = delay
  PROVE  ClientInv'
<1>1. /\ TypeOK /\ clock \in Nat /\ delay[w] \in Nat /\ delay[w] \in 0 .. MaxDelay /\ MaxDelay \in Nat
      /\ pc' = [pc EXCEPT ![w] = "idle"] /\ due' = [due EXCEPT ![w] = 0]
      /\ ended' = [ended EXCEPT ![w] = how] /\ attempt' = [attempt EXCEPT ![w] = 0]
  BY ClientTypes, ClientConstants DEF ClientInv, End
<1>2. /\ pc'[w] = "idle"
      /\ \A v \in Workers \ {w} : pc'[v] = pc[v] /\ due'[v] = due[v] /\ delay'[v] = delay[v]
  BY <1>1 DEF TypeOK
<1>3. delay' \in [Workers -> 0 .. MaxDelay] /\ (delay[w] = 0 => delay'[w] = 0)
  <2>1. delay[w] \div 2 \in Nat /\ delay[w] \div 2 <= delay[w]
    <3>1. 2 * (delay[w] \div 2) <= delay[w] /\ delay[w] \div 2 \in Nat
      BY <1>1, DivBounds
    <3> QED BY <1>1, <3>1
  <2>2. delay[w] \div 2 \in 0 .. MaxDelay /\ (delay[w] = 0 => delay[w] \div 2 = 0)
    BY <1>1, <2>1
  <2> QED BY <1>1, <2>2 DEF TypeOK
<1>4. TypeOK'
  <2>1. due' \in [Workers -> Nat] /\ attempt' \in [Workers -> 0 .. MaxAttempts]
    <3>1. 0 \in 0 .. MaxAttempts
      BY ClientConstants
    <3> QED BY <1>1, <3>1 DEF TypeOK
  <2>2. /\ pc' \in [Workers -> {"idle", "sleeping", "calling"}]
        /\ ended' \in [Workers -> {"none", "ok", "gave up", "raised"}]
    BY <1>1 DEF TypeOK
  <2> QED BY <1>1, <1>3, <2>1, <2>2 DEF TypeOK
<1>5. \A v \in Workers : pc'[v] = "sleeping" => due'[v] + MaxLate >= clock'
  BY <1>2 DEF ClientInv
<1>6. errors' = 0 => \A v \in Workers : delay'[v] = 0
  BY <1>2, <1>3 DEF ClientInv
<1>7. ASSUME NEW k \in Keys PROVE SlotsInv(k)'
  <2>1. Sleepers(k)' = Sleepers(k) /\ \A v \in Sleepers(k) : due'[v] = due[v]
    BY <1>2 DEF Sleepers
  <2> QED BY <2>1, KeyUntouched DEF ClientInv
<1> QED BY <1>4, <1>5, <1>6, <1>7 DEF ClientInv, Keys

\* The delay after an error is no longer than the longest.
LEMMA LongerIsDelay ==
  ASSUME NEW d \in Nat
  PROVE  Longer(d) \in 0 .. MaxDelay
<1>1. MaxDelay \in Int /\ d + BackoffStep \in Int /\ d + BackoffStep >= 0 /\ MaxDelay >= 0
  BY ClientConstants
<1> QED BY <1>1, MinOfTwo DEF Longer

\* What an error makes of a client: its delay, its rotator.
LEMMA FailEffect ==
  ASSUME TypeOK, NEW w \in Workers, NEW cooldown \in {RateCooldown, FailCooldown}, Fail(w, cooldown)
  PROVE  \E r \in Rotator, d \in 0 .. MaxDelay :
           /\ r = Rotate(MarkFailed(rot[w], rot[w].index, clock + cooldown), clock)
           /\ rot' = [rot EXCEPT ![w] = r] /\ rot'[w] = r
           /\ delay' = [delay EXCEPT ![w] = d] /\ delay'[w] = d
<1>1. clock + cooldown \in Nat /\ clock + cooldown > clock /\ clock \in Nat
  BY ClientTypes, ClientConstants
<1>2. MarkFailed(rot[w], rot[w].index, clock + cooldown) \in Rotator
  BY <1>1, ClientTypes, MarkEffect
<1>3. PICK r \in Rotator : r = Rotate(MarkFailed(rot[w], rot[w].index, clock + cooldown), clock)
  BY <1>1, <1>2, RotateEffect
<1>4. PICK d \in 0 .. MaxDelay : d = Longer(delay[w])
  BY ClientTypes, LongerIsDelay
<1>5. rot' = [rot EXCEPT ![w] = r] /\ delay' = [delay EXCEPT ![w] = d]
  BY <1>3, <1>4 DEF Fail
<1> QED BY <1>3, <1>5 DEF TypeOK

\* After an error the calls may be late for their slots; the slots are as good as ever.
LEMMA ErrorKeeps ==
  ASSUME ClientInv, NEW w \in Workers, NEW cooldown \in {RateCooldown, FailCooldown}, Fail(w, cooldown)
  PROVE  ClientInv'
<1>1. /\ TypeOK /\ clock \in Nat /\ errors \in 0 .. MaxErrors /\ attempt[w] \in 0 .. MaxAttempts
      /\ pc[w] = "calling" /\ errors < MaxErrors /\ errors' = errors + 1
      /\ UNCHANGED <<clock, calls, tried, rested, requests>>
  BY ClientTypes DEF ClientInv, Fail
<1>2. PICK r \in Rotator, d \in 0 .. MaxDelay :
           /\ rot' = [rot EXCEPT ![w] = r] /\ rot'[w] = r
           /\ delay' = [delay EXCEPT ![w] = d] /\ delay'[w] = d
  BY <1>1, FailEffect
<1>3. errors' \in 0 .. MaxErrors /\ errors' # 0 /\ d \in Nat
  BY <1>1, ClientConstants
<1>4. /\ clock' \in Nat /\ calls' \in [Keys -> Seq(Nat)] /\ rot' \in [Workers -> Rotator]
      /\ delay' \in [Workers -> 0 .. MaxDelay] /\ tried' \in [Workers -> SUBSET Keys]
      /\ rested' \in [Workers -> BOOLEAN] /\ requests' \in 0 .. MaxRequests
  BY <1>1, <1>2 DEF TypeOK
<1>5. ASSUME NEW k \in Keys, NEW all \in Seq(Nat), IsLedger(all, slots'[k], clock) PROVE SlotsInv(k)'
  BY <1>1, <1>3, <1>5 DEF SlotsInv
<1>6. ASSUME NEW k \in Keys, slots'[k] = slots[k] PROVE SlotsInv(k)'
  BY <1>5, <1>6 DEF ClientInv, SlotsInv
<1>7. CASE attempt[w] = MaxAttempts /\ End(w, "gave up") /\ UNCHANGED slots
  <2>1. /\ pc' = [pc EXCEPT ![w] = "idle"] /\ due' = [due EXCEPT ![w] = 0]
        /\ ended' = [ended EXCEPT ![w] = "gave up"] /\ attempt' = [attempt EXCEPT ![w] = 0]
    BY <1>7 DEF End
  <2>2. TypeOK'
    <3>1. due' \in [Workers -> Nat] /\ attempt' \in [Workers -> 0 .. MaxAttempts]
      <4>1. 0 \in 0 .. MaxAttempts
        BY ClientConstants
      <4> QED BY <1>1, <2>1, <4>1 DEF TypeOK
    <3>2. /\ pc' \in [Workers -> {"idle", "sleeping", "calling"}]
          /\ ended' \in [Workers -> {"none", "ok", "gave up", "raised"}]
          /\ slots' \in [Keys -> Seq(Nat)]
      BY <1>1, <1>7, <2>1 DEF TypeOK
    <3> QED BY <1>3, <1>4, <3>1, <3>2 DEF TypeOK
  <2>3. \A v \in Workers : pc'[v] = "sleeping" => due'[v] + MaxLate >= clock'
    BY <1>1, <2>1 DEF ClientInv, TypeOK
  <2>4. \A k \in Keys : SlotsInv(k)'
    BY <1>6, <1>7
  <2> QED BY <1>3, <2>2, <2>3, <2>4 DEF ClientInv, Keys
<1>8. CASE /\ attempt[w] < MaxAttempts /\ attempt' = [attempt EXCEPT ![w] = @ + 1]
           /\ Apply(w, rot'[w].index, delay'[w]) /\ UNCHANGED ended
  <2>1. PICK key \in Keys : key = r.index
    BY DEF Rotator
  <2>2. Apply(w, key, d)
    BY <1>2, <1>8, <2>1
  <2>3. PICK start \in Nat :
           /\ start >= clock /\ due' = [due EXCEPT ![w] = start + d]
           /\ pc' = [pc EXCEPT ![w] = "sleeping"]
           /\ slots' \in [Keys -> Seq(Nat)]
           /\ \A k \in Keys \ {key} : slots'[k] = slots[k]
           /\ \A all \in Seq(Nat) : IsLedger(all, slots[key], clock) =>
                /\ start = StartFor(Live(slots[key], clock), clock)
                /\ Append(all, start) \in Seq(Nat)
                /\ IsLedger(Append(all, start), slots'[key], clock)
    BY <1>3, <2>2, ApplyEffect
  <2>4. start + d \in Nat /\ start + d >= clock
    BY <1>1, <1>3, <2>3
  <2>5. TypeOK'
    <3>1. due' \in [Workers -> Nat]
      BY <1>1, <2>3, <2>4 DEF TypeOK
    <3>2. attempt' \in [Workers -> 0 .. MaxAttempts]
      <4>1. attempt[w] + 1 \in 0 .. MaxAttempts
        BY <1>1, <1>8, ClientConstants
      <4> QED BY <1>1, <1>8, <4>1 DEF TypeOK
    <3>3. /\ pc' \in [Workers -> {"idle", "sleeping", "calling"}]
          /\ ended' \in [Workers -> {"none", "ok", "gave up", "raised"}]
      BY <1>1, <1>8, <2>3 DEF TypeOK
    <3> QED BY <1>3, <1>4, <2>3, <3>1, <3>2, <3>3 DEF TypeOK
  <2>6. ASSUME NEW v \in Workers, pc'[v] = "sleeping" PROVE due'[v] + MaxLate >= clock'
    <3>1. CASE v = w
      <4>1. due'[v] = start + d
        BY <1>1, <2>3, <3>1 DEF TypeOK
      <4> QED BY <1>1, <2>4, <4>1, ClientConstants
    <3>2. CASE v # w
      BY <1>1, <2>3, <2>6, <3>2 DEF ClientInv, TypeOK
    <3> QED BY <3>1, <3>2
  <2>7. SlotsInv(key)'
    <3>1. PICK all \in Seq(Nat) : IsLedger(all, slots[key], clock)
      BY DEF ClientInv, SlotsInv
    <3>2. PICK all2 \in Seq(Nat) : all2 = Append(all, start)
      BY <2>3, <3>1
    <3>3. IsLedger(all2, slots'[key], clock)
      BY <2>3, <3>1, <3>2
    <3> QED BY <1>5, <3>3
  <2>8. \A k \in Keys : SlotsInv(k)'
    BY <1>6, <2>3, <2>7
  <2> QED BY <1>3, <2>5, <2>6, <2>8 DEF ClientInv, Keys
<1> QED BY <1>7, <1>8 DEF Fail

\* Time passes no client whose sleep is over by MaxLate.
LEMMA ClientTickKeeps ==
  ASSUME ClientInv, Tick
  PROVE  ClientInv'
<1>1. /\ TypeOK /\ clock \in Nat /\ clock' = clock + 1
      /\ \A w \in Workers : pc[w] = "sleeping" => clock < due[w] + Late
      /\ UNCHANGED <<slots, calls, rot, delay, pc, due, attempt, tried, ended, requests, errors>>
  BY DEF ClientInv, TypeOK, Tick
<1>2. TypeOK'
  <2>1. rested' \in [Workers -> BOOLEAN]
    BY DEF Tick
  <2>2. clock' \in Nat
    BY <1>1
  <2>3. /\ UNCHANGED <<slots, calls, rot, delay, pc, due, attempt, tried, ended, requests, errors>>
        /\ TypeOK
    BY <1>1
  <2> QED BY <2>1, <2>2, <2>3 DEF TypeOK
<1>3. ASSUME NEW w \in Workers, pc'[w] = "sleeping" PROVE due'[w] + MaxLate >= clock'
  <2>1. due[w] \in Nat /\ MaxLate \in Nat /\ clock < due[w] + Late
    BY <1>1, <1>3, ClientConstants DEF TypeOK
  <2>2. Late = MaxLate \/ Late = 0
    BY DEF Late
  <2> QED BY <1>1, <2>1, <2>2
<1>4. ASSUME NEW k \in Keys PROVE SlotsInv(k)'
  <2>1. PICK all \in Seq(Nat) : /\ IsLedger(all, slots[k], clock)
                                /\ errors = 0 => CallsAreSlots(k, all)
    BY DEF ClientInv, SlotsInv
  <2>2. IsLedger(all, slots'[k], clock')
    BY <1>1, <2>1, LedgerLater
  <2>3. CallsAreSlots(k, all) => CallsAreSlots(k, all)'
    <3> SUFFICES ASSUME CallsAreSlots(k, all) PROVE CallsAreSlots(k, all)'
      OBVIOUS
    <3>1. PICK seat : Seated(seat, k, all)
      BY DEF CallsAreSlots
    <3>2. calls[k] \in Seq(Nat) /\ calls'[k] = calls[k] /\ Sleepers(k)' = Sleepers(k)
      BY <1>1 DEF Sleepers, TypeOK
    <3>3. ASSUME NEW w \in Sleepers(k)
          PROVE  all[seat[w]] <= due'[w] \/ all[seat[w]] <= clock'
      <4>1. seat[w] \in Len(calls[k]) + 1 .. Len(all)
        BY <3>1 DEF Seated
      <4>2. seat[w] \in 1 .. Len(all)
        BY <3>2, <4>1
      <4>3. all[seat[w]] \in Nat
        BY <4>2
      <4>4. all[seat[w]] <= due[w] \/ all[seat[w]] <= clock
        BY <3>1 DEF Seated
      <4> QED BY <1>1, <4>3, <4>4
    <3>4. Seated(seat, k, all)'
      BY <1>1, <3>1, <3>2, <3>3 DEF Seated
    <3> QED BY <1>1, <3>4 DEF CallsAreSlots
  <2> QED BY <1>1, <2>1, <2>2, <2>3 DEF SlotsInv
<1>5. errors' = 0 => \A w \in Workers : delay'[w] = 0
  BY <1>1 DEF ClientInv
<1> QED BY <1>2, <1>3, <1>4, <1>5 DEF ClientInv, Keys

\* All clients together.
LEMMA ClientInvariance == Spec => []ClientInv
<1>1. Init => ClientInv
  <2> SUFFICES ASSUME Init PROVE ClientInv
    OBVIOUS
  <2>1. TypeOK
    <3>1. 1 \in Keys /\ 0 \in 0 .. MaxAttempts /\ 0 \in 0 .. MaxDelay /\ 0 \in 0 .. MaxRequests
          /\ 0 \in 0 .. MaxErrors
      BY ClientConstants DEF Keys
    <3>2. NewRotator \in Rotator
      BY <3>1 DEF NewRotator, Rotator
    <3> QED BY <3>1, <3>2 DEF Init, TypeOK
  <2>2. ASSUME NEW k \in Keys PROVE SlotsInv(k)
    <3>1. slots[k] = <<>> /\ calls[k] = <<>> /\ clock = 0 /\ Sleepers(k) = {}
      BY DEF Init, Sleepers
    <3>2. <<>> \in Seq(Nat) /\ Len(<<>>) = 0 /\ <<>> = SubSeq(<<>>, 1, 0)
      OBVIOUS
    <3>3. IsLedger(<<>>, slots[k], clock)
      BY <3>1, <3>2 DEF IsLedger, Ascending, Spread, Tight, FileOf
    <3>4. Seated(<<>>, k, <<>>)
      BY <3>1, <3>2 DEF Seated
    <3>5. CallsAreSlots(k, <<>>)
      BY <3>1, <3>2, <3>4 DEF CallsAreSlots
    <3> QED BY <3>2, <3>3, <3>5 DEF SlotsInv
  <2> QED BY <2>1, <2>2 DEF ClientInv, Init
<1>2. ClientInv /\ [Next]_vars => ClientInv'
  <2> SUFFICES ASSUME ClientInv, [Next]_vars PROVE ClientInv'
    OBVIOUS
  <2>1. CASE UNCHANGED vars
    <3>1. TypeOK'
      BY <2>1 DEF ClientInv, TypeOK, vars, worker
    <3>2. ASSUME NEW k \in Keys PROVE SlotsInv(k)'
      <4>1. Sleepers(k)' = Sleepers(k)
        BY <2>1 DEF Sleepers, vars, worker
      <4> QED BY <2>1, <4>1, KeyUntouched DEF ClientInv, vars, worker
    <3> QED BY <2>1, <3>1, <3>2 DEF ClientInv, vars, worker, Keys
  <2>2. ASSUME NEW w \in Workers, Succeed(w) \/ Abort(w) PROVE ClientInv'
    BY <2>2, EndKeeps DEF Succeed, Abort
  <2> QED BY <2>1, <2>2, ClientTickKeeps, BeginKeeps, FireKeeps, ErrorKeeps DEF Next
<1> QED BY <1>1, <1>2, PTL DEF Spec

\* However many clients share however many keys: until a client has had to back off, the
\* calls they send on a key keep its limit but for what one sleep overshoots, though each
\* of them only ever waits for a slot of its own (_apply_delay, reserve).
THEOREM CallsKeepLimit == Spec => []CallsKeepWindowUntilBackoff
<1>1. ClientInv => CallsKeepWindowUntilBackoff
  <2> SUFFICES ASSUME ClientInv, errors = 0, NEW k \in Keys, NEW i \in DOMAIN calls[k], i > Limit
               PROVE  calls[k][i] + MaxLate >= calls[k][i - Limit] + Window
    BY DEF ClientInv, CallsKeepWindowUntilBackoff
  <2>1. PICK all \in Seq(Nat) : IsLedger(all, slots[k], clock) /\ CallsAreSlots(k, all)
    BY DEF ClientInv, SlotsInv
  <2>2. calls[k] \in Seq(Nat) /\ Limit \in Nat \ {0}
    BY LimitAssumption DEF ClientInv, TypeOK
  <2>3. /\ i \in 1 .. Len(calls[k]) /\ i - Limit \in 1 .. Len(calls[k]) /\ i \in 1 .. Len(all)
    <3> DEFINE m == Len(calls[k])
               n == Len(all)
    <3>1. i \in 1 .. m /\ m \in Nat /\ n \in Nat
      BY <2>2
    <3>2. m <= n
      BY <2>1 DEF CallsAreSlots
    <3> HIDE DEF m, n
    <3>3. i \in 1 .. m /\ i - Limit \in 1 .. m /\ i \in 1 .. n
      BY <2>2, <3>1, <3>2
    <3> QED BY <3>3 DEF m, n
  <2>4. all[i] <= calls[k][i] /\ calls[k][i - Limit] <= all[i - Limit] + MaxLate
    BY <2>1, <2>3 DEF CallsAreSlots
  <2>5. i - Limit \in 1 .. Len(all) /\ all[i] >= all[i - Limit] + Window
    BY <2>1, <2>2, <2>3 DEF IsLedger, Spread
  <2>6. all[i] \in Nat /\ all[i - Limit] \in Nat
    BY <2>3, <2>5
  <2>7. calls[k][i] \in Nat /\ calls[k][i - Limit] \in Nat
    <3>1. PICK made \in Seq(Nat) : made = calls[k]
      BY <2>2
    <3>2. \A j \in 1 .. Len(made) : made[j] \in Nat
      OBVIOUS
    <3> QED BY <2>3, <3>1, <3>2
  <2>8. MaxLate \in Nat /\ Window \in Nat
    BY ClientConstants, WindowAssumption
  <2>9. PICK a \in Nat, b \in Nat, c \in Nat, d \in Nat :
              a = all[i] /\ b = all[i - Limit] /\ c = calls[k][i] /\ d = calls[k][i - Limit]
    BY <2>6, <2>7
  <2>10. a <= c /\ d <= b + MaxLate /\ a >= b + Window
    BY <2>4, <2>5, <2>9
  <2>11. c + MaxLate >= d + Window
    BY <2>8, <2>10
  <2> QED BY <2>9, <2>11
<1> QED BY <1>1, ClientInvariance, PTL

-----------------------------------------------------------------------------
(***************************************************************************)
(* Outwards: when a client gives up.  Each failure cools down a key that   *)
(* was rested, so that the keys cooling down count the attempts; but the   *)
(* rotator forgets all cooldowns when no key is left, and keys may have    *)
(* been cooling when the request began.  Hence two rounds: until the       *)
(* rotator forgets, the keys the request has failed with are cooling, and  *)
(* are as many as the attempts before this one; from then on, only keys it *)
(* has tried are.  2 * NumKeys attempts are enough for both, and the       *)
(* second ends with every key tried.                                       *)
(***************************************************************************)
\* The keys the request has failed with: the current one is being tried.
FailedWith(w) == IF pc[w] = "calling" THEN tried[w] \ {rot[w].index} ELSE tried[w]

FirstRound(failed, cooling, a) == failed \subseteq cooling /\ a <= Cardinality(failed) + 1

SecondRound(called, cooling, a) == /\ cooling \subseteq called
                                   /\ a <= NumKeys + Cardinality(cooling) + 1

RequestInv(w) ==
    LET cooling == Cooling(rot[w], clock)
    IN  /\ pc[w] # "idle" =>
              /\ ended[w] = "none"
              /\ rot[w].index \notin cooling
              /\ pc[w] = "calling" => rot[w].index \in tried[w]
              /\ \/ rested[w] \/ tried[w] = Keys
                 \/ FirstRound(FailedWith(w), cooling, attempt[w])
                 \/ SecondRound(tried[w], cooling, attempt[w])
        /\ ended[w] = "gave up" => tried[w] = Keys \/ rested[w]

RequestsInv == \A w \in Workers : RequestInv(w)

-----------------------------------------------------------------------------
\* Sets of keys are finite, and a set that lacks a key is smaller.
LEMMA KeySets ==
  ASSUME NEW S, S \subseteq Keys
  PROVE  /\ IsFiniteSet(S) /\ Cardinality(S) \in Nat /\ Cardinality(S) <= NumKeys
         /\ Cardinality(S) = NumKeys => S = Keys
         /\ \A k \in Keys \ S : Cardinality(S \cup {k}) = Cardinality(S) + 1
<1>1. NumKeys \in Nat /\ IsFiniteSet(Keys) /\ Cardinality(Keys) = NumKeys
  <2>1. 1 \in Int /\ NumKeys \in Int /\ NumKeys \in Nat /\ 1 <= NumKeys
    BY ClientConstants
  <2> QED BY <2>1, FS_Interval DEF Keys
<1>2. /\ IsFiniteSet(S) /\ Cardinality(S) <= Cardinality(Keys)
      /\ Cardinality(S) = Cardinality(Keys) => S = Keys
  BY <1>1, FS_Subset
<1>3. Cardinality(S) \in Nat
  BY <1>2, FS_CardinalityType
<1>4. \A k \in Keys \ S : Cardinality(S \cup {k}) = Cardinality(S) + 1
  BY <1>2, FS_AddElement
<1> QED BY <1>1, <1>2, <1>3, <1>4

\* One more failure, with a key that was rested: the rounds go on, from the first to the
\* second when all cooldowns are forgotten.
LEMMA RoundsGoOn ==
  ASSUME NEW cooling, cooling \subseteq Keys, NEW called, called \subseteq Keys, NEW key \in called,
         key \notin cooling, NEW a \in Nat, NEW next,
         IF cooling \cup {key} = Keys THEN next = {} ELSE next = cooling \cup {key},
         FirstRound(called \ {key}, cooling, a) \/ SecondRound(called, cooling, a)
  PROVE  called = Keys \/ FirstRound(called, next, a + 1) \/ SecondRound(called, next, a + 1)
<1> DEFINE failed == called \ {key}
<1>1. /\ Cardinality(failed) \in Nat /\ Cardinality(cooling) \in Nat /\ NumKeys \in Nat
      /\ Cardinality(called) = Cardinality(failed) + 1
      /\ Cardinality(cooling \cup {key}) = Cardinality(cooling) + 1
      /\ Cardinality(called) <= NumKeys
  <2>1. failed \subseteq Keys /\ key \in Keys \ failed /\ failed \cup {key} = called
    OBVIOUS
  <2> QED BY <2>1, KeySets, ClientConstants
<1>2. CASE FirstRound(failed, cooling, a)
  <2>1. CASE cooling \cup {key} = Keys
    <3>1. a + 1 <= NumKeys + 0 + 1
      BY <1>1, <1>2 DEF FirstRound
    <3> QED BY <2>1, <3>1, FS_EmptySet DEF SecondRound
  <2>2. CASE cooling \cup {key} # Keys
    <3>1. a + 1 <= Cardinality(called) + 1
      BY <1>1, <1>2 DEF FirstRound
    <3>2. called \subseteq next
      BY <1>2, <2>2 DEF FirstRound
    <3> QED BY <3>1, <3>2 DEF FirstRound
  <2> QED BY <2>1, <2>2
<1>3. CASE SecondRound(called, cooling, a)
  <2>1. cooling \cup {key} \subseteq called
    BY <1>3 DEF SecondRound
  <2>2. CASE cooling \cup {key} = Keys
    BY <2>1, <2>2
  <2>3. CASE cooling \cup {key} # Keys
    <3>1. a + 1 <= NumKeys + (Cardinality(cooling) + 1) + 1
      BY <1>1, <1>3 DEF SecondRound
    <3>2. next = cooling \cup {key}
      BY <2>3
    <3> QED BY <1>1, <2>1, <3>1, <3>2 DEF SecondRound
  <2> QED BY <2>2, <2>3
<1> QED BY <1>2, <1>3

\* After 2 * NumKeys attempts the second round is over.
LEMMA RoundsEnd ==
  ASSUME NEW cooling, cooling \subseteq Keys, NEW called, called \subseteq Keys, NEW key \in called,
         key \notin cooling, NEW a \in Nat, a = MaxAttempts,
         FirstRound(called \ {key}, cooling, a) \/ SecondRound(called, cooling, a)
  PROVE  called = Keys
<1> DEFINE failed == called \ {key}
<1>1. /\ Cardinality(failed) \in Nat /\ Cardinality(cooling) \in Nat /\ NumKeys \in Nat \ {0}
      /\ Cardinality(called) = Cardinality(failed) + 1 /\ Cardinality(called) <= NumKeys
      /\ Cardinality(cooling \cup {key}) = Cardinality(cooling) + 1
      /\ Cardinality(cooling \cup {key}) <= NumKeys
      /\ Cardinality(cooling \cup {key}) = NumKeys => cooling \cup {key} = Keys
      /\ a = 2 * NumKeys
  <2>1. failed \subseteq Keys /\ key \in Keys \ failed /\ failed \cup {key} = called
        /\ cooling \cup {key} \subseteq Keys
    OBVIOUS
  <2> QED BY <2>1, KeySets, ClientConstants
<1>2. ~FirstRound(failed, cooling, a)
  BY <1>1 DEF FirstRound
<1>3. SecondRound(called, cooling, a) => cooling \cup {key} = Keys
  BY <1>1 DEF SecondRound
<1> QED BY <1>2, <1>3 DEF SecondRound

\* Nothing that another client does is seen by a request.
LEMMA RequestUntouched ==
  ASSUME NEW w \in Workers, RequestInv(w), clock' = clock, pc'[w] = pc[w], rot'[w] = rot[w],
         tried'[w] = tried[w], attempt'[w] = attempt[w], ended'[w] = ended[w], rested'[w] = rested[w]
  PROVE  RequestInv(w)'
BY DEF RequestInv, FailedWith, Cooling

\* The first attempt is the beginning of the first round.
LEMMA RequestBegins ==
  ASSUME TypeOK, RequestsInv, NEW w \in Workers, Begin(w)
  PROVE  RequestsInv'
<1>1. PICK r \in Rotator : r = Rotate(rot[w], clock)
  BY ClientTypes, RotateEffect
<1>2. /\ clock' = clock /\ rot' = [rot EXCEPT ![w] = r] /\ attempt' = [attempt EXCEPT ![w] = 1]
      /\ tried' = [tried EXCEPT ![w] = {}] /\ ended' = [ended EXCEPT ![w] = "none"]
      /\ rested' = [rested EXCEPT ![w] = FALSE] /\ pc' = [pc EXCEPT ![w] = "sleeping"]
  BY <1>1 DEF Begin, Apply
<1>3. /\ pc'[w] = "sleeping" /\ tried'[w] = {} /\ ended'[w] = "none" /\ attempt'[w] = 1 /\ rot'[w] = r
      /\ \A v \in Workers \ {w} : /\ pc'[v] = pc[v] /\ rot'[v] = rot[v] /\ tried'[v] = tried[v]
                                  /\ attempt'[v] = attempt[v] /\ ended'[v] = ended[v]
                                  /\ rested'[v] = rested[v]
  BY <1>2 DEF TypeOK
<1>4. \A v \in Workers \ {w} : RequestInv(v)'
  BY <1>2, <1>3, RequestUntouched DEF RequestsInv
<1>5. r.index \notin Cooling(r, clock)
  BY <1>1, ClientTypes, RotateEffect
<1>6. FirstRound({}, Cooling(r, clock), 1)
  <2>1. Cardinality({}) = 0
    BY FS_EmptySet
  <2> QED BY <2>1 DEF FirstRound
<1>7. RequestInv(w)'
  BY <1>2, <1>3, <1>5, <1>6 DEF RequestInv, FailedWith, Cooling
<1> QED BY <1>4, <1>7 DEF RequestsInv

\* A call is made with a rested key: in the first round, with one not failed yet.
LEMMA RequestFires ==
  ASSUME TypeOK, RequestsInv, NEW w \in Workers, Fire(w)
  PROVE  RequestsInv'
<1>1. PICK key \in Keys : key = rot[w].index
  BY ClientTypes
<1>2. /\ UNCHANGED <<clock, rot, attempt, ended, rested>> /\ pc[w] = "sleeping"
      /\ pc'[w] = "calling" /\ tried'[w] = tried[w] \cup {key}
      /\ \A v \in Workers \ {w} : pc'[v] = pc[v] /\ tried'[v] = tried[v]
  BY <1>1 DEF Fire, TypeOK
<1>3. \A v \in Workers \ {w} : RequestInv(v)'
  BY <1>2, RequestUntouched DEF RequestsInv
<1>4. RequestInv(w) /\ tried[w] \subseteq Keys
  BY ClientTypes DEF RequestsInv
<1>5. key \notin Cooling(rot[w], clock) /\ ended[w] = "none"
  BY <1>1, <1>2, <1>4 DEF RequestInv
<1>6. ASSUME rested[w] \/ tried[w] = Keys PROVE RequestInv(w)'
  <2>1. rested[w] \/ tried'[w] = Keys
    BY <1>2, <1>6
  <2> QED BY <1>1, <1>2, <1>5, <2>1 DEF RequestInv, Cooling
<1>7. ASSUME FirstRound(tried[w], Cooling(rot[w], clock), attempt[w]) PROVE RequestInv(w)'
  <2>1. tried'[w] \ {key} = tried[w]
    BY <1>2, <1>5, <1>7 DEF FirstRound
  <2> QED BY <1>1, <1>2, <1>5, <1>7, <2>1 DEF RequestInv, FailedWith, Cooling
<1>8. ASSUME SecondRound(tried[w], Cooling(rot[w], clock), attempt[w]) PROVE RequestInv(w)'
  <2>1. SecondRound(tried'[w], Cooling(rot[w], clock), attempt[w])
    BY <1>2, <1>8 DEF SecondRound
  <2> QED BY <1>1, <1>2, <1>5, <2>1 DEF RequestInv, Cooling
<1>9. RequestInv(w)'
  BY <1>2, <1>4, <1>6, <1>7, <1>8 DEF RequestInv, FailedWith
<1> QED BY <1>3, <1>9 DEF RequestsInv

\* A request that ends otherwise than by giving up owes nothing.
LEMMA RequestEnds ==
  ASSUME TypeOK, RequestsInv, NEW w \in Workers, NEW how \in {"ok", "raised"}, End(w, how),
         UNCHANGED <<clock, rot, tried, rested>>
  PROVE  RequestsInv'
<1>1. /\ pc'[w] = "idle" /\ ended'[w] = how
      /\ \A v \in Workers \ {w} : /\ pc'[v] = pc[v] /\ ended'[v] = ended[v]
                                  /\ attempt'[v] = attempt[v]
  BY DEF End, TypeOK
<1>2. \A v \in Workers \ {w} : RequestInv(v)'
  BY <1>1, RequestUntouched DEF RequestsInv
<1>3. RequestInv(w)'
  BY <1>1 DEF RequestInv
<1> QED BY <1>2, <1>3 DEF RequestsInv

\* What the rotator has cooling after an error.
LEMMA CoolingAfterError ==
  ASSUME TypeOK, NEW w \in Workers, NEW cooldown \in {RateCooldown, FailCooldown}, Fail(w, cooldown)
  PROVE  LET failed == Cooling(rot[w], clock) \cup {rot[w].index}
             next == Cooling(rot'[w], clock)
         IN  /\ rot'[w].index \notin next
             /\ IF failed = Keys THEN next = {} ELSE next = failed
<1>1. /\ clock \in Nat /\ rot[w] \in Rotator /\ clock + cooldown \in Nat /\ clock + cooldown > clock
  BY ClientTypes, ClientConstants
<1>2. PICK m : m = MarkFailed(rot[w], rot[w].index, clock + cooldown)
  OBVIOUS
<1>3. m \in Rotator /\ Cooling(m, clock) = Cooling(rot[w], clock) \cup {rot[w].index}
  BY <1>1, <1>2, MarkEffect
<1>4. PICK r \in Rotator : rot'[w] = r /\ r = Rotate(m, clock)
  BY <1>2, FailEffect
<1>5. /\ r.index \notin Cooling(r, clock)
      /\ IF Cooling(m, clock) = Keys THEN Cooling(r, clock) = {} ELSE r.cooldown = m.cooldown
  BY <1>1, <1>3, <1>4, RotateEffect
<1>6. r.cooldown = m.cooldown => Cooling(r, clock) = Cooling(m, clock)
  BY DEF Cooling
<1> QED BY <1>3, <1>4, <1>5, <1>6

\* An error moves the rounds on; the attempt that ends them gives up.
LEMMA RequestFails ==
  ASSUME TypeOK, RequestsInv, NEW w \in Workers, NEW cooldown \in {RateCooldown, FailCooldown},
         Fail(w, cooldown)
  PROVE  RequestsInv'
<1> DEFINE cooling == Cooling(rot[w], clock)
<1>1. PICK r \in Rotator : /\ rot' = [rot EXCEPT ![w] = r] /\ rot'[w] = r
                           /\ r.index \notin Cooling(r, clock)
                           /\ IF cooling \cup {rot[w].index} = Keys
                                THEN Cooling(r, clock) = {}
                                ELSE Cooling(r, clock) = cooling \cup {rot[w].index}
  BY FailEffect, CoolingAfterError
<1>2. /\ pc[w] = "calling" /\ UNCHANGED <<clock, tried, rested>>
      /\ \/ /\ attempt[w] = MaxAttempts /\ pc'[w] = "idle" /\ ended'[w] = "gave up"
         \/ /\ pc'[w] = "sleeping" /\ ended'[w] = ended[w] /\ attempt'[w] = attempt[w] + 1
      /\ \A v \in Workers \ {w} : /\ pc'[v] = pc[v] /\ ended'[v] = ended[v] /\ rot'[v] = rot[v]
                                  /\ attempt'[v] = attempt[v]
  <2>1. /\ pc \in [Workers -> {"idle", "sleeping", "calling"}] /\ DOMAIN ended = Workers
        /\ DOMAIN attempt = Workers /\ DOMAIN rot = Workers
    BY DEF TypeOK
  <2>2. pc[w] = "calling" /\ UNCHANGED <<clock, tried, rested>>
    BY DEF Fail
  <2>3. CASE attempt[w] = MaxAttempts /\ End(w, "gave up")
    BY <1>1, <2>1, <2>2, <2>3 DEF End
  <2>4. CASE /\ attempt' = [attempt EXCEPT ![w] = @ + 1] /\ Apply(w, rot'[w].index, delay'[w])
             /\ UNCHANGED ended
    <3>1. pc' = [pc EXCEPT ![w] = "sleeping"]
      BY <2>4 DEF Apply
    <3> QED BY <1>1, <2>1, <2>2, <2>4, <3>1
  <2> QED BY <2>3, <2>4 DEF Fail
<1>3. \A v \in Workers \ {w} : RequestInv(v)'
  BY <1>2, RequestUntouched DEF RequestsInv
<1>4. /\ attempt[w] \in Nat /\ tried[w] \subseteq Keys /\ cooling \subseteq Keys
      /\ ended[w] = "none" /\ rot[w].index \notin cooling /\ rot[w].index \in tried[w]
      /\ \/ rested[w] \/ tried[w] = Keys
         \/ FirstRound(tried[w] \ {rot[w].index}, cooling, attempt[w])
         \/ SecondRound(tried[w], cooling, attempt[w])
  <2>1. RequestInv(w) /\ tried[w] \subseteq Keys /\ attempt[w] \in 0 .. MaxAttempts
    BY ClientTypes DEF RequestsInv
  <2>2. attempt[w] \in Nat
    BY <2>1, ClientConstants
  <2>3. cooling \subseteq Keys
    BY DEF Cooling
  <2> QED BY <1>2, <2>1, <2>2, <2>3 DEF RequestInv, FailedWith
<1> HIDE DEF cooling
<1>5. CASE attempt[w] = MaxAttempts /\ pc'[w] = "idle" /\ ended'[w] = "gave up"
  <2>1. rested[w] \/ tried[w] = Keys
    BY <1>4, <1>5, RoundsEnd
  <2>2. RequestInv(w)'
    BY <1>2, <1>5, <2>1 DEF RequestInv
  <2> QED BY <1>3, <2>2 DEF RequestsInv
<1>6. CASE pc'[w] = "sleeping" /\ ended'[w] = ended[w] /\ attempt'[w] = attempt[w] + 1
  <2>1. \/ rested[w] \/ tried[w] = Keys
        \/ FirstRound(tried[w], Cooling(r, clock), attempt[w] + 1)
        \/ SecondRound(tried[w], Cooling(r, clock), attempt[w] + 1)
    BY <1>1, <1>4, RoundsGoOn
  <2>2. Cooling(rot[w], clock)' = Cooling(r, clock)
    BY <1>1, <1>2 DEF Cooling
  <2>3. /\ FailedWith(w)' = tried[w] /\ tried'[w] = tried[w] /\ rested'[w] = rested[w]
        /\ attempt'[w] = attempt[w] + 1 /\ rot'[w].index \notin Cooling(r, clock)
        /\ ended'[w] = "none" /\ pc'[w] = "sleeping"
    BY <1>1, <1>2, <1>4, <1>6 DEF FailedWith
  <2>4. \/ rested'[w] \/ tried'[w] = Keys
        \/ FirstRound(FailedWith(w)', Cooling(r, clock), attempt'[w])
        \/ SecondRound(tried'[w], Cooling(r, clock), attempt'[w])
    BY <2>1, <2>3
  <2>5. RequestInv(w)'
    BY <2>2, <2>3, <2>4 DEF RequestInv, Keys, FirstRound, SecondRound
  <2> QED BY <1>3, <2>5 DEF RequestsInv
<1> QED BY <1>2, <1>5, <1>6

\* Time rests keys: one the request has tried, which it notes, or one it has not.
LEMMA RequestWaits ==
  ASSUME TypeOK, RequestsInv, Tick
  PROVE  RequestsInv'
<1> SUFFICES ASSUME NEW w \in Workers PROVE RequestInv(w)'
  BY DEF RequestsInv
<1> DEFINE cooling == Cooling(rot[w], clock)
           next == Cooling(rot[w], clock + 1)
<1>1. /\ clock \in Nat /\ clock' = clock + 1 /\ UNCHANGED <<rot, pc, attempt, tried, ended>>
      /\ rested'[w] = \/ rested[w]
                      \/ pc[w] # "idle" /\ \E k \in tried[w] : rot[w].cooldown[k] = clock + 1
      /\ RequestInv(w) /\ tried[w] \subseteq Keys /\ rot[w].cooldown \in [Keys -> Nat]
  BY DEF Tick, TypeOK, RequestsInv, Rotator
<1>2. next \subseteq cooling /\ \A k \in cooling \ next : rot[w].cooldown[k] = clock + 1
  BY <1>1 DEF Cooling
<1>3. Cooling(rot[w], clock)' = next
  BY <1>1 DEF Cooling
<1>4. FailedWith(w)' = FailedWith(w) /\ FailedWith(w) \subseteq tried[w]
  BY <1>1 DEF FailedWith
<1>5. CASE pc[w] = "idle" \/ rested'[w]
  BY <1>1, <1>2, <1>3, <1>5 DEF RequestInv
<1>6. CASE pc[w] # "idle" /\ ~rested'[w]
  <2>1. ~rested[w] /\ tried[w] \cap cooling \subseteq next
    BY <1>1, <1>2, <1>6
  <2>2. FirstRound(FailedWith(w), cooling, attempt[w]) => FirstRound(FailedWith(w), next, attempt[w])
    BY <1>4, <2>1 DEF FirstRound
  <2>3. SecondRound(tried[w], cooling, attempt[w]) => SecondRound(tried[w], next, attempt[w])
    <3>1. cooling \subseteq tried[w] => next = cooling
      BY <1>2, <2>1
    <3> QED BY <3>1 DEF SecondRound
  <2>4. /\ ended[w] = "none" /\ rot[w].index \notin next
        /\ pc[w] = "calling" => rot[w].index \in tried[w]
        /\ \/ tried[w] = Keys
           \/ FirstRound(FailedWith(w), next, attempt[w])
           \/ SecondRound(tried[w], next, attempt[w])
    BY <1>1, <1>2, <1>6, <2>1, <2>2, <2>3 DEF RequestInv
  <2> QED BY <1>1, <1>3, <1>4, <2>4 DEF RequestInv, FirstRound, SecondRound, Keys
<1> QED BY <1>5, <1>6

\* A request that is given up has had its turn with every key, or a key it had tried was
\* rested again: 2 * NumKeys attempts are enough, whatever was cooling when it began
\* (_with_retry, rotate, _get_active_keys).
THEOREM GivingUpTakesAllKeys == Spec => []GivesUpAfterAllKeys
<1>1. ClientInv => TypeOK
  BY DEF ClientInv
<1>2. Init => RequestsInv
  BY DEF Init, RequestsInv, RequestInv
<1>3. TypeOK /\ RequestsInv /\ [Next]_vars => RequestsInv'
  <2> SUFFICES ASSUME TypeOK, RequestsInv, [Next]_vars PROVE RequestsInv'
    OBVIOUS
  <2>1. CASE UNCHANGED vars
    BY <2>1, RequestUntouched DEF RequestsInv, vars, worker
  <2>2. ASSUME NEW w \in Workers, Succeed(w) \/ Abort(w) PROVE RequestsInv'
    BY <2>2, RequestEnds DEF Succeed, Abort
  <2> QED BY <2>1, <2>2, RequestBegins, RequestFires, RequestFails, RequestWaits DEF Next
<1>4. RequestsInv => GivesUpAfterAllKeys
  BY DEF RequestsInv, RequestInv, GivesUpAfterAllKeys
<1> QED BY <1>1, <1>2, <1>3, <1>4, ClientInvariance, PTL DEF Spec

-----------------------------------------------------------------------------
(***************************************************************************)
(* The agent's client (NimChat).  Between a failure and the next attempt   *)
(* the rotator stands at the key that failed, and that key rests longer    *)
(* than the request sleeps (Steered): so rotate() goes on to another one.  *)
(* Both hold only as long as no other request uses the rotator.  That an   *)
(* exclusion is never cut short rests on KeysInUse: a key in use is not    *)
(* excluded, so an error on it asks for the first exclusion.               *)
(***************************************************************************)
(* The agent's client and the pipelines' have the rotator and the slot lists in common. *)
LEMMA SameOperators ==
  /\ Chat!Keys = Keys /\ Chat!Rotator = Rotator /\ Chat!NewRotator = NewRotator
  /\ \A r, now : Chat!Exhausted(r, now) <=> Exhausted(r, now)
  /\ \A r, now : Chat!Rotate(r, now) = Rotate(r, now)
  /\ \A r, now : Chat!GetKey(r, now) = GetKey(r, now)
  /\ \A r, k, until : Chat!MarkFailed(r, k, until) = MarkFailed(r, k, until)
  /\ \A s, now : Chat!StartFor(Chat!Live(s, now), now) = StartFor(Live(s, now), now)
  /\ \A s, now : Chat!Booked(s, now) = Booked(s, now)
<1>1. Chat!Keys = Keys
  BY DEF Chat!Keys, Keys
<1>2. Chat!Rotator = Rotator /\ Chat!NewRotator = NewRotator
  BY <1>1 DEF Chat!Rotator, Rotator, Chat!NewRotator, NewRotator
<1>3. \A r, now : (Chat!Exhausted(r, now) <=> Exhausted(r, now)) /\ Chat!Rested(r, now) = Rested(r, now)
  BY <1>1 DEF Chat!Exhausted, Exhausted, Chat!Rested, Rested
<1>4. \A r, now : Chat!ActiveKeys(r, now) = ActiveKeys(r, now) /\ Chat!Refresh(r, now) = Refresh(r, now)
  BY <1>1, <1>3 DEF Chat!ActiveKeys, ActiveKeys, Chat!Refresh, Refresh
<1>5. \A S : Chat!Min(S) = Min(S)
  BY DEF Chat!Min, Min
<1>6. \A r, now : Chat!Rotate(r, now) = Rotate(r, now) /\ Chat!GetKey(r, now) = GetKey(r, now)
  BY <1>4, <1>5 DEF Chat!Rotate, Rotate, Chat!GetKey, GetKey
<1>7. \A r, k, until : Chat!MarkFailed(r, k, until) = MarkFailed(r, k, until)
  BY DEF Chat!MarkFailed, MarkFailed
<1>8. \A s, now : Chat!ExpiredCount(s, now) = ExpiredCount(s, now)
  BY DEF Chat!ExpiredCount, ExpiredCount
<1>9. \A s, now : Chat!Live(s, now) = Live(s, now)
  BY <1>8 DEF Chat!Live, Live
<1>10. \A s, now : Chat!StartFor(s, now) = StartFor(s, now)
  BY DEF Chat!StartFor, StartFor
<1>11. \A s, t : Chat!InsertionPoint(s, t) = InsertionPoint(s, t)
  BY DEF Chat!InsertionPoint, InsertionPoint
<1>12. \A s, t : Chat!Insort(s, t) = Insort(s, t)
  BY <1>11 DEF Chat!Insort, Insort
<1>13. \A s, now : Chat!Booked(s, now) = Booked(s, now)
  BY <1>9, <1>10, <1>12 DEF Chat!Booked, Booked
<1> QED BY <1>1, <1>2, <1>3, <1>6, <1>7, <1>9, <1>10, <1>13

\* The key of the latest attempt; a request under way.
Latest(r) == used[r][Len(used[r])]
Under(r) == chatPc[r] \in {"ready", "waiting", "calling", "backoff"}

\* What a request has tried and yielded.
ChatProgress(r) ==
    /\ chatPc[r] = "new" => used[r] = <<>>
    /\ chatPc[r] = "ready" => Len(used[r]) < Chat!Attempts
    /\ chatPc[r] \in {"waiting", "calling", "backoff"} => used[r] # <<>>
    /\ chatPc[r] \in {"new", "ready", "waiting", "backoff"} => chunks[r] = <<>>
    /\ chatPc[r] = "calling" => \A i \in DOMAIN chunks[r] : chunks[r][i] = Len(used[r])
    /\ \A i, j \in DOMAIN chunks[r] : chunks[r][i] = chunks[r][j]

\* As long as no other uses the rotator, it stands where the request has left it, and the key that
\* failed rests longer than the request sleeps.
Steered(r) ==
    NumKeys > 1 /\ r \notin crossed =>
        /\ \A i \in 2 .. Len(used[r]) : used[r][i] # used[r][i - 1]
        /\ Under(r) /\ used[r] # <<>> => chatRot.index = Latest(r)
        /\ chatPc[r] \in {"backoff", "ready"} /\ used[r] # <<>> =>
               chatDue[r] >= chatClock /\ chatRot.cooldown[Latest(r)] > chatDue[r]

\* A key in use is not excluded, and two that use it are known.
KeysInUse ==
    /\ Chat!ExcludedAsLongAsAskedUnlessShared
    /\ \A r \in Chat!UsingKey : Latest(r) \notin shared => promised[Latest(r)] <= chatClock
    /\ \A q, r \in Chat!UsingKey : q # r /\ Latest(q) = Latest(r) => Latest(r) \in shared

ChatLedgers == \A k \in Keys : \E all \in Seq(Nat) : IsLedger(all, chatSlots[k], chatClock)

ChatInv ==
    /\ Chat!TypeOK /\ KeysInUse /\ ChatLedgers
    /\ \A r \in Requests : ChatProgress(r) /\ Steered(r)

\* What the assumptions say of the constants.
LEMMA ChatConstants ==
  /\ Backoff \in Nat /\ ChatRateCooldown \in Nat /\ ChatFailCooldown \in Nat
  /\ Backoff < ChatRateCooldown /\ Backoff < ChatFailCooldown /\ MaxChunks \in Nat
  /\ NumKeys \in Nat \ {0} /\ Chat!Attempts \in Nat \ {0}
BY NumKeysAssumption, ChatsAssumption DEF Chat!ChatAssumption, Chat!Attempts

\* What is known of the state.
LEMMA ChatTypes ==
  ASSUME Chat!TypeOK
  PROVE  /\ chatClock \in Nat /\ chatSlots \in [Keys -> Seq(Nat)]
         /\ chatRot \in Rotator /\ chatRot.index \in Keys /\ chatRot.cooldown \in [Keys -> Nat]
         /\ chatPc \in [Requests -> {"new", "ready", "waiting", "calling", "backoff", "ended"}]
         /\ chatDue \in [Requests -> Nat] /\ used \in [Requests -> Seq(Keys)]
         /\ chunks \in [Requests -> Seq(1 .. Chat!Attempts)] /\ promised \in [Keys -> Nat]
         /\ \A r \in Requests : /\ Len(used[r]) \in Nat /\ DOMAIN used[r] = 1 .. Len(used[r])
                                /\ used[r] # <<>> => Latest(r) \in Keys /\ Len(used[r]) > 0
                                /\ Len(used[r]) <= Chat!Attempts
                                /\ chunks[r] \in Seq(1 .. Chat!Attempts)
                                /\ Chat!Attempt(r) = Len(used[r]) /\ Chat!Key(r) = Latest(r)
<1>1. /\ chatClock \in Nat /\ chatSlots \in [Keys -> Seq(Nat)] /\ chatRot \in Rotator
      /\ chatPc \in [Requests -> {"new", "ready", "waiting", "calling", "backoff", "ended"}]
      /\ chatDue \in [Requests -> Nat] /\ used \in [Requests -> Seq(Keys)]
      /\ chunks \in [Requests -> Seq(1 .. Chat!Attempts)] /\ promised \in [Keys -> Nat]
  BY SameOperators DEF Chat!TypeOK
<1>2. chatRot.index \in Keys /\ chatRot.cooldown \in [Keys -> Nat]
  BY <1>1 DEF Rotator
<1>3. ASSUME NEW r \in Requests
      PROVE  /\ Len(used[r]) \in Nat /\ DOMAIN used[r] = 1 .. Len(used[r])
             /\ used[r] # <<>> => Latest(r) \in Keys /\ Len(used[r]) > 0
             /\ Len(used[r]) <= Chat!Attempts
             /\ Chat!Attempt(r) = Len(used[r]) /\ Chat!Key(r) = Latest(r)
  <2>1. used[r] \in Seq(Keys)
    BY <1>1
  <2>2. Chat!Attempt(r) = Len(used[r]) /\ Chat!Key(r) = Latest(r)
    BY DEF Chat!Attempt, Chat!Key, Chat!Last, Latest
  <2>3. Len(used[r]) <= Chat!Attempts
    BY <2>2 DEF Chat!TypeOK
  <2> QED BY <2>1, <2>2, <2>3 DEF Latest
<1> QED BY <1>1, <1>2, <1>3

\* The rotator goes on to another key, when there is one, unless the one it stands at is the only
\* one that has rested.
LEMMA RotateMoves ==
  ASSUME NEW r \in Rotator, NEW now \in Nat, NumKeys > 1, r.cooldown[r.index] > now
  PROVE  Rotate(r, now).index # r.index
<1>1. r.index \in Keys /\ r.cooldown \in [Keys -> Nat] /\ NumKeys \in Nat /\ Keys = 1 .. NumKeys
  BY NumKeysAssumption DEF Rotator, Keys
<1> DEFINE active == ActiveKeys(r, now)
           later == {k \in active : k > r.index}
           index == IF r.index \in active /\ later # {} THEN Min(later) ELSE Min(active)
<1>2. Rotate(r, now).index = index
  <2>1. Rotate(r, now) = [Refresh(r, now) EXCEPT !.index = index]
    BY DEF Rotate
  <2>2. Refresh(r, now) \in Rotator
    BY DEF Refresh, Rotator
  <2> HIDE DEF index
  <2> QED BY <2>1, <2>2 DEF Rotator
<1>3. active \subseteq Nat /\ active # {} /\ later \subseteq Nat
  <2>1. active \subseteq Keys /\ active # {}
    BY <1>1 DEF ActiveKeys, Exhausted, Rested
  <2> QED BY <1>1, <2>1
<1>4. Min(active) \in active /\ (\A y \in active : Min(active) <= y) /\ (later # {} => Min(later) \in later)
  BY <1>3, MinIsLeast
<1>5. r.index \notin active \/ active = Keys
  BY <1>1 DEF ActiveKeys, Rested
<1>6. CASE r.index \notin active
  BY <1>2, <1>4, <1>6
<1>7. CASE r.index \in active /\ active = Keys
  <2>1. CASE later # {}
    <3>1. index = Min(later) /\ Min(later) > r.index /\ Min(later) \in Nat
      BY <1>3, <1>4, <1>7, <2>1
    <3> HIDE DEF later, active, index
    <3> QED BY <1>1, <1>2, <3>1
  <2>2. CASE later = {}
    <3>1. 1 \in active /\ NumKeys \in active
      BY <1>1, <1>7
    <3>2. ~(NumKeys > r.index)
      BY <2>2, <3>1
    <3>3. index = Min(active) /\ Min(active) <= 1
      BY <1>4, <2>2, <3>1
    <3>4. Min(active) \in Nat
      BY <1>3, <1>4
    <3> HIDE DEF later, active, index
    <3> QED BY <1>1, <1>2, <3>2, <3>3, <3>4
  <2> QED BY <2>1, <2>2
<1> QED BY <1>5, <1>6, <1>7

\* Looking for the key clears all cooldowns or none.
LEMMA GetKeyEffect ==
  ASSUME NEW r \in Rotator, NEW now \in Nat
  PROVE  /\ GetKey(r, now) \in Rotator
         /\ Exhausted(r, now) => \A k \in Keys : GetKey(r, now).cooldown[k] = 0
         /\ ~Exhausted(r, now) => GetKey(r, now).cooldown = r.cooldown
<1> DEFINE active == ActiveKeys(r, now)
           index == IF r.index \in active THEN r.index ELSE Min(active)
<1>1. Keys # {} /\ Keys \subseteq Nat /\ r.index \in Keys /\ r.cooldown \in [Keys -> Nat]
  BY NumKeysAssumption DEF Keys, Rotator
<1>2. active \subseteq Keys /\ active # {}
  BY <1>1 DEF ActiveKeys, Exhausted, Rested
<1>3. index \in Keys
  BY <1>1, <1>2, MinIsLeast
<1>4. /\ Refresh(r, now) \in Rotator
      /\ Exhausted(r, now) => Refresh(r, now).cooldown = [k \in Keys |-> 0]
      /\ ~Exhausted(r, now) => Refresh(r, now).cooldown = r.cooldown
  BY DEF Refresh, Rotator
<1>5. GetKey(r, now) = [Refresh(r, now) EXCEPT !.index = index]
  BY DEF GetKey
<1> HIDE DEF index
<1> QED BY <1>3, <1>4, <1>5 DEF Rotator

\* Rotating does so too, and ends on a key that has rested.
LEMMA RotateClears ==
  ASSUME NEW r \in Rotator, NEW now \in Nat
  PROVE  /\ Rotate(r, now) \in Rotator /\ Rotate(r, now).index \in Keys
         /\ Exhausted(r, now) => \A k \in Keys : Rotate(r, now).cooldown[k] = 0
         /\ ~Exhausted(r, now) => /\ Rotate(r, now).cooldown = r.cooldown
                                  /\ r.cooldown[Rotate(r, now).index] <= now
<1> DEFINE active == ActiveKeys(r, now)
           later == {k \in active : k > r.index}
           index == IF r.index \in active /\ later # {} THEN Min(later) ELSE Min(active)
<1>1. Keys # {} /\ Keys \subseteq Nat /\ r.index \in Keys /\ r.cooldown \in [Keys -> Nat]
  BY NumKeysAssumption DEF Keys, Rotator
<1>2. active \subseteq Keys /\ active # {}
  BY <1>1 DEF ActiveKeys, Exhausted, Rested
<1>3. index \in active
  <2>1. active \subseteq Nat /\ later \subseteq Nat /\ later \subseteq active
    BY <1>1, <1>2
  <2>2. Min(active) \in active /\ (later # {} => Min(later) \in later)
    BY <1>2, <2>1, MinIsLeast
  <2> QED BY <2>1, <2>2
<1>4. /\ Refresh(r, now) \in Rotator
      /\ Exhausted(r, now) => Refresh(r, now).cooldown = [k \in Keys |-> 0]
      /\ ~Exhausted(r, now) => Refresh(r, now).cooldown = r.cooldown
  BY DEF Refresh, Rotator
<1>5. Rotate(r, now) = [Refresh(r, now) EXCEPT !.index = index]
  BY DEF Rotate
<1>6. ~Exhausted(r, now) => \A k \in active : r.cooldown[k] <= now
  BY DEF ActiveKeys, Rested
<1> HIDE DEF index
<1> QED BY <1>2, <1>3, <1>4, <1>5, <1>6 DEF Rotator

\* The later of two moments.
LEMMA ChatLater ==
  ASSUME NEW a \in Nat, NEW b \in Nat
  PROVE  /\ Chat!Max({a, b}) \in {a, b} /\ Chat!Max({a, b}) >= a /\ Chat!Max({a, b}) >= b
         /\ a <= b => Chat!Max({a, b}) = b
<1>1. \E x \in {a, b} : \A y \in {a, b} : x >= y
  OBVIOUS
<1>2. Chat!Max({a, b}) \in {a, b} /\ \A y \in {a, b} : Chat!Max({a, b}) >= y
  BY <1>1 DEF Chat!Max
<1> HIDE DEF Chat!Max
<1> QED BY <1>2

\* A step within one attempt, or between two: nothing shared is touched.
LEMMA ChatQuiet ==
  ASSUME ChatInv, NEW r \in Requests, Under(r),
         UNCHANGED <<chatClock, chatSlots, chatRot, chatDue, used, promised, crossed, shared>>,
         NEW p, chatPc' = [chatPc EXCEPT ![r] = p],
         p \in {"ready", "calling", "ended"},
         p = "calling" => chatPc[r] \in {"waiting", "calling"},
         p = "ready" => chatPc[r] = "backoff" /\ Len(used[r]) < Chat!Attempts,
         \A q \in Requests \ {r} : chunks'[q] = chunks[q],
         chunks' \in [Requests -> Seq(1 .. Chat!Attempts)],
         outcome' \in [Requests -> {"none", "ok", "raised", "gave up"}],
         p = "ready" => chunks'[r] = <<>>,
         p = "calling" => \A i \in DOMAIN chunks'[r] : chunks'[r][i] = Len(used[r]),
         \A i, j \in DOMAIN chunks'[r] : chunks'[r][i] = chunks'[r][j]
  PROVE  ChatInv'
<1>1. Chat!TypeOK /\ KeysInUse /\ ChatLedgers
  BY DEF ChatInv
<1>2. /\ chatPc \in [Requests -> {"new", "ready", "waiting", "calling", "backoff", "ended"}]
      /\ \A q \in Requests : Len(used[q]) \in Nat
  BY <1>1, ChatTypes
<1>3. chatPc' \in [Requests -> {"new", "ready", "waiting", "calling", "backoff", "ended"}]
      /\ chatPc'[r] = p /\ \A q \in Requests \ {r} : chatPc'[q] = chatPc[q]
  BY <1>2
<1>4. Chat!TypeOK'
  BY <1>1, <1>3 DEF Chat!TypeOK, Chat!Attempt
<1>5. Chat!UsingKey' \subseteq Chat!UsingKey
  BY <1>2, <1>3 DEF Chat!UsingKey
<1>6. \A q \in Requests : Latest(q)' = Latest(q)
  BY DEF Latest
<1>7. KeysInUse'
  <2>1. Chat!ExcludedAsLongAsAskedUnlessShared'
    BY <1>1 DEF KeysInUse, Chat!ExcludedAsLongAsAskedUnlessShared, Chat!Keys
  <2>2. Chat!UsingKey \subseteq Requests
    BY DEF Chat!UsingKey
  <2>3. ASSUME NEW q \in Chat!UsingKey' PROVE (Latest(q) \notin shared => promised[Latest(q)] <= chatClock)'
    <3>1. q \in Chat!UsingKey /\ q \in Requests
      BY <1>5, <2>2
    <3> QED BY <1>1, <1>6, <3>1 DEF KeysInUse
  <2>4. ASSUME NEW q \in Chat!UsingKey', NEW o \in Chat!UsingKey'
        PROVE (q # o /\ Latest(q) = Latest(o) => Latest(o) \in shared)'
    <3>1. q \in Chat!UsingKey /\ q \in Requests /\ o \in Chat!UsingKey /\ o \in Requests
      BY <1>5, <2>2
    <3> QED BY <1>1, <1>6, <3>1 DEF KeysInUse
  <2> QED BY <2>1, <2>3, <2>4 DEF KeysInUse
<1>8. ChatLedgers'
  BY <1>1 DEF ChatLedgers
<1>9. ASSUME NEW q \in Requests PROVE ChatProgress(q)'
  <2>1. ChatProgress(q) /\ ChatProgress(r)
    BY DEF ChatInv
  <2>2. CASE q # r
    <3>1. chatPc'[q] = chatPc[q] /\ chunks'[q] = chunks[q] /\ used'[q] = used[q]
      BY <1>3, <2>2
    <3>2. Chat!Attempts' = Chat!Attempts
      BY DEF Chat!Attempts
    <3> QED BY <2>1, <3>1, <3>2 DEF ChatProgress
  <2>3. CASE q = r
    BY <1>3, <2>1, <2>3 DEF ChatProgress, Chat!Attempts
  <2> QED BY <2>2, <2>3
<1>10. ASSUME NEW q \in Requests PROVE Steered(q)'
  <2>1. Steered(q)
    BY DEF ChatInv
  <2>2. (Under(q)' => Under(q)) /\ (chatPc'[q] \in {"backoff", "ready"} => chatPc[q] \in {"backoff", "ready"})
    BY <1>3 DEF Under
  <2> QED BY <1>6, <2>1, <2>2 DEF Steered
<1> QED BY <1>4, <1>7, <1>8, <1>9, <1>10 DEF ChatInv

\* The steps of a call in which nothing fails, and those after the sleep.
LEMMA ChatQuietSteps ==
  ASSUME ChatInv, NEW r \in Requests,
         Chat!Call(r) \/ Chat!Chunk(r) \/ Chat!Finish(r) \/ Chat!Raise(r) \/ Chat!Again(r) \/ Chat!GiveUp(r)
  PROVE  ChatInv'
<1>1. Chat!TypeOK /\ ChatProgress(r)
  BY DEF ChatInv
<1>2. /\ Chat!Attempt(r) = Len(used[r]) /\ Len(used[r]) \in Nat /\ Len(used[r]) <= Chat!Attempts
      /\ chatPc \in [Requests -> {"new", "ready", "waiting", "calling", "backoff", "ended"}]
      /\ chunks \in [Requests -> Seq(1 .. Chat!Attempts)]
      /\ outcome \in [Requests -> {"none", "ok", "raised", "gave up"}]
      /\ (used[r] # <<>> => Len(used[r]) > 0) /\ Chat!Attempts \in Nat
  BY <1>1, ChatTypes, ChatConstants DEF Chat!TypeOK
<1>3. CASE Chat!Call(r)
  <2>1. /\ chatPc[r] = "waiting" /\ chatPc' = [chatPc EXCEPT ![r] = "calling"]
        /\ UNCHANGED <<chatClock, chatSlots, chatRot, chatDue, used, chunks, outcome, promised, crossed, shared>>
    BY <1>3 DEF Chat!Call, Chat!history
  <2>2. chunks[r] = <<>> /\ \A i, j \in DOMAIN chunks[r] : chunks[r][i] = chunks[r][j]
    BY <1>1, <2>1 DEF ChatProgress
  <2>3. Under(r)
    BY <2>1 DEF Under
  <2>4. chunks' \in [Requests -> Seq(1 .. Chat!Attempts)] /\ outcome' \in [Requests -> {"none", "ok", "raised", "gave up"}]
    BY <1>2, <2>1
  <2>5. \A i \in DOMAIN chunks'[r] : chunks'[r][i] = Len(used[r])
    BY <2>1, <2>2
  <2> QED BY <2>1, <2>2, <2>3, <2>4, <2>5, ChatQuiet
<1>4. CASE Chat!Chunk(r)
  <2>1. /\ chatPc[r] = "calling" /\ chunks' = [chunks EXCEPT ![r] = Append(@, Len(used[r]))]
        /\ UNCHANGED <<chatClock, chatSlots, chatRot, chatPc, chatDue, used, outcome, promised, crossed, shared>>
    BY <1>2, <1>4 DEF Chat!Chunk, Chat!history
  <2>2. used[r] # <<>> /\ \A i \in DOMAIN chunks[r] : chunks[r][i] = Len(used[r])
    BY <1>1, <2>1 DEF ChatProgress
  <2>3. Len(used[r]) \in 1 .. Chat!Attempts
    <3> DEFINE n == Len(used[r])
               m == Chat!Attempts
    <3>1. n \in Nat /\ m \in Nat /\ n <= m /\ n > 0
      BY <1>2, <2>2
    <3> HIDE DEF n, m
    <3>2. n \in 1 .. m
      BY <3>1
    <3> QED BY <3>2 DEF n, m
  <2>4. chunks[r] \in Seq(1 .. Chat!Attempts)
    BY <1>2
  <2>5. /\ chunks'[r] = Append(chunks[r], Len(used[r])) /\ chunks' \in [Requests -> Seq(1 .. Chat!Attempts)]
        /\ \A q \in Requests \ {r} : chunks'[q] = chunks[q]
    <3>1. Append(chunks[r], Len(used[r])) \in Seq(1 .. Chat!Attempts)
      BY <2>3, <2>4, AppendProperties
    <3> QED BY <1>2, <2>1, <3>1
  <2>6. ASSUME NEW i \in DOMAIN chunks'[r] PROVE chunks'[r][i] = Len(used[r])
    <3>1. /\ Len(chunks'[r]) = Len(chunks[r]) + 1 /\ chunks'[r][Len(chunks[r]) + 1] = Len(used[r])
          /\ \A k \in 1 .. Len(chunks[r]) : chunks'[r][k] = chunks[r][k]
          /\ Len(chunks[r]) \in Nat /\ DOMAIN chunks[r] = 1 .. Len(chunks[r])
          /\ DOMAIN chunks'[r] = 1 .. Len(chunks[r]) + 1
      BY <2>3, <2>4, <2>5, AppendProperties
    <3>2. i \in 1 .. Len(chunks[r]) \/ i = Len(chunks[r]) + 1
      <4> DEFINE n == Len(chunks[r])
      <4>1. n \in Nat /\ i \in 1 .. n + 1
        BY <3>1
      <4> HIDE DEF n
      <4>2. i \in 1 .. n \/ i = n + 1
        BY <4>1
      <4> QED BY <4>2 DEF n
    <3> QED BY <2>2, <3>1, <3>2
  <2>7. Under(r) /\ chatPc' = [chatPc EXCEPT ![r] = "calling"]
    <3>1. chatPc' = chatPc /\ chatPc = [chatPc EXCEPT ![r] = "calling"]
      BY <1>2, <2>1
    <3> QED BY <2>1, <3>1 DEF Under
  <2>8. outcome' \in [Requests -> {"none", "ok", "raised", "gave up"}]
    BY <1>2, <2>1
  <2>9. \A i, j \in DOMAIN chunks'[r] : chunks'[r][i] = chunks'[r][j]
    BY <2>6
  <2>10. UNCHANGED <<chatClock, chatSlots, chatRot, chatDue, used, promised, crossed, shared>>
    BY <2>1
  <2>11. chatPc[r] \in {"waiting", "calling"} /\ chunks' \in [Requests -> Seq(1 .. Chat!Attempts)]
         /\ \A q \in Requests \ {r} : chunks'[q] = chunks[q]
    BY <2>1, <2>5
  <2>12. \A i \in DOMAIN chunks'[r] : chunks'[r][i] = Len(used[r])
    BY <2>6
  <2> QED BY <2>7, <2>8, <2>9, <2>10, <2>11, <2>12, ChatQuiet
<1>5. CASE Chat!Again(r)
  <2>1. /\ chatPc[r] = "backoff" /\ chatPc' = [chatPc EXCEPT ![r] = "ready"] /\ Len(used[r]) < Chat!Attempts
        /\ UNCHANGED <<chatClock, chatSlots, chatRot, chatDue, used, chunks, outcome, promised, crossed, shared>>
    BY <1>2, <1>5 DEF Chat!Again, Chat!history, Chat!AttemptsLeft
  <2>2. chunks[r] = <<>> /\ \A i, j \in DOMAIN chunks[r] : chunks[r][i] = chunks[r][j]
    BY <1>1, <2>1 DEF ChatProgress
  <2>3. Under(r)
    BY <2>1 DEF Under
  <2>4. chunks' \in [Requests -> Seq(1 .. Chat!Attempts)] /\ outcome' \in [Requests -> {"none", "ok", "raised", "gave up"}]
    BY <1>2, <2>1
  <2> QED BY <2>1, <2>2, <2>3, <2>4, ChatQuiet
<1>6. CASE Chat!Finish(r) \/ Chat!Raise(r) \/ Chat!GiveUp(r)
  <2>1. PICK how \in {"ok", "raised", "gave up"} :
           /\ chatPc[r] \in {"calling", "backoff"} /\ chatPc' = [chatPc EXCEPT ![r] = "ended"]
           /\ outcome' = [outcome EXCEPT ![r] = how]
           /\ UNCHANGED <<chatClock, chatSlots, chatRot, chatDue, used, chunks, promised, crossed, shared>>
    BY <1>6 DEF Chat!Finish, Chat!Raise, Chat!GiveUp, Chat!End, Chat!history
  <2>2. \A i, j \in DOMAIN chunks[r] : chunks[r][i] = chunks[r][j]
    BY <1>1 DEF ChatProgress
  <2>3. Under(r)
    BY <2>1 DEF Under
  <2>4. chunks' \in [Requests -> Seq(1 .. Chat!Attempts)] /\ outcome' \in [Requests -> {"none", "ok", "raised", "gave up"}]
    BY <1>2, <2>1
  <2>5. chunks' = chunks /\ \A q \in Requests \ {r} : chunks'[q] = chunks[q]
    BY <2>1
  <2>6. \A i, j \in DOMAIN chunks'[r] : chunks'[r][i] = chunks'[r][j]
    BY <2>2, <2>5
  <2> QED BY <2>1, <2>3, <2>4, <2>5, <2>6, ChatQuiet
<1> QED BY <1>3, <1>4, <1>5, <1>6

\* Time passes: an exclusion may end, and no sleep is overslept.
LEMMA ChatTickKeeps ==
  ASSUME ChatInv, Chat!Tick
  PROVE  ChatInv'
<1>1. Chat!TypeOK /\ KeysInUse /\ ChatLedgers
  BY DEF ChatInv
<1>2. /\ chatClock \in Nat /\ chatClock' = chatClock + 1 /\ chatClock' \in Nat /\ chatClock' >= chatClock
      /\ UNCHANGED <<chatSlots, chatRot, chatPc, chatDue, used, chunks, outcome, promised, crossed, shared>>
      /\ \A r \in Requests : chatPc[r] # "ready" /\ (chatPc[r] = "backoff" => chatDue[r] > chatClock)
  BY <1>1, ChatTypes DEF Chat!Tick, Chat!request, Chat!history
<1>3. Chat!TypeOK'
  BY <1>1, <1>2 DEF Chat!TypeOK, Chat!Attempt
<1>4. Chat!UsingKey' = Chat!UsingKey /\ \A r \in Requests : Latest(r)' = Latest(r)
  BY <1>2 DEF Chat!UsingKey, Latest
<1>5. /\ promised \in [Keys -> Nat] /\ chatDue \in [Requests -> Nat] /\ chatRot.cooldown \in [Keys -> Nat]
      /\ \A r \in Chat!UsingKey : r \in Requests /\ Latest(r) \in Keys
  <2>1. ASSUME NEW r \in Chat!UsingKey PROVE r \in Requests /\ Latest(r) \in Keys
    <3>1. r \in Requests /\ chatPc[r] \in {"waiting", "calling"} /\ ChatProgress(r)
      BY DEF Chat!UsingKey, ChatInv
    <3> QED BY <1>1, <3>1, ChatTypes DEF ChatProgress
  <2> QED BY <1>1, <2>1, ChatTypes
<1>6. KeysInUse'
  <2>1. Chat!ExcludedAsLongAsAskedUnlessShared'
    <3>1. ASSUME NEW k \in Keys \ shared, promised[k] > chatClock + 1 PROVE chatRot.cooldown[k] >= promised[k]
      <4>1. promised[k] \in Nat /\ chatClock \in Nat
        BY <1>2, <1>5
      <4>2. promised[k] > chatClock
        BY <3>1, <4>1
      <4> QED BY <1>1, <4>2, SameOperators DEF KeysInUse, Chat!ExcludedAsLongAsAskedUnlessShared
    <3>2. Chat!Keys' = Chat!Keys /\ Chat!Keys = Keys
      BY SameOperators DEF Chat!Keys
    <3> QED BY <1>2, <3>1, <3>2 DEF Chat!ExcludedAsLongAsAskedUnlessShared
  <2>2. ASSUME NEW r \in Chat!UsingKey PROVE Latest(r) \notin shared => promised[Latest(r)] <= chatClock + 1
    <3>1. promised[Latest(r)] \in Nat /\ (Latest(r) \notin shared => promised[Latest(r)] <= chatClock)
      BY <1>1, <1>5 DEF KeysInUse
    <3> QED BY <1>2, <3>1
  <2>3. \A q, r \in Chat!UsingKey : q # r /\ Latest(q) = Latest(r) => Latest(r) \in shared
    BY <1>1 DEF KeysInUse
  <2>4. \A r \in Chat!UsingKey' : (Latest(r) \notin shared => promised[Latest(r)] <= chatClock)'
    BY <1>2, <1>4, <1>5, <2>2
  <2>5. \A q, r \in Chat!UsingKey' : (q # r /\ Latest(q) = Latest(r) => Latest(r) \in shared)'
    BY <1>2, <1>4, <1>5, <2>3
  <2> QED BY <2>1, <2>4, <2>5 DEF KeysInUse
<1>7. ChatLedgers'
  <2>1. ASSUME NEW k \in Keys PROVE \E all \in Seq(Nat) : IsLedger(all, chatSlots[k], chatClock')
    <3>1. PICK all \in Seq(Nat) : IsLedger(all, chatSlots[k], chatClock)
      BY <1>1 DEF ChatLedgers
    <3> QED BY <1>2, <3>1, LedgerLater
  <2> QED BY <1>2, <2>1 DEF ChatLedgers
<1>8. ASSUME NEW r \in Requests PROVE ChatProgress(r)'
  <2>1. ChatProgress(r) /\ Chat!Attempts' = Chat!Attempts
    BY DEF ChatInv, Chat!Attempts
  <2> QED BY <1>2, <2>1 DEF ChatProgress
<1>9. ASSUME NEW r \in Requests PROVE Steered(r)'
  <2>1. Steered(r) /\ Under(r)' = Under(r) /\ chatDue[r] \in Nat
    BY <1>2, <1>5 DEF ChatInv, Under
  <2>2. chatPc[r] \in {"backoff", "ready"} => chatDue[r] >= chatClock + 1
    BY <1>2, <2>1
  <2> QED BY <1>2, <1>4, <2>1, <2>2 DEF Steered
<1> QED BY <1>3, <1>6, <1>7, <1>8, <1>9 DEF ChatInv

\* A use of the rotator is noticed by every other request under way.
LEMMA ChatCrossed ==
  ASSUME NEW r \in Requests, Chat!TypeOK, Chat!Cross(r)
  PROVE  /\ crossed \subseteq crossed' /\ crossed' \subseteq Requests
         /\ \A q \in Requests \ {r} : Under(q) => q \in crossed'
BY DEF Chat!Cross, Under, Chat!TypeOK

\* What a use of the rotator leaves of the exclusions asked for.
LEMMA ChatCleared ==
  ASSUME Chat!TypeOK, Chat!ExcludedAsLongAsAskedUnlessShared, Chat!ClearPromises,
         NEW s, s \in Rotator, chatRot' = s,
         Exhausted(chatRot, chatClock) => \A k \in Keys : s.cooldown[k] = 0,
         ~Exhausted(chatRot, chatClock) => s.cooldown = chatRot.cooldown,
         chatClock' = chatClock, shared \subseteq shared'
  PROVE  /\ promised' \in [Keys -> Nat] /\ \A k \in Keys : promised'[k] <= promised[k]
         /\ Exhausted(chatRot, chatClock) => \A k \in Keys : promised'[k] = 0
         /\ ~Exhausted(chatRot, chatClock) => promised' = promised
         /\ Chat!ExcludedAsLongAsAskedUnlessShared'
<1>1. promised' = IF Exhausted(chatRot, chatClock) THEN [k \in Keys |-> 0] ELSE promised
  BY SameOperators DEF Chat!ClearPromises
<1>2. promised \in [Keys -> Nat] /\ chatClock \in Nat
  BY ChatTypes
<1>3. \A k \in Keys \ shared : promised[k] > chatClock => chatRot.cooldown[k] >= promised[k]
  BY SameOperators DEF Chat!ExcludedAsLongAsAskedUnlessShared
<1>4. ASSUME NEW k \in Keys \ shared', promised'[k] > chatClock PROVE s.cooldown[k] >= promised'[k]
  <2>1. ~Exhausted(chatRot, chatClock)
    BY <1>1, <1>2, <1>4
  <2> QED BY <1>1, <1>3, <1>4, <2>1
<1>5. Chat!Keys' = Keys
  BY SameOperators DEF Chat!Keys
<1>6. Chat!ExcludedAsLongAsAskedUnlessShared'
  BY <1>4, <1>5 DEF Chat!ExcludedAsLongAsAskedUnlessShared
<1>7. CASE Exhausted(chatRot, chatClock)
  BY <1>1, <1>2, <1>6, <1>7
<1>8. CASE ~Exhausted(chatRot, chatClock)
  <2>1. promised' = promised
    BY <1>1, <1>8
  <2>2. \A k \in Keys : promised'[k] <= promised[k]
    BY <1>2, <2>1
  <2> QED BY <1>2, <1>6, <1>8, <2>1, <2>2
<1> QED BY <1>7, <1>8

\* A request that begins has looked at the rotator.
LEMMA ChatStartKeeps ==
  ASSUME ChatInv, NEW r \in Requests, Chat!Start(r)
  PROVE  ChatInv'
<1>1. Chat!TypeOK /\ KeysInUse /\ ChatLedgers /\ ChatProgress(r)
  BY DEF ChatInv
<1>2. /\ chatPc[r] = "new" /\ chatPc' = [chatPc EXCEPT ![r] = "ready"] /\ chatRot' = GetKey(chatRot, chatClock)
      /\ Chat!ClearPromises /\ Chat!Cross(r)
      /\ UNCHANGED <<chatClock, chatSlots, chatDue, used, chunks, outcome, shared>>
  BY SameOperators DEF Chat!Start
<1>3. /\ chatRot \in Rotator /\ chatClock \in Nat /\ promised \in [Keys -> Nat]
      /\ chatPc \in [Requests -> {"new", "ready", "waiting", "calling", "backoff", "ended"}]
  BY <1>1, ChatTypes
<1>4. /\ chatRot' \in Rotator /\ promised' \in [Keys -> Nat] /\ \A k \in Keys : promised'[k] <= promised[k]
      /\ Chat!ExcludedAsLongAsAskedUnlessShared'
  <2>1. /\ GetKey(chatRot, chatClock) \in Rotator
        /\ Exhausted(chatRot, chatClock) => \A k \in Keys : GetKey(chatRot, chatClock).cooldown[k] = 0
        /\ ~Exhausted(chatRot, chatClock) => GetKey(chatRot, chatClock).cooldown = chatRot.cooldown
    BY <1>3, GetKeyEffect
  <2>2. Chat!ExcludedAsLongAsAskedUnlessShared /\ chatClock' = chatClock /\ shared \subseteq shared'
    BY <1>1, <1>2 DEF KeysInUse
  <2> HIDE DEF Chat!ExcludedAsLongAsAskedUnlessShared
  <2> QED BY <1>1, <1>2, <2>1, <2>2, ChatCleared
<1>5. /\ crossed \subseteq crossed' /\ crossed' \subseteq Requests
      /\ \A q \in Requests \ {r} : Under(q) => q \in crossed'
  BY <1>1, <1>2, ChatCrossed
<1>6. /\ chatPc' \in [Requests -> {"new", "ready", "waiting", "calling", "backoff", "ended"}]
      /\ chatPc'[r] = "ready" /\ \A q \in Requests \ {r} : chatPc'[q] = chatPc[q]
  BY <1>2, <1>3
<1>7. Chat!TypeOK'
  <2>1. Chat!Keys' = Keys /\ Chat!Keys = Keys /\ Chat!Rotator' = Rotator
    BY SameOperators DEF Chat!Keys, Chat!Rotator, Rotator, Keys
  <2>2. Chat!Attempts' = Chat!Attempts
    BY DEF Chat!Attempts
  <2> QED BY <1>1, <1>2, <1>4, <1>5, <1>6, <2>1, <2>2 DEF Chat!TypeOK, Chat!Attempt
<1>8. Chat!UsingKey' \subseteq Chat!UsingKey /\ \A q \in Requests : Latest(q)' = Latest(q)
  BY <1>2, <1>6 DEF Chat!UsingKey, Latest
<1>9. KeysInUse'
  <2>1. ASSUME NEW q \in Chat!UsingKey' PROVE (Latest(q) \notin shared => promised[Latest(q)] <= chatClock)'
    <3>1. q \in Chat!UsingKey /\ q \in Requests /\ chatPc[q] \in {"waiting", "calling"} /\ ChatProgress(q)
      BY <1>8 DEF Chat!UsingKey, ChatInv
    <3>2. Latest(q) \in Keys
      BY <1>1, <3>1, ChatTypes DEF ChatProgress
    <3>3. Latest(q) \notin shared => promised[Latest(q)] <= chatClock
      BY <1>1, <3>1 DEF KeysInUse
    <3>4. promised[Latest(q)] \in Nat /\ promised'[Latest(q)] \in Nat /\ promised'[Latest(q)] <= promised[Latest(q)]
      BY <1>3, <1>4, <3>2
    <3>5. Latest(q)' = Latest(q)
      BY <1>8, <3>1
    <3> HIDE DEF Latest
    <3> QED BY <1>2, <1>3, <3>3, <3>4, <3>5
  <2>2. ASSUME NEW q \in Chat!UsingKey', NEW o \in Chat!UsingKey'
        PROVE (q # o /\ Latest(q) = Latest(o) => Latest(o) \in shared)'
    <3>1. q \in Chat!UsingKey /\ q \in Requests /\ o \in Chat!UsingKey /\ o \in Requests
      BY <1>8 DEF Chat!UsingKey
    <3> QED BY <1>1, <1>2, <1>8, <3>1 DEF KeysInUse
  <2> QED BY <1>4, <2>1, <2>2 DEF KeysInUse
<1>10. ChatLedgers'
  BY <1>1, <1>2 DEF ChatLedgers
<1>11. ASSUME NEW q \in Requests PROVE ChatProgress(q)'
  <2>1. ChatProgress(q) /\ Chat!Attempts' = Chat!Attempts
    BY DEF ChatInv, Chat!Attempts
  <2>2. CASE q # r
    BY <1>2, <1>6, <2>1, <2>2 DEF ChatProgress
  <2>3. CASE q = r
    <3>1. used[r] = <<>> /\ chunks[r] = <<>> /\ Chat!Attempts \in Nat \ {0} /\ Len(<<>>) = 0
      BY <1>1, <1>2, ChatConstants DEF ChatProgress
    <3>2. Len(used[r]) < Chat!Attempts
      BY <3>1
    <3> QED BY <1>2, <1>6, <2>1, <2>3, <3>1, <3>2 DEF ChatProgress
  <2> QED BY <2>2, <2>3
<1>12. ASSUME NEW q \in Requests PROVE Steered(q)'
  <2>1. Steered(q)
    BY DEF ChatInv
  <2>2. CASE q = r
    <3>1. used'[r] = <<>> /\ Len(<<>>) = 0 /\ 2 .. 0 = {}
      BY <1>1, <1>2 DEF ChatProgress
    <3> QED BY <2>2, <3>1 DEF Steered
  <2>3. CASE q # r
    <3>1. q \notin crossed' => q \notin crossed /\ ~Under(q)
      BY <1>5, <2>3
    <3>2. Under(q)' = Under(q) /\ chatPc'[q] = chatPc[q] /\ used' = used
      BY <1>2, <1>6, <2>3 DEF Under
    <3> QED BY <2>1, <3>1, <3>2 DEF Steered, Under
  <2> QED BY <2>2, <2>3
<1> QED BY <1>7, <1>9, <1>10, <1>11, <1>12 DEF ChatInv

\* The next attempt has a key that rests no longer, and another one than before.
LEMMA ChatTakeKeyKeeps ==
  ASSUME ChatInv, NEW r \in Requests, Chat!TakeKey(r)
  PROVE  ChatInv'
<1> DEFINE key == Rotate(chatRot, chatClock).index
           earlier == used[r]
           n == Len(earlier)
<1>1. Chat!TypeOK /\ KeysInUse /\ ChatLedgers /\ ChatProgress(r) /\ Steered(r)
  BY DEF ChatInv
<1>2. /\ chatPc[r] = "ready" /\ chatPc' = [chatPc EXCEPT ![r] = "waiting"] /\ chatRot' = Rotate(chatRot, chatClock)
      /\ Chat!ClearPromises /\ Chat!Cross(r)
      /\ shared' = IF \E q \in Chat!UsingKey : Chat!Key(q) = key THEN shared \cup {key} ELSE shared
      /\ used' = [used EXCEPT ![r] = Append(earlier, key)]
      /\ chatDue' = [chatDue EXCEPT ![r] = StartFor(Live(chatSlots[key], chatClock), chatClock)]
      /\ chatSlots' = [chatSlots EXCEPT ![key] = Booked(chatSlots[key], chatClock)]
      /\ UNCHANGED <<chatClock, chunks, outcome>>
  BY SameOperators DEF Chat!TakeKey
<1>3. /\ chatRot \in Rotator /\ chatClock \in Nat /\ promised \in [Keys -> Nat] /\ chatSlots \in [Keys -> Seq(Nat)]
      /\ chatDue \in [Requests -> Nat] /\ used \in [Requests -> Seq(Keys)] /\ chatRot.cooldown \in [Keys -> Nat]
      /\ chatPc \in [Requests -> {"new", "ready", "waiting", "calling", "backoff", "ended"}]
      /\ earlier \in Seq(Keys) /\ n \in Nat /\ chatRot.index \in Keys
  BY <1>1, ChatTypes
<1>4. /\ Rotate(chatRot, chatClock) \in Rotator /\ key \in Keys
      /\ Exhausted(chatRot, chatClock) => \A k \in Keys : Rotate(chatRot, chatClock).cooldown[k] = 0
      /\ ~Exhausted(chatRot, chatClock) => Rotate(chatRot, chatClock).cooldown = chatRot.cooldown /\ chatRot.cooldown[key] <= chatClock
  BY <1>3, RotateClears
<1>5. shared \subseteq shared' /\ ((\E q \in Chat!UsingKey : Latest(q) = key) => key \in shared')
  <2>1. \A q \in Chat!UsingKey : Chat!Key(q) = Latest(q)
    BY <1>1, ChatTypes DEF Chat!UsingKey
  <2> HIDE DEF key, Latest
  <2> QED BY <1>2, <2>1
<1>6. /\ promised' \in [Keys -> Nat] /\ \A k \in Keys : promised'[k] <= promised[k]
      /\ Exhausted(chatRot, chatClock) => \A k \in Keys : promised'[k] = 0
      /\ ~Exhausted(chatRot, chatClock) => promised' = promised
      /\ Chat!ExcludedAsLongAsAskedUnlessShared'
  <2>1. Chat!ExcludedAsLongAsAskedUnlessShared /\ chatClock' = chatClock /\ shared \subseteq shared'
    BY <1>1, <1>2, <1>5 DEF KeysInUse
  <2>2. ~Exhausted(chatRot, chatClock) => Rotate(chatRot, chatClock).cooldown = chatRot.cooldown
    BY <1>4
  <2> HIDE DEF Chat!ExcludedAsLongAsAskedUnlessShared
  <2> QED BY <1>1, <1>2, <1>4, <2>1, <2>2, ChatCleared
<1>7. /\ crossed \subseteq crossed' /\ crossed' \subseteq Requests
      /\ \A q \in Requests \ {r} : Under(q) => q \in crossed'
  BY <1>1, <1>2, ChatCrossed
<1>8. /\ StartFor(Live(chatSlots[key], chatClock), chatClock) \in Nat /\ Booked(chatSlots[key], chatClock) \in Seq(Nat)
      /\ \E all \in Seq(Nat) : IsLedger(all, Booked(chatSlots[key], chatClock), chatClock)
  <2>1. PICK all \in Seq(Nat) : IsLedger(all, chatSlots[key], chatClock)
    BY <1>1, <1>4 DEF ChatLedgers
  <2> HIDE DEF key
  <2>2. /\ StartFor(Live(chatSlots[key], chatClock), chatClock) \in Nat
        /\ Append(all, StartFor(Live(chatSlots[key], chatClock), chatClock)) \in Seq(Nat)
        /\ Booked(chatSlots[key], chatClock) \in Seq(Nat)
        /\ IsLedger(Append(all, StartFor(Live(chatSlots[key], chatClock), chatClock)), Booked(chatSlots[key], chatClock), chatClock)
    BY <1>3, <2>1, BookingKeepsLedger
  <2> QED BY <2>2
<1>9. /\ chatRot'.index = key /\ shared' \subseteq Keys
      /\ chatRot' \in Rotator
  <2>1. shared \subseteq Keys
    BY <1>1, SameOperators DEF Chat!TypeOK
  <2> QED BY <1>2, <1>4, <2>1
<1> HIDE DEF key
<1>10. /\ Append(earlier, key) \in Seq(Keys) /\ Len(Append(earlier, key)) = n + 1
       /\ Append(earlier, key)[n + 1] = key /\ \A i \in 1 .. n : Append(earlier, key)[i] = earlier[i]
  BY <1>3, <1>4, AppendProperties
<1>11. /\ used' \in [Requests -> Seq(Keys)] /\ used'[r] = Append(earlier, key)
       /\ \A q \in Requests \ {r} : used'[q] = used[q]
       /\ chatDue' \in [Requests -> Nat] /\ chatSlots' \in [Keys -> Seq(Nat)]
       /\ chatPc' \in [Requests -> {"new", "ready", "waiting", "calling", "backoff", "ended"}]
       /\ chatPc'[r] = "waiting" /\ \A q \in Requests \ {r} : chatPc'[q] = chatPc[q] /\ chatDue'[q] = chatDue[q]
  BY <1>2, <1>3, <1>4, <1>8, <1>10
<1>12. n + 1 <= Chat!Attempts
  <2>1. n < Chat!Attempts /\ Chat!Attempts \in Nat
    BY <1>1, <1>2, ChatConstants DEF ChatProgress
  <2> HIDE DEF n
  <2> QED BY <1>3, <2>1
<1>13. Latest(r)' = key /\ \A q \in Requests \ {r} : Latest(q)' = Latest(q)
  <2>1. Len(used'[r]) = n + 1 /\ used'[r][n + 1] = key
    BY <1>10, <1>11
  <2> QED BY <1>11, <2>1 DEF Latest
<1>14. Chat!TypeOK'
  <2>1. Chat!Keys' = Keys /\ Chat!Keys = Keys /\ Chat!Rotator' = Rotator /\ Chat!Attempts' = Chat!Attempts
    BY SameOperators DEF Chat!Keys, Chat!Rotator, Rotator, Keys, Chat!Attempts
  <2>2. ASSUME NEW q \in Requests PROVE Chat!Attempt(q)' <= Chat!Attempts
    <3>1. CASE q = r
      BY <1>10, <1>11, <1>12, <3>1 DEF Chat!Attempt
    <3>2. CASE q # r
      BY <1>1, <1>11, <3>2 DEF Chat!Attempt, Chat!TypeOK
    <3> QED BY <3>1, <3>2
  <2>3. chunks' \in [Requests -> Seq(1 .. Chat!Attempts)] /\ outcome' \in [Requests -> {"none", "ok", "raised", "gave up"}]
        /\ chatClock' \in Nat
    BY <1>1, <1>2 DEF Chat!TypeOK
  <2> QED BY <1>6, <1>7, <1>9, <1>11, <2>1, <2>2, <2>3 DEF Chat!TypeOK
<1>15. ASSUME NEW q \in Chat!UsingKey', q # r
       PROVE  q \in Chat!UsingKey /\ q \in Requests /\ Latest(q) \in Keys /\ Latest(q)' = Latest(q)
  <2>1. q \in Requests /\ chatPc[q] \in {"waiting", "calling"} /\ ChatProgress(q) /\ q \in Chat!UsingKey
    BY <1>11, <1>15 DEF Chat!UsingKey, ChatInv
  <2>2. Latest(q) \in Keys
    BY <1>1, <2>1, ChatTypes DEF ChatProgress
  <2> QED BY <1>13, <1>15, <2>1, <2>2
<1>16. KeysInUse'
  <2>1. key \notin shared' => promised'[key] <= chatClock
    <3>1. CASE Exhausted(chatRot, chatClock)
      BY <1>3, <1>4, <1>6, <3>1
    <3>2. CASE ~Exhausted(chatRot, chatClock)
      <4>1. promised'[key] = promised[key] /\ chatRot.cooldown[key] <= chatClock /\ promised[key] \in Nat /\ chatRot.cooldown[key] \in Nat
        BY <1>3, <1>4, <1>6, <3>2 DEF key
      <4>2. key \notin shared => (promised[key] > chatClock => chatRot.cooldown[key] >= promised[key])
        BY <1>1, <1>4, SameOperators DEF KeysInUse, Chat!ExcludedAsLongAsAskedUnlessShared
      <4> QED BY <1>3, <1>5, <4>1, <4>2
    <3> QED BY <3>1, <3>2
  <2>2. ASSUME NEW q \in Chat!UsingKey' PROVE (Latest(q) \notin shared => promised[Latest(q)] <= chatClock)'
    <3>1. CASE q = r
      BY <1>2, <1>13, <2>1, <3>1
    <3>2. CASE q # r
      <4>1. q \in Chat!UsingKey /\ Latest(q) \in Keys /\ Latest(q)' = Latest(q)
        BY <1>15, <3>2
      <4>2. Latest(q) \notin shared => promised[Latest(q)] <= chatClock
        BY <1>1, <4>1 DEF KeysInUse
      <4>3. promised[Latest(q)] \in Nat /\ promised'[Latest(q)] \in Nat /\ promised'[Latest(q)] <= promised[Latest(q)]
        BY <1>3, <1>6, <4>1
      <4> HIDE DEF Latest
      <4> QED BY <1>2, <1>3, <1>5, <4>1, <4>2, <4>3
    <3> QED BY <3>1, <3>2
  <2>3. ASSUME NEW q \in Chat!UsingKey', NEW o \in Chat!UsingKey'
        PROVE (q # o /\ Latest(q) = Latest(o) => Latest(o) \in shared)'
    <3>1. CASE q # r /\ o # r
      <4>1. /\ q \in Chat!UsingKey /\ Latest(q)' = Latest(q)
            /\ o \in Chat!UsingKey /\ Latest(o)' = Latest(o)
        BY <1>15, <3>1
      <4>2. q # o /\ Latest(q) = Latest(o) => Latest(o) \in shared
        BY <1>1, <4>1 DEF KeysInUse
      <4> HIDE DEF Latest
      <4> QED BY <1>5, <4>1, <4>2
    <3>2. CASE q = r /\ o # r
      <4>1. o \in Chat!UsingKey /\ Latest(o)' = Latest(o) /\ Latest(q)' = key
        BY <1>13, <1>15, <3>2
      <4> HIDE DEF Latest
      <4> QED BY <1>5, <4>1
    <3>3. CASE q # r /\ o = r
      <4>1. q \in Chat!UsingKey /\ Latest(q)' = Latest(q) /\ Latest(o)' = key
        BY <1>13, <1>15, <3>3
      <4> HIDE DEF Latest
      <4> QED BY <1>5, <4>1
    <3> QED BY <3>1, <3>2, <3>3
  <2> QED BY <1>6, <2>2, <2>3 DEF KeysInUse
<1>17. ChatLedgers'
  <2>1. ASSUME NEW k \in Keys PROVE \E all \in Seq(Nat) : IsLedger(all, chatSlots'[k], chatClock')
    <3>1. CASE k = key
      <4>1. chatSlots'[k] = Booked(chatSlots[key], chatClock) /\ chatClock' = chatClock
        BY <1>2, <1>3, <1>4, <3>1
      <4> QED BY <1>8, <4>1
    <3>2. CASE k # key
      <4>1. chatSlots'[k] = chatSlots[k] /\ chatClock' = chatClock
        BY <1>2, <1>3, <3>2
      <4> QED BY <1>1, <4>1 DEF ChatLedgers
    <3> QED BY <3>1, <3>2
  <2> QED BY <2>1 DEF ChatLedgers
<1>18. ASSUME NEW q \in Requests PROVE ChatProgress(q)'
  <2>1. ChatProgress(q) /\ Chat!Attempts' = Chat!Attempts
    BY DEF ChatInv, Chat!Attempts
  <2>2. CASE q # r
    BY <1>2, <1>11, <2>1, <2>2 DEF ChatProgress
  <2>3. CASE q = r
    <3>1. used'[r] # <<>>
      <4>1. Len(used'[r]) = n + 1 /\ Len(<<>>) = 0
        BY <1>10, <1>11
      <4> HIDE DEF n
      <4> QED BY <1>3, <4>1
    <3> QED BY <1>2, <1>11, <2>1, <2>3, <3>1 DEF ChatProgress
  <2> QED BY <2>2, <2>3
<1>19. ASSUME NumKeys > 1, r \notin crossed', NEW i \in 2 .. n + 1
       PROVE  used'[r][i] # used'[r][i - 1]
  <2>1. r \notin crossed /\ \A j \in 2 .. n : earlier[j] # earlier[j - 1]
    BY <1>1, <1>7, <1>19 DEF Steered
  <2>2. n \in Nat /\ i \in Nat /\ 2 <= i /\ i <= n + 1 /\ i - 1 \in 1 .. n
    <3> HIDE DEF n
    <3> QED BY <1>3, <1>19
  <2>3. CASE i = n + 1
    <3>1. n # 0 /\ i - 1 = n
      <4> HIDE DEF n
      <4> QED BY <2>2, <2>3
    <3>2. earlier # <<>>
      BY <3>1
    <3>3. chatRot.index = earlier[n] /\ chatDue[r] >= chatClock /\ chatRot.cooldown[earlier[n]] > chatDue[r]
      BY <1>1, <1>2, <1>19, <2>1, <3>2 DEF Steered, Under, Latest
    <3>4. chatRot.cooldown[chatRot.index] > chatClock
      <4>1. chatRot.cooldown[chatRot.index] \in Nat /\ chatDue[r] \in Nat
        BY <1>3
      <4> HIDE DEF n, earlier
      <4> QED BY <1>3, <3>3, <4>1
    <3>5. key # chatRot.index
      BY <1>3, <1>19, <3>4, RotateMoves DEF key
    <3>6. used'[r][i] = key /\ used'[r][i - 1] = earlier[n]
      BY <1>10, <1>11, <2>2, <2>3, <3>1
    <3> QED BY <3>3, <3>5, <3>6
  <2>4. CASE i # n + 1
    <3>1. i \in 1 .. n /\ i \in 2 .. n
      <4> HIDE DEF n
      <4> QED BY <2>2, <2>4
    <3>2. used'[r][i] = earlier[i] /\ used'[r][i - 1] = earlier[i - 1]
      BY <1>10, <1>11, <2>2, <3>1
    <3> QED BY <2>1, <3>1, <3>2
  <2> QED BY <2>3, <2>4
<1>20. ASSUME NEW q \in Requests PROVE Steered(q)'
  <2>1. Steered(q)
    BY DEF ChatInv
  <2>2. CASE q = r
    <3>1. Len(used'[r]) = n + 1 /\ chatPc'[r] = "waiting"
      BY <1>10, <1>11
    <3> QED BY <1>9, <1>13, <1>19, <2>2, <3>1 DEF Steered
  <2>3. CASE q # r
    <3>1. q \notin crossed' => q \notin crossed /\ ~Under(q)
      BY <1>7, <2>3
    <3>2. Under(q)' = Under(q) /\ chatPc'[q] = chatPc[q] /\ used'[q] = used[q]
      BY <1>11, <2>3 DEF Under
    <3> QED BY <2>1, <3>1, <3>2 DEF Steered, Under
  <2> QED BY <2>2, <2>3
<1> QED BY <1>14, <1>16, <1>17, <1>18, <1>20 DEF ChatInv

\* The key that failed rests for longer than the request sleeps.
LEMMA ChatRetryKeeps ==
  ASSUME ChatInv, NEW r \in Requests, NEW rest \in {ChatRateCooldown, ChatFailCooldown}, Chat!Retry(r, rest)
  PROVE  ChatInv'
<1> DEFINE key == Latest(r)
           until == chatClock + rest
           longest == Chat!Max({promised[key], until})
<1>1. Chat!TypeOK /\ KeysInUse /\ ChatLedgers /\ ChatProgress(r) /\ Steered(r)
  BY DEF ChatInv
<1>2. /\ chatRot \in Rotator /\ chatClock \in Nat /\ promised \in [Keys -> Nat] /\ chatSlots \in [Keys -> Seq(Nat)]
      /\ chatDue \in [Requests -> Nat] /\ chatRot.cooldown \in [Keys -> Nat]
      /\ chatPc \in [Requests -> {"new", "ready", "waiting", "calling", "backoff", "ended"}]
      /\ Chat!Key(r) = key /\ Chat!Attempt(r) = Len(used[r]) /\ chatRot.index \in Keys
      /\ chunks[r] \in Seq(1 .. Chat!Attempts)
  BY <1>1, ChatTypes
<1>3. /\ chatPc[r] = "calling" /\ chatPc' = [chatPc EXCEPT ![r] = "backoff"] /\ Chat!NotStarted(r)
      /\ chatRot' = MarkFailed(chatRot, key, until) /\ promised' = [promised EXCEPT ![key] = longest]
      /\ Chat!Cross(r) /\ chatDue' = [chatDue EXCEPT ![r] = chatClock + Backoff]
      /\ UNCHANGED <<chatClock, chatSlots, used, chunks, outcome, shared>>
  BY <1>2, SameOperators DEF Chat!Retry
<1>4. key \in Keys /\ used[r] # <<>> /\ r \in Chat!UsingKey
  BY <1>1, <1>3, ChatTypes DEF ChatProgress, Chat!UsingKey
<1>5. rest \in Nat /\ Backoff \in Nat /\ Backoff < rest
  BY <1>1, ChatConstants
<1>6. until \in Nat /\ chatClock <= until /\ chatClock + Backoff \in Nat /\ until > chatClock + Backoff /\ chatClock + Backoff >= chatClock
  BY <1>2, <1>5
<1>7. promised[key] \in Nat /\ longest \in Nat /\ longest >= promised[key]
      /\ (promised[key] <= chatClock => longest = until)
  <2>1. promised[key] \in Nat
    BY <1>2, <1>4
  <2>2. promised[key] <= chatClock => promised[key] <= until
    <3> DEFINE p == promised[key]
    <3> HIDE DEF p, until
    <3>1. p <= chatClock => p <= until
      BY <1>2, <1>6, <2>1 DEF p
    <3> QED BY <3>1 DEF p
  <2> HIDE DEF until, key
  <2> QED BY <1>6, <2>1, <2>2, ChatLater
<1> HIDE DEF key, until, longest
<1>8. /\ chatRot' \in Rotator /\ chatRot'.index = chatRot.index /\ chatRot'.cooldown[key] = until
      /\ \A k \in Keys \ {key} : chatRot'.cooldown[k] = chatRot.cooldown[k]
  <2>1. chatRot' = [chatRot EXCEPT !.cooldown = [chatRot.cooldown EXCEPT ![key] = until]]
    BY <1>2, <1>3 DEF MarkFailed, Rotator
  <2>2. [chatRot.cooldown EXCEPT ![key] = until] \in [Keys -> Nat]
    BY <1>2, <1>4, <1>6
  <2>3. chatRot' \in Rotator /\ chatRot'.index = chatRot.index /\ chatRot'.cooldown = [chatRot.cooldown EXCEPT ![key] = until]
    BY <1>2, <2>1, <2>2 DEF Rotator
  <2> QED BY <1>2, <1>4, <2>3
<1>9. /\ promised' \in [Keys -> Nat] /\ promised'[key] = longest
      /\ \A k \in Keys \ {key} : promised'[k] = promised[k]
  BY <1>2, <1>3, <1>4, <1>7
<1>10. /\ crossed \subseteq crossed' /\ crossed' \subseteq Requests
       /\ \A q \in Requests \ {r} : Under(q) => q \in crossed'
  BY <1>1, <1>3, ChatCrossed
<1>11. /\ chatPc' \in [Requests -> {"new", "ready", "waiting", "calling", "backoff", "ended"}]
       /\ chatDue' \in [Requests -> Nat] /\ chatDue'[r] = chatClock + Backoff
       /\ chatPc'[r] = "backoff" /\ \A q \in Requests \ {r} : chatPc'[q] = chatPc[q] /\ chatDue'[q] = chatDue[q]
  BY <1>2, <1>3, <1>6
<1>12. Chat!TypeOK'
  <2>1. Chat!Keys' = Keys /\ Chat!Keys = Keys /\ Chat!Rotator' = Rotator /\ Chat!Attempts' = Chat!Attempts
    BY SameOperators DEF Chat!Keys, Chat!Rotator, Rotator, Keys, Chat!Attempts
  <2> QED BY <1>1, <1>3, <1>8, <1>9, <1>10, <1>11, <2>1 DEF Chat!TypeOK, Chat!Attempt
<1>13. \A q \in Requests : Latest(q)' = Latest(q)
  BY <1>3 DEF Latest
<1>14. ASSUME NEW q \in Chat!UsingKey'
       PROVE  q # r /\ q \in Chat!UsingKey /\ q \in Requests /\ Latest(q) \in Keys /\ Latest(q)' = Latest(q)
  <2>1. q # r /\ q \in Requests /\ chatPc[q] \in {"waiting", "calling"} /\ ChatProgress(q) /\ q \in Chat!UsingKey
    BY <1>11 DEF Chat!UsingKey, ChatInv
  <2>2. Latest(q) \in Keys
    BY <1>1, <2>1, ChatTypes DEF ChatProgress
  <2> QED BY <1>13, <2>1, <2>2
<1>15. KeysInUse'
  <2>1. key \notin shared => promised[key] <= chatClock
    BY <1>1, <1>4 DEF KeysInUse, key
  <2>2. ASSUME NEW k \in Keys \ shared, promised'[k] > chatClock PROVE chatRot'.cooldown[k] >= promised'[k]
    <3>1. CASE k = key
      BY <1>6, <1>7, <1>8, <1>9, <2>1, <2>2, <3>1
    <3>2. CASE k # key
      BY <1>1, <1>8, <1>9, <2>2, <3>2, SameOperators DEF KeysInUse, Chat!ExcludedAsLongAsAskedUnlessShared
    <3> QED BY <3>1, <3>2
  <2>3. Chat!ExcludedAsLongAsAskedUnlessShared'
    <3>1. Chat!Keys' = Keys
      BY SameOperators DEF Chat!Keys
    <3> QED BY <1>3, <2>2, <3>1 DEF Chat!ExcludedAsLongAsAskedUnlessShared
  <2>4. ASSUME NEW q \in Chat!UsingKey' PROVE (Latest(q) \notin shared => promised[Latest(q)] <= chatClock)'
    <3>1. q # r /\ q \in Chat!UsingKey /\ Latest(q) \in Keys /\ Latest(q)' = Latest(q)
      BY <1>14
    <3>2. Latest(q) \notin shared => Latest(q) # key
      BY <1>1, <1>4, <3>1 DEF KeysInUse, key
    <3>3. Latest(q) \notin shared => promised[Latest(q)] <= chatClock
      BY <1>1, <3>1 DEF KeysInUse
    <3> QED BY <1>3, <1>9, <3>1, <3>2, <3>3
  <2>5. ASSUME NEW q \in Chat!UsingKey', NEW o \in Chat!UsingKey'
        PROVE (q # o /\ Latest(q) = Latest(o) => Latest(o) \in shared)'
    <3>1. /\ q \in Chat!UsingKey /\ Latest(q)' = Latest(q)
          /\ o \in Chat!UsingKey /\ Latest(o)' = Latest(o)
      BY <1>14
    <3> QED BY <1>1, <1>3, <3>1 DEF KeysInUse
  <2> QED BY <2>3, <2>4, <2>5 DEF KeysInUse
<1>16. ChatLedgers'
  BY <1>1, <1>3 DEF ChatLedgers
<1>17. ASSUME NEW q \in Requests PROVE ChatProgress(q)'
  <2>1. ChatProgress(q) /\ Chat!Attempts' = Chat!Attempts
    BY DEF ChatInv, Chat!Attempts
  <2>2. CASE q # r
    BY <1>3, <1>11, <2>1, <2>2 DEF ChatProgress
  <2>3. CASE q = r
    <3>1. chunks[r] = <<>>
      <4>1. \A i \in DOMAIN chunks[r] : chunks[r][i] = Len(used[r])
        BY <1>1, <1>3 DEF ChatProgress
      <4>2. \A i \in DOMAIN chunks[r] : chunks[r][i] # Len(used[r])
        BY <1>2, <1>3 DEF Chat!NotStarted, Chat!Range
      <4>3. DOMAIN chunks[r] = {}
        BY <4>1, <4>2
      <4>4. DOMAIN chunks[r] = 1 .. Len(chunks[r]) /\ Len(chunks[r]) \in Nat
        BY <1>2
      <4>5. Len(chunks[r]) = 0
        <5> DEFINE m == Len(chunks[r])
        <5>1. m \in Nat /\ 1 .. m = {}
          BY <4>3, <4>4
        <5> HIDE DEF m
        <5>2. m = 0
          BY <5>1
        <5> QED BY <5>2 DEF m
      <4> QED BY <1>2, <4>5
    <3> QED BY <1>3, <1>4, <1>11, <2>1, <2>3, <3>1 DEF ChatProgress
  <2> QED BY <2>2, <2>3
<1>18. ASSUME NEW q \in Requests PROVE Steered(q)'
  <2>1. Steered(q)
    BY DEF ChatInv
  <2>2. CASE q = r
    <3>1. Under(r) /\ (r \notin crossed' => r \notin crossed)
      BY <1>3, <1>10 DEF Under
    <3>2. Latest(r)' = key
      BY <1>13 DEF key
    <3>3. r \notin crossed /\ NumKeys > 1 => chatRot.index = key
      BY <1>1, <1>4, <3>1 DEF Steered, key
    <3>4. chatRot'.cooldown[key] > chatDue'[r] /\ chatDue'[r] >= chatClock
      BY <1>6, <1>8, <1>11
    <3> QED BY <1>3, <1>8, <2>1, <2>2, <3>1, <3>2, <3>3, <3>4 DEF Steered
  <2>3. CASE q # r
    <3>1. q \notin crossed' => q \notin crossed /\ ~Under(q)
      BY <1>10, <2>3
    <3>2. Under(q)' = Under(q) /\ chatPc'[q] = chatPc[q] /\ used' = used
      BY <1>3, <1>11, <2>3 DEF Under
    <3> QED BY <2>1, <3>1, <3>2 DEF Steered, Under
  <2> QED BY <2>2, <2>3
<1> QED BY <1>12, <1>15, <1>16, <1>17, <1>18 DEF ChatInv

\* ChatInv holds at the start, and every step preserves it.
LEMMA ChatInvariance == Chat!Spec => []ChatInv
<1> USE DEF Chat!vars, Chat!request, Chat!history
<1>1. Chat!Init => ChatInv
  <2> SUFFICES ASSUME Chat!Init PROVE ChatInv
    OBVIOUS
  <2>1. /\ chatClock = 0 /\ chatSlots = [k \in Keys |-> <<>>] /\ chatRot = NewRotator
        /\ chatPc = [r \in Requests |-> "new"] /\ chatDue = [r \in Requests |-> 0]
        /\ used = [r \in Requests |-> <<>>] /\ chunks = [r \in Requests |-> <<>>]
        /\ outcome = [r \in Requests |-> "none"] /\ promised = [k \in Keys |-> 0]
        /\ crossed = {} /\ shared = {}
    BY SameOperators DEF Chat!Init
  <2>2. NewRotator \in Rotator /\ Chat!Attempts \in Nat
    BY NumKeysAssumption, ChatConstants DEF NewRotator, Rotator, Keys
  <2>3. \A r \in Requests : Chat!Attempt(r) <= Chat!Attempts
    BY <2>1, <2>2 DEF Chat!Attempt
  <2>4. Chat!TypeOK
    BY <2>1, <2>2, <2>3, SameOperators DEF Chat!TypeOK
  <2>5. KeysInUse
    BY <2>1, SameOperators DEF KeysInUse, Chat!ExcludedAsLongAsAskedUnlessShared, Chat!UsingKey
  <2>6. ChatLedgers
    <3>0. <<>> \in Seq(Nat) /\ Len(<<>>) = 0 /\ <<>> = SubSeq(<<>>, 1, 0)
      OBVIOUS
    <3>1. <<>> \in Seq(Nat) /\ IsLedger(<<>>, <<>>, 0)
      BY <3>0 DEF IsLedger, Ascending, Spread, Tight, FileOf
    <3> QED BY <2>1, <3>1 DEF ChatLedgers
  <2>7. ASSUME NEW r \in Requests PROVE ChatProgress(r) /\ Steered(r)
    BY <2>1 DEF ChatProgress, Steered, Under
  <2> QED BY <2>4, <2>5, <2>6, <2>7 DEF ChatInv
<1>2. ChatInv /\ [Chat!Next]_(Chat!vars) => ChatInv'
  <2> SUFFICES ASSUME ChatInv, [Chat!Next]_(Chat!vars) PROVE ChatInv'
    OBVIOUS
  <2>1. CASE Chat!Tick
    BY <2>1, ChatTickKeeps
  <2>2. ASSUME NEW r \in Requests, Chat!Start(r) \/ Chat!Chunk(r) \/ Chat!Proceed(r) PROVE ChatInv'
    <3>1. CASE Chat!Start(r)
      BY <3>1, ChatStartKeeps
    <3>2. CASE Chat!TakeKey(r)
      BY <3>2, ChatTakeKeyKeeps
    <3>3. CASE \E rest \in {ChatRateCooldown, ChatFailCooldown} : Chat!Retry(r, rest)
      BY <3>3, ChatRetryKeeps
    <3> QED BY <2>2, <3>1, <3>2, <3>3, ChatQuietSteps DEF Chat!Proceed
  <2>3. CASE UNCHANGED Chat!vars
    <3>1. UNCHANGED <<chatClock, chatSlots, chatRot, chatPc, chatDue, used, chunks, outcome, promised, crossed, shared>>
      BY <2>3
    <3>2. Chat!Attempts' = Chat!Attempts /\ Chat!Keys' = Chat!Keys /\ Chat!Rotator' = Chat!Rotator
      BY DEF Chat!Attempts, Chat!Keys, Chat!Rotator
    <3>3. Chat!TypeOK'
      BY <3>1, <3>2 DEF ChatInv, Chat!TypeOK, Chat!Attempt
    <3>4. KeysInUse'
      BY <3>1, <3>2 DEF ChatInv, KeysInUse, Chat!ExcludedAsLongAsAskedUnlessShared, Chat!UsingKey, Latest
    <3>5. ChatLedgers'
      BY <3>1 DEF ChatInv, ChatLedgers
    <3>6. ASSUME NEW r \in Requests PROVE ChatProgress(r)' /\ Steered(r)'
      <4>1. ChatProgress(r)'
        BY <3>1, <3>2 DEF ChatInv, ChatProgress
      <4>2. Steered(r)'
        BY <3>1 DEF ChatInv, Steered, Latest, Under
      <4> QED BY <4>1, <4>2
    <3> QED BY <3>3, <3>4, <3>5, <3>6 DEF ChatInv
  <2> QED BY <2>1, <2>2, <2>3 DEF Chat!Next
<1> QED BY <1>1, <1>2, PTL DEF Chat!Spec

(* A retry of the agent's client repeats nothing, whatever the number of keys and requests: what a
   request yields comes from one attempt, the next attempt has another key, and a key rests as long
   as it was excluded for, with the exceptions RetriesAreClean names. *)
THEOREM RetriesStayClean == Chat!Spec => []RetriesAreClean
<1>1. ChatInv => RetriesAreClean
  <2> SUFFICES ASSUME ChatInv PROVE RetriesAreClean
    OBVIOUS
  <2>1. Chat!TypeOK /\ KeysInUse
    BY DEF ChatInv
  <2>2. ASSUME NEW r \in Requests PROVE Cardinality(Chat!Range(chunks[r])) <= 1
    <3>1. \A i, j \in DOMAIN chunks[r] : chunks[r][i] = chunks[r][j]
      BY DEF ChatInv, ChatProgress
    <3>2. CASE Chat!Range(chunks[r]) = {}
      BY <3>2, FS_EmptySet
    <3>3. CASE Chat!Range(chunks[r]) # {}
      <4>1. PICK x \in Chat!Range(chunks[r]) : TRUE
        BY <3>3
      <4>2. Chat!Range(chunks[r]) = {x}
        BY <3>1, <4>1 DEF Chat!Range
      <4>3. Cardinality({x}) = 1
        BY FS_Singleton
      <4> QED BY <4>2, <4>3
    <3> QED BY <3>2, <3>3
  <2>3. Chat!OnAnotherKeyUnlessCrossed
    BY DEF ChatInv, Steered, Chat!OnAnotherKeyUnlessCrossed
  <2>4. Chat!NoReplay
    <3>1. \A S : Chat!Cardinality(S) = Cardinality(S)
      BY DEF Chat!Cardinality, Cardinality
    <3> QED BY <2>2, <3>1 DEF Chat!NoReplay
  <2> QED BY <2>1, <2>3, <2>4 DEF KeysInUse, RetriesAreClean, Chat!RetriesAreClean
<1> QED BY <1>1, ChatInvariance, PTL
=============================================================================
