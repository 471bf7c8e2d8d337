------------------------------- MODULE SlotLemmas -------------------------------
(***************************************************************************)
(* Facts about the slot lists of nim_rate_limit.py, for every rpm and      *)
(* window.                                                                 *)
(*                                                                         *)
(* Pruning is why the limit cannot be seen in the list alone: reserve()    *)
(* decides from the slots still in it, the promise is about all bookings.  *)
(* IsLedger(all, s, now) therefore says that s is the tail of an ascending   *)
(* history whose head is out of reach (FileOf), and that a booking in the  *)
(* future is always the tight one (Tight), which is what keeps the list    *)
(* sorted when a call that finds room is given "now".                      *)
(***************************************************************************)
EXTENDS SlotMath, CollectionLemmas

Ascending(all) == \A i, j \in 1 .. Len(all) : i <= j => all[i] <= all[j]

Spread(all) == \A i \in 1 .. Len(all) : i > Limit => all[i] >= all[i - Limit] + Window

Tight(all, now) == \A i \in 1 .. Len(all) : \/ all[i] <= now
                                            \/ i > Limit /\ all[i] = all[i - Limit] + Window

FileOf(s, all, now) ==
    \E d \in 0 .. Len(all) : /\ s = SubSeq(all, d + 1, Len(all))
                             /\ \A i \in 1 .. d : all[i] + Window <= now

IsLedger(all, s, now) == Ascending(all) /\ Spread(all) /\ Tight(all, now) /\ FileOf(s, all, now)

-----------------------------------------------------------------------------
(* The number of expired slots of an ascending list is well defined: expired
   slots form a prefix (the comprehension of reserve() keeps a suffix). *)
LEMMA ExpiredCountProperty ==
  ASSUME NEW s \in Seq(Nat), Ascending(s), NEW now \in Nat
  PROVE  /\ ExpiredCount(s, now) \in 0 .. Len(s)
         /\ \A i \in 1 .. ExpiredCount(s, now) : s[i] + Window <= now
         /\ \A i \in ExpiredCount(s, now) + 1 .. Len(s) : s[i] + Window > now
<1> DEFINE T == {k \in 0 .. Len(s) : \A i \in k + 1 .. Len(s) : s[i] + Window > now}
<1>1. Len(s) \in T /\ T \subseteq Nat
  OBVIOUS
<1>2. PICK k \in T : \A j \in T : k <= j
  BY <1>1, LeastElement
<1>3. \A i \in 1 .. k : s[i] + Window <= now
  <2> SUFFICES ASSUME NEW i \in 1 .. k, s[i] + Window > now PROVE FALSE
    BY <1>2, WindowAssumption
  <2>1. \A j \in i .. Len(s) : s[j] >= s[i]
    BY <1>2 DEF Ascending
  <2>2. \A j \in i .. Len(s) : s[j] + Window > now
    BY <2>1, <1>2, WindowAssumption
  <2>3. i - 1 \in T
    BY <2>2, <1>2
  <2>4. k <= i - 1
    BY <2>3, <1>2
  <2>5. k \in Nat /\ i <= k
    BY <1>1
  <2> QED BY <2>4, <2>5
<1>4. \E e \in 0 .. Len(s) :
         /\ \A i \in 1 .. e : s[i] + Window <= now
         /\ \A i \in e + 1 .. Len(s) : s[i] + Window > now
  BY <1>2, <1>3
<1> QED BY <1>4 DEF ExpiredCount

(* insort of a start that is not earlier than any entry appends it. *)
LEMMA InsortAppends ==
  ASSUME NEW s \in Seq(Nat), NEW t \in Nat, \A i \in 1 .. Len(s) : s[i] <= t
  PROVE  Insort(s, t) = Append(s, t)
<1>1. \E k \in 0 .. Len(s) : /\ \A i \in 1 .. k : s[i] <= t
                             /\ \A i \in k + 1 .. Len(s) : s[i] > t
  <2>1. Len(s) \in 0 .. Len(s) /\ \A i \in Len(s) + 1 .. Len(s) : s[i] > t
    OBVIOUS
  <2> QED BY <2>1
<1>2. /\ InsertionPoint(s, t) \in 0 .. Len(s)
      /\ \A i \in InsertionPoint(s, t) + 1 .. Len(s) : s[i] > t
  BY <1>1 DEF InsertionPoint
<1>3. InsertionPoint(s, t) = Len(s)
  BY <1>2
<1>4. SubSeq(s, 1, Len(s)) = s /\ SubSeq(s, Len(s) + 1, Len(s)) = << >>
  OBVIOUS
<1>5. Insort(s, t) = s \o <<t>> \o << >>
  BY <1>3, <1>4 DEF Insort
<1> QED BY <1>5

(* What a booking finds in a ledger and what it leaves: the file is the history
   from position e + 1 on, everything before e + 1 is a whole window old, and the
   start handed out is the last of the history and at least one window after the
   start Limit calls earlier. *)
BookedAs(all, s, now, e, start) ==
    /\ start = StartFor(Live(s, now), now)
    /\ Booked(s, now) = SubSeq(Append(all, start), e + 1, Len(all) + 1)
    /\ \A i \in 1 .. e : all[i] + Window <= now
    /\ \A i \in 1 .. Len(all) : all[i] <= start
    /\ start >= now
    /\ Len(all) >= Limit => start >= all[Len(all) - Limit + 1] + Window
    /\ \/ start = now
       \/ /\ Len(all) >= Limit
          /\ start = all[Len(all) - Limit + 1] + Window

(* There is such a start. *)
LEMMA BookingEffect ==
  ASSUME NEW all \in Seq(Nat), NEW s, NEW now \in Nat, IsLedger(all, s, now)
  PROVE  \E e \in 0 .. Len(all), start \in Nat : BookedAs(all, s, now, e, start)
<1> DEFINE n == Len(all)
           live == Live(s, now)
           start == StartFor(live, now)
           k == ExpiredCount(s, now)
<1>1. PICK d \in 0 .. n : /\ s = SubSeq(all, d + 1, n)
                         /\ \A i \in 1 .. d : all[i] + Window <= now
  BY DEF IsLedger, FileOf
<1>2. /\ all \in Seq(Nat) /\ s \in Seq(Nat) /\ now \in Nat /\ n \in Nat
      /\ Limit \in Nat /\ Limit > 0 /\ Window \in Nat /\ Window > 0
  <2>1. n \in Nat /\ Limit \in Nat /\ Limit > 0 /\ Window \in Nat /\ Window > 0
    BY LimitAssumption, WindowAssumption
  <2>2. s \in Seq(Nat)
    BY <1>1, SuffixProperties
  <2> QED BY <2>1, <2>2
<1>3. \A i, j \in 1 .. n : i <= j => all[i] <= all[j]
  BY <1>2 DEF IsLedger, Ascending
<1>4. /\ Len(s) = n - d
      /\ \A i \in 1 .. n - d : s[i] = all[d + i]
  BY <1>2, <1>1, SuffixProperties
<1>5. Ascending(s)
  <2>0. DOMAIN s = 1 .. n - d
    BY <1>2, <1>4
  <2> SUFFICES ASSUME NEW i \in 1 .. n - d, NEW j \in 1 .. n - d, i <= j
               PROVE  s[i] <= s[j]
    BY <2>0 DEF Ascending
  <2>1. d + i \in 1 .. n /\ d + j \in 1 .. n /\ d + i <= d + j
    BY <1>2, <1>1
  <2> QED BY <2>1, <1>3, <1>4
<1>6. /\ k \in 0 .. n - d
      /\ \A i \in 1 .. k : s[i] + Window <= now
      /\ \A i \in k + 1 .. n - d : s[i] + Window > now
  BY <1>2, <1>4, <1>5, ExpiredCountProperty
<1> DEFINE e == d + k
<1> HIDE DEF n, k
<1>7. /\ d \in Nat /\ k \in Nat /\ e \in Nat /\ e \in 0 .. n /\ n - e \in Nat
      /\ d <= n /\ k <= n - d
  BY <1>2, <1>1, <1>6
<1>8. \A i \in 1 .. e : all[i] + Window <= now
  <2> TAKE i \in 1 .. e
  <2>1. CASE i <= d
    BY <2>1, <1>7, <1>1
  <2>2. CASE i > d
    <3>1. i - d \in 1 .. k /\ i - d \in 1 .. n - d /\ d + (i - d) = i
      BY <2>2, <1>2, <1>7
    <3>2. s[i - d] = all[i]
      BY <3>1, <1>4
    <3> QED BY <3>1, <3>2, <1>6
  <2> QED BY <2>1, <2>2, <1>7
<1>9. \A i \in e + 1 .. n : all[i] + Window > now
  <2> TAKE i \in e + 1 .. n
  <2>1. i - d \in k + 1 .. n - d /\ i - d \in 1 .. n - d /\ d + (i - d) = i
    BY <1>2, <1>7
  <2>2. s[i - d] = all[i]
    BY <2>1, <1>4
  <2> QED BY <2>1, <2>2, <1>6
<1>10. /\ live = SubSeq(all, e + 1, Len(all))
       /\ live \in Seq(Nat) /\ Len(live) = n - e
       /\ \A i \in 1 .. n - e : live[i] = all[e + i]
  <2>1. live = SubSeq(all, e + 1, Len(all))
    BY <1>2, <1>1, <1>6, <1>7, SuffixOfSuffix DEF Live, n, k
  <2> QED BY <2>1, <1>2, <1>7, SuffixProperties DEF n
<1>g. \A i \in 1 .. n : all[i] \in Nat
  BY <1>2 DEF n
<1> HIDE DEF live, e
<1>11. /\ start \in Nat /\ start >= now
       /\ n - e >= Limit => start >= all[n - Limit + 1] + Window
       /\ \/ start = now
          \/ n - e >= Limit /\ start = all[n - Limit + 1] + Window
       /\ n - e < Limit => start = now
  <2>1. CASE n - e < Limit
    <3>1. start = now
      BY <2>1, <1>10 DEF StartFor
    <3> QED BY <2>1, <3>1, <1>2, <1>7
  <2>2. CASE n - e >= Limit
    <3> DEFINE r == all[n - Limit + 1]
    <3>1. /\ n - e - Limit + 1 \in 1 .. n - e /\ n - Limit + 1 \in 1 .. n
          /\ e + (n - e - Limit + 1) = n - Limit + 1
      BY <2>2, <1>2, <1>7
    <3>2. live[n - e - Limit + 1] = r /\ r \in Nat
      BY <3>1, <1>10, <1>g
    <3> HIDE DEF r
    <3>3. start = IF r + Window > now THEN r + Window ELSE now
      <4>1. Len(live) = n - e
        BY <1>10
      <4>2. ~(n - e < Limit)
        BY <2>2, <1>2, <1>7
      <4> QED BY <4>1, <4>2, <3>2 DEF StartFor
    <3>4. start \in Nat /\ start >= now /\ start >= r + Window
          /\ (start = now \/ start = r + Window)
      BY <3>2, <3>3, <1>2
    <3> QED BY <2>2, <3>4, <1>2, <1>7 DEF r
  <2> QED BY <2>1, <2>2, <1>2, <1>7
<1> HIDE DEF start
<1>12. ASSUME NEW i \in 1 .. n PROVE all[i] <= start
  <2>1. all[i] \in Nat /\ i \in Nat
    BY <1>g
  <2>2. CASE all[i] <= now
    BY <2>1, <2>2, <1>2, <1>11
  <2>3. CASE all[i] > now
    <3>0. i \in DOMAIN all
      BY <1>2 DEF n
    <3>1. i > Limit /\ all[i] = all[i - Limit] + Window
      BY <2>1, <2>3, <3>0, <1>2 DEF IsLedger, Tight, n
    <3>2. i - Limit \in 1 .. n
      BY <3>1, <1>2
    <3>3. all[i - Limit] \in Nat /\ all[i - Limit] + Window > now
      BY <3>1, <3>2, <2>3, <1>g
    <3>4. ~(i - Limit \in 1 .. e)
      BY <3>3, <1>2, <1>8
    <3>5. n - e >= Limit /\ n - Limit + 1 \in 1 .. n /\ i - Limit <= n - Limit + 1
      BY <3>2, <3>4, <1>2, <1>7
    <3>6. all[i - Limit] <= all[n - Limit + 1] /\ all[n - Limit + 1] \in Nat
      BY <3>2, <3>5, <1>3, <1>g
    <3>7. start >= all[n - Limit + 1] + Window
      BY <3>5, <1>11
    <3>8. all[i] <= all[n - Limit + 1] + Window
      <4> DEFINE x == all[i - Limit]
                 y == all[n - Limit + 1]
      <4>1. x \in Nat /\ y \in Nat /\ x <= y /\ Window \in Nat
        BY <3>3, <3>6, <1>2
      <4>2. all[i] = x + Window
        BY <3>1
      <4> HIDE DEF x, y
      <4>3. x + Window <= y + Window
        BY <4>1
      <4> QED BY <4>2, <4>3 DEF y
    <3> DEFINE a == all[i]
               r == all[n - Limit + 1]
    <3>9. /\ a \in Nat /\ r \in Nat /\ a <= r + Window
          /\ start >= r + Window /\ start \in Nat /\ Window \in Nat
      BY <2>1, <3>6, <3>7, <3>8, <1>2, <1>11
    <3> HIDE DEF a, r
    <3>10. a <= start
      BY <3>9
    <3> QED BY <3>10 DEF a
  <2> QED BY <2>1, <2>2, <2>3, <1>2
<1>13. n >= Limit => start >= all[n - Limit + 1] + Window
  <2> SUFFICES ASSUME n >= Limit, n - e < Limit
               PROVE  start >= all[n - Limit + 1] + Window
    BY <1>2, <1>7, <1>11
  <2>1. n - Limit + 1 \in 1 .. e /\ n - Limit + 1 \in 1 .. n
    BY <1>2, <1>7
  <2>2. all[n - Limit + 1] \in Nat /\ all[n - Limit + 1] + Window <= now
    BY <2>1, <1>8, <1>g
  <2> QED BY <2>2, <1>2, <1>11
<1> DEFINE booked == Booked(s, now)
<1>14. booked = Append(live, start)
  <2>1. ASSUME NEW i \in 1 .. Len(live) PROVE live[i] <= start
    <3>1. i \in 1 .. n - e /\ e + i \in 1 .. n
      BY <1>2, <1>7, <1>10
    <3> QED BY <3>1, <1>10, <1>12
  <2>2. Insort(live, start) = Append(live, start)
    BY <2>1, <1>10, <1>11, InsortAppends
  <2> QED BY <2>2 DEF Booked, live, start
<1>15. booked = SubSeq(Append(all, start), e + 1, n + 1)
  BY <1>2, <1>7, <1>10, <1>11, <1>14, SuffixOfAppend DEF n
<1>16. /\ e \in 0 .. Len(all) /\ start \in Nat /\ start >= now
       /\ \A i \in 1 .. Len(all) : all[i] <= start
       /\ booked = SubSeq(Append(all, start), e + 1, Len(all) + 1)
       /\ Len(all) >= Limit => start >= all[Len(all) - Limit + 1] + Window
       /\ \/ start = now
          \/ /\ Len(all) >= Limit
             /\ start = all[Len(all) - Limit + 1] + Window
  BY <1>2, <1>7, <1>11, <1>12, <1>13, <1>15 DEF n
<1> QED BY <1>8, <1>16 DEF BookedAs, start, live

(* Booking keeps the ledger, with the start of the new slot as the latest of its
   history. *)
LEMMA BookingKeepsLedger ==
  ASSUME NEW all \in Seq(Nat), NEW s, NEW now \in Nat, IsLedger(all, s, now)
  PROVE  LET start == StartFor(Live(s, now), now)
         IN  /\ start \in Nat /\ start >= now
             /\ Append(all, start) \in Seq(Nat)
             /\ Booked(s, now) \in Seq(Nat)
             /\ IsLedger(Append(all, start), Booked(s, now), now)
<1> DEFINE n == Len(all)
<1>0. PICK e \in 0 .. n, start \in Nat : BookedAs(all, s, now, e, start)
  BY BookingEffect
<1>1. /\ start = StartFor(Live(s, now), now)
      /\ Booked(s, now) = SubSeq(Append(all, start), e + 1, n + 1)
      /\ \A i \in 1 .. e : all[i] + Window <= now
      /\ \A i \in 1 .. n : all[i] <= start
      /\ start >= now
      /\ n >= Limit => start >= all[n - Limit + 1] + Window
      /\ \/ start = now
         \/ n >= Limit /\ start = all[n - Limit + 1] + Window
  BY <1>0 DEF BookedAs
<1> DEFINE all2 == Append(all, start)
<1>2. /\ all2 \in Seq(Nat) /\ Len(all2) = n + 1 /\ n \in Nat
      /\ \A i \in 1 .. n : all2[i] = all[i] /\ all[i] \in Nat
      /\ all2[n + 1] = start
      /\ Limit \in Nat /\ Limit > 0 /\ Window \in Nat
  BY LimitAssumption, WindowAssumption
<1> HIDE DEF n, all2
<1>3. Ascending(all2)
  <2> SUFFICES ASSUME NEW i \in 1 .. n + 1, NEW j \in 1 .. n + 1, i <= j
               PROVE  all2[i] <= all2[j]
    BY <1>2 DEF Ascending
  <2>1. CASE j <= n
    <3>1. i \in 1 .. n /\ j \in 1 .. n
      BY <2>1, <1>2
    <3>2. all[i] <= all[j]
      BY <3>1, <1>2 DEF IsLedger, Ascending, n
    <3> QED BY <3>1, <3>2, <1>2
  <2>2. CASE j = n + 1 /\ i <= n
    <3>1. i \in 1 .. n
      BY <2>2, <1>2
    <3> QED BY <3>1, <2>2, <1>1, <1>2
  <2>3. CASE j = n + 1 /\ i = n + 1
    BY <2>3, <1>2
  <2> QED BY <2>1, <2>2, <2>3, <1>2
<1>4. Spread(all2)
  <2> SUFFICES ASSUME NEW i \in 1 .. n + 1, i > Limit
               PROVE  all2[i] >= all2[i - Limit] + Window
    BY <1>2 DEF Spread
  <2>1. i - Limit \in 1 .. n
    BY <1>2
  <2>2. CASE i <= n
    <3>1. i \in 1 .. n
      BY <2>2, <1>2
    <3>2. all[i] >= all[i - Limit] + Window
      BY <3>1, <1>2 DEF IsLedger, Spread, n
    <3> QED BY <2>1, <3>1, <3>2, <1>2
  <2>3. CASE i = n + 1
    <3>1. n >= Limit /\ i - Limit = n - Limit + 1
      BY <2>3, <1>2
    <3> QED BY <3>1, <2>1, <2>3, <1>1, <1>2
  <2> QED BY <2>2, <2>3, <1>2
<1>5. Tight(all2, now)
  <2> SUFFICES ASSUME NEW i \in 1 .. n + 1
               PROVE  \/ all2[i] <= now
                      \/ i > Limit /\ all2[i] = all2[i - Limit] + Window
    BY <1>2 DEF Tight
  <2>1. CASE i <= n
    <3>1. i \in 1 .. n
      BY <2>1, <1>2
    <3>2. \/ all[i] <= now
          \/ i > Limit /\ all[i] = all[i - Limit] + Window
      BY <3>1, <1>2 DEF IsLedger, Tight, n
    <3>3. i > Limit => i - Limit \in 1 .. n
      BY <3>1, <1>2
    <3> QED BY <3>1, <3>2, <3>3, <1>2
  <2>2. CASE i = n + 1
    <3>1. CASE start = now
      BY <3>1, <2>2, <1>2
    <3>2. CASE n >= Limit /\ start = all[n - Limit + 1] + Window
      <4>1. i > Limit /\ i - Limit = n - Limit + 1 /\ n - Limit + 1 \in 1 .. n
        BY <3>2, <2>2, <1>2
      <4> QED BY <4>1, <3>2, <2>2, <1>2
    <3> QED BY <3>1, <3>2, <1>1
  <2> QED BY <2>1, <2>2, <1>2
<1>6. FileOf(Booked(s, now), all2, now)
  <2>1. e \in 0 .. Len(all2) /\ Booked(s, now) = SubSeq(all2, e + 1, Len(all2))
    BY <1>1, <1>2 DEF all2
  <2>2. ASSUME NEW i \in 1 .. e PROVE all2[i] + Window <= now
    <3>1. i \in 1 .. n
      BY <1>2
    <3> QED BY <3>1, <1>1, <1>2
  <2> QED BY <2>1, <2>2 DEF FileOf
<1>7. Booked(s, now) \in Seq(Nat)
  <2>1. e \in 0 .. Len(all2) /\ Booked(s, now) = SubSeq(all2, e + 1, Len(all2))
    BY <1>1, <1>2 DEF all2
  <2> QED BY <2>1, <1>2, SuffixProperties
<1> QED BY <1>1, <1>2, <1>3, <1>4, <1>5, <1>6, <1>7 DEF IsLedger, all2

(* So does time. *)
LEMMA LedgerLater ==
  ASSUME NEW all \in Seq(Nat), NEW s, NEW now \in Nat, IsLedger(all, s, now),
         NEW later \in Nat, later >= now
  PROVE  IsLedger(all, s, later)
<1>1. \A i \in 1 .. Len(all) : all[i] \in Nat
  OBVIOUS
<1>2. Tight(all, later)
  <2> SUFFICES ASSUME NEW i \in 1 .. Len(all)
               PROVE  \/ all[i] <= later
                      \/ i > Limit /\ all[i] = all[i - Limit] + Window
    BY DEF Tight
  <2>1. \/ all[i] <= now
        \/ i > Limit /\ all[i] = all[i - Limit] + Window
    BY DEF IsLedger, Tight
  <2> QED BY <2>1, <1>1
<1>3. FileOf(s, all, later)
  <2>1. PICK d \in 0 .. Len(all) : /\ s = SubSeq(all, d + 1, Len(all))
                                   /\ \A i \in 1 .. d : all[i] + Window <= now
    BY DEF IsLedger, FileOf
  <2>2. ASSUME NEW i \in 1 .. d PROVE all[i] + Window <= later
    <3>1. i \in 1 .. Len(all)
      OBVIOUS
    <3> QED BY <3>1, <2>1, <1>1, WindowAssumption
  <2> QED BY <2>1, <2>2 DEF FileOf
<1> QED BY <1>2, <1>3 DEF IsLedger
=================================================================================
