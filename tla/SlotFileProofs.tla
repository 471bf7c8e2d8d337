---------------------------- MODULE SlotFileProofs ----------------------------
(***************************************************************************)
(* The file protocol of reserve() implements the ledger until its first    *)
(* mishap, for any number of processes, calls and faults.                  *)
(*                                                                         *)
(* The types need no more than that sorted() sorts, whatever the file has  *)
(* become.  As long as nothing has gone wrong, one process at a time is    *)
(* between its lock and its flush, the list that is in the file, or in the *)
(* buffer that is about to become the file, is a ledger of all starts      *)
(* handed out, and what the process decided is what the ledger decides.    *)
(***************************************************************************)
EXTENDS NimSlotFile, SlotLemmas, SequenceTheorems, FiniteSetTheorems

(* ------------------------------- sorted lists ------------------------------ *)

\* The places of a list, counted.
LEMMA AllPlacesCount ==
  ASSUME NEW n \in Nat
  PROVE  IsFiniteSet(1 .. n) /\ Cardinality(1 .. n) = n
BY FS_Interval

\* A part of the places of a list is a finite set of at most as many.
LEMMA PlacesCount ==
  ASSUME NEW n \in Nat, NEW S, S \subseteq 1 .. n
  PROVE  IsFiniteSet(S) /\ Cardinality(S) \in Nat /\ Cardinality(S) <= n
<1>1. IsFiniteSet(1 .. n) /\ Cardinality(1 .. n) = n
  BY AllPlacesCount
<1>2. IsFiniteSet(S) /\ Cardinality(S) <= Cardinality(1 .. n)
  BY <1>1, FS_Subset
<1> QED BY <1>1, <1>2, FS_CardinalityType

\* Of some places of a list one has the greatest value: that which most are not above.
LEMMA GreatestAt ==
  ASSUME NEW s \in Seq(Nat), NEW S, S \subseteq DOMAIN s, S # {}
  PROVE  \E m \in S : \A j \in S : s[j] <= s[m]
<1> DEFINE upTo(k) == {j \in S : s[j] <= s[k]}
           counts == {Cardinality(upTo(k)) : k \in S}
<1>1. DOMAIN s = 1 .. Len(s) /\ Len(s) \in Nat /\ \A j \in S : s[j] \in Nat
  OBVIOUS
<1>2. ASSUME NEW k \in S
      PROVE  IsFiniteSet(upTo(k)) /\ Cardinality(upTo(k)) \in Nat /\ Cardinality(upTo(k)) <= Len(s)
  <2>1. upTo(k) \subseteq 1 .. Len(s)
    BY <1>1
  <2> QED BY <1>1, <2>1, PlacesCount
<1>3. counts \subseteq Nat /\ counts # {} /\ \A c \in counts : c <= Len(s)
  BY <1>2
<1>4. PICK c \in counts : \A d \in counts : c >= d
  <2> HIDE DEF counts
  <2> QED BY <1>1, <1>3, MaxIsGreatest
<1>5. PICK m \in S : c = Cardinality(upTo(m))
  OBVIOUS
<1>6. ASSUME NEW k \in S, s[k] > s[m] PROVE FALSE
  <2>1. s[k] \in Nat /\ s[m] \in Nat
    BY <1>1
  <2>2. \A j \in S : s[j] <= s[m] => s[j] <= s[k]
    BY <1>1, <1>6, <2>1
  <2>3. upTo(m) \subseteq upTo(k) /\ k \in upTo(k) /\ k \notin upTo(m)
    BY <1>6, <2>1, <2>2
  <2>4. Cardinality(upTo(m)) <= Cardinality(upTo(k)) /\ Cardinality(upTo(m)) # Cardinality(upTo(k))
    <3>1. IsFiniteSet(upTo(k))
      BY <1>2
    <3> HIDE DEF upTo
    <3> QED BY <2>3, <3>1, FS_Subset
  <2>5. Cardinality(upTo(k)) \in counts /\ Cardinality(upTo(k)) \in Nat /\ Cardinality(upTo(m)) \in Nat
    BY <1>2
  <2> HIDE DEF upTo, counts
  <2> QED BY <1>4, <1>5, <2>4, <2>5
<1> QED BY <1>1, <1>6

\* How many entries of a list are below a value, and how many are not above it.
Below(s, v) == {j \in DOMAIN s : s[j] < v}
UpTo(s, v) == {j \in DOMAIN s : s[j] <= v}

\* They are finitely many; of two values the greater has what the lesser has.
LEMMA CountsGrow ==
  ASSUME NEW s \in Seq(Nat), NEW v \in Nat, NEW w \in Nat
  PROVE  /\ Cardinality(Below(s, v)) \in Nat /\ Cardinality(UpTo(s, v)) \in Nat
         /\ Cardinality(UpTo(s, v)) <= Len(s)
         /\ v < w => Cardinality(UpTo(s, v)) <= Cardinality(Below(s, w))
<1>1. DOMAIN s = 1 .. Len(s) /\ Len(s) \in Nat /\ \A j \in DOMAIN s : s[j] \in Nat
  OBVIOUS
<1>2. Below(s, v) \subseteq 1 .. Len(s) /\ UpTo(s, v) \subseteq 1 .. Len(s) /\ Below(s, w) \subseteq 1 .. Len(s)
  BY <1>1 DEF Below, UpTo
<1>3. IsFiniteSet(Below(s, w))
  BY <1>1, <1>2, PlacesCount
<1>4. v < w => UpTo(s, v) \subseteq Below(s, w)
  BY <1>1 DEF Below, UpTo
<1>5. v < w => Cardinality(UpTo(s, v)) <= Cardinality(Below(s, w))
  BY <1>3, <1>4, FS_Subset
<1> QED BY <1>1, <1>2, <1>5, PlacesCount

\* Each place has one value, and a later place no lesser one.
LEMMA PlaceHasValue ==
  ASSUME NEW s \in Seq(Nat), NEW i \in DOMAIN s
  PROVE  \E v \in Range(s) : Cardinality(Below(s, v)) < i /\ i <= Cardinality(UpTo(s, v))
<1> DEFINE reach == {v \in Range(s) : i <= Cardinality(UpTo(s, v))}
<1>1. /\ DOMAIN s = 1 .. Len(s) /\ Len(s) \in Nat /\ i \in Nat /\ 0 < i /\ i <= Len(s)
      /\ Range(s) \subseteq Nat /\ \A j \in DOMAIN s : s[j] \in Range(s)
  BY DEF Range
<1>2. reach # {}
  <2>1. PICK m \in DOMAIN s : \A j \in DOMAIN s : s[j] <= s[m]
    BY GreatestAt
  <2>2. UpTo(s, s[m]) = 1 .. Len(s)
    BY <1>1, <2>1 DEF UpTo
  <2>3. Cardinality(1 .. Len(s)) = Len(s)
    BY <1>1, AllPlacesCount
  <2>4. s[m] \in reach
    BY <1>1, <2>2, <2>3
  <2> QED BY <2>4
<1>3. PICK v \in reach : \A w \in reach : v <= w
  BY <1>1, <1>2, LeastElement
<1>4. v \in Range(s) /\ v \in Nat /\ i <= Cardinality(UpTo(s, v))
  BY <1>1, <1>3
<1>5. Cardinality(Below(s, v)) < i
  <2>1. CASE Below(s, v) = {}
    BY <1>1, <2>1, FS_EmptySet
  <2>2. CASE Below(s, v) # {}
    <3>1. Below(s, v) \subseteq DOMAIN s
      BY DEF Below
    <3>2. PICK m \in Below(s, v) : \A j \in Below(s, v) : s[j] <= s[m]
      BY <2>2, <3>1, GreatestAt
    <3> DEFINE u == s[m]
    <3>4. u \in Range(s) /\ u < v /\ u \in Nat
      BY <1>1 DEF Below
    <3>5. Below(s, v) = UpTo(s, u)
      BY <1>1, <3>2, <3>4, <1>4 DEF Below, UpTo
    <3>6. u \notin reach
      BY <1>3, <1>4, <3>4
    <3>7. Cardinality(UpTo(s, u)) \in Nat /\ ~(i <= Cardinality(UpTo(s, u)))
      BY <3>4, <3>6, CountsGrow
    <3> QED BY <1>1, <3>5, <3>7
  <2> QED BY <2>1, <2>2
<1> QED BY <1>4, <1>5

\* sorted() sorts, and leaves an ascending list as it is.
LEMMA SortedIs ==
  ASSUME NEW s \in Seq(Nat)
  PROVE  Sorted(s) \in Seq(Nat) /\ Ascending(Sorted(s)) /\ (Ascending(s) => Sorted(s) = s)
<1> DEFINE t == Sorted(s)
<1>1. /\ DOMAIN s = 1 .. Len(s) /\ Len(s) \in Nat /\ \A j \in DOMAIN s : s[j] \in Nat /\ s[j] \in Range(s)
      /\ Range(s) \subseteq Nat
  BY DEF Range
<1> DEFINE value(i) == CHOOSE v \in Range(s) : Cardinality(Below(s, v)) < i /\ i <= Cardinality(UpTo(s, v))
<1>2. t = [i \in 1 .. Len(s) |-> value(i)]
  BY <1>1 DEF Sorted, Below, UpTo
<1>3. ASSUME NEW i \in 1 .. Len(s)
      PROVE  t[i] \in Range(s) /\ Cardinality(Below(s, t[i])) < i /\ i <= Cardinality(UpTo(s, t[i]))
  <2>1. value(i) \in Range(s) /\ Cardinality(Below(s, value(i))) < i /\ i <= Cardinality(UpTo(s, value(i)))
    BY <1>1, PlaceHasValue
  <2>2. t[i] = value(i)
    BY <1>2
  <2> QED BY <2>1, <2>2
<1> HIDE DEF t, value
<1>4. t \in Seq(Nat) /\ Len(t) = Len(s) /\ DOMAIN t = 1 .. Len(s)
  <2>1. t \in [1 .. Len(s) -> Nat]
    BY <1>1, <1>2, <1>3
  <2> QED BY <1>1, <2>1
<1>5. Ascending(t)
  <2> SUFFICES ASSUME NEW i \in 1 .. Len(s), NEW j \in 1 .. Len(s), i <= j, t[j] < t[i]
               PROVE  FALSE
    BY <1>1, <1>4 DEF Ascending
  <2>1. t[i] \in Nat /\ t[j] \in Nat /\ i \in Nat /\ j \in Nat
    BY <1>1, <1>3
  <2>2. Cardinality(UpTo(s, t[j])) <= Cardinality(Below(s, t[i]))
    BY <2>1, CountsGrow
  <2>3. Cardinality(UpTo(s, t[j])) \in Nat /\ Cardinality(Below(s, t[i])) \in Nat
    BY <2>1, CountsGrow
  <2> QED BY <1>3, <2>1, <2>2, <2>3
<1>6. ASSUME Ascending(s) PROVE t = s
  <2>1. ASSUME NEW i \in 1 .. Len(s) PROVE t[i] = s[i]
    <3>1. t[i] \in Nat /\ s[i] \in Nat /\ i \in Nat /\ i - 1 \in Nat /\ i <= Len(s)
      BY <1>1, <1>3, <2>1
    <3>2. CASE t[i] < s[i]
      <4>1. Below(s, s[i]) \subseteq 1 .. i - 1
        BY <1>1, <1>6, <3>1 DEF Below, Ascending
      <4>2. Cardinality(Below(s, s[i])) <= i - 1
        BY <3>1, <4>1, PlacesCount
      <4>3. Cardinality(UpTo(s, t[i])) <= Cardinality(Below(s, s[i]))
        BY <3>1, <3>2, CountsGrow
      <4>4. Cardinality(UpTo(s, t[i])) \in Nat /\ Cardinality(Below(s, s[i])) \in Nat
        BY <3>1, CountsGrow
      <4> QED BY <1>3, <3>1, <4>2, <4>3, <4>4
    <3>3. CASE s[i] < t[i]
      <4>1. 1 .. i \subseteq UpTo(s, s[i]) /\ UpTo(s, s[i]) \subseteq 1 .. Len(s)
        BY <1>1, <1>6, <3>1 DEF UpTo, Ascending
      <4>2. IsFiniteSet(UpTo(s, s[i])) /\ Cardinality(1 .. i) = i
        BY <1>1, <3>1, <4>1, PlacesCount, AllPlacesCount
      <4>3. i <= Cardinality(UpTo(s, s[i]))
        BY <4>1, <4>2, FS_Subset
      <4>4. Cardinality(UpTo(s, s[i])) <= Cardinality(Below(s, t[i]))
        BY <3>1, <3>3, CountsGrow
      <4>5. Cardinality(UpTo(s, s[i])) \in Nat /\ Cardinality(Below(s, t[i])) \in Nat
        BY <3>1, CountsGrow
      <4> QED BY <1>3, <3>1, <4>3, <4>4, <4>5
    <3> QED BY <3>1, <3>2, <3>3
  <2> QED BY <1>1, <1>4, <2>1, SeqEqual
<1> QED BY <1>4, <1>5, <1>6 DEF t

(* ------------------------------- what reserve() computes ------------------------------ *)

\* Whatever the file holds, what is computed from it sorted is a list of times and a time.
LEMMA BookingTypes ==
  ASSUME NEW s \in Seq(Nat), Ascending(s), NEW t \in Nat
  PROVE  LET live == Live(s, t)
         IN  StartFor(live, t) \in Nat /\ Insort(live, StartFor(live, t)) \in Seq(Nat)
<1> DEFINE live == Live(s, t)
           free == StartFor(live, t)
<1>1. /\ Limit \in Nat /\ Limit > 0 /\ Window \in Nat /\ Len(s) \in Nat /\ DOMAIN s = 1 .. Len(s)
      /\ \A j \in 1 .. Len(s) : s[j] \in Nat
  BY LimitAssumption, WindowAssumption
<1>2. PICK k \in 0 .. Len(s) : live = SubSeq(s, k + 1, Len(s))
  BY ExpiredCountProperty DEF Live
<1>3. live \in Seq(Nat) /\ Len(live) = Len(s) - k /\ \A i \in 1 .. Len(s) - k : live[i] = s[k + i]
  BY <1>2, SuffixProperties
<1>31. \A i \in 1 .. Len(live) : live[i] \in Nat
  BY <1>3
<1>4. k \in Nat /\ k <= Len(s) /\ Len(live) \in Nat /\ DOMAIN live = 1 .. Len(live)
  BY <1>1, <1>3
<1>5. Ascending(live)
  <2> SUFFICES ASSUME NEW i \in 1 .. Len(s) - k, NEW j \in 1 .. Len(s) - k, i <= j
               PROVE  live[i] <= live[j]
    BY <1>3 DEF Ascending
  <2>1. k + i \in 1 .. Len(s) /\ k + j \in 1 .. Len(s) /\ k + i <= k + j
    BY <1>1, <1>4
  <2> QED BY <1>3, <2>1 DEF Ascending
<1> HIDE DEF live
<1>6. free \in Nat
  <2>1. CASE Len(live) < Limit
    BY <2>1 DEF StartFor
  <2>2. CASE ~(Len(live) < Limit)
    <3>1. Len(live) - Limit + 1 \in 1 .. Len(live)
      BY <1>1, <1>4, <2>2
    <3>2. live[Len(live) - Limit + 1] \in Nat
      BY <3>1, <1>31
    <3> QED BY <1>1, <2>2, <3>2 DEF StartFor
  <2> QED BY <2>1, <2>2
<1> HIDE DEF free
<1>7. InsertionPoint(live, free) \in 0 .. Len(live)
  <2> DEFINE e == ExpiredCount(live, free + Window)
  <2>0. free + Window \in Nat
    BY <1>1, <1>6
  <2>1. /\ e \in 0 .. Len(live)
        /\ \A i \in 1 .. e : live[i] + Window <= free + Window
        /\ \A i \in e + 1 .. Len(live) : live[i] + Window > free + Window
    BY <1>3, <1>5, <2>0, ExpiredCountProperty
  <2> HIDE DEF e
  <2>2. \A i \in 1 .. Len(live) : live[i] \in Nat
    BY <1>3
  <2>3. (\A i \in 1 .. e : live[i] <= free) /\ \A i \in e + 1 .. Len(live) : live[i] > free
    <3>1. (\A i \in 1 .. e : i \in 1 .. Len(live)) /\ \A i \in e + 1 .. Len(live) : i \in 1 .. Len(live)
      BY <1>4, <2>1
    <3> QED BY <1>1, <1>6, <2>1, <2>2, <3>1
  <2> QED BY <2>1, <2>3 DEF InsertionPoint
<1>8. Insort(live, free) \in Seq(Nat)
  <2> DEFINE p == InsertionPoint(live, free)
  <2>1. p \in Nat /\ p <= Len(live)
    BY <1>4, <1>7
  <2> HIDE DEF p
  <2>2. SubSeq(live, 1, p) \in Seq(Nat) /\ SubSeq(live, p + 1, Len(live)) \in Seq(Nat)
    <3>1. p \in 0 .. Len(live)
      BY <1>4, <2>1
    <3>2. SubSeq(live, p + 1, Len(live)) \in Seq(Nat)
      BY <1>3, <3>1, SuffixProperties
    <3>3. \A i \in 1 .. p : live[i] \in Nat
      BY <1>4, <1>31, <2>1
    <3>4. SubSeq(live, 1, p) = [i \in 1 .. p |-> live[i]]
      BY <1>3, <1>4, <2>1
    <3>5. SubSeq(live, 1, p) \in Seq(Nat)
      BY <2>1, <3>3, <3>4
    <3> QED BY <3>2, <3>5
  <2>3. <<free>> \in Seq(Nat)
    BY <1>6
  <2>4. SubSeq(live, 1, p) \o <<free>> \in Seq(Nat)
    BY <2>2, <2>3
  <2>5. (SubSeq(live, 1, p) \o <<free>>) \o SubSeq(live, p + 1, Len(live)) \in Seq(Nat)
    BY <2>2, <2>4
  <2> QED BY <2>5 DEF Insort, p
<1> QED BY <1>6, <1>8 DEF live, free

\* What is left of a ledger in the file is ascending.
LEMMA FileAscends ==
  ASSUME NEW all \in Seq(Nat), NEW s, NEW t \in Nat, IsLedger(all, s, t)
  PROVE  s \in Seq(Nat) /\ Ascending(s)
<1>1. PICK d \in 0 .. Len(all) : s = SubSeq(all, d + 1, Len(all))
  BY DEF IsLedger, FileOf
<1>2. /\ s \in Seq(Nat) /\ Len(s) = Len(all) - d /\ \A i \in 1 .. Len(all) - d : s[i] = all[d + i]
      /\ d \in Nat /\ d <= Len(all) /\ Len(all) \in Nat
  <2>1. Len(all) \in Nat
    OBVIOUS
  <2>2. d \in Nat /\ d <= Len(all)
    BY <2>1
  <2>3. s \in Seq(Nat) /\ Len(s) = Len(all) - d /\ \A i \in 1 .. Len(all) - d : s[i] = all[d + i]
    BY <1>1, SuffixProperties
  <2> QED BY <2>1, <2>2, <2>3
<1>3. ASSUME NEW i \in 1 .. Len(all) - d, NEW j \in 1 .. Len(all) - d, i <= j PROVE s[i] <= s[j]
  <2>1. d + i \in 1 .. Len(all) /\ d + j \in 1 .. Len(all) /\ d + i <= d + j
    BY <1>2, <1>3
  <2> QED BY <1>2, <2>1 DEF IsLedger, Ascending
<1> QED BY <1>2, <1>3 DEF Ascending

(* ------------------------------- the invariant ------------------------------ *)

\* The processes that have not been given a start, and those between lock and flush.
Asking == {p \in Procs : pc[p] \in {"opening", "locked", "read"}}
Inside(p) == pc[p] \in {"locked", "read", "truncated", "unlocked"}

\* No more starts are handed out than the bound says.
CountOK ==
    /\ IsFiniteSet(Busy)
    /\ Len(granted) + Cardinality(Asking) <= MaxGrants

LockOK == \A p \in Procs : pc[p] \in {"locked", "read", "truncated"} <=> holder = p

\* As long as nothing has gone wrong.
CleanOK ==
    /\ \A p, q \in Procs : Inside(p) /\ Inside(q) => p = q
    /\ Writers = {} => IsLedger(granted, file, latest)
    /\ \A p \in Writers : file = <<>> /\ IsLedger(granted, buf[p], latest)
    /\ \A p \in Procs : pc[p] = "read" => /\ now[p] = latest
                                        /\ start[p] = StartFor(Live(file, latest), latest)
                                        /\ buf[p] = Booked(file, latest)

SlotFileInv == TypeOK /\ CountOK /\ LockOK /\ (spoilt = {} => CleanOK)

\* The constants, and what is known of a process.
LEMMA FileTypes ==
  ASSUME TypeOK
  PROVE  /\ MaxTime \in Nat /\ MaxGrants \in Nat /\ MaxFaults \in Nat /\ None \notin Procs
         /\ clock \in Nat /\ latest \in Nat /\ Len(granted) \in Nat /\ Sorted(file) \in Seq(Nat)
         /\ \A p \in Procs : pc[p] \in Steps /\ now[p] \in Nat /\ now[p] <= MaxTime /\ start[p] \in Nat /\ buf[p] \in Seq(Nat)
BY SlotFileAssumption, SortedIs DEF TypeOK

\* Types: what is written to the file is a list of times, whatever was read from it.
LEMMA TypesKept ==
  ASSUME TypeOK, [Next]_vars
  PROVE  TypeOK'
<1>1. CASE Tick
  BY <1>1, FileTypes DEF Tick, TypeOK, local
<1>2. CASE UNCHANGED vars
  BY <1>2 DEF vars, local, TypeOK
<1>3. ASSUME NEW p \in Procs, ReadClock(p) PROVE TypeOK'
  BY <1>3, FileTypes DEF ReadClock, Goto, TypeOK, Steps
<1>4. ASSUME NEW p \in Procs, Return(p)
      PROVE  /\ pc' \in [Procs -> Steps] /\ now' \in [Procs -> 0 .. MaxTime]
             /\ start' \in [Procs -> Nat] /\ buf' \in [Procs -> Seq(Nat)]
  <2>1. 0 \in 0 .. MaxTime /\ 0 \in Nat /\ <<>> \in Seq(Nat) /\ "idle" \in Steps
    BY FileTypes DEF Steps
  <2>2. /\ pc \in [Procs -> Steps] /\ now \in [Procs -> 0 .. MaxTime]
        /\ start \in [Procs -> Nat] /\ buf \in [Procs -> Seq(Nat)]
    BY DEF TypeOK
  <2>3. /\ pc' = [pc EXCEPT ![p] = "idle"] /\ now' = [now EXCEPT ![p] = 0]
        /\ start' = [start EXCEPT ![p] = 0] /\ buf' = [buf EXCEPT ![p] = <<>>]
    BY <1>4 DEF Return
  <2> QED BY <2>1, <2>2, <2>3
<1>5. ASSUME NEW p \in Procs, OpenFails(p) PROVE TypeOK'
  BY <1>4, <1>5 DEF OpenFails, TypeOK
<1>6. ASSUME NEW p \in Procs, Lock(p) PROVE TypeOK'
  BY <1>6 DEF Lock, Goto, Note, TypeOK, Steps, Mishaps
<1>7. ASSUME NEW p \in Procs, ReadSlots(p) PROVE TypeOK'
  <2> DEFINE live == Live(Sorted(file), now[p])
  <2>1. StartFor(live, now[p]) \in Nat /\ Insort(live, StartFor(live, now[p])) \in Seq(Nat)
    <3>1. Sorted(file) \in Seq(Nat) /\ Ascending(Sorted(file)) /\ now[p] \in Nat
      BY FileTypes, SortedIs DEF TypeOK
    <3> QED BY <3>1, BookingTypes
  <2>2. start' \in [Procs -> Nat] /\ buf' \in [Procs -> Seq(Nat)] /\ UNCHANGED <<clock, file, holder, now, granted, faults>>
    <3> HIDE DEF live
    <3>1. /\ start' = [start EXCEPT ![p] = StartFor(live, now[p])]
          /\ buf' = [buf EXCEPT ![p] = Insort(live, StartFor(live, now[p]))]
          /\ UNCHANGED <<clock, file, holder, now, granted, faults>>
      BY <1>7 DEF ReadSlots, live
    <3> QED BY <2>1, <3>1 DEF TypeOK
  <2>3. latest' \in 0 .. MaxTime
    <3>1. latest \in 0 .. MaxTime /\ now[p] \in 0 .. MaxTime
      BY DEF TypeOK
    <3>2. Max({latest, now[p]}) = IF latest >= now[p] THEN latest ELSE now[p]
      BY <3>1, MaxOfTwo
    <3> QED BY <1>7, <3>1, <3>2 DEF ReadSlots
  <2>4. pc' \in [Procs -> Steps] /\ spoilt' \subseteq Mishaps
    BY <1>7 DEF ReadSlots, Goto, Note, TypeOK, Steps, Mishaps
  <2> QED BY <2>2, <2>3, <2>4 DEF TypeOK
<1>8. ASSUME NEW p \in Procs, Truncate(p) PROVE TypeOK'
  <2>1. granted' \in Seq(Nat) /\ file' \in Seq(Nat)
    BY <1>8, FileTypes DEF Truncate, TypeOK
  <2> QED BY <1>8, <2>1 DEF Truncate, Goto, TypeOK, Steps
<1>9. ASSUME NEW p \in Procs, Unlock(p) PROVE TypeOK'
  BY <1>9 DEF Unlock, Goto, TypeOK, Steps
<1>10. ASSUME NEW p \in Procs, Flush(p) PROVE TypeOK'
  <2>1. file' \in Seq(Nat)
    BY <1>10, FileTypes DEF Flush, TypeOK
  <2> QED BY <1>4, <1>10, <2>1 DEF Flush, TypeOK
<1>11. ASSUME NEW p \in Procs, FlushFails(p) PROVE TypeOK'
  <2>1. Return(p) /\ UNCHANGED <<clock, file, holder, granted, latest>>
    BY <1>11 DEF FlushFails
  <2>2. faults' \in 0 .. MaxFaults
    <3>1. faults \in 0 .. MaxFaults /\ MaxFaults \in Nat
      BY FileTypes DEF TypeOK
    <3>2. faults < MaxFaults /\ faults' = faults + 1
      BY <1>11 DEF FlushFails
    <3> QED BY <3>1, <3>2
  <2>3. spoilt' \subseteq Mishaps
    BY <1>11 DEF FlushFails, Note, TypeOK, Mishaps
  <2> QED BY <1>4, <2>1, <2>2, <2>3 DEF TypeOK
<1>12. ASSUME NEW p \in Procs, Kill(p) PROVE TypeOK'
  <2>1. Return(p) /\ UNCHANGED <<clock, file, granted, latest>>
    BY <1>12 DEF Kill
  <2>2. faults' \in 0 .. MaxFaults
    <3>1. faults \in 0 .. MaxFaults /\ MaxFaults \in Nat
      BY FileTypes DEF TypeOK
    <3>2. faults < MaxFaults /\ faults' = faults + 1
      BY <1>12 DEF Kill
    <3> QED BY <3>1, <3>2
  <2>3. spoilt' \subseteq Mishaps
    BY <1>12 DEF Kill, Note, TypeOK, Mishaps
  <2>4. holder' \in Procs \cup {None}
    BY <1>12 DEF Kill, TypeOK
  <2> QED BY <1>4, <2>1, <2>2, <2>3, <2>4 DEF TypeOK
<1> QED BY <1>1, <1>2, <1>3, <1>5, <1>6, <1>7, <1>8, <1>9, <1>10, <1>11, <1>12 DEF Next, Reserve

\* Starts handed out: a call that begins has room for its own.
LEMMA CountKept ==
  ASSUME TypeOK, CountOK, [Next]_vars
  PROVE  CountOK'
<1>1. /\ IsFiniteSet(Busy) /\ Asking \subseteq Busy /\ IsFiniteSet(Asking) /\ Cardinality(Busy) \in Nat
      /\ Cardinality(Asking) \in Nat /\ Cardinality(Asking) <= Cardinality(Busy)
  <2>1. Asking \subseteq Busy
    BY DEF Asking, Busy
  <2> QED BY <2>1, FS_Subset, FS_CardinalityType DEF CountOK
<1>2. Len(granted) + Cardinality(Asking) <= MaxGrants /\ Len(granted) \in Nat /\ MaxGrants \in Nat
  BY FileTypes DEF CountOK
<1>3. ASSUME NEW p \in Procs, \A q \in Procs \ {p} : pc'[q] = pc[q]
      PROVE  IsFiniteSet(Busy')
  <2>1. Busy' \subseteq Busy \cup {p}
    BY <1>3 DEF Busy
  <2>2. IsFiniteSet(Busy \cup {p})
    BY <1>1, FS_AddElement
  <2> QED BY <2>1, <2>2, FS_Subset
<1>4. ASSUME Asking' \subseteq Asking, granted' = granted, IsFiniteSet(Busy')
      PROVE  CountOK'
  <2>1. Cardinality(Asking') <= Cardinality(Asking) /\ Cardinality(Asking') \in Nat
    BY <1>1, <1>4, FS_Subset, FS_CardinalityType
  <2>2. Len(granted') + Cardinality(Asking') <= MaxGrants
    <3>1. Len(granted') = Len(granted)
      BY <1>4
    <3> QED BY <1>1, <1>2, <2>1, <3>1
  <2> QED BY <1>4, <2>2 DEF CountOK
<1>5. CASE Tick \/ UNCHANGED vars
  <2>1. pc' = pc /\ granted' = granted
    BY <1>5 DEF Tick, vars, local
  <2> QED BY <1>1, <1>4, <2>1 DEF Asking, Busy
<1>6. ASSUME NEW p \in Procs, ReadClock(p) PROVE CountOK'
  <2>1. /\ pc[p] = "idle" /\ pc' = [pc EXCEPT ![p] = "opening"] /\ granted' = granted
        /\ Len(granted) + Cardinality(Busy) < MaxGrants /\ pc \in [Procs -> Steps]
    BY <1>6 DEF ReadClock, Goto, TypeOK
  <2>2. Asking' = Asking \cup {p} /\ p \notin Asking
    BY <2>1 DEF Asking
  <2>3. Cardinality(Asking') = Cardinality(Asking) + 1
    BY <1>1, <2>2, FS_AddElement
  <2>4. IsFiniteSet(Busy')
    BY <1>3, <2>1
  <2> QED BY <1>1, <1>2, <2>1, <2>3, <2>4 DEF CountOK
<1>7. ASSUME NEW p \in Procs, Truncate(p) PROVE CountOK'
  <2>1. /\ pc[p] = "read" /\ pc' = [pc EXCEPT ![p] = "truncated"] /\ Len(granted') = Len(granted) + 1
        /\ pc \in [Procs -> Steps]
    BY <1>7, FileTypes DEF Truncate, Goto, TypeOK
  <2>2. Asking' = Asking \ {p} /\ p \in Asking
    BY <2>1 DEF Asking
  <2>3. Cardinality(Asking') = Cardinality(Asking) - 1
    BY <1>1, <2>2, FS_RemoveElement
  <2>4. IsFiniteSet(Busy')
    BY <1>3, <2>1
  <2> QED BY <1>1, <1>2, <2>1, <2>3, <2>4 DEF CountOK
<1>8. ASSUME NEW p \in Procs,
             \/ OpenFails(p) \/ Lock(p) \/ ReadSlots(p) \/ Unlock(p) \/ Flush(p) \/ FlushFails(p) \/ Kill(p)
      PROVE  CountOK'
  <2>1. /\ granted' = granted
        /\ \E step \in {"idle", "locked", "read", "truncated", "unlocked"} : pc' = [pc EXCEPT ![p] = step]
        /\ pc'[p] \in {"locked", "read"} => pc[p] \in {"opening", "locked"}
        /\ pc \in [Procs -> Steps]
    BY <1>8 DEF OpenFails, Lock, ReadSlots, Unlock, Flush, FlushFails, Kill, Return, Goto, TypeOK
  <2>2. Asking' \subseteq Asking
    BY <2>1 DEF Asking
  <2>3. IsFiniteSet(Busy')
    BY <1>3, <2>1
  <2> QED BY <1>4, <2>1, <2>2, <2>3
<1> QED BY <1>5, <1>6, <1>7, <1>8 DEF Next, Reserve

\* The lock: who is between lock and unlock holds it.
LEMMA LockKept ==
  ASSUME TypeOK, LockOK, [Next]_vars
  PROVE  LockOK'
<1>1. pc \in [Procs -> Steps] /\ None \notin Procs
  BY FileTypes DEF TypeOK
<1>2. CASE Tick \/ UNCHANGED vars
  <2>1. pc' = pc /\ holder' = holder
    BY <1>2 DEF Tick, vars, local
  <2> QED BY <2>1 DEF LockOK
<1>3. ASSUME NEW p \in Procs, Reserve(p) \/ Kill(p) PROVE LockOK'
  <2>1. /\ \A q \in Procs \ {p} : pc'[q] = pc[q]
        /\ \/ pc'[p] \in {"locked", "read", "truncated"} /\ pc[p] \in {"locked", "read", "truncated"} /\ holder' = holder
           \/ pc'[p] = "locked" /\ holder = None /\ holder' = p
           \/ pc'[p] \notin {"locked", "read", "truncated"} /\ pc[p] \in {"locked", "read", "truncated"} /\ holder' = None
           \/ /\ pc'[p] \notin {"locked", "read", "truncated"} /\ pc[p] \notin {"locked", "read", "truncated"}
              /\ holder' = holder
    <3>1. CASE Reserve(p)
      BY <1>1, <3>1 DEF Reserve, ReadClock, OpenFails, Lock, ReadSlots, Truncate, Unlock, Flush, FlushFails, Return, Goto
    <3>2. CASE Kill(p)
      BY <1>1, <3>2 DEF Kill, Return, LockOK
    <3> QED BY <1>3, <3>1, <3>2
  <2>2. \A q \in Procs : pc[q] \in {"locked", "read", "truncated"} <=> holder = q
    BY DEF LockOK
  <2> QED BY <1>1, <2>1, <2>2 DEF LockOK
<1> QED BY <1>2, <1>3 DEF Next

\* What has gone wrong stays noted.
LEMMA MishapsStay ==
  ASSUME [Next]_vars
  PROVE  spoilt \subseteq spoilt'
BY DEF Next, Reserve, Tick, ReadClock, OpenFails, Lock, ReadSlots, Truncate, Unlock, Flush, FlushFails, Kill, Note,
       vars, local

(* The steps of a process, and of time, by what they do to the ledger as long as nothing goes
   wrong.  Most do nothing to it ... *)
Quiet ==
    /\ UNCHANGED <<file, granted, latest>>
    /\ \A q \in Procs : /\ pc'[q] \in {"truncated", "unlocked"} <=> pc[q] \in {"truncated", "unlocked"}
                        /\ pc'[q] \in {"locked", "read", "truncated", "unlocked"} => Inside(q)
                        /\ pc'[q] = "read" => pc[q] = "read" /\ now'[q] = now[q] /\ start'[q] = start[q]
                        /\ pc'[q] \in {"read", "truncated", "unlocked"} => buf'[q] = buf[q]

\* ... a lock finds nobody inside ...
Locks(p) ==
    /\ UNCHANGED <<file, granted, latest>>
    /\ \A q \in Procs : ~Inside(q)
    /\ pc'[p] = "locked" /\ \A q \in Procs \ {p} : pc'[q] = pc[q]

\* ... a reader is the only one inside, and the ledger's time becomes its own ...
Reads(p) ==
    /\ UNCHANGED <<file, granted>> /\ pc[p] = "locked" /\ pc'[p] = "read"
    /\ \A q \in Procs \ {p} : pc'[q] = pc[q]
    /\ latest' = now[p] /\ latest <= now[p] /\ now'[p] = now[p]
    /\ start'[p] = StartFor(Live(Sorted(file), now[p]), now[p])
    /\ buf'[p] = Booked(Sorted(file), now[p])

\* ... truncating the file hands out the start, and the flush puts the list in its place.
Grants(p) ==
    /\ file' = <<>> /\ granted' = Append(granted, start[p]) /\ latest' = latest
    /\ pc[p] = "read" /\ pc'[p] = "truncated" /\ buf'[p] = buf[p]
    /\ \A q \in Procs \ {p} : pc'[q] = pc[q]

Writes(p) ==
    /\ file' = file \o buf[p] /\ UNCHANGED <<granted, latest>>
    /\ pc[p] = "unlocked" /\ pc'[p] = "idle"
    /\ \A q \in Procs \ {p} : pc'[q] = pc[q]

\* There are no others.
LEMMA StepIs ==
  ASSUME TypeOK, LockOK, [Next]_vars, spoilt' = {}
  PROVE  \/ Quiet
         \/ \E p \in Procs : Locks(p) \/ Reads(p) \/ Grants(p) \/ Writes(p)
<1>1. /\ pc \in [Procs -> Steps] /\ now \in [Procs -> 0 .. MaxTime] /\ None \notin Procs
      /\ start \in [Procs -> Nat] /\ buf \in [Procs -> Seq(Nat)] /\ latest \in 0 .. MaxTime
  BY FileTypes DEF TypeOK
<1>2. CASE Tick
  BY <1>2 DEF Tick, local, Quiet, Inside
<1>3. CASE UNCHANGED vars
  BY <1>3 DEF vars, local, Quiet, Inside
<1>4. ASSUME NEW p \in Procs, ReadClock(p) PROVE Quiet
  BY <1>1, <1>4 DEF ReadClock, Goto, Quiet, Inside
<1>5. ASSUME NEW p \in Procs, OpenFails(p) PROVE Quiet
  BY <1>1, <1>5 DEF OpenFails, Return, Quiet, Inside
<1>6. ASSUME NEW p \in Procs, Lock(p) PROVE Locks(p)
  <2>1. \A q \in Procs : pc[q] # "unlocked"
    BY <1>6 DEF Lock, Note
  <2>2. \A q \in Procs : pc[q] \notin {"locked", "read", "truncated"}
    BY <1>1, <1>6 DEF Lock, LockOK
  <2> QED BY <1>1, <1>6, <2>1, <2>2 DEF Lock, Goto, Locks, Inside
<1>7. ASSUME NEW p \in Procs, ReadSlots(p) PROVE Reads(p)
  <2>1. ~(now[p] < latest)
    BY <1>7 DEF ReadSlots, Note
  <2>2. latest <= now[p] /\ Max({latest, now[p]}) = now[p]
    <3>1. latest \in Int /\ now[p] \in Int
      BY <1>1
    <3>2. Max({latest, now[p]}) = IF latest >= now[p] THEN latest ELSE now[p]
      BY <3>1, MaxOfTwo
    <3> QED BY <2>1, <3>1, <3>2
  <2> QED BY <1>1, <1>7, <2>2 DEF ReadSlots, Goto, Reads, Booked
<1>8. ASSUME NEW p \in Procs, Truncate(p) PROVE Grants(p)
  BY <1>1, <1>8 DEF Truncate, Goto, Grants
<1>9. ASSUME NEW p \in Procs, Unlock(p) PROVE Quiet
  BY <1>1, <1>9 DEF Unlock, Goto, Quiet, Inside
<1>10. ASSUME NEW p \in Procs, Flush(p) PROVE Writes(p)
  BY <1>1, <1>10 DEF Flush, Return, Writes
<1>11. ASSUME NEW p \in Procs, FlushFails(p) PROVE FALSE
  BY <1>11 DEF FlushFails, Note
<1>12. ASSUME NEW p \in Procs, Kill(p) PROVE Quiet
  <2>1. pc[p] \notin {"truncated", "unlocked"}
    BY <1>12 DEF Kill, Note
  <2> QED BY <1>1, <1>12, <2>1 DEF Kill, Return, Quiet, Inside
<1> QED BY <1>2, <1>3, <1>4, <1>5, <1>6, <1>7, <1>8, <1>9, <1>10, <1>11, <1>12 DEF Next, Reserve

\* The one who is inside, and the list that is the ledger's, from step to step.
LEMMA CleanKept ==
  ASSUME TypeOK, CleanOK,
         Quiet \/ \E p \in Procs : Locks(p) \/ Reads(p) \/ Grants(p) \/ Writes(p)
  PROVE  CleanOK'
<1>1. /\ granted \in Seq(Nat) /\ latest \in Nat /\ file \in Seq(Nat)
      /\ \A p \in Procs : buf[p] \in Seq(Nat) /\ now[p] \in Nat
  BY FileTypes DEF TypeOK
<1>2. /\ \A p, q \in Procs : Inside(p) /\ Inside(q) => p = q
      /\ Writers = {} => IsLedger(granted, file, latest)
      /\ \A p \in Writers : file = <<>> /\ IsLedger(granted, buf[p], latest)
      /\ \A p \in Procs : pc[p] = "read" => /\ now[p] = latest
                                          /\ start[p] = StartFor(Live(file, latest), latest)
                                          /\ buf[p] = Booked(file, latest)
  BY DEF CleanOK
<1>3. ASSUME NEW p \in Procs, pc[p] \in {"locked", "read"} PROVE Writers = {} /\ IsLedger(granted, file, latest)
  <2>1. Writers = {}
    BY <1>2, <1>3 DEF Writers, Inside
  <2> QED BY <1>2, <2>1
<1>4. CASE Quiet
  <2>1. Writers' = Writers /\ UNCHANGED <<file, granted, latest>>
    BY <1>4 DEF Quiet, Writers
  <2>2. \A p \in Writers : buf'[p] = buf[p]
    BY <1>4 DEF Quiet, Writers
  <2>3. \A p, q \in Procs : Inside(p)' /\ Inside(q)' => p = q
    BY <1>2, <1>4 DEF Quiet, Inside
  <2>4. \A p \in Procs : pc'[p] = "read" => /\ now'[p] = latest'
                                         /\ start'[p] = StartFor(Live(file, latest), latest)
                                         /\ buf'[p] = Booked(file, latest)
    BY <1>2, <1>4 DEF Quiet
  <2> QED BY <1>2, <2>1, <2>2, <2>3, <2>4 DEF CleanOK
<1>5. ASSUME NEW p \in Procs, Locks(p) PROVE CleanOK'
  <2>1. Writers = {} /\ Writers' = {} /\ \A q \in Procs : pc'[q] # "read"
    BY <1>5 DEF Locks, Writers, Inside
  <2>2. \A q, r \in Procs : Inside(q)' /\ Inside(r)' => q = r
    BY <1>5 DEF Locks, Inside
  <2> QED BY <1>2, <1>5, <2>1, <2>2 DEF Locks, CleanOK
<1>6. ASSUME NEW p \in Procs, Reads(p) PROVE CleanOK'
  <2>1. Writers = {} /\ IsLedger(granted, file, latest)
    BY <1>3, <1>6 DEF Reads
  <2>2. Writers' = {} /\ \A q \in Procs : Inside(q)' => q = p
    BY <1>2, <1>6, <2>1 DEF Reads, Writers, Inside
  <2>3. Sorted(file) = file
    BY <1>1, <2>1, FileAscends, SortedIs
  <2>4. IsLedger(granted, file, latest')
    <3>1. latest' \in Nat /\ latest' >= latest
      BY <1>1, <1>6 DEF Reads
    <3> QED BY <1>1, <2>1, <3>1, LedgerLater
  <2>5. \A q \in Procs : pc'[q] = "read" => /\ now'[q] = latest'
                                         /\ start'[q] = StartFor(Live(file, latest'), latest')
                                         /\ buf'[q] = Booked(file, latest')
    BY <1>6, <2>2, <2>3 DEF Reads, Inside
  <2> QED BY <1>6, <2>2, <2>4, <2>5 DEF Reads, CleanOK
<1>7. ASSUME NEW p \in Procs, Grants(p) PROVE CleanOK'
  <2>1. Writers = {} /\ IsLedger(granted, file, latest)
    BY <1>3, <1>7 DEF Grants
  <2>2. Writers' = {p} /\ \A q \in Procs : Inside(q)' => q = p
    BY <1>2, <1>7, <2>1 DEF Grants, Writers, Inside
  <2>3. start[p] = StartFor(Live(file, latest), latest) /\ buf[p] = Booked(file, latest)
    BY <1>2, <1>7 DEF Grants
  <2>4. IsLedger(Append(granted, start[p]), buf[p], latest)
    BY <1>1, <2>1, <2>3, BookingKeepsLedger
  <2>5. \A q \in Procs : pc'[q] # "read"
    BY <1>7, <2>2 DEF Grants, Inside
  <2> QED BY <1>7, <2>2, <2>4, <2>5 DEF Grants, CleanOK
<1>8. ASSUME NEW p \in Procs, Writes(p) PROVE CleanOK'
  <2>1. p \in Writers /\ Inside(p)
    BY <1>8 DEF Writes, Writers, Inside
  <2>2. file = <<>> /\ IsLedger(granted, buf[p], latest)
    BY <1>2, <2>1
  <2>3. Writers' = {} /\ \A q \in Procs : ~Inside(q)'
    BY <1>2, <1>8, <2>1 DEF Writes, Writers, Inside
  <2>4. file' = buf[p]
    <3>1. buf[p] \in Seq(Nat)
      BY <1>1
    <3>2. file' = <<>> \o buf[p]
      BY <1>8, <2>2 DEF Writes
    <3> QED BY <3>1, <3>2
  <2>5. \A q \in Procs : pc'[q] # "read"
    BY <2>3 DEF Inside
  <2> QED BY <1>8, <2>2, <2>3, <2>4, <2>5 DEF Writes, CleanOK
<1> QED BY <1>4, <1>5, <1>6, <1>7, <1>8

\* Nobody has begun, and nothing is booked.
LEMMA InitInv == Init => SlotFileInv
<1> SUFFICES ASSUME Init PROVE SlotFileInv
  OBVIOUS
<1>1. /\ Busy = {} /\ Asking = {} /\ Writers = {} /\ \A p \in Procs : ~Inside(p) /\ pc[p] = "idle"
      /\ holder = None /\ file = <<>> /\ granted = <<>> /\ latest = 0
  BY DEF Init, Busy, Asking, Writers, Inside
<1>2. TypeOK
  BY SlotFileAssumption DEF Init, TypeOK, Steps, Mishaps
<1>3. CountOK
  <2>1. IsFiniteSet(Busy) /\ Cardinality(Asking) = 0 /\ Len(granted) = 0
    BY <1>1, FS_EmptySet
  <2> QED BY <2>1, SlotFileAssumption DEF CountOK
<1>4. LockOK
  BY <1>1, SlotFileAssumption DEF LockOK
<1>5. CleanOK
  <2>1. IsLedger(<<>>, <<>>, 0)
    BY DEF IsLedger, Ascending, Spread, Tight, FileOf
  <2> QED BY <1>1, <2>1 DEF CleanOK
<1> QED BY <1>2, <1>3, <1>4, <1>5 DEF SlotFileInv

\* Each part of the invariant is kept by each step.
LEMMA StepInv == SlotFileInv /\ [Next]_vars => SlotFileInv'
<1> SUFFICES ASSUME SlotFileInv, [Next]_vars PROVE SlotFileInv'
  OBVIOUS
<1>1. TypeOK /\ CountOK /\ LockOK /\ (spoilt = {} => CleanOK)
  BY DEF SlotFileInv
<1>2. TypeOK' /\ CountOK' /\ LockOK'
  BY <1>1, TypesKept, CountKept, LockKept
<1>3. ASSUME spoilt' = {} PROVE CleanOK'
  <2>1. spoilt = {}
    BY <1>3, MishapsStay
  <2>2. Quiet \/ \E p \in Procs : Locks(p) \/ Reads(p) \/ Grants(p) \/ Writes(p)
    BY <1>1, <1>3, StepIs
  <2> QED BY <1>1, <2>1, <2>2, CleanKept
<1> QED BY <1>2, <1>3 DEF SlotFileInv

(* ------------------------------- the ledger ------------------------------ *)

\* The list the ledger sees.
Seen == IF Writers = {} THEN file ELSE buf[CHOOSE p \in Writers : TRUE]

\* A file nobody has written is the ledger's at first.
LEMMA InitIsLedgers == Init => Ledger!Init
<1> SUFFICES ASSUME Init PROVE Ledger!Init
  OBVIOUS
<1>1. Writers = {}
  BY DEF Init, Writers
<1> QED BY <1>1 DEF Init, Ledger!Init

\* Each step that leaves nothing wrong is one of the ledger, or none.
LEMMA StepIsLedgers ==
  ASSUME SlotFileInv, [Next]_vars, spoilt' = {}
  PROVE  [Ledger!Next]_(Ledger!vars)
<1>1. TypeOK /\ CountOK /\ LockOK /\ CleanOK
  BY MishapsStay DEF SlotFileInv
<1>2. TypeOK' /\ CleanOK'
  BY StepInv DEF SlotFileInv
<1>3. Quiet \/ \E p \in Procs : Locks(p) \/ Reads(p) \/ Grants(p) \/ Writes(p)
  BY <1>1, StepIs
<1>4. ASSUME UNCHANGED <<Seen, granted, latest>> PROVE [Ledger!Next]_(Ledger!vars)
  BY <1>4 DEF Ledger!vars, Seen
<1>5. CASE Quiet
  <2>1. Writers' = Writers /\ UNCHANGED <<file, granted, latest>>
    BY <1>5 DEF Quiet, Writers
  <2>2. \A p \in Writers : buf'[p] = buf[p]
    BY <1>5 DEF Quiet, Writers
  <2>3. Seen' = Seen
    BY <2>1, <2>2 DEF Seen
  <2> QED BY <1>4, <2>1, <2>3
<1>6. ASSUME NEW p \in Procs, Locks(p) PROVE [Ledger!Next]_(Ledger!vars)
  <2>1. Writers = {} /\ Writers' = {} /\ UNCHANGED <<file, granted, latest>>
    BY <1>6 DEF Locks, Writers, Inside
  <2> QED BY <1>4, <2>1 DEF Seen
<1>7. ASSUME NEW p \in Procs, Reads(p) PROVE [Ledger!Next]_(Ledger!vars)
  <2>1. Writers = {} /\ Writers' = {} /\ UNCHANGED <<file, granted>>
    BY <1>1, <1>7 DEF Reads, Writers, Inside, CleanOK
  <2>2. Seen' = Seen
    BY <2>1 DEF Seen
  <2>3. latest \in Nat /\ latest' \in 0 .. MaxTime /\ latest <= latest' /\ MaxTime \in Nat
    BY <1>1, <1>2, <1>7, FileTypes DEF Reads, TypeOK
  <2>4. CASE latest' = latest
    BY <1>4, <2>1, <2>2, <2>4
  <2>5. CASE latest' # latest
    <3>1. latest' \in latest + 1 .. MaxTime
      BY <2>3, <2>5
    <3>2. Ledger!Tick
      BY <2>1, <2>2, <3>1 DEF Ledger!Tick, Seen
    <3> QED BY <3>2 DEF Ledger!Next
  <2> QED BY <2>4, <2>5
<1>8. ASSUME NEW p \in Procs, Grants(p) PROVE [Ledger!Next]_(Ledger!vars)
  <2>1. Writers = {} /\ Writers' = {p} /\ latest' = latest
    BY <1>1, <1>8 DEF Grants, Writers, Inside, CleanOK
  <2>2. Seen = file /\ Seen' = Booked(file, latest) /\ granted' = Append(granted, StartFor(Live(file, latest), latest))
    BY <1>1, <1>8, <2>1 DEF Grants, CleanOK, Seen
  <2>3. Len(granted) < MaxGrants
    <3>1. p \in Asking /\ Asking \subseteq Busy /\ IsFiniteSet(Busy)
      BY <1>1, <1>8 DEF Grants, Asking, Busy, CountOK
    <3>2. Cardinality(Asking) \in Nat /\ Cardinality(Asking) # 0
      BY <3>1, FS_Subset, FS_CardinalityType, FS_EmptySet
    <3> QED BY <1>1, <3>2, FileTypes DEF CountOK
  <2>4. /\ Ledger!Live(file, latest) = Live(file, latest)
        /\ \A s, t : Ledger!StartFor(s, t) = StartFor(s, t) /\ Ledger!Insort(s, t) = Insort(s, t)
    BY DEF Ledger!Live, Live, Ledger!StartFor, StartFor, Ledger!Insort, Insort, Ledger!ExpiredCount, ExpiredCount,
           Ledger!InsertionPoint, InsertionPoint
  <2>5. Ledger!Reserve
    BY <2>1, <2>2, <2>3, <2>4 DEF Ledger!Reserve, Booked, Seen
  <2> QED BY <2>5 DEF Ledger!Next
<1>9. ASSUME NEW p \in Procs, Writes(p) PROVE [Ledger!Next]_(Ledger!vars)
  <2>1. p \in Writers /\ Inside(p)
    BY <1>9 DEF Writes, Writers, Inside
  <2>2. Writers = {p} /\ Writers' = {}
    BY <1>1, <1>9, <2>1 DEF Writes, Writers, Inside, CleanOK
  <2>3. file = <<>> /\ file' = file \o buf[p] /\ buf[p] \in Seq(Nat) /\ UNCHANGED <<granted, latest>>
    BY <1>1, <1>9, <2>1, FileTypes DEF Writes, CleanOK
  <2>4. file' = buf[p]
    BY <2>3
  <2>5. Seen' = Seen
    BY <2>2, <2>4 DEF Seen
  <2> QED BY <1>4, <2>3, <2>5
<1> QED BY <1>3, <1>5, <1>6, <1>7, <1>8, <1>9

(* The inductive invariant of the file protocol. *)
THEOREM SlotFileInvariance == Spec => []SlotFileInv
BY InitInv, StepInv, PTL DEF Spec

(* Whatever number of processes share the file, with whatever clocks and kills: until one
   of the three mishaps happens, every step of reserve() is a step of the ledger, whose
   window holds. *)
THEOREM FileImplementsLedger == Spec => ImplementsLedgerUntilMishap
<1>1. SlotFileInv => TypeOK
  BY DEF SlotFileInv
<1>2. SlotFileInv /\ [Next]_vars => [spoilt' = {} => [Ledger!Next]_(Ledger!vars)]_vars
  BY StepIsLedgers
<1> QED BY <1>1, <1>2, InitIsLedgers, SlotFileInvariance, PTL DEF Spec, ImplementsLedgerUntilMishap

=============================================================================
