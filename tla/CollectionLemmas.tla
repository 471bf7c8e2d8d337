---------------------------- MODULE CollectionLemmas ----------------------------
(***************************************************************************)
(* Facts about numbers and the operators of FiniteSetsExt that several     *)
(* proofs need: least elements, Min and Max, and the suffixes that are     *)
(* left of a list when its head is cut off.                                *)
(***************************************************************************)
EXTENDS Integers, FiniteSetsExt, Sequences, WellFoundedInduction, SequenceTheorems, TLAPS

\* Every nonempty set of naturals has a least element.
LEMMA LeastElement ==
  ASSUME NEW T, T \subseteq Nat, T # {}
  PROVE  \E x \in T : \A y \in T : x <= y
<1>1. PICK x \in T : \A y \in T : ~(<<y, x>> \in OpToRel(<, Nat))
  BY NatLessThanWellFounded, WFMin, Zenon
<1>2. \A y \in T : ~(y < x)
  BY <1>1 DEF OpToRel
<1>3. \A y \in T : x <= y
  BY <1>2
<1> QED BY <1>3

\* Min is what its name says.
LEMMA MinIsLeast ==
  ASSUME NEW T, T \subseteq Nat, T # {}
  PROVE  Min(T) \in T /\ \A y \in T : Min(T) <= y
BY LeastElement DEF Min

\* So is Max, of numbers that do not exceed some other.
LEMMA MaxIsGreatest ==
  ASSUME NEW T, T \subseteq Nat, T # {}, NEW n \in Nat, \A y \in T : y <= n
  PROVE  Max(T) \in T /\ \A y \in T : Max(T) >= y
<1> DEFINE bounds == {m \in Nat : \A y \in T : y <= m}
<1>1. PICK m \in bounds : \A b \in bounds : m <= b
  BY LeastElement
<1>2. m \in T
  <2> SUFFICES ASSUME m \notin T PROVE FALSE
    OBVIOUS
  <2>0. PICK x \in T : TRUE
    OBVIOUS
  <2>1. x < m /\ m \in Nat /\ \A y \in T : y # m
    BY <2>0, <1>1
  <2>2. m - 1 \in bounds
    <3>1. m - 1 \in Nat
      BY <2>0, <2>1
    <3>2. \A y \in T : y <= m - 1
      BY <2>1, <1>1
    <3> QED BY <3>1, <3>2
  <2>3. m <= m - 1
    BY <2>2, <1>1
  <2> QED BY <2>1, <2>3
<1>3. \E x \in T : \A y \in T : x >= y
  BY <1>1, <1>2
<1> QED BY <1>3 DEF Max

\* Of two numbers, Min is the smaller and Max the greater one.
LEMMA MinOfTwo ==
  ASSUME NEW a \in Int, NEW b \in Int
  PROVE  Min({a, b}) = IF a <= b THEN a ELSE b
<1>1. \E x \in {a, b} : \A y \in {a, b} : x =< y
  OBVIOUS
<1>2. Min({a, b}) \in {a, b} /\ \A y \in {a, b} : Min({a, b}) =< y
  BY <1>1 DEF Min
<1> QED BY <1>2

\* See MinOfTwo.
LEMMA MaxOfTwo ==
  ASSUME NEW a \in Int, NEW b \in Int
  PROVE  Max({a, b}) = IF a >= b THEN a ELSE b
<1>1. \E x \in {a, b} : \A y \in {a, b} : x >= y
  OBVIOUS
<1>2. Max({a, b}) \in {a, b} /\ \A y \in {a, b} : Max({a, b}) >= y
  BY <1>1 DEF Max
<1> QED BY <1>2

\* The greatest of the numbers up to n is n.
LEMMA MaxOfInterval ==
  ASSUME NEW n \in Nat
  PROVE  Max(0 .. n) = n
<1>1. n \in 0 .. n /\ \A y \in 0 .. n : n >= y
  OBVIOUS
<1>2. Max(0 .. n) \in 0 .. n /\ \A y \in 0 .. n : Max(0 .. n) >= y
  BY <1>1 DEF Max
<1> QED BY <1>1, <1>2

\* Suffixes: what is left of a list, element by element.
LEMMA SuffixProperties ==
  ASSUME NEW S, NEW s \in Seq(S), NEW d \in 0 .. Len(s)
  PROVE  /\ SubSeq(s, d + 1, Len(s)) \in Seq(S)
         /\ Len(SubSeq(s, d + 1, Len(s))) = Len(s) - d
         /\ \A i \in 1 .. Len(s) - d : SubSeq(s, d + 1, Len(s))[i] = s[d + i]
<1>1. Len(s) \in Nat /\ d \in Nat /\ d <= Len(s)
  OBVIOUS
<1>2. \A i \in d + 1 .. Len(s) : s[i] \in S
  OBVIOUS
<1>3. /\ Len(SubSeq(s, d + 1, Len(s))) = IF d + 1 <= Len(s) THEN Len(s) - (d + 1) + 1 ELSE 0
      /\ SubSeq(s, d + 1, Len(s)) \in Seq(S)
      /\ \A i \in 1 .. Len(s) - (d + 1) + 1 :
            SubSeq(s, d + 1, Len(s))[i] = s[(d + 1) + i - 1]
  BY <1>1, <1>2, SubSeqProperties
<1>4. ASSUME NEW i \in 1 .. Len(s) - d
      PROVE  i \in 1 .. Len(s) - (d + 1) + 1 /\ (d + 1) + i - 1 = d + i
  BY <1>1
<1> QED BY <1>1, <1>3, <1>4

\* Cutting off twice is cutting off once.
LEMMA SuffixOfSuffix ==
  ASSUME NEW S, NEW s \in Seq(S), NEW d \in 0 .. Len(s), NEW k \in 0 .. Len(s) - d
  PROVE  LET t == SubSeq(s, d + 1, Len(s))
         IN  SubSeq(t, k + 1, Len(t)) = SubSeq(s, d + k + 1, Len(s))
<1> DEFINE t == SubSeq(s, d + 1, Len(s))
           u == SubSeq(t, k + 1, Len(t))
           v == SubSeq(s, (d + k) + 1, Len(s))
<1>1. Len(s) \in Nat /\ d \in Nat /\ k \in Nat /\ d + k \in 0 .. Len(s)
  OBVIOUS
<1>2. /\ t \in Seq(S) /\ Len(t) = Len(s) - d
      /\ \A i \in 1 .. Len(s) - d : t[i] = s[d + i]
  BY SuffixProperties
<1>3. k \in 0 .. Len(t)
  BY <1>2
<1> HIDE DEF t
<1>4. /\ u \in Seq(S) /\ Len(u) = Len(t) - k
      /\ \A i \in 1 .. Len(t) - k : u[i] = t[k + i]
  BY <1>2, <1>3, SuffixProperties
<1>5. /\ v \in Seq(S) /\ Len(v) = Len(s) - (d + k)
      /\ \A i \in 1 .. Len(s) - (d + k) : v[i] = s[(d + k) + i]
  BY <1>1, SuffixProperties
<1> HIDE DEF u, v
<1>6. Len(u) = Len(v)
  BY <1>1, <1>2, <1>4, <1>5
<1>7. ASSUME NEW i \in 1 .. Len(u) PROVE u[i] = v[i]
  <2>1. /\ i \in 1 .. Len(t) - k /\ k + i \in 1 .. Len(s) - d
        /\ i \in 1 .. Len(s) - (d + k) /\ d + (k + i) = (d + k) + i
    BY <1>1, <1>2, <1>4
  <2> QED BY <2>1, <1>2, <1>4, <1>5
<1>8. u = v
  BY <1>4, <1>5, <1>6, <1>7, SeqEqual
<1> QED BY <1>8 DEF t, u, v

\* An entry appended to what is left is one appended to the whole.
LEMMA SuffixOfAppend ==
  ASSUME NEW S, NEW s \in Seq(S), NEW e \in 0 .. Len(s), NEW x \in S
  PROVE  Append(SubSeq(s, e + 1, Len(s)), x) = SubSeq(Append(s, x), e + 1, Len(s) + 1)
<1> DEFINE t == SubSeq(s, e + 1, Len(s))
           a == Append(s, x)
           u == Append(t, x)
           v == SubSeq(a, e + 1, Len(a))
<1>1. Len(s) \in Nat /\ e \in Nat /\ e <= Len(s)
  OBVIOUS
<1>2. /\ t \in Seq(S) /\ Len(t) = Len(s) - e
      /\ \A i \in 1 .. Len(s) - e : t[i] = s[e + i]
  BY SuffixProperties
<1>3. /\ a \in Seq(S) /\ Len(a) = Len(s) + 1
      /\ \A i \in 1 .. Len(s) : a[i] = s[i]
      /\ a[Len(s) + 1] = x
  OBVIOUS
<1>4. e \in 0 .. Len(a)
  BY <1>1, <1>3
<1> HIDE DEF t, a
<1>5. /\ u \in Seq(S) /\ Len(u) = Len(t) + 1
      /\ \A i \in 1 .. Len(t) : u[i] = t[i]
      /\ u[Len(t) + 1] = x
  BY <1>2
<1>6. /\ v \in Seq(S) /\ Len(v) = Len(a) - e
      /\ \A i \in 1 .. Len(a) - e : v[i] = a[e + i]
  BY <1>3, <1>4, SuffixProperties
<1> HIDE DEF u, v
<1>7. Len(u) = Len(v)
  BY <1>1, <1>2, <1>3, <1>5, <1>6
<1>8. ASSUME NEW i \in 1 .. Len(u) PROVE u[i] = v[i]
  <2>1. CASE i <= Len(t)
    <3>1. i \in 1 .. Len(t) /\ i \in 1 .. Len(s) - e /\ e + i \in 1 .. Len(s)
          /\ i \in 1 .. Len(a) - e
      BY <2>1, <1>1, <1>2, <1>3
    <3> QED BY <3>1, <1>2, <1>3, <1>5, <1>6
  <2>2. CASE i = Len(t) + 1
    <3>1. e + i = Len(s) + 1 /\ i \in 1 .. Len(a) - e
      BY <2>2, <1>1, <1>2, <1>3
    <3> QED BY <3>1, <2>2, <1>3, <1>5, <1>6
  <2> QED BY <2>1, <2>2, <1>2, <1>5
<1>9. u = v
  BY <1>5, <1>6, <1>7, <1>8, SeqEqual
<1> QED BY <1>9, <1>3 DEF t, a, u, v

\* A sequence with an entry appended, element by element.
LEMMA AppendIs ==
  ASSUME NEW S, NEW q \in Seq(S), NEW e \in S
  PROVE  /\ Append(q, e) \in Seq(S) /\ Len(Append(q, e)) = Len(q) + 1 /\ Append(q, e) # <<>>
         /\ Append(q, e)[Len(q) + 1] = e /\ Len(q) + 1 \in DOMAIN Append(q, e)
         /\ \A i \in DOMAIN q : i \in DOMAIN Append(q, e) /\ Append(q, e)[i] = q[i]
         /\ \A i \in DOMAIN Append(q, e) : i \in DOMAIN q \/ i = Len(q) + 1
BY AppendProperties

\* A sequence with an entry replaced, element by element.
LEMMA PutIs ==
  ASSUME NEW S, NEW q \in Seq(S), NEW i \in DOMAIN q, NEW e \in S
  PROVE  /\ [q EXCEPT ![i] = e] \in Seq(S)
         /\ Len([q EXCEPT ![i] = e]) = Len(q)
         /\ DOMAIN [q EXCEPT ![i] = e] = DOMAIN q
         /\ \A j \in DOMAIN q : [q EXCEPT ![i] = e][j] = IF j = i THEN e ELSE q[j]
BY ExceptSeq

\* The elements of a sequence.
LEMMA ElementIs ==
  ASSUME NEW S, NEW q \in Seq(S), NEW k \in Nat \ {0}, k <= Len(q)
  PROVE  k \in DOMAIN q /\ q[k] \in S
OBVIOUS
=============================================================================
