---------------------------- MODULE SequenceLemmas ----------------------------
(***************************************************************************)
(* What the sequences that the models are built from do, for sequences of  *)
(* anything: mostly the elements of one, and that it has them once each,   *)
(* after it was appended to, taken from, cut or reversed.                  *)
(***************************************************************************)
EXTENDS Integers, Sequences, SequencesExt, SequenceTheorems, TLAPS

\* A new element appended to a sequence without repetitions.
LEMMA AppendOnce ==
    ASSUME NEW S, NEW s \in Seq(S), NEW x \in S
    PROVE  /\ ToSet(Append(s, x)) = ToSet(s) \cup {x}
           /\ IsInjective(s) /\ x \notin ToSet(s) => IsInjective(Append(s, x))
<1>1. /\ Append(s, x) \in Seq(S) /\ Len(Append(s, x)) = Len(s) + 1
      /\ \A i \in 1..Len(s) : Append(s, x)[i] = s[i]
      /\ Append(s, x)[Len(s) + 1] = x
  BY AppendProperties
<1>2. DOMAIN s = 1..Len(s) /\ DOMAIN Append(s, x) = 1..(Len(s) + 1) /\ Len(s) \in Nat
  BY <1>1
<1>. DEFINE t == Append(s, x)
<1>. HIDE DEF t
<1>3. ToSet(t) = ToSet(s) \cup {x}
  <2>1. 1..(Len(s) + 1) = (1..Len(s)) \cup {Len(s) + 1}
    BY <1>2
  <2>. QED BY <1>1, <1>2, <2>1 DEF ToSet, t
<1>4. ASSUME IsInjective(s), x \notin ToSet(s) PROVE IsInjective(t)
  <2>. SUFFICES ASSUME NEW a \in 1..(Len(s) + 1), NEW b \in 1..(Len(s) + 1), t[a] = t[b]
                PROVE  a = b
    BY <1>2 DEF IsInjective, t
  <2>1. \A i \in 1..Len(s) : t[i] = s[i] /\ s[i] # x
    BY <1>1, <1>2, <1>4 DEF ToSet, t
  <2>2. t[Len(s) + 1] = x
    BY <1>1 DEF t
  <2>3. \A i, j \in 1..Len(s) : s[i] = s[j] => i = j
    BY <1>2, <1>4 DEF IsInjective
  <2>. QED BY <1>2, <2>1, <2>2, <2>3
<1>. QED BY <1>3, <1>4 DEF t

\* A sequence has its first element, and those behind it.
LEMMA ToSetTail ==
    ASSUME NEW S, NEW s \in Seq(S), s # <<>>
    PROVE  ToSet(s) = {Head(s)} \cup ToSet(Tail(s))
<1>1. /\ Head(s) = s[1] /\ Len(s) \in Nat \ {0}
      /\ Tail(s) \in Seq(S) /\ Len(Tail(s)) = Len(s) - 1
      /\ \A i \in 1..(Len(s) - 1) : Tail(s)[i] = s[i + 1]
  BY HeadTailProperties
<1>2. DOMAIN s = 1..Len(s) /\ DOMAIN Tail(s) = 1..(Len(s) - 1)
  BY <1>1
<1>3. ASSUME NEW i \in 1..Len(s) PROVE s[i] \in {Head(s)} \cup ToSet(Tail(s))
  <2>1. CASE i = 1
    BY <1>1, <2>1
  <2>2. CASE i # 1
    <3>1. i - 1 \in 1..(Len(s) - 1) /\ i - 1 + 1 = i
      BY <1>1, <2>2
    <3>. QED BY <1>1, <1>2, <3>1 DEF ToSet
  <2>. QED BY <2>1, <2>2
<1>4. ASSUME NEW i \in 1..(Len(s) - 1) PROVE Tail(s)[i] \in ToSet(s)
  <2>1. i + 1 \in 1..Len(s)
    BY <1>1
  <2>. QED BY <1>1, <1>2, <2>1 DEF ToSet
<1>5. Head(s) \in ToSet(s)
  BY <1>1, <1>2 DEF ToSet
<1>. QED BY <1>2, <1>3, <1>4, <1>5 DEF ToSet

\* The first element taken from a sequence without repetitions.
LEMMA TailOnce ==
    ASSUME NEW S, NEW s \in Seq(S), s # <<>>, IsInjective(s)
    PROVE  /\ Head(s) \in S /\ Head(s) \in ToSet(s)
           /\ Tail(s) \in Seq(S) /\ ToSet(Tail(s)) = ToSet(s) \ {Head(s)}
           /\ IsInjective(Tail(s))
<1>1. /\ Head(s) = s[1] /\ Head(s) \in S /\ Len(s) \in Nat \ {0}
      /\ Tail(s) \in Seq(S) /\ Len(Tail(s)) = Len(s) - 1
      /\ \A i \in 1..(Len(s) - 1) : Tail(s)[i] = s[i + 1]
  BY HeadTailProperties
<1>2. DOMAIN s = 1..Len(s) /\ DOMAIN Tail(s) = 1..(Len(s) - 1)
  BY <1>1
<1>. DEFINE t == Tail(s)
<1>. HIDE DEF t
<1>3. \A i, j \in 1..Len(s) : s[i] = s[j] => i = j
  BY <1>2 DEF IsInjective
<1>4. IsInjective(t)
  <2>. SUFFICES ASSUME NEW a \in 1..(Len(s) - 1), NEW b \in 1..(Len(s) - 1), t[a] = t[b]
                PROVE  a = b
    BY <1>2 DEF IsInjective, t
  <2>1. a + 1 \in 1..Len(s) /\ b + 1 \in 1..Len(s) /\ s[a + 1] = s[b + 1]
    BY <1>1 DEF t
  <2>2. a + 1 = b + 1
    BY <1>3, <2>1
  <2>. QED BY <2>2
<1>5. ToSet(t) = ToSet(s) \ {Head(s)}
  <2>1. ASSUME NEW y \in ToSet(t) PROVE y \in ToSet(s) \ {Head(s)}
    <3>1. PICK i \in 1..(Len(s) - 1) : y = t[i]
      BY <1>2 DEF ToSet, t
    <3>2. i + 1 \in 1..Len(s) /\ 1 \in 1..Len(s) /\ i + 1 # 1 /\ y = s[i + 1]
      BY <1>1, <3>1 DEF t
    <3>. QED BY <1>1, <1>2, <1>3, <3>2 DEF ToSet
  <2>2. ASSUME NEW y \in ToSet(s) \ {Head(s)} PROVE y \in ToSet(t)
    <3>1. PICK i \in 1..Len(s) : y = s[i]
      BY <1>2 DEF ToSet
    <3>2. i # 1
      BY <1>1, <3>1
    <3>3. i - 1 \in 1..(Len(s) - 1) /\ t[i - 1] = s[i]
      BY <1>1, <3>2 DEF t
    <3>. QED BY <1>2, <3>1, <3>3 DEF ToSet, t
  <2>. QED BY <2>1, <2>2
<1>6. Head(s) \in ToSet(s)
  BY <1>1, <1>2 DEF ToSet
<1>. QED BY <1>1, <1>4, <1>5, <1>6 DEF t

\* A sequence without its element at p.
LEMMA Cut ==
    ASSUME NEW S, NEW s \in Seq(S), NEW p \in 1..Len(s)
    PROVE  LET t == SubSeq(s, 1, p - 1) \o SubSeq(s, p + 1, Len(s))
           IN  /\ t \in Seq(S)
               /\ Len(t) = Len(s) - 1
               /\ \A i \in 1..(Len(s) - 1) : t[i] = s[IF i < p THEN i ELSE i + 1]
<1>. DEFINE n == Len(s)
            a == SubSeq(s, 1, p - 1)
            b == SubSeq(s, p + 1, n)
            t == a \o b
<1>1. n \in Nat /\ p \in 1..n /\ \A i \in 1..n : s[i] \in S
  OBVIOUS
<1>. HIDE DEF n
<1>2. a \in Seq(S) /\ Len(a) = p - 1 /\ \A i \in 1..(p - 1) : a[i] = s[i]
  <2>1. \A i \in 1..(p - 1) : s[i] \in S /\ 1 + i - 1 = i
    BY <1>1
  <2>2. 1 \in Int /\ p - 1 \in Int /\ p - 1 - 1 + 1 = p - 1
        /\ (IF 1 <= p - 1 THEN p - 1 - 1 + 1 ELSE 0) = p - 1
    BY <1>1
  <2>. QED BY <2>1, <2>2, SubSeqProperties
<1>3. b \in Seq(S) /\ Len(b) = n - p /\ \A i \in 1..(n - p) : b[i] = s[p + i]
  <2>1. \A i \in (p + 1)..n : s[i] \in S
    BY <1>1
  <2>2. p + 1 \in Int /\ n \in Int /\ n - (p + 1) + 1 = n - p
        /\ (IF p + 1 <= n THEN n - (p + 1) + 1 ELSE 0) = n - p
    BY <1>1
  <2>3. \A i \in 1..(n - p) : p + 1 + i - 1 = p + i
    BY <1>1
  <2>. QED BY <2>1, <2>2, <2>3, SubSeqProperties
<1>. HIDE DEF a, b
<1>4. /\ t \in Seq(S) /\ Len(t) = Len(a) + Len(b)
      /\ \A i \in 1..(Len(a) + Len(b)) :
            t[i] = IF i <= Len(a) THEN a[i] ELSE b[i - Len(a)]
  BY <1>2, <1>3, ConcatProperties
<1>5. Len(a) + Len(b) = n - 1
  BY <1>1, <1>2, <1>3
<1>. HIDE DEF t
<1>6. ASSUME NEW i \in 1..(n - 1) PROVE t[i] = s[IF i < p THEN i ELSE i + 1]
  <2>1. CASE i < p
    <3>1. i \in 1..(p - 1) /\ i <= Len(a)
      BY <1>1, <1>2, <2>1
    <3>. QED BY <1>2, <1>4, <1>5, <2>1, <3>1
  <2>2. CASE ~(i < p)
    <3>1. ~(i <= Len(a)) /\ i - Len(a) \in 1..(n - p) /\ p + (i - Len(a)) = i + 1
      BY <1>1, <1>2, <2>2
    <3>2. t[i] = b[i - Len(a)]
      BY <1>4, <1>5, <3>1
    <3>. QED BY <1>3, <2>2, <3>1, <3>2
  <2>. QED BY <2>1, <2>2
<1>. QED BY <1>4, <1>5, <1>6 DEF a, b, n, t

\* Elements of s, in the order of s.
InOrderOf(t, s) ==
    \A i, j \in DOMAIN t : i < j =>
        \E k, l \in DOMAIN s : k < l /\ t[i] = s[k] /\ t[j] = s[l]

\* A sequence without the only occurrence of m: the others, in their order.
LEMMA RemoveOnce ==
    ASSUME NEW S, NEW s \in Seq(S), IsInjective(s), NEW m \in ToSet(s)
    PROVE  LET t == RemoveFirst(s, m)
           IN  /\ t \in Seq(S)
               /\ ToSet(t) = ToSet(s) \ {m}
               /\ IsInjective(t)
               /\ InOrderOf(t, s)
<1>. DEFINE t == RemoveFirst(s, m)
<1>1. DOMAIN s = 1..Len(s) /\ Len(s) \in Nat
  OBVIOUS
<1>2. PICK p \in 1..Len(s) : s[p] = m
  BY <1>1 DEF ToSet
<1>3. \A i, j \in 1..Len(s) : s[i] = s[j] => i = j
  BY <1>1 DEF IsInjective
<1>4. t = SubSeq(s, 1, p - 1) \o SubSeq(s, p + 1, Len(s))
  <2>1. {i \in 1..Len(s) : s[i] = m} = {p}
    BY <1>2, <1>3
  <2>2. Min({p}) = p
    BY DEF Min
  <2>3. t = RemoveAt(s, Min({i \in 1..Len(s) : s[i] = m}))
    BY <1>2, <2>1 DEF RemoveFirst, SelectInSeq
  <2>. QED BY <2>1, <2>2, <2>3 DEF RemoveAt
<1>. DEFINE At(i) == IF i < p THEN i ELSE i + 1
<1>5. t \in Seq(S) /\ Len(t) = Len(s) - 1 /\ \A i \in 1..(Len(s) - 1) : t[i] = s[At(i)]
  BY <1>4, Cut
<1>. HIDE DEF t
<1>6. DOMAIN t = 1..(Len(s) - 1)
  BY <1>1, <1>5
<1>7. \A i \in DOMAIN t : At(i) \in 1..Len(s) /\ At(i) # p
  BY <1>1, <1>6
<1>8. ToSet(t) = ToSet(s) \ {m}
  <2>1. ASSUME NEW x \in ToSet(t) PROVE x \in ToSet(s) \ {m}
    <3>1. PICK i \in DOMAIN t : x = t[i]
      BY DEF ToSet
    <3>2. x = s[At(i)] /\ At(i) \in 1..Len(s) /\ At(i) # p
      BY <1>5, <1>6, <1>7, <3>1
    <3>. HIDE DEF At
    <3>. QED BY <1>1, <1>2, <1>3, <3>2 DEF ToSet
  <2>2. ASSUME NEW x \in ToSet(s) \ {m} PROVE x \in ToSet(t)
    <3>1. PICK k \in 1..Len(s) : x = s[k]
      BY <1>1 DEF ToSet
    <3>2. k # p
      BY <1>2, <3>1
    <3>3. \E i \in 1..(Len(s) - 1) : At(i) = k
      <4>1. CASE k < p
        BY <1>1, <4>1
      <4>2. CASE k > p
        <5>1. k - 1 \in 1..(Len(s) - 1) /\ At(k - 1) = k
          BY <1>1, <4>2
        <5>. QED BY <5>1
      <4>. QED BY <1>1, <3>2, <4>1, <4>2
    <3>. HIDE DEF At
    <3>. QED BY <1>5, <1>6, <3>1, <3>3 DEF ToSet
  <2>. QED BY <2>1, <2>2
<1>9. IsInjective(t)
  <2>. SUFFICES ASSUME NEW i \in 1..(Len(s) - 1), NEW j \in 1..(Len(s) - 1), t[i] = t[j]
                PROVE  i = j
    BY <1>6 DEF IsInjective
  <2>1. At(i) = At(j)
    <3>. HIDE DEF At
    <3>. QED BY <1>3, <1>5, <1>6, <1>7
  <2>. QED BY <1>1, <2>1
<1>10. ASSUME NEW i \in DOMAIN t, NEW j \in DOMAIN t, i < j
       PROVE  \E k, l \in DOMAIN s : k < l /\ t[i] = s[k] /\ t[j] = s[l]
  <2>1. At(i) < At(j)
    BY <1>1, <1>6, <1>10
  <2>. HIDE DEF At
  <2>. QED BY <1>1, <1>5, <1>6, <1>7, <2>1
<1>. QED BY <1>5, <1>8, <1>9, <1>10 DEF t, InOrderOf

\* A sequence and its reverse have the same elements.
LEMMA ToSetReverse ==
    ASSUME NEW S, NEW s \in Seq(S)
    PROVE  ToSet(Reverse(s)) = ToSet(s)
<1>1. DOMAIN s = 1..Len(s) /\ Len(s) \in Nat
  OBVIOUS
<1>2. Reverse(s) = [i \in 1..Len(s) |-> s[Len(s) - i + 1]]
  BY <1>1 DEF Reverse
<1>. DEFINE At(i) == Len(s) - i + 1
<1>3. \A i \in 1..Len(s) : At(i) \in 1..Len(s) /\ At(At(i)) = i
  BY <1>1
<1>4. DOMAIN Reverse(s) = 1..Len(s) /\ \A i \in 1..Len(s) : Reverse(s)[i] = s[At(i)]
  BY <1>2
<1>. HIDE DEF At
<1>. QED BY <1>1, <1>3, <1>4 DEF ToSet
===============================================================================
