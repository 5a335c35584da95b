------------------------------ MODULE UtilProofs ------------------------------
(***************************************************************************)
(* What the helpers of util/ compute, for all strings, and all times and   *)
(* periods that a 64-bit word can hold.                                    *)
(***************************************************************************)
EXTENDS StrUtil, TimeUtil, WellFoundedInduction, TLAPS

-----------------------------------------------------------------------------
(* Strings                                                                 *)

\* A set of positions has a first one.
LEMMA FirstOf ==
    ASSUME NEW S \in SUBSET Nat, S # {}
    PROVE  \E p \in S : \A q \in S : p <= q
<1>. DEFINE R == {ss \in Nat \X Nat : ss[1] < ss[2]}
<1>1. IsWellFoundedOn(R, Nat)
  BY NatLessThanWellFounded DEF OpToRel
<1>2. \E x \in S : \A y \in S : ~ (<<y, x>> \in R)
  <2>. HIDE DEF R
  <2>. QED BY <1>1, WFMin
<1>3. PICK p \in S : \A y \in S : ~ (<<y, p>> \in R)
  BY <1>2
<1>4. ASSUME NEW q \in S
      PROVE  p <= q
  <2>1. p \in Nat /\ q \in Nat /\ ~ (<<q, p>> \in R)
    BY <1>3
  <2>. QED BY <2>1
<1>. QED BY <1>4

\* A bounded set of positions has a last one.
LEMMA LastOf ==
    ASSUME NEW n \in Nat, NEW S \in SUBSET (0..n), S # {}
    PROVE  \E p \in S : \A q \in S : p >= q
<1>. DEFINE T == {n - p : p \in S}
<1>1. T \in SUBSET Nat /\ T # {}
  <2>1. \A p \in S : n - p \in Nat
    OBVIOUS
  <2>. QED BY <2>1
<1>2. PICK t \in T : \A u \in T : t <= u
  <2>. HIDE DEF T
  <2>. QED BY <1>1, FirstOf
<1>3. PICK p \in S : t = n - p
  BY <1>2
<1>4. ASSUME NEW q \in S
      PROVE  p >= q
  <2>1. n - q \in T /\ p \in Nat /\ q \in Nat
    OBVIOUS
  <2>2. n - p <= n - q
    <3>. HIDE DEF T
    <3>. QED BY <2>1, <1>2, <1>3
  <2>. QED BY <2>1, <2>2
<1>. QED BY <1>4

\* find returns npos or a position, and the first there is.
LEMMA FindFindsTheFirst ==
    ASSUME NEW C, NEW str \in Seq(C), NEW sub_str \in Seq(C)
    PROVE  LET at == Occurrences(str, sub_str)
           IN  /\ at = {} => find(str, sub_str) = npos
               /\ at # {} => find(str, sub_str) \in at /\ \A q \in at : find(str, sub_str) <= q
<1>. DEFINE at == Occurrences(str, sub_str)
<1>1. at \in SUBSET Nat
  BY DEF Occurrences
<1>2. at # {} => \E p \in at : \A q \in at : p <= q
  <2>. HIDE DEF at
  <2>. QED BY <1>1, FirstOf
<1>. HIDE DEF at
<1>3. find(str, sub_str) = IF at = {} THEN npos ELSE CHOOSE p \in at : \A q \in at : p <= q
  BY DEF find, at
<1>4. /\ at = {} => find(str, sub_str) = npos
      /\ at # {} => find(str, sub_str) \in at /\ \A q \in at : find(str, sub_str) <= q
  BY <1>2, <1>3
<1>. QED BY <1>4 DEF at

\* rfind returns npos or a position, and the last there is.
LEMMA RfindFindsTheLast ==
    ASSUME NEW C, NEW str \in Seq(C), NEW sub_str \in Seq(C)
    PROVE  LET at == Occurrences(str, sub_str)
           IN  /\ at = {} => rfind(str, sub_str) = npos
               /\ at # {} => rfind(str, sub_str) \in at /\ \A q \in at : rfind(str, sub_str) >= q
<1>. DEFINE at == Occurrences(str, sub_str)
<1>1. at \in SUBSET (0..Len(str)) /\ Len(str) \in Nat
  BY DEF Occurrences
<1>2. at # {} => \E p \in at : \A q \in at : p >= q
  <2>. HIDE DEF at
  <2>. QED BY <1>1, LastOf
<1>. HIDE DEF at
<1>3. rfind(str, sub_str) = IF at = {} THEN npos ELSE CHOOSE p \in at : \A q \in at : p >= q
  BY DEF rfind, at
<1>4. /\ at = {} => rfind(str, sub_str) = npos
      /\ at # {} => rfind(str, sub_str) \in at /\ \A q \in at : rfind(str, sub_str) >= q
  BY <1>2, <1>3
<1>. QED BY <1>4 DEF at

\* StartsWith is true of exactly the prefixes, of strings that memory can hold.
THEOREM StartsWithIsPrefix ==
    ASSUME NEW C, NEW str \in Seq(C), NEW sub_str \in Seq(C), SizeRange > 1
    PROVE  StartsWith(str, sub_str) <=> BeginsWith(str, sub_str)
<1>. DEFINE at == Occurrences(str, sub_str)
<1>1. 0 \in at <=> BeginsWith(str, sub_str)
  BY DEF Occurrences, BeginsWith
<1>2. at \in SUBSET Nat
  BY DEF Occurrences
<1>3. npos # 0
  BY StrUtilAssumption DEF npos
<1>4. /\ at = {} => find(str, sub_str) = npos
      /\ at # {} => find(str, sub_str) \in at /\ \A q \in at : find(str, sub_str) <= q
  BY FindFindsTheFirst
<1>. HIDE DEF at
<1>5. CASE 0 \in at
  <2>1. find(str, sub_str) \in Nat /\ find(str, sub_str) <= 0
    BY <1>2, <1>4, <1>5
  <2>. QED BY <2>1, <1>1, <1>5 DEF StartsWith
<1>6. CASE 0 \notin at
  <2>1. find(str, sub_str) # 0
    BY <1>3, <1>4, <1>6
  <2>. QED BY <2>1, <1>1, <1>6 DEF StartsWith
<1>. QED BY <1>5, <1>6

\* EndsWith is true of exactly the suffixes, except that it takes every string
\* that is one character longer for one (strutil.h:31: npos is the wrapped -1).
THEOREM EndsWithIsSuffix ==
    ASSUME NEW C, NEW str \in Seq(C), NEW sub_str \in Seq(C),
           Len(str) < npos, Len(sub_str) < npos
    PROVE  EndsWith(str, sub_str) <=>
              FinishesWith(str, sub_str) \/ Len(sub_str) = Len(str) + 1
<1>. DEFINE at == Occurrences(str, sub_str)
            d == Len(str) - Len(sub_str)
<1>1. /\ at = {} => rfind(str, sub_str) = npos
      /\ at # {} => rfind(str, sub_str) \in at /\ \A q \in at : rfind(str, sub_str) >= q
  BY RfindFindsTheLast
<1>2. Len(str) \in Nat /\ Len(sub_str) \in Nat /\ SizeRange \in Nat \ {0} /\ npos = SizeRange - 1
  BY StrUtilAssumption DEF npos
<1>3. CASE d >= 0
  <2>1. d % SizeRange = d /\ d # npos
    BY <1>2, <1>3
  <2>2. d \in at <=> FinishesWith(str, sub_str)
    BY <1>2, <1>3 DEF Occurrences, FinishesWith
  <2>3. at \in SUBSET (0..d)
    BY DEF Occurrences
  <2>. HIDE DEF at
  <2>4. rfind(str, sub_str) = d <=> d \in at
    <3>1. CASE at = {}
      BY <3>1, <1>1, <2>1
    <3>2. CASE at # {}
      <4>1. rfind(str, sub_str) \in at /\ \A q \in at : rfind(str, sub_str) >= q
        BY <3>2, <1>1
      <4>2. rfind(str, sub_str) \in 0..d
        BY <4>1, <2>3
      <4>3. d \in Int
        BY <1>2
      <4>. HIDE DEF d
      <4>. QED BY <4>1, <4>2, <4>3
    <3>. QED BY <3>1, <3>2
  <2>. QED BY <2>1, <2>2, <2>4, <1>2, <1>3 DEF EndsWith
<1>4. CASE d < 0
  <2>1. at = {}
    BY <1>2, <1>4 DEF Occurrences
  <2>2. d % SizeRange = d + SizeRange
    BY <1>2, <1>4
  <2>3. EndsWith(str, sub_str) <=> d = -1
    BY <1>1, <1>2, <2>1, <2>2 DEF EndsWith
  <2>. QED BY <2>3, <1>2, <1>4 DEF FinishesWith
<1>. QED BY <1>2, <1>3, <1>4

-----------------------------------------------------------------------------
(* Deadlines                                                               *)

\* The deadline of a plausible period is that many milliseconds away, 0 for none.
LEMMA DeadlineIsTheSum ==
    ASSUME NEW now, NEW period, Plausible(now, period)
    PROVE  /\ GetTimeMs(now) = now \div 1000
           /\ Deadline(now, period) = IF period = 0 THEN 0 ELSE now \div 1000 + period
<1>1. now \in Int /\ period \in Int /\ WordRange \in Nat \ {0}
  BY TimeUtilAssumption DEF Plausible
<1>2. GetTimeMs(now) = now \div 1000
  BY <1>1 DEF Plausible, GetTimeMs
<1>3. now \div 1000 \in 0..(WordRange - 1)
  BY <1>1 DEF Plausible
<1>4. Unsigned(period) = IF period >= 0 THEN period ELSE period + WordRange
  BY <1>1 DEF Plausible, Unsigned
<1>5. now \div 1000 + period \in 1..(WordRange - 1)
  BY <1>2 DEF Plausible
<1>6. (now \div 1000 + Unsigned(period)) % WordRange = now \div 1000 + period
  BY <1>1, <1>3, <1>4, <1>5
<1>. QED BY <1>1, <1>2, <1>4, <1>6 DEF Deadline, Plausible

\* A state's timeout never comes before more than its period has passed,
\* though both times are cut to milliseconds (machine.cc:63 and 74).
THEOREM NeverEarly ==
    ASSUME NEW now, NEW period, Plausible(now, period),
           NEW later \in 0..(WordRange - 1), later >= now
    PROVE  NotBefore(now, later, period)
<1>1. now \in Int /\ period \in Int /\ WordRange \in Nat \ {0} /\ now >= 0
  BY TimeUtilAssumption DEF Plausible
<1>2. GetTimeMs(later) = later \div 1000
  BY <1>1 DEF GetTimeMs
<1>3. ASSUME IsTimeout(later, Deadline(now, period))
      PROVE  later \div 1000 > now \div 1000 + period
  BY <1>1, <1>2, <1>3, DeadlineIsTheSum DEF IsTimeout
<1>4. later \div 1000 > now \div 1000 + period => later - now > 1000 * period
  BY <1>1
<1>. QED BY <1>3, <1>4 DEF NotBefore

\* It comes within a millisecond of its period, and a negative period, which
\* the conversion to unsigned makes a huge one, at once.
THEOREM NeverLong ==
    ASSUME NEW now, NEW period, Plausible(now, period),
           NEW later \in 0..(WordRange - 1), later >= now
    PROVE  NotLong(now, later, period) /\ NegativeHasPassed(now, period)
<1>1. now \in Int /\ period \in Int /\ WordRange \in Nat \ {0} /\ now >= 0
  BY TimeUtilAssumption DEF Plausible
<1>2. GetTimeMs(later) = later \div 1000 /\ GetTimeMs(now) = now \div 1000
  BY <1>1, DeadlineIsTheSum DEF GetTimeMs
<1>3. period # 0 => Deadline(now, period) = now \div 1000 + period
                    /\ now \div 1000 + period > 0
  BY <1>1, <1>2, DeadlineIsTheSum DEF Plausible
<1>4. later - now >= 1000 * (period + 1) => later \div 1000 > now \div 1000 + period
  BY <1>1
<1>5. period < 0 => now \div 1000 > now \div 1000 + period
  BY <1>1
<1>. QED BY <1>1, <1>2, <1>3, <1>4, <1>5 DEF NotLong, NegativeHasPassed, IsTimeout
=============================================================================
