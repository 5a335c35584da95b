------------------------------- MODULE StrUtil -------------------------------
(***************************************************************************)
(* util/strutil.h: the helpers on strings.  A std::string is a sequence of *)
(* characters; a const char* is NullPtr or the characters before its first *)
(* NUL.  Positions are counted from 0, as in the code, and are size_t.     *)
(***************************************************************************)
EXTENDS Integers, Sequences

CONSTANTS
    NullPtr,    \* a null const char*
    SizeRange   \* the number of values of size_t, 2^64

ASSUME StrUtilAssumption == SizeRange \in Nat \ {0}

npos == SizeRange - 1

NullOrEmpty(strPtr) == strPtr = NullPtr \/ strPtr = <<>>

SafeGetString(data) == IF data # NullPtr THEN data ELSE <<>>

\* The positions at which sub_str begins in str.
Occurrences(str, sub_str) ==
    {p \in 0..(Len(str) - Len(sub_str)) :
        \A i \in 1..Len(sub_str) : str[p + i] = sub_str[i]}

\* str.find(sub_str): the first of them, npos if there is none.
find(str, sub_str) ==
    LET at == Occurrences(str, sub_str)
    IN  IF at = {} THEN npos ELSE CHOOSE p \in at : \A q \in at : p <= q

\* str.rfind(sub_str): the last of them, npos if there is none.
rfind(str, sub_str) ==
    LET at == Occurrences(str, sub_str)
    IN  IF at = {} THEN npos ELSE CHOOSE p \in at : \A q \in at : p >= q

StartsWith(str, sub_str) == find(str, sub_str) = 0

\* The difference of the lengths is a size_t, and wraps.
EndsWith(str, sub_str) ==
    rfind(str, sub_str) = (Len(str) - Len(sub_str)) % SizeRange

-----------------------------------------------------------------------------
(* What the names promise                                                  *)

BeginsWith(str, sub_str) ==
    /\ Len(sub_str) <= Len(str)
    /\ \A i \in 1..Len(sub_str) : str[i] = sub_str[i]

FinishesWith(str, sub_str) ==
    /\ Len(sub_str) <= Len(str)
    /\ \A i \in 1..Len(sub_str) : str[Len(str) - Len(sub_str) + i] = sub_str[i]
=============================================================================
