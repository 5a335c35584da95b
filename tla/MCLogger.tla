------------------------------ MODULE MCLogger ------------------------------
(***************************************************************************)
(* An instance of Logger for TLC, and the helpers of util/ evaluated on    *)
(* bounded inputs: all strings of up to three characters, in a size_t of   *)
(* sixteen values, and times of a word of 8192.                            *)
(***************************************************************************)
EXTENDS Logger, TimeUtil, SequencesExt

MCFileNames == {NullPtr, <<>>, <<"f">>}
MCDefaultFile == <<"d">>

Strings == BoundedSeq({"a", "b"}, 3)

\* The prefixes are told from the others (strutil.h:21).
ASSUME \A s, u \in Strings : StartsWith(s, u) <=> BeginsWith(s, u)

\* The suffixes are, but for a string one character longer (strutil.h:31).
ASSUME \A s, u \in Strings :
           EndsWith(s, u) <=> FinishesWith(s, u) \/ Len(u) = Len(s) + 1

\* A null pointer and an empty string are one to both helpers.
ASSUME \A s \in Strings \cup {NullPtr} : NullOrEmpty(s) <=> SafeGetString(s) = <<>>

\* The deadlines of a few periods, before and after they have passed
\* (machine.cc:63 and 74, timeutil.cc:9).
ASSUME \A now \in {0, 999, 1000, 3001, 4500}, later \in 0..8191, period \in -4..3 :
           later >= now /\ Plausible(now, period) =>
               /\ NotBefore(now, later, period)
               /\ NotLong(now, later, period)
               /\ NegativeHasPassed(now, period)
=============================================================================
