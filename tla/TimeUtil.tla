------------------------------- MODULE TimeUtil -------------------------------
(***************************************************************************)
(* util/timeutil.cc and the arithmetic of a machine's deadline             *)
(* (fsm/machine.cc).  A reading of gettimeofday is a number of             *)
(* microseconds; a deadline is a number of milliseconds in an unsigned     *)
(* long long; the timeout of a State is a time_t, which has a sign.        *)
(***************************************************************************)
EXTENDS Integers

CONSTANT WordRange   \* the number of values of unsigned long long, 2^64

ASSUME TimeUtilAssumption == WordRange \in Nat \ {0}

\* tv_sec * 1000000 + tv_usec, cut to milliseconds.
GetTimeMs(now) == (now % WordRange) \div 1000

\* The conversion of a time_t to unsigned long long.
Unsigned(period) == period % WordRange

\* What StateMachine::SetTimeout leaves in timeout_ms_, 0 for no deadline.
Deadline(now, period) ==
    IF Unsigned(period) # 0 THEN (GetTimeMs(now) + Unsigned(period)) % WordRange ELSE 0

\* StateMachine::IsTimeout at the time now.
IsTimeout(now, deadline) == deadline # 0 /\ GetTimeMs(now) > deadline

-----------------------------------------------------------------------------
\* A clock that the word holds, and a period that neither wraps the deadline
\* nor puts it at or before the beginning of the epoch.
Plausible(now, period) ==
    /\ now \in 0..(WordRange - 1)
    /\ period \in (1 - WordRange)..(WordRange - 1)
    /\ GetTimeMs(now) + period \in 1..(WordRange - 1)

\* A timeout comes only when more than the period has passed.
NotBefore(now, later, period) ==
    IsTimeout(later, Deadline(now, period)) => later - now > 1000 * period

\* It comes at the latest a millisecond after the period has.
NotLong(now, later, period) ==
    period # 0 /\ later - now >= 1000 * (period + 1) => IsTimeout(later, Deadline(now, period))

\* A negative period has passed from the start.
NegativeHasPassed(now, period) ==
    period < 0 => IsTimeout(now, Deadline(now, period))
=============================================================================
