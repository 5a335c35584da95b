---------------------------- MODULE MCStateMachine ----------------------------
(***************************************************************************)
(* Small instances of StateMachine.  State a has a timeout, state b none;  *)
(* one application event and the timeout event.                            *)
(***************************************************************************)
EXTENDS StateMachine

CONSTANTS a, b, go

PeriodOfA == [s \in {a, b} |-> IF s = a THEN 5 ELSE 0]

\* One event or the other.
EitherEvent == {{go}, {TimeoutEvent}}

\* Only the application's event.
OnlyGo == {{go}}

\* Two transitions out of a and one out of b: an internal transition and
\* another for the same event, with a meta state that has one too.
TwoAndOne == [s \in {a, b} |-> IF s = a THEN 2 ELSE 1]

\* Three out of a and two out of b, for the order within one state.
ThreeAndTwo == [s \in {a, b} |-> IF s = a THEN 3 ELSE 2]
=============================================================================
