-------------------------- MODULE MCExternalHandler --------------------------
(***************************************************************************)
(* One state machine and one action machine, with an event for both.  Two  *)
(* states have timeouts, one has none and one a negative one.              *)
(***************************************************************************)
EXTENDS ExternalHandler

CONSTANTS sm, am, short, long, plain, past, toAll

Timeouts == [s \in States |-> CASE s = short -> 5 [] s = long -> 9
                                [] s = plain -> 0 [] s = past -> -1]
AllButRemovalOfAm == Events \ {[op |-> "remove", machine |-> am]}
Both == [a \in Actions |-> UserEvents]
=============================================================================
