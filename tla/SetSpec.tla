------------------------------- MODULE SetSpec -------------------------------
(***************************************************************************)
(* What a MachineSet promises, whoever drives it: its own thread, a thread *)
(* that calls Process(), or the event loop behind a MachineSetHandler.     *)
(* There is no queue here and no list, and nothing of threads: events are  *)
(* submitted and processed one at a time, each of them once.  An addition  *)
(* or a removal changes the members at a stroke.  Any other event reaches  *)
(* every member that it is for, and nobody else, while the members stay    *)
(* what they are; only if a machine fails may it miss the rest.            *)
(*                                                                         *)
(* MachineSet.tla and ExternalHandler.tla are shown to refine this module. *)
(***************************************************************************)
EXTENDS Naturals, Sequences

CONSTANTS
    Machines,
    UserEvents, Targets,   \* the events for machines: those it is for, <<>> for all
    InOrder                \* whether events are processed in the order submitted

VARIABLES
    submitted,   \* every event so far, in the order of the calls of Enqueue
    done,        \* the places, in submitted, of those that are processed
    current,     \* the place of the one being processed, 0 if none is
    members,     \* the machines that are in the set
    reached,     \* those that have had the current event
    failing      \* whether one of them has failed at it

setVars == <<submitted, done, current, members, reached, failing>>

SetInit ==
    /\ submitted = <<>> /\ done = {} /\ current = 0
    /\ members = {}
    /\ reached = {} /\ failing = FALSE

Submit(event) ==
    /\ submitted' = Append(submitted, event)
    /\ UNCHANGED <<done, current, members, reached, failing>>

Begin(n) ==
    /\ current = 0
    /\ n \in DOMAIN submitted \ done
    /\ InOrder => 1..(n - 1) \subseteq done
    /\ current' = n
    /\ UNCHANGED <<submitted, done, members, reached, failing>>

End ==
    /\ done' = done \cup {current} /\ current' = 0
    /\ reached' = {} /\ failing' = FALSE
    /\ UNCHANGED submitted

Change(m) ==
    /\ current # 0
    /\ \/ submitted[current] = [op |-> "add", machine |-> m] /\ members' = members \cup {m}
       \/ submitted[current] = [op |-> "remove", machine |-> m] /\ members' = members \ {m}
    /\ End

IsForMachines == current # 0 /\ submitted[current] \in UserEvents

\* The members that the current event is for.
Audience ==
    LET ms == Targets[submitted[current]]
    IN  {m \in members : ms # <<>> => \E i \in DOMAIN ms : ms[i] = m}

Reach(m) ==
    /\ IsForMachines /\ ~failing
    /\ m \in Audience
    /\ reached' = reached \cup {m}
    /\ UNCHANGED <<submitted, done, current, members, failing>>

Fail ==
    /\ IsForMachines /\ ~failing
    /\ Audience # {}
    /\ failing' = TRUE
    /\ UNCHANGED <<submitted, done, current, members, reached>>

Complete ==
    /\ IsForMachines
    /\ failing \/ Audience \subseteq reached
    /\ End
    /\ UNCHANGED members

Operations == [op : {"add", "remove"}, machine : Machines]

SetNext ==
    \/ \E event \in Operations \cup UserEvents : Submit(event)
    \/ \E n \in DOMAIN submitted : Begin(n)
    \/ \E m \in Machines : Change(m) \/ Reach(m)
    \/ Fail \/ Complete

SetSafety == SetInit /\ [][SetNext]_setVars
=============================================================================
