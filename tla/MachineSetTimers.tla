---------------------------- MODULE MachineSetTimers ----------------------------
(***************************************************************************)
(* MachineSet with a count of the events that the background thread takes  *)
(* while the timeout of a member waits.  The count is history: it hinders  *)
(* no step of MachineSet.  Weak fairness alone would not tell whether a    *)
(* timeout has to wait for the end of a burst, since the model has only so *)
(* many events: a bound that no burst can stretch does.                    *)
(***************************************************************************)
EXTENDS MachineSet

VARIABLE overtaken    \* of each machine, the events taken since it was due and a member

BackgroundTakes == pc["background"] = "getting" /\ pc'["background"] = "handling"

CountOvertaken ==
    overtaken' =
        [m \in Machines |->
            IF timer'[m] = "due" /\ m \in machine_set_'
            THEN IF BackgroundTakes THEN overtaken[m] + 1 ELSE overtaken[m]
            ELSE 0]

TimedInit == Init /\ overtaken = [m \in Machines |-> 0]
TimedNext == Next /\ CountOvertaken
timedVars == <<vars, overtaken>>

TimedSpec == TimedInit /\ [][TimedNext]_timedVars

\* However long a burst of events is, the timeout of a member waits for one of
\* them at most: the background thread visits the members that are due after every
\* event, whatever the machines do with it, and whichever of them are added,
\* removed or added again meanwhile (machine_set.cc:96-110, 215-221).
OneEventOvertakes == \A m \in Machines : overtaken[m] <= 1
=============================================================================
