--------------------------- MODULE ExternalHandler ---------------------------
(***************************************************************************)
(* A MachineSet with a MachineSetHandler (fsm/machineset_handler.{h,cc},   *)
(* fsm/machine_set.cc): the event loop of the application takes the place  *)
(* of the background thread.  The handler is asked about every event that  *)
(* is enqueued and keeps it (HR_SKIP) or leaves it to the queue            *)
(* (HR_CONTINUE), is told the timeout of every state a machine enters, and *)
(* gives both back through ProcessEvent and ProcessTimeOutMachine.         *)
(*                                                                         *)
(* Any thread may Enqueue.  One thread, the loop, does everything else:    *)
(* it also calls Process() for what is in the queue.  The application      *)
(* registers its handler once, while the loop is idle and no thread is     *)
(* inside Enqueue (event_handler_ has no lock), though at any time: events *)
(* may be queued and deadlines set.                                        *)
(*                                                                         *)
(* Of the handler, which is the application's: it keeps events in order,   *)
(* and one alarm for each machine, which a new one replaces.  It may fail  *)
(* to set it and say so, or throw.                                         *)
(***************************************************************************)
EXTENDS Integers, Sequences, SequencesExt

CONSTANTS
    StateMachines, ActionMachines,
    States,
    TimeoutOf,       \* State::timeout_ms_, a time_t
    NoState,
    UserEvents,      \* all of them broadcasts: MachineSet has events with targets
    Enqueued,        \* the events, and the additions and removals, there are to enqueue
    MaxActions,      \* bound of the model on the number of NonTransitiveActions
    Accepts,         \* the events that the predicate of each accepts
    NoAction,
    MaxLog           \* bound of the model on the number of events ever enqueued

Machines == StateMachines \cup ActionMachines
Operations == [op : {"add", "remove"}, machine : Machines]
Events == Operations \cup UserEvents

\* The NonTransitiveActions the application makes, by the order in which it does.
Actions == 1..MaxActions

ASSUME ExternalHandlerAssumption ==
    /\ StateMachines \cap ActionMachines = {}
    /\ TimeoutOf \in [States -> Int]
    /\ NoState \notin States
    /\ UserEvents \cap Operations = {}
    /\ Enqueued \subseteq Events
    /\ MaxActions \in Nat
    /\ Accepts \in [Actions -> SUBSET UserEvents]
    /\ NoAction \notin Actions
    /\ MaxLog \in Nat

VARIABLES
    event_handler_,           \* whether there is one
    event_fifo_,              \* the events, by their place in log
    adding,                   \* those that Enqueue is about to add
    kept,                     \* those that the handler keeps
    machine_list_,            \* and machine_set_, which holds the same machines
    non_transitive_actions_,  \* of each action machine
    timer,                    \* timeout_ms_ of each state machine: "off", "running" or "due"
    alarm,                    \* the state whose timeout its alarm was set for
    OnProcessError,           \* whether the application has assigned it
    pc, hand, pumping, todo   \* the loop: where it is, the event at hand, whether
                              \* Process() took it, the machines still to visit

VARIABLES                     \* history, for the properties only
    log,                      \* every event given to Enqueue
    processed,                \* those that are done with
    armed,                    \* the state whose alarm a machine last got, NoState once
                              \* only one of its deadlines has been set or used up
    told,                     \* timeouts it has been given since one was set for it
    answer,                   \* the action that each event has run
    given                     \* the machines that have had the event at hand

events == <<event_fifo_, adding, kept>>
times == <<timer, alarm, armed, told>>
actions == <<non_transitive_actions_, answer>>
loop == <<pc, hand, pumping, todo, given>>
vars == <<event_handler_, events, machine_list_, actions, times, OnProcessError, loop,
          log, processed>>

Init ==
    /\ event_handler_ = FALSE
    /\ event_fifo_ = <<>> /\ adding = {} /\ kept = <<>>
    /\ machine_list_ = <<>>
    /\ non_transitive_actions_ = [m \in ActionMachines |-> <<>>]
    /\ timer = [m \in StateMachines |-> "off"]
    /\ alarm = [m \in StateMachines |-> NoState]
    /\ OnProcessError \in BOOLEAN
    /\ pc = "idle" /\ hand = 0 /\ pumping = FALSE /\ todo = <<>> /\ given = {}
    /\ log = <<>> /\ processed = {}
    /\ armed = [m \in StateMachines |-> NoState]
    /\ told = [m \in StateMachines |-> 0]
    /\ answer = [m \in ActionMachines |-> [e \in UserEvents |-> NoAction]]

-----------------------------------------------------------------------------
(* Any thread                                                              *)

\* A fault, for EventsOnce: the queue gets the event that the handler keeps, too.
EnqueueBoth(event) ==
    /\ Len(log) < MaxLog
    /\ log' = Append(log, event)
    /\ adding' = adding \cup {Len(log) + 1}
    /\ kept' = IF event_handler_ THEN Append(kept, Len(log) + 1) ELSE kept
    /\ UNCHANGED <<event_handler_, event_fifo_, machine_list_, actions, times,
                   OnProcessError, loop, processed>>

Enqueue(event) ==
    /\ Len(log) < MaxLog
    /\ log' = Append(log, event)
    /\ \/ adding' = adding \cup {Len(log) + 1} /\ UNCHANGED kept
       \/ event_handler_ /\ kept' = Append(kept, Len(log) + 1) /\ UNCHANGED adding
    /\ UNCHANGED <<event_handler_, event_fifo_, machine_list_, actions, times,
                   OnProcessError, loop, processed>>

\* A fault, for EveryEventIsProcessed: an event that the handler leaves to the
\* queue is dropped.
AddUnlessHandled(n) ==
    /\ n \in adding
    /\ adding' = adding \ {n}
    /\ event_fifo_' = IF event_handler_ THEN event_fifo_ ELSE Append(event_fifo_, n)
    /\ UNCHANGED <<event_handler_, kept, machine_list_, actions, times,
                   OnProcessError, loop, log, processed>>

\* event_fifo_.Add: two events may come in an order that is not that of the calls.
AddToFifo(n) ==
    /\ n \in adding
    /\ adding' = adding \ {n}
    /\ event_fifo_' = Append(event_fifo_, n)
    /\ UNCHANGED <<event_handler_, kept, machine_list_, actions, times,
                   OnProcessError, loop, log, processed>>

ClockPasses(m) ==
    /\ timer[m] = "running"
    /\ timer' = [timer EXCEPT ![m] = "due"]
    /\ UNCHANGED <<event_handler_, events, machine_list_, actions, alarm, armed,
                   told, OnProcessError, loop, log, processed>>

-----------------------------------------------------------------------------
(* The machines                                                            *)

\* What SetTimeout makes of a state's timeout: a negative one has passed at
\* once (UtilProofs!NeverLong).
TimerFor(s) ==
    IF TimeoutOf[s] = 0 THEN "off" ELSE IF TimeoutOf[s] > 0 THEN "running" ELSE "due"

\* A machine is given an event, or a timeout: what its timer and its alarm are
\* then, and the number of timeouts.
AtEvent == [timer |-> timer, alarm |-> alarm, timeouts |-> 0]

Off(m) == [timer EXCEPT ![m] = "off"]

\* The internal timer is switched off before the machine processes its timeout.
AtTimer(m) == [timer |-> Off(m), alarm |-> alarm, timeouts |-> 1]

\* So it is when the alarm has rung, which is used up.
AtAlarm(m) == [timer |-> Off(m), alarm |-> [alarm EXCEPT ![m] = NoState], timeouts |-> 1]

\* OnUpdateMachineTimeOut of a handler that succeeds.
OnUpdateMachineTimeOut(m, s, at) == alarm' = [at.alarm EXCEPT ![m] = s]

\* Whether UpdateTimeoutMahcine has the handler told of the state s.
IsTold(s) == event_handler_ /\ TimeoutOf[s] > 0

\* The machine m takes a transition into s.  The result of OnUpdateMachineTimeOut
\* is dropped: a handler that has failed to set the alarm makes no difference.
\* Nor is an alarm taken back when the handler is not told of s.
EnterState(m, s, at) ==
    /\ timer' = [at.timer EXCEPT ![m] = TimerFor(s)]
    /\ told' = [told EXCEPT ![m] = IF TimeoutOf[s] # 0 THEN 0 ELSE @ + at.timeouts]
    /\ \/ IsTold(s) /\ OnUpdateMachineTimeOut(m, s, at) /\ armed' = [armed EXCEPT ![m] = s]
       \/ alarm' = at.alarm /\ armed' = [armed EXCEPT ![m] = NoState]

\* A fault, for DeadlinesAgree: SetTimeout comes before UpdateTimeoutMahcine.
HandlerThrowsLate(m, s, at) ==
    /\ IsTold(s)
    /\ timer' = [at.timer EXCEPT ![m] = TimerFor(s)]
    /\ alarm' = at.alarm
    /\ told' = [told EXCEPT ![m] = 0]
    /\ UNCHANGED armed

\* OnUpdateMachineTimeOut throws, outside any try block of StateMachine::Process:
\* the machine is in its new state with the deadlines of the old one, and OnEnter
\* is never called.
HandlerThrows(m, s, at) ==
    /\ IsTold(s)
    /\ timer' = at.timer /\ alarm' = at.alarm
    /\ told' = [told EXCEPT ![m] = @ + at.timeouts]
    /\ UNCHANGED armed

\* No transition with an entry: none accepts the event, or internal ones do, or a
\* predicate throws.  An internal transition, of the meta state too, may move the
\* machine to another state; timer and alarm are left alone even then.
Stay(m, at) ==
    /\ timer' = at.timer /\ alarm' = at.alarm
    /\ told' = [told EXCEPT ![m] = @ + at.timeouts]
    /\ UNCHANGED armed

\* StateMachine::Process
Returns(m, at) == Stay(m, at) \/ \E s \in States : EnterState(m, s, at)
Throws(m, at)  == Stay(m, at) \/ \E s \in States : HandlerThrows(m, s, at)

\* A fault, for AnswersAreStable: the last action that accepts the event runs.
IsLastMatch(m, event, k) ==
    LET ts == non_transitive_actions_[m]
    IN  /\ k \in DOMAIN ts /\ event \in Accepts[ts[k]]
        /\ \A j \in DOMAIN ts : j > k => event \notin Accepts[ts[j]]

\* The action at k is the first to accept the event.
IsFirstMatch(m, event, k) ==
    LET ts == non_transitive_actions_[m]
    IN  /\ k \in DOMAIN ts /\ event \in Accepts[ts[k]]
        /\ \A j \in DOMAIN ts : j < k => event \notin Accepts[ts[j]]

\* ActionMachine::Process; what OnAction throws is caught.
Act(m, event) ==
    /\ \/ \E k \in DOMAIN non_transitive_actions_[m] :
             /\ IsFirstMatch(m, event, k)
             /\ answer' = [answer EXCEPT ![m][event] = non_transitive_actions_[m][k]]
       \/ /\ \A k \in DOMAIN non_transitive_actions_[m] : ~IsFirstMatch(m, event, k)
          /\ UNCHANGED answer
    /\ UNCHANGED non_transitive_actions_

\* NonTransitiveAction::Init, by the application, in OnProcessError too, or inside
\* an OnAction: a new action goes behind the others.  Each is made once, for one
\* machine.  Those made so far are the ones numbered below a.
MakeNonTransitiveAction(m, a) ==
    /\ pc \in {"idle", "delivering", "catching"}
    /\ \A b \in Actions :
          b < a <=> \E n \in ActionMachines : Contains(non_transitive_actions_[n], b)
    /\ non_transitive_actions_' = [non_transitive_actions_ EXCEPT ![m] = Append(@, a)]
    /\ UNCHANGED <<event_handler_, events, machine_list_, times, answer, OnProcessError,
                   loop, log, processed>>

\* SetTimeout, by the application or in a callback, of this machine or another;
\* "off" is SetTimeout(0).  The handler is not told.
SetTimeout(m, by) ==
    /\ pc \in {"idle", "delivering", "catching", "scanning"}
    /\ timer' = [timer EXCEPT ![m] = by]
    /\ told' = [told EXCEPT ![m] = IF by = "running" THEN 0 ELSE @]
    /\ armed' = [armed EXCEPT ![m] = NoState]
    /\ UNCHANGED <<event_handler_, events, machine_list_, actions, alarm, OnProcessError,
                   loop, log, processed>>

-----------------------------------------------------------------------------
(* The loop: MachineSet::Process(event)                                    *)

RegisterHandler ==
    /\ ~event_handler_
    /\ pc = "idle" /\ adding = {}
    /\ event_handler_' = TRUE
    /\ UNCHANGED <<events, machine_list_, actions, times, OnProcessError, loop, log, processed>>

\* MachineSetHandler::ProcessEvent: the event is of this set, which is there.
ProcessEvent ==
    /\ pc = "idle" /\ kept # <<>>
    /\ hand' = Head(kept) /\ kept' = Tail(kept)
    /\ pc' = "handling" /\ pumping' = FALSE
    /\ UNCHANGED <<event_handler_, event_fifo_, adding, machine_list_, actions, times,
                   OnProcessError, todo, given, log, processed>>

CallProcess ==
    /\ pc = "idle"
    /\ pc' = "top"
    /\ UNCHANGED <<event_handler_, events, machine_list_, actions, times, OnProcessError,
                   hand, pumping, todo, given, log, processed>>

\* while (event_fifo_.MessageAvailable()) Process(event_fifo_.GetNext())
Take ==
    /\ pc = "top" /\ event_fifo_ # <<>>
    /\ hand' = Head(event_fifo_) /\ event_fifo_' = Tail(event_fifo_)
    /\ pc' = "handling" /\ pumping' = TRUE
    /\ UNCHANGED <<event_handler_, adding, kept, machine_list_, actions, times,
                   OnProcessError, todo, given, log, processed>>

\* A fault, for TypeOK: an event that is done with stays at hand.
EventLingers(returns) ==
    /\ processed' = processed \cup {hand}
    /\ hand' = hand /\ todo' = <<>> /\ given' = {} /\ pumping' = FALSE
    /\ pc' = IF pumping /\ returns THEN "top" ELSE "idle"

\* Process(event) is done, and returns or throws.
EventEnds(returns) ==
    /\ processed' = processed \cup {hand}
    /\ hand' = 0 /\ todo' = <<>> /\ given' = {} /\ pumping' = FALSE
    /\ pc' = IF pumping /\ returns THEN "top" ELSE "idle"

Member(m) == Contains(machine_list_, m)

\* AddMachine and RemoveMachine.
Operate ==
    /\ pc = "handling" /\ log[hand] \in Operations
    /\ LET m == log[hand].machine
       IN  machine_list_' =
              CASE log[hand].op = "add" /\ ~Member(m) -> Append(machine_list_, m)
                [] log[hand].op = "remove"            -> RemoveFirst(machine_list_, m)
                [] OTHER                              -> machine_list_
    /\ EventEnds(TRUE)
    /\ UNCHANGED <<event_handler_, events, actions, times, OnProcessError, log>>

\* All members, from the last added to the first.
StartDelivery ==
    /\ pc = "handling" /\ log[hand] \in UserEvents
    /\ todo' = Reverse(machine_list_)
    /\ pc' = "delivering"
    /\ UNCHANGED <<event_handler_, events, machine_list_, actions, times, OnProcessError,
                   hand, pumping, given, log, processed>>

\* A fault, for ImplementsSet: the first machine to have the event ends it.
DeliverToFirst ==
    /\ pc = "delivering" /\ todo # <<>>
    /\ \/ Head(todo) \in StateMachines /\ Returns(Head(todo), AtEvent) /\ UNCHANGED actions
       \/ Head(todo) \in ActionMachines /\ Act(Head(todo), log[hand]) /\ UNCHANGED times
    /\ todo' = <<>> /\ given' = given \cup {Head(todo)}
    /\ UNCHANGED <<event_handler_, events, machine_list_, OnProcessError, pc, hand, pumping,
                   log, processed>>

Deliver ==
    /\ pc = "delivering" /\ todo # <<>>
    /\ \/ Head(todo) \in StateMachines /\ Returns(Head(todo), AtEvent) /\ UNCHANGED actions
       \/ Head(todo) \in ActionMachines /\ Act(Head(todo), log[hand]) /\ UNCHANGED times
    /\ todo' = Tail(todo) /\ given' = given \cup {Head(todo)}
    /\ UNCHANGED <<event_handler_, events, machine_list_, OnProcessError, pc, hand, pumping,
                   log, processed>>

DeliveryEnds ==
    /\ pc = "delivering" /\ todo = <<>>
    /\ EventEnds(TRUE)
    /\ UNCHANGED <<event_handler_, events, machine_list_, actions, times, OnProcessError, log>>

\* The handler or a predicate throws: the other machines go without the event.
DeliveryThrows ==
    /\ pc = "delivering" /\ todo # <<>>
    /\ \/ Head(todo) \in StateMachines /\ Throws(Head(todo), AtEvent)
       \/ Head(todo) \in ActionMachines /\ UNCHANGED times
    /\ pc' = "catching" /\ todo' = <<>>
    /\ UNCHANGED <<event_handler_, events, machine_list_, actions, OnProcessError, hand, pumping,
                   given, log, processed>>

\* The catch block calls OnProcessError, which throws itself if it was never
\* assigned.
ErrorEnds ==
    /\ pc = "catching"
    /\ EventEnds(OnProcessError)
    /\ UNCHANGED <<event_handler_, events, machine_list_, actions, times, OnProcessError, log>>

-----------------------------------------------------------------------------
(* The loop: timeouts                                                      *)

\* A fault, for OneTimeoutEach: the timers are looked at all the same.
StartScanAnyway ==
    /\ pc = "top" /\ event_fifo_ = <<>>
    /\ pc' = "scanning"
    /\ todo' = machine_list_
    /\ UNCHANGED <<event_handler_, events, machine_list_, actions, times, OnProcessError,
                   hand, pumping, given, log, processed>>

\* InternalProcessTimeoutEvent leaves the timeouts to a handler if there is one.
StartScan ==
    /\ pc = "top" /\ event_fifo_ = <<>>
    /\ pc' = "scanning"
    /\ todo' = IF event_handler_ THEN <<>> ELSE machine_list_
    /\ UNCHANGED <<event_handler_, events, machine_list_, actions, times, OnProcessError,
                   hand, pumping, given, log, processed>>

\* IsTimeout of an action machine is false.
IsDue(m) == m \in StateMachines /\ timer[m] = "due"

Visit ==
    /\ pc = "scanning" /\ todo # <<>>
    /\ IF IsDue(Head(todo)) THEN Returns(Head(todo), AtTimer(Head(todo))) ELSE UNCHANGED times
    /\ todo' = Tail(todo)
    /\ UNCHANGED <<event_handler_, events, machine_list_, actions, OnProcessError, pc, hand,
                   pumping, given, log, processed>>

\* There is no handler to throw, but a predicate may, and no try block here: out
\* of Process() to the loop.
VisitThrows ==
    /\ pc = "scanning" /\ todo # <<>>
    /\ IsDue(Head(todo)) /\ Stay(Head(todo), AtTimer(Head(todo)))
    /\ todo' = <<>> /\ pc' = "idle"
    /\ UNCHANGED <<event_handler_, events, machine_list_, actions, OnProcessError, hand,
                   pumping, given, log, processed>>

ScanEnds ==
    /\ pc = "scanning" /\ todo = <<>>
    /\ pc' = "idle"
    /\ UNCHANGED <<event_handler_, events, machine_list_, actions, times, OnProcessError,
                   hand, pumping, todo, given, log, processed>>

\* ProcessTimeoutMachine passes the timeout on to a member, whatever state it
\* is in by now, and catches what it throws; for another machine it is lost.
AlarmRings(m) ==
    /\ pc = "idle" /\ alarm[m] # NoState
    /\ IF Member(m)
       THEN Returns(m, AtAlarm(m)) \/ Throws(m, AtAlarm(m))
       ELSE /\ alarm' = AtAlarm(m).alarm
            /\ armed' = [armed EXCEPT ![m] = NoState]
            /\ UNCHANGED <<timer, told>>
    /\ UNCHANGED <<event_handler_, events, machine_list_, actions, OnProcessError, loop,
                   log, processed>>

-----------------------------------------------------------------------------
LoopGoesOn ==
    \/ Take \/ Operate \/ StartDelivery \/ Deliver \/ DeliveryEnds \/ DeliveryThrows
    \/ ErrorEnds
    \/ StartScan \/ Visit \/ VisitThrows \/ ScanEnds

Next ==
    \/ \E event \in Enqueued : Enqueue(event)
    \/ \E n \in adding : AddToFifo(n)
    \/ \E m \in StateMachines : ClockPasses(m) \/ AlarmRings(m)
    \/ \E m \in StateMachines, by \in {"off", "running"} : SetTimeout(m, by)
    \/ \E m \in ActionMachines, a \in Actions : MakeNonTransitiveAction(m, a)
    \/ RegisterHandler
    \/ ProcessEvent
    \/ CallProcess
    \/ LoopGoesOn

Spec == Init /\ [][Next]_vars

\* A call of Enqueue returns; the loop of the application comes back to the
\* events it keeps and to Process() again and again, and user code returns or
\* throws.  No alarm has to ring.
Fairness ==
    /\ WF_vars(\E n \in adding : AddToFifo(n))
    /\ WF_vars(LoopGoesOn)
    /\ SF_vars(ProcessEvent) /\ SF_vars(CallProcess)

FairSpec == Spec /\ Fairness

-----------------------------------------------------------------------------
(* Properties                                                              *)

Indices == 1..MaxLog

\* The types, and that an event is at hand just while one is being processed.
TypeOK ==
    /\ event_handler_ \in BOOLEAN /\ OnProcessError \in BOOLEAN
    /\ event_fifo_ \in Seq(Indices) /\ kept \in Seq(Indices)
    /\ adding \subseteq Indices /\ processed \subseteq Indices
    /\ machine_list_ \in Seq(Machines)
    /\ non_transitive_actions_ \in [ActionMachines -> Seq(Actions)]
    /\ timer \in [StateMachines -> {"off", "running", "due"}]
    /\ alarm \in [StateMachines -> States \cup {NoState}]
    /\ pc \in {"idle", "top", "handling", "delivering", "catching", "scanning"}
    /\ hand \in 0..MaxLog /\ pumping \in BOOLEAN /\ todo \in Seq(Machines)
    /\ log \in Seq(Events) /\ Len(log) <= MaxLog
    /\ armed \in [StateMachines -> States \cup {NoState}]
    /\ told \in [StateMachines -> Nat]
    /\ answer \in [ActionMachines -> [UserEvents -> Actions \cup {NoAction}]]
    /\ given \subseteq Machines
    /\ hand # 0 <=> pc \in {"handling", "delivering", "catching"}

Hand == IF hand = 0 THEN {} ELSE {hand}

\* An event given to Enqueue is on its way into the queue, in it, kept by the
\* handler, at hand or done with: in one of these, and there once.  Whatever
\* the handler keeps and whenever it is registered, none is lost or processed
\* twice (machine_set.cc:84-94, 112-115).
EventsOnce ==
    /\ DOMAIN log = adding \cup ToSet(event_fifo_) \cup ToSet(kept) \cup Hand \cup processed
    /\ IsInjective(event_fifo_) /\ IsInjective(kept)
    /\ ToSet(event_fifo_) \cap ToSet(kept) = {}
    /\ adding \cap (ToSet(event_fifo_) \cup ToSet(kept) \cup Hand \cup processed) = {}
    /\ (ToSet(event_fifo_) \cup ToSet(kept)) \cap (Hand \cup processed) = {}
    /\ Hand \cap processed = {}

\* The two deadlines of an entry that the handler was told of stay together: as
\* long as timeout_ms_ is set the alarm is that of the same state, and when the
\* alarm has rung both are used up.  No later event parts them, nor a handler that
\* throws when it is told of the next entry (machine.cc:181, machine_set.cc:184-209).
\* It says nothing of what sets one of them alone: an entry with a timeout of zero
\* or less, of which the handler is not told, a handler that fails to set the alarm,
\* a call of SetTimeout, and an alarm that rings for a machine that is no member.
DeadlinesAgree ==
    \A m \in StateMachines :
        armed[m] # NoState =>
            alarm[m] = IF timer[m] = "off" THEN NoState ELSE armed[m]

\* Each time a timeout is set for a machine, by an entry or by SetTimeout, it is
\* given at most one, though timeout_ms_ and the alarm run at the same time, the
\* handler is registered at any moment, and alarms of earlier states are left to
\* ring (machine_set.cc:97, 184-203, 207).
OneTimeoutEach == \A m \in StateMachines : told[m] <= 1

\* An event that an action machine has once run an action for runs the same one
\* for good: actions made later, inside an action too, do not come before it
\* (transition.cc:119, machine.cc:297-318).
AnswersAreStable ==
    [][\A m \in ActionMachines, e \in UserEvents :
          answer[m][e] # NoAction => answer'[m][e] = answer[m][e]]_vars

Set == INSTANCE SetSpec WITH
    Targets   <- [event \in UserEvents |-> <<>>],
    InOrder   <- FALSE,
    submitted <- log,
    done      <- processed,
    current   <- hand,
    members   <- ToSet(machine_list_),
    reached   <- given,
    failing   <- pc = "catching"

\* Seen from outside, the set with a handler is the set that it is without, but
\* for the order of the events: they are processed one at a time, and each
\* reaches every member, unless one of them or the handler throws
\* (machineset_handler.cc:10-17, machine_set.cc:112-182).
ImplementsSet == Set!SetSafety

\* Every event is processed in the end, also one that was in the queue, or on
\* its way into it, when the handler was registered, and whatever throws.
EveryEventIsProcessed ==
    processed # DOMAIN log ~> processed = DOMAIN log
=============================================================================
