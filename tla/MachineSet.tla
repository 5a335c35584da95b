------------------------------ MODULE MachineSet ------------------------------
(***************************************************************************)
(* fsm/machine_set.{h,cc}: a MachineSet without a handler, its event queue *)
(* and the thread that empties it.                                         *)
(*                                                                         *)
(* Any thread may Enqueue.  The owner is the thread that starts and stops  *)
(* the background thread; while there is none, it may run Process() itself.*)
(* machine_list_ and machine_set_ have no lock, so the application leaves  *)
(* Process() alone from StartBackground until StopBackground has returned. *)
(*                                                                         *)
(* The queue is the one of QueueSpec, which Fifo implements.  A machine is *)
(* what StateMachine makes of it: Process may set its timer, clear it or   *)
(* leave it, and may let an exception of a predicate escape.  The set      *)
(* itself outlives all this.                                               *)
(***************************************************************************)
EXTENDS Naturals, Sequences, SequencesExt

CONSTANTS
    Machines,
    UserEvents,    \* the events of the application
    Targets,       \* target_machines_ of each of them, <<>> for a broadcast
    NoEvent,       \* a null EventSharedPtr
    MaxLog         \* bound of the model on the number of events ever enqueued

\* MachineOperationEvent, with MO_ADD or MO_REMOVE
Operations == [op : {"add", "remove"}, machine : Machines]
Events == Operations \cup UserEvents

ASSUME MachineSetAssumption ==
    /\ UserEvents \cap Operations = {}
    /\ NoEvent \notin Events
    /\ Targets \in [UserEvents -> Seq(Machines)]
    /\ MaxLog \in Nat

VARIABLES
    event_fifo_, call, result,     \* the queue, and the GetNext of each thread
    machine_list_, machine_set_,
    timer,                         \* of each machine: "off", "running" or "due"
    background_thread_stop_flag_,
    background_thread_,            \* "none", "joinable" or "joined"
    OnProcessError,                \* whether the application has assigned it
    pc,                            \* where each of the two threads is
    todo                           \* the machines the loop at hand has still to visit

VARIABLES                          \* history, for the properties only
    log,                           \* every event put into the queue, in order
    given,                         \* the machines that the event at hand was given to
    late                           \* events taken since StopBackground was called

queue == <<event_fifo_, call, result>>
members == <<machine_list_, machine_set_>>
thread == <<background_thread_stop_flag_, background_thread_, OnProcessError>>
history == <<log, given, late>>
vars == <<queue, members, timer, thread, pc, todo, history>>

Threads == {"background", "owner"}

Queue == INSTANCE QueueSpec WITH
    Consumers <- Threads, Messages <- Events, NoMessage <- NoEvent, MaxLen <- MaxLog,
    queue <- event_fifo_

\* The process is up: no exception has left the background thread.
Alive == pc["background"] # "terminated"

Init ==
    /\ Queue!QueueInit
    /\ machine_list_ = <<>> /\ machine_set_ = {}
    /\ timer = [m \in Machines |-> "off"]
    /\ background_thread_stop_flag_ = FALSE /\ background_thread_ = "none"
    /\ OnProcessError \in BOOLEAN
    /\ pc = [t \in Threads |-> "off"] /\ todo = <<>>
    /\ log = <<>> /\ given = <<>> /\ late = 0

Goto(t, where) == pc' = [pc EXCEPT ![t] = where]

-----------------------------------------------------------------------------
(* Any thread                                                              *)

\* Without a handler to skip it, the event is always added.
Enqueue(event) ==
    /\ Alive
    /\ Len(log) < MaxLog
    /\ Queue!Put(event)
    /\ log' = Append(log, event)
    /\ UNCHANGED <<members, timer, thread, pc, todo, given, late>>

ClockPasses(m) ==
    /\ Alive
    /\ timer[m] = "running"
    /\ timer' = [timer EXCEPT ![m] = "due"]
    /\ UNCHANGED <<queue, members, thread, pc, todo, history>>

-----------------------------------------------------------------------------
(* The owner                                                               *)

\* The guard !background_thread_: once there has been a thread, never another.
StartBackground ==
    /\ Alive /\ pc["owner"] = "off"
    /\ background_thread_ = "none"
    /\ background_thread_' = "joinable"
    /\ Goto("background", "top")
    /\ UNCHANGED <<queue, members, timer, background_thread_stop_flag_, OnProcessError,
                   todo, history>>

\* A fault, for TypeOK: a thread that was never started is stopped.
StopBackgroundUnstarted ==
    /\ Alive /\ pc["owner"] = "off"
    /\ ~background_thread_stop_flag_
    /\ background_thread_stop_flag_' = TRUE
    /\ Goto("owner", "joining")
    /\ UNCHANGED <<queue, members, timer, background_thread_, OnProcessError, todo, history>>

StopBackground ==
    /\ Alive /\ pc["owner"] = "off"
    /\ background_thread_ # "none" /\ ~background_thread_stop_flag_
    /\ background_thread_stop_flag_' = TRUE
    /\ Goto("owner", "joining")
    /\ UNCHANGED <<queue, members, timer, background_thread_, OnProcessError, todo, history>>

\* A fault, for MembersHaveOneUser: StopBackground does not wait for the thread.
JoinAtOnce ==
    /\ Alive /\ pc["owner"] = "joining"
    /\ background_thread_' = "joined"
    /\ Goto("owner", "off")
    /\ UNCHANGED <<queue, members, timer, background_thread_stop_flag_, OnProcessError,
                   todo, history>>

\* background_thread_->join() returns.
Join ==
    /\ pc["owner"] = "joining"
    /\ pc["background"] = "ended"
    /\ background_thread_' = "joined"
    /\ Goto("owner", "off")
    /\ UNCHANGED <<queue, members, timer, background_thread_stop_flag_, OnProcessError,
                   todo, history>>

CallProcess ==
    /\ Alive /\ pc["owner"] = "off"
    /\ background_thread_ \in {"none", "joined"}
    /\ Goto("owner", "top")
    /\ UNCHANGED <<queue, members, timer, thread, todo, history>>

-----------------------------------------------------------------------------
(* Process(event), by the thread t                                         *)

Event(t) == result[t]

\* A fault, for MembersFollowTheLog: a member is added to the list twice.
AddMachineAgain(m) ==
    /\ machine_set_' = machine_set_ \cup {m}
    /\ machine_list_' = Append(machine_list_, m)

\* insert(machine).second tells a new member from one that is there already.
AddMachine(m) ==
    IF m \in machine_set_
    THEN UNCHANGED members
    ELSE /\ machine_set_' = machine_set_ \cup {m}
         /\ machine_list_' = Append(machine_list_, m)

RemoveMachine(m) ==
    IF m \in machine_set_
    THEN /\ machine_set_' = machine_set_ \ {m}
         /\ machine_list_' = RemoveFirst(machine_list_, m)
    ELSE UNCHANGED members

\* A fault, for OneEventOvertakes: the thread looks at the timers only when it
\* finds the queue empty, as Process() does.
AfterEventToTop(t) ==
    /\ Goto(t, "top")
    /\ todo' = <<>> /\ given' = <<>>

\* The background thread looks at the timers after every event, Process() only
\* when it finds the queue empty.
AfterEvent(t) ==
    /\ Goto(t, IF t = "background" THEN "scanning" ELSE "top")
    /\ todo' = IF t = "background" THEN machine_list_' ELSE <<>>
    /\ given' = <<>>

Operate(t) ==
    /\ pc[t] = "handling"
    /\ Event(t) \in Operations
    /\ IF Event(t).op = "add" THEN AddMachine(Event(t).machine)
                              ELSE RemoveMachine(Event(t).machine)
    /\ AfterEvent(t)
    /\ UNCHANGED <<queue, timer, thread, log, late>>

\* A fault, for DeliveriesFollowTheLog: a broadcast in the order of addition.
ToVisitForwards(event) ==
    IF Targets[event] # <<>> THEN Targets[event] ELSE machine_list_

\* ProcessTargetMachineEvent walks the targets, ProcessNoTargetMachineEvent
\* the members from the last added to the first.
ToVisit(event) ==
    IF Targets[event] # <<>> THEN Targets[event] ELSE Reverse(machine_list_)

StartDelivery(t) ==
    /\ pc[t] = "handling"
    /\ Event(t) \in UserEvents
    /\ todo' = ToVisit(Event(t))
    /\ Goto(t, "delivering")
    /\ UNCHANGED <<queue, members, timer, thread, history>>

\* What StateMachine::Process may do to the timer of m.
ProcessBy(m, before) ==
    \E after \in {before, "off", "running"} : timer' = [timer EXCEPT ![m] = after]

Deliver(t) ==
    /\ pc[t] = "delivering" /\ todo # <<>>
    /\ Head(todo) \in machine_set_
    /\ ProcessBy(Head(todo), timer[Head(todo)])
    /\ given' = Append(given, Head(todo))
    /\ todo' = Tail(todo)
    /\ UNCHANGED <<queue, members, thread, pc, log, late>>

\* A fault, for ImplementsSet: the event ends at a target that is no member.
SkipRest(t) ==
    /\ pc[t] = "delivering" /\ todo # <<>>
    /\ Head(todo) \notin machine_set_
    /\ UNCHANGED <<queue, members, timer, thread, log, late>>
    /\ AfterEvent(t)

\* A target that is no member is passed over.
Skip(t) ==
    /\ pc[t] = "delivering" /\ todo # <<>>
    /\ Head(todo) \notin machine_set_
    /\ todo' = Tail(todo)
    /\ UNCHANGED <<queue, members, timer, thread, pc, history>>

DeliveryEnds(t) ==
    /\ pc[t] = "delivering" /\ todo = <<>>
    /\ UNCHANGED <<queue, members, timer, thread, log, late>>
    /\ AfterEvent(t)

\* A machine throws: the rest of the machines go without the event.
DeliveryThrows(t) ==
    /\ pc[t] = "delivering" /\ todo # <<>>
    /\ Head(todo) \in machine_set_
    /\ ProcessBy(Head(todo), timer[Head(todo)])
    /\ todo' = <<>>
    /\ Goto(t, "catching")
    /\ UNCHANGED <<queue, members, thread, history>>

\* An exception that leaves the loop: through the thread's function, or out of
\* Process() to the owner.
Escape(t) ==
    /\ Goto(t, IF t = "background" THEN "terminated" ELSE "off")
    /\ todo' = <<>> /\ given' = <<>>

\* The catch block calls OnProcessError, which throws itself if it was never
\* assigned.
ErrorEnds(t) ==
    /\ pc[t] = "catching"
    /\ UNCHANGED <<queue, members, timer, thread, log, late>>
    /\ IF OnProcessError THEN AfterEvent(t) ELSE Escape(t)

-----------------------------------------------------------------------------
(* InternalProcessTimeoutEvent, by the thread t                            *)

Visit(t) ==
    /\ pc[t] = "scanning" /\ todo # <<>>
    /\ IF timer[Head(todo)] = "due"
       THEN ProcessBy(Head(todo), "off")
       ELSE UNCHANGED timer
    /\ todo' = Tail(todo)
    /\ UNCHANGED <<queue, members, thread, pc, history>>

\* No try block here.
VisitThrows(t) ==
    /\ pc[t] = "scanning" /\ todo # <<>>
    /\ timer[Head(todo)] = "due"
    /\ ProcessBy(Head(todo), "off")
    /\ Escape(t)
    /\ UNCHANGED <<queue, members, thread, log, late>>

ScanEnds(t) ==
    /\ pc[t] = "scanning" /\ todo = <<>>
    /\ Goto(t, IF t = "background" THEN "top" ELSE "off")
    /\ UNCHANGED <<queue, members, timer, thread, todo, history>>

-----------------------------------------------------------------------------
(* The loop of the background thread, and that of Process()                *)

\* A fault, for AtMostOneLateEvent: the thread empties the queue before it ends.
TopDraining ==
    /\ pc["background"] = "top"
    /\ IF background_thread_stop_flag_ /\ event_fifo_ = <<>>
       THEN Goto("background", "ended") /\ UNCHANGED queue
       ELSE Goto("background", "getting") /\ Queue!Ask("background", "timed")
    /\ UNCHANGED <<members, timer, thread, todo, history>>

\* A fault, for StopReturns: the thread waits for an event without a deadline.
TopBlocking ==
    /\ pc["background"] = "top"
    /\ IF background_thread_stop_flag_
       THEN Goto("background", "ended") /\ UNCHANGED queue
       ELSE Goto("background", "getting") /\ Queue!Ask("background", "blocking")
    /\ UNCHANGED <<members, timer, thread, todo, history>>

\* while (!background_thread_stop_flag_.load()) ... GetNext(sleep_ms)
BackgroundTop ==
    /\ pc["background"] = "top"
    /\ IF background_thread_stop_flag_
       THEN Goto("background", "ended") /\ UNCHANGED queue
       ELSE Goto("background", "getting") /\ Queue!Ask("background", "timed")
    /\ UNCHANGED <<members, timer, thread, todo, history>>

\* A fault, for ProcessDoesNotBlock: Process() does not look before it takes.
GetUnchecked ==
    /\ pc["owner"] = "top"
    /\ Goto("owner", "getting") /\ Queue!Ask("owner", "blocking")
    /\ UNCHANGED <<members, timer, thread, todo, history>>

\* while (event_fifo_.MessageAvailable()) ... GetNext()
OwnerTop ==
    /\ Alive /\ pc["owner"] = "top"
    /\ IF event_fifo_ # <<>>
       THEN Goto("owner", "getting") /\ Queue!Ask("owner", "blocking") /\ UNCHANGED todo
       ELSE Goto("owner", "scanning") /\ todo' = machine_list_ /\ UNCHANGED queue
    /\ UNCHANGED <<members, timer, thread, history>>

Get(t) ==
    /\ pc[t] = "getting"
    /\ Queue!Take(t)
    /\ Goto(t, "handling")
    /\ late' = IF background_thread_stop_flag_ /\ t = "background" THEN late + 1 ELSE late
    /\ UNCHANGED <<members, timer, thread, todo, log, given>>

\* A fault, for TimersAreServed: the timers are looked at only after an event.
GetNothingAndRetry ==
    /\ pc["background"] = "getting"
    /\ Queue!GiveUp("background")
    /\ Goto("background", "top")
    /\ UNCHANGED <<members, timer, thread, todo, history>>

\* A fault, for EventsAreServed: the thread ends when it finds no event.
GetNothingAndEnd ==
    /\ pc["background"] = "getting"
    /\ Queue!GiveUp("background")
    /\ Goto("background", "ended")
    /\ UNCHANGED <<members, timer, thread, todo, history>>

\* GetNext(sleep_ms) returns no event: on to the timers all the same.
GetNothing ==
    /\ pc["background"] = "getting"
    /\ Queue!GiveUp("background")
    /\ Goto("background", "scanning")
    /\ todo' = machine_list_
    /\ UNCHANGED <<members, timer, thread, history>>

-----------------------------------------------------------------------------
Handling(t) ==
    \/ Get(t)
    \/ Operate(t) \/ StartDelivery(t) \/ Deliver(t) \/ Skip(t) \/ DeliveryEnds(t)
    \/ DeliveryThrows(t) \/ ErrorEnds(t)
    \/ Visit(t) \/ VisitThrows(t) \/ ScanEnds(t)

Background == BackgroundTop \/ GetNothing \/ Handling("background")

OwnerGoesOn == Join \/ OwnerTop \/ Handling("owner")

OwnerCalls == StartBackground \/ StopBackground \/ CallProcess

Environment ==
    \/ \E event \in Events : Enqueue(event)
    \/ \E m \in Machines : ClockPasses(m)

Next == Environment \/ OwnerCalls \/ OwnerGoesOn \/ Background

Spec == Init /\ [][Next]_vars

\* Both threads are scheduled, GetNext serves its callers (which is proved and
\* checked of Fifo), and the user code of a machine returns or throws.  Nobody
\* has to enqueue, start, stop or pump, and no timer has to run out.
Fairness == WF_vars(Background) /\ WF_vars(OwnerGoesOn)

FairSpec == Spec /\ Fairness

-----------------------------------------------------------------------------
\* An event is at hand while it is being handled.
AtHand == {"handling", "delivering", "catching"}
Busy == {"top", "getting", "scanning"} \cup AtHand

\* The types, and that the stop flag and a thread that ended go with a thread
\* that was started.
TypeOK ==
    /\ event_fifo_ \in Seq(Events) /\ Len(event_fifo_) <= MaxLog
    /\ call \in [Threads -> {"none", "blocking", "timed"}]
    /\ result \in [Threads -> Events \cup {NoEvent}]
    /\ machine_list_ \in Seq(Machines) /\ machine_set_ \subseteq Machines
    /\ timer \in [Machines -> {"off", "running", "due"}]
    /\ background_thread_stop_flag_ \in BOOLEAN /\ OnProcessError \in BOOLEAN
    /\ background_thread_ \in {"none", "joinable", "joined"}
    /\ pc \in [Threads -> Busy \cup {"off", "joining", "ended", "terminated"}]
    /\ todo \in Seq(Machines)
    /\ log \in Seq(Events) /\ given \in Seq(Machines) /\ late \in Nat
    /\ background_thread_ = "none" => ~background_thread_stop_flag_
    /\ pc["background"] = "off" <=> background_thread_ = "none"

InHand == \E t \in Threads : pc[t] \in AtHand

\* The number of events that have had their effect on the members.
Processed == Len(log) - Len(event_fifo_) - (IF InHand THEN 1 ELSE 0)

\* The additions of m among the first n events that no removal of m follows.
Additions(m, n) ==
    {i \in 1..n : /\ log[i] = [op |-> "add", machine |-> m]
                  /\ \A j \in (i + 1)..n : log[j] # [op |-> "remove", machine |-> m]}

\* a was added before b, going by the first addition of each that counts.
AddedBefore(a, b, n) == \E i \in Additions(a, n) : \A j \in Additions(b, n) : i < j

\* At every moment the members are those that the additions and removals
\* enqueued so far and processed leave; list and set are two views of the same
\* members, and the list has them once each, in the order of their additions
\* (machine_set.cc:38-67, 153-157).
MembersFollowTheLog ==
    /\ machine_set_ = {m \in Machines : Additions(m, Processed) # {}}
    /\ ToSet(machine_list_) = machine_set_ /\ IsInjective(machine_list_)
    /\ \A i, j \in DOMAIN machine_list_ :
          i < j => AddedBefore(machine_list_[i], machine_list_[j], Processed)

Addressed(event) ==
    IF Targets[event] = <<>> THEN Reverse(machine_list_) ELSE Targets[event]

\* gs has the elements of S among the first n of ms, in the order of ms.
AreThoseAmong(gs, S, ms, n) ==
    \E place \in [DOMAIN gs -> 1..n] :
        /\ \A i, j \in DOMAIN gs : i < j => place[i] < place[j]
        /\ \A i \in DOMAIN gs : gs[i] = ms[place[i]]
        /\ {place[i] : i \in DOMAIN gs} = {p \in 1..n : ms[p] \in S}

\* Of those addressed, the members among the first have had the event, and todo
\* is the rest.
IsDeliveredInPart(event) ==
    LET ms == Addressed(event)
        n == Len(ms) - Len(todo)
    IN  /\ n \in Nat
        /\ \A i \in 1..Len(todo) : todo[i] = ms[n + i]
        /\ AreThoseAmong(given, machine_set_, ms, n)

\* Events are handled in the order of the log; one goes to the machines that
\* are members of the set after the events before it, whatever is added or
\* removed behind it in the queue: to its targets in their order, or to all of
\* them, the last added first.
DeliveriesFollowTheLog ==
    \A t \in Threads : pc[t] = "delivering" =>
        Event(t) = log[Processed + 1] /\ IsDeliveredInPart(Event(t))

Current == IF InHand THEN Processed + 1 ELSE 0

Failing == \E t \in Threads : pc[t] = "catching"

Set == INSTANCE SetSpec WITH
    InOrder   <- TRUE,
    submitted <- log,
    done      <- 1..Processed,
    current   <- Current,
    members   <- machine_set_,
    reached   <- ToSet(given),
    failing   <- Failing

\* Seen from outside, the set processes its events one at a time and in the
\* order of the log, on whichever thread; each changes the members at a stroke
\* or reaches every member that it is for, unless one of them throws
\* (machine_set.cc:112-182).
ImplementsSet == Set!SetSafety

\* machine_list_ and machine_set_ are never in use by two threads.
MembersHaveOneUser == ~ \A t \in Threads : pc[t] \in Busy

\* Process() does not wait: what MessageAvailable saw is still there.
ProcessDoesNotBlock == pc["owner"] = "getting" => event_fifo_ # <<>>

\* The background thread takes at most one more event once it is told to stop.
AtMostOneLateEvent == late <= 1

\* StopBackground returns, unless the process dies under it.
StopReturns == pc["owner"] = "joining" ~> pc["owner"] # "joining" \/ ~Alive

Started == background_thread_ # "none"
Stopped == background_thread_stop_flag_ \/ ~Alive

\* Once the background thread is started, no event stays in the queue for good,
\* until StopBackground is called or an exception kills the process: the
\* thread outlives empty queues and the exceptions that OnProcessError takes.
EventsAreServed ==
    \A n \in 1..MaxLog :
        Started /\ n <= Len(log) ~> Len(log) - Len(event_fifo_) >= n \/ Stopped

\* Once the background thread is started, the timeout of a member is processed in
\* the end, also when no event comes any more, unless StopBackground is called or
\* an exception kills the process.  How many events may go before it is
\* MachineSetTimers!OneEventOvertakes.
TimersAreServed ==
    \A m \in Machines :
        Started /\ timer[m] = "due" /\ m \in machine_set_
            ~> timer[m] # "due" \/ m \notin machine_set_ \/ Stopped
=============================================================================
