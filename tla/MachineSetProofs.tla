--------------------------- MODULE MachineSetProofs ---------------------------
(***************************************************************************)
(* Theorems about MachineSet for any machines, events and targets, and any *)
(* number of events: the list of machines is never in use by two threads,  *)
(* Process() does not block, StopBackground lets at most one more event    *)
(* through, the members are those that the additions and removals handled  *)
(* so far leave, an event reaches just those of them that it is for, seen  *)
(* from outside the set is that of SetSpec, and the timeout of a member    *)
(* waits for one event of a burst at most.                                 *)
(***************************************************************************)
EXTENDS MachineSetTimers, SequenceLemmas

-----------------------------------------------------------------------------
(* Threads                                                                 *)

Places == Busy \cup {"off", "joining", "ended", "terminated"}

\* How far each thread can be, given how far the other is: the owner is inside
\* Process() only before there was a background thread or after it was joined,
\* and it joins a thread only once that has ended.
ThreadsTakeTurns ==
    /\ pc \in [Threads -> Places]
    /\ background_thread_ \in {"none", "joinable", "joined"}
    /\ pc["background"] = "off" <=> background_thread_ = "none"
    /\ background_thread_ = "joined" => pc["background"] = "ended"
    /\ pc["owner"] \in Busy => background_thread_ \in {"none", "joined"}

\* The background thread takes an event after it was told to stop only in the
\* GetNext it was in at that time.
OneGetNextLeft ==
    /\ late \in 0..1
    /\ ~background_thread_stop_flag_ => late = 0
    /\ pc["background"] = "getting" => late = 0

TurnInvariant == ThreadsTakeTurns /\ ProcessDoesNotBlock /\ OneGetNextLeft

LEMMA TurnsAreInvariant == Spec => []TurnInvariant
<1> USE DEF TurnInvariant, ThreadsTakeTurns, ProcessDoesNotBlock, OneGetNextLeft,
            Places, Busy, AtHand, Threads
<1>1. Init => TurnInvariant
  BY DEF Init
<1>2. TurnInvariant /\ [Next]_vars => TurnInvariant'
  <2> SUFFICES ASSUME TurnInvariant, [Next]_vars PROVE TurnInvariant'
    OBVIOUS
  <2> USE DEF Goto
  <2>1. ASSUME NEW event \in Events, Enqueue(event) PROVE TurnInvariant'
    <3>1. pc["owner"] = "getting" => event_fifo_' # <<>>
      BY <2>1 DEF Enqueue, Queue!Put
    <3> QED BY <2>1, <3>1 DEF Enqueue, thread
  <2>2. ASSUME NEW m \in Machines, ClockPasses(m) PROVE TurnInvariant'
    BY <2>2 DEF ClockPasses, queue, thread, history
  <2>3. ASSUME StartBackground PROVE TurnInvariant'
    BY <2>3 DEF StartBackground, queue, history
  <2>4. ASSUME StopBackground PROVE TurnInvariant'
    BY <2>4 DEF StopBackground, queue, history
  <2>5. ASSUME CallProcess PROVE TurnInvariant'
    BY <2>5 DEF CallProcess, queue, thread, history
  <2>6. ASSUME Join PROVE TurnInvariant'
    BY <2>6 DEF Join, queue, history
  <2>7. ASSUME OwnerTop PROVE TurnInvariant'
    BY <2>7 DEF OwnerTop, Queue!Ask, queue, thread, history
  <2>8. ASSUME BackgroundTop PROVE TurnInvariant'
    BY <2>8 DEF BackgroundTop, Queue!Ask, queue, thread, history
  <2>9. ASSUME GetNothing PROVE TurnInvariant'
    BY <2>9 DEF GetNothing, Queue!GiveUp, queue, thread, history
  <2>10. ASSUME NEW t \in Threads, Get(t) PROVE TurnInvariant'
    BY <2>10 DEF Get, Queue!Take, thread
  <2>a. ASSUME NEW t \in Threads, pc[t] \in AtHand \cup {"scanning"},
               pc' \in {[pc EXCEPT ![t] = w] :
                           w \in IF t = "background" THEN {"delivering", "catching", "scanning", "top", "terminated"}
                                 ELSE {"delivering", "catching", "scanning", "top", "off"}},
               event_fifo_' = event_fifo_, UNCHANGED thread, late' = late
        PROVE  TurnInvariant'
    BY <2>a DEF thread
  <2>11. ASSUME NEW t \in Threads, Operate(t) PROVE TurnInvariant'
    BY <2>11, <2>a DEF Operate, AfterEvent, queue
  <2>12. ASSUME NEW t \in Threads, StartDelivery(t) PROVE TurnInvariant'
    BY <2>12, <2>a DEF StartDelivery, queue, history
  <2>13. ASSUME NEW t \in Threads, Deliver(t) \/ Skip(t) \/ Visit(t) PROVE TurnInvariant'
    BY <2>13 DEF Deliver, Skip, Visit, queue, thread, history
  <2>14. ASSUME NEW t \in Threads, DeliveryEnds(t) PROVE TurnInvariant'
    BY <2>14, <2>a DEF DeliveryEnds, AfterEvent, queue
  <2>15. ASSUME NEW t \in Threads, DeliveryThrows(t) PROVE TurnInvariant'
    BY <2>15, <2>a DEF DeliveryThrows, queue, history
  <2>b. ASSUME NEW t \in Threads, ErrorEnds(t) PROVE TurnInvariant'
    BY <2>b, <2>a DEF ErrorEnds, AfterEvent, Escape, queue
  <2>16. ASSUME NEW t \in Threads, VisitThrows(t) PROVE TurnInvariant'
    BY <2>16, <2>a DEF VisitThrows, Escape, queue
  <2>17. ASSUME NEW t \in Threads, ScanEnds(t) PROVE TurnInvariant'
    BY <2>17, <2>a DEF ScanEnds, queue, history
  <2>18. CASE UNCHANGED vars
    BY <2>18 DEF vars, queue, thread, history
  <2> QED BY <2>1, <2>2, <2>3, <2>4, <2>5, <2>6, <2>7, <2>8, <2>9, <2>10, <2>11, <2>12,
             <2>13, <2>14, <2>15, <2>16, <2>17, <2>18, <2>b
          DEF Next, Environment, OwnerCalls, OwnerGoesOn, Background, Handling
<1> QED BY <1>1, <1>2, PTL DEF Spec

\* machine_list_ and machine_set_, which have no lock, need none: whoever walks
\* or changes them is alone.
THEOREM MembersAreSafe == Spec => []MembersHaveOneUser
<1>1. TurnInvariant => MembersHaveOneUser
  BY DEF TurnInvariant, ThreadsTakeTurns, MembersHaveOneUser, Busy, AtHand, Threads
<1> QED BY <1>1, TurnsAreInvariant, PTL

\* Process() is safe to call from a thread that must not wait.
THEOREM ProcessReturnsAtOnce == Spec => []ProcessDoesNotBlock
BY TurnsAreInvariant, PTL DEF TurnInvariant

\* Whatever is in the queue when StopBackground is called, at most one event
\* of it is still handled by the background thread.
THEOREM StopIsPrompt == Spec => []AtMostOneLateEvent
<1>1. TurnInvariant => AtMostOneLateEvent
  BY DEF TurnInvariant, OneGetNextLeft, AtMostOneLateEvent
<1> QED BY <1>1, TurnsAreInvariant, PTL

-----------------------------------------------------------------------------
(* Types                                                                   *)

\* The loop of a thread moves on to the next event.
LEMMA AfterEventType ==
    ASSUME NEW t \in Threads, AfterEvent(t), machine_list_' \in Seq(Machines)
    PROVE  todo' \in Seq(Machines) /\ given' \in Seq(Machines)
BY DEF AfterEvent

\* List and set have the same members, and the list has them once each.
MembersAgree == ToSet(machine_list_) = machine_set_ /\ IsInjective(machine_list_)

LEMMA TypesAreInvariant == Spec => [](TypeOK /\ MembersAgree)
<1>1. Init => TypeOK /\ MembersAgree
  <2>1. Init => TypeOK
    <3>. SUFFICES ASSUME Init PROVE TypeOK
      OBVIOUS
    <3>1. /\ event_fifo_ \in Seq(Events) /\ Len(event_fifo_) = 0
          /\ machine_list_ \in Seq(Machines) /\ todo \in Seq(Machines)
          /\ log \in Seq(Events) /\ given \in Seq(Machines)
      BY DEF Init, Queue!QueueInit
    <3>2. /\ call \in [Threads -> {"none", "blocking", "timed"}]
          /\ result \in [Threads -> Events \cup {NoEvent}]
          /\ pc \in [Threads -> Busy \cup {"off", "joining", "ended", "terminated"}]
          /\ pc["background"] = "off"
      BY DEF Init, Queue!QueueInit, Threads
    <3>3. /\ machine_set_ \subseteq Machines
          /\ timer \in [Machines -> {"off", "running", "due"}]
          /\ background_thread_ = "none" /\ ~background_thread_stop_flag_
          /\ background_thread_stop_flag_ \in BOOLEAN /\ OnProcessError \in BOOLEAN
          /\ late \in Nat
      BY DEF Init
    <3>4. Len(event_fifo_) <= MaxLog
      BY <3>1, MachineSetAssumption
    <3>. QED BY <3>1, <3>2, <3>3, <3>4 DEF TypeOK
  <2>2. ToSet(<<>>) = {} /\ IsInjective(<<>>)
    BY DEF ToSet, IsInjective
  <2>. QED BY <2>1, <2>2 DEF Init, MembersAgree
<1>2. TypeOK /\ MembersAgree /\ TurnInvariant' /\ [Next]_vars => (TypeOK /\ MembersAgree)'
  <2>. SUFFICES ASSUME TypeOK, MembersAgree, TurnInvariant', [Next]_vars
                PROVE  (TypeOK /\ MembersAgree)'
    OBVIOUS
  <2>t. /\ pc' \in [Threads -> Busy \cup {"off", "joining", "ended", "terminated"}]
        /\ late' \in Nat
        /\ pc'["background"] = "off" <=> background_thread_' = "none"
        /\ background_thread_' \in {"none", "joinable", "joined"}
    BY DEF TurnInvariant, ThreadsTakeTurns, OneGetNextLeft, Places
  <2>. DEFINE QueueType == /\ event_fifo_ \in Seq(Events) /\ Len(event_fifo_) <= MaxLog
                           /\ call \in [Threads -> {"none", "blocking", "timed"}]
                           /\ result \in [Threads -> Events \cup {NoEvent}]
              MemberType == /\ machine_list_ \in Seq(Machines) /\ machine_set_ \subseteq Machines
                            /\ MembersAgree
              TimerType == timer \in [Machines -> {"off", "running", "due"}]
              ThreadType == /\ background_thread_stop_flag_ \in BOOLEAN
                            /\ OnProcessError \in BOOLEAN
                            /\ background_thread_ = "none" => ~background_thread_stop_flag_
              HistoryType == /\ log \in Seq(Events) /\ given \in Seq(Machines)
                             /\ todo \in Seq(Machines)
  <2>q. QueueType /\ MemberType /\ TimerType /\ ThreadType /\ HistoryType
    BY DEF TypeOK
  <2>. SUFFICES QueueType' /\ MemberType' /\ TimerType' /\ ThreadType' /\ HistoryType'
    BY <2>t DEF TypeOK
  <2>. USE DEF queue, members, thread, history, MembersAgree
  <2>1. ASSUME NEW event \in Events, Enqueue(event)
        PROVE  QueueType' /\ MemberType' /\ TimerType' /\ ThreadType' /\ HistoryType'
    <3>1. QueueType' /\ log' \in Seq(Events)
      BY <2>1, <2>q, MachineSetAssumption DEF Enqueue, Queue!Put
    <3>. QED BY <2>1, <2>q, <3>1 DEF Enqueue
  <2>2. ASSUME NEW m \in Machines, ClockPasses(m)
        PROVE  QueueType' /\ MemberType' /\ TimerType' /\ ThreadType' /\ HistoryType'
    BY <2>2, <2>q DEF ClockPasses
  <2>3. ASSUME StartBackground \/ StopBackground \/ CallProcess \/ Join
        PROVE  QueueType' /\ MemberType' /\ TimerType' /\ ThreadType' /\ HistoryType'
    <3>1. CASE StartBackground
      BY <2>q, <3>1 DEF StartBackground
    <3>2. CASE StopBackground
      BY <2>q, <3>2 DEF StopBackground
    <3>3. CASE CallProcess
      BY <2>q, <3>3 DEF CallProcess
    <3>4. CASE Join
      BY <2>q, <3>4 DEF Join
    <3>. QED BY <2>3, <3>1, <3>2, <3>3, <3>4
  <2>4. ASSUME OwnerTop
        PROVE  QueueType' /\ MemberType' /\ TimerType' /\ ThreadType' /\ HistoryType'
    BY <2>4, <2>q DEF OwnerTop, Queue!Ask, Threads
  <2>5. ASSUME BackgroundTop
        PROVE  QueueType' /\ MemberType' /\ TimerType' /\ ThreadType' /\ HistoryType'
    BY <2>5, <2>q DEF BackgroundTop, Queue!Ask, Threads
  <2>6. ASSUME GetNothing
        PROVE  QueueType' /\ MemberType' /\ TimerType' /\ ThreadType' /\ HistoryType'
    BY <2>6, <2>q DEF GetNothing, Queue!GiveUp, Queue!Return, Threads
  <2>7. ASSUME NEW t \in Threads, Get(t)
        PROVE  QueueType' /\ MemberType' /\ TimerType' /\ ThreadType' /\ HistoryType'
    <3>1. Head(event_fifo_) \in Events /\ Tail(event_fifo_) \in Seq(Events)
          /\ Len(Tail(event_fifo_)) <= MaxLog
      BY <2>7, <2>q, MachineSetAssumption, HeadTailProperties DEF Get, Queue!Take
    <3>. QED BY <2>7, <2>q, <3>1 DEF Get, Queue!Take, Queue!Return
  <2>8. ASSUME NEW t \in Threads, Operate(t)
        PROVE  QueueType' /\ MemberType' /\ TimerType' /\ ThreadType' /\ HistoryType'
    <3>1. Event(t).machine \in Machines
      BY <2>8 DEF Operate, Operations
    <3>2. ASSUME NEW m \in Machines, AddMachine(m) PROVE MemberType'
      <4>1. /\ Append(machine_list_, m) \in Seq(Machines)
            /\ ToSet(Append(machine_list_, m)) = machine_set_ \cup {m}
            /\ m \notin machine_set_ => IsInjective(Append(machine_list_, m))
        BY <2>q, AppendOnce
      <4>. QED BY <2>q, <3>2, <4>1 DEF AddMachine
    <3>3. ASSUME NEW m \in Machines, RemoveMachine(m) PROVE MemberType'
      <4>1. ASSUME m \in machine_set_
            PROVE  /\ RemoveFirst(machine_list_, m) \in Seq(Machines)
                   /\ ToSet(RemoveFirst(machine_list_, m)) = machine_set_ \ {m}
                   /\ IsInjective(RemoveFirst(machine_list_, m))
        BY <2>q, <4>1, RemoveOnce
      <4>. QED BY <2>q, <3>3, <4>1 DEF RemoveMachine
    <3>4. MemberType'
      BY <2>8, <3>1, <3>2, <3>3 DEF Operate
    <3>. QED BY <2>8, <2>q, <3>4, AfterEventType DEF Operate
  <2>9. ASSUME NEW t \in Threads, StartDelivery(t)
        PROVE  QueueType' /\ MemberType' /\ TimerType' /\ ThreadType' /\ HistoryType'
    <3>1. ToVisit(Event(t)) \in Seq(Machines)
      <4>1. Targets[Event(t)] \in Seq(Machines)
        BY <2>9, MachineSetAssumption DEF StartDelivery
      <4>2. Reverse(machine_list_) \in Seq(Machines)
        BY <2>q DEF Reverse
      <4>. QED BY <4>1, <4>2 DEF ToVisit
    <3>. QED BY <2>9, <2>q, <3>1 DEF StartDelivery
  <2>p. ASSUME todo # <<>>
        PROVE  Head(todo) \in Machines /\ Tail(todo) \in Seq(Machines)
    BY <2>p, <2>q, HeadTailProperties
  <2>r. ASSUME todo # <<>>, NEW before \in {"off", "running", "due"},
               ProcessBy(Head(todo), before)
        PROVE  TimerType'
    BY <2>p, <2>q, <2>r DEF ProcessBy
  <2>10. ASSUME NEW t \in Threads, Deliver(t)
        PROVE  QueueType' /\ MemberType' /\ TimerType' /\ ThreadType' /\ HistoryType'
    <3>1. TimerType'
      BY <2>10, <2>p, <2>q, <2>r DEF Deliver
    <3>2. given' \in Seq(Machines)
      BY <2>10, <2>p, <2>q DEF Deliver
    <3>. QED BY <2>10, <2>p, <2>q, <3>1, <3>2 DEF Deliver
  <2>11. ASSUME NEW t \in Threads, Skip(t) \/ ScanEnds(t)
        PROVE  QueueType' /\ MemberType' /\ TimerType' /\ ThreadType' /\ HistoryType'
    <3>1. CASE Skip(t)
      BY <2>p, <2>q, <3>1 DEF Skip
    <3>2. CASE ScanEnds(t)
      BY <2>q, <3>2 DEF ScanEnds
    <3>. QED BY <2>11, <3>1, <3>2
  <2>12. ASSUME NEW t \in Threads, DeliveryEnds(t)
        PROVE  QueueType' /\ MemberType' /\ TimerType' /\ ThreadType' /\ HistoryType'
    BY <2>12, <2>q, AfterEventType DEF DeliveryEnds
  <2>13. ASSUME NEW t \in Threads, DeliveryThrows(t)
        PROVE  QueueType' /\ MemberType' /\ TimerType' /\ ThreadType' /\ HistoryType'
    <3>1. TimerType'
      BY <2>13, <2>p, <2>q, <2>r DEF DeliveryThrows
    <3>. QED BY <2>13, <2>q, <3>1 DEF DeliveryThrows
  <2>e. ASSUME NEW t \in Threads, ErrorEnds(t)
        PROVE  QueueType' /\ MemberType' /\ TimerType' /\ ThreadType' /\ HistoryType'
    <3>1. todo' \in Seq(Machines) /\ given' \in Seq(Machines)
      <4>1. CASE AfterEvent(t)
        BY <2>e, <2>q, <4>1, AfterEventType DEF ErrorEnds
      <4>2. CASE Escape(t)
        BY <4>2 DEF Escape
      <4>. QED BY <2>e, <4>1, <4>2 DEF ErrorEnds
    <3>. QED BY <2>e, <2>q, <3>1 DEF ErrorEnds
  <2>14. ASSUME NEW t \in Threads, Visit(t)
        PROVE  QueueType' /\ MemberType' /\ TimerType' /\ ThreadType' /\ HistoryType'
    <3>1. TimerType'
      BY <2>14, <2>p, <2>q, <2>r DEF Visit
    <3>. QED BY <2>14, <2>p, <2>q, <3>1 DEF Visit
  <2>15. ASSUME NEW t \in Threads, VisitThrows(t)
        PROVE  QueueType' /\ MemberType' /\ TimerType' /\ ThreadType' /\ HistoryType'
    <3>1. TimerType'
      BY <2>15, <2>p, <2>q, <2>r DEF VisitThrows
    <3>. QED BY <2>15, <2>q, <3>1 DEF VisitThrows, Escape
  <2>16. CASE UNCHANGED vars
    BY <2>16, <2>q DEF vars
  <2>. QED
    <3>. HIDE DEF QueueType, MemberType, TimerType, ThreadType, HistoryType
    <3>. QED BY <2>1, <2>2, <2>3, <2>4, <2>5, <2>6, <2>7, <2>8, <2>9, <2>10, <2>11, <2>12,
                <2>13, <2>14, <2>15, <2>16, <2>e
             DEF Next, Environment, OwnerCalls, OwnerGoesOn, Background, Handling, Threads
<1>. QED BY <1>1, <1>2, TurnsAreInvariant, PTL DEF Spec

\* The type invariant holds.
THEOREM TypeCorrect == Spec => []TypeOK
BY TypesAreInvariant, PTL

-----------------------------------------------------------------------------
(* The members and the log                                                 *)

Taken == Len(log) - Len(event_fifo_)

\* The queue is the rest of the log, and the event at hand, which one thread
\* has at most, is the last one taken.
QueueIsRestOfLog ==
    /\ Taken \in Nat
    /\ \A i \in 1..Len(event_fifo_) : event_fifo_[i] = log[Taken + i]
    /\ \A t \in Threads : pc[t] \in AtHand =>
          Taken > 0 /\ Event(t) = log[Taken]
    /\ \A t \in Threads : pc[t] \in {"delivering", "catching"} => Event(t) \in UserEvents

\* The actions that take nothing from the queue, and neither begin nor end the
\* handling of an event.
LEMMA RestKept ==
    ASSUME TypeOK, QueueIsRestOfLog, UNCHANGED <<event_fifo_, log>>,
           \A t \in Threads : \/ pc'[t] \notin AtHand
                              \/ pc'[t] = pc[t] /\ result'[t] = result[t]
    PROVE  QueueIsRestOfLog'
BY DEF QueueIsRestOfLog, Taken, Event, AtHand

LEMMA RestIsInvariant == Spec => []QueueIsRestOfLog
<1>1. Init => QueueIsRestOfLog
  BY DEF Init, Queue!QueueInit, QueueIsRestOfLog, Taken, AtHand
<1>2. TypeOK /\ TurnInvariant /\ QueueIsRestOfLog /\ [Next]_vars => QueueIsRestOfLog'
  <2>. SUFFICES ASSUME TypeOK, TurnInvariant, QueueIsRestOfLog, [Next]_vars
                PROVE  QueueIsRestOfLog'
    OBVIOUS
  <2>t. /\ event_fifo_ \in Seq(Events) /\ log \in Seq(Events)
        /\ Len(event_fifo_) \in Nat /\ Len(log) \in Nat
        /\ pc \in [Threads -> Busy \cup {"off", "joining", "ended", "terminated"}]
        /\ result \in [Threads -> Events \cup {NoEvent}]
    BY DEF TypeOK
  <2>. USE DEF queue, history
  <2>1. ASSUME NEW event \in Events, Enqueue(event) PROVE QueueIsRestOfLog'
    <3>1. /\ event_fifo_' = Append(event_fifo_, event) /\ log' = Append(log, event)
          /\ UNCHANGED <<pc, result>>
      BY <2>1 DEF Enqueue, Queue!Put
    <3>2. /\ Len(event_fifo_') = Len(event_fifo_) + 1 /\ Len(log') = Len(log) + 1
          /\ \A i \in 1..Len(event_fifo_) : event_fifo_'[i] = event_fifo_[i]
          /\ event_fifo_'[Len(event_fifo_) + 1] = event
          /\ \A i \in 1..Len(log) : log'[i] = log[i]
          /\ log'[Len(log) + 1] = event
      BY <2>t, <3>1, AppendProperties
    <3>3. Taken' = Taken /\ Taken + (Len(event_fifo_) + 1) = Len(log) + 1
          /\ Taken \in 0..Len(log)
      BY <2>t, <3>2 DEF Taken, QueueIsRestOfLog
    <3>4. ASSUME NEW i \in 1..(Len(event_fifo_) + 1)
          PROVE  event_fifo_'[i] = log'[Taken + i]
      <4>1. CASE i = Len(event_fifo_) + 1
        BY <3>2, <3>3, <4>1
      <4>2. CASE i # Len(event_fifo_) + 1
        <5>1. i \in 1..Len(event_fifo_) /\ Taken + i \in 1..Len(log)
          BY <2>t, <3>3, <4>2 DEF Taken
        <5>. QED BY <3>2, <5>1 DEF QueueIsRestOfLog
      <4>. QED BY <4>1, <4>2
    <3>5. Taken > 0 => log'[Taken] = log[Taken]
      BY <2>t, <3>2, <3>3
    <3>. QED BY <3>1, <3>2, <3>3, <3>4, <3>5 DEF QueueIsRestOfLog, Event
  <2>2. ASSUME NEW t \in Threads, Get(t) PROVE QueueIsRestOfLog'
    <3>1. /\ event_fifo_ # <<>> /\ event_fifo_' = Tail(event_fifo_) /\ log' = log
          /\ pc' = [pc EXCEPT ![t] = "handling"]
          /\ result' = [result EXCEPT ![t] = Head(event_fifo_)]
          /\ pc[t] = "getting"
      BY <2>2 DEF Get, Goto, Queue!Take, Queue!Return
    <3>2. /\ Len(event_fifo_') = Len(event_fifo_) - 1 /\ Len(event_fifo_) > 0
          /\ \A i \in 1..(Len(event_fifo_) - 1) : event_fifo_'[i] = event_fifo_[i + 1]
          /\ Head(event_fifo_) = event_fifo_[1]
      BY <2>t, <3>1, HeadTailProperties
    <3>3. Taken' = Taken + 1
      BY <2>t, <3>1, <3>2 DEF Taken
    <3>4. Head(event_fifo_) = log[Taken + 1]
      BY <2>t, <3>2 DEF QueueIsRestOfLog
    <3>5. ASSUME NEW i \in 1..Len(event_fifo_') PROVE event_fifo_'[i] = log[Taken + 1 + i]
      <4>1. i + 1 \in 1..Len(event_fifo_) /\ Taken + (i + 1) = Taken + 1 + i
            /\ i \in 1..(Len(event_fifo_) - 1)
        BY <2>t, <3>2 DEF QueueIsRestOfLog
      <4>. QED BY <3>2, <4>1 DEF QueueIsRestOfLog
    <3>6. \A u \in Threads \ {t} : pc[u] \notin Busy
      BY <3>1 DEF TurnInvariant, ThreadsTakeTurns, Threads, Busy, AtHand
    <3>7. /\ pc'[t] = "handling" /\ result'[t] = Head(event_fifo_)
          /\ \A u \in Threads \ {t} : pc'[u] \notin AtHand
      BY <2>t, <3>1, <3>6 DEF Busy, AtHand
    <3>8. Taken' \in Nat /\ Taken' > 0
      BY <3>3 DEF QueueIsRestOfLog
    <3>. QED BY <3>1, <3>3, <3>4, <3>5, <3>7, <3>8 DEF QueueIsRestOfLog, Event
  <2>3. ASSUME NEW t \in Threads, StartDelivery(t) \/ DeliveryThrows(t)
        PROVE  QueueIsRestOfLog'
    BY <2>3, <2>t DEF StartDelivery, DeliveryThrows, Goto, QueueIsRestOfLog, Taken, Event, AtHand
  <2>. DEFINE Elsewhere == \A t \in Threads : \/ pc'[t] \notin AtHand
                                              \/ pc'[t] = pc[t] /\ result'[t] = result[t]
              Rest == UNCHANGED <<event_fifo_, log>> /\ Elsewhere
  <2>. USE DEF Goto, AtHand
  <2>4. ASSUME NEW m \in Machines, ClockPasses(m) PROVE Rest
    BY <2>4 DEF ClockPasses
  <2>5. ASSUME StartBackground \/ StopBackground \/ CallProcess \/ Join PROVE Rest
    BY <2>5, <2>t DEF StartBackground, StopBackground, CallProcess, Join, Threads
  <2>6. ASSUME OwnerTop \/ BackgroundTop PROVE Rest
    BY <2>6, <2>t DEF OwnerTop, BackgroundTop, Queue!Ask, Threads
  <2>7. ASSUME GetNothing PROVE Rest
    BY <2>7, <2>t DEF GetNothing, Queue!GiveUp, Queue!Return, Threads
  <2>8. ASSUME NEW t \in Threads, Operate(t) \/ DeliveryEnds(t) \/ ErrorEnds(t) PROVE Rest
    BY <2>8, <2>t DEF Operate, DeliveryEnds, ErrorEnds, AfterEvent, Escape, Threads, AtHand
  <2>9. ASSUME NEW t \in Threads, Deliver(t) \/ Skip(t) \/ Visit(t) PROVE Rest
    BY <2>9 DEF Deliver, Skip, Visit
  <2>10. ASSUME NEW t \in Threads, VisitThrows(t) \/ ScanEnds(t) PROVE Rest
    BY <2>10, <2>t DEF VisitThrows, ScanEnds, Escape, Threads
  <2>11. CASE UNCHANGED vars
    BY <2>11 DEF vars, QueueIsRestOfLog, Taken, Event
  <2>12. Rest => QueueIsRestOfLog'
    BY RestKept
  <2>. HIDE DEF Rest
  <2>. QED BY <2>1, <2>2, <2>3, <2>4, <2>5, <2>6, <2>7, <2>8, <2>9, <2>10, <2>11, <2>12
           DEF Next, Environment, OwnerCalls, OwnerGoesOn, Background, Handling, Threads
<1>. QED BY <1>1, <1>2, TypeCorrect, TurnsAreInvariant, PTL DEF Spec

\* One more event: an addition counts until a removal follows it.
LEMMA AdditionsStep ==
    ASSUME NEW n \in Nat, NEW m \in Machines
    PROVE  /\ log[n + 1] = [op |-> "add", machine |-> m] =>
                  Additions(m, n + 1) = Additions(m, n) \cup {n + 1}
           /\ log[n + 1] = [op |-> "remove", machine |-> m] => Additions(m, n + 1) = {}
           /\ log[n + 1] \notin {[op |-> o, machine |-> m] : o \in {"add", "remove"}} =>
                  Additions(m, n + 1) = Additions(m, n)
<1>. DEFINE add == [op |-> "add", machine |-> m]
            remove == [op |-> "remove", machine |-> m]
<1>1. add # remove
  BY add.op # remove.op
<1>. HIDE DEF add, remove
<1>2. /\ 1..(n + 1) = (1..n) \cup {n + 1} /\ n + 1 \notin 1..n
      /\ \A i \in 1..n : (i + 1)..(n + 1) = ((i + 1)..n) \cup {n + 1}
      /\ (n + 1 + 1)..(n + 1) = {}
  OBVIOUS
<1>3. /\ Additions(m, n) = {i \in 1..n : log[i] = add /\ \A j \in (i + 1)..n : log[j] # remove}
      /\ Additions(m, n + 1) =
            {i \in 1..(n + 1) : log[i] = add /\ \A j \in (i + 1)..(n + 1) : log[j] # remove}
  BY DEF Additions, add, remove
<1>4. \A i \in 1..n : i \in Additions(m, n + 1) <=>
                         i \in Additions(m, n) /\ log[n + 1] # remove
  BY <1>2, <1>3
<1>5. n + 1 \in Additions(m, n + 1) <=> log[n + 1] = add
  BY <1>2, <1>3
<1>6. Additions(m, n) \subseteq 1..n /\ Additions(m, n + 1) \subseteq 1..(n + 1)
  BY DEF Additions
<1>7. log[n + 1] = add => Additions(m, n + 1) = Additions(m, n) \cup {n + 1}
  BY <1>1, <1>2, <1>4, <1>5, <1>6
<1>8. log[n + 1] = remove => Additions(m, n + 1) = {}
  BY <1>1, <1>2, <1>4, <1>5, <1>6
<1>9. log[n + 1] # add /\ log[n + 1] # remove => Additions(m, n + 1) = Additions(m, n)
  BY <1>2, <1>4, <1>5, <1>6
<1>. QED BY <1>7, <1>8, <1>9 DEF add, remove

\* What the property says of the list after n events.
Follows(n) ==
    /\ machine_set_ = {m \in Machines : Additions(m, n) # {}}
    /\ \A i, j \in DOMAIN machine_list_ :
          i < j => AddedBefore(machine_list_[i], machine_list_[j], n)

\* An addition or removal, handled, is one event more that the members follow.
LEMMA OperationFollows ==
    ASSUME TypeOK, MembersAgree, NEW n \in Nat, Follows(n), UNCHANGED log,
           NEW m \in Machines,
           \/ log[n + 1] = [op |-> "add", machine |-> m] /\ AddMachine(m)
           \/ log[n + 1] = [op |-> "remove", machine |-> m] /\ RemoveMachine(m)
    PROVE  Follows(n + 1)'
<1>t. /\ machine_list_ \in Seq(Machines) /\ DOMAIN machine_list_ = 1..Len(machine_list_)
      /\ Len(machine_list_) \in Nat
      /\ \A i \in DOMAIN machine_list_ : machine_list_[i] \in machine_set_
      /\ machine_set_ \subseteq Machines
  BY DEF TypeOK, MembersAgree, ToSet
<1>p. \A a, b : Additions(a, n + 1)' = Additions(a, n + 1)
                /\ AddedBefore(a, b, n + 1)' = AddedBefore(a, b, n + 1)
  BY DEF Additions, AddedBefore
<1>o. \A a \in Machines \ {m} : Additions(a, n + 1) = Additions(a, n)
  <2>. SUFFICES ASSUME NEW a \in Machines \ {m} PROVE Additions(a, n + 1) = Additions(a, n)
    OBVIOUS
  <2>1. \A o1, o2 \in {"add", "remove"} :
            [op |-> o1, machine |-> m] # [op |-> o2, machine |-> a]
    BY DEF Operations
  <2>. QED BY <2>1, AdditionsStep
<1>b. \A a \in Machines : Additions(a, n) \subseteq 1..n
  BY DEF Additions
<1>1. ASSUME log[n + 1] = [op |-> "add", machine |-> m], AddMachine(m) PROVE Follows(n + 1)'
  <2>1. Additions(m, n + 1) = Additions(m, n) \cup {n + 1}
    BY <1>1, AdditionsStep
  <2>2. machine_set_' = {a \in Machines : Additions(a, n + 1) # {}}
    <3>1. machine_set_' = machine_set_ \cup {m}
      BY <1>1 DEF AddMachine, members
    <3>. QED BY <1>o, <2>1, <3>1 DEF Follows
  <2>3. ASSUME NEW a \in machine_set_, NEW b \in machine_set_, AddedBefore(a, b, n)
        PROVE  AddedBefore(a, b, n + 1)
    <3>1. PICK i \in Additions(a, n) : \A j \in Additions(b, n) : i < j
      BY <2>3 DEF AddedBefore
    <3>2. i \in 1..n /\ i < n + 1
      BY <1>b, <1>t, <3>1
    <3>3. i \in Additions(a, n + 1) /\ Additions(b, n + 1) \subseteq Additions(b, n) \cup {n + 1}
      BY <1>o, <1>t, <2>1, <3>1
    <3>. QED BY <3>1, <3>2, <3>3 DEF AddedBefore
  <2>4. ASSUME NEW a \in machine_set_, m \notin machine_set_ PROVE AddedBefore(a, m, n + 1)
    <3>1. Additions(m, n + 1) = {n + 1}
      BY <2>1, <2>4 DEF Follows
    <3>2. PICK i \in Additions(a, n) : TRUE
      BY DEF Follows
    <3>3. i \in Additions(a, n + 1) /\ i < n + 1
      BY <1>b, <1>o, <1>t, <2>4, <3>2
    <3>. QED BY <3>1, <3>3 DEF AddedBefore
  <2>5. ASSUME NEW i \in DOMAIN machine_list_', NEW j \in DOMAIN machine_list_', i < j
        PROVE  AddedBefore(machine_list_'[i], machine_list_'[j], n + 1)
    <3>1. CASE machine_list_' = machine_list_
      BY <1>t, <2>3, <2>5, <3>1 DEF Follows
    <3>2. CASE m \notin machine_set_ /\ machine_list_' = Append(machine_list_, m)
      <4>1. /\ DOMAIN machine_list_' = 1..(Len(machine_list_) + 1)
            /\ \A k \in 1..Len(machine_list_) : machine_list_'[k] = machine_list_[k]
            /\ machine_list_'[Len(machine_list_) + 1] = m
        BY <1>t, <3>2, AppendProperties
      <4>2. i \in 1..Len(machine_list_)
        BY <1>t, <2>5, <4>1
      <4>3. CASE j = Len(machine_list_) + 1
        BY <1>t, <2>4, <3>2, <4>1, <4>2, <4>3
      <4>4. CASE j # Len(machine_list_) + 1
        <5>1. j \in 1..Len(machine_list_)
          BY <1>t, <4>1, <4>4
        <5>. QED BY <1>t, <2>3, <2>5, <4>1, <4>2, <5>1 DEF Follows
      <4>. QED BY <4>3, <4>4
    <3>. QED BY <1>1, <3>1, <3>2 DEF AddMachine, members
  <2>. QED BY <1>p, <2>2, <2>5 DEF Follows
<1>2. ASSUME log[n + 1] = [op |-> "remove", machine |-> m], RemoveMachine(m)
      PROVE  Follows(n + 1)'
  <2>1. Additions(m, n + 1) = {}
    BY <1>2, AdditionsStep
  <2>2. machine_set_' = machine_set_ \ {m}
    BY <1>2 DEF RemoveMachine, members
  <2>3. machine_set_' = {a \in Machines : Additions(a, n + 1) # {}}
    BY <1>o, <2>1, <2>2 DEF Follows
  <2>4. ASSUME NEW a \in machine_set_ \ {m}, NEW b \in machine_set_ \ {m}, AddedBefore(a, b, n)
        PROVE  AddedBefore(a, b, n + 1)
    <3>1. Additions(a, n + 1) = Additions(a, n) /\ Additions(b, n + 1) = Additions(b, n)
      BY <1>o, <1>t
    <3>. QED BY <2>4, <3>1 DEF AddedBefore
  <2>5. /\ \A i \in DOMAIN machine_list_' : machine_list_'[i] \in machine_set_ \ {m}
        /\ InOrderOf(machine_list_', machine_list_)
    <3>1. CASE m \in machine_set_
      <4>1. m \in ToSet(machine_list_) /\ IsInjective(machine_list_)
            /\ machine_list_' = RemoveFirst(machine_list_, m)
        BY <1>2, <3>1 DEF MembersAgree, RemoveMachine
      <4>2. ToSet(machine_list_') = machine_set_ \ {m}
        BY <1>t, <4>1, RemoveOnce DEF MembersAgree
      <4>3. \A i \in DOMAIN machine_list_' : machine_list_'[i] \in machine_set_ \ {m}
        BY <4>2 DEF ToSet
      <4>4. machine_list_ \in Seq(Machines)
        BY <1>t
      <4>5. InOrderOf(machine_list_', machine_list_)
        BY <4>1, <4>4, RemoveOnce
      <4>. QED BY <4>3, <4>5
    <3>2. CASE m \notin machine_set_
      BY <1>2, <1>t, <3>2 DEF RemoveMachine, members, InOrderOf
    <3>. QED BY <3>1, <3>2
  <2>6. ASSUME NEW i \in DOMAIN machine_list_', NEW j \in DOMAIN machine_list_', i < j
        PROVE  AddedBefore(machine_list_'[i], machine_list_'[j], n + 1)
    <3>1. PICK k \in DOMAIN machine_list_, l \in DOMAIN machine_list_ :
              k < l /\ machine_list_'[i] = machine_list_[k] /\ machine_list_'[j] = machine_list_[l]
      BY <2>5, <2>6 DEF InOrderOf
    <3>2. AddedBefore(machine_list_[k], machine_list_[l], n)
      BY <3>1 DEF Follows
    <3>3. /\ machine_list_[k] \in machine_set_ \ {m}
          /\ machine_list_[l] \in machine_set_ \ {m}
      BY <2>5, <3>1
    <3>4. AddedBefore(machine_list_[k], machine_list_[l], n + 1)
      BY <2>4, <3>2, <3>3
    <3>. QED BY <3>1, <3>4
  <2>. QED BY <1>p, <2>3, <2>6 DEF Follows
<1>. QED BY <1>1, <1>2

\* An event of the application changes neither the members nor what they follow.
LEMMA UserEventFollows ==
    ASSUME TypeOK, NEW n \in Nat, Follows(n), UNCHANGED <<log, members>>,
           log[n + 1] \in UserEvents
    PROVE  Follows(n + 1)'
<1>1. \A m \in Machines : Additions(m, n + 1) = Additions(m, n)
  <2>1. \A m \in Machines :
            log[n + 1] \notin {[op |-> o, machine |-> m] : o \in {"add", "remove"}}
    BY MachineSetAssumption DEF Operations
  <2>. QED BY <2>1, AdditionsStep
<1>2. \A a, b : Additions(a, n + 1)' = Additions(a, n + 1)
                /\ AddedBefore(a, b, n + 1)' = AddedBefore(a, b, n + 1)
  BY DEF Additions, AddedBefore
<1>3. \A a, b \in Machines : AddedBefore(a, b, n + 1) = AddedBefore(a, b, n)
  BY <1>1 DEF AddedBefore
<1>4. \A i \in DOMAIN machine_list_ : machine_list_[i] \in Machines
  BY DEF TypeOK
<1>. QED BY <1>1, <1>2, <1>3, <1>4 DEF Follows, members

\* Nothing is handled, and the log only grows at its end.
LEMMA FollowsOn ==
    ASSUME NEW n \in Nat, Follows(n), UNCHANGED members, \A i \in 1..n : log'[i] = log[i]
    PROVE  Follows(n)'
<1>1. \A m : Additions(m, n)' = Additions(m, n)
  BY DEF Additions
<1>2. \A a, b : AddedBefore(a, b, n)' = AddedBefore(a, b, n)
  BY <1>1 DEF AddedBefore
<1>. QED BY <1>1, <1>2 DEF Follows, members

\* The events that have had their effect are all those taken, but the one at hand.
ProcessedIs ==
    /\ Taken \in Nat /\ Taken <= Len(log)
    /\ InHand => Processed = Taken - 1
    /\ ~InHand => Processed = Taken
    /\ Processed \in Nat

LEMMA CountIsInvariant == Spec => []ProcessedIs
<1>1. TypeOK /\ QueueIsRestOfLog => ProcessedIs
  BY DEF TypeOK, QueueIsRestOfLog, Processed, InHand, Taken, ProcessedIs, AtHand
<1>. QED BY <1>1, TypeCorrect, RestIsInvariant, PTL

LEMMA NothingProcessed == Init => Processed = 0 /\ ~InHand
<1>. SUFFICES ASSUME Init PROVE Processed = 0 /\ ~InHand
  OBVIOUS
<1>1. Len(log) = 0 /\ Len(event_fifo_) = 0
  BY DEF Init, Queue!QueueInit
<1>2. ~InHand
  BY DEF Init, InHand, AtHand
<1>3. (IF InHand THEN 1 ELSE 0) = 0
  BY <1>2, Zenon
<1>4. Processed = 0 - 0 - 0
  BY <1>1, <1>3, Zenon DEF Processed
<1>. QED BY <1>2, <1>4

LEMMA MembersFollowEvents == Spec => [](Follows(Processed))
<1>1. Init => Follows(Processed)
  <2>. SUFFICES ASSUME Init PROVE Follows(Processed)
    OBVIOUS
  <2>1. Processed = 0
    BY NothingProcessed
  <2>2. \A m : Additions(m, 0) = {}
    BY DEF Additions
  <2>3. machine_set_ = {} /\ DOMAIN machine_list_ = {}
    BY DEF Init
  <2>. QED BY <2>1, <2>2, <2>3 DEF Follows
<1>2. /\ TypeOK /\ MembersAgree /\ TurnInvariant /\ QueueIsRestOfLog /\ Follows(Processed)
      /\ ProcessedIs /\ ProcessedIs' /\ [Next]_vars
      => Follows(Processed)'
  <2>. SUFFICES ASSUME TypeOK, MembersAgree, TurnInvariant, QueueIsRestOfLog,
                       Follows(Processed), ProcessedIs, ProcessedIs', [Next]_vars
                PROVE  Follows(Processed)'
    OBVIOUS
  <2>n. PICK n \in Nat : n = Processed
    BY DEF ProcessedIs
  <2>p. /\ n <= Taken /\ Taken \in Nat /\ Taken <= Len(log)
        /\ InHand => n = Taken - 1
        /\ ~InHand => n = Taken
    BY <2>n DEF ProcessedIs
  <2>r. /\ Taken' \in Nat /\ Processed' \in Nat
        /\ InHand' => Processed' = Taken' - 1
        /\ ~InHand' => Processed' = Taken'
    BY DEF ProcessedIs
  <2>t. /\ pc \in [Threads -> Busy \cup {"off", "joining", "ended", "terminated"}]
        /\ log \in Seq(Events) /\ Len(log) \in Nat /\ Len(event_fifo_) \in Nat
    BY DEF TypeOK
  <2>a. ASSUME Processed' = n, UNCHANGED members, \A i \in 1..n : log'[i] = log[i]
        PROVE  Follows(Processed)'
    BY <2>n, <2>a, FollowsOn
  <2>. USE DEF queue, history
  <2>1. ASSUME NEW event \in Events, Enqueue(event) PROVE Follows(Processed)'
    <3>1. UNCHANGED members /\ event_fifo_' = Append(event_fifo_, event)
          /\ log' = Append(log, event) /\ pc' = pc
      BY <2>1 DEF Enqueue, Queue!Put
    <3>2. Taken' = Taken /\ \A i \in 1..n : log'[i] = log[i]
      <4>1. event_fifo_ \in Seq(Events)
        BY DEF TypeOK
      <4>2. Len(log') = Len(log) + 1 /\ Len(event_fifo_') = Len(event_fifo_) + 1
        BY <2>t, <3>1, <4>1, AppendProperties
      <4>. QED BY <2>p, <2>t, <3>1, <4>2, AppendProperties DEF Taken
    <3>. QED BY <2>a, <2>p, <2>r, <3>1, <3>2 DEF InHand
  <2>2. ASSUME NEW t \in Threads, Get(t) PROVE Follows(Processed)'
    <3>1. /\ UNCHANGED <<members, log>> /\ event_fifo_ # <<>> /\ event_fifo_' = Tail(event_fifo_)
          /\ pc[t] = "getting" /\ pc' = [pc EXCEPT ![t] = "handling"]
      BY <2>2 DEF Get, Goto, Queue!Take
    <3>2. ~InHand /\ InHand'
      BY <2>t, <3>1 DEF TurnInvariant, ThreadsTakeTurns, Threads, Busy, AtHand, InHand
    <3>3. Taken' = Taken + 1
      <4>1. event_fifo_ \in Seq(Events)
        BY DEF TypeOK
      <4>2. Len(event_fifo_') = Len(event_fifo_) - 1
        BY <3>1, <4>1, HeadTailProperties
      <4>. QED BY <2>t, <3>1, <4>2 DEF Taken
    <3>. QED BY <2>a, <2>p, <2>r, <3>1, <3>2, <3>3
  <2>e. ASSUME NEW t \in Threads, pc[t] \in AtHand,
               pc' \in {[pc EXCEPT ![t] = w] : w \in {"scanning", "top", "terminated", "off"}},
               UNCHANGED <<event_fifo_, log>>
        PROVE  n + 1 = Processed' /\ Event(t) = log[n + 1]
    <3>1. InHand /\ ~InHand'
      BY <2>e, <2>t DEF TurnInvariant, ThreadsTakeTurns, Threads, Busy, AtHand, InHand
    <3>2. Taken' = Taken
      BY <2>e DEF Taken
    <3>. QED BY <2>e, <2>p, <2>r, <3>1, <3>2 DEF QueueIsRestOfLog
  <2>3. ASSUME NEW t \in Threads, Operate(t) PROVE Follows(Processed)'
    <3>1. n + 1 = Processed' /\ Event(t) = log[n + 1] /\ log' = log
      BY <2>3, <2>e DEF Operate, AfterEvent, Goto, AtHand
    <3>2. PICK m \in Machines, o \in {"add", "remove"} : Event(t) = [op |-> o, machine |-> m]
      BY <2>3 DEF Operate, Operations
    <3>3. IF o = "add" THEN AddMachine(m) ELSE RemoveMachine(m)
      BY <2>3, <3>2 DEF Operate
    <3>4. Follows(n + 1)'
      BY <2>n, <3>1, <3>2, <3>3, OperationFollows
    <3>. QED BY <3>1, <3>4
  <2>4. ASSUME NEW t \in Threads, DeliveryEnds(t) \/ ErrorEnds(t) PROVE Follows(Processed)'
    <3>1. n + 1 = Processed' /\ Event(t) = log[n + 1] /\ UNCHANGED <<log, members>>
      BY <2>4, <2>e DEF DeliveryEnds, ErrorEnds, AfterEvent, Escape, Goto, AtHand
    <3>2. Event(t) \in UserEvents
      BY <2>4 DEF DeliveryEnds, ErrorEnds, QueueIsRestOfLog
    <3>3. Follows(n + 1)'
      BY <2>n, <3>1, <3>2, UserEventFollows
    <3>. QED BY <3>1, <3>3
  <2>. DEFINE Rest == UNCHANGED <<members, log, event_fifo_>> /\ InHand' = InHand
  <2>. USE DEF Goto, AtHand
  <2>5. ASSUME NEW m \in Machines, ClockPasses(m) PROVE Rest
    BY <2>5 DEF ClockPasses, InHand
  <2>6. ASSUME StartBackground \/ StopBackground \/ CallProcess \/ Join PROVE Rest
    BY <2>6, <2>t DEF StartBackground, StopBackground, CallProcess, Join, Threads, InHand,
                      TurnInvariant, ThreadsTakeTurns
  <2>7. ASSUME OwnerTop \/ BackgroundTop PROVE Rest
    BY <2>7, <2>t DEF OwnerTop, BackgroundTop, Queue!Ask, Threads, InHand
  <2>8. ASSUME GetNothing PROVE Rest
    BY <2>8, <2>t DEF GetNothing, Queue!GiveUp, Threads, InHand
  <2>9. ASSUME NEW t \in Threads, StartDelivery(t) \/ DeliveryThrows(t) PROVE Rest
    BY <2>9, <2>t DEF StartDelivery, DeliveryThrows, Threads, InHand
  <2>10. ASSUME NEW t \in Threads, Deliver(t) \/ Skip(t) \/ Visit(t) PROVE Rest
    BY <2>10 DEF Deliver, Skip, Visit, InHand
  <2>11. ASSUME NEW t \in Threads, VisitThrows(t) \/ ScanEnds(t) PROVE Rest
    BY <2>11, <2>t DEF VisitThrows, ScanEnds, Escape, Threads, InHand
  <2>12. CASE UNCHANGED vars
    <3>1. Rest
      BY <2>12 DEF vars, InHand
    <3>. QED BY <2>a, <2>p, <2>r, <3>1 DEF Taken
  <2>13. Rest => Follows(Processed)'
    BY <2>a, <2>p, <2>r DEF Taken
  <2>. HIDE DEF Rest
  <2>. QED BY <2>1, <2>2, <2>3, <2>4, <2>5, <2>6, <2>7, <2>8, <2>9, <2>10, <2>11, <2>12, <2>13
           DEF Next, Environment, OwnerCalls, OwnerGoesOn, Background, Handling, Threads
<1>. QED BY <1>1, <1>2, TypesAreInvariant, TurnsAreInvariant, RestIsInvariant, CountIsInvariant,
          PTL DEF Spec

\* At every moment the members are those that the additions and removals
\* handled so far leave, once each and in the order of their additions, whoever
\* enqueued them and whichever thread handled them (machine_set.cc:38-67, 153).
THEOREM MembersAreThoseOfTheLog == Spec => []MembersFollowTheLog
<1>1. MembersAgree /\ Follows(Processed) => MembersFollowTheLog
  BY DEF MembersAgree, Follows, MembersFollowTheLog
<1>. QED BY <1>1, TypesAreInvariant, MembersFollowEvents, PTL

-----------------------------------------------------------------------------
(* The machines that an event goes to                                      *)

LEMMA NoneAmong == ASSUME NEW S, NEW ms PROVE AreThoseAmong(<<>>, S, ms, 0)
<1>1. DOMAIN <<>> = {} /\ 1..0 = {}
  OBVIOUS
<1>2. <<>> \in [{} -> {}]
  OBVIOUS
<1>. QED BY <1>1, <1>2 DEF AreThoseAmong

\* An interval that grows by one, and a function on it that grows with it.
LEMMA OneLonger ==
    ASSUME NEW n \in Nat
    PROVE  1..(n + 1) = (1..n) \cup {n + 1}
OBVIOUS

LEMMA ExtendedBy ==
    ASSUME NEW l \in Nat, NEW f, NEW x
    PROVE  LET g == [i \in 1..(l + 1) |-> IF i <= l THEN f[i] ELSE x]
           IN  /\ DOMAIN g = 1..(l + 1)
               /\ \A i \in 1..l : g[i] = f[i]
               /\ g[l + 1] = x
OBVIOUS

\* One more of those addressed is given the event, if it is a member.
LEMMA OneMoreAmong ==
    ASSUME NEW M, NEW S, NEW gs \in Seq(M), NEW ms \in Seq(M), NEW n \in Nat,
           n < Len(ms), AreThoseAmong(gs, S, ms, n)
    PROVE  AreThoseAmong(IF ms[n + 1] \in S THEN Append(gs, ms[n + 1]) ELSE gs,
                         S, ms, n + 1)
<1>1. PICK place \in [DOMAIN gs -> 1..n] :
          /\ \A i, j \in DOMAIN gs : i < j => place[i] < place[j]
          /\ \A i \in DOMAIN gs : gs[i] = ms[place[i]]
          /\ {place[i] : i \in DOMAIN gs} = {p \in 1..n : ms[p] \in S}
  BY DEF AreThoseAmong
<1>2. DOMAIN gs = 1..Len(gs) /\ Len(gs) \in Nat /\ 1..(n + 1) = (1..n) \cup {n + 1}
  BY OneLonger
<1>3. CASE ms[n + 1] \notin S
  <2>1. place \in [DOMAIN gs -> 1..(n + 1)]
    BY <1>2
  <2>2. {p \in 1..(n + 1) : ms[p] \in S} = {p \in 1..n : ms[p] \in S}
    BY <1>2, <1>3
  <2>3. {place[i] : i \in DOMAIN gs} = {p \in 1..(n + 1) : ms[p] \in S}
    BY <1>1, <2>2
  <2>4. AreThoseAmong(gs, S, ms, n + 1)
    BY <1>1, <2>1, <2>3 DEF AreThoseAmong
  <2>. QED BY <1>3, <2>4
<1>4. CASE ms[n + 1] \in S
  <2>. DEFINE hs == Append(gs, ms[n + 1])
              where == [i \in 1..(Len(gs) + 1) |-> IF i <= Len(gs) THEN place[i] ELSE n + 1]
  <2>1. /\ DOMAIN hs = 1..(Len(gs) + 1)
        /\ \A i \in 1..Len(gs) : hs[i] = gs[i]
        /\ hs[Len(gs) + 1] = ms[n + 1]
    BY <1>2
  <2>. HIDE DEF hs
  <2>2. /\ \A i \in 1..Len(gs) : where[i] = place[i] /\ where[i] \in 1..n
        /\ where[Len(gs) + 1] = n + 1
        /\ DOMAIN where = 1..(Len(gs) + 1)
        /\ 1..(Len(gs) + 1) = (1..Len(gs)) \cup {Len(gs) + 1}
    <3>1. 1..(Len(gs) + 1) = (1..Len(gs)) \cup {Len(gs) + 1}
      BY <1>2, OneLonger
    <3>2. /\ DOMAIN where = 1..(Len(gs) + 1) /\ where[Len(gs) + 1] = n + 1
          /\ \A i \in 1..Len(gs) : where[i] = place[i]
      BY <1>2, ExtendedBy
    <3>. HIDE DEF where
    <3>3. \A i \in 1..Len(gs) : place[i] \in 1..n
      BY <1>2
    <3>. QED BY <3>1, <3>2, <3>3
  <2>3. where \in [DOMAIN hs -> 1..(n + 1)]
    BY <1>2, <2>1, <2>2
  <2>. HIDE DEF where
  <2>4. \A i, j \in DOMAIN hs : i < j => where[i] < where[j]
    <3>. SUFFICES ASSUME NEW i \in DOMAIN hs, NEW j \in DOMAIN hs, i < j
                  PROVE  where[i] < where[j]
      OBVIOUS
    <3>1. i \in 1..Len(gs)
      BY <1>2, <2>1
    <3>2. CASE j = Len(gs) + 1
      BY <1>2, <2>2, <3>1, <3>2
    <3>3. CASE j \in 1..Len(gs)
      BY <1>1, <1>2, <2>2, <3>1, <3>3
    <3>. QED BY <2>1, <2>2, <3>2, <3>3
  <2>5. \A i \in DOMAIN hs : hs[i] = ms[where[i]]
    BY <1>1, <1>2, <2>1, <2>2
  <2>6. {where[i] : i \in DOMAIN hs} = {p \in 1..(n + 1) : ms[p] \in S}
    <3>1. {where[i] : i \in DOMAIN hs} = {place[i] : i \in DOMAIN gs} \cup {n + 1}
      BY <1>2, <2>1, <2>2
    <3>2. {p \in 1..(n + 1) : ms[p] \in S} = {p \in 1..n : ms[p] \in S} \cup {n + 1}
      BY <1>2, <1>4
    <3>. QED BY <1>1, <3>1, <3>2
  <2>7. AreThoseAmong(hs, S, ms, n + 1)
    BY <2>3, <2>4, <2>5, <2>6 DEF AreThoseAmong
  <2>. QED BY <1>4, <2>7 DEF hs
<1>. QED BY <1>3, <1>4

\* What the machines of the event at hand have had so far, and that none has had
\* anything while no event is under way to them.
Delivering == {"delivering", "catching"}

DeliveryInvariant ==
    /\ \A t \in Threads : pc[t] = "delivering" => IsDeliveredInPart(Event(t))
    /\ (\A t \in Threads : pc[t] \notin Delivering) => given = <<>>

LEMMA AddressedType ==
    ASSUME TypeOK, NEW event \in UserEvents
    PROVE  Addressed(event) \in Seq(Machines)
<1>1. Targets[event] \in Seq(Machines)
  BY MachineSetAssumption
<1>2. Reverse(machine_list_) \in Seq(Machines)
  BY DEF TypeOK, Reverse
<1>. QED BY <1>1, <1>2 DEF Addressed

LEMMA DeliveriesAreInvariant == Spec => []DeliveryInvariant
<1>1. Init => DeliveryInvariant
  BY DEF Init, DeliveryInvariant
<1>2. /\ TypeOK /\ TurnInvariant /\ QueueIsRestOfLog /\ DeliveryInvariant /\ [Next]_vars
      => DeliveryInvariant'
  <2>. SUFFICES ASSUME TypeOK, TurnInvariant, QueueIsRestOfLog, DeliveryInvariant, [Next]_vars
                PROVE  DeliveryInvariant'
    OBVIOUS
  <2>t. /\ pc \in [Threads -> Busy \cup {"off", "joining", "ended", "terminated"}]
        /\ todo \in Seq(Machines) /\ given \in Seq(Machines)
    BY DEF TypeOK
  <2>a. ASSUME NEW t \in Threads, pc[t] \in Busy
        PROVE  \A u \in Threads \ {t} : pc[u] \notin Busy
    BY <2>a DEF TurnInvariant, ThreadsTakeTurns, Threads, Busy, AtHand
  <2>. USE DEF Goto
  <2>1. ASSUME NEW t \in Threads, StartDelivery(t) PROVE DeliveryInvariant'
    <3>. DEFINE ms == Addressed(Event(t))
    <3>1. /\ pc[t] = "handling" /\ pc' = [pc EXCEPT ![t] = "delivering"]
          /\ Event(t) \in UserEvents /\ Event(t)' = Event(t)
          /\ todo' = ToVisit(Event(t)) /\ UNCHANGED <<members, given>>
      BY <2>1 DEF StartDelivery, queue, history, Event
    <3>2. todo' = ms
      BY <3>1 DEF ToVisit, Addressed
    <3>3. /\ given = <<>>
          /\ \A u \in Threads \ {t} : pc'[u] = pc[u] /\ pc[u] \notin Delivering
      BY <2>a, <2>t, <3>1 DEF DeliveryInvariant, Delivering, Busy, AtHand
    <3>4. ms \in Seq(Machines)
      BY <3>1, AddressedType
    <3>5. ms' = ms
      BY <3>1 DEF Addressed, members
    <3>. HIDE DEF ms
    <3>6. Len(ms) - Len(todo') = 0 /\ \A i \in 1..Len(todo') : todo'[i] = ms[0 + i]
      <4>1. Len(ms) \in Nat /\ \A i \in 1..Len(ms) : 0 + i = i
        BY <3>4
      <4>2. Len(ms) - Len(ms) = 0
        BY <4>1
      <4>. QED BY <3>2, <4>1, <4>2
    <3>7. AreThoseAmong(given', machine_set_', ms, 0)
      BY <3>1, <3>3, NoneAmong
    <3>8. IsDeliveredInPart(Event(t))'
      <4>1. 0 \in Nat
        OBVIOUS
      <4>. USE DEF ms
      <4>. QED BY <3>5, <3>6, <3>7, <4>1, Zenon DEF IsDeliveredInPart
    <3>9. pc'[t] = "delivering" /\ \A u \in Threads \ {t} : pc'[u] \notin Delivering
      BY <2>t, <3>1, <3>3
    <3>. QED BY <3>8, <3>9 DEF DeliveryInvariant, Delivering
  <2>2. ASSUME NEW t \in Threads, Deliver(t) \/ Skip(t) PROVE DeliveryInvariant'
    <3>. DEFINE ms == Addressed(Event(t))
                n == Len(ms) - Len(todo)
    <3>1. /\ pc[t] = "delivering" /\ pc' = pc /\ todo # <<>> /\ todo' = Tail(todo)
          /\ Event(t)' = Event(t) /\ UNCHANGED members
      BY <2>2 DEF Deliver, Skip, queue, history, Event
    <3>2. given' = IF Head(todo) \in machine_set_ THEN Append(given, Head(todo)) ELSE given
      BY <2>2 DEF Deliver, Skip, history
    <3>3. ms \in Seq(Machines) /\ ms' = ms
      BY <3>1, AddressedType DEF QueueIsRestOfLog, Addressed, members
    <3>4. /\ n \in Nat /\ AreThoseAmong(given, machine_set_, ms, n)
          /\ \A i \in 1..Len(todo) : todo[i] = ms[n + i]
      BY <3>1 DEF DeliveryInvariant, IsDeliveredInPart
    <3>. HIDE DEF ms
    <3>5. /\ Len(todo) > 0 /\ Head(todo) = todo[1] /\ Len(todo') = Len(todo) - 1
          /\ \A i \in 1..Len(todo') : todo'[i] = todo[i + 1]
      BY <2>t, <3>1, HeadTailProperties
    <3>6. n < Len(ms) /\ Len(ms) - Len(todo') = n + 1 /\ Len(ms) \in Nat /\ Len(todo) \in Nat
      BY <2>t, <3>3, <3>5
    <3>. HIDE DEF n
    <3>7. Head(todo) = ms[n + 1]
      BY <3>4, <3>5, <3>6
    <3>8. AreThoseAmong(given', machine_set_', ms, n + 1)
      BY <2>t, <3>1, <3>2, <3>3, <3>4, <3>6, <3>7, OneMoreAmong DEF members
    <3>9. \A i \in 1..Len(todo') : todo'[i] = ms[n + 1 + i]
      <4>. SUFFICES ASSUME NEW i \in 1..Len(todo') PROVE todo'[i] = ms[n + 1 + i]
        OBVIOUS
      <4>1. i + 1 \in 1..Len(todo) /\ n + (i + 1) = n + 1 + i
        BY <3>4, <3>5, <3>6
      <4>. QED BY <3>4, <3>5, <4>1
    <3>10. IsDeliveredInPart(Event(t))'
      <4>1. n + 1 \in Nat
        BY <3>4
      <4>. USE DEF ms
      <4>. QED BY <3>3, <3>6, <3>8, <3>9, <4>1, Zenon DEF IsDeliveredInPart
    <3>11. \A u \in Threads \ {t} : pc[u] # "delivering"
      BY <2>a, <3>1 DEF Busy, AtHand
    <3>. QED BY <3>1, <3>10, <3>11 DEF DeliveryInvariant, Delivering
  <2>3. ASSUME NEW t \in Threads, Operate(t) \/ DeliveryEnds(t) \/ ErrorEnds(t)
        PROVE  DeliveryInvariant'
    <3>1. /\ pc[t] \in AtHand /\ given' = <<>>
          /\ pc' \in {[pc EXCEPT ![t] = w] : w \in {"scanning", "top", "terminated", "off"}}
      BY <2>3 DEF Operate, DeliveryEnds, ErrorEnds, AfterEvent, Escape, AtHand
    <3>2. \A u \in Threads : pc'[u] # "delivering"
      BY <2>a, <2>t, <3>1 DEF Busy, AtHand
    <3>. QED BY <3>1, <3>2 DEF DeliveryInvariant
  <2>4. ASSUME NEW t \in Threads, DeliveryThrows(t) PROVE DeliveryInvariant'
    <3>1. pc[t] = "delivering" /\ pc' = [pc EXCEPT ![t] = "catching"]
      BY <2>4 DEF DeliveryThrows
    <3>2. pc'[t] = "catching" /\ \A u \in Threads : pc'[u] # "delivering"
      BY <2>a, <2>t, <3>1 DEF Busy, AtHand
    <3>. QED BY <3>2 DEF DeliveryInvariant, Delivering
  <2>. DEFINE Rest == /\ given' = given
                      /\ \A t \in Threads : pc[t] \in Delivering => pc'[t] = pc[t]
                      /\ \A t \in Threads : pc'[t] = "delivering" =>
                            /\ pc[t] = "delivering" /\ result'[t] = result[t]
                            /\ UNCHANGED <<todo, members>>
  <2>5. ASSUME Rest PROVE DeliveryInvariant'
    <3>1. ASSUME NEW t \in Threads, pc'[t] = "delivering" PROVE IsDeliveredInPart(Event(t))'
      <4>1. IsDeliveredInPart(Event(t)) /\ UNCHANGED <<given, todo, members, Event(t)>>
        BY <2>5, <3>1 DEF DeliveryInvariant, Event
      <4>2. Addressed(Event(t))' = Addressed(Event(t))
        BY <4>1 DEF Addressed, members
      <4>. QED BY <4>1, <4>2, Zenon DEF IsDeliveredInPart, members
    <3>2. ASSUME \A t \in Threads : pc'[t] \notin Delivering PROVE given' = <<>>
      BY <2>5, <3>2 DEF DeliveryInvariant
    <3>. QED BY <3>1, <3>2 DEF DeliveryInvariant
  <2>. USE DEF queue, history, Delivering
  <2>6. ASSUME NEW event \in Events, Enqueue(event) PROVE Rest
    BY <2>6 DEF Enqueue, Queue!Put
  <2>7. ASSUME NEW m \in Machines, ClockPasses(m) PROVE Rest
    BY <2>7 DEF ClockPasses
  <2>8. ASSUME StartBackground \/ StopBackground \/ CallProcess \/ Join PROVE Rest
    BY <2>8, <2>t DEF StartBackground, StopBackground, CallProcess, Join, Threads,
                      TurnInvariant, ThreadsTakeTurns
  <2>9. ASSUME OwnerTop \/ BackgroundTop \/ GetNothing PROVE Rest
    <3>1. \E t \in Threads : pc[t] \in {"top", "getting"} /\ \A u \in Threads \ {t} : pc'[u] = pc[u]
      BY <2>9, <2>t DEF OwnerTop, BackgroundTop, GetNothing, Threads
    <3>2. \A t \in Threads : pc[t] \notin Delivering /\ pc'[t] \notin Delivering
      BY <2>9, <2>a, <2>t, <3>1
         DEF OwnerTop, BackgroundTop, GetNothing, Threads, Busy, AtHand
    <3>. QED BY <2>9, <3>2 DEF OwnerTop, BackgroundTop, GetNothing
  <2>10. ASSUME NEW t \in Threads, Get(t) \/ Visit(t) \/ VisitThrows(t) \/ ScanEnds(t) PROVE Rest
    <3>1. pc[t] \in {"getting", "scanning"} /\ \A u \in Threads \ {t} : pc'[u] = pc[u]
      BY <2>10, <2>t DEF Get, Visit, VisitThrows, ScanEnds, Escape, Threads
    <3>2. \A u \in Threads : pc[u] \notin Delivering /\ pc'[u] \notin Delivering
      BY <2>10, <2>a, <2>t, <3>1
         DEF Get, Visit, VisitThrows, ScanEnds, Escape, Threads, Busy, AtHand
    <3>3. given' = given
      <4>1. given = <<>>
        BY <3>2 DEF DeliveryInvariant
      <4>. QED BY <2>10, <4>1 DEF Get, Visit, VisitThrows, ScanEnds, Escape
    <3>. QED BY <3>2, <3>3
  <2>11. ASSUME UNCHANGED vars PROVE Rest
    BY <2>11 DEF vars
  <2>. HIDE DEF Rest
  <2>. QED BY <2>1, <2>2, <2>3, <2>4, <2>5, <2>6, <2>7, <2>8, <2>9, <2>10, <2>11
           DEF Next, Environment, OwnerCalls, OwnerGoesOn, Background, Handling, Threads
<1>. QED BY <1>1, <1>2, TypeCorrect, TurnsAreInvariant, RestIsInvariant, PTL DEF Spec

\* Each event goes to the machines that it is for and that are members after
\* the events before it, in their order, on whichever thread it is handled and
\* whatever is added, removed or enqueued meanwhile (machine_set.cc:118-145).
THEOREM DeliveriesAreThoseOfTheLog == Spec => []DeliveriesFollowTheLog
<1>1. QueueIsRestOfLog /\ ProcessedIs /\ DeliveryInvariant => DeliveriesFollowTheLog
  <2>. SUFFICES ASSUME QueueIsRestOfLog, ProcessedIs, DeliveryInvariant,
                       NEW t \in Threads, pc[t] = "delivering"
                PROVE  Event(t) = log[Processed + 1] /\ IsDeliveredInPart(Event(t))
    BY DEF DeliveriesFollowTheLog
  <2>1. InHand /\ Event(t) = log[Taken]
    BY DEF InHand, AtHand, QueueIsRestOfLog
  <2>2. Processed + 1 = Taken
    BY <2>1 DEF ProcessedIs
  <2>. QED BY <2>1, <2>2 DEF DeliveryInvariant
<1>. QED BY <1>1, RestIsInvariant, CountIsInvariant, DeliveriesAreInvariant, PTL

-----------------------------------------------------------------------------
(* The abstract set                                                        *)

\* Seen from outside, events are processed one at a time, in the order in which
\* they were enqueued: each changes the members at a stroke, or reaches every
\* member that it is for, unless one of them throws, on whichever thread and
\* whatever else happens meanwhile.
THEOREM SetIsImplemented == Spec => ImplementsSet
<1>1. Init => Set!SetInit
  <2>. SUFFICES ASSUME Init PROVE Set!SetInit
    OBVIOUS
  <2>1. 1..Processed = {} /\ Current = 0
    BY NothingProcessed DEF Current
  <2>2. log = <<>> /\ machine_set_ = {} /\ ToSet(given) = {} /\ Failing = FALSE
    BY DEF Init, ToSet, Failing
  <2>. QED BY <2>1, <2>2 DEF Set!SetInit
<1>2. /\ TypeOK /\ TypeOK' /\ MembersAgree /\ TurnInvariant /\ TurnInvariant'
      /\ QueueIsRestOfLog /\ ProcessedIs /\ ProcessedIs' /\ DeliveryInvariant
      /\ [Next]_vars
      => [Set!SetNext]_(Set!setVars)
  <2>. SUFFICES ASSUME TypeOK, TypeOK', MembersAgree, TurnInvariant, TurnInvariant',
                       QueueIsRestOfLog, ProcessedIs, ProcessedIs', DeliveryInvariant,
                       [Next]_vars
                PROVE  Set!SetNext \/ UNCHANGED Set!setVars
    OBVIOUS
  <2>t. /\ pc \in [Threads -> Busy \cup {"off", "joining", "ended", "terminated"}]
        /\ todo \in Seq(Machines) /\ given \in Seq(Machines)
        /\ event_fifo_ \in Seq(Events) /\ log \in Seq(Events)
        /\ Len(event_fifo_) \in Nat /\ Len(log) \in Nat /\ DOMAIN log = 1..Len(log)
        /\ Processed \in Nat /\ Processed' \in Nat
    BY DEF TypeOK, ProcessedIs
  <2>a. ASSUME NEW t \in Threads, pc[t] \in Busy
        PROVE  \A u \in Threads \ {t} : pc[u] \notin Busy
    BY <2>a DEF TurnInvariant, ThreadsTakeTurns, Threads, Busy, AtHand
  <2>h. ASSUME NEW t \in Threads, pc[t] \in AtHand
        PROVE  /\ InHand /\ Current = Processed + 1 /\ Current # 0
               /\ Event(t) = log[Current]
               /\ Failing <=> pc[t] = "catching"
    <3>1. InHand
      BY <2>h DEF InHand
    <3>2. Current = Processed + 1 /\ Current # 0
      BY <2>t, <3>1 DEF Current
    <3>3. Event(t) = log[Current]
      BY <2>h, <3>1, <3>2 DEF QueueIsRestOfLog, ProcessedIs
    <3>4. Failing <=> pc[t] = "catching"
      BY <2>a, <2>h DEF Failing, Busy, AtHand
    <3>. QED BY <3>1, <3>2, <3>3, <3>4
  <2>u. ASSUME NEW t \in Threads, pc[t] \in AtHand \ {"handling"}
        PROVE  Set!IsForMachines /\ Set!Audience = {m \in machine_set_ : m \in ToSet(Addressed(Event(t)))}
    <3>1. log[Current] = Event(t) /\ Event(t) \in UserEvents /\ Current # 0
      BY <2>h, <2>u DEF QueueIsRestOfLog, AtHand
    <3>2. CASE Targets[Event(t)] = <<>>
      <4>1. ToSet(Reverse(machine_list_)) = machine_set_
        BY ToSetReverse DEF TypeOK, MembersAgree
      <4>. QED BY <3>1, <3>2, <4>1 DEF Set!IsForMachines, Set!Audience, Addressed
    <3>3. CASE Targets[Event(t)] # <<>>
      <4>1. Addressed(Event(t)) = Targets[Event(t)]
        BY <3>3 DEF Addressed
      <4>. QED BY <3>1, <3>3, <4>1 DEF Set!IsForMachines, Set!Audience, ToSet
    <3>. QED BY <3>2, <3>3
  <2>v. ASSUME NEW t \in Threads, pc[t] = "delivering", todo # <<>>
        PROVE  Head(todo) \in Machines /\ Head(todo) \in ToSet(Addressed(Event(t)))
    <3>. DEFINE ms == Addressed(Event(t))
                n == Len(ms) - Len(todo)
    <3>1. ms \in Seq(Machines)
      BY <2>v, AddressedType DEF QueueIsRestOfLog
    <3>2. n \in Nat /\ \A i \in 1..Len(todo) : todo[i] = ms[n + i]
      BY <2>v DEF DeliveryInvariant, IsDeliveredInPart
    <3>. HIDE DEF ms
    <3>3. Len(todo) > 0 /\ Len(todo) \in Nat /\ Head(todo) = todo[1] /\ Head(todo) \in Machines
      BY <2>t, <2>v, HeadTailProperties
    <3>4. n + 1 \in DOMAIN ms
      BY <3>1, <3>2, <3>3
    <3>. QED BY <3>2, <3>3, <3>4 DEF ToSet, ms
  <2>w. ASSUME NEW t \in Threads, pc[t] = "delivering", todo = <<>>
        PROVE  {m \in machine_set_ : m \in ToSet(Addressed(Event(t)))} \subseteq ToSet(given)
    <3>. DEFINE ms == Addressed(Event(t))
    <3>1. ms \in Seq(Machines)
      BY <2>w, AddressedType DEF QueueIsRestOfLog
    <3>2. AreThoseAmong(given, machine_set_, ms, Len(ms) - Len(todo))
      BY <2>w DEF DeliveryInvariant, IsDeliveredInPart
    <3>. HIDE DEF ms
    <3>3. Len(ms) - Len(todo) = Len(ms) /\ DOMAIN ms = 1..Len(ms)
      BY <2>w, <3>1
    <3>4. PICK place \in [DOMAIN given -> 1..Len(ms)] :
              /\ \A i \in DOMAIN given : given[i] = ms[place[i]]
              /\ {place[i] : i \in DOMAIN given} = {p \in 1..Len(ms) : ms[p] \in machine_set_}
      BY <3>2, <3>3 DEF AreThoseAmong
    <3>5. \A p \in 1..Len(ms) : ms[p] \in machine_set_ => \E i \in DOMAIN given : given[i] = ms[p]
      BY <3>4
    <3>. QED BY <3>3, <3>5 DEF ToSet, ms
  <2>. USE DEF Goto
  <2>1. ASSUME NEW event \in Events, Enqueue(event) PROVE Set!Submit(event)
    <3>1. /\ event_fifo_' = Append(event_fifo_, event) /\ log' = Append(log, event)
          /\ UNCHANGED <<machine_set_, given, pc>>
      BY <2>1 DEF Enqueue, Queue!Put, members
    <3>2. InHand' = InHand /\ Failing' = Failing
      BY <3>1 DEF InHand, Failing
    <3>3. Taken' = Taken
      BY <2>t, <3>1 DEF Taken
    <3>4. Processed' = Processed /\ Current' = Current
      BY <3>2, <3>3 DEF ProcessedIs, Current
    <3>. QED BY <3>1, <3>2, <3>4 DEF Set!Submit
  <2>2. ASSUME NEW t \in Threads, Get(t) PROVE Set!Begin(Processed + 1)
    <3>1. /\ pc[t] = "getting" /\ pc' = [pc EXCEPT ![t] = "handling"]
          /\ event_fifo_ # <<>> /\ event_fifo_' = Tail(event_fifo_)
          /\ UNCHANGED <<machine_set_, given, log>>
      BY <2>2 DEF Get, Queue!Take, members
    <3>2. /\ ~InHand /\ ~Failing /\ InHand' /\ ~Failing'
      BY <2>a, <2>t, <3>1 DEF InHand, Failing, Busy, AtHand
    <3>3. Len(event_fifo_') = Len(event_fifo_) - 1 /\ Len(event_fifo_) > 0
      BY <2>t, <3>1, HeadTailProperties
    <3>4. Taken' = Taken + 1 /\ Taken < Len(log)
      BY <2>t, <3>1, <3>3 DEF Taken
    <3>5. /\ Processed' = Processed /\ Processed + 1 \in 1..Len(log)
          /\ Current = 0 /\ Current' = Processed + 1
      BY <2>t, <3>2, <3>4 DEF ProcessedIs, Current
    <3>6. Processed + 1 \notin 1..Processed /\ 1..(Processed + 1 - 1) \subseteq 1..Processed
      BY <2>t
    <3>7. Failing' = Failing
      BY <3>2 DEF Failing
    <3>. QED BY <2>t, <3>1, <3>5, <3>6, <3>7 DEF Set!Begin
  <2>e. ASSUME NEW t \in Threads, pc[t] \in AtHand, given' = <<>>, UNCHANGED <<event_fifo_, log>>,
               pc' \in {[pc EXCEPT ![t] = w] : w \in {"scanning", "top", "terminated", "off"}}
        PROVE  Set!End
    <3>1. InHand /\ ~InHand' /\ Failing' = FALSE
      BY <2>a, <2>e, <2>t DEF InHand, Failing, Busy, AtHand
    <3>2. Taken' = Taken
      BY <2>e DEF Taken
    <3>3. Processed' = Processed + 1 /\ Current = Processed + 1 /\ Current' = 0
      BY <2>t, <3>1, <3>2 DEF ProcessedIs, Current
    <3>4. 1..(Processed + 1) = (1..Processed) \cup {Processed + 1}
      BY <2>t
    <3>5. ToSet(given') = {}
      BY <2>e DEF ToSet
    <3>. QED BY <2>e, <3>1, <3>3, <3>4, <3>5 DEF Set!End
  <2>3. ASSUME NEW t \in Threads, Operate(t) PROVE \E m \in Machines : Set!Change(m)
    <3>1. /\ pc[t] \in AtHand /\ given' = <<>> /\ UNCHANGED <<event_fifo_, log>>
          /\ pc' \in {[pc EXCEPT ![t] = w] : w \in {"scanning", "top", "terminated", "off"}}
      BY <2>3 DEF Operate, AfterEvent, AtHand, queue
    <3>2. PICK m \in Machines, o \in {"add", "remove"} : Event(t) = [op |-> o, machine |-> m]
      BY <2>3 DEF Operate, Operations
    <3>3. machine_set_' = IF o = "add" THEN machine_set_ \cup {m} ELSE machine_set_ \ {m}
      BY <2>3, <3>2 DEF Operate, AddMachine, RemoveMachine, members
    <3>4. Current # 0 /\ log[Current] = [op |-> o, machine |-> m]
      BY <2>h, <3>1, <3>2
    <3>. QED BY <2>e, <3>1, <3>3, <3>4 DEF Set!Change
  <2>k. ASSUME UNCHANGED <<event_fifo_, log, machine_set_>>, InHand' = InHand
        PROVE  UNCHANGED <<Processed, Current, log, machine_set_>>
    BY <2>k DEF ProcessedIs, Taken, Current
  <2>4. ASSUME NEW t \in Threads, Deliver(t) PROVE Set!Reach(Head(todo))
    <3>1. /\ pc[t] = "delivering" /\ pc' = pc /\ todo # <<>> /\ Head(todo) \in machine_set_
          /\ given' = Append(given, Head(todo)) /\ UNCHANGED <<event_fifo_, log, machine_set_>>
      BY <2>4 DEF Deliver, queue, members
    <3>2. InHand' = InHand /\ Failing' = Failing /\ Failing = FALSE
      BY <2>h, <3>1 DEF InHand, Failing, AtHand
    <3>3. Head(todo) \in Machines /\ Head(todo) \in ToSet(Addressed(Event(t)))
      BY <2>v, <3>1
    <3>4. ToSet(given') = ToSet(given) \cup {Head(todo)}
      BY <2>t, <3>1, <3>3, AppendOnce
    <3>5. Set!IsForMachines /\ Head(todo) \in Set!Audience
      BY <2>u, <3>1, <3>3 DEF AtHand
    <3>. QED BY <2>k, <3>1, <3>2, <3>4, <3>5 DEF Set!Reach
  <2>5. ASSUME NEW t \in Threads, DeliveryThrows(t) PROVE Set!Fail
    <3>1. /\ pc[t] = "delivering" /\ pc' = [pc EXCEPT ![t] = "catching"] /\ todo # <<>>
          /\ Head(todo) \in machine_set_ /\ UNCHANGED <<event_fifo_, log, machine_set_, given>>
      BY <2>5 DEF DeliveryThrows, queue, members, history
    <3>2. InHand' = InHand /\ Failing = FALSE /\ Failing' = TRUE
      BY <2>h, <2>t, <3>1 DEF InHand, Failing, AtHand
    <3>3. Head(todo) \in ToSet(Addressed(Event(t)))
      BY <2>v, <3>1
    <3>4. Set!IsForMachines /\ Set!Audience # {}
      BY <2>u, <3>1, <3>3 DEF AtHand
    <3>. QED BY <2>k, <3>1, <3>2, <3>4 DEF Set!Fail
  <2>6. ASSUME NEW t \in Threads, DeliveryEnds(t) \/ ErrorEnds(t) PROVE Set!Complete
    <3>1. /\ pc[t] \in AtHand \ {"handling"} /\ given' = <<>>
          /\ UNCHANGED <<event_fifo_, log, machine_set_>>
          /\ pc' \in {[pc EXCEPT ![t] = w] : w \in {"scanning", "top", "terminated", "off"}}
      BY <2>6 DEF DeliveryEnds, ErrorEnds, AfterEvent, Escape, AtHand, queue, members
    <3>2. Failing \/ Set!Audience \subseteq ToSet(given)
      <4>1. CASE DeliveryEnds(t)
        BY <2>u, <2>w, <3>1, <4>1 DEF DeliveryEnds
      <4>2. CASE ErrorEnds(t)
        BY <2>h, <3>1, <4>2 DEF ErrorEnds
      <4>. QED BY <2>6, <4>1, <4>2
    <3>3. Set!IsForMachines /\ Set!End
      BY <2>e, <2>u, <3>1
    <3>. QED BY <3>1, <3>2, <3>3 DEF Set!Complete
  <2>. DEFINE Rest == /\ UNCHANGED <<event_fifo_, log, machine_set_, given>>
                      /\ InHand' = InHand /\ Failing' = Failing
  <2>. USE DEF queue, members, history
  <2>7. ASSUME NEW m \in Machines, ClockPasses(m) PROVE Rest
    BY <2>7 DEF ClockPasses, InHand, Failing
  <2>8. ASSUME StartBackground \/ StopBackground \/ CallProcess \/ Join PROVE Rest
    BY <2>8, <2>t DEF StartBackground, StopBackground, CallProcess, Join, Threads,
                      TurnInvariant, ThreadsTakeTurns, InHand, Failing, AtHand
  <2>9. ASSUME OwnerTop \/ BackgroundTop \/ GetNothing PROVE Rest
    BY <2>9, <2>t DEF OwnerTop, BackgroundTop, GetNothing, Queue!Ask, Queue!GiveUp, Threads,
                      InHand, Failing, AtHand
  <2>10. ASSUME NEW t \in Threads, StartDelivery(t) PROVE Rest
    BY <2>10, <2>t DEF StartDelivery, InHand, Failing, AtHand
  <2>11. ASSUME NEW t \in Threads, Skip(t) \/ Visit(t) PROVE Rest
    BY <2>11 DEF Skip, Visit, InHand, Failing
  <2>12. ASSUME NEW t \in Threads, VisitThrows(t) \/ ScanEnds(t) PROVE Rest
    <3>1. /\ pc[t] = "scanning" /\ UNCHANGED <<event_fifo_, log, machine_set_>>
          /\ given' \in {given, <<>>}
          /\ pc' \in {[pc EXCEPT ![t] = w] : w \in {"top", "terminated", "off"}}
      BY <2>12 DEF VisitThrows, ScanEnds, Escape
    <3>2. \A u \in Threads : pc[u] \notin AtHand
      BY <2>a, <3>1 DEF Busy, AtHand
    <3>3. given = <<>>
      BY <3>2 DEF DeliveryInvariant, Delivering, AtHand
    <3>4. InHand' = InHand /\ Failing' = Failing
      BY <2>t, <3>1, <3>2 DEF InHand, Failing, AtHand
    <3>. QED BY <3>1, <3>3, <3>4
  <2>13. ASSUME UNCHANGED vars PROVE Rest
    BY <2>13 DEF vars, InHand, Failing
  <2>14. Rest => UNCHANGED Set!setVars
    BY <2>k DEF Set!setVars
  <2>. HIDE DEF Rest
  <2>15. /\ \A event \in Events : Enqueue(event) => Set!SetNext
         /\ \A t \in Threads : Get(t) \/ Operate(t) \/ Deliver(t) => Set!SetNext
         /\ \A t \in Threads :
               DeliveryThrows(t) \/ DeliveryEnds(t) \/ ErrorEnds(t) => Set!SetNext
    <3>1. ASSUME NEW t \in Threads, Get(t) PROVE Processed + 1 \in DOMAIN log
      BY <2>2, <3>1 DEF Set!Begin
    <3>2. ASSUME NEW t \in Threads, Deliver(t) PROVE Head(todo) \in Machines
      BY <2>v, <3>2 DEF Deliver
    <3>3. Events = Set!Operations \cup UserEvents
      BY DEF Events, Operations, Set!Operations
    <3>. QED BY <2>1, <2>2, <2>3, <2>4, <2>5, <2>6, <3>1, <3>2, <3>3 DEF Set!SetNext
  <2>. QED BY <2>7, <2>8, <2>9, <2>10, <2>11, <2>12, <2>13, <2>14, <2>15
           DEF Next, Environment, OwnerCalls, OwnerGoesOn, Background, Handling, Threads
<1>. QED BY <1>1, <1>2, TypesAreInvariant, TurnsAreInvariant, RestIsInvariant, CountIsInvariant,
          DeliveriesAreInvariant, PTL DEF Spec, ImplementsSet, Set!SetSafety

-----------------------------------------------------------------------------
(* Timers                                                                  *)

\* An event has overtaken the timeout of a member: it is still being handled, or
\* the member is yet to be visited after it, or the process died of it.
OvertakenNow(m) ==
    /\ overtaken[m] = 1
    /\ timer[m] = "due" /\ m \in machine_set_
    /\ \/ pc["background"] \in AtHand \cup {"terminated"}
       \/ pc["background"] = "scanning" /\ m \in ToSet(todo)

OvertakenInvariant ==
    /\ overtaken \in [Machines -> Nat]
    /\ \A m \in Machines : overtaken[m] = 0 \/ OvertakenNow(m)

LEMMA OvertakenIsInvariant == TimedSpec => []OvertakenInvariant
<1>0. TimedSpec => Spec
  <2>1. TimedInit => Init
    BY DEF TimedInit
  <2>2. [TimedNext]_timedVars => [Next]_vars
    BY DEF TimedNext, timedVars
  <2>. QED BY <2>1, <2>2, PTL DEF TimedSpec, Spec
<1>1. TimedInit => OvertakenInvariant
  BY DEF TimedInit, OvertakenInvariant
<1>2. TypeOK /\ MembersAgree /\ MembersAgree' /\ TurnInvariant /\ OvertakenInvariant
      /\ [TimedNext]_timedVars => OvertakenInvariant'
  <2>. SUFFICES ASSUME TypeOK, MembersAgree, MembersAgree', TurnInvariant, OvertakenInvariant,
                       [TimedNext]_timedVars
                PROVE  OvertakenInvariant'
    OBVIOUS
  <2>t. /\ pc \in [Threads -> Busy \cup {"off", "joining", "ended", "terminated"}]
        /\ timer \in [Machines -> {"off", "running", "due"}]
        /\ todo \in Seq(Machines) /\ machine_list_ \in Seq(Machines)
    BY DEF TypeOK
  <2>1. CASE UNCHANGED timedVars
    BY <2>1 DEF timedVars, vars, members, OvertakenInvariant, OvertakenNow
  <2>2. CASE Next /\ CountOvertaken
    <3>1. overtaken' \in [Machines -> Nat]
      BY <2>2 DEF CountOvertaken, OvertakenInvariant
    \* The steps that leave the count: a member is overtaken only if it was, and is
    \* found where it was or where the thread goes.
    <3>k. ASSUME ~BackgroundTakes,
                 ASSUME NEW m \in Machines, OvertakenNow(m), timer'[m] = "due",
                        m \in machine_set_'
                 PROVE  \/ pc'["background"] \in AtHand \cup {"terminated"}
                        \/ pc'["background"] = "scanning" /\ m \in ToSet(todo')
          PROVE  OvertakenInvariant'
      <4>. SUFFICES ASSUME NEW m \in Machines, overtaken'[m] # 0 PROVE OvertakenNow(m)'
        BY <3>1 DEF OvertakenInvariant
      <4>1. overtaken'[m] = overtaken[m] /\ timer'[m] = "due" /\ m \in machine_set_'
        BY <2>2, <3>k DEF CountOvertaken
      <4>2. OvertakenNow(m)
        BY <4>1 DEF OvertakenInvariant
      <4>. QED BY <3>k, <4>1, <4>2 DEF OvertakenNow
    <3>. USE DEF Goto
    <3>2. CASE Get("background")
      <4>1. /\ pc["background"] = "getting" /\ pc'["background"] = "handling"
        BY <2>t, <3>2 DEF Get, Threads
      <4>2. \A m \in Machines : overtaken[m] = 0
        BY <4>1 DEF OvertakenInvariant, OvertakenNow, AtHand
      <4>. SUFFICES ASSUME NEW m \in Machines, overtaken'[m] # 0 PROVE OvertakenNow(m)'
        BY <3>1 DEF OvertakenInvariant
      <4>3. overtaken'[m] = 1 /\ timer'[m] = "due" /\ m \in machine_set_'
        BY <2>2, <4>2 DEF CountOvertaken
      <4>. QED BY <4>1, <4>3 DEF OvertakenNow, AtHand
    \* The background thread stays where it is, with the same machines to visit.
    <3>3. ASSUME pc'["background"] = pc["background"],
                 pc["background"] = "scanning" => todo' = todo
          PROVE  OvertakenInvariant'
      <4>1. ~BackgroundTakes
        BY <3>3 DEF BackgroundTakes
      <4>. QED BY <3>k, <3>3, <4>1 DEF OvertakenNow
    <3>4. CASE Environment
      BY <3>3, <3>4 DEF Environment, Enqueue, ClockPasses
    <3>5. CASE StopBackground \/ CallProcess \/ Join
      BY <2>t, <3>3, <3>5 DEF StopBackground, CallProcess, Join, Threads
    <3>6. ASSUME pc["background"] \in {"off", "ended"},
                 pc'["background"] \notin AtHand
          PROVE  OvertakenInvariant'
      <4>1. ~BackgroundTakes
        BY <3>6 DEF BackgroundTakes
      <4>. QED BY <3>k, <3>6, <4>1 DEF OvertakenNow, AtHand
    <3>7. CASE StartBackground
      BY <2>t, <3>6, <3>7 DEF StartBackground, Threads, TurnInvariant, ThreadsTakeTurns, AtHand
    <3>8. CASE OwnerTop \/ Handling("owner")
      <4>1. pc["owner"] \in Busy
        BY <3>8 DEF OwnerTop, Handling, Get, Operate, StartDelivery, Deliver, Skip, DeliveryEnds,
                    DeliveryThrows, ErrorEnds, Visit, VisitThrows, ScanEnds, Busy, AtHand
      <4>2. pc["background"] \in {"off", "ended"}
        BY <4>1 DEF TurnInvariant, ThreadsTakeTurns
      <4>3. pc'["background"] = pc["background"]
        BY <2>t, <3>8 DEF OwnerTop, Handling, Get, Operate, StartDelivery, Deliver, Skip,
                          DeliveryEnds, DeliveryThrows, ErrorEnds, Visit, VisitThrows, ScanEnds,
                          AfterEvent, Escape, Threads
      <4>. QED BY <3>6, <4>2, <4>3 DEF AtHand
    <3>9. CASE BackgroundTop \/ GetNothing
      <4>1. pc["background"] \in {"top", "getting"} /\ pc'["background"] # "handling"
        BY <2>t, <3>9 DEF BackgroundTop, GetNothing, Threads
      <4>. QED BY <3>k, <4>1 DEF OvertakenNow, AtHand, BackgroundTakes
    <3>10. CASE StartDelivery("background") \/ DeliveryThrows("background")
                \/ Deliver("background") \/ Skip("background") \/ VisitThrows("background")
      <4>1. /\ pc["background"] # "getting"
            /\ pc'["background"] \in AtHand \cup {"terminated"}
        BY <2>t, <3>10 DEF StartDelivery, DeliveryThrows, Deliver, Skip, VisitThrows, Escape,
                           Threads, AtHand
      <4>. QED BY <3>k, <4>1 DEF BackgroundTakes
    <3>11. CASE Operate("background") \/ DeliveryEnds("background") \/ ErrorEnds("background")
      <4>1. /\ pc["background"] # "getting"
            /\ \/ pc'["background"] = "scanning" /\ todo' = machine_list_'
               \/ pc'["background"] = "terminated"
        BY <2>t, <3>11 DEF Operate, DeliveryEnds, ErrorEnds, AfterEvent, Escape, Threads
      <4>2. ToSet(machine_list_') = machine_set_'
        BY DEF MembersAgree
      <4>. QED BY <3>k, <4>1, <4>2 DEF BackgroundTakes
    <3>12. CASE Visit("background")
      <4>1. /\ pc["background"] = "scanning" /\ pc' = pc /\ todo # <<>> /\ todo' = Tail(todo)
        BY <3>12 DEF Visit
      <4>2. ToSet(todo) = {Head(todo)} \cup ToSet(todo')
        BY <2>t, <4>1, ToSetTail
      <4>3. ASSUME NEW m \in Machines, OvertakenNow(m), timer'[m] = "due"
            PROVE  m \in ToSet(todo')
        <5>1. m \in ToSet(todo) /\ timer[m] = "due"
          BY <4>1, <4>3 DEF OvertakenNow, AtHand
        <5>2. m # Head(todo)
          BY <2>t, <3>12, <4>3, <5>1 DEF Visit, ProcessBy
        <5>. QED BY <4>2, <5>1, <5>2
      <4>. QED BY <3>k, <4>1, <4>3 DEF BackgroundTakes
    <3>13. CASE ScanEnds("background")
      <4>1. /\ pc["background"] = "scanning" /\ todo = <<>> /\ pc'["background"] = "top"
        BY <2>t, <3>13 DEF ScanEnds, Threads
      <4>2. ToSet(todo) = {}
        BY <4>1 DEF ToSet
      <4>. QED BY <3>k, <4>1, <4>2 DEF OvertakenNow, AtHand, BackgroundTakes
    <3>. QED BY <2>2, <3>2, <3>4, <3>5, <3>7, <3>8, <3>9, <3>10, <3>11, <3>12, <3>13
             DEF Next, OwnerCalls, OwnerGoesOn, Background, Handling
  <2>. QED BY <2>1, <2>2 DEF TimedNext
<1>. QED BY <1>0, <1>1, <1>2, TypesAreInvariant, TurnsAreInvariant, PTL DEF TimedSpec

\* A burst of any length lets a due member wait for one event at most.
THEOREM TimersAreNotOvertaken == TimedSpec => []OneEventOvertakes
<1>1. OvertakenInvariant => OneEventOvertakes
  BY DEF OvertakenInvariant, OvertakenNow, OneEventOvertakes
<1>. QED BY <1>1, OvertakenIsInvariant, PTL
=============================================================================
