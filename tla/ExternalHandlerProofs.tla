------------------------ MODULE ExternalHandlerProofs ------------------------
(***************************************************************************)
(* Theorems about ExternalHandler for any machines, states and timeouts,   *)
(* actions and events: an event is neither lost nor processed twice, each  *)
(* timeout that is set reaches its machine once at most, the two deadlines *)
(* of an entry stay together, and seen from outside the set is that of     *)
(* SetSpec.                                                                *)
(***************************************************************************)
EXTENDS ExternalHandler, SequenceLemmas, WellFoundedInduction

-----------------------------------------------------------------------------
(* Sequences                                                               *)

\* A set of positions has a first one.
LEMMA FirstPosition ==
    ASSUME NEW I \in SUBSET Nat, I # {}
    PROVE  Min(I) \in I /\ \A j \in I : Min(I) <= j
<1>. DEFINE R == {ss \in Nat \X Nat : ss[1] < ss[2]}
<1>1. IsWellFoundedOn(R, Nat)
  BY NatLessThanWellFounded DEF OpToRel
<1>2. \E x \in I : \A y \in I : ~ (<<y, x>> \in R)
  <2>. HIDE DEF R
  <2>. QED BY <1>1, WFMin
<1>3. PICK x \in I : \A y \in I : ~ (<<y, x>> \in R)
  BY <1>2
<1>4. ASSUME NEW y \in I PROVE x <= y
  <2>1. x \in Nat /\ y \in Nat /\ ~ (<<y, x>> \in R)
    BY <1>3
  <2>. QED BY <2>1
<1>. QED BY <1>4 DEF Min

\* A sequence of machines stays one without its first m.
LEMMA RemovedType ==
    ASSUME NEW S, NEW s \in Seq(S), NEW m
    PROVE  RemoveFirst(s, m) \in Seq(S)
<1>. DEFINE I == {i \in 1..Len(s) : s[i] = m}
<1>1. CASE I = {}
  BY <1>1 DEF RemoveFirst
<1>2. CASE I # {}
  <2>1. RemoveFirst(s, m) = RemoveAt(s, Min(I))
    BY <1>2 DEF RemoveFirst, SelectInSeq
  <2>2. Min(I) \in 1..Len(s)
    <3>1. I \in SUBSET Nat /\ I \subseteq 1..Len(s)
      OBVIOUS
    <3>. HIDE DEF I
    <3>. QED BY <1>2, <3>1, FirstPosition
  <2>3. \A a \in 1..Len(s) : SubSeq(s, 1, a - 1) \o SubSeq(s, a + 1, Len(s)) \in Seq(S)
    OBVIOUS
  <2>. QED BY <2>1, <2>2, <2>3 DEF RemoveAt
<1>. QED BY <1>1, <1>2

-----------------------------------------------------------------------------
(* Types                                                                   *)

TimesType ==
    /\ timer \in [StateMachines -> {"off", "running", "due"}]
    /\ alarm \in [StateMachines -> States \cup {NoState}]
    /\ armed \in [StateMachines -> States \cup {NoState}]
    /\ told \in [StateMachines -> Nat]

\* What a machine finds when it is given an event or a timeout.
Found(m) == {AtEvent, AtTimer(m), AtAlarm(m)}

LEMMA FoundType ==
    ASSUME TimesType, NEW m \in StateMachines, NEW at \in Found(m)
    PROVE  /\ at.timer \in [StateMachines -> {"off", "running", "due"}]
           /\ at.alarm \in [StateMachines -> States \cup {NoState}]
           /\ at.timeouts \in {0, 1}
<1>1. Off(m) \in [StateMachines -> {"off", "running", "due"}]
  BY DEF Off, TimesType
<1>2. [alarm EXCEPT ![m] = NoState] \in [StateMachines -> States \cup {NoState}]
  BY DEF TimesType
<1>. QED BY <1>1, <1>2 DEF Found, AtEvent, AtTimer, AtAlarm, TimesType

\* The steps of a state machine keep the types of the times.
LEMMA ProcessType ==
    ASSUME TimesType, NEW m \in StateMachines, NEW at \in Found(m),
           Returns(m, at) \/ Throws(m, at)
    PROVE  TimesType'
<1>. USE FoundType DEF TimesType
<1>1. ASSUME NEW s \in States, EnterState(m, s, at) PROVE TimesType'
  <2>1. TimerFor(s) \in {"off", "running", "due"}
    BY DEF TimerFor
  <2>2. (IF TimeoutOf[s] # 0 THEN 0 ELSE told[m] + at.timeouts) \in Nat
    OBVIOUS
  <2>. QED BY <1>1, <2>1, <2>2 DEF EnterState, OnUpdateMachineTimeOut
<1>2. ASSUME NEW s \in States, HandlerThrows(m, s, at) PROVE TimesType'
  BY <1>2 DEF HandlerThrows
<1>3. ASSUME Stay(m, at) PROVE TimesType'
  BY <1>3 DEF Stay
<1>. QED BY <1>1, <1>2, <1>3 DEF Returns, Throws

\* What Act does to the answers.
LEMMA ActType ==
    ASSUME answer \in [ActionMachines -> [UserEvents -> Actions \cup {NoAction}]],
           non_transitive_actions_ \in [ActionMachines -> Seq(Actions)],
           NEW m \in ActionMachines, NEW event, Act(m, event)
    PROVE  answer' \in [ActionMachines -> [UserEvents -> Actions \cup {NoAction}]]
<1>1. CASE UNCHANGED answer
  BY <1>1
<1>2. ASSUME NEW k \in DOMAIN non_transitive_actions_[m],
             answer' = [answer EXCEPT ![m][event] = non_transitive_actions_[m][k]]
      PROVE  answer' \in [ActionMachines -> [UserEvents -> Actions \cup {NoAction}]]
  <2>1. non_transitive_actions_[m][k] \in Actions
    BY ElementOfSeq
  <2>2. [answer[m] EXCEPT ![event] = non_transitive_actions_[m][k]]
            \in [UserEvents -> Actions \cup {NoAction}]
    BY <2>1
  <2>. QED BY <1>2, <2>2
<1>. QED BY <1>1, <1>2 DEF Act

\* The type invariant holds.
THEOREM TypeCorrect == Spec => []TypeOK
<1>1. Init => TypeOK
  <2>. SUFFICES ASSUME Init PROVE TypeOK
    OBVIOUS
  <2>1. /\ timer \in [StateMachines -> {"off", "running", "due"}]
        /\ alarm \in [StateMachines -> States \cup {NoState}]
        /\ armed \in [StateMachines -> States \cup {NoState}]
        /\ told \in [StateMachines -> Nat]
    BY DEF Init
  <2>2. /\ non_transitive_actions_ \in [ActionMachines -> Seq(Actions)]
        /\ answer \in [ActionMachines -> [UserEvents -> Actions \cup {NoAction}]]
    BY DEF Init
  <2>3. /\ event_fifo_ \in Seq(Indices) /\ kept \in Seq(Indices)
        /\ machine_list_ \in Seq(Machines) /\ todo \in Seq(Machines)
        /\ log \in Seq(Events) /\ Len(log) = 0
    BY DEF Init
  <2>4. hand \in 0..MaxLog /\ Len(log) <= MaxLog
    BY ExternalHandlerAssumption, <2>3 DEF Init
  <2>. QED BY <2>1, <2>2, <2>3, <2>4 DEF Init, TypeOK
<1>2. TypeOK /\ [Next]_vars => TypeOK'
  <2>. SUFFICES ASSUME TypeOK, [Next]_vars PROVE TypeOK'
    OBVIOUS
  <2>. USE DEF TypeOK, events, times, actions, loop
  <2>t. TimesType
    BY DEF TimesType
  <2>i. MaxLog \in Nat /\ Enqueued \subseteq Events
    BY ExternalHandlerAssumption
  <2>1. ASSUME NEW event \in Enqueued, Enqueue(event) PROVE TypeOK'
    <3>1. Len(log) + 1 \in Indices /\ log' \in Seq(Events) /\ Len(log') <= MaxLog
      BY <2>1, <2>i DEF Enqueue, Indices
    <3>2. kept' \in Seq(Indices) /\ adding' \subseteq Indices
      <4>1. Append(kept, Len(log) + 1) \in Seq(Indices)
        BY <3>1
      <4>. HIDE DEF TypeOK
      <4>. QED BY <2>1, <3>1, <4>1 DEF Enqueue, TypeOK
    <3>. QED BY <2>1, <3>1, <3>2 DEF Enqueue
  <2>2. ASSUME NEW n \in adding, AddToFifo(n) PROVE TypeOK'
    BY <2>2 DEF AddToFifo
  <2>3. ASSUME NEW m \in StateMachines, ClockPasses(m) PROVE TypeOK'
    BY <2>3 DEF ClockPasses
  <2>4. ASSUME NEW m \in ActionMachines, NEW a \in Actions, MakeNonTransitiveAction(m, a)
        PROVE  TypeOK'
    <3>1. non_transitive_actions_' \in [ActionMachines -> Seq(Actions)]
      BY <2>4 DEF MakeNonTransitiveAction
    <3>. QED BY <2>4, <3>1 DEF MakeNonTransitiveAction
  <2>s. ASSUME NEW m \in StateMachines, NEW by \in {"off", "running"}, SetTimeout(m, by)
        PROVE  TypeOK'
    BY <2>s DEF SetTimeout
  <2>5. ASSUME RegisterHandler PROVE TypeOK'
    BY <2>5 DEF RegisterHandler
  <2>6. ASSUME ProcessEvent PROVE TypeOK'
    <3>1. Head(kept) \in Indices /\ Tail(kept) \in Seq(Indices)
      BY <2>6 DEF ProcessEvent
    <3>2. /\ hand' \in 0..MaxLog /\ hand' # 0 /\ pc' = "handling" /\ pumping' = FALSE
          /\ kept' \in Seq(Indices)
      BY <2>6, <2>i, <3>1 DEF ProcessEvent, Indices
    <3>. QED BY <2>6, <3>2 DEF ProcessEvent
  <2>7. ASSUME CallProcess PROVE TypeOK'
    BY <2>7 DEF CallProcess
  <2>8. ASSUME Take PROVE TypeOK'
    <3>1. Head(event_fifo_) \in Indices /\ Tail(event_fifo_) \in Seq(Indices)
      BY <2>8 DEF Take
    <3>. QED BY <2>8, <2>i, <3>1 DEF Take, Indices
  <2>e. ASSUME NEW r \in BOOLEAN, EventEnds(r), pc \in {"handling", "delivering", "catching"}
        PROVE  /\ processed' \subseteq Indices /\ hand' \in 0..MaxLog /\ todo' \in Seq(Machines)
               /\ given' \subseteq Machines /\ pumping' \in BOOLEAN /\ pc' \in {"idle", "top"} /\ hand' = 0
    <3>1. hand \in Indices /\ 0 \in 0..MaxLog
      BY <2>e, <2>i DEF Indices
    <3>2. <<>> \in Seq(Machines)
      OBVIOUS
    <3>. QED BY <2>e, <3>1, <3>2 DEF EventEnds
  <2>9. ASSUME Operate PROVE TypeOK'
    <3>1. pc = "handling" /\ log[hand] \in Operations /\ EventEnds(TRUE)
      BY <2>9 DEF Operate
    <3>2. log[hand].machine \in Machines
      BY <3>1 DEF Operations
    <3>3. machine_list_' \in Seq(Machines)
      BY <2>9, <3>2, RemovedType DEF Operate
    <3>. QED BY <2>9, <2>e, <3>1, <3>3 DEF Operate
  <2>10. ASSUME StartDelivery PROVE TypeOK'
    <3>1. Reverse(machine_list_) \in Seq(Machines)
      BY DEF Reverse
    <3>. QED BY <2>10, <3>1 DEF StartDelivery
  <2>11. ASSUME Deliver PROVE TypeOK'
    <3>1. Tail(todo) \in Seq(Machines) /\ Head(todo) \in Machines
      BY <2>11 DEF Deliver
    <3>2. CASE Head(todo) \in StateMachines /\ Returns(Head(todo), AtEvent) /\ UNCHANGED actions
      <4>1. TimesType'
        BY <2>t, <3>2, ProcessType DEF Found
      <4>. QED BY <2>11, <3>1, <3>2, <4>1 DEF Deliver, TimesType
    <3>3. CASE Head(todo) \in ActionMachines /\ Act(Head(todo), log[hand]) /\ UNCHANGED times
      <4>1. answer' \in [ActionMachines -> [UserEvents -> Actions \cup {NoAction}]]
        BY <3>3, ActType
      <4>. QED BY <2>11, <3>1, <3>3, <4>1 DEF Deliver, Act
    <3>. QED BY <2>11, <3>2, <3>3 DEF Deliver
  <2>12. ASSUME DeliveryEnds PROVE TypeOK'
    BY <2>12, <2>e DEF DeliveryEnds
  <2>13. ASSUME DeliveryThrows PROVE TypeOK'
    <3>1. TimesType'
      <4>1. CASE Head(todo) \in StateMachines /\ Throws(Head(todo), AtEvent)
        BY <2>t, <4>1, ProcessType DEF Found
      <4>2. CASE UNCHANGED times
        BY <2>t, <4>2 DEF TimesType
      <4>. QED BY <2>13, <4>1, <4>2 DEF DeliveryThrows
    <3>2. /\ UNCHANGED <<event_handler_, events, machine_list_, actions, OnProcessError, hand,
                         pumping, given, log, processed>>
          /\ pc = "delivering" /\ pc' = "catching" /\ todo' = <<>> /\ <<>> \in Seq(Machines)
      <4>. HIDE DEF TypeOK
      <4>. QED BY <2>13 DEF DeliveryThrows
    <3>. QED BY <3>1, <3>2 DEF TimesType
  <2>c. ASSUME ErrorEnds PROVE TypeOK'
    BY <2>c, <2>e DEF ErrorEnds
  <2>14. ASSUME StartScan PROVE TypeOK'
    BY <2>14 DEF StartScan
  <2>15. ASSUME Visit PROVE TypeOK'
    <3>1. Tail(todo) \in Seq(Machines)
      BY <2>15 DEF Visit
    <3>2. TimesType'
      <4>1. CASE IsDue(Head(todo)) /\ Returns(Head(todo), AtTimer(Head(todo)))
        BY <2>t, <4>1, ProcessType DEF Found, IsDue
      <4>2. CASE UNCHANGED times
        BY <2>t, <4>2 DEF TimesType
      <4>. QED BY <2>15, <4>1, <4>2 DEF Visit
    <3>. QED BY <2>15, <3>1, <3>2 DEF Visit, TimesType
  <2>16. ASSUME VisitThrows PROVE TypeOK'
    <3>1. TimesType'
      BY <2>16, <2>t, ProcessType DEF VisitThrows, Found, IsDue, Throws
    <3>. QED BY <2>16, <3>1 DEF VisitThrows, TimesType
  <2>17. ASSUME ScanEnds PROVE TypeOK'
    BY <2>17 DEF ScanEnds
  <2>18. ASSUME NEW m \in StateMachines, AlarmRings(m) PROVE TypeOK'
    <3>1. TimesType'
      <4>1. CASE Returns(m, AtAlarm(m)) \/ Throws(m, AtAlarm(m))
        BY <2>t, <4>1, ProcessType DEF Found
      <4>2. CASE ~Member(m)
        BY <2>18, <4>2, <2>t DEF AlarmRings, TimesType, AtAlarm
      <4>. QED BY <2>18, <4>1, <4>2 DEF AlarmRings
    <3>. QED BY <2>18, <3>1 DEF AlarmRings, TimesType
  <2>19. CASE UNCHANGED vars
    BY <2>19 DEF vars
  <2>. QED BY <2>1, <2>2, <2>3, <2>4, <2>5, <2>6, <2>7, <2>8, <2>9, <2>10, <2>11, <2>12,
              <2>13, <2>14, <2>15, <2>16, <2>17, <2>18, <2>19, <2>c, <2>s DEF Next, LoopGoesOn
<1>. QED BY <1>1, <1>2, PTL DEF Spec

-----------------------------------------------------------------------------
(* Events                                                                  *)

\* Every event is in one place, once: an event only ever moves from one of
\* them to the next, and a new one is in none.
THEOREM EventsAreInOnePlace == Spec => []EventsOnce
<1>1. Init => EventsOnce
  BY DEF Init, EventsOnce, ToSet, IsInjective, Hand
<1>2. TypeOK /\ EventsOnce /\ [Next]_vars => EventsOnce'
  <2>. SUFFICES ASSUME TypeOK, EventsOnce, [Next]_vars PROVE EventsOnce'
    OBVIOUS
  <2>. USE DEF events, loop
  <2>t. /\ event_fifo_ \in Seq(Indices) /\ kept \in Seq(Indices)
        /\ adding \subseteq Indices /\ log \in Seq(Events) /\ Len(log) \in Nat
        /\ hand \in Nat /\ 0 \notin Indices
        /\ hand = 0 <=> pc \notin {"handling", "delivering", "catching"}
    BY ExternalHandlerAssumption DEF TypeOK, Indices
  <2>s. ASSUME UNCHANGED <<event_fifo_, kept, adding, log, hand, processed>>
        PROVE  EventsOnce'
    BY <2>s DEF EventsOnce, Hand
  <2>1. ASSUME NEW event \in Enqueued, Enqueue(event) PROVE EventsOnce'
    <3>. DEFINE n == Len(log) + 1
    <3>1. n \in Indices /\ n \notin DOMAIN log
      BY <2>1, <2>t, ExternalHandlerAssumption DEF Enqueue, Indices, TypeOK
    <3>2. DOMAIN log' = DOMAIN log \cup {n}
      <4>1. log' = Append(log, event) /\ event \in Events
        BY <2>1, ExternalHandlerAssumption DEF Enqueue
      <4>. QED BY <4>1, <2>t
    <3>3. ToSet(Append(kept, n)) = ToSet(kept) \cup {n}
          /\ (n \notin ToSet(kept) => IsInjective(Append(kept, n)))
      BY <2>t, <3>1, AppendOnce DEF EventsOnce
    <3>4. UNCHANGED <<event_fifo_, hand, processed>> /\ Hand' = Hand
      BY <2>1 DEF Enqueue, Hand
    <3>5. \/ adding' = adding \cup {n} /\ kept' = kept
          \/ kept' = Append(kept, n) /\ adding' = adding
      BY <2>1 DEF Enqueue
    <3>. HIDE DEF n
    <3>6. CASE adding' = adding \cup {n} /\ kept' = kept
      BY <3>1, <3>2, <3>4, <3>6 DEF EventsOnce
    <3>7. CASE kept' = Append(kept, n) /\ adding' = adding
      <4>1. ToSet(kept') = ToSet(kept) \cup {n} /\ IsInjective(kept')
        BY <3>1, <3>3, <3>7 DEF EventsOnce
      <4>. QED BY <3>1, <3>2, <3>4, <3>7, <4>1 DEF EventsOnce
    <3>. QED BY <3>5, <3>6, <3>7
  <2>2. ASSUME NEW n \in adding, AddToFifo(n) PROVE EventsOnce'
    <3>1. ToSet(Append(event_fifo_, n)) = ToSet(event_fifo_) \cup {n}
          /\ (n \notin ToSet(event_fifo_) => IsInjective(Append(event_fifo_, n)))
      BY <2>t, AppendOnce DEF EventsOnce
    <3>2. /\ event_fifo_' = Append(event_fifo_, n) /\ adding' = adding \ {n}
          /\ UNCHANGED <<kept, log, hand, processed>>
      BY <2>2 DEF AddToFifo
    <3>3. Hand' = Hand
      BY <3>2 DEF Hand
    <3>. QED BY <3>1, <3>2, <3>3 DEF EventsOnce
  <2>3. ASSUME NEW m \in StateMachines, ClockPasses(m) \/ AlarmRings(m) PROVE EventsOnce'
    BY <2>3, <2>s DEF ClockPasses, AlarmRings
  <2>4. ASSUME NEW m \in ActionMachines, NEW a \in Actions, MakeNonTransitiveAction(m, a)
        PROVE  EventsOnce'
    BY <2>4, <2>s DEF MakeNonTransitiveAction
  <2>11. ASSUME NEW m \in StateMachines, NEW by \in {"off", "running"}, SetTimeout(m, by)
         PROVE  EventsOnce'
    BY <2>11, <2>s DEF SetTimeout
  <2>5. CASE RegisterHandler \/ CallProcess \/ StartScan \/ StartDelivery \/ ScanEnds
    BY <2>5, <2>s DEF RegisterHandler, CallProcess, StartScan, StartDelivery, ScanEnds
  <2>6. ASSUME ProcessEvent PROVE EventsOnce'
    <3>1. /\ Head(kept) \in Indices /\ Head(kept) \in ToSet(kept)
          /\ ToSet(Tail(kept)) = ToSet(kept) \ {Head(kept)} /\ IsInjective(Tail(kept))
      BY <2>6, <2>t, TailOnce DEF ProcessEvent, EventsOnce
    <3>2. Hand = {} /\ Hand' = {Head(kept)}
      BY <2>6, <2>t, <3>1 DEF ProcessEvent, Hand
    <3>. QED BY <2>6, <3>1, <3>2 DEF ProcessEvent, EventsOnce
  <2>7. ASSUME Take PROVE EventsOnce'
    <3>1. /\ Head(event_fifo_) \in Indices /\ Head(event_fifo_) \in ToSet(event_fifo_)
          /\ ToSet(Tail(event_fifo_)) = ToSet(event_fifo_) \ {Head(event_fifo_)}
          /\ IsInjective(Tail(event_fifo_))
      BY <2>7, <2>t, TailOnce DEF Take, EventsOnce
    <3>2. Hand = {} /\ Hand' = {Head(event_fifo_)}
      BY <2>7, <2>t, <3>1 DEF Take, Hand
    <3>. QED BY <2>7, <3>1, <3>2 DEF Take, EventsOnce
  <2>8. ASSUME Operate \/ DeliveryEnds \/ ErrorEnds PROVE EventsOnce'
    <3>1. /\ processed' = processed \cup {hand} /\ hand' = 0
          /\ UNCHANGED <<event_fifo_, kept, adding, log>>
          /\ pc \in {"handling", "delivering", "catching"}
      BY <2>8 DEF Operate, DeliveryEnds, ErrorEnds, EventEnds
    <3>2. Hand = {hand} /\ Hand' = {}
      BY <2>t, <3>1 DEF Hand
    <3>. QED BY <3>1, <3>2 DEF EventsOnce
  <2>9. CASE Deliver \/ DeliveryThrows \/ Visit \/ VisitThrows
    BY <2>9, <2>s DEF Deliver, DeliveryThrows, Visit, VisitThrows
  <2>10. CASE UNCHANGED vars
    BY <2>10, <2>s DEF vars
  <2>. QED BY <2>1, <2>2, <2>3, <2>4, <2>5, <2>6, <2>7, <2>8, <2>9, <2>10, <2>11
           DEF Next, LoopGoesOn
<1>. QED BY <1>1, <1>2, TypeCorrect, PTL DEF Spec

-----------------------------------------------------------------------------
(* Timeouts                                                                *)

\* A machine that has been given its timeout has neither deadline nor alarm left,
\* until another is set; and alarms are only set when there is a handler.
TimeoutsSpent ==
    /\ \A m \in StateMachines : told[m] # 0 => timer[m] = "off" /\ alarm[m] = NoState
    /\ ~event_handler_ => \A m \in StateMachines : armed[m] = NoState /\ alarm[m] = NoState

\* Timers are looked at only as long as there is no handler.
ScansAlone == pc = "scanning" /\ todo # <<>> => ~event_handler_

TimesInv == DeadlinesAgree /\ OneTimeoutEach /\ TimeoutsSpent

\* What a machine finds is what is left by its timer, or by its alarm.
Due(m, at) ==
    \/ at = AtEvent
    \/ at = AtTimer(m) /\ timer[m] = "due" /\ ~event_handler_
    \/ at = AtAlarm(m) /\ alarm[m] # NoState

LEMMA ProcessKeepsTimes ==
    ASSUME TimesType, TimesInv, event_handler_ \in BOOLEAN, event_handler_' = event_handler_,
           NEW m \in StateMachines, NEW at \in Found(m), Due(m, at),
           Returns(m, at) \/ Throws(m, at)
    PROVE  TimesInv'
<1>. USE DEF TimesInv, DeadlinesAgree, OneTimeoutEach, TimeoutsSpent, TimesType
<1>0. \A n \in StateMachines \ {m} : at.timer[n] = timer[n] /\ at.alarm[n] = alarm[n]
  BY DEF Found, AtEvent, AtTimer, AtAlarm, Off
<1>1. /\ at.timer \in [StateMachines -> {"off", "running", "due"}]
      /\ at.alarm \in [StateMachines -> States \cup {NoState}]
      /\ at.timeouts \in {0, 1}
  BY FoundType
<1>2. ~event_handler_ => at.alarm[m] = NoState
  BY DEF Found, AtEvent, AtTimer, AtAlarm
<1>3. told[m] \in Nat /\ told[m] + at.timeouts <= 1
      /\ (told[m] + at.timeouts # 0 => at.timer[m] = "off" /\ at.alarm[m] = NoState)
  <2>1. CASE at = AtEvent
    BY <2>1 DEF AtEvent
  <2>2. CASE at = AtTimer(m) /\ timer[m] = "due" /\ ~event_handler_
    BY <2>2 DEF AtTimer, Off
  <2>3. CASE at = AtAlarm(m) /\ alarm[m] # NoState
    BY <2>3 DEF AtAlarm, Off
  <2>. QED BY <2>1, <2>2, <2>3 DEF Due
<1>4. armed[m] # NoState =>
          at.alarm[m] = IF at.timer[m] = "off" THEN NoState ELSE armed[m]
  <2>1. CASE at = AtEvent
    BY <2>1 DEF AtEvent
  <2>2. CASE at = AtTimer(m) /\ timer[m] = "due" /\ ~event_handler_
    BY <2>2
  <2>3. CASE at = AtAlarm(m) /\ alarm[m] # NoState
    BY <2>3 DEF AtAlarm, Off
  <2>. QED BY <2>1, <2>2, <2>3 DEF Due
<1>5. ASSUME NEW s \in States, EnterState(m, s, at) PROVE TimesInv'
  <2>1. s # NoState /\ TimeoutOf[s] \in Int
    BY ExternalHandlerAssumption
  <2>2. /\ timer' = [at.timer EXCEPT ![m] = TimerFor(s)]
        /\ told' = [told EXCEPT ![m] = IF TimeoutOf[s] # 0 THEN 0 ELSE told[m] + at.timeouts]
    BY <1>5 DEF EnterState
  <2>3. CASE event_handler_ /\ TimeoutOf[s] > 0
             /\ alarm' = [at.alarm EXCEPT ![m] = s] /\ armed' = [armed EXCEPT ![m] = s]
    <3>1. timer'[m] = "running" /\ told'[m] = 0 /\ alarm'[m] = s /\ armed'[m] = s
      BY <1>1, <2>1, <2>2, <2>3 DEF TimerFor
    <3>2. \A n \in StateMachines \ {m} :
             /\ timer'[n] = timer[n] /\ told'[n] = told[n]
             /\ alarm'[n] = alarm[n] /\ armed'[n] = armed[n]
      BY <1>0, <1>1, <2>2, <2>3
    <3>. QED BY <2>3, <3>1, <3>2
  <2>4. CASE alarm' = at.alarm /\ armed' = [armed EXCEPT ![m] = NoState]
    <3>1. /\ alarm'[m] = at.alarm[m] /\ armed'[m] = NoState
          /\ told'[m] \in {0, told[m] + at.timeouts}
          /\ told'[m] # 0 => timer'[m] = "off"
      BY <1>1, <2>2, <2>4 DEF TimerFor
    <3>2. told'[m] <= 1 /\ (told'[m] # 0 => timer'[m] = "off" /\ alarm'[m] = NoState)
      BY <1>3, <3>1
    <3>3. \A n \in StateMachines \ {m} :
             /\ timer'[n] = timer[n] /\ told'[n] = told[n]
             /\ alarm'[n] = alarm[n] /\ armed'[n] = armed[n]
      BY <1>0, <1>1, <2>2, <2>4
    <3>. QED BY <1>2, <3>1, <3>2, <3>3
  <2>. QED BY <1>5, <2>3, <2>4 DEF EnterState, OnUpdateMachineTimeOut, IsTold
<1>6. ASSUME timer' = at.timer, alarm' = at.alarm,
             told' = [told EXCEPT ![m] = told[m] + at.timeouts], UNCHANGED armed
      PROVE  TimesInv'
  <2>1. told'[m] = told[m] + at.timeouts /\ \A n \in StateMachines \ {m} : told'[n] = told[n]
    BY <1>6
  <2>. QED BY <1>0, <1>2, <1>3, <1>4, <1>6, <2>1
<1>7. ASSUME NEW s \in States, HandlerThrows(m, s, at) PROVE TimesInv'
  BY <1>6, <1>7 DEF HandlerThrows
<1>8. ASSUME Stay(m, at) PROVE TimesInv'
  BY <1>6, <1>8 DEF Stay
<1>. QED BY <1>5, <1>7, <1>8 DEF Returns, Throws

LEMMA TimesInvariance == Spec => [](TimesInv /\ ScansAlone)
<1>. USE DEF times, loop, ScansAlone
<1>1. Init => TimesInv /\ ScansAlone
  BY DEF Init, TimesInv, DeadlinesAgree, OneTimeoutEach, TimeoutsSpent
<1>2. TypeOK /\ TimesInv /\ ScansAlone /\ [Next]_vars => (TimesInv /\ ScansAlone)'
  <2>. SUFFICES ASSUME TypeOK, TimesInv, ScansAlone, [Next]_vars
                PROVE  (TimesInv /\ ScansAlone)'
    OBVIOUS
  <2>t. TimesType /\ event_handler_ \in BOOLEAN /\ todo \in Seq(Machines)
    BY DEF TypeOK, TimesType
  <2>s. ASSUME UNCHANGED times, UNCHANGED event_handler_ PROVE TimesInv'
    BY <2>s DEF TimesInv, DeadlinesAgree, OneTimeoutEach, TimeoutsSpent
  <2>1. ASSUME NEW event \in Enqueued, Enqueue(event) PROVE (TimesInv /\ ScansAlone)'
    BY <2>1, <2>s DEF Enqueue
  <2>2. ASSUME NEW n \in adding, AddToFifo(n) PROVE (TimesInv /\ ScansAlone)'
    BY <2>2, <2>s DEF AddToFifo
  <2>3. ASSUME NEW m \in StateMachines, ClockPasses(m) PROVE (TimesInv /\ ScansAlone)'
    <3>1. \A n \in StateMachines : timer[n] = "off" => timer'[n] = "off"
      BY <2>3, <2>t DEF ClockPasses, TimesType
    <3>. QED BY <2>3, <3>1
             DEF ClockPasses, TimesInv, DeadlinesAgree, OneTimeoutEach, TimeoutsSpent
  <2>4. ASSUME NEW m \in ActionMachines, NEW a \in Actions, MakeNonTransitiveAction(m, a)
        PROVE  (TimesInv /\ ScansAlone)'
    BY <2>4, <2>s DEF MakeNonTransitiveAction
  <2>13. ASSUME NEW m \in StateMachines, NEW by \in {"off", "running"}, SetTimeout(m, by)
         PROVE  (TimesInv /\ ScansAlone)'
    <3>1. /\ timer' = [timer EXCEPT ![m] = by]
          /\ told' = [told EXCEPT ![m] = IF by = "running" THEN 0 ELSE told[m]]
          /\ armed' = [armed EXCEPT ![m] = NoState]
          /\ UNCHANGED <<alarm, event_handler_, pc, todo>>
      BY <2>13 DEF SetTimeout
    <3>2. TimesInv'
      BY <2>t, <3>1 DEF TimesInv, DeadlinesAgree, OneTimeoutEach, TimeoutsSpent, TimesType
    <3>. QED BY <3>1, <3>2
  <2>5. ASSUME RegisterHandler PROVE (TimesInv /\ ScansAlone)'
    BY <2>5 DEF RegisterHandler, TimesInv, DeadlinesAgree, OneTimeoutEach, TimeoutsSpent
  <2>6. CASE ProcessEvent \/ CallProcess \/ Take \/ StartDelivery \/ ScanEnds
    BY <2>6, <2>s DEF ProcessEvent, CallProcess, Take, StartDelivery, ScanEnds
  <2>7. CASE Operate \/ DeliveryEnds \/ ErrorEnds
    BY <2>7, <2>s DEF Operate, DeliveryEnds, ErrorEnds, EventEnds
  <2>8. ASSUME Deliver \/ DeliveryThrows PROVE (TimesInv /\ ScansAlone)'
    <3>1. CASE Head(todo) \in StateMachines
               /\ (Returns(Head(todo), AtEvent) \/ Throws(Head(todo), AtEvent))
      <4>1. event_handler_' = event_handler_
        BY <2>8 DEF Deliver, DeliveryThrows
      <4>2. TimesInv'
        BY <2>t, <3>1, <4>1, ProcessKeepsTimes DEF Found, Due
      <4>. QED BY <2>8, <4>2 DEF Deliver, DeliveryThrows
    <3>2. CASE UNCHANGED times
      BY <2>8, <2>s, <3>2 DEF Deliver, DeliveryThrows
    <3>. QED BY <2>8, <3>1, <3>2 DEF Deliver, DeliveryThrows
  <2>9. ASSUME StartScan PROVE (TimesInv /\ ScansAlone)'
    BY <2>9, <2>s DEF StartScan
  <2>10. ASSUME Visit \/ VisitThrows PROVE (TimesInv /\ ScansAlone)'
    <3>1. ~event_handler_ /\ event_handler_' = event_handler_
      BY <2>10 DEF Visit, VisitThrows
    <3>2. CASE /\ Head(todo) \in StateMachines /\ timer[Head(todo)] = "due"
               /\ \/ Returns(Head(todo), AtTimer(Head(todo)))
                  \/ Throws(Head(todo), AtTimer(Head(todo)))
      <4>1. TimesInv'
        BY <2>t, <3>1, <3>2, ProcessKeepsTimes DEF Found, Due
      <4>. QED BY <3>1, <4>1
    <3>3. CASE UNCHANGED times
      BY <2>s, <3>1, <3>3
    <3>. QED BY <2>10, <3>2, <3>3 DEF Visit, VisitThrows, IsDue, Throws
  <2>11. ASSUME NEW m \in StateMachines, AlarmRings(m) PROVE (TimesInv /\ ScansAlone)'
    <3>1. CASE Returns(m, AtAlarm(m)) \/ Throws(m, AtAlarm(m))
      <4>1. event_handler_' = event_handler_ /\ alarm[m] # NoState
        BY <2>11 DEF AlarmRings
      <4>2. TimesInv'
        BY <2>t, <3>1, <4>1, ProcessKeepsTimes DEF Found, Due
      <4>. QED BY <2>11, <4>2 DEF AlarmRings
    <3>2. CASE ~Member(m)
      <4>1. /\ alarm' = [alarm EXCEPT ![m] = NoState] /\ armed' = [armed EXCEPT ![m] = NoState]
            /\ UNCHANGED <<timer, told, event_handler_>>
        BY <2>11, <3>2 DEF AlarmRings, AtAlarm
      <4>2. TimesInv'
        BY <4>1, <2>t
           DEF TimesInv, DeadlinesAgree, OneTimeoutEach, TimeoutsSpent, TimesType
      <4>. QED BY <2>11, <4>2 DEF AlarmRings
    <3>. QED BY <2>11, <3>1, <3>2 DEF AlarmRings
  <2>12. CASE UNCHANGED vars
    BY <2>12, <2>s DEF vars
  <2>. QED BY <2>1, <2>2, <2>3, <2>4, <2>5, <2>6, <2>7, <2>8, <2>9, <2>10, <2>11, <2>12,
              <2>13
           DEF Next, LoopGoesOn
<1>. QED BY <1>1, <1>2, TypeCorrect, PTL DEF Spec

\* An alarm is that of the deadline that timeout_ms_ holds, and is used up with it.
THEOREM DeadlinesStayTogether == Spec => []DeadlinesAgree
BY TimesInvariance, PTL DEF TimesInv

\* No timeout that is set reaches its machine twice, by whichever clock.
THEOREM OneTimeout == Spec => []OneTimeoutEach
BY TimesInvariance, PTL DEF TimesInv

-----------------------------------------------------------------------------
(* Actions                                                                 *)

\* The action an event has run is the first, to this day, that accepts it.
AnswerIsFirst ==
    \A m \in ActionMachines, e \in UserEvents :
        answer[m][e] # NoAction =>
            \E k \in DOMAIN non_transitive_actions_[m] :
                IsFirstMatch(m, e, k) /\ non_transitive_actions_[m][k] = answer[m][e]

ActionsType ==
    /\ non_transitive_actions_ \in [ActionMachines -> Seq(Actions)]
    /\ answer \in [ActionMachines -> [UserEvents -> Actions \cup {NoAction}]]

\* What an action machine does with an event leaves the answers as they are.
LEMMA ActIsStable ==
    ASSUME ActionsType, AnswerIsFirst, NEW m \in ActionMachines, NEW event, Act(m, event)
    PROVE  /\ AnswerIsFirst'
           /\ \A n \in ActionMachines, e \in UserEvents :
                  answer[n][e] # NoAction => answer'[n][e] = answer[n][e]
<1>1. CASE UNCHANGED answer
  BY <1>1 DEF Act, AnswerIsFirst, IsFirstMatch
<1>2. ASSUME NEW k \in DOMAIN non_transitive_actions_[m], IsFirstMatch(m, event, k),
             answer' = [answer EXCEPT ![m][event] = non_transitive_actions_[m][k]],
             UNCHANGED non_transitive_actions_
      PROVE  /\ AnswerIsFirst'
             /\ \A n \in ActionMachines, e \in UserEvents :
                    answer[n][e] # NoAction => answer'[n][e] = answer[n][e]
  <2>1. ASSUME NEW n \in ActionMachines, NEW e \in UserEvents, n # m \/ e # event
        PROVE  answer'[n][e] = answer[n][e]
    BY <1>2, <2>1 DEF ActionsType
  <2>2. event \in UserEvents => answer'[m][event] = non_transitive_actions_[m][k]
    BY <1>2 DEF ActionsType
  <2>3. ASSUME event \in UserEvents, answer[m][event] # NoAction
        PROVE  answer'[m][event] = answer[m][event]
    <3>1. PICK j \in DOMAIN non_transitive_actions_[m] :
             IsFirstMatch(m, event, j) /\ non_transitive_actions_[m][j] = answer[m][event]
      BY <2>3 DEF AnswerIsFirst
    <3>2. j \in Nat /\ k \in Nat
      BY DEF ActionsType
    <3>3. j = k
      BY <1>2, <3>1, <3>2 DEF IsFirstMatch
    <3>. QED BY <2>2, <2>3, <3>1, <3>3
  <2>4. AnswerIsFirst'
    BY <1>2, <2>1, <2>2 DEF AnswerIsFirst, IsFirstMatch
  <2>. QED BY <2>1, <2>3, <2>4
<1>. QED BY <1>1, <1>2 DEF Act

LEMMA AnswersAreFirst == Spec => []AnswerIsFirst
<1>. USE DEF actions
<1>1. Init => AnswerIsFirst
  BY DEF Init, AnswerIsFirst
<1>2. TypeOK /\ AnswerIsFirst /\ [Next]_vars => AnswerIsFirst'
  <2>. SUFFICES ASSUME TypeOK, AnswerIsFirst, [Next]_vars PROVE AnswerIsFirst'
    OBVIOUS
  <2>t. ActionsType
    BY DEF TypeOK, ActionsType
  <2>s. ASSUME UNCHANGED actions PROVE AnswerIsFirst'
    BY <2>s DEF AnswerIsFirst, IsFirstMatch
  <2>1. ASSUME NEW m \in ActionMachines, NEW a \in Actions, MakeNonTransitiveAction(m, a)
        PROVE  AnswerIsFirst'
    <3>1. /\ non_transitive_actions_' =
                [non_transitive_actions_ EXCEPT ![m] = Append(non_transitive_actions_[m], a)]
          /\ answer' = answer
      BY <2>1 DEF MakeNonTransitiveAction
    <3>. SUFFICES ASSUME NEW n \in ActionMachines, NEW e \in UserEvents,
                         answer[n][e] # NoAction
                  PROVE  \E k \in DOMAIN non_transitive_actions_'[n] :
                            /\ IsFirstMatch(n, e, k)'
                            /\ non_transitive_actions_'[n][k] = answer[n][e]
      BY <3>1 DEF AnswerIsFirst
    <3>2. PICK k \in DOMAIN non_transitive_actions_[n] :
             IsFirstMatch(n, e, k) /\ non_transitive_actions_[n][k] = answer[n][e]
      BY DEF AnswerIsFirst
    <3>. DEFINE ts == non_transitive_actions_[n]
                us == non_transitive_actions_'[n]
    <3>3. /\ ts \in Seq(Actions) /\ DOMAIN ts = 1..Len(ts) /\ Len(ts) \in Nat
          /\ us = ts \/ us = Append(ts, a)
      <4>1. ts \in Seq(Actions)
        BY <2>t DEF ActionsType
      <4>2. us = ts \/ us = Append(ts, a)
        BY <2>t, <3>1 DEF ActionsType
      <4>. HIDE DEF ts, us
      <4>. QED BY <4>1, <4>2
    <3>4. /\ DOMAIN ts \subseteq DOMAIN us
          /\ \A j \in DOMAIN ts : us[j] = ts[j]
          /\ \A j \in DOMAIN us, i \in DOMAIN ts : j < i => j \in DOMAIN ts
      <4>. HIDE DEF ts, us
      <4>1. CASE us = ts
        BY <3>3, <4>1
      <4>2. CASE us = Append(ts, a)
        BY <3>3, <4>2, AppendProperties
      <4>. QED BY <3>3, <4>1, <4>2
    <3>. QED BY <3>2, <3>4 DEF IsFirstMatch
  <2>2. CASE Deliver
    BY <2>2, <2>t, <2>s, ActIsStable DEF Deliver
  <2>3. CASE Next /\ ~Deliver
             /\ ~(\E m \in ActionMachines, a \in Actions : MakeNonTransitiveAction(m, a))
    <3>1. UNCHANGED actions
      BY <2>3 DEF Next, LoopGoesOn, Enqueue, AddToFifo, ClockPasses, AlarmRings, SetTimeout,
                  RegisterHandler, ProcessEvent, CallProcess, Take, Operate, StartDelivery,
                  DeliveryEnds, DeliveryThrows, ErrorEnds, StartScan, Visit, VisitThrows, ScanEnds
    <3>. QED BY <2>s, <3>1
  <2>4. CASE UNCHANGED vars
    BY <2>4, <2>s DEF vars
  <2>. QED BY <2>1, <2>2, <2>3, <2>4
<1>. QED BY <1>1, <1>2, TypeCorrect, PTL DEF Spec

\* An event that has found its action keeps it.
THEOREM AnswersStay == Spec => AnswersAreStable
<1>. DEFINE Stable == \A m \in ActionMachines, e \in UserEvents :
                         answer[m][e] # NoAction => answer'[m][e] = answer[m][e]
<1>1. TypeOK /\ AnswerIsFirst /\ [Next]_vars => [Stable]_vars
  <2>. SUFFICES ASSUME TypeOK, AnswerIsFirst, Next PROVE Stable
    OBVIOUS
  <2>1. CASE Deliver
    <3>1. ActionsType
      BY DEF TypeOK, ActionsType
    <3>. QED BY <2>1, <3>1, ActIsStable DEF Deliver, actions
  <2>2. CASE ~Deliver
    <3>1. answer' = answer
      BY <2>2 DEF Next, LoopGoesOn, Enqueue, AddToFifo, ClockPasses, AlarmRings, SetTimeout,
                  RegisterHandler, ProcessEvent, CallProcess, Take, Operate, StartDelivery,
                  DeliveryEnds, DeliveryThrows, ErrorEnds, StartScan, Visit, VisitThrows, ScanEnds,
                  MakeNonTransitiveAction, actions
    <3>. QED BY <3>1
  <2>. QED BY <2>1, <2>2
<1>. QED BY <1>1, TypeCorrect, AnswersAreFirst, PTL DEF Spec, AnswersAreStable

-----------------------------------------------------------------------------
(* The abstract set                                                        *)

\* The list has every member once, and what the members at hand have had and
\* have still to come is the whole of it.
Delivering == {"delivering", "catching"}

DeliveryInvariant ==
    /\ IsInjective(machine_list_)
    /\ pc \in Delivering => log[hand] \in UserEvents
    /\ pc = "delivering" => given \cup ToSet(todo) = ToSet(machine_list_)
    /\ pc \notin Delivering => given = {}

\* What an addition or a removal makes of the members.
LEMMA OperateOnce ==
    ASSUME TypeOK, IsInjective(machine_list_), Operate
    PROVE  LET m == log[hand].machine
           IN  /\ m \in Machines
               /\ IsInjective(machine_list_')
               /\ \/ /\ log[hand] = [op |-> "add", machine |-> m]
                     /\ ToSet(machine_list_') = ToSet(machine_list_) \cup {m}
                  \/ /\ log[hand] = [op |-> "remove", machine |-> m]
                     /\ ToSet(machine_list_') = ToSet(machine_list_) \ {m}
<1>. DEFINE m == log[hand].machine
            o == log[hand].op
<1>1. /\ m \in Machines /\ o \in {"add", "remove"} /\ log[hand] = [op |-> o, machine |-> m]
  BY DEF Operate, Operations
<1>2. machine_list_' = CASE o = "add" /\ ~Member(m) -> Append(machine_list_, m)
                         [] o = "remove"            -> RemoveFirst(machine_list_, m)
                         [] OTHER                   -> machine_list_
  BY DEF Operate
<1>3. machine_list_ \in Seq(Machines)
  BY DEF TypeOK
<1>4. Member(m) <=> m \in ToSet(machine_list_)
  BY <1>3 DEF Member, Contains, ToSet
<1>. HIDE DEF m, o
<1>5. CASE o = "add" /\ ~Member(m)
  BY <1>1, <1>2, <1>3, <1>4, <1>5, AppendOnce DEF m
<1>6. CASE o = "add" /\ Member(m)
  BY <1>1, <1>2, <1>4, <1>6 DEF m
<1>7. CASE o = "remove" /\ Member(m)
  <2>1. machine_list_' = RemoveFirst(machine_list_, m)
    BY <1>2, <1>7
  <2>2. ToSet(machine_list_') = ToSet(machine_list_) \ {m} /\ IsInjective(machine_list_')
    BY <1>3, <1>4, <1>7, <2>1, RemoveOnce
  <2>. QED BY <1>1, <1>7, <2>2 DEF m
<1>8. CASE o = "remove" /\ ~Member(m)
  <2>1. machine_list_' = RemoveFirst(machine_list_, m)
    BY <1>2, <1>8
  <2>2. ~ \E i \in 1..Len(machine_list_) : machine_list_[i] = m
    BY <1>3, <1>4, <1>8 DEF ToSet
  <2>3. machine_list_' = machine_list_
    BY <2>1, <2>2 DEF RemoveFirst
  <2>. QED BY <1>1, <1>4, <1>8, <2>3 DEF m
<1>. QED BY <1>1, <1>5, <1>6, <1>7, <1>8

LEMMA DeliveriesAreInvariant == Spec => []DeliveryInvariant
<1>. USE DEF loop, Delivering
<1>1. Init => DeliveryInvariant
  BY DEF Init, DeliveryInvariant, IsInjective
<1>2. TypeOK /\ EventsOnce /\ DeliveryInvariant /\ [Next]_vars => DeliveryInvariant'
  <2>. SUFFICES ASSUME TypeOK, EventsOnce, DeliveryInvariant, [Next]_vars
                PROVE  DeliveryInvariant'
    OBVIOUS
  <2>t. /\ machine_list_ \in Seq(Machines) /\ todo \in Seq(Machines) /\ log \in Seq(Events)
        /\ hand \in Nat
    BY DEF TypeOK
  <2>s. ASSUME UNCHANGED <<machine_list_, hand, given>>, pc = "delivering" => todo' = todo,
               pc' = pc \/ {pc, pc'} \cap Delivering = {},
               pc \in Delivering => log'[hand] = log[hand]
        PROVE  DeliveryInvariant'
    BY <2>s DEF DeliveryInvariant
  <2>n. ASSUME UNCHANGED <<machine_list_, given>>, {pc, pc'} \cap Delivering = {}
        PROVE  DeliveryInvariant'
    BY <2>n DEF DeliveryInvariant
  <2>1. ASSUME NEW event \in Enqueued, Enqueue(event) PROVE DeliveryInvariant'
    <3>1. /\ UNCHANGED <<machine_list_, loop>> /\ log' = Append(log, event)
      BY <2>1 DEF Enqueue
    <3>2. ASSUME pc \in Delivering PROVE log'[hand] = log[hand]
      <4>1. hand # 0 /\ DOMAIN log = 1..Len(log)
        BY <2>t, <3>2 DEF TypeOK
      <4>2. hand \in 1..Len(log)
        BY <4>1 DEF EventsOnce, Hand
      <4>. QED BY <2>t, <3>1, <4>2, AppendProperties
    <3>. QED BY <2>s, <3>1, <3>2
  <2>2. ASSUME NEW n \in adding, AddToFifo(n) PROVE DeliveryInvariant'
    BY <2>2, <2>s DEF AddToFifo
  <2>3. ASSUME NEW m \in StateMachines, ClockPasses(m) \/ AlarmRings(m) PROVE DeliveryInvariant'
    BY <2>3, <2>s DEF ClockPasses, AlarmRings
  <2>4. ASSUME NEW m \in ActionMachines, NEW a \in Actions, MakeNonTransitiveAction(m, a)
        PROVE  DeliveryInvariant'
    BY <2>4, <2>s DEF MakeNonTransitiveAction
  <2>12. ASSUME NEW m \in StateMachines, NEW by \in {"off", "running"}, SetTimeout(m, by)
         PROVE  DeliveryInvariant'
    BY <2>12, <2>s DEF SetTimeout
  <2>5. CASE RegisterHandler \/ CallProcess \/ StartScan \/ ScanEnds \/ ProcessEvent \/ Take
             \/ Visit \/ VisitThrows
    BY <2>5, <2>n DEF RegisterHandler, CallProcess, StartScan, ScanEnds, ProcessEvent, Take,
                      Visit, VisitThrows
  <2>6. ASSUME StartDelivery PROVE DeliveryInvariant'
    <3>1. ToSet(todo') = ToSet(machine_list_)
      BY <2>6, <2>t, ToSetReverse DEF StartDelivery
    <3>. QED BY <2>6, <3>1 DEF StartDelivery, DeliveryInvariant
  <2>7. ASSUME Deliver PROVE DeliveryInvariant'
    <3>1. ToSet(todo) = {Head(todo)} \cup ToSet(todo')
      BY <2>7, <2>t, ToSetTail DEF Deliver
    <3>. QED BY <2>7, <3>1 DEF Deliver, DeliveryInvariant
  <2>8. ASSUME DeliveryThrows PROVE DeliveryInvariant'
    BY <2>8 DEF DeliveryThrows, DeliveryInvariant
  <2>9. ASSUME Operate PROVE DeliveryInvariant'
    BY <2>9, OperateOnce DEF Operate, EventEnds, DeliveryInvariant
  <2>10. ASSUME DeliveryEnds \/ ErrorEnds PROVE DeliveryInvariant'
    BY <2>10 DEF DeliveryEnds, ErrorEnds, EventEnds, DeliveryInvariant
  <2>11. CASE UNCHANGED vars
    BY <2>11, <2>s DEF vars
  <2>. QED BY <2>1, <2>2, <2>3, <2>4, <2>5, <2>6, <2>7, <2>8, <2>9, <2>10, <2>11, <2>12
           DEF Next, LoopGoesOn
<1>. QED BY <1>1, <1>2, TypeCorrect, EventsAreInOnePlace, PTL DEF Spec

\* Seen from outside, the set behind a handler is the same: one event at a time,
\* each once, and each to every member unless one of them or the handler throws.
\* Only the order of the events is the handler's.
THEOREM SetIsImplemented == Spec => ImplementsSet
<1>. USE DEF events, times, actions, loop
<1>1. Init => Set!SetInit
  <2>1. ToSet(<<>>) = {}
    BY DEF ToSet
  <2>. QED BY <2>1 DEF Init, Set!SetInit
<1>2. /\ TypeOK /\ EventsOnce /\ EventsOnce' /\ DeliveryInvariant /\ [Next]_vars
      => [Set!SetNext]_(Set!setVars)
  <2>. SUFFICES ASSUME TypeOK, EventsOnce, EventsOnce', DeliveryInvariant, [Next]_vars
                PROVE  Set!SetNext \/ UNCHANGED Set!setVars
    OBVIOUS
  <2>t. /\ todo \in Seq(Machines) /\ machine_list_ \in Seq(Machines)
        /\ log \in Seq(Events) /\ DOMAIN log = 1..Len(log) /\ hand \in Nat
        /\ hand # 0 <=> pc \in {"handling", "delivering", "catching"}
        /\ kept \in Seq(Indices) /\ event_fifo_ \in Seq(Indices)
        /\ ToSet(machine_list_) \subseteq Machines
    BY DEF TypeOK, ToSet
  <2>a. ASSUME pc \in Delivering
        PROVE  Set!IsForMachines /\ Set!Audience = ToSet(machine_list_)
    BY <2>a, <2>t DEF DeliveryInvariant, Delivering, Set!IsForMachines, Set!Audience
  <2>b. ASSUME NEW n \in DOMAIN log, n \notin processed, hand = 0, hand' = n,
               pc \notin Delivering, pc' \notin Delivering,
               UNCHANGED <<log, processed, machine_list_, given>>
        PROVE  Set!SetNext
    <3>1. Set!Begin(n)
      BY <2>b DEF Set!Begin, Delivering
    <3>. QED BY <3>1 DEF Set!SetNext
  <2>1. ASSUME NEW event \in Enqueued, Enqueue(event) PROVE Set!SetNext
    <3>1. Set!Submit(event)
      BY <2>1 DEF Enqueue, Set!Submit
    <3>2. event \in Set!Operations \cup UserEvents
      BY ExternalHandlerAssumption DEF Events, Operations, Set!Operations
    <3>. QED BY <3>1, <3>2 DEF Set!SetNext
  <2>2. ASSUME ProcessEvent PROVE Set!SetNext
    <3>1. Head(kept) \in ToSet(kept)
      BY <2>2, <2>t, TailOnce DEF ProcessEvent, EventsOnce
    <3>2. Head(kept) \in DOMAIN log /\ Head(kept) \notin processed
      BY <3>1 DEF EventsOnce
    <3>. QED BY <2>2, <2>b, <2>t, <3>2 DEF ProcessEvent, Delivering
  <2>3. ASSUME Take PROVE Set!SetNext
    <3>1. Head(event_fifo_) \in ToSet(event_fifo_)
      BY <2>3, <2>t, TailOnce DEF Take, EventsOnce
    <3>2. Head(event_fifo_) \in DOMAIN log /\ Head(event_fifo_) \notin processed
      BY <3>1 DEF EventsOnce
    <3>. QED BY <2>3, <2>b, <2>t, <3>2 DEF Take, Delivering
  <2>e. ASSUME NEW r \in BOOLEAN, EventEnds(r), log' = log PROVE Set!End
    BY <2>e DEF EventEnds, Set!End
  <2>4. ASSUME Operate PROVE Set!SetNext
    <3>. DEFINE m == log[hand].machine
    <3>1. m \in Machines
          /\ \/ /\ log[hand] = [op |-> "add", machine |-> m]
                /\ ToSet(machine_list_') = ToSet(machine_list_) \cup {m}
             \/ /\ log[hand] = [op |-> "remove", machine |-> m]
                /\ ToSet(machine_list_') = ToSet(machine_list_) \ {m}
      BY <2>4, OperateOnce DEF DeliveryInvariant
    <3>2. Set!End /\ hand # 0
      BY <2>4, <2>e, <2>t DEF Operate
    <3>. HIDE DEF m
    <3>3. Set!Change(m)
      BY <3>1, <3>2 DEF Set!Change
    <3>. QED BY <3>1, <3>3 DEF Set!SetNext
  <2>h. ASSUME pc = "delivering", todo # <<>>
        PROVE  Head(todo) \in Machines /\ Head(todo) \in ToSet(machine_list_)
    BY <2>h, <2>t, ToSetTail DEF DeliveryInvariant
  <2>5. ASSUME Deliver PROVE Set!SetNext
    <3>1. Set!Reach(Head(todo))
      BY <2>5, <2>a, <2>h DEF Deliver, Delivering, Set!Reach
    <3>. QED BY <2>5, <2>h, <3>1 DEF Deliver, Set!SetNext
  <2>6. ASSUME DeliveryThrows PROVE Set!SetNext
    <3>1. Set!Fail
      BY <2>6, <2>a, <2>h DEF DeliveryThrows, Delivering, Set!Fail
    <3>. QED BY <3>1 DEF Set!SetNext
  <2>7. ASSUME DeliveryEnds \/ ErrorEnds PROVE Set!SetNext
    <3>1. Set!End /\ machine_list_' = machine_list_
      BY <2>7, <2>e DEF DeliveryEnds, ErrorEnds, TypeOK
    <3>2. pc = "catching" \/ ToSet(machine_list_) \subseteq given
      <4>1. ToSet(<<>>) = {}
        BY DEF ToSet
      <4>2. pc = "catching" \/ (pc = "delivering" /\ todo = <<>>)
        BY <2>7 DEF DeliveryEnds, ErrorEnds
      <4>. QED BY <4>1, <4>2 DEF DeliveryInvariant
    <3>3. Set!Complete
      BY <2>7, <2>a, <3>1, <3>2 DEF DeliveryEnds, ErrorEnds, Delivering, Set!Complete
    <3>. QED BY <3>3 DEF Set!SetNext
  <2>. DEFINE Rest == /\ UNCHANGED <<log, processed, hand, machine_list_, given>>
                      /\ pc' = "catching" <=> pc = "catching"
  <2>8. ASSUME NEW n \in adding, AddToFifo(n) PROVE Rest
    BY <2>8 DEF AddToFifo
  <2>9. ASSUME NEW m \in StateMachines, ClockPasses(m) \/ AlarmRings(m) PROVE Rest
    BY <2>9 DEF ClockPasses, AlarmRings
  <2>10. ASSUME NEW m \in ActionMachines, NEW a \in Actions, MakeNonTransitiveAction(m, a)
         PROVE  Rest
    BY <2>10 DEF MakeNonTransitiveAction
  <2>14. ASSUME NEW m \in StateMachines, NEW by \in {"off", "running"}, SetTimeout(m, by)
         PROVE  Rest
    BY <2>14 DEF SetTimeout
  <2>11. ASSUME RegisterHandler \/ CallProcess \/ StartScan \/ ScanEnds \/ StartDelivery
                \/ Visit \/ VisitThrows
         PROVE  Rest
    BY <2>11 DEF RegisterHandler, CallProcess, StartScan, ScanEnds, StartDelivery, Visit,
                 VisitThrows
  <2>12. ASSUME UNCHANGED vars PROVE Rest
    BY <2>12 DEF vars
  <2>13. ASSUME Rest PROVE UNCHANGED Set!setVars
    <3>1. (pc = "catching")' = (pc = "catching")
      BY <2>13
    <3>. QED BY <2>13, <3>1 DEF Set!setVars
  <2>. HIDE DEF Rest
  <2>. QED BY <2>1, <2>2, <2>3, <2>4, <2>5, <2>6, <2>7, <2>8, <2>9, <2>10, <2>11, <2>12, <2>13,
              <2>14 DEF Next, LoopGoesOn
<1>. QED BY <1>1, <1>2, TypeCorrect, EventsAreInOnePlace, DeliveriesAreInvariant,
          PTL DEF Spec, ImplementsSet, Set!SetSafety
=============================================================================
