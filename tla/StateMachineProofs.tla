-------------------------- MODULE StateMachineProofs --------------------------
(***************************************************************************)
(* Theorems about StateMachine for any states, events, predicates and      *)
(* periods, and any number of transitions: its types, that the first loop  *)
(* of Process never leaves the transitions it walks, that a timer left by  *)
(* the entry into a state is that state's, that the transitions fired are  *)
(* those of the table, that a call takes a bounded number of steps, and    *)
(* that, whatever callbacks do, one call of Process is one move of         *)
(* StateGraph.                                                             *)
(***************************************************************************)
EXTENDS StateMachine, Integers, TLAPS

\* What a call is at, when it has chosen a transition: one of its walk's own,
\* which for an internal one leads back to where it is.
LEMMA ChosenIsATransition ==
    ASSUME TypeOK, phase \in {"exiting", "firing"}
    PROVE  /\ Over \in States
           /\ Chosen \in Transition
           /\ Chosen.internal => Chosen.to = Over
<1>1. Over \in StateOrNone /\ call.i \in 1..Len(TransitionsOf(Over))
  BY DEF TypeOK, Over
<1>2. Over # NoState
  BY <1>1 DEF TransitionsOf
<1>3. Over \in States /\ TransitionsOf(Over) = transitions_[Over]
  BY <1>1, <1>2 DEF StateOrNone, TransitionsOf
<1>4. Chosen \in Transition
  BY <1>1, <1>3 DEF TypeOK, Chosen
<1>5. Chosen.internal => Chosen.to = Over
  BY <1>1, <1>3 DEF TypeOK, Chosen
<1> QED BY <1>3, <1>4, <1>5

LEMMA TransitionsAreASequence ==
    ASSUME TypeOK, NEW s \in StateOrNone
    PROVE  TransitionsOf(s) \in Seq(Transition)
BY DEF TypeOK, StateOrNone, TransitionsOf

-----------------------------------------------------------------------------
\* The values stay in their types, internal transitions lead back to their own
\* state, and the iterator of a call that has chosen stays within its walk.
THEOREM TypeCorrect == Spec => []TypeOK
<1>1. Init => TypeOK
  <2> SUFFICES ASSUME Init PROVE TypeOK
    OBVIOUS
  <2>1. transitions_ \in [States -> Seq(Transition)]
    BY DEF Init
  <2>2. \A s \in States : Len(transitions_[s]) = 0
    BY DEF Init
  <2>3. call \in [event : Events \cup {NoEvent}, from : StateOrNone, i : Nat,
                  meta : StateOrNone]
    BY DEF Init, NoCall, StateOrNone
  <2> QED BY <2>1, <2>2, <2>3 DEF Init, TypeOK, StateOrNone
<1>2. TypeOK /\ [Next]_vars => TypeOK'
  <2> SUFFICES ASSUME TypeOK, [Next]_vars PROVE TypeOK'
    OBVIOUS
  <2> USE StateMachineAssumption
  <2>1. ASSUME NEW from \in States, NEW t \in Transition, MakeTransition(from, t)
        PROVE  TypeOK'
    <3>1. transitions_' \in [States -> Seq(Transition)]
      BY <2>1 DEF MakeTransition, TypeOK
    <3>2. ASSUME NEW s \in States, NEW k \in 1..Len(transitions_'[s]),
                 transitions_'[s][k].internal
          PROVE  transitions_'[s][k].to = s
      <4>1. CASE s # from
        BY <2>1, <3>2, <4>1 DEF MakeTransition, TypeOK
      <4>2. CASE s = from /\ k = Len(transitions_[from]) + 1
        BY <2>1, <3>2, <4>2 DEF MakeTransition, TypeOK
      <4>3. CASE s = from /\ k \in 1..Len(transitions_[from])
        BY <2>1, <3>2, <4>3 DEF MakeTransition, TypeOK
      <4> QED BY <2>1, <4>1, <4>2, <4>3 DEF MakeTransition, TypeOK
    <3> QED BY <2>1, <3>1, <3>2 DEF MakeTransition, TypeOK
  <2>a. ASSUME transitions_' = transitions_
        PROVE  /\ transitions_' \in [States -> Seq(Transition)]
               /\ \A s \in States : \A k \in 1..Len(transitions_'[s]) :
                     transitions_'[s][k].internal => transitions_'[s][k].to = s
               /\ \A s : TransitionsOf(s)' = TransitionsOf(s)
    BY <2>a DEF TypeOK, TransitionsOf
  <2>b. ASSUME NEW event \in Events, Begin(event)
        PROVE  /\ call' \in [event : Events \cup {NoEvent}, from : StateOrNone, i : Nat,
                             meta : StateOrNone]
               /\ call'.event \in Events /\ call'.meta = NoState /\ call'.i # 0
               /\ phase' = "matching" /\ result' = "none"
               /\ UNCHANGED <<transitions_, current_state_, previous_state_, meta_state_>>
    <3>1. call' = [event |-> event, from |-> current_state_, i |-> 1, meta |-> NoState]
      BY <2>b DEF Begin, NoCall
    <3>2. /\ call' \in [event : Events \cup {NoEvent}, from : StateOrNone, i : Nat,
                         meta : StateOrNone]
          /\ call'.event \in Events /\ call'.meta = NoState /\ call'.i # 0
      BY <3>1 DEF TypeOK, StateOrNone
    <3> QED BY <2>b, <3>2 DEF Begin
  <2>c. ASSUME NEW handled, Return(handled)
        PROVE  call' \in [event : Events \cup {NoEvent}, from : StateOrNone, i : Nat,
                          meta : StateOrNone]
    BY <2>c DEF Return, NoCall, StateOrNone
  <2>2. ASSUME NEW state \in Owned, ForceState(state) PROVE TypeOK'
    BY <2>2, <2>a DEF ForceState, Estrange, TypeOK, StateOrNone, Over
  <2>3. ASSUME NEW state \in Owned, SetMetaState(state) PROVE TypeOK'
    BY <2>3, <2>a DEF SetMetaState, TypeOK, StateOrNone, Over
  <2>4. ASSUME ClearMetaState PROVE TypeOK'
    BY <2>4, <2>a DEF ClearMetaState, TypeOK, StateOrNone, Over
  <2>5. ASSUME NEW period \in UserPeriods, SetTimeout(period) PROVE TypeOK'
    BY <2>5, <2>a DEF SetTimeout, TypeOK, Over
  <2>6. ASSUME NEW event \in UserEvents, Dispatch(event) PROVE TypeOK'
    BY <2>6, <2>a, <2>b DEF Dispatch, TypeOK, Events
  <2>7. ASSUME TimerExpires PROVE TypeOK'
    BY <2>7, <2>a, <2>b DEF TimerExpires, TypeOK, Events
  <2>8. ASSUME NEW k \in 1..Len(TransitionsOf(call.from)), Match(k) PROVE TypeOK'
    <3>1. call' \in [event : Events \cup {NoEvent}, from : StateOrNone, i : Nat,
                     meta : StateOrNone]
      <4>1. k \in Nat
        BY <2>8, TransitionsAreASequence DEF TypeOK
      <4> QED BY <2>8, <4>1 DEF Match, TypeOK
    <3>2. Over' = call.from /\ call'.i = k /\ phase' \in {"exiting", "firing"}
      BY <2>8 DEF Match, Enter, TypeOK, Over
    <3> QED BY <2>8, <2>a, <3>1, <3>2 DEF Match, TypeOK
  <2>9. ASSUME NEW k \in 1..Len(TransitionsOf(meta_state_)), MatchMeta(k) PROVE TypeOK'
    <3>1. call' \in [event : Events \cup {NoEvent}, from : StateOrNone, i : Nat,
                     meta : StateOrNone]
      <4>1. k \in Nat
        BY <2>9, TransitionsAreASequence DEF TypeOK
      <4> QED BY <2>9, <4>1 DEF MatchMeta, TypeOK
    <3>2. Over' = meta_state_ /\ call'.i = k /\ phase' \in {"exiting", "firing"}
      <4>1. meta_state_ # NoState
        BY DEF TransitionsOf
      <4> QED BY <2>9, <4>1 DEF MatchMeta, Enter, TypeOK, Over
    <3>3. call'.event \in Events
      BY <2>9 DEF MatchMeta, FirstLoopEnds, TypeOK
    <3> QED BY <2>9, <2>a, <3>1, <3>2, <3>3 DEF MatchMeta, TypeOK
  <2>10. ASSUME MatchNothing PROVE TypeOK'
    BY <2>10, <2>a, <2>c DEF MatchNothing, Return, TypeOK
  <2>11. ASSUME PredicateThrows PROVE TypeOK'
    BY <2>11, <2>a, <2>c DEF PredicateThrows, Return, TypeOK
  <2>12. ASSUME ExitReturns PROVE TypeOK'
    BY <2>12, <2>a DEF ExitReturns, TypeOK, Over
  <2>13. ASSUME NEW attached \in BOOLEAN, TransitionReturns(attached) PROVE TypeOK'
    <3>1. Chosen.to \in StateOrNone
      BY <2>13, ChosenIsATransition DEF TransitionReturns, Transition
    <3>2. phase' \in {"crashed", "entering"}
      BY <2>13 DEF TransitionReturns
    <3>3. timeout_ms_' \in Nat /\ setBy' \in {"entry", "expiry", "other"}
      <4>0. timeout_ms_ \in Nat /\ setBy \in {"entry", "expiry", "other"}
        BY DEF TypeOK
      <4>1. CASE Chosen.to = NoState
        BY <2>13, <4>0, <4>1 DEF TransitionReturns
      <4>2. CASE Chosen.to # NoState
        <5>1. TimeoutOf[Chosen.to] \in Nat
          BY <3>1, <4>2, StateMachineAssumption DEF StateOrNone
        <5>2. ArmTimer(attached)
          BY <2>13, <4>2 DEF TransitionReturns
        <5> QED BY <4>0, <5>1, <5>2 DEF ArmTimer, Estrange
      <4> QED BY <4>1, <4>2
    <3> QED BY <2>13, <2>a, <3>1, <3>2, <3>3 DEF TransitionReturns, TypeOK
  <2>14. ASSUME InternalReturns PROVE TypeOK'
    <3>1. Chosen.to \in StateOrNone
      BY <2>14, ChosenIsATransition DEF InternalReturns, Transition
    <3>2. /\ call' \in [event : Events \cup {NoEvent}, from : StateOrNone, i : Nat,
                         meta : StateOrNone]
          /\ call'.event \in Events /\ call'.meta = NoState /\ call'.i # 0
      <4>1. /\ phase = "firing" /\ call.meta = NoState
            /\ call' = [call EXCEPT !.i = call.i + 1]
        BY <2>14 DEF InternalReturns
      <4>2. call.i \in Nat /\ call.i + 1 \in Nat /\ call.i + 1 # 0
        BY DEF TypeOK
      <4>3. call.event \in Events
        BY <4>1 DEF TypeOK
      <4>4. call'.i = call.i + 1 /\ call'.event = call.event /\ call'.meta = call.meta
        BY <4>1 DEF TypeOK
      <4>5. call' \in [event : Events \cup {NoEvent}, from : StateOrNone, i : Nat,
                       meta : StateOrNone]
        BY <4>1, <4>2 DEF TypeOK
      <4> QED BY <4>1, <4>2, <4>3, <4>4, <4>5
    <3> QED BY <2>14, <2>a, <3>1, <3>2 DEF InternalReturns, TypeOK
  <2>15. ASSUME MetaInternalReturns PROVE TypeOK'
    <3>1. Chosen.to \in StateOrNone
      BY <2>15, ChosenIsATransition DEF MetaInternalReturns, Transition
    <3> QED BY <2>15, <2>a, <2>c, <3>1 DEF MetaInternalReturns, Return, Estrange, TypeOK
  <2>16. ASSUME EnterReturns PROVE TypeOK'
    BY <2>16, <2>a, <2>c DEF EnterReturns, Return, TypeOK
  <2>17. CASE UNCHANGED vars
    BY <2>17, <2>a DEF vars, code, TypeOK, Over
  <2> QED BY <2>1, <2>2, <2>3, <2>4, <2>5, <2>6, <2>7, <2>8, <2>9, <2>10, <2>11, <2>12,
             <2>13, <2>14, <2>15, <2>16, <2>17
          DEF Next, UserCode, Matching, CallbackReturns
<1> QED BY <1>1, <1>2, PTL DEF Spec

-----------------------------------------------------------------------------
\* Once an event is being processed, the timer of the current state is that
\* of the state the call began in, or user code has interfered.
TimerStands ==
    phase \in {"exiting", "firing"} /\ setBy = "entry" => current_state_ = call.from

WalkInvariant == LoopStaysOnItsVector /\ TimerStands /\ TimerBelongsToState

\* Every callback may force another state, and the first loop still resumes on
\* the transitions it was walking, because an internal transition takes the
\* machine back to them; and a timer left by the entry into a state runs for
\* that state's period until it expires, is set by the user or is estranged.
\* The two are proved together: that the timer is right after an internal
\* transition rests on the state being the one the call began in.
LEMMA WalkIsInvariant == Spec => []WalkInvariant
<1> USE DEF WalkInvariant, LoopStaysOnItsVector, TimerStands, TimerBelongsToState
<1>1. Init => WalkInvariant
  BY DEF Init
<1>2. TypeOK /\ WalkInvariant /\ [Next]_vars => WalkInvariant'
  <2> SUFFICES ASSUME TypeOK, WalkInvariant, [Next]_vars PROVE WalkInvariant'
    OBVIOUS
  <2> USE StateMachineAssumption
  <2>1. ASSUME NEW from \in States, NEW t \in Transition, MakeTransition(from, t)
        PROVE  WalkInvariant'
    BY <2>1 DEF MakeTransition
  <2>2. ASSUME NEW state \in Owned, ForceState(state) PROVE WalkInvariant'
    BY <2>2 DEF ForceState, UserCodeRuns, Estrange
  <2>3. ASSUME NEW state \in Owned, SetMetaState(state) PROVE WalkInvariant'
    BY <2>3 DEF SetMetaState
  <2>4. ASSUME ClearMetaState PROVE WalkInvariant'
    BY <2>4 DEF ClearMetaState
  <2>5. ASSUME NEW period \in UserPeriods, SetTimeout(period) PROVE WalkInvariant'
    BY <2>5 DEF SetTimeout, UserCodeRuns
  <2>a. ASSUME NEW event, Begin(event)
        PROVE  /\ phase' = "matching" /\ call'.from = current_state_'
               /\ current_state_' = current_state_
    BY <2>a DEF Begin, NoCall
  <2>6. ASSUME NEW event \in UserEvents, Dispatch(event) PROVE WalkInvariant'
    BY <2>6, <2>a DEF Dispatch
  <2>7. ASSUME TimerExpires PROVE WalkInvariant'
    BY <2>7, <2>a DEF TimerExpires
  <2>8. ASSUME NEW k \in 1..Len(TransitionsOf(call.from)), Match(k) PROVE WalkInvariant'
    <3>1. call'.from = call.from /\ phase' \in {"exiting", "firing"}
      BY <2>8 DEF Match, Enter, TypeOK
    <3> QED BY <2>8, <3>1 DEF Match
  <2>9. ASSUME NEW k \in 1..Len(TransitionsOf(meta_state_)), MatchMeta(k)
        PROVE  WalkInvariant'
    <3>1. call'.from = call.from /\ phase' \in {"exiting", "firing"}
      BY <2>9 DEF MatchMeta, Enter, TypeOK
    <3> QED BY <2>9, <3>1 DEF MatchMeta, FirstLoopEnds
  <2>10. ASSUME MatchNothing PROVE WalkInvariant'
    BY <2>10 DEF MatchNothing, FirstLoopEnds, Return
  <2>11. ASSUME PredicateThrows PROVE WalkInvariant'
    BY <2>11 DEF PredicateThrows, Return
  <2>12. ASSUME ExitReturns PROVE WalkInvariant'
    BY <2>12 DEF ExitReturns
  <2>13. ASSUME NEW attached \in BOOLEAN, TransitionReturns(attached)
         PROVE  WalkInvariant'
    <3>1. CASE Chosen.to = NoState
      BY <2>13, <3>1 DEF TransitionReturns
    <3>2. CASE Chosen.to # NoState
      <4>1. phase' = "entering" /\ ArmTimer(attached) /\ current_state_' = Chosen.to
        BY <2>13, <3>2 DEF TransitionReturns
      <4> QED BY <2>13, <3>2, <4>1 DEF TransitionReturns, ArmTimer, Estrange
    <3> QED BY <3>1, <3>2
  <2>14. ASSUME InternalReturns PROVE WalkInvariant'
    <3>1. Chosen.to = call.from
      BY <2>14, ChosenIsATransition DEF InternalReturns, Over
    <3>2. call'.from = call.from /\ phase' = "matching" /\ current_state_' = call.from
      BY <2>14, <3>1 DEF InternalReturns, TypeOK
    <3> QED BY <2>14, <3>2 DEF InternalReturns
  <2>15. ASSUME MetaInternalReturns PROVE WalkInvariant'
    BY <2>15 DEF MetaInternalReturns, Return, Estrange
  <2>16. ASSUME EnterReturns PROVE WalkInvariant'
    BY <2>16 DEF EnterReturns, Return
  <2>17. CASE UNCHANGED vars
    BY <2>17 DEF vars, code
  <2> QED BY <2>1, <2>2, <2>3, <2>4, <2>5, <2>6, <2>7, <2>8, <2>9, <2>10, <2>11, <2>12,
             <2>13, <2>14, <2>15, <2>16, <2>17
          DEF Next, UserCode, Matching, CallbackReturns
<1> QED BY <1>1, <1>2, TypeCorrect, PTL DEF Spec

\* The first loop never compares its iterator with the end of another vector.
THEOREM LoopIsSafe == Spec => []LoopStaysOnItsVector
BY WalkIsInvariant, PTL DEF WalkInvariant

\* No state is left with the deadline of the state before it.
THEOREM TimersAreTheirStates == Spec => []TimerBelongsToState
BY WalkIsInvariant, PTL DEF WalkInvariant

-----------------------------------------------------------------------------
(* What the first loop has passed                                          *)

\* What a call has left behind it: OnExit is called for normal transitions
\* only, and no normal transition before the iterator of the first loop accepts
\* the event.
PassedOver ==
    /\ phase = "exiting" => ~Chosen.internal
    /\ phase \in {"matching", "exiting", "firing"} /\ call.meta = NoState =>
          \A j \in 1..(call.i - 1) :
             j \in DOMAIN TransitionsOf(call.from) =>
                \/ TransitionsOf(call.from)[j].internal
                \/ call.event \notin TransitionsOf(call.from)[j].on

\* The table of transitions, and a call, determine what has been chosen.
LEMMA ChosenStays ==
    ASSUME transitions_' = transitions_, call' = call
    PROVE  /\ Over' = Over /\ Chosen' = Chosen
           /\ \A s : TransitionsOf(s)' = TransitionsOf(s)
BY DEF Over, Chosen, TransitionsOf

\* An internal transition that has fired is passed over like the ones that did
\* not match: the first loop goes on behind it.
LEMMA PassedOverIsInvariant == Spec => []PassedOver
<1>1. Init => PassedOver
  BY DEF Init, PassedOver
<1>2. TypeOK /\ PassedOver /\ [Next]_vars => PassedOver'
  <2> SUFFICES ASSUME TypeOK, PassedOver, [Next]_vars PROVE PassedOver'
    OBVIOUS
  <2> USE StateMachineAssumption
  <2>a. ASSUME transitions_' = transitions_, call' = call, phase' = phase
        PROVE  PassedOver'
    BY <2>a, ChosenStays DEF PassedOver
  <2>b. ASSUME phase' \in {"idle", "entering", "crashed"} PROVE PassedOver'
    BY <2>b DEF PassedOver
  <2>1. ASSUME NEW from \in States, NEW t \in Transition, MakeTransition(from, t)
        PROVE  PassedOver'
    BY <2>1, <2>b DEF MakeTransition
  <2>2. ASSUME NEW state \in Owned, ForceState(state) \/ SetMetaState(state)
        PROVE  PassedOver'
    BY <2>2, <2>a DEF ForceState, SetMetaState
  <2>3. ASSUME ClearMetaState PROVE PassedOver'
    BY <2>3, <2>a DEF ClearMetaState
  <2>4. ASSUME NEW period \in UserPeriods, SetTimeout(period) PROVE PassedOver'
    BY <2>4, <2>a DEF SetTimeout
  <2>5. ASSUME NEW event, Begin(event) PROVE PassedOver'
    <3>1. call'.i = 1 /\ phase' = "matching"
      BY <2>5 DEF Begin, NoCall
    <3> QED BY <3>1 DEF PassedOver
  <2>6. ASSUME NEW k \in 1..Len(TransitionsOf(call.from)), Match(k) PROVE PassedOver'
    <3>1. /\ call'.i = k /\ call'.from = call.from /\ call'.event = call.event
          /\ call'.meta = NoState /\ call.meta = NoState
          /\ transitions_' = transitions_ /\ phase = "matching"
      BY <2>6 DEF Match, TypeOK
    <3>2. phase' = IF TransitionsOf(call.from)[k].internal THEN "firing" ELSE "exiting"
      BY <2>6 DEF Match, Enter
    <3>3. Chosen' = TransitionsOf(call.from)[k] /\ TransitionsOf(call.from)' = TransitionsOf(call.from)
      BY <3>1 DEF Chosen, Over, TransitionsOf
    <3>4. call.i \in Nat /\ k \in Nat /\ Len(TransitionsOf(call.from)) \in Nat
      BY TransitionsAreASequence DEF TypeOK
    <3>5. \A j \in call.i..(k - 1) : call.event \notin TransitionsOf(call.from)[j].on
      BY <2>6 DEF Match, IsNextMatch
    <3>6. \A j \in 1..(k - 1) : j \in 1..(call.i - 1) \/ j \in call.i..(k - 1)
      BY <3>4
    <3> QED BY <3>1, <3>2, <3>3, <3>5, <3>6 DEF PassedOver
  <2>7. ASSUME NEW k \in 1..Len(TransitionsOf(meta_state_)), MatchMeta(k) PROVE PassedOver'
    <3>1. call'.meta = meta_state_ /\ call'.i = k /\ transitions_' = transitions_
      BY <2>7 DEF MatchMeta, TypeOK
    <3>2. meta_state_ # NoState
      BY DEF TransitionsOf
    <3>3. Chosen' = TransitionsOf(meta_state_)[k]
      BY <3>1, <3>2 DEF Chosen, Over, TransitionsOf
    <3>4. phase' = IF TransitionsOf(meta_state_)[k].internal THEN "firing" ELSE "exiting"
      BY <2>7 DEF MatchMeta, Enter
    <3> QED BY <3>1, <3>2, <3>3, <3>4 DEF PassedOver
  <2>8. ASSUME ExitReturns PROVE PassedOver'
    BY <2>8, ChosenStays DEF ExitReturns, PassedOver
  <2>9. ASSUME InternalReturns PROVE PassedOver'
    <3>1. /\ call' = [call EXCEPT !.i = call.i + 1] /\ call.i \in Nat
          /\ call.meta = NoState /\ Chosen.internal
          /\ phase = "firing" /\ phase' = "matching" /\ transitions_' = transitions_
      BY <2>9 DEF InternalReturns, TypeOK
    <3>2. call'.i = call.i + 1 /\ call'.from = call.from /\ call'.event = call.event
      BY <3>1 DEF TypeOK
    <3>3. TransitionsOf(call.from)' = TransitionsOf(call.from)
      BY <3>1, <3>2 DEF TransitionsOf
    <3>4. \A j \in 1..(call'.i - 1) : j \in 1..(call.i - 1) \/ j = call.i
      BY <3>1, <3>2
    <3>5. TransitionsOf(call.from)[call.i].internal
      BY <3>1 DEF Chosen, Over
    <3> QED BY <3>1, <3>2, <3>3, <3>4, <3>5 DEF PassedOver
  <2>10. CASE UNCHANGED vars
    BY <2>10, <2>a DEF vars, code
  <2>11. ASSUME MatchNothing \/ PredicateThrows \/ MetaInternalReturns \/ EnterReturns
                \/ \E attached \in BOOLEAN : TransitionReturns(attached)
         PROVE  PassedOver'
    <3>1. phase' \in {"idle", "entering", "crashed"}
      BY <2>11 DEF MatchNothing, PredicateThrows, MetaInternalReturns, EnterReturns,
                   TransitionReturns, Return
    <3> QED BY <3>1, <2>b
  <2> QED BY <2>1, <2>2, <2>3, <2>4, <2>5, <2>6, <2>7, <2>8, <2>9, <2>10, <2>11
          DEF Next, UserCode, Matching, CallbackReturns, Dispatch, TimerExpires
<1> QED BY <1>1, <1>2, TypeCorrect, PTL DEF Spec

-----------------------------------------------------------------------------
(* The table and what has fired                                            *)

\* One more transition has fired, behind all the others.
LEMMA OneMoreFired ==
    ASSUME NEW ks \in Seq(Nat), NEW S, AreThoseOf(ks, S), NEW k \in Nat, \A n \in S : n < k
    PROVE  Append(ks, k) \in Seq(Nat) /\ AreThoseOf(Append(ks, k), S \cup {k})
<1>. DEFINE new == Append(ks, k)
<1>1. /\ new \in Seq(Nat) /\ Len(ks) \in Nat /\ DOMAIN ks = 1..Len(ks)
      /\ DOMAIN new = 1..(Len(ks) + 1)
      /\ \A i \in 1..Len(ks) : new[i] = ks[i] /\ ks[i] \in Nat
      /\ new[Len(ks) + 1] = k
  OBVIOUS
<1>2. \A i \in 1..(Len(ks) + 1) : i \in 1..Len(ks) \/ i = Len(ks) + 1
  BY <1>1
<1>. HIDE DEF new
<1>3. \A i \in 1..Len(ks) : new[i] \in S
  BY <1>1 DEF AreThoseOf
<1>4. ASSUME NEW i \in DOMAIN new, NEW j \in DOMAIN new, i < j
      PROVE  new[i] < new[j]
  <2>1. i \in 1..Len(ks)
    BY <1>1, <1>4
  <2>2. CASE j = Len(ks) + 1
    BY <1>1, <1>3, <2>1, <2>2
  <2>3. CASE j \in 1..Len(ks)
    BY <1>1, <1>4, <2>1, <2>3 DEF AreThoseOf
  <2>. QED BY <1>1, <1>2, <2>2, <2>3
<1>5. {new[i] : i \in DOMAIN new} = S \cup {k}
  <2>1. \A n \in S : \E i \in 1..Len(ks) : n = new[i]
    BY <1>1 DEF AreThoseOf
  <2>0. Len(ks) + 1 \in DOMAIN new /\ 1..Len(ks) \subseteq DOMAIN new
    BY <1>1
  <2>2. \A n \in S \cup {k} : \E i \in DOMAIN new : n = new[i]
    BY <1>1, <2>0, <2>1
  <2>3. \A i \in DOMAIN new : new[i] \in S \cup {k}
    BY <1>1, <1>2, <1>3
  <2>. QED BY <2>2, <2>3
<1>. QED BY <1>1, <1>4, <1>5 DEF AreThoseOf, new

\* The state and the event of a call, and the table, say what should fire.
LEMMA TableStays ==
    ASSUME transitions_' = transitions_, NEW s, NEW event
    PROVE  /\ TransitionsOf(s)' = TransitionsOf(s)
           /\ ShouldFire(s, event)' = ShouldFire(s, event)
           /\ HasWayOut(s, event)' = HasWayOut(s, event)
<1>1. TransitionsOf(s)' = TransitionsOf(s)
  BY DEF TransitionsOf
<1>. QED BY <1>1 DEF ShouldFire, HasWayOut

Due == ShouldFire(call.from, call.event)
DueBefore == {k \in Due : k < call.i}
DueUpTo == {k \in Due : k <= call.i}
WayOut == HasWayOut(call.from, call.event)

LEMMA DueArePositions == TypeOK => Due \subseteq Nat \ {0}
BY TransitionsAreASequence DEF Due, ShouldFire, TypeOK

\* At the iterator, the transitions before it that should fire have; once a
\* normal one has been chosen, or the loop has ended, all of them have.
FiredSoFar ==
    /\ fired \in Seq(Nat)
    /\ phase # "idle" => result = "none"
    /\ phase = "matching" => AreThoseOf(fired, DueBefore)
    /\ phase \in {"exiting", "firing"} /\ call.meta = NoState =>
          call.i \in Due /\ AreThoseOf(fired, DueUpTo)
    /\ phase = "entering" /\ call.meta = NoState => WayOut /\ AreThoseOf(fired, Due)
    /\ phase \in {"exiting", "firing", "entering"} /\ call.meta # NoState =>
          /\ ~WayOut /\ AreThoseOf(fired, Due)
          /\ IsNextMatch(TransitionsOf(call.meta), 1, call.i)

\* When the first loop has come to its end, no transition leads out, and all that
\* should fire are before the iterator.
LEMMA EndOfFirstLoop ==
    ASSUME TypeOK, PassedOver, FirstLoopEnds
    PROVE  ~WayOut /\ Due = DueBefore
<1>. DEFINE ts == TransitionsOf(call.from)
<1>1. ts \in Seq(Transition) /\ call.i \in Nat /\ phase = "matching" /\ call.meta = NoState
  BY TransitionsAreASequence DEF TypeOK, FirstLoopEnds
<1>2. DOMAIN ts = 1..Len(ts) /\ Len(ts) \in Nat
  BY <1>1
<1>3. \A k \in DOMAIN ts : k >= call.i => call.event \notin ts[k].on
  BY <1>1, <1>2 DEF FirstLoopEnds, NoneMatch
<1>4. \A k \in DOMAIN ts : k < call.i => ts[k].internal \/ call.event \notin ts[k].on
  BY <1>1, <1>2 DEF PassedOver
<1>5. \A k \in DOMAIN ts : k \in Nat /\ (k < call.i \/ k >= call.i)
  BY <1>1, <1>2
<1>. QED BY <1>3, <1>4, <1>5 DEF WayOut, HasWayOut, Due, ShouldFire, DueBefore

\* A normal transition that has been chosen is the way out, and the last to fire.
LEMMA ChosenIsTheWayOut ==
    ASSUME TypeOK, FiredSoFar, phase = "firing", call.meta = NoState, ~Chosen.internal
    PROVE  WayOut /\ Due = DueUpTo
<1>. DEFINE ts == TransitionsOf(call.from)
<1>1. ts \in Seq(Transition) /\ call.i \in Due /\ Chosen = ts[call.i]
  BY TransitionsAreASequence DEF TypeOK, FiredSoFar, Chosen, Over
<1>2. call.i \in DOMAIN ts /\ call.event \in ts[call.i].on /\ ~ts[call.i].internal
  BY <1>1 DEF Due, ShouldFire
<1>3. ASSUME NEW k \in Due PROVE k <= call.i
  <2>1. k \in Nat /\ call.i \in Nat /\ call.i # 0
    BY <1>1, <1>2 DEF Due, ShouldFire
  <2>2. call.i < k => call.i \in 1..(k - 1)
    BY <2>1
  <2>. QED BY <1>2, <2>1, <2>2 DEF Due, ShouldFire, IsReached
<1>. QED BY <1>2, <1>3 DEF WayOut, HasWayOut, DueUpTo

LEMMA FiredIsInvariant == Spec => []FiredSoFar
<1>1. Init => FiredSoFar
  BY DEF Init, FiredSoFar
<1>2. TypeOK /\ PassedOver /\ FiredSoFar /\ [Next]_vars => FiredSoFar'
  <2>. SUFFICES ASSUME TypeOK, PassedOver, FiredSoFar, [Next]_vars PROVE FiredSoFar'
    OBVIOUS
  <2>. USE StateMachineAssumption
  <2>a. ASSUME transitions_' = transitions_, call' = call, phase' = phase,
               fired' = fired, result' = result
        PROVE  FiredSoFar'
    <3>1. Due' = Due /\ WayOut' = WayOut /\ DueBefore' = DueBefore /\ DueUpTo' = DueUpTo
      <4>1. Due' = Due /\ WayOut' = WayOut
        BY <2>a, TableStays DEF Due, WayOut
      <4>. QED BY <2>a, <4>1 DEF DueBefore, DueUpTo
    <3>2. TransitionsOf(call.meta)' = TransitionsOf(call.meta)
      BY <2>a DEF TransitionsOf
    <3>. QED BY <2>a, <3>1, <3>2 DEF FiredSoFar, IsNextMatch
  <2>b. ASSUME phase' = "idle", fired' = <<>> PROVE FiredSoFar'
    BY <2>b DEF FiredSoFar
  <2>1. ASSUME NEW from \in States, NEW t \in Transition, MakeTransition(from, t)
        PROVE  FiredSoFar'
    BY <2>1 DEF MakeTransition, FiredSoFar
  <2>2. ASSUME NEW state \in Owned, ForceState(state) \/ SetMetaState(state)
        PROVE  FiredSoFar'
    BY <2>2, <2>a DEF ForceState, SetMetaState
  <2>3. ASSUME ClearMetaState PROVE FiredSoFar'
    BY <2>3, <2>a DEF ClearMetaState
  <2>4. ASSUME NEW period \in UserPeriods, SetTimeout(period) PROVE FiredSoFar'
    BY <2>4, <2>a DEF SetTimeout
  <2>5. ASSUME NEW event, Begin(event) PROVE FiredSoFar'
    <3>1. /\ call'.i = 1 /\ phase' = "matching" /\ result' = "none" /\ fired' = <<>>
      BY <2>5 DEF Begin, NoCall
    <3>2. Due' = ShouldFire(current_state_, event) /\ DueBefore' = {k \in Due' : k < 1}
      <4>1. call'.from = current_state_ /\ call'.event = event /\ transitions_' = transitions_
        BY <2>5 DEF Begin, NoCall
      <4>. QED BY <3>1, <4>1, TableStays DEF Due, DueBefore
    <3>3. ShouldFire(current_state_, event) \subseteq Nat \ {0}
      BY TransitionsAreASequence DEF ShouldFire, TypeOK
    <3>4. DueBefore' = {}
      BY <3>2, <3>3
    <3>5. AreThoseOf(<<>>, {}) /\ <<>> \in Seq(Nat)
      BY DEF AreThoseOf
    <3>. QED BY <3>1, <3>4, <3>5 DEF FiredSoFar
  <2>6. ASSUME NEW k \in 1..Len(TransitionsOf(call.from)), Match(k) PROVE FiredSoFar'
    <3>. DEFINE ts == TransitionsOf(call.from)
    <3>1. /\ call'.i = k /\ call'.from = call.from /\ call'.event = call.event
          /\ call'.meta = NoState /\ call.meta = NoState /\ call.i \in Nat
          /\ transitions_' = transitions_ /\ phase = "matching"
          /\ fired' = Append(fired, k) /\ result' = result
      BY <2>6 DEF Match, TypeOK
    <3>2. phase' \in {"exiting", "firing"}
      BY <2>6 DEF Match, Enter
    <3>3. ts \in Seq(Transition) /\ Len(ts) \in Nat /\ DOMAIN ts = 1..Len(ts)
      BY TransitionsAreASequence DEF TypeOK
    <3>4. /\ k \in call.i..Len(ts) /\ call.event \in ts[k].on
          /\ \A j \in call.i..(k - 1) : call.event \notin ts[j].on
      BY <2>6 DEF Match, IsNextMatch
    <3>5. \A j \in 1..(k - 1) : j \in DOMAIN ts /\ (j \in 1..(call.i - 1) \/ j \in call.i..(k - 1))
      BY <3>1, <3>3, <3>4
    <3>6. IsReached(ts, call.event, k)
      BY <3>1, <3>4, <3>5 DEF IsReached, PassedOver
    <3>7. k \in Due
      BY <3>3, <3>4, <3>6 DEF Due, ShouldFire
    <3>10. Due' = Due
      BY <3>1, TableStays DEF Due
    <3>8. DueUpTo' = DueBefore \cup {k}
      <4>1. ASSUME NEW n \in Due PROVE n <= k <=> n < call.i \/ n = k
        <5>1. n \in 1..Len(ts) /\ call.event \in ts[n].on
          BY <3>3 DEF Due, ShouldFire
        <5>2. n \notin call.i..(k - 1)
          BY <3>4, <5>1
        <5>. QED BY <3>1, <3>3, <3>4, <5>1, <5>2
      <4>2. DueUpTo' = {n \in Due : n <= k}
        BY <3>1, <3>10 DEF DueUpTo
      <4>3. \A n : n \in DueBefore <=> n \in Due /\ n < call.i
        BY DEF DueBefore
      <4>4. \A n : n \in {q \in Due : q <= k} <=> n \in DueBefore \cup {k}
        BY <3>7, <4>1, <4>3, Zenon
      <4>. QED BY <4>2, <4>4, Zenon
    <3>9. AreThoseOf(Append(fired, k), DueBefore \cup {k}) /\ Append(fired, k) \in Seq(Nat)
      <4>1. \A n \in DueBefore : n < k
        BY <3>1, <3>3, <3>4 DEF DueBefore, Due, ShouldFire
      <4>2. fired \in Seq(Nat) /\ AreThoseOf(fired, DueBefore)
        BY <3>1 DEF FiredSoFar
      <4>3. k \in Nat
        OBVIOUS
      <4>. QED BY <4>1, <4>2, <4>3, OneMoreFired
    <3>11. result' = "none"
      BY <3>1 DEF FiredSoFar
    <3>. QED BY <3>1, <3>2, <3>7, <3>8, <3>9, <3>10, <3>11 DEF FiredSoFar
  <2>7. ASSUME NEW k \in 1..Len(TransitionsOf(meta_state_)), MatchMeta(k) PROVE FiredSoFar'
    <3>1. /\ FirstLoopEnds /\ phase = "matching"
          /\ call'.meta = meta_state_ /\ call'.i = k /\ transitions_' = transitions_
          /\ call'.from = call.from /\ call'.event = call.event
          /\ fired' = fired /\ result' = result /\ phase' \in {"exiting", "firing"}
      BY <2>7 DEF MatchMeta, FirstLoopEnds, Enter, TypeOK
    <3>2. meta_state_ # NoState
      BY DEF TransitionsOf
    <3>3. ~WayOut /\ AreThoseOf(fired, Due)
      BY <3>1, EndOfFirstLoop DEF FiredSoFar
    <3>4. Due' = Due /\ WayOut' = WayOut
      BY <3>1, TableStays DEF Due, WayOut
    <3>5. TransitionsOf(call.meta)' = TransitionsOf(meta_state_)
      BY <3>1 DEF TransitionsOf
    <3>6. IsNextMatch(TransitionsOf(call.meta), 1, call.i)'
      BY <2>7, <3>1, <3>5 DEF MatchMeta, IsNextMatch
    <3>7. result' = "none" /\ fired' \in Seq(Nat)
      BY <3>1 DEF FiredSoFar
    <3>. QED BY <3>1, <3>2, <3>3, <3>4, <3>6, <3>7 DEF FiredSoFar
  <2>c. ASSUME transitions_' = transitions_, call' = call, fired' = fired, result' = result
        PROVE  /\ Due' = Due /\ WayOut' = WayOut /\ DueUpTo' = DueUpTo
               /\ IsNextMatch(TransitionsOf(call.meta), 1, call.i)'
                    <=> IsNextMatch(TransitionsOf(call.meta), 1, call.i)
    <3>1. TransitionsOf(call.meta)' = TransitionsOf(call.meta)
      BY <2>c DEF TransitionsOf
    <3>2. Due' = Due /\ WayOut' = WayOut
      BY <2>c, TableStays DEF Due, WayOut
    <3>. QED BY <2>c, <3>1, <3>2 DEF IsNextMatch, DueUpTo
  <2>8. ASSUME ExitReturns PROVE FiredSoFar'
    BY <2>8, <2>c DEF ExitReturns, FiredSoFar
  <2>9. ASSUME NEW attached \in BOOLEAN, TransitionReturns(attached) PROVE FiredSoFar'
    <3>1. /\ phase = "firing" /\ ~Chosen.internal /\ phase' \in {"entering", "crashed"}
          /\ transitions_' = transitions_ /\ call' = call /\ fired' = fired /\ result' = result
      BY <2>9 DEF TransitionReturns
    <3>2. call.meta = NoState => WayOut /\ AreThoseOf(fired, Due)
      BY <3>1, ChosenIsTheWayOut DEF FiredSoFar
    <3>. QED BY <2>c, <3>1, <3>2 DEF FiredSoFar
  <2>10. ASSUME InternalReturns PROVE FiredSoFar'
    <3>1. /\ call' = [call EXCEPT !.i = call.i + 1] /\ call.i \in Nat
          /\ call.meta = NoState /\ phase = "firing" /\ phase' = "matching"
          /\ transitions_' = transitions_ /\ fired' = fired /\ result' = result
      BY <2>10 DEF InternalReturns, TypeOK
    <3>2. /\ call'.i = call.i + 1 /\ call'.from = call.from /\ call'.event = call.event
      BY <3>1 DEF TypeOK
    <3>3. Due' = Due
      BY <3>1, <3>2, TableStays DEF Due
    <3>5. DueUpTo = DueBefore'
      <4>1. \A k \in Due : k <= call.i <=> k < call'.i
        BY <3>1, <3>2, DueArePositions
      <4>. QED BY <3>3, <4>1 DEF DueUpTo, DueBefore
    <3>. QED BY <3>1, <3>2, <3>3, <3>5 DEF FiredSoFar
  <2>11. ASSUME MatchNothing \/ PredicateThrows \/ MetaInternalReturns \/ EnterReturns
         PROVE  FiredSoFar'
    BY <2>11, <2>b DEF MatchNothing, PredicateThrows, MetaInternalReturns, EnterReturns, Return
  <2>12. CASE UNCHANGED vars
    BY <2>12, <2>a DEF vars, code
  <2>. QED BY <2>1, <2>2, <2>3, <2>4, <2>5, <2>6, <2>7, <2>8, <2>9, <2>10, <2>11, <2>12
           DEF Next, UserCode, Matching, CallbackReturns, Dispatch, TimerExpires
<1>. QED BY <1>1, <1>2, TypeCorrect, PassedOverIsInvariant, PTL DEF Spec

\* Whatever callbacks force, set or clear on the way, a call of Process fires
\* the transitions that the table gives for its event, in the order of the table,
\* and says truly whether one of them settled it (machine.cc:108-279).
THEOREM TableIsFollowed == Spec => FollowsTheTable
<1>. DEFINE Ends == phase # "idle" /\ phase' \in {"idle", "crashed"} /\ result' # "threw"
            Follows ==
              LET ts == TransitionsOf(meta_state_)
                  wayOut == HasWayOut(call.from, call.event)
              IN  /\ AreThoseOf(fired, ShouldFire(call.from, call.event))
                  /\ call.meta # NoState =>
                       ~wayOut /\ IsNextMatch(TransitionsOf(call.meta), 1, call.i)
                  /\ result' = "false" <=>
                       phase' = "idle" /\ call.meta = NoState /\ ~wayOut
                  /\ result' = "false" /\ call.from # NoState =>
                       \A k \in DOMAIN ts : call.event \notin ts[k].on
<1>1. TypeOK /\ PassedOver /\ WalkInvariant /\ FiredSoFar /\ [Next]_vars
         => [Ends => Follows]_vars
  <2>. SUFFICES ASSUME TypeOK, PassedOver, WalkInvariant, FiredSoFar, Next, Ends
                PROVE  Follows
    OBVIOUS
  <2>. USE StateMachineAssumption DEF Due, WayOut
  <2>1. CASE MatchNothing
    <3>1. /\ FirstLoopEnds /\ call.meta = NoState /\ current_state_ = call.from
          /\ phase = "matching" /\ phase' = "idle" /\ result' = "false"
      BY <2>1 DEF MatchNothing, FirstLoopEnds, Return, TypeOK, WalkInvariant,
                  LoopStaysOnItsVector
    <3>2. ~WayOut /\ AreThoseOf(fired, Due)
      BY <3>1, EndOfFirstLoop DEF FiredSoFar
    <3>3. TransitionsOf(meta_state_) \in Seq(Transition)
      BY TransitionsAreASequence DEF TypeOK
    <3>4. call.from # NoState =>
             \A k \in DOMAIN TransitionsOf(meta_state_) :
                call.event \notin TransitionsOf(meta_state_)[k].on
      BY <2>1, <3>1, <3>3 DEF MatchNothing, NoneMatch
    <3>. QED BY <3>1, <3>2, <3>4
  <2>2. CASE \E attached \in BOOLEAN : TransitionReturns(attached)
    <3>1. phase = "firing" /\ ~Chosen.internal /\ phase' # "idle" /\ result' = "none"
      BY <2>2 DEF TransitionReturns, FiredSoFar
    <3>2. call.meta = NoState => WayOut /\ AreThoseOf(fired, Due)
      BY <3>1, ChosenIsTheWayOut DEF FiredSoFar
    <3>. QED BY <3>1, <3>2 DEF FiredSoFar
  <2>3. CASE MetaInternalReturns
    BY <2>3 DEF MetaInternalReturns, Return, FiredSoFar
  <2>4. CASE EnterReturns
    BY <2>4 DEF EnterReturns, Return, FiredSoFar
  <2>5. CASE PredicateThrows
    BY <2>5 DEF PredicateThrows, Return
  <2>6. ASSUME UserCode \/ (\E event \in UserEvents : Dispatch(event)) \/ TimerExpires
        PROVE  FALSE
    <3>1. phase' = phase \/ phase = "idle"
      BY <2>6 DEF UserCode, Dispatch, TimerExpires, MakeTransition, ForceState, SetMetaState,
                  ClearMetaState, SetTimeout
    <3>2. phase # "crashed"
      BY <2>6 DEF UserCode, Dispatch, TimerExpires, MakeTransition, ForceState, SetMetaState,
                  ClearMetaState, SetTimeout, UserCodeRuns
    <3>. QED BY <3>1, <3>2
  <2>7. ASSUME \/ \E k \in 1..Len(TransitionsOf(call.from)) : Match(k)
               \/ \E k \in 1..Len(TransitionsOf(meta_state_)) : MatchMeta(k)
               \/ ExitReturns \/ InternalReturns
        PROVE  FALSE
    BY <2>7 DEF Match, MatchMeta, Enter, ExitReturns, InternalReturns
  <2>. QED BY <2>1, <2>2, <2>3, <2>4, <2>5, <2>6, <2>7 DEF Next, Matching, CallbackReturns
<1>. QED BY <1>1, TypeCorrect, PassedOverIsInvariant, WalkIsInvariant, FiredIsInvariant, PTL
         DEF Spec, FollowsTheTable

-----------------------------------------------------------------------------
(* StateGraph                                                              *)

\* The refinement.  A call decides its event when a normal or a meta
\* transition matches, follows the edge through OnExit and OnTransition, and
\* arrives when the new state is set; what it does before, in between and after
\* is invisible.
THEOREM MachineIsAGraph == Spec => ImplementsGraph
<1> DEFINE At == IF phase \in {"exiting", "firing"} THEN Chosen.to ELSE current_state_
           Pending == IF phase = "matching" \/ FiringInFirstLoop THEN call.event ELSE NoEvent
           Moving == phase \in {"exiting", "firing"} /\ ~FiringInFirstLoop
<1>1. Init => Graph!GraphInit
  BY DEF Init, Graph!GraphInit, FiringInFirstLoop
<1>2. TypeOK /\ WalkInvariant /\ PassedOver /\ PassedOver' /\ [Next]_vars
        => [Graph!GraphNext]_(Graph!graphVars)
  <2> SUFFICES ASSUME TypeOK, WalkInvariant, PassedOver, PassedOver', [Next]_vars
               PROVE  Graph!GraphNext \/ UNCHANGED Graph!graphVars
    OBVIOUS
  <2> USE StateMachineAssumption
  <2>e. \A s : Graph!EdgesOf(s) = TransitionsOf(s)
    BY DEF Graph!EdgesOf, TransitionsOf
  <2>s. ASSUME transitions_' = transitions_, meta_state_' = meta_state_,
               At' = At, Pending' = Pending, Moving' = Moving
        PROVE  UNCHANGED Graph!graphVars
    BY <2>s DEF Graph!graphVars
  <2>i. ASSUME phase \in {"idle", "entering"}
        PROVE  At = current_state_ /\ Pending = NoEvent /\ ~Moving
    BY <2>i DEF FiringInFirstLoop
  <2>i1. ASSUME phase' \in {"idle", "entering", "crashed"}
         PROVE  At' = current_state_' /\ Pending' = NoEvent /\ ~Moving'
    BY <2>i1 DEF FiringInFirstLoop
  <2>m. ASSUME phase = "matching"
        PROVE  /\ At = call.from /\ Pending = call.event /\ ~Moving
               /\ current_state_ = call.from /\ call.meta = NoState
               /\ call.event # NoEvent
    BY <2>m DEF FiringInFirstLoop, WalkInvariant, LoopStaysOnItsVector, TypeOK
  \* Nothing of what the graph sees depends on the rest of the machine.
  <2>k. ASSUME transitions_' = transitions_, phase' = phase, call' = call
        PROVE  /\ phase \in {"exiting", "firing"} => At' = At
               /\ Pending' = Pending /\ Moving' = Moving
    BY <2>k, ChosenStays DEF FiringInFirstLoop
  <2>1. ASSUME NEW from \in States, NEW t \in Transition, MakeTransition(from, t)
        PROVE  Graph!AddEdge(from, t)
    <3>1. /\ phase = "idle" /\ phase' = "idle"
          /\ current_state_' = current_state_ /\ meta_state_' = meta_state_
          /\ transitions_' = [transitions_ EXCEPT ![from] = Append(@, t)]
      BY <2>1 DEF MakeTransition
    <3>2. /\ At' = At /\ Pending = NoEvent /\ Pending' = NoEvent
          /\ Moving = FALSE /\ Moving' = FALSE
      BY <2>i, <2>i1, <3>1
    <3> QED BY <3>1, <3>2 DEF Graph!AddEdge, Graph!Free
  <2>2. ASSUME NEW state \in Owned, ForceState(state)
        PROVE  Graph!Force(state) \/ UNCHANGED Graph!graphVars
    <3>1. /\ transitions_' = transitions_ /\ phase' = phase /\ call' = call
          /\ meta_state_' = meta_state_ /\ current_state_' = state
          /\ phase \in {"idle", "exiting", "firing", "entering"}
      BY <2>2 DEF ForceState, UserCodeRuns
    <3>2. CASE phase \in {"idle", "entering"}
      <4>1. At' = state /\ Pending = NoEvent /\ Moving = FALSE
            /\ Pending' = Pending /\ Moving' = Moving
        BY <2>i, <2>i1, <3>1, <3>2
      <4> QED BY <3>1, <4>1 DEF Graph!Force, Graph!Free
    <3>3. CASE phase \in {"exiting", "firing"}
      BY <2>k, <2>s, <3>1, <3>3
    <3> QED BY <3>1, <3>2, <3>3
  <2>b. ASSUME transitions_' = transitions_, phase' = phase, call' = call,
               current_state_' = current_state_
        PROVE  At' = At /\ Pending' = Pending /\ Moving' = Moving
    <3>1. CASE phase \in {"exiting", "firing"}
      BY <2>b, <2>k, <3>1
    <3>2. CASE phase \notin {"exiting", "firing"}
      BY <2>b, <2>k, <3>2
    <3> QED BY <3>1, <3>2
  <2>3. ASSUME NEW state \in Owned, SetMetaState(state) PROVE Graph!SetMeta(state)
    BY <2>3, <2>b DEF SetMetaState, Graph!SetMeta
  <2>4. ASSUME ClearMetaState PROVE Graph!SetMeta(NoState)
    BY <2>4, <2>b DEF ClearMetaState, Graph!SetMeta
  <2>5. ASSUME NEW period \in UserPeriods, SetTimeout(period)
        PROVE  UNCHANGED Graph!graphVars
    BY <2>5, <2>b, <2>s DEF SetTimeout
  <2>6. ASSUME NEW event \in Events, phase = "idle", Begin(event)
        PROVE  Graph!Accept(event)
    <3>1. /\ phase' = "matching" /\ call'.event = event
          /\ transitions_' = transitions_ /\ current_state_' = current_state_
          /\ meta_state_' = meta_state_
      BY <2>6 DEF Begin, NoCall
    <3>2. At' = At /\ Pending = NoEvent /\ Moving = FALSE
      BY <2>i, <2>6, <3>1
    <3>3. Pending' = event /\ Moving' = FALSE
      BY <3>1
    <3> QED BY <3>1, <3>2, <3>3 DEF Graph!Accept, Graph!Free
  \* No transition that was passed over, or that did not match, leads away.
  <2>p. ASSUME phase = "matching", NEW k \in Nat,
               \A j \in call.i..(k - 1) : call.event \notin TransitionsOf(call.from)[j].on
        PROVE  \A j \in 1..(k - 1) : j \in DOMAIN TransitionsOf(call.from) =>
                  \/ TransitionsOf(call.from)[j].internal
                  \/ call.event \notin TransitionsOf(call.from)[j].on
    <3>1. call.i \in Nat
      BY DEF TypeOK
    <3>2. \A j \in 1..(k - 1) : j \in 1..(call.i - 1) \/ j \in call.i..(k - 1)
      BY <3>1
    <3> QED BY <2>p, <2>m, <3>2 DEF PassedOver
  <2>q. ASSUME FirstLoopEnds
        PROVE  /\ Graph!StaysPut(TransitionsOf(call.from), call.event)
               /\ phase = "matching"
    <3>1. phase = "matching" /\ NoneMatch(TransitionsOf(call.from), call.i)
      BY <2>q DEF FirstLoopEnds
    <3>2. TransitionsOf(call.from) \in Seq(Transition)
      BY TransitionsAreASequence DEF TypeOK
    <3> DEFINE k == Len(TransitionsOf(call.from)) + 1
    <3>3. k \in Nat /\ k - 1 = Len(TransitionsOf(call.from))
      BY <3>2
    <3>4. \A j \in call.i..(k - 1) : call.event \notin TransitionsOf(call.from)[j].on
      BY <3>1, <3>3 DEF NoneMatch
    <3>5. \A j \in 1..(k - 1) : j \in DOMAIN TransitionsOf(call.from) =>
             \/ TransitionsOf(call.from)[j].internal
             \/ call.event \notin TransitionsOf(call.from)[j].on
      BY <2>p, <3>1, <3>3, <3>4
    <3>6. DOMAIN TransitionsOf(call.from) = 1..(k - 1)
      BY <3>2, <3>3
    <3> QED BY <3>1, <3>5, <3>6 DEF Graph!StaysPut
  <2>7. ASSUME NEW k \in 1..Len(TransitionsOf(call.from)), Match(k)
        PROVE  Graph!Decide \/ UNCHANGED Graph!graphVars
    <3> DEFINE ts == TransitionsOf(call.from)
    <3>1. /\ phase = "matching" /\ transitions_' = transitions_
          /\ meta_state_' = meta_state_ /\ current_state_' = current_state_
          /\ call'.i = k /\ call'.from = call.from /\ call'.event = call.event
          /\ call'.meta = NoState
      BY <2>7 DEF Match, TypeOK
    <3>2. phase' = IF ts[k].internal THEN "firing" ELSE "exiting"
      BY <2>7 DEF Match, Enter
    <3>3. Chosen' = ts[k]
      BY <3>1 DEF Chosen, Over, TransitionsOf
    <3>4. call.from \in States /\ ts = transitions_[call.from] /\ ts \in Seq(Transition)
      BY DEF TypeOK, TransitionsOf, StateOrNone
    <3>5. /\ At = call.from /\ Pending = call.event /\ Moving = FALSE
          /\ call.event # NoEvent
      BY <2>m, <3>1
    <3>6. CASE ts[k].internal
      <4>1. ts[k].to = call.from
        BY <3>4, <3>6 DEF TypeOK
      <4>2. FiringInFirstLoop' /\ phase' = "firing"
        BY <3>1, <3>2, <3>3, <3>6 DEF FiringInFirstLoop
      <4>3. At' = At /\ Pending' = Pending /\ Moving' = Moving
        BY <3>1, <3>3, <3>5, <4>1, <4>2
      <4> QED BY <2>s, <3>1, <4>3
    <3>7. CASE ~ts[k].internal
      <4>1. phase' = "exiting" /\ ~FiringInFirstLoop'
        BY <3>2, <3>7 DEF FiringInFirstLoop
      <4>2. At' = ts[k].to /\ Pending' = NoEvent /\ Moving' = TRUE
        BY <3>3, <4>1
      <4>3. k \in Nat /\ k \in DOMAIN ts /\ \A j \in 1..(k - 1) : j \in DOMAIN ts
        BY <3>4
      <4>4. /\ call.event \in ts[k].on
            /\ \A j \in call.i..(k - 1) : call.event \notin ts[j].on
        BY <2>7 DEF Match, IsNextMatch
      <4>5. Graph!Leads(ts, call.event, k)
        BY <2>p, <3>1, <3>7, <4>3, <4>4 DEF Graph!Leads
      <4>6. Graph!EdgesOf(At) = ts
        BY <2>e, <3>5
      <4>7. Graph!FollowEdge(k)
        BY <3>1, <3>5, <4>2, <4>5, <4>6 DEF Graph!FollowEdge, Graph!MoveTo
      <4> QED BY <3>5, <4>3, <4>6, <4>7 DEF Graph!Decide
    <3> QED BY <3>6, <3>7
  <2>8. ASSUME NEW k \in 1..Len(TransitionsOf(meta_state_)), MatchMeta(k)
        PROVE  Graph!Decide
    <3> DEFINE ts == TransitionsOf(meta_state_)
    <3>1. /\ FirstLoopEnds /\ current_state_ # NoState /\ transitions_' = transitions_
          /\ meta_state_' = meta_state_ /\ current_state_' = current_state_
          /\ call'.i = k /\ call'.meta = meta_state_
      BY <2>8 DEF MatchMeta, TypeOK
    <3>2. meta_state_ \in States /\ ts \in Seq(Transition)
      BY DEF TypeOK, TransitionsOf, StateOrNone
    <3>3. Chosen' = ts[k] /\ ~FiringInFirstLoop' /\ phase' \in {"exiting", "firing"}
      BY <2>8, <3>1, <3>2 DEF MatchMeta, Enter, Chosen, Over, TransitionsOf, FiringInFirstLoop
    <3>4. At' = ts[k].to /\ Pending' = NoEvent /\ Moving' = TRUE
      BY <3>3
    <3>5. /\ At = call.from /\ Pending = call.event /\ Moving = FALSE
          /\ call.event # NoEvent /\ At # NoState
      BY <2>m, <2>q, <3>1
    <3>6. Graph!Takes(ts, call.event, k)
      BY <2>8, <3>2 DEF MatchMeta, IsNextMatch, Graph!Takes
    <3>7. Graph!StaysPut(Graph!EdgesOf(At), Pending)
      BY <2>e, <2>q, <3>1, <3>5
    <3>8. Graph!EdgesOf(meta_state_) = ts /\ k \in DOMAIN ts
      BY <2>e, <3>2
    <3>9. Graph!FollowMetaEdge(k)
      BY <3>1, <3>4, <3>5, <3>6, <3>7, <3>8 DEF Graph!FollowMetaEdge, Graph!MoveTo
    <3> QED BY <3>5, <3>8, <3>9 DEF Graph!Decide
  <2>9. ASSUME MatchNothing PROVE Graph!Decide
    <3>1. /\ FirstLoopEnds /\ phase' = "idle" /\ transitions_' = transitions_
          /\ meta_state_' = meta_state_ /\ current_state_' = current_state_
          /\ current_state_ # NoState => NoneMatch(TransitionsOf(meta_state_), 1)
      BY <2>9 DEF MatchNothing, Return
    <3>2. /\ At = call.from /\ Pending = call.event /\ Moving = FALSE
          /\ call.event # NoEvent /\ At = current_state_
      BY <2>m, <2>q, <3>1
    <3>3. At' = At /\ Pending' = NoEvent /\ Moving' = Moving
      BY <2>i1, <3>1, <3>2
    <3>4. TransitionsOf(meta_state_) \in Seq(Transition)
      BY TransitionsAreASequence DEF TypeOK
    <3>5. At = NoState \/ \A k \in DOMAIN Graph!EdgesOf(meta_state_) :
                             Pending \notin Graph!EdgesOf(meta_state_)[k].on
      <4>1. SUFFICES ASSUME current_state_ # NoState,
                            NEW k \in DOMAIN TransitionsOf(meta_state_)
                     PROVE  call.event \notin TransitionsOf(meta_state_)[k].on
        BY <2>e, <3>2
      <4>2. k \in 1..Len(TransitionsOf(meta_state_))
        BY <3>4
      <4>. QED BY <3>1, <4>1, <4>2 DEF NoneMatch
    <3>6. Graph!StaysPut(Graph!EdgesOf(At), Pending)
      BY <2>e, <2>q, <3>1, <3>2
    <3>7. Graph!Remain
      BY <3>1, <3>3, <3>5, <3>6 DEF Graph!Remain, Graph!Stay
    <3> QED BY <3>2, <3>7 DEF Graph!Decide
  <2>10. ASSUME PredicateThrows PROVE Graph!Decide
    <3>1. /\ phase = "matching" /\ phase' = "idle" /\ transitions_' = transitions_
          /\ meta_state_' = meta_state_ /\ current_state_' = current_state_
          /\ \/ call.i <= Len(TransitionsOf(call.from))
             \/ current_state_ # NoState /\ TransitionsOf(meta_state_) # <<>>
      BY <2>10 DEF PredicateThrows, Return
    <3>2. /\ At = call.from /\ Pending = call.event /\ Moving = FALSE
          /\ call.event # NoEvent /\ At = current_state_
      BY <2>m, <3>1
    <3>3. At' = At /\ Pending' = NoEvent /\ Moving' = Moving
      BY <2>i1, <3>1, <3>2
    <3>4. call.i \in Nat /\ call.i # 0
      BY <3>1 DEF TypeOK
    <3>5. TransitionsOf(call.from) = <<>> => ~(call.i <= Len(TransitionsOf(call.from)))
      BY <3>4
    <3>6. Graph!EdgesOf(At) # <<>> \/ (At # NoState /\ Graph!EdgesOf(meta_state_) # <<>>)
      BY <2>e, <3>1, <3>2, <3>5
    <3>7. Graph!Abandon
      BY <3>1, <3>3, <3>6 DEF Graph!Abandon, Graph!Stay
    <3> QED BY <3>2, <3>7 DEF Graph!Decide
  <2>11. ASSUME ExitReturns PROVE UNCHANGED Graph!graphVars
    <3>1. /\ phase = "exiting" /\ phase' = "firing" /\ call' = call
          /\ transitions_' = transitions_ /\ meta_state_' = meta_state_
      BY <2>11 DEF ExitReturns
    <3>2. Chosen' = Chosen /\ ~Chosen.internal
      BY <3>1, ChosenStays DEF PassedOver
    <3>3. ~FiringInFirstLoop /\ ~FiringInFirstLoop'
      BY <3>1, <3>2 DEF FiringInFirstLoop
    <3>4. At' = At /\ Pending' = Pending /\ Moving' = Moving
      BY <3>1, <3>2, <3>3
    <3> QED BY <2>s, <3>1, <3>4
  \* The new state is set, and it is the one the graph has been moving to.
  <2>v. ASSUME phase = "firing", ~FiringInFirstLoop, current_state_' = Chosen.to,
               transitions_' = transitions_, meta_state_' = meta_state_,
               phase' \in {"idle", "entering", "crashed"}
        PROVE  Graph!Arrive
    <3>1. Moving = TRUE /\ Pending = NoEvent /\ At = Chosen.to
      BY <2>v
    <3>2. Moving' = FALSE /\ Pending' = NoEvent /\ At' = current_state_'
      BY <2>v, <2>i1
    <3> QED BY <2>v, <3>1, <3>2 DEF Graph!Arrive
  <2>12. ASSUME NEW attached \in BOOLEAN, TransitionReturns(attached) PROVE Graph!Arrive
    <3>1. ~FiringInFirstLoop
      BY <2>12 DEF TransitionReturns, FiringInFirstLoop
    <3>2. phase' \in {"entering", "crashed"}
      BY <2>12 DEF TransitionReturns
    <3> QED BY <2>12, <2>v, <3>1, <3>2 DEF TransitionReturns
  <2>13. ASSUME InternalReturns PROVE UNCHANGED Graph!graphVars
    <3>1. /\ phase = "firing" /\ Chosen.internal /\ call.meta = NoState
          /\ phase' = "matching" /\ current_state_' = Chosen.to
          /\ transitions_' = transitions_ /\ meta_state_' = meta_state_
          /\ call'.event = call.event
      BY <2>13 DEF InternalReturns, TypeOK
    <3>2. FiringInFirstLoop /\ ~FiringInFirstLoop'
      BY <3>1 DEF FiringInFirstLoop
    <3>3. At' = At /\ Pending' = Pending /\ Moving' = Moving
      BY <3>1, <3>2
    <3> QED BY <2>s, <3>1, <3>3
  <2>14. ASSUME MetaInternalReturns PROVE Graph!Arrive
    <3>1. ~FiringInFirstLoop
      BY <2>14 DEF MetaInternalReturns, FiringInFirstLoop
    <3> QED BY <2>14, <2>v, <3>1 DEF MetaInternalReturns, Return
  <2>15. ASSUME EnterReturns PROVE UNCHANGED Graph!graphVars
    <3>1. /\ phase = "entering" /\ phase' = "idle" /\ transitions_' = transitions_
          /\ meta_state_' = meta_state_ /\ current_state_' = current_state_
      BY <2>15 DEF EnterReturns, Return
    <3>2. At' = At /\ Pending' = Pending /\ Moving' = Moving
      BY <2>i, <2>i1, <3>1
    <3> QED BY <2>s, <3>1, <3>2
  <2>16. CASE UNCHANGED vars
    BY <2>16, <2>b, <2>s DEF vars, code
  <2>17. CASE UserCode
    BY <2>17, <2>1, <2>2, <2>3, <2>4, <2>5 DEF UserCode, Graph!GraphNext
  <2>18. CASE (\E event \in UserEvents : Dispatch(event)) \/ TimerExpires
    BY <2>18, <2>6 DEF Dispatch, TimerExpires, Events, Graph!GraphNext
  <2>19. CASE Matching
    BY <2>19, <2>7, <2>8, <2>9, <2>10 DEF Matching, Graph!GraphNext
  <2>20. CASE CallbackReturns
    BY <2>20, <2>11, <2>12, <2>13, <2>14, <2>15 DEF CallbackReturns, Graph!GraphNext
  <2> QED BY <2>16, <2>17, <2>18, <2>19, <2>20 DEF Next
<1> QED BY <1>1, <1>2, TypeCorrect, WalkIsInvariant, PassedOverIsInvariant, PTL
        DEF Spec, ImplementsGraph, Graph!GraphSpec
-----------------------------------------------------------------------------
(* How long a call takes                                                   *)

\* The iterator is at a transition of the state the call began in, or at the end.
WithinTheTable == phase = "matching" => call.i <= Len(TransitionsOf(call.from)) + 1

\* The transitions of the first loop that a call has not tried, and its rest in
\* each phase.
Ahead == Len(TransitionsOf(call.from)) + 1 - call.i

LEMMA StepsLeftIs ==
    /\ phase = "matching" => StepsLeft = 2 * Ahead + 4
    /\ FiringInFirstLoop => StepsLeft = 2 * Ahead + 3
    /\ phase = "exiting" => StepsLeft = 3
    /\ phase = "firing" /\ ~FiringInFirstLoop => StepsLeft = 2
    /\ phase = "entering" => StepsLeft = 1
    /\ phase \in {"idle", "crashed"} => StepsLeft = 0
BY DEF StepsLeft, FiringInFirstLoop, Ahead

LEMMA WithinIsInvariant == Spec => []WithinTheTable
<1>1. Init => WithinTheTable
  BY DEF Init, WithinTheTable
<1>2. TypeOK /\ WithinTheTable /\ [Next]_vars => WithinTheTable'
  <2> SUFFICES ASSUME TypeOK, WithinTheTable, [Next]_vars PROVE WithinTheTable'
    OBVIOUS
  <2>0. ASSUME phase' # "matching" PROVE WithinTheTable'
    BY <2>0 DEF WithinTheTable
  <2>1. ASSUME transitions_' = transitions_, call' = call, phase' = phase
        PROVE  WithinTheTable'
    BY <2>1, ChosenStays DEF WithinTheTable
  <2>2. ASSUME NEW event, Begin(event) PROVE WithinTheTable'
    <3>1. call'.i = 1 /\ call'.from = current_state_ /\ transitions_' = transitions_
      BY <2>2 DEF Begin, NoCall
    <3>2. TransitionsOf(call.from)' = TransitionsOf(current_state_)
      BY <3>1 DEF TransitionsOf
    <3>3. Len(TransitionsOf(current_state_)) \in Nat
      BY TransitionsAreASequence DEF TypeOK
    <3> QED BY <3>1, <3>2, <3>3 DEF WithinTheTable
  <2>3. ASSUME InternalReturns PROVE WithinTheTable'
    <3>1. /\ call.i \in 1..Len(TransitionsOf(call.from))
          /\ call'.i = call.i + 1 /\ call'.from = call.from /\ transitions_' = transitions_
      BY <2>3 DEF InternalReturns, TypeOK, Over
    <3>2. TransitionsOf(call.from)' = TransitionsOf(call.from)
      BY <3>1 DEF TransitionsOf
    <3> QED BY <3>1, <3>2 DEF WithinTheTable
  <2>4. CASE UNCHANGED vars
    BY <2>1, <2>4 DEF vars, code
  <2>5. CASE UserCode
    BY <2>0, <2>1, <2>5 DEF UserCode, MakeTransition, ForceState, SetMetaState, ClearMetaState,
                      SetTimeout, UserCodeRuns
  <2>6. CASE (\E event \in UserEvents : Dispatch(event)) \/ TimerExpires
    BY <2>2, <2>6 DEF Dispatch, TimerExpires
  <2>7. CASE Matching
    BY <2>0, <2>7 DEF Matching, Match, MatchMeta, MatchNothing, PredicateThrows, Enter, Return
  <2>8. CASE CallbackReturns
    BY <2>0, <2>3, <2>8 DEF CallbackReturns, ExitReturns, TransitionReturns, MetaInternalReturns,
                      EnterReturns, Return
  <2> QED BY <2>4, <2>5, <2>6, <2>7, <2>8 DEF Next
<1> QED BY <1>1, <1>2, TypeCorrect, PTL DEF Spec

\* A call takes a bounded number of steps, however long the tables are and
\* whatever callbacks do: with the fairness of its steps, this is why it returns.
THEOREM CallsAreShort == Spec => CallsGetShorter
<1>1. TypeOK /\ TypeOK' /\ PassedOver /\ WithinTheTable /\ WithinTheTable' /\ [Next]_vars
      => [phase # "idle" =>
            /\ StepsLeft' \in Nat
            /\ IF <<phase, call>>' = <<phase, call>> THEN StepsLeft' = StepsLeft
                                                   ELSE StepsLeft' < StepsLeft]_vars
  <2> SUFFICES ASSUME TypeOK, TypeOK', PassedOver, WithinTheTable, WithinTheTable', Next,
                      phase # "idle"
               PROVE  /\ StepsLeft' \in Nat
                      /\ IF <<phase, call>>' = <<phase, call>> THEN StepsLeft' = StepsLeft
                                                             ELSE StepsLeft' < StepsLeft
    OBVIOUS
  <2>. DEFINE Nearer == StepsLeft' \in Nat /\ StepsLeft' < StepsLeft /\ phase' # phase
  <2>a. Ahead \in Int /\ Ahead' \in Int
    <3>1. Len(TransitionsOf(call.from)) \in Nat /\ Len(TransitionsOf(call.from)') \in Nat
      BY TransitionsAreASequence DEF TypeOK
    <3> QED BY <3>1 DEF TypeOK, Ahead
  <2>b. /\ phase = "matching" => Ahead >= 0
        /\ FiringInFirstLoop => Ahead >= 1
    <3>1. Len(TransitionsOf(call.from)) \in Nat
      BY TransitionsAreASequence DEF TypeOK
    <3> QED BY <3>1 DEF TypeOK, WithinTheTable, Ahead, FiringInFirstLoop, Over
  <2>1. CASE transitions_' = transitions_ /\ call' = call /\ phase' = phase
    <3>1. StepsLeft' = StepsLeft
      BY <2>1, ChosenStays DEF StepsLeft, FiringInFirstLoop
    <3>2. StepsLeft \in Nat
      BY <2>a, <2>b, StepsLeftIs DEF TypeOK
    <3> QED BY <2>1, <3>1, <3>2
  <2>c. /\ phase' = "exiting" => StepsLeft' = 3
        /\ phase' = "firing" /\ FiringInFirstLoop' => StepsLeft' = 2 * Ahead' + 3
        /\ phase' = "firing" /\ ~FiringInFirstLoop' => StepsLeft' = 2
        /\ phase' = "matching" => StepsLeft' = 2 * Ahead' + 4
        /\ phase' = "entering" => StepsLeft' = 1
        /\ phase' \in {"idle", "crashed"} => StepsLeft' = 0
    BY DEF StepsLeft, FiringInFirstLoop, Ahead
  <2>d. /\ phase' = "matching" => Ahead' >= 0
        /\ FiringInFirstLoop' => Ahead' >= 1
    <3>1. Len(TransitionsOf(call.from)') \in Nat
      BY TransitionsAreASequence DEF TypeOK
    <3> QED BY <3>1 DEF TypeOK, WithinTheTable, Ahead, FiringInFirstLoop, Over
  <2>2. ASSUME NEW k \in 1..Len(TransitionsOf(call.from)), Match(k)
        PROVE  Nearer
    <3>1. /\ phase = "matching" /\ phase' \in {"exiting", "firing"}
          /\ call'.i = k /\ call'.from = call.from /\ transitions_' = transitions_
          /\ k >= call.i
      BY <2>2 DEF Match, Enter, IsNextMatch, TypeOK
    <3>2. Ahead' <= Ahead
      <4>1. Len(TransitionsOf(call.from)) \in Nat /\ call.i \in Nat
        BY TransitionsAreASequence DEF TypeOK
      <4>2. Len(TransitionsOf(call.from)') = Len(TransitionsOf(call.from))
        BY <3>1 DEF TransitionsOf
      <4> QED BY <3>1, <4>1, <4>2 DEF Ahead
    <3> QED BY <2>a, <2>b, <2>c, <2>d, <3>1, <3>2, StepsLeftIs
  <2>3. ASSUME NEW k \in 1..Len(TransitionsOf(meta_state_)), MatchMeta(k)
        PROVE  Nearer
    <3>1. /\ phase = "matching" /\ phase' \in {"exiting", "firing"}
          /\ call'.meta = meta_state_ /\ meta_state_ # NoState
      BY <2>3 DEF MatchMeta, FirstLoopEnds, Enter, TypeOK, TransitionsOf
    <3>2. ~FiringInFirstLoop'
      BY <3>1 DEF FiringInFirstLoop
    <3> QED BY <2>a, <2>b, <2>c, <3>1, <3>2, StepsLeftIs
  <2>4. ASSUME MatchNothing \/ PredicateThrows PROVE Nearer
    <3>1. phase = "matching" /\ phase' = "idle"
      BY <2>4 DEF MatchNothing, PredicateThrows, FirstLoopEnds, Return
    <3> QED BY <2>a, <2>b, <2>c, <3>1, StepsLeftIs
  <2>5. ASSUME ExitReturns PROVE Nearer
    <3>1. /\ phase = "exiting" /\ phase' = "firing" /\ call' = call
          /\ transitions_' = transitions_
      BY <2>5 DEF ExitReturns
    <3>2. ~FiringInFirstLoop'
      BY <3>1, ChosenStays DEF PassedOver, FiringInFirstLoop
    <3> QED BY <2>c, <3>1, <3>2, StepsLeftIs
  <2>6. ASSUME InternalReturns PROVE Nearer
    <3>1. /\ FiringInFirstLoop /\ phase' = "matching"
          /\ call'.i = call.i + 1 /\ call'.from = call.from /\ transitions_' = transitions_
      BY <2>6 DEF InternalReturns, FiringInFirstLoop, TypeOK
    <3>2. Ahead' = Ahead - 1
      <4>1. Len(TransitionsOf(call.from)) \in Nat /\ call.i \in Nat
        BY TransitionsAreASequence DEF TypeOK
      <4>2. Len(TransitionsOf(call.from)') = Len(TransitionsOf(call.from))
        BY <3>1 DEF TransitionsOf
      <4> QED BY <3>1, <4>1, <4>2 DEF Ahead
    <3> QED BY <2>a, <2>b, <2>c, <3>1, <3>2, StepsLeftIs
  <2>7. ASSUME (\E attached \in BOOLEAN : TransitionReturns(attached)) \/ MetaInternalReturns
        PROVE  Nearer
    <3>1. phase = "firing" /\ ~FiringInFirstLoop /\ phase' \in {"entering", "idle", "crashed"}
      BY <2>7 DEF TransitionReturns, MetaInternalReturns, FiringInFirstLoop, Return
    <3> QED BY <2>c, <3>1, StepsLeftIs
  <2>8. ASSUME EnterReturns PROVE Nearer
    <3>1. phase = "entering" /\ phase' = "idle"
      BY <2>8 DEF EnterReturns, Return
    <3> QED BY <2>c, <3>1, StepsLeftIs
  <2>9. CASE UserCode
    BY <2>1, <2>9 DEF UserCode, MakeTransition, ForceState, SetMetaState, ClearMetaState,
                      SetTimeout
  <2>10. ~ ((\E event \in UserEvents : Dispatch(event)) \/ TimerExpires)
    BY DEF Dispatch, TimerExpires
  <2>11. CASE Nearer
    BY <2>11
  <2> HIDE DEF Nearer
  <2> QED BY <2>2, <2>3, <2>4, <2>5, <2>6, <2>7, <2>8, <2>9, <2>10, <2>11
          DEF Next, Matching, CallbackReturns
<1> QED BY <1>1, TypeCorrect, PassedOverIsInvariant, WithinIsInvariant, PTL
        DEF Spec, CallsGetShorter
=============================================================================
