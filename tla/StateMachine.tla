----------------------------- MODULE StateMachine -----------------------------
(***************************************************************************)
(* fsm/machine.{h,cc}: one StateMachine, the transitions of its states     *)
(* (fsm/transition.cc) and its timer.                                      *)
(*                                                                         *)
(* Process(event) is not one step, because it calls user code three times: *)
(* OnExit, OnTransition and OnEnter.  Whatever those callbacks throw is    *)
(* caught on the spot, so that a callback that throws, returns or was      *)
(* never assigned looks the same; but they are handed the machine and may  *)
(* call its public operations.  phase says where the call is:              *)
(*   "idle"      no call of Process,                                       *)
(*   "matching"  in the loop over the transitions of the state it was      *)
(*               called in, before the IsMatch of transition call.i,       *)
(*   "exiting"   in OnExit,                                                *)
(*   "firing"    in OnTransition,                                          *)
(*   "entering"  in OnEnter,                                               *)
(*   "crashed"   a null state was dereferenced: the process is gone.       *)
(*                                                                         *)
(* A predicate is modelled by the set of events it accepts; a transition   *)
(* made without one accepts none.  A machine is used by one thread at a    *)
(* time (it has no lock), and user code does not call Process from inside  *)
(* a callback of the same machine.                                         *)
(***************************************************************************)
EXTENDS Naturals, Sequences

CONSTANTS
    States,          \* the State objects a transition may lead to
    Owned,           \* the states made with this machine as owner: states_
    NoState,         \* a null StateSharedPtr, or a StateWeakPtr that has expired
    UserEvents,      \* the events of the application
    TimeoutEvent,    \* the event of fsm/timeout_event.h
    NoEvent,
    Predicates,      \* the predicates the application uses
    TimeoutOf,       \* State::timeout_ms_ of each state, 0 for none
    UserPeriods,     \* the arguments the application gives SetTimeout
    MaxTransitions   \* bound of the model on the number of transitions of each state

Events == UserEvents \cup {TimeoutEvent}

ASSUME StateMachineAssumption ==
    /\ Owned \subseteq States
    /\ NoState \notin States
    /\ NoEvent \notin Events
    /\ Predicates \subseteq SUBSET Events
    /\ TimeoutOf \in [States -> Nat]
    /\ UserPeriods \subseteq Nat
    /\ MaxTransitions \in [States -> Nat]

VARIABLES
    transitions_,    \* State::transitions_ of each state
    current_state_, previous_state_, meta_state_,
    timeout_ms_,     \* 0, or the period the deadline was computed from: the clock
                     \* is not modelled, a deadline may have passed at any time
    phase,
    call,            \* the locals of Process: event, the state whose transitions the
                     \* first loop walks, the iterator i, and the meta state of the
                     \* second loop once it has matched
    result           \* of the last call: "none", "true", "false" or "threw"

VARIABLES            \* history, for the properties only
    fired,           \* the transitions of the first loop that this call has fired
    setBy            \* what left the timer as it is: "entry" into the current state,
                     \* its "expiry", or something "other"

code == <<transitions_, current_state_, previous_state_, meta_state_, timeout_ms_,
          phase, call, result>>
vars == <<code, fired, setBy>>

StateOrNone == States \cup {NoState}

\* TT_INTERNAL_TRANSITION when internal; to is to_, which Init() sets to hold_to_.
Transition == [to : StateOrNone, on : Predicates, internal : BOOLEAN]

TransitionsOf(s) == IF s = NoState THEN <<>> ELSE transitions_[s]

NoCall == [event |-> NoEvent, from |-> NoState, i |-> 0, meta |-> NoState]

\* The state whose transitions the call is walking, and the transition it is at.
Over == IF call.meta = NoState THEN call.from ELSE call.meta
Chosen == TransitionsOf(Over)[call.i]

Init ==
    /\ transitions_ = [s \in States |-> <<>>]
    /\ current_state_ = NoState /\ previous_state_ = NoState /\ meta_state_ = NoState
    /\ timeout_ms_ = 0
    /\ phase = "idle" /\ call = NoCall /\ result = "none"
    /\ fired = <<>> /\ setBy = "expiry"

-----------------------------------------------------------------------------
(* What user code may call, between calls of Process and inside callbacks. *)

UserCodeRuns == phase \in {"idle", "exiting", "firing", "entering"}

\* A fault, for TypeOK: an internal transition with a target of its own.
MakeTransitionTo(from, t) ==
    /\ phase = "idle"
    /\ Len(transitions_[from]) < MaxTransitions[from]
    /\ transitions_' = [transitions_ EXCEPT ![from] = Append(@, t)]
    /\ UNCHANGED <<current_state_, previous_state_, meta_state_, timeout_ms_,
                   phase, call, result, fired, setBy>>

MakeTransition(from, t) ==
    /\ phase = "idle"
    /\ Len(transitions_[from]) < MaxTransitions[from]
    /\ t.internal => t.to = from
    /\ transitions_' = [transitions_ EXCEPT ![from] = Append(@, t)]
    /\ UNCHANGED <<current_state_, previous_state_, meta_state_, timeout_ms_,
                   phase, call, result, fired, setBy>>

\* The timer, if it still belongs to the current state, no longer does.
Estrange == setBy' = IF setBy = "entry" THEN "other" ELSE setBy

\* InternalSetState<false>.  A state that is not in states_ is refused, and
\* nothing changes.
ForceState(state) ==
    /\ UserCodeRuns
    /\ state \in Owned
    /\ current_state_' = state
    /\ Estrange
    /\ UNCHANGED <<transitions_, previous_state_, meta_state_, timeout_ms_,
                   phase, call, result, fired>>

\* InternalSetState<true>
SetMetaState(state) ==
    /\ UserCodeRuns
    /\ state \in Owned
    /\ meta_state_' = state
    /\ UNCHANGED <<transitions_, current_state_, previous_state_, timeout_ms_,
                   phase, call, result, fired, setBy>>

ClearMetaState ==
    /\ UserCodeRuns
    /\ meta_state_' = NoState
    /\ UNCHANGED <<transitions_, current_state_, previous_state_, timeout_ms_,
                   phase, call, result, fired, setBy>>

SetTimeout(period) ==
    /\ UserCodeRuns
    /\ timeout_ms_' = period
    /\ setBy' = "other"
    /\ UNCHANGED <<transitions_, current_state_, previous_state_, meta_state_,
                   phase, call, result, fired>>

-----------------------------------------------------------------------------
(* Process                                                                 *)

Begin(event) ==
    /\ phase' = "matching"
    /\ call' = [NoCall EXCEPT !.event = event, !.from = current_state_, !.i = 1]
    /\ result' = "none"
    /\ fired' = <<>>
    /\ UNCHANGED <<transitions_, current_state_, previous_state_, meta_state_>>

Dispatch(event) ==
    /\ phase = "idle"
    /\ Begin(event)
    /\ UNCHANGED <<timeout_ms_, setBy>>

\* IsTimeout() is true, and InternalProcessTimeoutEvent switches the timer off
\* before it has the machine process the timeout.
TimerExpires ==
    /\ phase = "idle"
    /\ timeout_ms_ # 0
    /\ timeout_ms_' = 0
    /\ setBy' = "expiry"
    /\ Begin(TimeoutEvent)

Return(handled) ==
    /\ phase' = "idle"
    /\ result' = handled
    /\ call' = NoCall
    /\ fired' = <<>>

\* A fault, for FollowsTheTable: any transition that matches, not the first.
IsSomeMatch(ts, i, k) == k \in i..Len(ts) /\ call.event \in ts[k].on

\* k is the first of the transitions ts, from the i-th on, to accept the event.
IsNextMatch(ts, i, k) ==
    /\ k \in i..Len(ts)
    /\ call.event \in ts[k].on
    /\ \A j \in i..(k - 1) : call.event \notin ts[j].on

NoneMatch(ts, i) == \A j \in i..Len(ts) : call.event \notin ts[j].on

\* IsMatch holds: a normal transition begins with the OnExit of the current
\* state, an internal one goes straight to its OnTransition.
Enter(t) == phase' = IF t.internal THEN "firing" ELSE "exiting"

Match(k) ==
    /\ phase = "matching"
    /\ IsNextMatch(TransitionsOf(call.from), call.i, k)
    /\ call' = [call EXCEPT !.i = k]
    /\ fired' = Append(fired, k)
    /\ Enter(TransitionsOf(call.from)[k])
    /\ UNCHANGED <<transitions_, current_state_, previous_state_, meta_state_,
                   timeout_ms_, result, setBy>>

\* The first loop has come to its end, which it recognises by the end() of the
\* transitions of whatever is then the current state.
FirstLoopEnds ==
    /\ phase = "matching"
    /\ NoneMatch(TransitionsOf(call.from), call.i)

MatchMeta(k) ==
    /\ FirstLoopEnds
    /\ current_state_ # NoState
    /\ IsNextMatch(TransitionsOf(meta_state_), 1, k)
    /\ call' = [call EXCEPT !.i = k, !.meta = meta_state_]
    /\ Enter(TransitionsOf(meta_state_)[k])
    /\ UNCHANGED <<transitions_, current_state_, previous_state_, meta_state_,
                   timeout_ms_, result, fired, setBy>>

MatchNothing ==
    /\ FirstLoopEnds
    /\ current_state_ # NoState => NoneMatch(TransitionsOf(meta_state_), 1)
    /\ Return("false")
    /\ UNCHANGED <<transitions_, current_state_, previous_state_, meta_state_,
                   timeout_ms_, setBy>>

\* IsMatch is not called inside a try block: what a predicate throws leaves
\* Process there and then.
PredicateThrows ==
    /\ phase = "matching"
    /\ \/ call.i <= Len(TransitionsOf(call.from))
       \/ current_state_ # NoState /\ TransitionsOf(meta_state_) # <<>>
    /\ Return("threw")
    /\ UNCHANGED <<transitions_, current_state_, previous_state_, meta_state_,
                   timeout_ms_, setBy>>

ExitReturns ==
    /\ phase = "exiting"
    /\ phase' = "firing"
    /\ UNCHANGED <<transitions_, current_state_, previous_state_, meta_state_,
                   timeout_ms_, call, result, fired, setBy>>

\* An event reaches a machine with a machine set that is still there
\* (attached) or without one; the TimeoutEvent of a set always has its set.
MayBeAttached(attached) == attached \/ call.event # TimeoutEvent

\* A fault, for TimerBelongsToState: a state without a timeout leaves the timer
\* of the state before it running.
ArmTimerIfAny(attached) ==
    IF attached /\ TimeoutOf[Chosen.to] > 0
    THEN timeout_ms_' = TimeoutOf[Chosen.to] /\ setBy' = "entry"
    ELSE (IF attached THEN setBy' = "entry" ELSE Estrange) /\ UNCHANGED timeout_ms_

\* UpdateTimeoutMahcine does nothing in a set without a handler.  The timer is
\* reset only for an attached event, and also to 0.
ArmTimer(attached) ==
    IF attached
    THEN timeout_ms_' = TimeoutOf[Chosen.to] /\ setBy' = "entry"
    ELSE Estrange /\ UNCHANGED timeout_ms_

\* A fault, for ImplementsGraph: a state that a callback forced wins over the
\* target of the transition.
TransitionYields(attached) ==
    /\ phase = "firing" /\ ~Chosen.internal
    /\ MayBeAttached(attached)
    /\ previous_state_' = IF call.meta = NoState THEN current_state_ ELSE previous_state_
    /\ current_state_' = IF current_state_ = call.from THEN Chosen.to ELSE current_state_
    /\ IF Chosen.to = NoState
       THEN phase' = "crashed" /\ UNCHANGED <<timeout_ms_, setBy>>
       ELSE phase' = "entering" /\ ArmTimer(attached)
    /\ UNCHANGED <<transitions_, meta_state_, call, result, fired>>

\* After OnTransition of a normal transition, of either loop: on to OnEnter.
\* With no target, the first loop dereferences it to arm the timer and both do
\* to call OnEnter.
TransitionReturns(attached) ==
    /\ phase = "firing" /\ ~Chosen.internal
    /\ MayBeAttached(attached)
    /\ previous_state_' = IF call.meta = NoState THEN current_state_ ELSE previous_state_
    /\ current_state_' = Chosen.to
    /\ IF Chosen.to = NoState
       THEN phase' = "crashed" /\ UNCHANGED <<timeout_ms_, setBy>>
       ELSE phase' = "entering" /\ ArmTimer(attached)
    /\ UNCHANGED <<transitions_, meta_state_, call, result, fired>>

\* A fault, for FollowsTheTable: the first internal transition ends the call.
InternalSettles ==
    /\ phase = "firing" /\ Chosen.internal /\ call.meta = NoState
    /\ previous_state_' = current_state_
    /\ current_state_' = Chosen.to
    /\ Return("true")
    /\ UNCHANGED <<transitions_, meta_state_, timeout_ms_, setBy>>

\* A fault, for LoopStaysOnItsVector: the loop goes on without putting back the
\* state that OnTransition may have replaced.
InternalKeepsForced ==
    /\ phase = "firing" /\ Chosen.internal /\ call.meta = NoState
    /\ phase' = "matching"
    /\ call' = [call EXCEPT !.i = @ + 1]
    /\ UNCHANGED <<transitions_, current_state_, previous_state_, meta_state_,
                   timeout_ms_, result, fired, setBy>>

\* A fault, for CallTerminates and CallsGetShorter: the loop starts again from
\* the first transition.
InternalRestarts ==
    /\ phase = "firing" /\ Chosen.internal /\ call.meta = NoState
    /\ previous_state_' = current_state_
    /\ current_state_' = Chosen.to
    /\ phase' = "matching"
    /\ call' = [call EXCEPT !.i = 1]
    /\ fired' = <<>>
    /\ UNCHANGED <<transitions_, meta_state_, timeout_ms_, result, setBy>>

\* After OnTransition of an internal transition of the first loop: to_ is the
\* state itself, and the loop goes on.
InternalReturns ==
    /\ phase = "firing" /\ Chosen.internal /\ call.meta = NoState
    /\ previous_state_' = current_state_
    /\ current_state_' = Chosen.to
    /\ phase' = "matching"
    /\ call' = [call EXCEPT !.i = @ + 1]
    /\ UNCHANGED <<transitions_, meta_state_, timeout_ms_, result, fired, setBy>>

\* After OnTransition of an internal transition of the meta state: its to_ is
\* the meta state, which becomes the current one without OnExit and OnEnter.
MetaInternalReturns ==
    /\ phase = "firing" /\ Chosen.internal /\ call.meta # NoState
    /\ current_state_' = Chosen.to
    /\ Estrange
    /\ Return("true")
    /\ UNCHANGED <<transitions_, previous_state_, meta_state_, timeout_ms_>>

EnterReturns ==
    /\ phase = "entering"
    /\ Return("true")
    /\ UNCHANGED <<transitions_, current_state_, previous_state_, meta_state_,
                   timeout_ms_, setBy>>

-----------------------------------------------------------------------------
UserCode ==
    \/ \E from \in States, t \in Transition : MakeTransition(from, t)
    \/ \E state \in Owned : ForceState(state) \/ SetMetaState(state)
    \/ ClearMetaState
    \/ \E period \in UserPeriods : SetTimeout(period)

Matching ==
    \/ \E k \in 1..Len(TransitionsOf(call.from)) : Match(k)
    \/ \E k \in 1..Len(TransitionsOf(meta_state_)) : MatchMeta(k)
    \/ MatchNothing
    \/ PredicateThrows

CallbackReturns ==
    \/ ExitReturns
    \/ \E attached \in BOOLEAN : TransitionReturns(attached)
    \/ InternalReturns
    \/ MetaInternalReturns
    \/ EnterReturns

Next ==
    \/ UserCode
    \/ \E event \in UserEvents : Dispatch(event)
    \/ TimerExpires
    \/ Matching
    \/ CallbackReturns

Spec == Init /\ [][Next]_vars

\* Process runs until it calls user code, and a callback, after whatever calls
\* it makes, returns or throws.
Fairness == WF_vars(Matching) /\ WF_vars(CallbackReturns)

FairSpec == Spec /\ Fairness

-----------------------------------------------------------------------------
\* The types, that an internal transition leads back to its own state, and
\* that a call's iterator is within the transitions it walks.
TypeOK ==
    /\ transitions_ \in [States -> Seq(Transition)]
    /\ \A s \in States : \A k \in 1..Len(transitions_[s]) :
          transitions_[s][k].internal => transitions_[s][k].to = s
    /\ current_state_ \in StateOrNone /\ previous_state_ \in StateOrNone
    /\ meta_state_ \in StateOrNone
    /\ timeout_ms_ \in Nat
    /\ phase \in {"idle", "matching", "exiting", "firing", "entering", "crashed"}
    /\ call \in [event : Events \cup {NoEvent}, from : StateOrNone, i : Nat,
                 meta : StateOrNone]
    /\ phase # "idle" => call.event \in Events
    /\ phase = "matching" => call.meta = NoState /\ call.i # 0
    /\ phase \in {"exiting", "firing"} => call.i \in 1..Len(TransitionsOf(Over))
    /\ result \in {"none", "true", "false", "threw"}
    /\ setBy \in {"entry", "expiry", "other"}

\* Between two transitions of the first loop the current state is the one
\* whose transitions the iterator walks, whatever OnTransition forced: else
\* the loop would compare the iterator with the end() of another vector.
LoopStaysOnItsVector ==
    phase = "matching" => current_state_ = call.from

\* A timer that the entry into the current state left is running for exactly
\* that state's timeout, and one that has expired stays off: no state is left
\* with the deadline of the state before it.
TimerBelongsToState ==
    /\ setBy = "entry" /\ phase # "crashed" =>
          current_state_ # NoState /\ timeout_ms_ = TimeoutOf[current_state_]
    /\ setBy = "expiry" => timeout_ms_ = 0

\* The transition at k of ts would be tried for the event: no normal one before
\* it accepts it.
IsReached(ts, event, k) == \A j \in 1..(k - 1) : ts[j].internal \/ event \notin ts[j].on

\* What the first loop should fire: every internal transition that accepts the
\* event up to the first normal one that does, and that one.
ShouldFire(s, event) ==
    {k \in DOMAIN TransitionsOf(s) :
        event \in TransitionsOf(s)[k].on /\ IsReached(TransitionsOf(s), event, k)}

HasWayOut(s, event) ==
    \E k \in DOMAIN TransitionsOf(s) :
        event \in TransitionsOf(s)[k].on /\ ~TransitionsOf(s)[k].internal

\* The transitions ks have fired in the order of the table, each of them once.
AreThoseOf(ks, set) ==
    /\ \A i, j \in DOMAIN ks : i < j => ks[i] < ks[j]
    /\ {ks[i] : i \in DOMAIN ks} = set

\* When Process is done, it has fired what the table of transitions says, in
\* the order the transitions were made, each at most once; a meta transition
\* only if no normal one of the state applies, and the first that accepts the
\* event; and it returns true just if one of these settled the event.  This
\* although callbacks change the current and the meta state on the way.
FollowsTheTable ==
    [][ phase # "idle" /\ phase' \in {"idle", "crashed"} /\ result' # "threw" =>
          LET ts == TransitionsOf(meta_state_)
              wayOut == HasWayOut(call.from, call.event)
          IN  /\ AreThoseOf(fired, ShouldFire(call.from, call.event))
              /\ call.meta # NoState =>
                   ~wayOut /\ IsNextMatch(TransitionsOf(call.meta), 1, call.i)
              /\ result' = "false" <=>
                   phase' = "idle" /\ call.meta = NoState /\ ~wayOut
              /\ result' = "false" /\ call.from # NoState =>
                   \A k \in DOMAIN ts : call.event \notin ts[k].on ]_vars

FiringInFirstLoop == phase = "firing" /\ Chosen.internal /\ call.meta = NoState

Graph == INSTANCE StateGraph WITH
    Edges <- Transition,
    table <- transitions_,
    at <- IF phase \in {"exiting", "firing"} THEN Chosen.to ELSE current_state_,
    meta <- meta_state_,
    pending <- IF phase = "matching" \/ FiringInFirstLoop THEN call.event ELSE NoEvent,
    moving <- phase \in {"exiting", "firing"} /\ ~FiringInFirstLoop

\* Seen from outside, Process moves the machine once, along the edge that the
\* table gives for the event: a state forced by OnExit, or by OnTransition,
\* leaves no trace, and one forced by OnEnter stays.
ImplementsGraph == Graph!GraphSpec

\* Process always returns, unless the process dies.
CallTerminates == phase # "idle" ~> phase \in {"idle", "crashed"}

\* The steps that a call has ahead of it at most: two for each transition the
\* first loop has still to try, a match and a callback, and those of one move.
StepsLeft ==
    LET ahead == Len(TransitionsOf(call.from)) + 1 - call.i
    IN  CASE phase = "matching"   -> 2 * ahead + 4
          [] FiringInFirstLoop    -> 2 * ahead + 3
          [] phase = "exiting"    -> 3
          [] phase = "firing" /\ ~FiringInFirstLoop -> 2
          [] phase = "entering"   -> 1
          [] OTHER                -> 0

\* A call of Process for a state with n transitions takes 2 * n + 4 steps at
\* most: each step of its own brings it nearer to its end, and nothing that
\* callbacks do to the current state, the meta state or the timer on the way
\* sends it back to transitions it has tried (machine.cc:96-97, 176, 200, 211).
CallsGetShorter ==
    [][ phase # "idle" =>
          /\ StepsLeft' \in Nat
          /\ IF <<phase, call>>' = <<phase, call>> THEN StepsLeft' = StepsLeft
                                                 ELSE StepsLeft' < StepsLeft ]_vars

-----------------------------------------------------------------------------
\* machine.cc:261: "transitions to meta-state do not change the current state".
\* Checked of the internal transitions of the meta state, the ones with no
\* other target.
MetaInternalKeepsState == [][MetaInternalReturns => UNCHANGED current_state_]_vars

\* An event that Process calls unhandled (machine_set.cc:173) has fired nothing.
UnhandledFiresNothing == [][MatchNothing => fired = <<>>]_vars

\* A transition whose target is gone does not bring the process down:
\* machine.cc:123 and 148 print "non_status" for it, and 266 tests for it.
SurvivesLostTarget == phase # "crashed"
=============================================================================
