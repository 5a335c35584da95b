-------------------------- MODULE MachineSetLifetime --------------------------
(***************************************************************************)
(* fsm/machine_set.cc: how long a MachineSet lives, and on which thread it *)
(* dies.                                                                   *)
(*                                                                         *)
(* A set is owned by the shared_ptrs of the application and, for moments,  *)
(* by its own background thread: the one that shared_from_this() makes for *)
(* a timeout event, and the one that StateMachine::Process locks from the  *)
(* event (or a callback gets from GetMachineSet) while OnEnter runs.       *)
(* Whoever lets go of the last one runs ~MachineSet, which stops and joins *)
(* the background thread.                                                  *)
(*                                                                         *)
(* The queue is the number of its events; what machines do with them is    *)
(* not told: a machine may or may not make a transition, and its timer may *)
(* or may not be due.                                                      *)
(***************************************************************************)
EXTENDS Naturals

CONSTANTS
    Users,           \* threads of the application
    Owner,           \* the one of them that starts and stops the background thread
    Background,      \* the background thread
    NumMachines,     \* members of the set
    CallbackStops,   \* whether a callback of a machine ever calls StopBackground
    MaxEvents        \* bound of the model on the length of the queue

ASSUME LifetimeAssumption ==
    /\ Owner \in Users
    /\ Background \notin Users
    /\ NumMachines \in Nat
    /\ CallbackStops \in BOOLEAN
    /\ MaxEvents \in Nat

VARIABLES
    life,            \* "alive", "dying" in its destructor, "freed", or the whole
                     \* process "crashed" in std::terminate
    holds,           \* whether each user has a shared_ptr of the set
    held,            \* whether the background thread has
    events,          \* the number of events in event_fifo_
    background_thread_,            \* "none", "joinable" or "joined"
    background_thread_stop_flag_,
    pc,              \* where each thread is
    todo,            \* the machines that the background thread's loop has still to visit
    back             \* the loop it is in: "delivering" or "scanning"

VARIABLES            \* history, for the properties only
    stopped,         \* a StopBackground that the owner called after it had started
                     \* the thread has returned
    careless         \* the set was let go of unstopped, or a callback stopped it

thread == <<background_thread_, background_thread_stop_flag_>>
loop == <<todo, back>>
history == <<stopped, careless>>
vars == <<life, holds, held, events, thread, pc, loop, history>>

Threads == Users \cup {Background}

Referenced == held \/ \E u \in Users : holds[u]

Goto(t, where) == pc' = [pc EXCEPT ![t] = where]

\* One user has what MakeMachineSet returned.
Init ==
    /\ life = "alive"
    /\ holds = [u \in Users |-> u = Owner] /\ held = FALSE
    /\ events = 0
    /\ background_thread_ = "none" /\ background_thread_stop_flag_ = FALSE
    /\ pc = [t \in Threads |-> IF t = Background THEN "off" ELSE "free"]
    /\ todo = 0 /\ back = "scanning"
    /\ stopped = FALSE /\ careless = FALSE

-----------------------------------------------------------------------------
(* What a thread with a shared_ptr may do                                  *)

\* User code of t runs, and t has a shared_ptr to call the set with.
MayCall(t) ==
    IF t = Background THEN pc[t] = "entered" /\ held ELSE pc[t] = "free" /\ holds[t]

Copy(u, v) ==
    /\ MayCall(u)
    /\ ~holds[v]
    /\ holds' = [holds EXCEPT ![v] = TRUE]
    /\ UNCHANGED <<life, held, events, thread, pc, loop, history>>

Enqueue(t) ==
    /\ MayCall(t)
    /\ events < MaxEvents
    /\ events' = events + 1
    /\ UNCHANGED <<life, holds, held, thread, pc, loop, history>>

StartBackground ==
    /\ MayCall(Owner)
    /\ background_thread_ = "none"
    /\ background_thread_' = "joinable"
    /\ Goto(Background, "top")
    /\ UNCHANGED <<life, holds, held, events, background_thread_stop_flag_, loop, history>>

CallStop(t) ==
    /\ t = Owner \/ (t = Background /\ CallbackStops)
    /\ MayCall(t)
    /\ Goto(t, "testing")
    /\ careless' = (careless \/ t = Background)
    /\ UNCHANGED <<life, holds, held, events, thread, loop, stopped>>

\* The last shared_ptr goes, and with it its thread into the destructor.
LetGo(t, where) ==
    IF Referenced' THEN Goto(t, where) /\ UNCHANGED life
                   ELSE Goto(t, "clearing") /\ life' = "dying"

Drop(u) ==
    /\ MayCall(u)
    /\ holds' = [holds EXCEPT ![u] = FALSE]
    /\ UNCHANGED held
    /\ LetGo(u, "free")
    /\ careless' = (careless \/ (background_thread_ # "none" /\ ~stopped
                                   /\ \A v \in Users : ~holds'[v]))
    /\ UNCHANGED <<events, thread, loop, stopped>>

-----------------------------------------------------------------------------
(* StopBackground and the destructor, by the thread t                      *)

\* event_fifo_.Clear(), and on to StopBackground.
Clear(t) ==
    /\ pc[t] = "clearing"
    /\ events' = 0
    /\ Goto(t, "testing")
    /\ UNCHANGED <<life, holds, held, thread, loop, history>>

\* Back to the destructor, to the owner, or to the callback.
StopReturns(t) ==
    /\ Goto(t, CASE life = "dying" -> "releasing"
                 [] life # "dying" /\ t = Background -> "entered"
                 [] OTHER -> "free")
    /\ stopped' = (stopped \/ (life # "dying" /\ t = Owner /\ background_thread_ # "none"))
    /\ UNCHANGED careless

TestFlag(t) ==
    /\ pc[t] = "testing"
    /\ IF background_thread_ # "none" /\ ~background_thread_stop_flag_
       THEN Goto(t, "storing") /\ UNCHANGED history
       ELSE StopReturns(t)
    /\ UNCHANGED <<life, holds, held, events, thread, loop>>

\* A fault, for LastDropFrees: the join comes before the flag is set.
StoreFlagLate(t) ==
    /\ pc[t] = "storing"
    /\ Goto(t, "joining")
    /\ UNCHANGED <<life, holds, held, events, thread, loop, history>>

\* A fault, for OnlyCarelessDie: the flag is set, and nobody joins.
StoreFlagAndReturn(t) ==
    /\ pc[t] = "storing"
    /\ background_thread_stop_flag_' = TRUE
    /\ StopReturns(t)
    /\ UNCHANGED <<life, holds, held, events, background_thread_, loop>>

StoreFlag(t) ==
    /\ pc[t] = "storing"
    /\ background_thread_stop_flag_' = TRUE
    /\ Goto(t, "joining")
    /\ UNCHANGED <<life, holds, held, events, background_thread_, loop, history>>

\* A fault, for FreedIsQuiet and StoppedIsEnded: the thread is detached.
Detach(u) ==
    /\ pc[u] = "joining"
    /\ background_thread_' = "joined"
    /\ StopReturns(u)
    /\ UNCHANGED <<life, holds, held, events, background_thread_stop_flag_, loop>>

Join(u) ==
    /\ pc[u] = "joining"
    /\ pc[Background] = "ended"
    /\ background_thread_' = "joined"
    /\ StopReturns(u)
    /\ UNCHANGED <<life, holds, held, events, background_thread_stop_flag_, loop>>

\* A thread that joins itself gets a system_error: one that the try block
\* around a callback swallows, and one that a destructor cannot throw.
JoinItself ==
    /\ pc[Background] = "joining"
    /\ IF life = "dying"
       THEN life' = "crashed" /\ UNCHANGED <<pc, history>>
       ELSE StopReturns(Background) /\ UNCHANGED life
    /\ UNCHANGED <<holds, held, events, thread, loop>>

\* The members are destroyed, background_thread_ first: a std::thread that is
\* still joinable calls std::terminate.
Release(t) ==
    /\ pc[t] = "releasing"
    /\ life' = IF background_thread_ = "joinable" THEN "crashed" ELSE "freed"
    /\ Goto(t, "free")
    /\ UNCHANGED <<holds, held, events, thread, loop, history>>

-----------------------------------------------------------------------------
(* The loop of the background thread                                       *)

Walk(where) ==
    /\ Goto(Background, where)
    /\ back' = where
    /\ todo' = NumMachines

Top ==
    /\ pc[Background] = "top"
    /\ Goto(Background, IF background_thread_stop_flag_ THEN "ended" ELSE "getting")
    /\ UNCHANGED <<life, holds, held, events, thread, loop, history>>

\* A fault, for TypeOK: an event is taken without a look at the queue.
TakeUnchecked ==
    /\ pc[Background] = "getting"
    /\ events' = events - 1
    /\ Walk("delivering")
    /\ UNCHANGED <<life, holds, held, thread, history>>

Take ==
    /\ pc[Background] = "getting"
    /\ events > 0
    /\ events' = events - 1
    /\ Walk("delivering")
    /\ UNCHANGED <<life, holds, held, thread, history>>

\* GetNext(sleep_ms) returns no event.
TakeNothing ==
    /\ pc[Background] = "getting"
    /\ events = 0
    /\ Walk("scanning")
    /\ UNCHANGED <<life, holds, held, events, thread, history>>

\* A machine that makes no transition, or whose timer is not due.
PassOver ==
    /\ pc[Background] \in {"delivering", "scanning"}
    /\ todo > 0
    /\ todo' = todo - 1
    /\ UNCHANGED <<life, holds, held, events, thread, pc, back, history>>

\* A timer is due, and its event wants a shared_ptr: from a set that has none
\* left, shared_from_this() throws bad_weak_ptr, outside of any try block.
Promote ==
    /\ pc[Background] = "scanning"
    /\ todo > 0
    /\ todo' = todo - 1
    /\ IF Referenced
       THEN held' = TRUE /\ Goto(Background, "promoted") /\ UNCHANGED life
       ELSE life' = "crashed" /\ UNCHANGED <<held, pc>>
    /\ UNCHANGED <<holds, events, thread, back, history>>

\* The event is made and keeps a weak_ptr only.
Demote ==
    /\ pc[Background] = "promoted"
    /\ held' = FALSE
    /\ UNCHANGED holds
    /\ LetGo(Background, "expired")
    /\ UNCHANGED <<events, thread, loop, history>>

\* The machine makes a transition: event->machine_set_.lock(), up to OnEnter.
Enter ==
    /\ \/ pc[Background] = "delivering" /\ todo > 0 /\ todo' = todo - 1
       \/ pc[Background] = "expired" /\ UNCHANGED todo
    /\ held' = Referenced
    /\ Goto(Background, "entered")
    /\ UNCHANGED <<life, holds, events, thread, back, history>>

\* The timeout event makes the machine go nowhere.
IgnoreTimeout ==
    /\ pc[Background] = "expired"
    /\ Goto(Background, "scanning")
    /\ UNCHANGED <<life, holds, held, events, thread, loop, history>>

\* OnEnter returns, and the locked shared_ptr with it, if there was one.
Leave ==
    /\ pc[Background] = "entered"
    /\ held' = FALSE
    /\ UNCHANGED holds
    /\ IF held THEN LetGo(Background, back) ELSE Goto(Background, back) /\ UNCHANGED life
    /\ UNCHANGED <<events, thread, loop, history>>

DeliveryEnds ==
    /\ pc[Background] = "delivering" /\ todo = 0
    /\ Walk("scanning")
    /\ UNCHANGED <<life, holds, held, events, thread, history>>

ScanEnds ==
    /\ pc[Background] = "scanning" /\ todo = 0
    /\ Goto(Background, "top")
    /\ UNCHANGED <<life, holds, held, events, thread, loop, history>>

-----------------------------------------------------------------------------
Calls ==
    \/ \E u \in Users :
          \/ \E v \in Users : Copy(u, v)
          \/ Drop(u)
    \/ StartBackground
    \/ \E t \in Threads : Enqueue(t) \/ CallStop(t)

Stopping(t) == TestFlag(t) \/ StoreFlag(t) \/ Clear(t) \/ Release(t)

UserGoesOn(u) == Stopping(u) \/ Join(u)

BackgroundGoesOn ==
    \/ Stopping(Background) \/ JoinItself
    \/ Top \/ Take \/ TakeNothing
    \/ PassOver \/ Promote \/ Demote \/ Enter \/ IgnoreTimeout \/ Leave
    \/ DeliveryEnds \/ ScanEnds

Next ==
    /\ life # "crashed"
    /\ \/ Calls
       \/ \E u \in Users : UserGoesOn(u)
       \/ BackgroundGoesOn

Spec == Init /\ [][Next]_vars

\* Every thread is scheduled while it is inside the library, GetNext(sleep_ms)
\* returns, and so do callbacks.  Nobody has to start, stop or let go.
Fairness ==
    /\ \A u \in Users : WF_vars(life # "crashed" /\ UserGoesOn(u))
    /\ WF_vars(life # "crashed" /\ BackgroundGoesOn)

FairSpec == Spec /\ Fairness

-----------------------------------------------------------------------------
InStop == {"clearing", "testing", "storing", "joining", "releasing"}
InLoop == {"top", "getting", "delivering", "scanning", "promoted", "expired", "entered"}

\* The types; above all, an event is taken from the queue only if it is there.
TypeOK ==
    /\ life \in {"alive", "dying", "freed", "crashed"}
    /\ holds \in [Users -> BOOLEAN] /\ held \in BOOLEAN
    /\ events \in 0..MaxEvents
    /\ background_thread_ \in {"none", "joinable", "joined"}
    /\ background_thread_stop_flag_ \in BOOLEAN
    /\ pc \in [Threads -> {"off", "free", "ended"} \cup InStop \cup InLoop]
    /\ todo \in 0..NumMachines /\ back \in {"delivering", "scanning"}
    /\ stopped \in BOOLEAN /\ careless \in BOOLEAN

\* A set that has been freed is nobody's: no shared_ptr has come back from a
\* weak one, no user is inside a call, and the background thread, which would
\* go on with the members, has ended or never was.
FreedIsQuiet ==
    life = "freed" =>
        /\ ~Referenced
        /\ \A u \in Users : pc[u] = "free"
        /\ pc[Background] \in {"off", "ended"}

\* An application that calls StopBackground before it lets go of the set, and
\* not from a callback, is safe: the process does not die in the destructor,
\* in a self-join or in a timeout that finds its set gone.
OnlyCarelessDie == life = "crashed" => careless

\* When StopBackground has returned to the owner the thread is gone, so that
\* Process() may be called, unless a callback has called it before.
StoppedIsEnded == stopped /\ ~careless => pc[Background] \in {"off", "ended"}

\* Once the last shared_ptr is gone the set is freed, though its background
\* thread be running, unless the process dies of it.
LastDropFrees == ~Referenced ~> life \in {"freed", "crashed"}

-----------------------------------------------------------------------------
\* The destructor may find the background thread running: it is the destructor
\* that stops it (machine_set.cc:31), and examples/fsm/test_fsm.cc leaves it to
\* do so ("return 0;" at line 230, after StartBackground at line 119 and no
\* StopBackground).  Checked with callbacks that do not stop the set.
DestructorStops == life # "crashed"
=============================================================================
