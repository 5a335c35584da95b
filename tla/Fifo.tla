-------------------------------- MODULE Fifo --------------------------------
(***************************************************************************)
(* util/fifo.h: Fifo<T>, a deque guarded by mutex_ with one condition      *)
(* variable, condition_, shared by the callers of both GetNext overloads.  *)
(*                                                                         *)
(* Every access to fifo_ is made with mutex_ held, so a critical section   *)
(* is one step; what is not atomic is a call of GetNext, which gives the   *)
(* mutex back while it waits.  A consumer is                               *)
(*   "idle"      outside GetNext,                                          *)
(*   "checking"  about to evaluate the predicate !fifo_.empty(): it has    *)
(*               just called, or was woken and wants the mutex again,      *)
(*   "waiting"   blocked on condition_, the mutex released,                *)
(*   "expired"   in GetNext(ms) after the deadline: wait_until evaluates   *)
(*               the predicate once more and returns what it finds.        *)
(***************************************************************************)
EXTENDS Naturals, Sequences, FiniteSets

CONSTANTS
    Consumers,   \* the threads that call GetNext
    Messages,    \* the values of type T
    NoMessage,   \* a default-constructed T
    MaxLen       \* bound of the model on the length of fifo_

ASSUME FifoAssumption ==
    /\ IsFiniteSet(Consumers)
    /\ NoMessage \notin Messages
    /\ MaxLen \in Nat

VARIABLES
    fifo_,       \* the deque, front first
    pc,          \* where each consumer is in GetNext
    timed,       \* whether the call of each consumer is GetNext(ms)
    result       \* what each consumer's last completed call returned

vars == <<fifo_, pc, timed, result>>

At(where) == {c \in Consumers : pc[c] = where}

\* The consumers that will look at fifo_ again without being notified.
Awake == At("checking") \cup At("expired")

Init ==
    /\ fifo_ = <<>>
    /\ pc = [c \in Consumers |-> "idle"]
    /\ timed = [c \in Consumers |-> FALSE]
    /\ result = [c \in Consumers |-> NoMessage]

-----------------------------------------------------------------------------
\* A fault, for ServesCallers: Add forgets to notify.
NotifyNobody == UNCHANGED pc

\* condition_.notify_one(): one waiting thread, if there is one.
NotifyOne ==
    IF At("waiting") = {}
    THEN UNCHANGED pc
    ELSE \E c \in At("waiting") : pc' = [pc EXCEPT ![c] = "checking"]

\* condition_.notify_all()
NotifyAll ==
    pc' = [c \in Consumers |-> IF pc[c] = "waiting" THEN "checking" ELSE pc[c]]

Add(msg) ==
    /\ Len(fifo_) < MaxLen
    /\ fifo_' = Append(fifo_, msg)
    /\ NotifyOne
    /\ UNCHANGED <<timed, result>>

Clear ==
    /\ fifo_' = <<>>
    /\ NotifyAll
    /\ UNCHANGED <<timed, result>>

\* GetNext() when ~withDeadline, GetNext(internal_ms) when withDeadline.
GetNext(c, withDeadline) ==
    /\ pc[c] = "idle"
    /\ pc' = [pc EXCEPT ![c] = "checking"]
    /\ timed' = [timed EXCEPT ![c] = withDeadline]
    /\ UNCHANGED <<fifo_, result>>

ReturnFrom(c, msg) ==
    /\ pc' = [pc EXCEPT ![c] = "idle"]
    /\ result' = [result EXCEPT ![c] = msg]

\* A fault, for ImplementsQueue: the wrong end of the deque.
TakeBack(c) ==
    /\ fifo_' = SubSeq(fifo_, 1, Len(fifo_) - 1)
    /\ ReturnFrom(c, fifo_[Len(fifo_)])

\* move the front out, pop_front(), return it
TakeFront(c) ==
    /\ fifo_' = Tail(fifo_)
    /\ ReturnFrom(c, Head(fifo_))

\* One turn of wait's or wait_until's loop `while (!pred()) wait(lk)`.
Check(c) ==
    /\ pc[c] = "checking"
    /\ IF fifo_ # <<>>
       THEN TakeFront(c)
       ELSE pc' = [pc EXCEPT ![c] = "waiting"] /\ UNCHANGED <<fifo_, result>>
    /\ UNCHANGED timed

\* A fault, for TypeOK: a call without a deadline expires.
ExpireAnyCall(c) ==
    /\ pc[c] \in {"waiting", "checking"}
    /\ pc' = [pc EXCEPT ![c] = "expired"]
    /\ UNCHANGED <<fifo_, timed, result>>

\* The deadline passes.  It may race a notification: a thread that has been
\* notified can still find that its wait ended with cv_status::timeout.
Expire(c) ==
    /\ timed[c]
    /\ pc[c] \in {"waiting", "checking"}
    /\ pc' = [pc EXCEPT ![c] = "expired"]
    /\ UNCHANGED <<fifo_, timed, result>>

\* A fault, for NoLostWakeup: an expired call leaves without a last look.
ReturnUnchecked(c) ==
    /\ pc[c] = "expired"
    /\ ReturnFrom(c, NoMessage)
    /\ UNCHANGED <<fifo_, timed>>

\* wait_until returns pred(): `signaled`.  No message, and GetNext(ms) returns
\* the default-constructed first_message.
LastCheck(c) ==
    /\ pc[c] = "expired"
    /\ IF fifo_ # <<>>
       THEN TakeFront(c)
       ELSE ReturnFrom(c, NoMessage) /\ UNCHANGED fifo_
    /\ UNCHANGED timed

\* The standard lets a wait end with no notification at all.
SpuriousWakeup(c) ==
    /\ pc[c] = "waiting"
    /\ pc' = [pc EXCEPT ![c] = "checking"]
    /\ UNCHANGED <<fifo_, timed, result>>

Consumer(c) ==
    \/ \E withDeadline \in BOOLEAN : GetNext(c, withDeadline)
    \/ Check(c)
    \/ Expire(c)
    \/ LastCheck(c)
    \/ SpuriousWakeup(c)

Next ==
    \/ \E msg \in Messages : Add(msg)
    \/ Clear
    \/ \E c \in Consumers : Consumer(c)

Spec == Init /\ [][Next]_vars

\* A thread that wants the mutex gets it (no critical section blocks), and the
\* clock passes every deadline.  Nobody has to call GetNext, Add or Clear.
Fairness ==
    \A c \in Consumers : WF_vars(Check(c)) /\ WF_vars(Expire(c)) /\ WF_vars(LastCheck(c))

FairSpec == Spec /\ Fairness

-----------------------------------------------------------------------------
\* The types, and that only a timed call is ever past its deadline.
TypeOK ==
    /\ fifo_ \in Seq(Messages) /\ Len(fifo_) <= MaxLen
    /\ pc \in [Consumers -> {"idle", "checking", "waiting", "expired"}]
    /\ timed \in [Consumers -> BOOLEAN]
    /\ result \in [Consumers -> Messages \cup {NoMessage}]
    /\ \A c \in At("expired") : timed[c]

\* No wakeup is lost: while somebody sleeps on condition_, as many consumers
\* are on their way to look at the deque as it holds messages.  One notify_one
\* per Add, with blocking and timed callers on one condition variable, is
\* enough because an expired caller looks at the deque before it leaves.
NoLostWakeup ==
    At("waiting") # {} => Len(fifo_) <= Cardinality(Awake)

Queue == INSTANCE QueueSpec WITH
    queue <- fifo_,
    call <- [c \in Consumers |-> CASE pc[c] = "idle" -> "none"
                                   [] pc[c] # "idle" /\ timed[c] -> "timed"
                                   [] OTHER -> "blocking"]

\* The lock, the waits and the wakeups are invisible: the class is a FIFO queue
\* whose timed GetNext returns empty-handed only when the queue is empty.
ImplementsQueue == Queue!QueueSafety

\* A message never stays in the deque for ever while a consumer is inside
\* GetNext, and GetNext(ms) always returns.
ServesCallers == Queue!QueueFairness
=============================================================================
