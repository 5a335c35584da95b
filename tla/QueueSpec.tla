------------------------------ MODULE QueueSpec ------------------------------
(***************************************************************************)
(* What util/fifo.h promises its callers, with no mutex and no condition   *)
(* variable in sight: a first-in first-out queue that any thread may put   *)
(* into, from which a consumer takes with a call that blocks, GetNext(),   *)
(* or with one that may give up, GetNext(ms).                              *)
(*                                                                         *)
(* Fifo.tla is the implementation and is shown to refine this module;      *)
(* MachineSet.tla uses these actions for its event_fifo_.                  *)
(***************************************************************************)
EXTENDS Naturals, Sequences

CONSTANTS
    Consumers,   \* the threads that call GetNext
    Messages,    \* the values of type T
    NoMessage,   \* the default-constructed T that GetNext(ms) returns empty-handed
    MaxLen       \* bound of the model: the code's deque is unbounded

VARIABLES
    queue,       \* the messages put and neither taken nor dropped, oldest first
    call,        \* the call each consumer is in
    result       \* what each consumer's last completed call returned

queueVars == <<queue, call, result>>

QueueInit ==
    /\ queue = <<>>
    /\ call = [c \in Consumers |-> "none"]
    /\ result = [c \in Consumers |-> NoMessage]

Put(m) ==
    /\ Len(queue) < MaxLen
    /\ queue' = Append(queue, m)
    /\ UNCHANGED <<call, result>>

Ask(c, kind) ==
    /\ call[c] = "none"
    /\ call' = [call EXCEPT ![c] = kind]
    /\ UNCHANGED <<queue, result>>

Return(c, m) ==
    /\ call' = [call EXCEPT ![c] = "none"]
    /\ result' = [result EXCEPT ![c] = m]

Take(c) ==
    /\ call[c] # "none"
    /\ queue # <<>>
    /\ queue' = Tail(queue)
    /\ Return(c, Head(queue))

\* A timed call returns empty-handed only at a moment when the queue is empty.
GiveUp(c) ==
    /\ call[c] = "timed"
    /\ queue = <<>>
    /\ Return(c, NoMessage)
    /\ UNCHANGED queue

Drop ==
    /\ queue' = <<>>
    /\ UNCHANGED <<call, result>>

QueueNext ==
    \/ \E m \in Messages : Put(m)
    \/ \E c \in Consumers : Ask(c, "blocking") \/ Ask(c, "timed") \/ Take(c) \/ GiveUp(c)
    \/ Drop

QueueSafety == QueueInit /\ [][QueueNext]_queueVars

\* A message is not left lying in the queue while a consumer is in a call for
\* it, and a timed call returns whether or not a message comes.
QueueFairness ==
    /\ WF_queueVars(\E c \in Consumers : Take(c))
    /\ \A c \in Consumers : WF_queueVars(call[c] = "timed" /\ (Take(c) \/ GiveUp(c)))
=============================================================================
