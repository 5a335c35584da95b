----------------------------- MODULE FifoProofs -----------------------------
(***************************************************************************)
(* Theorems about Fifo, for any finite set of consumers, any type of       *)
(* message and any bound: its types, that no wakeup is lost, and that it   *)
(* implements the queue of QueueSpec.                                      *)
(***************************************************************************)
EXTENDS Fifo, FiniteSetTheorems, TLAPS

\* Every set of consumers a state can single out is finite and counted in Nat.
LEMMA ConsumerSets ==
    ASSUME NEW S \in SUBSET Consumers
    PROVE  IsFiniteSet(S) /\ Cardinality(S) \in Nat
BY FifoAssumption, FS_Subset, FS_CardinalityType

-----------------------------------------------------------------------------
\* The values stay in their types in every state the class can reach, and
\* no blocking GetNext() is ever treated as expired.
THEOREM TypeCorrect == Spec => []TypeOK
<1>1. Init => TypeOK
  BY FifoAssumption DEF Init, TypeOK, At
<1>2. TypeOK /\ [Next]_vars => TypeOK'
  <2> SUFFICES ASSUME TypeOK, [Next]_vars PROVE TypeOK'
    OBVIOUS
  <2> USE FifoAssumption DEF TypeOK, At
  <2>1. ASSUME NEW msg \in Messages, Add(msg) PROVE TypeOK'
    <3>1. fifo_' \in Seq(Messages) /\ Len(fifo_') <= MaxLen
      BY <2>1 DEF Add
    <3>2. pc' \in [Consumers -> {"idle", "checking", "waiting", "expired"}]
      BY <2>1 DEF Add, NotifyOne
    <3>3. \A c \in Consumers : pc'[c] = "expired" => timed[c]
      BY <2>1 DEF Add, NotifyOne
    <3> QED BY <2>1, <3>1, <3>2, <3>3 DEF Add
  <2>2. ASSUME Clear PROVE TypeOK'
    BY <2>2 DEF Clear, NotifyAll
  <2>3. ASSUME NEW c \in Consumers, NEW d \in BOOLEAN, GetNext(c, d) PROVE TypeOK'
    BY <2>3 DEF GetNext
  <2>a. ASSUME NEW c \in Consumers, TakeFront(c), fifo_ # <<>>, timed' = timed
        PROVE  TypeOK'
    <3>1. Tail(fifo_) \in Seq(Messages) /\ Len(Tail(fifo_)) <= MaxLen
      BY <2>a
    <3>2. Head(fifo_) \in Messages
      BY <2>a
    <3>3. /\ pc' \in [Consumers -> {"idle", "checking", "waiting", "expired"}]
          /\ \A d \in Consumers : pc'[d] = "expired" => timed[d]
      BY <2>a DEF TakeFront, ReturnFrom
    <3>4. result' \in [Consumers -> Messages \cup {NoMessage}]
      BY <2>a, <3>2 DEF TakeFront, ReturnFrom
    <3> QED BY <2>a, <3>1, <3>3, <3>4 DEF TakeFront
  <2>4. ASSUME NEW c \in Consumers, Check(c) PROVE TypeOK'
    <3>1. CASE fifo_ # <<>>
      BY <2>4, <2>a, <3>1 DEF Check
    <3>2. CASE fifo_ = <<>>
      BY <2>4, <3>2 DEF Check
    <3> QED BY <3>1, <3>2
  <2>5. ASSUME NEW c \in Consumers, Expire(c) PROVE TypeOK'
    BY <2>5 DEF Expire
  <2>6. ASSUME NEW c \in Consumers, LastCheck(c) PROVE TypeOK'
    <3>1. CASE fifo_ # <<>>
      BY <2>6, <2>a, <3>1 DEF LastCheck
    <3>2. CASE fifo_ = <<>>
      BY <2>6, <3>2 DEF LastCheck, ReturnFrom
    <3> QED BY <3>1, <3>2
  <2>7. ASSUME NEW c \in Consumers, SpuriousWakeup(c) PROVE TypeOK'
    BY <2>7 DEF SpuriousWakeup
  <2>8. CASE UNCHANGED vars
    BY <2>8 DEF vars
  <2> QED BY <2>1, <2>2, <2>3, <2>4, <2>5, <2>6, <2>7, <2>8 DEF Next, Consumer
<1> QED BY <1>1, <1>2, PTL DEF Spec

-----------------------------------------------------------------------------
\* A consumer that starts to look at the deque adds at least one to the count
\* of those awake, and taking one consumer away lowers it by at most one.
LEMMA AwakeGrows ==
    ASSUME NEW S \in SUBSET Consumers, NEW T \in SUBSET Consumers,
           NEW c \in T, c \notin S, S \subseteq T
    PROVE  Cardinality(S) + 1 <= Cardinality(T)
<1>1. IsFiniteSet(S) /\ IsFiniteSet(T) /\ Cardinality(S) \in Nat /\ Cardinality(T) \in Nat
  BY ConsumerSets
<1>2. Cardinality(S \cup {c}) = Cardinality(S) + 1
  BY <1>1, FS_AddElement
<1>3. S \cup {c} \subseteq T
  OBVIOUS
<1> QED BY <1>1, <1>2, <1>3, FS_Subset

LEMMA AwakeShrinks ==
    ASSUME NEW S \in SUBSET Consumers, NEW T \in SUBSET Consumers, NEW c,
           S \ {c} \subseteq T
    PROVE  Cardinality(S) <= Cardinality(T) + 1
<1>1. IsFiniteSet(S) /\ IsFiniteSet(T) /\ Cardinality(S) \in Nat /\ Cardinality(T) \in Nat
  BY ConsumerSets
<1>2. IsFiniteSet(S \ {c}) /\ Cardinality(S \ {c}) \in Nat
  BY ConsumerSets
<1>3. Cardinality(S) <= Cardinality(S \ {c}) + 1
  <2>1. CASE c \in S
    <3>1. Cardinality(S \ {c}) = Cardinality(S) - 1
      BY <1>1, <2>1, FS_RemoveElement
    <3> QED BY <1>1, <1>2, <3>1
  <2>2. CASE c \notin S
    <3>1. S \ {c} = S
      BY <2>2
    <3>2. Cardinality(S \ {c}) = Cardinality(S)
      BY <3>1, Zenon
    <3> QED BY <1>1, <3>2
  <2> QED BY <2>1, <2>2
<1>4. Cardinality(S \ {c}) <= Cardinality(T)
  BY <1>1, FS_Subset
<1> QED BY <1>1, <1>2, <1>3, <1>4

\* No wakeup is lost, whatever the number of blocking and timed callers: the
\* invariant is inductive once the types are known.
THEOREM WakeupsAreKept == Spec => []NoLostWakeup
<1>1. Init => NoLostWakeup
  BY DEF Init, NoLostWakeup, At
<1>2. TypeOK /\ NoLostWakeup /\ [Next]_vars => NoLostWakeup'
  <2> SUFFICES ASSUME TypeOK, NoLostWakeup, [Next]_vars,
                      At("waiting")' # {}
               PROVE  Len(fifo_') <= Cardinality(Awake')
    BY DEF NoLostWakeup
  <2>0. /\ Awake \in SUBSET Consumers /\ Cardinality(Awake) \in Nat
        /\ Awake' \in SUBSET Consumers /\ Cardinality(Awake') \in Nat
        /\ Len(fifo_) \in Nat
    BY ConsumerSets DEF Awake, At, TypeOK
  <2>a. fifo_' = fifo_ /\ At("waiting") # {} /\ Awake \subseteq Awake'
        => Len(fifo_') <= Cardinality(Awake')
    BY <2>0, ConsumerSets, FS_Subset DEF NoLostWakeup
  <2>1. ASSUME NEW msg \in Messages, Add(msg) PROVE Len(fifo_') <= Cardinality(Awake')
    <3>1. PICK c \in At("waiting") : pc' = [pc EXCEPT ![c] = "checking"]
      BY <2>1 DEF Add, NotifyOne, At
    <3>2. Awake \subseteq Awake' /\ c \in Awake' /\ c \notin Awake
      BY <3>1 DEF TypeOK, Awake, At
    <3>3. Cardinality(Awake) + 1 <= Cardinality(Awake')
      BY <2>0, <3>2, AwakeGrows
    <3>4. Len(fifo_') = Len(fifo_) + 1
      BY <2>1 DEF Add, TypeOK
    <3> QED BY <2>0, <3>1, <3>3, <3>4 DEF NoLostWakeup
  <2>2. ASSUME Clear PROVE Len(fifo_') <= Cardinality(Awake')
    BY <2>0, <2>2 DEF Clear
  <2>3. ASSUME NEW c \in Consumers, NEW d \in BOOLEAN, GetNext(c, d)
        PROVE  Len(fifo_') <= Cardinality(Awake')
    BY <2>a, <2>3 DEF GetNext, TypeOK, Awake, At
  <2>b. ASSUME NEW c \in Consumers, TakeFront(c), fifo_ # <<>>
        PROVE  Len(fifo_') <= Cardinality(Awake')
    <3>1. Len(fifo_') + 1 = Len(fifo_)
      BY <2>b DEF TakeFront, TypeOK
    <3>2. At("waiting") # {} /\ Awake \ {c} \subseteq Awake'
      BY <2>b DEF TakeFront, ReturnFrom, TypeOK, Awake, At
    <3>3. Cardinality(Awake) <= Cardinality(Awake') + 1
      BY <2>0, <3>2, AwakeShrinks
    <3> QED BY <2>0, <2>b, <3>1, <3>2, <3>3 DEF NoLostWakeup, TakeFront, TypeOK
  <2>4. ASSUME NEW c \in Consumers, Check(c) PROVE Len(fifo_') <= Cardinality(Awake')
    <3>1. CASE fifo_ # <<>>
      BY <2>4, <2>b, <3>1 DEF Check
    <3>2. CASE fifo_ = <<>>
      BY <2>0, <2>4, <3>2 DEF Check
    <3> QED BY <3>1, <3>2
  <2>5. ASSUME NEW c \in Consumers, Expire(c) PROVE Len(fifo_') <= Cardinality(Awake')
    BY <2>a, <2>5 DEF Expire, TypeOK, Awake, At
  <2>6. ASSUME NEW c \in Consumers, LastCheck(c) PROVE Len(fifo_') <= Cardinality(Awake')
    <3>1. CASE fifo_ # <<>>
      BY <2>6, <2>b, <3>1 DEF LastCheck
    <3>2. CASE fifo_ = <<>>
      BY <2>0, <2>6, <3>2 DEF LastCheck
    <3> QED BY <3>1, <3>2
  <2>7. ASSUME NEW c \in Consumers, SpuriousWakeup(c) PROVE Len(fifo_') <= Cardinality(Awake')
    BY <2>a, <2>7 DEF SpuriousWakeup, TypeOK, Awake, At
  <2>8. CASE UNCHANGED vars
    BY <2>a, <2>8 DEF vars, Awake, At
  <2> QED BY <2>1, <2>2, <2>3, <2>4, <2>5, <2>6, <2>7, <2>8 DEF Next, Consumer
<1> QED BY <1>1, <1>2, TypeCorrect, PTL DEF Spec

-----------------------------------------------------------------------------
\* The class is the queue of QueueSpec: each step of the implementation, seen
\* through the refinement mapping, is a step of that queue or changes nothing.
THEOREM FifoIsAQueue == Spec => ImplementsQueue
<1> DEFINE CallOf == [c \in Consumers |-> CASE pc[c] = "idle" -> "none"
                                           [] pc[c] # "idle" /\ timed[c] -> "timed"
                                           [] OTHER -> "blocking"]
<1>1. Init => Queue!QueueInit
  BY DEF Init, Queue!QueueInit
<1>2. TypeOK /\ [Next]_vars => [Queue!QueueNext]_(Queue!queueVars)
  <2> SUFFICES ASSUME TypeOK, [Next]_vars
               PROVE  Queue!QueueNext \/ UNCHANGED Queue!queueVars
    OBVIOUS
  <2>a. ASSUME fifo_' = fifo_, result' = result, timed' = timed,
               \A d \in Consumers : pc[d] = "idle" <=> pc'[d] = "idle"
        PROVE  UNCHANGED Queue!queueVars
    <3>1. CallOf' = CallOf
      BY <2>a
    <3> QED BY <2>a, <3>1 DEF Queue!queueVars
  <2>1. ASSUME NEW msg \in Messages, Add(msg) PROVE Queue!Put(msg)
    <3>1. \A d \in Consumers : pc[d] = "idle" <=> pc'[d] = "idle"
      BY <2>1 DEF Add, NotifyOne, At, TypeOK
    <3>2. CallOf' = CallOf
      BY <2>1, <3>1 DEF Add
    <3> QED BY <2>1, <3>2 DEF Add, Queue!Put
  <2>2. ASSUME Clear PROVE Queue!Drop
    <3>1. \A d \in Consumers : pc[d] = "idle" <=> pc'[d] = "idle"
      BY <2>2 DEF Clear, NotifyAll, TypeOK
    <3>2. CallOf' = CallOf
      BY <2>2, <3>1 DEF Clear
    <3> QED BY <2>2, <3>2 DEF Clear, Queue!Drop
  <2>3. ASSUME NEW c \in Consumers, NEW d \in BOOLEAN, GetNext(c, d)
        PROVE  Queue!Ask(c, IF d THEN "timed" ELSE "blocking")
    <3>1. CallOf[c] = "none"
      BY <2>3 DEF GetNext
    <3>2. CallOf' = [CallOf EXCEPT ![c] = IF d THEN "timed" ELSE "blocking"]
      BY <2>3 DEF GetNext, TypeOK
    <3> QED BY <2>3, <3>1, <3>2 DEF GetNext, Queue!Ask
  <2>b. ASSUME NEW c \in Consumers, pc[c] # "idle", timed' = timed,
               pc' = [pc EXCEPT ![c] = "idle"]
        PROVE  CallOf' = [CallOf EXCEPT ![c] = "none"] /\ CallOf[c] # "none"
    BY <2>b DEF TypeOK
  <2>c. ASSUME NEW c \in Consumers, pc[c] # "idle", timed' = timed, fifo_ # <<>>,
               TakeFront(c)
        PROVE  Queue!Take(c)
    <3>1. CallOf' = [CallOf EXCEPT ![c] = "none"] /\ CallOf[c] # "none"
      BY <2>b, <2>c DEF TakeFront, ReturnFrom
    <3> QED BY <2>c, <3>1 DEF TakeFront, ReturnFrom, Queue!Take, Queue!Return
  <2>4. ASSUME NEW c \in Consumers, Check(c)
        PROVE  Queue!Take(c) \/ UNCHANGED Queue!queueVars
    <3>1. CASE fifo_ # <<>>
      BY <2>4, <2>c, <3>1 DEF Check
    <3>2. CASE fifo_ = <<>>
      BY <2>4, <2>a, <3>2 DEF Check, TypeOK
    <3> QED BY <3>1, <3>2
  <2>5. ASSUME NEW c \in Consumers, Expire(c) PROVE UNCHANGED Queue!queueVars
    BY <2>5, <2>a DEF Expire, TypeOK
  <2>6. ASSUME NEW c \in Consumers, LastCheck(c)
        PROVE  Queue!Take(c) \/ Queue!GiveUp(c)
    <3>1. CASE fifo_ # <<>>
      BY <2>6, <2>c, <3>1 DEF LastCheck
    <3>2. CASE fifo_ = <<>>
      <4>1. CallOf[c] = "timed"
        BY <2>6 DEF LastCheck, TypeOK, At
      <4>2. CallOf' = [CallOf EXCEPT ![c] = "none"]
        BY <2>6, <2>b, <3>2 DEF LastCheck, ReturnFrom
      <4> QED BY <2>6, <3>2, <4>1, <4>2
              DEF LastCheck, ReturnFrom, Queue!GiveUp, Queue!Return
    <3> QED BY <3>1, <3>2
  <2>7. ASSUME NEW c \in Consumers, SpuriousWakeup(c) PROVE UNCHANGED Queue!queueVars
    BY <2>7, <2>a DEF SpuriousWakeup, TypeOK
  <2>8. CASE UNCHANGED vars
    BY <2>8, <2>a DEF vars
  <2>9. CASE Next
    <3>1. \A c \in Consumers, d \in BOOLEAN : GetNext(c, d) => Queue!QueueNext
      BY <2>3 DEF Queue!QueueNext
    <3> QED BY <2>9, <3>1, <2>1, <2>2, <2>4, <2>5, <2>6, <2>7
            DEF Next, Consumer, Queue!QueueNext
  <2> QED BY <2>8, <2>9
<1> QED BY <1>1, <1>2, TypeCorrect, PTL DEF Spec, ImplementsQueue, Queue!QueueSafety
=============================================================================
