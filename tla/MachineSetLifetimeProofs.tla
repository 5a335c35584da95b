----------------------- MODULE MachineSetLifetimeProofs -----------------------
(***************************************************************************)
(* Theorems about MachineSetLifetime for any number of users, machines and *)
(* events: nobody is left inside a set that has been freed, an application *)
(* that stops a set before it lets go of it is safe, and StopBackground    *)
(* returns to such an application when the thread has ended.               *)
(***************************************************************************)
EXTENDS MachineSetLifetime, TLAPS

\* The values stay in their types; an event is taken only when there is one.
THEOREM TypeCorrect == Spec => []TypeOK
<1>1. Init => TypeOK
  <2> SUFFICES ASSUME Init PROVE TypeOK
    OBVIOUS
  <2>1. holds \in [Users -> BOOLEAN]
    <3>1. \A u \in Users : (u = Owner) \in BOOLEAN
      OBVIOUS
    <3> QED BY <3>1, ZenonT(20) DEF Init
  <2>2. pc \in [Threads -> {"off", "free", "ended"} \cup InStop \cup InLoop]
    BY DEF Init
  <2>3. events \in 0..MaxEvents /\ todo \in 0..NumMachines
    BY LifetimeAssumption DEF Init
  <2> QED BY <2>1, <2>2, <2>3 DEF Init, TypeOK
<1>2. TypeOK /\ [Next]_vars => TypeOK'
  <2> SUFFICES ASSUME TypeOK, [Next]_vars PROVE TypeOK'
    OBVIOUS
  <2> USE LifetimeAssumption DEF TypeOK, Threads, InStop, InLoop, Goto, thread, loop, history,
          MayCall, LetGo, StopReturns, Walk
  <2>1. ASSUME NEW u \in Users, NEW v \in Users, Copy(u, v) PROVE TypeOK'
    BY <2>1 DEF Copy
  <2>2. ASSUME NEW u \in Users, Drop(u) PROVE TypeOK'
    <3>1. careless' \in BOOLEAN
      BY <2>2 DEF Drop
    <3> QED BY <2>2, <3>1 DEF Drop
  <2>3. CASE StartBackground
    BY <2>3 DEF StartBackground
  <2>4. ASSUME NEW t \in Threads, Enqueue(t) PROVE TypeOK'
    BY <2>4 DEF Enqueue
  <2>5. ASSUME NEW t \in Threads, CallStop(t) PROVE TypeOK'
    BY <2>5 DEF CallStop
  <2>6. ASSUME NEW t \in Threads, TestFlag(t) PROVE TypeOK'
    BY <2>6 DEF TestFlag
  <2>7. ASSUME NEW t \in Threads, StoreFlag(t) PROVE TypeOK'
    BY <2>7 DEF StoreFlag
  <2>8. ASSUME NEW t \in Threads, Clear(t) PROVE TypeOK'
    BY <2>8 DEF Clear
  <2>9. ASSUME NEW t \in Threads, Release(t) PROVE TypeOK'
    BY <2>9 DEF Release
  <2>10. ASSUME NEW u \in Users, Join(u) PROVE TypeOK'
    BY <2>10 DEF Join
  <2>11. CASE JoinItself
    BY <2>11 DEF JoinItself
  <2>12. CASE Top \/ Take \/ TakeNothing \/ PassOver
    BY <2>12 DEF Top, Take, TakeNothing, PassOver
  <2>13. CASE Promote
    <3>1. CASE Referenced
      BY <2>13, <3>1 DEF Promote
    <3>2. CASE ~Referenced
      BY <2>13, <3>2 DEF Promote
    <3> QED BY <3>1, <3>2
  <2>14. CASE Demote \/ Leave
    BY <2>14 DEF Demote, Leave
  <2>15. CASE Enter
    BY <2>15 DEF Enter, Referenced
  <2>16. CASE IgnoreTimeout \/ DeliveryEnds \/ ScanEnds
    BY <2>16 DEF IgnoreTimeout, DeliveryEnds, ScanEnds
  <2>17. CASE UNCHANGED vars
    BY <2>17 DEF vars
  <2> QED BY <2>1, <2>2, <2>3, <2>4, <2>5, <2>6, <2>7, <2>8, <2>9, <2>10, <2>11, <2>12,
             <2>13, <2>14, <2>15, <2>16, <2>17
          DEF Next, Calls, UserGoesOn, BackgroundGoesOn, Stopping
<1> QED BY <1>1, <1>2, PTL DEF Spec

-----------------------------------------------------------------------------
\* The set is dying or freed just if its last shared_ptr is gone.
LifeIsReferenced ==
    /\ life = "alive" => Referenced
    /\ life \in {"dying", "freed"} => ~Referenced

\* The background thread has a shared_ptr at few moments.  Only the destructor's
\* thread and, before, the owner and the background thread are inside
\* StopBackground; the latter two have a shared_ptr.
FewStop ==
    /\ held => life = "alive" /\ pc[Background] \in {"promoted", "entered"} \cup InStop
    /\ pc[Background] = "promoted" => held
    /\ \A u \in Users : pc[u] \in {"free"} \cup InStop
    /\ pc[Background] \in {"off", "ended"} \cup InStop \cup InLoop \/ life = "crashed"
    /\ \A t \in Threads : pc[t] \in {"clearing", "releasing"} => life \in {"dying", "crashed"}
    /\ \A u \in Users : life = "alive" /\ pc[u] \in InStop => u = Owner /\ holds[u]
    /\ life = "alive" /\ pc[Background] \in InStop => held
    /\ \A s, t \in Threads :
          life = "dying" /\ pc[s] \in InStop /\ pc[t] \in InStop => s = t
    /\ life = "freed" => \A t \in Threads : pc[t] \notin InStop

\* background_thread_ and the flag agree with where the threads are.
ThreadIsWhereItIs ==
    /\ pc[Background] = "off" <=> background_thread_ = "none"
    /\ background_thread_ = "joined" => pc[Background] = "ended" /\ background_thread_stop_flag_
    /\ background_thread_stop_flag_ => background_thread_ # "none"
    /\ \A u \in Users : pc[u] \in {"storing", "joining"} => background_thread_ = "joinable"
    /\ \A u \in Users : pc[u] = "joining" => background_thread_stop_flag_
    /\ life = "freed" => background_thread_ # "joinable"

\* What a careful application can rely on.
CarefulIsSafe ==
    ~careless =>
        /\ life # "crashed"
        /\ stopped => background_thread_ = "joined"
        /\ (\A u \in Users : ~holds[u]) => background_thread_ # "joinable"
        /\ pc[Background] \notin InStop
        /\ background_thread_stop_flag_ /\ background_thread_ = "joinable" =>
              pc[Owner] = "joining"

LifeInvariant == LifeIsReferenced /\ FewStop /\ ThreadIsWhereItIs /\ CarefulIsSafe

LEMMA LifeIsInvariant == Spec => []LifeInvariant
<1>1. Init => LifeInvariant
  BY LifetimeAssumption
  DEF Init, Referenced, LifeInvariant, LifeIsReferenced, FewStop, ThreadIsWhereItIs,
      CarefulIsSafe, Threads, InStop, InLoop
<1>2. TypeOK /\ LifeInvariant /\ [Next]_vars => LifeInvariant'
  <2> SUFFICES ASSUME TypeOK, LifeInvariant, [Next]_vars PROVE LifeInvariant'
    OBVIOUS
  <2> USE LifetimeAssumption
      DEF TypeOK, LifeInvariant, LifeIsReferenced, FewStop, ThreadIsWhereItIs, CarefulIsSafe,
          Threads, InStop, InLoop, Goto, thread, loop, history, Referenced
  <2>1. ASSUME NEW u \in Users, NEW v \in Users, Copy(u, v) PROVE LifeInvariant'
    BY <2>1 DEF Copy, MayCall
  <2>2. ASSUME NEW u \in Users, Drop(u), life # "crashed" PROVE LifeInvariant'
    <3>1. LifeIsReferenced'
      BY <2>2 DEF Drop, MayCall, LetGo
    <3>2. FewStop'
      <4>0. life = "alive" /\ pc[u] = "free" /\ u # Background
        BY <2>2 DEF Drop, MayCall
      <4>1. CASE Referenced'
        <5>1. pc' = pc /\ life' = life /\ held' = held
          BY <2>2, <4>0, <4>1 DEF Drop, LetGo
        <5>2. \A v \in Users : pc[v] \in InStop => v = Owner /\ holds'[v]
          BY <2>2, <4>0 DEF Drop
        <5> QED BY <5>1, <5>2, <4>0
      <4>2. CASE ~Referenced'
        <5>1. \A t \in Threads : pc[t] \notin InStop
          BY <2>2, <4>0, <4>2 DEF Drop
        <5>2. life' = "dying" /\ pc' = [pc EXCEPT ![u] = "clearing"] /\ ~held' /\ ~held
          BY <2>2, <4>2 DEF Drop, LetGo
        <5>3. \A t \in Threads : pc'[t] = IF t = u THEN "clearing" ELSE pc[t]
          BY <5>2
        <5>4. \A t \in Threads : pc'[t] \in InStop <=> t = u
          BY <5>1, <5>3
        <5> QED BY <5>2, <5>3, <5>4, <4>0
      <4> QED BY <4>1, <4>2
    <3>3. ThreadIsWhereItIs'
      BY <2>2 DEF Drop, MayCall, LetGo
    <3>4. CarefulIsSafe'
      BY <2>2 DEF Drop, MayCall, LetGo
    <3> QED BY <3>1, <3>2, <3>3, <3>4
  <2>3. CASE StartBackground
    BY <2>3 DEF StartBackground, MayCall
  <2>4. ASSUME NEW t \in Threads, Enqueue(t) PROVE LifeInvariant'
    BY <2>4 DEF Enqueue
  <2>5. ASSUME NEW t \in Threads, CallStop(t) PROVE LifeInvariant'
    BY <2>5 DEF CallStop, MayCall
  <2>6. ASSUME NEW t \in Threads, TestFlag(t) PROVE LifeInvariant'
    BY <2>6 DEF TestFlag, StopReturns
  <2>7. ASSUME NEW t \in Threads, StoreFlag(t) PROVE LifeInvariant'
    BY <2>7 DEF StoreFlag
  <2>8. ASSUME NEW t \in Threads, Clear(t) PROVE LifeInvariant'
    BY <2>8 DEF Clear
  <2>9. ASSUME NEW t \in Threads, Release(t), life # "crashed" PROVE LifeInvariant'
    <3>1. LifeIsReferenced'
      BY <2>9 DEF Release
    <3>2. FewStop'
      BY <2>9 DEF Release
    <3>3. ThreadIsWhereItIs'
      BY <2>9 DEF Release
    <3>4. CarefulIsSafe'
      BY <2>9 DEF Release
    <3> QED BY <3>1, <3>2, <3>3, <3>4
  <2>10. ASSUME NEW u \in Users, Join(u), life # "crashed" PROVE LifeInvariant'
    <3>1. LifeIsReferenced'
      BY <2>10 DEF Join, StopReturns
    <3>2. FewStop'
      BY <2>10 DEF Join, StopReturns
    <3>3. ThreadIsWhereItIs'
      BY <2>10 DEF Join, StopReturns
    <3>4. CarefulIsSafe'
      BY <2>10 DEF Join, StopReturns
    <3> QED BY <3>1, <3>2, <3>3, <3>4
  <2>11. CASE JoinItself
    BY <2>11 DEF JoinItself, StopReturns
  <2>12. CASE Top \/ Take \/ TakeNothing \/ PassOver
    BY <2>12 DEF Top, Take, TakeNothing, PassOver, Walk
  <2>13. ASSUME Promote, life # "crashed" PROVE LifeInvariant'
    <3>1. LifeIsReferenced'
      BY <2>13 DEF Promote
    <3>2. FewStop'
      BY <2>13 DEF Promote
    <3>3. ThreadIsWhereItIs'
      BY <2>13 DEF Promote
    <3>4. CarefulIsSafe'
      BY <2>13 DEF Promote
    <3> QED BY <3>1, <3>2, <3>3, <3>4
  <2>14. ASSUME Demote, life # "crashed" PROVE LifeInvariant'
    <3>1. LifeIsReferenced'
      BY <2>14 DEF Demote, LetGo
    <3>2. FewStop'
      <4>1. CASE Referenced'
        BY <2>14, <4>1 DEF Demote, LetGo
      <4>2. CASE ~Referenced'
        <5>1. \A u \in Users : ~holds[u]
          BY <2>14, <4>2 DEF Demote
        <5>2. life = "alive" /\ \A t \in Threads : pc[t] \notin InStop
          BY <2>14, <5>1 DEF Demote
        <5>3. life' = "dying" /\ pc' = [pc EXCEPT ![Background] = "clearing"] /\ ~held'
          BY <2>14, <4>2 DEF Demote, LetGo
        <5> QED BY <5>2, <5>3
      <4> QED BY <4>1, <4>2
    <3>3. ThreadIsWhereItIs'
      BY <2>14 DEF Demote, LetGo
    <3>4. CarefulIsSafe'
      BY <2>14 DEF Demote, LetGo
    <3> QED BY <3>1, <3>2, <3>3, <3>4
  <2>15. CASE Leave
    BY <2>15 DEF Leave, LetGo
  <2>16. ASSUME Enter, life # "crashed" PROVE LifeInvariant'
    <3>1. LifeIsReferenced'
      BY <2>16 DEF Enter
    <3>2. FewStop'
      BY <2>16 DEF Enter
    <3>3. ThreadIsWhereItIs'
      BY <2>16 DEF Enter
    <3>4. CarefulIsSafe'
      BY <2>16 DEF Enter
    <3> QED BY <3>1, <3>2, <3>3, <3>4
  <2>17. CASE IgnoreTimeout \/ DeliveryEnds \/ ScanEnds
    BY <2>17 DEF IgnoreTimeout, DeliveryEnds, ScanEnds, Walk
  <2>18. CASE UNCHANGED vars
    BY <2>18 DEF vars
  <2> QED BY <2>1, <2>2, <2>3, <2>4, <2>5, <2>6, <2>7, <2>8, <2>9, <2>10, <2>11, <2>12,
             <2>13, <2>14, <2>15, <2>16, <2>17, <2>18
          DEF Next, Calls, UserGoesOn, BackgroundGoesOn, Stopping
<1> QED BY <1>1, <1>2, TypeCorrect, PTL DEF Spec

\* Nothing of the library runs on the members of a set that has been freed.
THEOREM FreedSetsAreQuiet == Spec => []FreedIsQuiet
<1>1. TypeOK /\ LifeInvariant => FreedIsQuiet
  BY DEF TypeOK, LifeInvariant, LifeIsReferenced, FewStop, ThreadIsWhereItIs, FreedIsQuiet,
         Threads
<1> QED BY <1>1, TypeCorrect, LifeIsInvariant, PTL

\* The three ways of dying in the destructor's neighbourhood all take a set
\* that is let go of unstopped, or a callback that stops it.
THEOREM CarefulSurvive == Spec => []OnlyCarelessDie
<1>1. LifeInvariant => OnlyCarelessDie
  BY DEF LifeInvariant, CarefulIsSafe, OnlyCarelessDie
<1> QED BY <1>1, LifeIsInvariant, PTL

\* StopBackground keeps its word to such an application.
THEOREM StoppedThreadsHaveEnded == Spec => []StoppedIsEnded
<1>1. LifeInvariant => StoppedIsEnded
  BY DEF LifeInvariant, CarefulIsSafe, ThreadIsWhereItIs, StoppedIsEnded
<1> QED BY <1>1, LifeIsInvariant, PTL
=============================================================================
