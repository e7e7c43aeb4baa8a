----------------------- MODULE ExecutionManagerProofs -----------------------
(***************************************************************************)
(* Proofs about the client of the ExecutionManager component, for any      *)
(* number of applications.                                                 *)
(***************************************************************************)
EXTENDS ExecutionManager, TLAPS

\* The initial state satisfies the inductive invariant.
LEMMA InitIInv == Init => IInv
  BY ExecutionManagerAssumption
  DEF Init, IInv, TypeOK, NotifiedByTheOneStarted, StartedInTurn, StoppedAfterWork,
      SuccessMeansStopped, Apps, Waiting, Live

\* Every step of the client and of an application preserves it.
LEMMA StepIInv == IInv /\ [Next]_vars => IInv'
<1> SUFFICES ASSUME IInv, [Next]_vars PROVE IInv'
    OBVIOUS
<1> USE ExecutionManagerAssumption
<1> USE DEF IInv, TypeOK, NotifiedByTheOneStarted, StartedInTurn, StoppedAfterWork,
            SuccessMeansStopped, Apps, Waiting, Live
<1>0. CASE Fail
  BY <1>0 DEF Fail
<1>1. CASE Prepare
  BY <1>0, <1>1 DEF Prepare
<1>2. CASE StartEntity
  BY <1>0, <1>2 DEF StartEntity
<1>3. ASSUME NEW a \in Apps, Listen(a) PROVE IInv'
  BY <1>3 DEF Listen
<1>4. CASE Accept
  BY <1>0, <1>4 DEF Accept
<1>5. CASE Recv
  BY <1>5 DEF Recv
<1>6. CASE Reply
  <2> SUFFICES ASSUME ~Fail PROVE IInv'
    BY <1>0
  <2>1. /\ pc = "reply" /\ served = cur /\ app[cur] = "calling" /\ cur \in heard
        /\ app' = [app EXCEPT ![cur] = "alive"] /\ served' = 0 /\ heard' = heard
    BY <1>6 DEF Reply
  <2>2. \A a \in Apps : a # cur => app'[a] = app[a]
    BY <2>1
  <2>3. app'[cur] = "alive"
    BY <2>1
  <2>4. CASE cur < NumApps
    <3>1. pc' = "start" /\ cur' = cur + 1
      BY <1>6, <2>4 DEF Reply
    <3> QED BY <2>1, <2>2, <2>3, <2>4, <3>1
  <2>5. CASE ~(cur < NumApps)
    <3>1. pc' = "stop" /\ cur' = 1
      BY <1>6, <2>5 DEF Reply
    <3>2. \A a \in Apps : a \in heard
      <4> TAKE a \in Apps
      <4>1. a < cur \/ a = cur
        BY <2>5
      <4> QED BY <2>1, <4>1
    <3>3. heard = Apps
      BY <3>2
    <3> QED BY <2>1, <2>2, <2>3, <3>1, <3>3
  <2> QED BY <2>4, <2>5
<1>7. CASE StopEntity
  <2> SUFFICES ASSUME ~Fail PROVE IInv'
    BY <1>0
  <2>1. CASE cur < NumApps
    BY <1>7, <2>1 DEF StopEntity
  <2>2. CASE ~(cur < NumApps)
    BY <1>7, <2>2 DEF StopEntity
  <2> QED BY <2>1, <2>2
<1>8. ASSUME NEW a \in Apps, Connect(a) PROVE IInv'
  BY <1>8 DEF Connect
<1>9. ASSUME NEW a \in Apps, Call(a) PROVE IInv'
  BY <1>9 DEF Call
<1>10. ASSUME NEW a \in Apps, Exit(a) PROVE IInv'
  BY <1>10 DEF Exit
<1>11. CASE UNCHANGED vars
  BY <1>11 DEF vars
<1> QED
  BY <1>0, <1>1, <1>2, <1>3, <1>4, <1>5, <1>6, <1>7, <1>8, <1>9, <1>10, <1>11
  DEF Next, Client, ListenFails, RecvFails, Stopped

\* The inductive invariant holds in every state of every behaviour.
THEOREM Invariance == Spec => []IInv
<1>1. QED
  BY InitIInv, StepIInv, PTL DEF Spec

\* The variables of the client and the applications have their types.
THEOREM TypeCorrect == Spec => []TypeOK
<1>1. IInv => TypeOK
  BY DEF IInv
<1>2. QED
  BY Invariance, <1>1, PTL

\* A notification is never taken for that of another application, although
\* WaitForNotification() does not look at the sender.
THEOREM OwnNotification == Spec => []NotifiedByTheOneStarted
<1>1. IInv => NotifiedByTheOneStarted
  BY DEF IInv
<1>2. QED
  BY Invariance, <1>1, PTL

\* The applications are started one by one.
THEOREM InTurn == Spec => []StartedInTurn
<1>1. IInv => StartedInTurn
  BY DEF IInv
<1>2. QED
  BY Invariance, <1>1, PTL

\* StopEntity() interrupts no application's work.
THEOREM WorkDone == Spec => []StoppedAfterWork
<1>1. IInv => StoppedAfterWork
  BY DEF IInv
<1>2. QED
  BY Invariance, <1>1, PTL

\* EXIT_SUCCESS means that every application was heard and has ended.
THEOREM Success == Spec => []SuccessMeansStopped
<1>1. IInv => SuccessMeansStopped
  BY DEF IInv
<1>2. QED
  BY Invariance, <1>1, PTL
=============================================================================
