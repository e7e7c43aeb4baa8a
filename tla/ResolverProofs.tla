--------------------------- MODULE ResolverProofs ---------------------------
(***************************************************************************)
(* Theorems about the resolver of examples/c-ares, for every set of        *)
(* requests, every way the library and the clients may behave and every    *)
(* number of descriptors; and about the solution it is part of, for every  *)
(* set of clients, their host names and the clients that are killed.       *)
(***************************************************************************)
EXTENDS NameLookup, FiniteSetTheorems, SequenceTheorems, TLAPS

\* The constructor leaves both threads in a state of the inductive invariant.
LEMMA InitIInv == Init => IInv
  BY ResolverAssumption
  DEF Init, IInv, TypeOK, ListInv, AnswerInv, ThreadInv, DescInv, AtMostOnce,
      NoLostWakeup, TimeoutDefined, NodeAlive, Accepted, Answering, Threads,
      Statuses, IpcLabels, PollLabels

\* Every step of the ipc thread keeps the inductive invariant.
LEMMA IpcIInv ==
  ASSUME IInv,
         \/ Boot \/ IpcStep \/ Shutdown
         \/ \E r \in Requests : ResolveEmpty(r) \/ AddRequest(r)
  PROVE  IInv'
<1> USE ResolverAssumption
    DEF IInv, TypeOK, ListInv, AnswerInv, ThreadInv, DescInv, AtMostOnce,
        NoLostWakeup, TimeoutDefined, NodeAlive, Accepted, Answering, Threads,
        Statuses, IpcLabels, PollLabels, Goto
<1>1. CASE Boot
  BY <1>1 DEF Boot
<1>2. ASSUME NEW r \in Requests, ResolveEmpty(r) PROVE IInv'
  BY <1>2 DEF ResolveEmpty
<1>3. ASSUME NEW r \in Requests, AddRequest(r) PROVE IInv'
  BY <1>3 DEF AddRequest
<1>4. CASE SubmitAsync
  BY <1>4 DEF SubmitAsync
<1>5. CASE SubmitSync
  BY <1>5 DEF SubmitSync, OnResolved
<1>6. CASE AnswerSync
  BY <1>6 DEF AnswerSync, OnResolve
<1>7. CASE AnswerSyncThrows
  <2>1. CASE pc' = [t \in Threads |-> "terminated"]
    BY <1>7, <2>1 DEF AnswerSyncThrows
  <2>2. CASE channel' = "leaked" /\ pc' = [pc EXCEPT !["ipc"] = "idle"]
    <3>1. TypeOK' /\ ListInv' /\ ThreadInv' /\ DescInv'
      BY <1>7, <2>2 DEF AnswerSyncThrows
    <3>2. AnswerInv'
      BY <1>7, <2>2 DEF AnswerSyncThrows
    <3>3. AtMostOnce' /\ NoLostWakeup' /\ TimeoutDefined' /\ NodeAlive'
      BY <1>7, <2>2 DEF AnswerSyncThrows
    <3> QED BY <3>1, <3>2, <3>3
  <2> QED BY <1>7, <2>1, <2>2 DEF AnswerSyncThrows
<1>8. CASE Notify
  BY <1>8 DEF Notify, NotifyOne
<1>9. CASE Shutdown
  <2>1. pc' = [pc EXCEPT !["ipc"] = "stopping"] /\ pc["ipc"] = "idle" /\ active' = FALSE
    BY <1>9 DEF Shutdown
  <2>2. pc["poll"] = "asleep" => callbacks = {}
    BY <2>1
  <2>3. TypeOK' /\ ListInv' /\ DescInv'
    BY <1>9 DEF Shutdown
  <2>4. AnswerInv' /\ AtMostOnce' /\ TimeoutDefined' /\ NodeAlive'
    BY <1>9 DEF Shutdown
  <2>5. ThreadInv' /\ NoLostWakeup'
    BY <1>9, <2>2 DEF Shutdown
  <2> QED BY <2>3, <2>4, <2>5
<1>10. CASE ShutdownNotify
  BY <1>10 DEF ShutdownNotify, NotifyOne
<1>11. CASE Destroy
  BY <1>11 DEF Destroy
<1> QED
  BY <1>1, <1>2, <1>3, <1>4, <1>5, <1>6, <1>7, <1>8, <1>9, <1>10, <1>11 DEF IpcStep

\* Every step of the poll thread keeps the inductive invariant.
LEMMA PollIInv ==
  ASSUME IInv,
         \/ PollStep \/ SpuriousWakeup
         \/ \E r \in Requests : CompleteQuery(r)
  PROVE  IInv'
<1> USE ResolverAssumption
    DEF IInv, TypeOK, ListInv, AnswerInv, ThreadInv, DescInv, AtMostOnce,
        NoLostWakeup, TimeoutDefined, NodeAlive, Accepted, Answering, Threads,
        Statuses, IpcLabels, PollLabels, Goto
<1>1. CASE HasRequests
  BY <1>1 DEF HasRequests, AfterHasRequests
<1>2. CASE SpuriousWakeup
  BY <1>2 DEF SpuriousWakeup
<1>3. CASE WaitPredicate
  BY <1>3 DEF WaitPredicate, AfterHasRequests
<1>4. CASE FillPollDescriptors
  BY <1>4 DEF FillPollDescriptors
<1>5. CASE GetTimeout
  BY <1>5 DEF GetTimeout
<1>6. CASE Poll
  BY <1>6 DEF Poll
<1>7. CASE ProcessFd
  BY <1>7 DEF ProcessFd
<1>8. ASSUME NEW r \in Requests, CompleteQuery(r) PROVE IInv'
  BY <1>8 DEF CompleteQuery, OnResolved
<1>9. CASE AnswerAsync
  BY <1>9 DEF AnswerAsync, OnResolve
<1>10. CASE AnswerAsyncThrows
  BY <1>10 DEF AnswerAsyncThrows
<1>11. CASE LeaveLibrary
  BY <1>11 DEF LeaveLibrary
<1> QED
  BY <1>1, <1>2, <1>3, <1>4, <1>5, <1>6, <1>7, <1>8, <1>9, <1>10, <1>11 DEF PollStep

\* Every step of the resolver keeps it.
LEMMA NextIInv ==
  ASSUME IInv, [Next]_vars
  PROVE  IInv'
<1>1. CASE UNCHANGED vars
  BY <1>1 DEF vars, IInv, TypeOK, ListInv, AnswerInv, ThreadInv, DescInv,
     AtMostOnce, NoLostWakeup, TimeoutDefined, NodeAlive, Accepted, Answering
<1> QED
  BY <1>1, IpcIInv, PollIInv DEF Next, Stopped

\* IInv is an invariant of the resolver: whatever the order in which the two
\* threads run, the list, the channel and the answers stay in step.
THEOREM Invariance == Spec => []IInv
  BY InitIInv, NextIInv, PTL DEF Spec

\* Each client gets at most one OnResolve() call per Resolve() call.
THEOREM AnsweredAtMostOnce == Spec => []AtMostOnce
  BY Invariance, PTL DEF IInv

\* The type invariant of the resolver.
THEOREM TypeCorrect == Spec => []TypeOK
  BY Invariance, PTL DEF IInv

\* The wait in HasRequests() loses no notification.
THEOREM WakeupNotLost == Spec => []NoLostWakeup
  BY Invariance, PTL DEF IInv

\* GetTimeout() never dereferences the NULL of an idle channel.
THEOREM TimeoutIsDefined == Spec => []TimeoutDefined
  BY Invariance, PTL DEF IInv

\* The node of a query is not erased before the poll thread has answered it.
THEOREM NodeStaysAlive == Spec => []NodeAlive
  BY Invariance, PTL DEF IInv

\* An accepted request is answered, or exactly one of the channel, the ipc
\* thread and a running OnResolved() holds it.
THEOREM AnswerNotLost == Spec => []NoLostAnswer
<1>1. IInv => NoLostAnswer
  <2> SUFFICES ASSUME IInv, pc["ipc"] # "terminated", NEW r \in Accepted
               PROVE  NoLostAnswer!2!(r)
    BY DEF NoLostAnswer
  <2> USE DEF IInv, TypeOK, ListInv, AnswerInv, AtMostOnce, Accepted, Answering, Threads
  <2> DEFINE submitting == pc["ipc"] = "submit" /\ req["ipc"] = r
  <2>1. CASE r \in inflight
    BY <2>1
  <2>2. CASE r \notin inflight /\ submitting
    BY <2>2
  <2>3. CASE r \notin inflight /\ ~submitting
    <3>1. r \notin callbacks
      BY <2>3
    <3>2. (answered[r] = 0) <=> \E t \in Threads : pc[t] = "answer" /\ req[t] = r
      BY <3>1
    <3>3. ASSUME NEW t \in Threads, pc[t] = "answer" /\ req[t] = r
          PROVE  Answering(r) = {t}
      BY <3>3
    <3> QED BY <2>3, <3>2, <3>3
  <2> QED BY <2>1, <2>2, <2>3
<1> QED BY <1>1, Invariance, PTL

\* ~Resolver() answers everything that was accepted before it destroys the
\* channel.
THEOREM Drained == Spec => []DrainedAtExit
<1>1. IInv => DrainedAtExit
  BY DEF IInv, DrainedAtExit, TypeOK, ListInv, AnswerInv, ThreadInv, Accepted,
         Answering, Threads
<1> QED BY <1>1, Invariance, PTL

\* If no lookup fails before ares_gethostbyname() has returned, every failure
\* is reported under the name the client asked for.
THEOREM NamesAreRight ==
  ASSUME "failed" \notin SyncStatus
  PROVE  Spec => []AnswersNameTheirHost
<1> DEFINE SyncInv == status["ipc"] = "success" /\ AnswersNameTheirHost
<1>1. Init => SyncInv
  BY DEF Init, AnswersNameTheirHost, Threads
<1>2. IInv /\ SyncInv /\ [Next]_vars => SyncInv'
  <2> SUFFICES ASSUME IInv, SyncInv, [Next]_vars PROVE SyncInv'
    OBVIOUS
  <2> USE DEF AnswersNameTheirHost, IInv, TypeOK, Threads, Statuses
  <2>1. CASE SubmitSync
    BY <2>1, ResolverAssumption DEF SubmitSync, OnResolved
  <2>2. CASE AnswerSync
    BY <2>2 DEF AnswerSync, OnResolve
  <2>3. CASE AnswerAsync
    BY <2>3 DEF AnswerAsync, OnResolve, NodeAlive
  <2>4. ASSUME NEW r \in Requests, CompleteQuery(r) PROVE SyncInv'
    BY <2>4 DEF CompleteQuery, OnResolved
  <2>5. CASE UNCHANGED <<status, misnamed>>
    BY <2>5
  <2> QED
    BY <2>1, <2>2, <2>3, <2>4, <2>5
    DEF Next, vars, Stopped, IpcStep, PollStep, Boot, Shutdown, ResolveEmpty,
        AddRequest, SubmitAsync, AnswerSyncThrows, Notify, ShutdownNotify,
        Destroy, HasRequests, SpuriousWakeup, WaitPredicate,
        FillPollDescriptors, GetTimeout, Poll, ProcessFd, AnswerAsyncThrows,
        LeaveLibrary
<1> QED
  BY <1>1, <1>2, Invariance, PTL DEF Spec, SyncInv

\* If the abstract state of one request moves and nothing else of what the
\* clients see changes, the service takes a step.
LEMMA MoveOne ==
  ASSUME NEW r \in Requests, NEW from, NEW to,
         condition = "up", condition' = "up",
         StateOf(r) = from, StateOf(r)' = to,
         \A s \in Requests \ {r} : StateOf(s)' = StateOf(s)
  PROVE  Service!Move(r, from, to)
  BY DEF Service!Move, lookups

\* The resolver implements the lookup service: the initial state maps to its
\* initial state and every step of a thread to one of its steps or to none.
THEOREM Implementation == Spec => ImplementsService
<1>1. Init => Service!Init
  BY DEF Init, Service!Init, lookups, condition, StateOf
<1>2. IInv /\ IInv' /\ [Next]_vars => [Service!Next]_(Service!vars)
  <2> SUFFICES ASSUME IInv, IInv', [Next]_vars
               PROVE  Service!Next \/ UNCHANGED Service!vars
    OBVIOUS
  <2> USE DEF IInv, TypeOK, Threads, Goto, Accepted
  <2>1. CASE Boot
    <3>1. lookups' = lookups /\ condition = "up"
      BY <2>1 DEF Boot, lookups, StateOf, condition
    <3>2. CASE pc' = [ipc |-> "idle", poll |-> "check"]
      BY <2>1, <3>1, <3>2 DEF Service!vars, condition
    <3>3. CASE pc' = [pc EXCEPT !["ipc"] = "exited"]
      <4>1. condition' = "stopped"
        BY <2>1, <3>3 DEF condition
      <4>2. Service!Owed = {}
        BY <2>1 DEF Boot, Service!Owed, lookups, StateOf, ThreadInv
      <4> QED BY <3>1, <4>1, <4>2 DEF Service!Next, Service!Stop
    <3> QED BY <2>1, <3>2, <3>3 DEF Boot
  <2>2. ASSUME NEW r \in Requests, ResolveEmpty(r) PROVE Service!Next
    <3>1. Service!Move(r, "unknown", "refused")
      BY <2>2, MoveOne DEF ResolveEmpty, StateOf, condition
    <3> QED BY <3>1 DEF Service!Next, Service!Refuse
  <2>3. ASSUME NEW r \in Requests, AddRequest(r) PROVE Service!Next
    <3>1. Service!Move(r, "unknown", "accepted")
      BY <2>3, MoveOne DEF AddRequest, StateOf, condition, AnswerInv
    <3> QED BY <3>1 DEF Service!Next, Service!Accept
  <2>4. ASSUME NEW t \in Threads, pc[t] = "answer", OnResolve(t),
               UNCHANGED <<asked, rejected>>,
               pc["ipc"] \notin {"exited", "terminated"},
               pc'["ipc"] \notin {"exited", "terminated"}
        PROVE  Service!Next
    <3>1. PICK r \in Requests : r = req[t] /\ r \in Accepted /\ answered[r] = 0
      BY <2>4 DEF AnswerInv
    <3>2. answered' = [answered EXCEPT ![r] = 1]
      BY <2>4, <3>1 DEF OnResolve
    <3>3. StateOf(r) = "accepted" /\ StateOf(r)' = "answered"
      BY <2>4, <3>1, <3>2 DEF StateOf
    <3>4. \A s \in Requests \ {r} : StateOf(s)' = StateOf(s)
      BY <2>4, <3>2 DEF StateOf
    <3>5. condition = "up" /\ condition' = "up"
      BY <2>4 DEF condition
    <3>6. Service!Move(r, "accepted", "answered")
      BY <3>1, <3>3, <3>4, <3>5, MoveOne
    <3> QED BY <3>1, <3>6 DEF Service!Next, Service!Answer
  <2>5. ASSUME NEW t \in Threads, pc[t] = "answer", req[t] \in MayThrow,
               UNCHANGED <<asked, rejected, answered>>,
               pc["ipc"] \notin {"exited", "terminated"},
               pc'["ipc"] = "terminated"
        PROVE  Service!Next
    <3>1. req[t] \in Service!Owed \cap MayThrow
      BY <2>5, ResolverAssumption DEF AnswerInv, Service!Owed, lookups, StateOf
    <3>2. lookups' = lookups /\ condition = "up" /\ condition' = "failed"
      BY <2>5 DEF lookups, StateOf, condition
    <3> QED BY <3>1, <3>2 DEF Service!Next, Service!Fail
  <2>6. CASE AnswerSyncThrows /\ pc'["ipc"] # "terminated"
    <3>1. PICK r \in Requests : /\ r = req["ipc"] /\ r \in Accepted
                                /\ answered[r] = 0 /\ r \in MayThrow
      BY <2>6 DEF AnswerSyncThrows, AnswerInv
    <3>2. rejected' = rejected \cup {r} /\ UNCHANGED <<asked, answered>>
      BY <2>6, <3>1 DEF AnswerSyncThrows
    <3>3. Service!Move(r, "accepted", "refused")
      BY <2>6, <3>1, <3>2, MoveOne DEF AnswerSyncThrows, StateOf, condition
    <3> QED BY <3>1, <3>3 DEF Service!Next, Service!GiveUp
  <2>7. CASE Destroy
    <3>1. lookups' = lookups /\ condition = "up" /\ condition' = "stopped"
      BY <2>7 DEF Destroy, lookups, StateOf, condition
    <3>2. \A r \in Accepted : answered[r] = 1
      BY <2>7 DEF Destroy, ListInv, AnswerInv, ThreadInv, Answering
    <3>3. \A r \in Requests : StateOf(r) # "accepted"
      BY <3>2 DEF StateOf
    <3>4. Service!Owed = {}
      BY <3>3 DEF Service!Owed, lookups
    <3> QED BY <3>1, <3>4 DEF Service!Next, Service!Stop
  <2>8. CASE UNCHANGED <<asked, rejected, answered>> /\ condition' = condition
    BY <2>8 DEF Service!vars, lookups, StateOf
  <2>9. CASE AnswerSync
    BY <2>4, <2>9 DEF AnswerSync
  <2>10. CASE AnswerAsync
    BY <2>4, <2>10 DEF AnswerAsync, ThreadInv
  <2>11. CASE AnswerSyncThrows
    BY <2>5, <2>6, <2>11 DEF AnswerSyncThrows
  <2>12. CASE AnswerAsyncThrows
    BY <2>5, <2>12 DEF AnswerAsyncThrows, ThreadInv
  <2>13. CASE Stopped \/ UNCHANGED vars
    BY <2>8, <2>13 DEF Stopped, vars, condition
  <2>14. CASE SubmitAsync \/ SubmitSync \/ Notify \/ ShutdownNotify \/ Shutdown
    BY <2>8, <2>14 DEF SubmitAsync, SubmitSync, OnResolved, Notify, NotifyOne,
       ShutdownNotify, Shutdown, condition
  <2>15. CASE \/ HasRequests \/ WaitPredicate \/ SpuriousWakeup
              \/ FillPollDescriptors \/ GetTimeout \/ Poll \/ ProcessFd
              \/ LeaveLibrary \/ \E r \in Requests : CompleteQuery(r)
    BY <2>8, <2>15 DEF HasRequests, WaitPredicate, SpuriousWakeup,
       FillPollDescriptors, GetTimeout, Poll, ProcessFd, LeaveLibrary,
       CompleteQuery, OnResolved, condition
  <2> QED
    BY <2>1, <2>2, <2>3, <2>7, <2>9, <2>10, <2>11, <2>12, <2>13, <2>14, <2>15
    DEF Next, IpcStep, PollStep
<1> QED
  BY <1>1, <1>2, Invariance, PTL DEF Spec, ImplementsService, Service!Spec

-----------------------------------------------------------------------------
(***************************************************************************)
(* The solution: the resolver and its clients (NameLookup).                *)
(***************************************************************************)

\* The ranges of one client's variables.
LEMMA ClientTypes ==
  ASSUME C!TypeOK, NEW c \in Clients
  PROVE  /\ argv[c] \in Seq(Requests) /\ Len(argv[c]) \in Nat
         /\ DOMAIN argv[c] = 1..Len(argv[c])
         /\ \A i \in 1..Len(argv[c]) : argv[c][i] \in Requests
         /\ next[c] \in 1..(Len(argv[c]) + 1)
         /\ handlers[c] \in Seq({"step", "empty"}) /\ Len(handlers[c]) \in Nat
         /\ DOMAIN handlers[c] = 1..Len(handlers[c])
<1>1. argv[c] \in Seq(Requests) /\ handlers[c] \in Seq({"step", "empty"})
      /\ next[c] \in 1..(Len(argv[c]) + 1)
  BY ClientAssumption DEF C!TypeOK
<1> QED BY <1>1, LenProperties, ElementOfSeq

\* Nothing that concerns one client changes.
Still(d) ==
  /\ main'[d] = main[d] /\ next'[d] = next[d] /\ handlers'[d] = handlers[d]
  /\ serving'[d] = serving[d] /\ raised'[d] = raised[d] /\ logged'[d] = logged[d]

LEMMA StillKeeps ==
  ASSUME NEW d, Still(d), ClientInv(d)
  PROVE  ClientInv(d)'
<1>1. Queued(d)' = Queued(d)
  BY DEF Still, Queued
<1>2. Expecting(d)' = Expecting(d)
  BY <1>1 DEF Still, Expecting
<1>3. Closing(d)' = Closing(d)
  BY DEF Still, Closing
<1>4. PlaceInv(d)'
  BY DEF Still, ClientInv, PlaceInv, C!Ended
<1>5. QueueInv(d)'
  BY <1>3 DEF Still, ClientInv, QueueInv
<1>6. CountInv(d)'
  BY <1>1, <1>2, <1>3 DEF Still, ClientInv, CountInv
<1> QED BY <1>4, <1>5, <1>6 DEF ClientInv

\* The handlers and the names of a client stay, or go, together.
LEMMA SameCount ==
  ASSUME NEW c, CountInv(c), Queued(c)' = Queued(c), logged'[c] = logged[c],
         handlers'[c] = handlers[c], Closing(c)' = Closing(c),
         (serving'[c] = "step") <=> (serving[c] = "step")
  PROVE  CountInv(c)'
<1>1. Expecting(c)' = Expecting(c)
  BY DEF Expecting
<1> QED BY <1>1 DEF CountInv

\* The step handlers of a queue that ends with the empty handler,
LEMMA LastIsEmpty ==
  ASSUME NEW h \in Seq({"step", "empty"}), h # <<>>,
         \A i \in DOMAIN h : (h[i] = "empty") <=> (i = Len(h))
  PROVE  Cardinality({i \in DOMAIN h : h[i] = "step"}) = Len(h) - 1
<1>1. Len(h) \in Nat /\ DOMAIN h = 1..Len(h) /\ Len(h) # 0
  BY EmptySeq, LenProperties
<1>2. \A i \in 1..Len(h) : h[i] \in {"step", "empty"}
  BY ElementOfSeq
<1> DEFINE n == Len(h)
<1> HIDE DEF n
<1>3. n \in Nat /\ n # 0 /\ DOMAIN h = 1..n
  BY <1>1 DEF n
<1>4. \A i \in 1..n : (h[i] = "step") <=> (i # n)
  BY <1>1, <1>2 DEF n
<1>5. {i \in DOMAIN h : h[i] = "step"} = 1..(n - 1)
  <2>1. {i \in DOMAIN h : h[i] = "step"} = {i \in 1..n : i # n}
    BY <1>3, <1>4, Zenon
  <2>2. {i \in 1..n : i # n} = 1..(n - 1)
    BY <1>3
  <2> QED BY <2>1, <2>2
<1>6. 1 \in Int /\ n - 1 \in Int
  BY <1>3
<1>7. Cardinality(1..(n - 1)) = IF 1 > n - 1 THEN 0 ELSE (n - 1) - 1 + 1
  BY <1>6, FS_Interval, Zenon
<1>8. Cardinality(1..(n - 1)) = n - 1
  BY <1>3, <1>7
<1> QED BY <1>5, <1>8 DEF n

\* and of one that does not.
LEMMA NoneIsEmpty ==
  ASSUME NEW h \in Seq({"step", "empty"}), \A i \in DOMAIN h : h[i] # "empty"
  PROVE  Cardinality({i \in DOMAIN h : h[i] = "step"}) = Len(h)
<1>1. Len(h) \in Nat /\ DOMAIN h = 1..Len(h)
  BY LenProperties
<1>2. \A i \in 1..Len(h) : h[i] \in {"step", "empty"}
  BY ElementOfSeq
<1>3. {i \in DOMAIN h : h[i] = "step"} = 1..Len(h)
  BY <1>1, <1>2
<1> DEFINE n == Len(h)
<1> HIDE DEF n
<1>4. 1 \in Int /\ n \in Int /\ n \in Nat
  BY <1>1 DEF n
<1>5. Cardinality(1..n) = IF 1 > n THEN 0 ELSE n - 1 + 1
  BY <1>4, FS_Interval, Zenon
<1>6. Cardinality(1..n) = n
  BY <1>4, <1>5
<1> QED BY <1>3, <1>6 DEF n

\* One name more is one call more to wait for,
LEMMA OneMore ==
  ASSUME NEW S, IsFiniteSet(S), NEW x, x \notin S
  PROVE  /\ IsFiniteSet(S \cup {x}) /\ Cardinality(S \cup {x}) = Cardinality(S) + 1
         /\ Cardinality(S) \in Nat
  BY FS_AddElement, FS_CardinalityType

\* and one name less is one call less.
LEMMA OneLess ==
  ASSUME NEW S, IsFiniteSet(S), NEW x \in S
  PROVE  /\ IsFiniteSet(S \ {x}) /\ Cardinality(S \ {x}) = Cardinality(S) - 1
         /\ Cardinality(S) \in Nat
  BY FS_RemoveElement, FS_CardinalityType

\* The handlers up to the empty one are those that wait for a call.
LEMMA StepsCounted ==
  ASSUME C!TypeOK, NEW c \in Clients, ClientInv(c)
  PROVE  Steps(c) = Cardinality(Expecting(c))
<1>1. handlers[c] \in Seq({"step", "empty"})
  BY ClientTypes
<1>2. Cardinality({i \in DOMAIN handlers[c] : handlers[c][i] = "step"})
        = Len(handlers[c]) - (IF Closing(c) THEN 1 ELSE 0)
  <2>1. /\ Closing(c) => handlers[c] # <<>>
        /\ \A i \in DOMAIN handlers[c] :
             (handlers[c][i] = "empty") <=> (i = Len(handlers[c]) /\ Closing(c))
    BY Zenon DEF ClientInv, QueueInv
  <2>2. CASE Closing(c)
    BY <1>1, <2>1, <2>2, LastIsEmpty
  <2>3. CASE ~Closing(c)
    BY <1>1, <2>1, <2>3, NoneIsEmpty
  <2> QED BY <2>2, <2>3
<1> QED BY <1>2 DEF Steps, ClientInv, CountInv

\* A step of a main thread that involves no other process.
LEMMA MainKeeps ==
  ASSUME C!TypeOK, NEW c \in Clients, ClientInv(c), C!MainStep(c)
  PROVE  ClientInv(c)'
<1>t. /\ main[c] \in {"start", "connect", "next", "notify", "call", "calling",
                      "destroy", "notifyEmpty", "join", "finished", "failed"}
      /\ Len(argv[c]) \in Nat /\ next[c] \in 1..(Len(argv[c]) + 1)
      /\ DOMAIN argv[c] = 1..Len(argv[c])
      /\ DOMAIN main = Clients /\ DOMAIN handlers = Clients /\ DOMAIN serving = Clients
      /\ DOMAIN raised = Clients
  BY ClientTypes DEF C!TypeOK
<1>p. PlaceInv(c) /\ QueueInv(c) /\ CountInv(c)
  BY DEF ClientInv
<1>1. CASE C!Start(c)
  <2>1. PlaceInv(c)'
    BY <1>t, <1>p, <1>1 DEF C!Start, PlaceInv, C!Goto, C!Ended
  <2>2. QueueInv(c)'
    BY <1>t, <1>p, <1>1 DEF C!Start, PlaceInv, QueueInv, Closing, C!Goto
  <2>3. CountInv(c)'
    <3>1. Queued(c)' = Queued(c)
      BY <1>t, <1>p, <1>1 DEF C!Start, Queued, C!Goto, PlaceInv
    <3> QED BY <3>1, <1>t, <1>p, <1>1, SameCount DEF C!Start, Closing, C!Goto, PlaceInv
  <2> QED BY <2>1, <2>2, <2>3 DEF ClientInv
<1>2. CASE C!Connect(c)
  <2>1. PlaceInv(c)'
    BY <1>t, <1>p, <1>2 DEF C!Connect, PlaceInv, C!Goto, C!Throw, C!Ended
  <2>2. QueueInv(c)'
    BY <1>t, <1>p, <1>2 DEF C!Connect, PlaceInv, QueueInv, Closing, C!Goto, C!Throw
  <2>3. CountInv(c)'
    <3>1. Queued(c)' = Queued(c)
      BY <1>t, <1>p, <1>2 DEF C!Connect, Queued, C!Goto, C!Throw, PlaceInv
    <3> QED BY <3>1, <1>t, <1>p, <1>2, SameCount DEF C!Connect, Closing, C!Goto, C!Throw, PlaceInv
  <2> QED BY <2>1, <2>2, <2>3 DEF ClientInv
<1>3. CASE C!Get(c)
  <2> DEFINE r == argv[c][next[c]]
             h == handlers[c]
  <2>0. /\ main[c] = "next" /\ next[c] <= Len(argv[c])
        /\ main'[c] = "notify" /\ handlers'[c] = Append(h, "step")
        /\ UNCHANGED <<next, serving, raised, logged>>
    BY <1>t, <1>3 DEF C!Get, C!Push, C!Goto
  <2>h. h \in Seq({"step", "empty"}) /\ Len(h) \in Nat /\ DOMAIN h = 1..Len(h)
    BY ClientTypes
  <2>a. /\ Len(Append(h, "step")) = Len(h) + 1 /\ DOMAIN Append(h, "step") = 1..(Len(h) + 1)
        /\ \A i \in 1..Len(h) : Append(h, "step")[i] = h[i]
        /\ Append(h, "step")[Len(h) + 1] = "step" /\ Append(h, "step") # <<>>
    BY <2>h
  <2>r. raised[c] = "nowhere"
    BY <1>p, <2>0 DEF PlaceInv
  <2>1. PlaceInv(c)'
    BY <1>t, <1>p, <2>0 DEF PlaceInv, C!Ended
  <2>c. ~Closing(c) /\ ~Closing(c)'
    BY <2>0 DEF Closing
  <2>2. QueueInv(c)'
    <3>1. serving[c] \notin {"off", "ended"}
      BY <1>p, <2>0 DEF PlaceInv
    <3>2. \A i \in 1..(Len(h) + 1) : handlers'[c][i] # "empty"
      <4> TAKE i \in 1..(Len(h) + 1)
      <4>1. CASE i = Len(h) + 1
        BY <2>0, <2>a, <4>1
      <4>2. CASE i \in 1..Len(h)
        BY <1>p, <2>0, <2>a, <2>c, <2>h, <4>2 DEF QueueInv
      <4> QED BY <4>1, <4>2, <2>h
    <3> QED BY <2>0, <2>a, <2>c, <3>1, <3>2 DEF QueueInv
  <2>3. Queued(c)' = Queued(c) \cup {next[c]} /\ next[c] \notin Queued(c)
    BY <1>t, <2>0, <2>r DEF Queued
  <2>4. r \notin {argv[c][i] : i \in Queued(c)}
    <3>1. next[c] \in DOMAIN argv[c] /\ Queued(c) \subseteq DOMAIN argv[c]
      BY <1>t, <2>0 DEF Queued
    <3>2. \A i \in DOMAIN argv[c] : argv[c][i] = argv[c][next[c]] => i = next[c]
      BY <3>1, ClientAssumption, Zenon
    <3> QED BY <2>3, <3>1, <3>2, Zenon
  <2>5. Expecting(c)' = Expecting(c) \cup {r} /\ r \notin Expecting(c)
    BY <1>p, <2>0, <2>3, <2>4 DEF Expecting, CountInv
  <2>6. IsFiniteSet(Expecting(c))
    BY <1>p DEF CountInv
  <2>7. /\ IsFiniteSet(Expecting(c)') /\ Cardinality(Expecting(c)') = Cardinality(Expecting(c)) + 1
        /\ Cardinality(Expecting(c)) \in Nat
    BY <2>5, <2>6, OneMore, Zenon
  <2>8. CountInv(c)'
    <3>1. logged'[c] \subseteq {argv[c][i] : i \in Queued(c)'}
      BY <1>p, <2>0, <2>3 DEF CountInv
    <3>2. Len(h) - 0 + (IF serving[c] = "step" THEN 1 ELSE 0) = Cardinality(Expecting(c))
      BY <1>p, <2>c DEF CountInv
    <3>3. Len(handlers'[c]) - 0 + (IF serving'[c] = "step" THEN 1 ELSE 0)
            = Cardinality(Expecting(c)')
      <4> DEFINE x == IF serving[c] = "step" THEN 1 ELSE 0
                 n == Len(h)
                 e == Cardinality(Expecting(c))
      <4>1. x \in {0, 1} /\ n \in Nat /\ e \in Nat /\ n - 0 + x = e
        BY <2>h, <2>7, <3>2
      <4> HIDE DEF x, n, e
      <4>2. (n + 1) - 0 + x = e + 1
        BY <4>1
      <4> QED BY <2>0, <2>a, <2>7, <4>2 DEF x, n, e
    <3> QED BY <2>7, <2>c, <3>1, <3>3 DEF CountInv
  <2> QED BY <2>1, <2>2, <2>8 DEF ClientInv
<1>4. CASE C!GetNotify(c)
  <2>0. /\ main[c] = "notify" /\ main'[c] = "call"
        /\ serving'[c] = IF serving[c] = "asleep" THEN "woken" ELSE serving[c]
        /\ UNCHANGED <<next, handlers, raised, logged>>
    BY <1>t, <1>4 DEF C!GetNotify, C!NotifyOne, C!Goto
  <2>1. PlaceInv(c)'
    BY <1>t, <1>p, <2>0 DEF PlaceInv, C!Ended
  <2>2. QueueInv(c)'
    BY <1>t, <1>p, <2>0 DEF PlaceInv, QueueInv, Closing
  <2>3. CountInv(c)'
    <3>1. Queued(c)' = Queued(c)
      BY <2>0 DEF Queued
    <3> QED BY <3>1, <1>p, <2>0, SameCount DEF Closing
  <2> QED BY <2>1, <2>2, <2>3 DEF ClientInv
<1>5. CASE C!EndLoop(c)
  <2>0. /\ main[c] = "next" /\ main'[c] = "destroy" /\ next[c] > Len(argv[c])
        /\ UNCHANGED <<next, handlers, serving, raised, logged>>
    BY <1>t, <1>5 DEF C!EndLoop, C!Goto
  <2>1. PlaceInv(c)'
    BY <1>t, <1>p, <2>0 DEF PlaceInv, C!Ended
  <2>2. QueueInv(c)'
    BY <1>t, <1>p, <2>0 DEF PlaceInv, QueueInv, Closing
  <2>3. CountInv(c)'
    <3>1. Queued(c)' = Queued(c)
      BY <2>0 DEF Queued
    <3> QED BY <3>1, <1>p, <2>0, SameCount DEF Closing
  <2> QED BY <2>1, <2>2, <2>3 DEF ClientInv
<1>6. CASE C!Destroy(c)
  <2> DEFINE h == handlers[c]
  <2>0. /\ main[c] = "destroy" /\ main'[c] = "notifyEmpty" /\ handlers'[c] = Append(h, "empty")
        /\ UNCHANGED <<next, serving, raised, logged>>
    BY <1>t, <1>6 DEF C!Destroy, C!Push, C!Goto
  <2>h. h \in Seq({"step", "empty"}) /\ Len(h) \in Nat /\ DOMAIN h = 1..Len(h)
    BY ClientTypes
  <2>a. /\ Len(Append(h, "empty")) = Len(h) + 1 /\ DOMAIN Append(h, "empty") = 1..(Len(h) + 1)
        /\ \A i \in 1..Len(h) : Append(h, "empty")[i] = h[i]
        /\ Append(h, "empty")[Len(h) + 1] = "empty" /\ Append(h, "empty") # <<>>
    BY <2>h
  <2>s. serving[c] \notin {"off", "ended"}
    BY <1>p, <2>0 DEF PlaceInv
  <2>1. PlaceInv(c)'
    BY <1>t, <1>p, <2>0 DEF PlaceInv, C!Ended
  <2>c. ~Closing(c) /\ Closing(c)'
    BY <2>0, <2>s DEF Closing
  <2>2. QueueInv(c)'
    <3>1. \A i \in 1..(Len(h) + 1) : (handlers'[c][i] = "empty") <=> (i = Len(h) + 1)
      <4> TAKE i \in 1..(Len(h) + 1)
      <4>1. CASE i = Len(h) + 1
        BY <2>0, <2>a, <4>1
      <4>2. CASE i \in 1..Len(h)
        BY <1>p, <2>0, <2>a, <2>c, <2>h, <4>2 DEF QueueInv
      <4> QED BY <4>1, <4>2, <2>h
    <3> QED BY <2>0, <2>a, <2>c, <2>s, <3>1 DEF QueueInv
  <2>3. Queued(c)' = Queued(c)
    BY <2>0 DEF Queued
  <2>4. Expecting(c)' = Expecting(c)
    BY <2>0, <2>3 DEF Expecting
  <2>5. CountInv(c)'
    <3>1. Len(h) - 0 + (IF serving[c] = "step" THEN 1 ELSE 0) = Cardinality(Expecting(c))
      BY <1>p, <2>c DEF CountInv
    <3>2. Len(handlers'[c]) - 1 + (IF serving'[c] = "step" THEN 1 ELSE 0)
            = Cardinality(Expecting(c)')
      <4> DEFINE x == IF serving[c] = "step" THEN 1 ELSE 0
                 n == Len(h)
                 e == Cardinality(Expecting(c))
      <4>1. x \in {0, 1} /\ n \in Nat /\ n - 0 + x = e
        BY <2>h, <3>1
      <4> HIDE DEF x, n, e
      <4>2. (n + 1) - 1 + x = e
        BY <4>1
      <4> QED BY <2>0, <2>a, <2>4, <4>2 DEF x, n, e
    <3> QED BY <1>p, <2>0, <2>3, <2>4, <2>c, <3>2 DEF CountInv
  <2> QED BY <2>1, <2>2, <2>5 DEF ClientInv
<1>7. CASE C!DestroyNotify(c)
  <2>0. /\ main[c] = "notifyEmpty" /\ main'[c] = "join"
        /\ serving'[c] = IF serving[c] = "asleep" THEN "woken" ELSE serving[c]
        /\ UNCHANGED <<next, handlers, raised, logged>>
    BY <1>t, <1>7 DEF C!DestroyNotify, C!NotifyOne, C!Goto
  <2>1. PlaceInv(c)'
    BY <1>t, <1>p, <2>0 DEF PlaceInv, C!Ended
  <2>c. Closing(c)' = Closing(c)
    BY <2>0 DEF Closing
  <2>2. QueueInv(c)'
    BY <1>t, <1>p, <2>0, <2>c DEF PlaceInv, QueueInv
  <2>3. CountInv(c)'
    <3>1. Queued(c)' = Queued(c)
      BY <2>0 DEF Queued
    <3> QED BY <3>1, <1>p, <2>0, <2>c, SameCount
  <2> QED BY <2>1, <2>2, <2>3 DEF ClientInv
<1>8. CASE C!Join(c)
  <2>0. /\ main[c] = "join" /\ serving[c] = "ended"
        /\ main'[c] = IF raised[c] = "nowhere" THEN "finished" ELSE "failed"
        /\ UNCHANGED <<next, handlers, serving, raised, logged>>
    BY <1>t, <1>8 DEF C!Join, C!Goto
  <2>1. PlaceInv(c)'
    BY <1>t, <1>p, <2>0 DEF PlaceInv, C!Ended
  <2>c. ~Closing(c) /\ ~Closing(c)'
    BY <2>0 DEF Closing
  <2>2. QueueInv(c)'
    BY <1>t, <1>p, <2>0, <2>c DEF PlaceInv, QueueInv
  <2>3. CountInv(c)'
    <3>1. Queued(c)' = Queued(c)
      BY <2>0 DEF Queued
    <3>2. Closing(c)' = Closing(c)
      BY <2>0 DEF Closing
    <3> QED BY <3>1, <3>2, <1>p, <2>0, SameCount
  <2> QED BY <2>1, <2>2, <2>3 DEF ClientInv
<1> QED
  BY <1>1, <1>2, <1>3, <1>4, <1>5, <1>6, <1>7, <1>8 DEF C!MainStep

\* A step of the callback thread that involves no other process.
LEMMA ServingKeeps ==
  ASSUME C!TypeOK, NEW c \in Clients, ClientInv(c), C!GetHandler(c) \/ C!SpuriousWakeup(c)
  PROVE  ClientInv(c)'
<1> DEFINE h == handlers[c]
<1>t. /\ main[c] \in {"start", "connect", "next", "notify", "call", "calling",
                      "destroy", "notifyEmpty", "join", "finished", "failed"}
      /\ h \in Seq({"step", "empty"}) /\ Len(h) \in Nat /\ DOMAIN h = 1..Len(h)
      /\ DOMAIN handlers = Clients /\ DOMAIN serving = Clients
  BY ClientTypes DEF C!TypeOK
<1>p. PlaceInv(c) /\ QueueInv(c) /\ CountInv(c)
  BY DEF ClientInv
<1>1. CASE UNCHANGED handlers /\ serving[c] \in {"get", "woken", "asleep"}
           /\ serving'[c] \in {"woken", "asleep"} /\ UNCHANGED <<main, next, raised, logged>>
  <2>1. Queued(c)' = Queued(c) /\ Closing(c)' = Closing(c)
    BY <1>1 DEF Queued, Closing
  <2>2. PlaceInv(c)'
    BY <1>p, <1>1 DEF PlaceInv, C!Ended
  <2>3. QueueInv(c)'
    BY <1>p, <1>1, <2>1 DEF QueueInv
  <2>4. CountInv(c)'
    BY <1>p, <1>1, <2>1, SameCount
  <2> QED BY <2>2, <2>3, <2>4 DEF ClientInv
<1>2. CASE /\ serving[c] \in {"get", "woken"} /\ h # <<>>
           /\ serving'[c] = (IF Head(h) = "empty" THEN "ended" ELSE "step")
           /\ handlers'[c] = Tail(h) /\ UNCHANGED <<main, next, raised, logged>>
  <2>h. /\ Len(h) # 0 /\ Head(h) = h[1] /\ Len(Tail(h)) = Len(h) - 1
        /\ DOMAIN Tail(h) = 1..(Len(h) - 1)
        /\ \A i \in 1..(Len(h) - 1) : Tail(h)[i] = h[i + 1]
    BY <1>t, <1>2, EmptySeq, HeadTailProperties
  <2>q. \A i \in 1..Len(h) : (h[i] = "empty") <=> (i = Len(h) /\ Closing(c))
    BY <1>t, <1>p, Zenon DEF QueueInv
  <2>1. Queued(c)' = Queued(c)
    BY <1>2 DEF Queued
  <2>2. Expecting(c)' = Expecting(c)
    BY <1>2, <2>1 DEF Expecting
  <2>3. CASE h[1] = "empty"
    <3>1. Len(h) = 1 /\ Closing(c)
      <4>1. 1 \in 1..Len(h)
        BY <1>t, <2>h
      <4> QED BY <2>3, <2>q, <4>1, Zenon
    <3>2. serving'[c] = "ended" /\ handlers'[c] = <<>> /\ ~Closing(c)'
      <4>1. Tail(h) = <<>>
        BY <1>t, <2>h, <3>1, EmptySeq, HeadTailProperties
      <4> QED BY <1>2, <2>3, <2>h, <4>1 DEF Closing
    <3>3. PlaceInv(c)'
      BY <1>p, <1>2, <3>1, <3>2 DEF PlaceInv, Closing, C!Ended
    <3>4. QueueInv(c)'
      BY <3>2 DEF QueueInv
    <3>5. CountInv(c)'
      <4>1. Cardinality(Expecting(c)) = 0
        BY <1>p, <1>2, <3>1 DEF CountInv
      <4>2. Len(handlers'[c]) = 0 /\ serving'[c] # "step"
        BY <3>2
      <4>3. 0 - 0 + 0 = 0
        OBVIOUS
      <4> QED BY <1>p, <1>2, <2>1, <2>2, <3>2, <4>1, <4>2, <4>3 DEF CountInv
    <3> QED BY <3>3, <3>4, <3>5 DEF ClientInv
  <2>4. CASE h[1] # "empty"
    <3>1. serving'[c] = "step" /\ Closing(c)' = Closing(c)
      BY <1>2, <2>4, <2>h DEF Closing
    <3>2. PlaceInv(c)'
      BY <1>p, <1>2, <3>1 DEF PlaceInv, C!Ended
    <3>3. QueueInv(c)'
      <4>1. Closing(c) => Len(h) # 1
        <5>1. 1 \in 1..Len(h)
          BY <1>t, <2>h
        <5> QED BY <2>q, <2>4, <5>1, Zenon
      <4>2. Closing(c) => Len(Tail(h)) # 0
        BY <1>t, <2>h, <4>1
      <4>4. Closing(c)' => handlers'[c] # <<>>
        <5>1. Len(<<>>) = 0
          OBVIOUS
        <5> QED BY <1>2, <3>1, <4>2, <5>1, Zenon
      <4>3. ASSUME NEW i \in 1..(Len(h) - 1)
            PROVE  (handlers'[c][i] = "empty") <=> (i = Len(h) - 1 /\ Closing(c))
        <5>1. i + 1 \in 1..Len(h) /\ (i + 1 = Len(h) <=> i = Len(h) - 1)
          BY <1>t
        <5>2. handlers'[c][i] = h[i + 1]
          BY <1>2, <2>h
        <5> QED BY <2>q, <5>1, <5>2
      <4> QED BY <1>2, <2>h, <3>1, <4>3, <4>4 DEF QueueInv
    <3>4. CountInv(c)'
      <4> DEFINE x == IF Closing(c) THEN 1 ELSE 0
                 n == Len(h)
                 e == Cardinality(Expecting(c))
      <4>1. x \in {0, 1} /\ n \in Nat /\ n - x + 0 = e
        BY <1>p, <1>t, <1>2 DEF CountInv
      <4> HIDE DEF x, n, e
      <4>2. (n - 1) - x + 1 = e
        BY <4>1
      <4>3. Len(handlers'[c]) - (IF Closing(c)' THEN 1 ELSE 0)
              + (IF serving'[c] = "step" THEN 1 ELSE 0) = Cardinality(Expecting(c)')
        BY <1>2, <2>2, <2>h, <3>1, <4>2 DEF x, n, e
      <4> QED BY <1>p, <1>2, <2>1, <2>2, <4>3 DEF CountInv
    <3> QED BY <3>2, <3>3, <3>4 DEF ClientInv
  <2> QED BY <2>3, <2>4
<1> QED BY <1>t, <1>1, <1>2 DEF C!GetHandler, C!SpuriousWakeup

\* The three steps of a main thread that calls Resolve().
LEMMA CallingKeeps ==
  ASSUME C!TypeOK, NEW c \in Clients, ClientInv(c),
         C!Accept(c) \/ C!CallReturns(c) \/ C!CallThrows(c)
  PROVE  ClientInv(c)'
<1>t. /\ main[c] \in {"call", "calling"} /\ next[c] <= Len(argv[c])
      /\ Len(argv[c]) \in Nat /\ next[c] \in 1..(Len(argv[c]) + 1)
      /\ raised[c] = "nowhere" /\ serving[c] \notin {"off", "ended"}
      /\ DOMAIN main = Clients /\ DOMAIN next = Clients /\ DOMAIN raised = Clients
  BY ClientTypes DEF C!TypeOK, ClientInv, PlaceInv, C!Accept, C!CallReturns, C!CallThrows
<1>p. PlaceInv(c) /\ QueueInv(c) /\ CountInv(c)
  BY DEF ClientInv
<1>s. UNCHANGED <<handlers, serving, logged>>
  BY DEF C!Accept, C!CallReturns, C!CallThrows
<1>m. \/ main'[c] = "calling" /\ UNCHANGED <<next, raised>>
      \/ main'[c] = "next" /\ next'[c] = next[c] + 1 /\ UNCHANGED raised
      \/ main'[c] = "destroy" /\ raised'[c] = "Resolve" /\ UNCHANGED next
  BY <1>t DEF C!Accept, C!CallReturns, C!CallThrows, C!Goto, C!Throw
<1>c. ~Closing(c) /\ ~Closing(c)'
  BY <1>t, <1>m DEF Closing
<1>1. PlaceInv(c)'
  BY <1>t, <1>p, <1>s, <1>m DEF PlaceInv, C!Ended
<1>2. QueueInv(c)'
  BY <1>p, <1>s, <1>c DEF QueueInv
<1>3. Queued(c)' = Queued(c)
  BY <1>t, <1>m, ClientTypes DEF Queued
<1>4. CountInv(c)'
  <2>1. Closing(c)' = Closing(c)
    BY <1>t, <1>m DEF Closing
  <2> QED BY <1>p, <1>s, <1>3, <2>1, SameCount
<1> QED BY <1>1, <1>2, <1>4 DEF ClientInv

\* A Step() that serves a call the client expects.
LEMMA OnResolveKeeps ==
  ASSUME C!TypeOK, NEW c \in Clients, ClientInv(c), NEW r \in Expecting(c), C!OnResolve(c, r)
  PROVE  ClientInv(c)'
<1>t. /\ serving[c] = "step" /\ serving'[c] = "get" /\ logged'[c] = logged[c] \cup {r}
      /\ UNCHANGED <<main, next, handlers, raised>> /\ Len(handlers[c]) \in Nat
  BY ClientTypes DEF C!TypeOK, C!OnResolve
<1>p. PlaceInv(c) /\ QueueInv(c) /\ CountInv(c)
  BY DEF ClientInv
<1>c. Closing(c)' = Closing(c)
  BY <1>t DEF Closing
<1>m. main[c] \notin {"start", "connect"}
  <2>1. PICK i \in Queued(c) : TRUE
    BY DEF Expecting
  <2> QED BY <1>p, <2>1, ClientTypes DEF PlaceInv, Queued
<1>1. PlaceInv(c)'
  BY <1>t, <1>p, <1>m DEF PlaceInv, C!Ended
<1>2. QueueInv(c)'
  BY <1>t, <1>p, <1>c DEF QueueInv
<1>3. Queued(c)' = Queued(c)
  BY <1>t DEF Queued
<1>4. Expecting(c)' = Expecting(c) \ {r}
  BY <1>t, <1>3 DEF Expecting
<1>5. CountInv(c)'
  <2>1. /\ IsFiniteSet(Expecting(c)') /\ Cardinality(Expecting(c)') = Cardinality(Expecting(c)) - 1
        /\ Cardinality(Expecting(c)) \in Nat
    <3>1. IsFiniteSet(Expecting(c))
      BY <1>p DEF CountInv
    <3> QED BY <1>4, <3>1, OneLess, Zenon
  <2> DEFINE x == IF Closing(c) THEN 1 ELSE 0
             n == Len(handlers[c])
             e == Cardinality(Expecting(c))
  <2>2. x \in {0, 1} /\ n \in Nat /\ e \in Nat /\ n - x + 1 = e
    BY <1>p, <1>t, <2>1 DEF CountInv
  <2> HIDE DEF x, n, e
  <2>3. n - x + 0 = e - 1
    BY <2>2
  <2>4. Len(handlers'[c]) - (IF Closing(c)' THEN 1 ELSE 0)
          + (IF serving'[c] = "step" THEN 1 ELSE 0) = Cardinality(Expecting(c)')
    BY <1>t, <1>c, <2>1, <2>3 DEF x, n, e
  <2>5. logged'[c] \subseteq {argv[c][i] : i \in Queued(c)'}
    BY <1>t, <1>p, <1>3 DEF CountInv, Expecting
  <2> QED BY <2>1, <2>4, <2>5 DEF CountInv
<1> QED BY <1>1, <1>2, <1>5 DEF ClientInv

\* The actions of one client.
ClientAction(c) ==
  \/ C!MainStep(c) \/ C!GetHandler(c) \/ C!SpuriousWakeup(c)
  \/ C!Accept(c) \/ C!CallReturns(c) \/ C!CallThrows(c)
  \/ \E r \in Requests : C!OnResolve(c, r)

\* An action of a client keeps the types and leaves the other clients alone.
LEMMA ActionTypes ==
  ASSUME C!TypeOK, NEW c \in Clients, PlaceInv(c), owed' \subseteq Requests, ClientAction(c)
  PROVE  C!TypeOK' /\ \A d \in Clients \ {c} : Still(d)
<1> DEFINE Labels == {"start", "connect", "next", "notify", "call", "calling",
                      "destroy", "notifyEmpty", "join", "finished", "failed"}
           Places == {"off", "get", "asleep", "woken", "step", "ended"}
           Raisers == {"nowhere", "Callable", "MakeProxy", "Resolve"}
           Handlers == {"step", "empty"}
<1>t. /\ main \in [Clients -> Labels] /\ next \in [Clients -> Nat]
      /\ handlers \in [Clients -> Seq(Handlers)] /\ serving \in [Clients -> Places]
      /\ raised \in [Clients -> Raisers] /\ logged \in [Clients -> SUBSET Requests]
      /\ \A d \in Clients : next[d] \in 1..(Len(argv[d]) + 1) /\ logged[d] \subseteq C!Names(d)
  BY DEF C!TypeOK
<1>n. Len(argv[c]) \in Nat
  BY ClientTypes
<1>1. /\ main' = main \/ \E m \in Labels : main' = [main EXCEPT ![c] = m]
      /\ serving' = serving \/ \E s \in Places : serving' = [serving EXCEPT ![c] = s]
      /\ raised' = raised \/ \E x \in Raisers : raised' = [raised EXCEPT ![c] = x]
  <2>1. serving[c] \in Places
    BY <1>t
  <2> QED BY <2>1 DEF ClientAction, C!MainStep, C!Start, C!Connect, C!Get, C!GetNotify,
      C!EndLoop, C!Destroy, C!DestroyNotify, C!Join, C!GetHandler, C!SpuriousWakeup,
      C!Accept, C!CallReturns, C!CallThrows, C!OnResolve, C!Goto, C!Throw, C!Push, C!NotifyOne
<1>2. handlers' = handlers \/ \E h \in Seq(Handlers) : handlers' = [handlers EXCEPT ![c] = h]
  <2>1. handlers[c] \in Seq(Handlers)
    BY <1>t
  <2>2. /\ Append(handlers[c], "step") \in Seq(Handlers)
        /\ Append(handlers[c], "empty") \in Seq(Handlers)
    BY <2>1, AppendProperties
  <2>3. handlers[c] # <<>> => Tail(handlers[c]) \in Seq(Handlers)
    BY <2>1, HeadTailProperties
  <2> QED BY <2>2, <2>3 DEF ClientAction, C!MainStep, C!Start, C!Connect, C!Get, C!GetNotify,
      C!EndLoop, C!Destroy, C!DestroyNotify, C!Join, C!GetHandler, C!SpuriousWakeup,
      C!Accept, C!CallReturns, C!CallThrows, C!OnResolve, C!Goto, C!Throw, C!Push, C!NotifyOne
<1>3. next' = next \/ (next[c] <= Len(argv[c]) /\ next' = [next EXCEPT ![c] = @ + 1])
  BY DEF ClientAction, PlaceInv, C!MainStep, C!Start, C!Connect, C!Get, C!GetNotify,
      C!EndLoop, C!Destroy, C!DestroyNotify, C!Join, C!GetHandler, C!SpuriousWakeup,
      C!Accept, C!CallReturns, C!CallThrows, C!OnResolve, C!Push, C!NotifyOne
<1>4. \/ logged' = logged
      \/ \E r \in Requests \cap C!Names(c) : logged' = [logged EXCEPT ![c] = @ \cup {r}]
  BY DEF ClientAction, C!MainStep, C!Start, C!Connect, C!Get, C!GetNotify,
      C!EndLoop, C!Destroy, C!DestroyNotify, C!Join, C!GetHandler, C!SpuriousWakeup,
      C!Accept, C!CallReturns, C!CallThrows, C!OnResolve, C!Push, C!NotifyOne
<1>5. C!TypeOK'
  <2>1. main' \in [Clients -> Labels] /\ serving' \in [Clients -> Places]
        /\ raised' \in [Clients -> Raisers]
    <3> HIDE DEF Labels, Places, Raisers
    <3> QED BY <1>t, <1>1
  <2>2. handlers' \in [Clients -> Seq(Handlers)]
    BY <1>t, <1>2
  <2>3. next' \in [Clients -> Nat] /\ \A d \in Clients : next'[d] \in 1..(Len(argv[d]) + 1)
    <3>1. CASE next' = next
      BY <1>t, <3>1
    <3>2. CASE next[c] <= Len(argv[c]) /\ next' = [next EXCEPT ![c] = next[c] + 1]
      <4>1. next[c] \in Nat /\ next[c] + 1 \in Nat /\ next[c] + 1 \in 1..(Len(argv[c]) + 1)
        BY <1>t, <1>n, <3>2
      <4>2. next' \in [Clients -> Nat] /\ next'[c] = next[c] + 1
            /\ \A d \in Clients \ {c} : next'[d] = next[d]
        BY <1>t, <3>2, <4>1
      <4> QED BY <1>t, <4>1, <4>2
    <3> QED BY <1>3, <3>1, <3>2
  <2>4. /\ logged' \in [Clients -> SUBSET Requests]
        /\ \A d \in Clients : logged'[d] \subseteq C!Names(d)
    <3>1. CASE logged' = logged
      BY <1>t, <3>1
    <3>2. ASSUME NEW r \in Requests, r \in C!Names(c),
                 logged' = [logged EXCEPT ![c] = logged[c] \cup {r}]
          PROVE  /\ logged' \in [Clients -> SUBSET Requests]
                 /\ \A d \in Clients : logged'[d] \subseteq C!Names(d)
      <4>1. logged[c] \cup {r} \in SUBSET Requests /\ logged[c] \cup {r} \subseteq C!Names(c)
        BY <1>t, <3>2
      <4>2. /\ logged' \in [Clients -> SUBSET Requests] /\ logged'[c] = logged[c] \cup {r}
            /\ \A d \in Clients \ {c} : logged'[d] = logged[d]
        <5> DEFINE v == logged[c] \cup {r}
        <5> HIDE DEF v
        <5>1. logged' = [logged EXCEPT ![c] = v] /\ v \in SUBSET Requests
          BY <3>2, <4>1 DEF v
        <5> QED BY <1>t, <5>1 DEF v
      <4> QED BY <1>t, <4>1, <4>2
    <3> QED BY <1>4, <3>1, <3>2
  <2> QED BY <2>1, <2>2, <2>3, <2>4 DEF C!TypeOK, C!Names
<1>6. \A d \in Clients \ {c} : Still(d)
  BY <1>t, <1>1, <1>2, <1>3, <1>4 DEF Still
<1> QED BY <1>5, <1>6

\* No two clients have a request in common: it has at most one client,
LEMMA OneOwner ==
  ASSUME NEW c \in Clients, NEW d \in Clients, NEW r \in C!Names(c), r \in C!Names(d)
  PROVE  c = d
  BY ClientAssumption DEF C!Names

\* which is its owner.
LEMMA OwnerOf ==
  ASSUME NEW c \in Clients, NEW r \in C!Names(c)
  PROVE  Owner(r) = c
  BY OneOwner DEF Owner

LEMMA OwnerIs ==
  ASSUME NEW r, \E c \in Clients : r \in C!Names(c)
  PROVE  Owner(r) \in Clients /\ r \in C!Names(Owner(r))
  BY DEF Owner

\* A client's next name is one of its names, and a request.
LEMMA CurrentName ==
  ASSUME C!TypeOK, NEW c \in Clients, next[c] <= Len(argv[c])
  PROVE  /\ next[c] \in DOMAIN argv[c] /\ C!Current(c) = argv[c][next[c]]
         /\ C!Current(c) \in C!Names(c) /\ C!Current(c) \in Requests
  BY ClientTypes DEF C!Current, C!Names

\* Nothing the resolver has recorded about the names of client c changes.
Untouched(c) ==
  /\ pc["ipc"] = "terminated" => pc'["ipc"] = "terminated"
  /\ \A r \in C!Names(c) : /\ (r \in asked') <=> (r \in asked)
                           /\ (r \in rejected') <=> (r \in rejected)
                           /\ answered'[r] = answered[r]

\* The client's loop does not go on, either.
Settled(c) ==
  /\ next'[c] = next[c] /\ logged'[c] = logged[c]
  /\ (main'[c] = "calling") <=> (main[c] = "calling")
  /\ (raised'[c] = "Resolve") <=> (raised[c] = "Resolve")

LEMMA SettledAgrees ==
  ASSUME C!TypeOK, NEW c \in Clients, AgreeInv(c), PlaceInv(c), Settled(c), Untouched(c)
  PROVE  AgreeInv(c)'
<1>1. \A i \in DOMAIN argv[c] : argv[c][i] \in C!Names(c)
  BY DEF C!Names
<1>2. main[c] = "calling" \/ raised[c] = "Resolve" => C!Current(c) \in C!Names(c)
  BY CurrentName DEF PlaceInv
<1>3. C!Current(c)' = C!Current(c)
  BY DEF Settled, C!Current
<1> QED BY <1>1, <1>2, <1>3 DEF AgreeInv, Settled, Untouched, Accepted

\* What a step of client c leaves to show: its own part of the invariant.
LEMMA OthersKeep ==
  ASSUME LookupInv, IInv', NEW c \in Clients \ dead, ClientAction(c), dead' = dead,
         \A d \in Clients \ {c} : Untouched(d), asked' \subseteq asked \cup C!Names(c),
         ClientInv(c)', AgreeInv(c)', CallInv'
  PROVE  LookupInv'
<1>1. owed' \subseteq Requests
  BY DEF IInv, TypeOK, owed
<1>2. C!TypeOK' /\ \A d \in Clients \ {c} : Still(d)
  BY <1>1, ActionTypes DEF LookupInv, ClientInv
<1>3. OriginInv'
  <2>1. \A d \in dead : Still(d) /\ d \in Clients /\ ~C!Ended(d)
    BY <1>2 DEF LookupInv, OriginInv
  <2>2. \A d \in dead : ~C!Ended(d)'
    BY <2>1 DEF Still, C!Ended
  <2>3. \A r \in asked' : \E d \in Clients : r \in C!Names(d)
    BY DEF LookupInv, OriginInv
  <2> QED BY <2>1, <2>2, <2>3 DEF OriginInv, C!Names
<1>4. ASSUME NEW d \in Clients \ dead', d # c
      PROVE  ClientInv(d)' /\ AgreeInv(d)'
  <2>1. Still(d) /\ Untouched(d) /\ ClientInv(d) /\ AgreeInv(d) /\ C!TypeOK
    BY <1>2, <1>4 DEF LookupInv
  <2>2. ClientInv(d)'
    BY <2>1, StillKeeps
  <2>3. Settled(d)
    BY <2>1 DEF Still, Settled
  <2>4. AgreeInv(d)'
    BY <2>1, <2>3, SettledAgrees DEF ClientInv
  <2> QED BY <2>2, <2>4
<1> QED BY <1>2, <1>3, <1>4 DEF LookupInv

\* A step that neither enters nor leaves a call of Resolve().
LEMMA CallStays ==
  ASSUME CallInv, pc'["ipc"] = pc["ipc"], req'["ipc"] = req["ipc"], asked \subseteq asked',
         dead \subseteq dead',
         \A d \in Clients \ dead : /\ (main'[d] = "calling") <=> (main[d] = "calling")
                                   /\ next'[d] = next[d]
  PROVE  CallInv'
<1>1. \A d \in Clients \ dead : C!Current(d)' = C!Current(d)
  BY DEF C!Current
<1> QED BY <1>1 DEF CallInv, C!Names

\* A client goes on by itself.
LEMMA AloneKeeps ==
  ASSUME LookupInv, IInv', NEW c \in Clients \ dead, UNCHANGED <<vars, dead>>,
         C!MainStep(c) \/ C!GetHandler(c) \/ C!SpuriousWakeup(c)
  PROVE  LookupInv'
<1>1. C!TypeOK /\ ClientInv(c) /\ AgreeInv(c) /\ CallInv
  BY DEF LookupInv
<1>2. ClientInv(c)'
  BY <1>1, MainKeeps, ServingKeeps
<1>3. Settled(c)
  BY <1>1 DEF Settled, C!TypeOK, ClientInv, PlaceInv, C!MainStep, C!Start, C!Connect, C!Get,
     C!GetNotify, C!EndLoop, C!Destroy, C!DestroyNotify, C!Join, C!GetHandler, C!SpuriousWakeup,
     C!Goto, C!Throw, C!Push, C!NotifyOne
<1>4. \A d \in Clients : Untouched(d)
  BY DEF Untouched, vars
<1>5. ClientAction(c)
  BY DEF ClientAction
<1>6. \A d \in Clients \ {c} : Still(d)
  <2>1. owed' \subseteq Requests
    BY DEF IInv, TypeOK, owed
  <2> QED BY <1>1, <1>5, <2>1, ActionTypes DEF ClientInv
<1>7. CallInv'
  BY <1>1, <1>3, <1>6, CallStays DEF Settled, Still, vars
<1>8. AgreeInv(c)'
  BY <1>1, <1>3, <1>4, SettledAgrees DEF ClientInv
<1> QED BY <1>2, <1>4, <1>5, <1>7, <1>8, OthersKeep DEF vars

\* The living clients do nothing, and their requests are left alone.
LEMMA LivingStill ==
  ASSUME LookupInv, IInv', C!TypeOK', CallInv', dead \subseteq dead', asked' = asked,
         dead' \subseteq Clients, \A d \in dead' : ~C!Ended(d)',
         \A d \in Clients \ dead' : Still(d) /\ Untouched(d)
  PROVE  LookupInv'
<1>1. OriginInv'
  BY DEF LookupInv, OriginInv, C!Names
<1>2. ASSUME NEW d \in Clients \ dead'
      PROVE  ClientInv(d)' /\ AgreeInv(d)'
  <2>1. Still(d) /\ Untouched(d) /\ ClientInv(d) /\ AgreeInv(d) /\ C!TypeOK
    BY <1>2 DEF LookupInv
  <2>2. ClientInv(d)'
    BY <2>1, StillKeeps
  <2>3. Settled(d)
    BY <2>1 DEF Still, Settled
  <2>4. AgreeInv(d)'
    BY <2>1, <2>3, SettledAgrees DEF ClientInv
  <2> QED BY <2>2, <2>4
<1> QED BY <1>1, <1>2 DEF LookupInv

\* No client does anything.
LEMMA ClientsStill ==
  ASSUME LookupInv, IInv', UNCHANGED <<clientVars, dead>>, asked' = asked,
         \A d \in Clients \ dead : Untouched(d), CallInv'
  PROVE  LookupInv'
<1>1. C!TypeOK'
  <2>1. owed' \subseteq Requests
    BY DEF IInv, TypeOK, owed
  <2> QED BY <2>1 DEF clientVars, LookupInv, C!TypeOK, C!Names
<1>2. \A d \in Clients : Still(d)
  BY DEF Still, clientVars
<1>3. dead \subseteq Clients /\ \A d \in dead : ~C!Ended(d)'
  BY DEF LookupInv, OriginInv, C!Ended, clientVars
<1> QED BY <1>1, <1>2, <1>3, LivingStill

\* Resolve() is called: the request is added, or the name is refused.
LEMMA ResolveKeeps ==
  ASSUME LookupInv, IInv', NEW c \in Clients, Resolve(c)
  PROVE  LookupInv'
<1> DEFINE r == C!Current(c)
<1>1. /\ C!TypeOK /\ ClientInv(c) /\ AgreeInv(c) /\ CallInv /\ c \notin dead
      /\ dead' = dead /\ main[c] = "call" /\ next[c] <= Len(argv[c]) /\ raised[c] = "nowhere"
  BY DEF LookupInv, Resolve, ClientInv, PlaceInv
<1>2. next[c] \in DOMAIN argv[c] /\ r = argv[c][next[c]] /\ r \in C!Names(c) /\ r \in Requests
  BY <1>1, CurrentName
<1>3. \A i \in DOMAIN argv[c] : argv[c][i] = r => i = next[c]
  BY <1>2, ClientAssumption
<1>4. /\ pc["ipc"] = "idle" /\ r \notin asked /\ asked' = asked \cup {r} /\ answered' = answered
      /\ \/ AddRequest(r) /\ C!Accept(c)
         \/ ResolveEmpty(r) /\ C!CallThrows(c)
  BY DEF Resolve, AddRequest, ResolveEmpty
<1>5. ClientAction(c)
  BY <1>4 DEF ClientAction
<1>6. ClientInv(c)'
  BY <1>1, <1>4, CallingKeeps
<1>7. rejected \subseteq asked /\ pc \in [Threads -> IpcLabels \cup PollLabels]
      /\ req \in [Threads -> Requests \cup {"none"}]
  BY DEF LookupInv, IInv, TypeOK
<1>8. \A d \in Clients \ {c} : Untouched(d)
  <2>1. \A d \in Clients \ {c} : r \notin C!Names(d)
    BY <1>2, OneOwner
  <2>2. rejected' = rejected \/ rejected' = rejected \cup {r}
    BY <1>4 DEF AddRequest, ResolveEmpty
  <2> QED BY <1>4, <2>1, <2>2 DEF Untouched
<1>9. \A d \in Clients \ {c} : Still(d)
  <2>1. owed' \subseteq Requests
    BY DEF IInv, TypeOK, owed
  <2> QED BY <1>1, <1>5, <2>1, ActionTypes DEF ClientInv
<1>10. /\ next' = next /\ logged' = logged /\ DOMAIN main = Clients /\ DOMAIN raised = Clients
       /\ C!Current(c)' = r
  BY <1>1, <1>4 DEF C!Accept, C!CallThrows, C!TypeOK, C!Current
<1>11. \A d \in Clients \ dead : main[d] # "calling"
  BY <1>1, <1>4 DEF CallInv
<1>12. CASE AddRequest(r) /\ C!Accept(c)
  <2>1. /\ main'[c] = "calling" /\ raised' = raised /\ rejected' = rejected
        /\ pc'["ipc"] = "submit" /\ req'["ipc"] = r
    BY <1>7, <1>10, <1>12 DEF AddRequest, C!Accept, C!Goto, Goto, Threads
  <2>2. AgreeInv(c)'
    <3>1. ASSUME NEW i \in DOMAIN argv[c], argv[c][i] \in asked'
          PROVE  i < next[c] \/ i = next[c]
      BY <1>1, <1>3, <1>4, <3>1 DEF AgreeInv
    <3>2. \A i \in DOMAIN argv[c] : i < next[c] => argv[c][i] \in Accepted'
      BY <1>1, <1>4, <2>1 DEF AgreeInv, Accepted
    <3>3. \A i \in DOMAIN argv[c] : argv[c][i] \in logged'[c] <=> answered'[argv[c][i]] = 1
      BY <1>1, <1>4, <1>10 DEF AgreeInv
    <3>4. r \in Accepted'
      BY <1>4, <1>7, <2>1 DEF Accepted
    <3> QED BY <1>1, <1>10, <2>1, <3>1, <3>2, <3>3, <3>4 DEF AgreeInv
  <2>3. CallInv'
    <3>1. r \in asked'
      BY <1>4
    <3>2. \A d \in Clients \ dead : r \in C!Names(d) => d = c
      BY <1>2, OneOwner
    <3>3. \A d \in Clients \ dead : main'[d] = "calling" => d = c
      BY <1>9, <1>11 DEF Still
    <3> QED BY <1>1, <1>10, <2>1, <3>1, <3>2, <3>3 DEF CallInv, C!Names
  <2> QED BY <1>1, <1>2, <1>4, <1>5, <1>6, <1>8, <2>2, <2>3, OthersKeep
<1>13. CASE ResolveEmpty(r) /\ C!CallThrows(c)
  <2>1. /\ main'[c] = "destroy" /\ raised'[c] = "Resolve" /\ rejected' = rejected \cup {r}
        /\ pc' = pc /\ req' = req
    BY <1>10, <1>13 DEF ResolveEmpty, C!CallThrows, C!Throw, C!Goto
  <2>2. AgreeInv(c)'
    <3>1. ASSUME NEW i \in DOMAIN argv[c], argv[c][i] \in asked'
          PROVE  i < next[c] \/ i = next[c]
      BY <1>1, <1>3, <1>4, <3>1 DEF AgreeInv
    <3>2. \A i \in DOMAIN argv[c] : i < next[c] => argv[c][i] \in Accepted'
      BY <1>1, <1>4, <2>1 DEF AgreeInv, Accepted
    <3>3. \A i \in DOMAIN argv[c] : argv[c][i] \in logged'[c] <=> answered'[argv[c][i]] = 1
      BY <1>1, <1>4, <1>10 DEF AgreeInv
    <3>4. r \notin Accepted'
      BY <2>1 DEF Accepted
    <3> QED BY <1>1, <1>10, <2>1, <3>1, <3>2, <3>3, <3>4 DEF AgreeInv
  <2>3. CallInv'
    <3>1. \A d \in Clients \ dead : main'[d] # "calling"
      BY <1>9, <1>11, <2>1 DEF Still
    <3> QED BY <1>1, <1>4, <2>1, <3>1 DEF CallInv
  <2> QED BY <1>1, <1>2, <1>4, <1>5, <1>6, <1>8, <2>2, <2>3, OthersKeep
<1> QED BY <1>4, <1>12, <1>13

\* Resolve() throws because the resolver is gone or the name is too long.
LEMMA FailsKeeps ==
  ASSUME LookupInv, IInv', NEW c \in Clients, ResolveFails(c)
  PROVE  LookupInv'
<1> DEFINE r == C!Current(c)
<1>1. /\ C!TypeOK /\ ClientInv(c) /\ AgreeInv(c) /\ CallInv /\ c \notin dead
      /\ UNCHANGED <<vars, dead>> /\ C!CallThrows(c) /\ (ResolverGone \/ main[c] = "call")
      /\ main[c] \in {"call", "calling"} /\ next[c] <= Len(argv[c]) /\ raised[c] = "nowhere"
  BY DEF LookupInv, ResolveFails, ClientInv, PlaceInv, C!CallThrows
<1>2. next[c] \in DOMAIN argv[c] /\ r = argv[c][next[c]] /\ next[c] \in Nat
  BY <1>1, CurrentName, ClientTypes
<1>3. ClientAction(c)
  BY <1>1 DEF ClientAction
<1>4. ClientInv(c)'
  BY <1>1, CallingKeeps
<1>5. \A d \in Clients : Untouched(d)
  BY <1>1 DEF Untouched, vars
<1>6. \A d \in Clients \ {c} : Still(d)
  <2>1. owed' \subseteq Requests
    BY DEF IInv, TypeOK, owed
  <2> QED BY <1>1, <1>3, <2>1, ActionTypes DEF ClientInv
<1>7. /\ main'[c] = "destroy" /\ raised'[c] = "Resolve" /\ next' = next /\ logged' = logged
      /\ C!Current(c)' = r
  BY <1>1 DEF C!CallThrows, C!Throw, C!Goto, C!TypeOK, C!Current
<1>8. pc["ipc"] # "terminated" => r \notin asked
  BY <1>1, <1>2 DEF AgreeInv, CallInv, ResolverGone
<1>9. AgreeInv(c)'
  BY <1>1, <1>7, <1>8 DEF AgreeInv, Accepted, vars
<1>10. CallInv'
  BY <1>1, <1>6, <1>7 DEF CallInv, ResolverGone, vars, Still, C!Current, C!Names
<1> QED BY <1>1, <1>3, <1>4, <1>5, <1>9, <1>10, OthersKeep DEF vars

\* Resolve() returns to its client, if that is still there.
LEMMA ReturnKeeps ==
  ASSUME LookupInv, IInv', Return
  PROVE  LookupInv'
<1>0. PICK c : c = Owner(req["ipc"])
  OBVIOUS
<1>1. /\ C!TypeOK /\ CallInv /\ OriginInv /\ pc["ipc"] = "notify" /\ dead' = dead
      /\ pc \in [Threads -> IpcLabels \cup PollLabels]
      /\ UNCHANGED <<asked, rejected, answered>>
  BY DEF LookupInv, IInv, TypeOK, Return, Notify
<1>2. pc'["ipc"] = "idle"
  BY <1>1 DEF Return, Notify, NotifyOne, Threads
<1>3. c \in Clients /\ req["ipc"] \in C!Names(c)
  BY <1>0, <1>1, OwnerIs DEF CallInv, OriginInv
<1>4. \A d \in Clients \ dead : main[d] = "calling" => d = c
  <2> SUFFICES ASSUME NEW d \in Clients \ dead, main[d] = "calling" PROVE d = c
    OBVIOUS
  <2>1. req["ipc"] = C!Current(d) /\ next[d] <= Len(argv[d])
    BY <1>1 DEF CallInv, LookupInv, ClientInv, PlaceInv
  <2>2. req["ipc"] \in C!Names(d)
    BY <1>1, <2>1, CurrentName
  <2> QED BY <1>3, <2>2, OneOwner
<1>5. \A d \in Clients : Untouched(d)
  BY <1>1 DEF Untouched
<1>6. CASE c \in dead
  <2>1. UNCHANGED clientVars
    BY <1>0, <1>6 DEF Return
  <2>2. CallInv'
    BY <1>1, <1>2, <1>4, <1>6, <2>1 DEF CallInv, clientVars
  <2> QED BY <1>1, <1>5, <2>1, <2>2, ClientsStill DEF OriginInv
<1>7. CASE c \notin dead
  <2>1. C!CallReturns(c)
    BY <1>0, <1>7 DEF Return
  <2>2. ClientInv(c) /\ AgreeInv(c)
    BY <1>3, <1>7 DEF LookupInv
  <2>3. ClientAction(c)
    BY <2>1 DEF ClientAction
  <2>4. ClientInv(c)'
    BY <1>1, <1>3, <2>1, <2>2, CallingKeeps
  <2>5. /\ main[c] = "calling" /\ main'[c] = "next" /\ next'[c] = next[c] + 1
        /\ raised' = raised /\ logged' = logged /\ raised[c] = "nowhere"
        /\ next[c] <= Len(argv[c])
    BY <1>1, <1>3, <2>1, <2>2 DEF C!CallReturns, C!Goto, C!TypeOK, ClientInv, PlaceInv
  <2>6. DOMAIN argv[c] \subseteq Nat /\ next[c] \in Nat /\ C!Current(c) = argv[c][next[c]]
    BY <1>1, <1>3, <2>5, ClientTypes, CurrentName
  <2>7. AgreeInv(c)'
    <3>1. ASSUME NEW i \in DOMAIN argv[c]
          PROVE  /\ (i < next'[c]) <=> (i < next[c] \/ i = next[c])
                 /\ i < next[c] \/ i = next[c] => argv[c][i] \in Accepted
      <4>1. (i < next[c] + 1) <=> (i < next[c] \/ i = next[c])
        BY <2>6
      <4> QED BY <2>2, <2>5, <2>6, <4>1 DEF AgreeInv
    <3> QED BY <1>1, <2>2, <2>5, <3>1 DEF AgreeInv, Accepted
  <2>8. \A d \in Clients \ {c} : Still(d)
    <3>1. owed' \subseteq Requests
      BY DEF IInv, TypeOK, owed
    <3> QED BY <1>1, <1>3, <2>2, <2>3, <3>1, ActionTypes DEF ClientInv
  <2>9. CallInv'
    <3>1. \A d \in Clients \ dead : main'[d] # "calling"
      BY <1>4, <2>5, <2>8 DEF Still
    <3> QED BY <1>1, <1>2, <3>1 DEF CallInv
  <2> QED BY <1>1, <1>3, <1>5, <1>7, <2>3, <2>4, <2>7, <2>9, OthersKeep
<1> QED BY <1>6, <1>7

\* The resolver calls a client that is there.
LEMMA CallbackKeeps ==
  ASSUME LookupInv, IInv', NEW t \in Threads, Callback(t)
  PROVE  LookupInv'
<1>0. PICK r, c : r = req[t] /\ c = Owner(req[t])
  OBVIOUS
<1>1. /\ C!TypeOK /\ CallInv /\ OriginInv /\ dead' = dead /\ pc[t] = "answer" /\ c \notin dead
      /\ pc \in [Threads -> IpcLabels \cup PollLabels]
      /\ r \in Accepted /\ answered[r] = 0 /\ r \in Requests /\ answered \in [Requests -> Nat]
      /\ C!OnResolve(c, r)
  BY <1>0 DEF LookupInv, IInv, TypeOK, AnswerInv, Callback, Accepted
<1>2. c \in Clients /\ r \in C!Names(c)
  BY <1>0, <1>1, OwnerIs DEF OriginInv, Accepted
<1>3. /\ UNCHANGED <<asked, rejected, req>> /\ answered'[r] = 1
      /\ \A q \in Requests \ {r} : answered'[q] = answered[q]
      /\ \/ pc'["ipc"] = pc["ipc"]
         \/ pc["ipc"] = "answer" /\ pc'["ipc"] = "notify"
  BY <1>0, <1>1 DEF Callback, AnswerSync, AnswerAsync, OnResolve, Goto, Threads
<1>4. ClientInv(c) /\ AgreeInv(c)
  BY <1>1, <1>2 DEF LookupInv
<1>5. r \in Expecting(c)
  <2>1. PICK i \in DOMAIN argv[c] : r = argv[c][i]
    BY <1>2 DEF C!Names
  <2>2. i < next[c] \/ (i = next[c] /\ (main[c] = "calling" \/ raised[c] = "Resolve"))
    BY <1>1, <1>4, <2>1 DEF AgreeInv, Accepted
  <2>3. i \in Queued(c)
    BY <2>2 DEF Queued
  <2>4. r \notin logged[c]
    BY <1>1, <1>4, <2>1 DEF AgreeInv
  <2> QED BY <2>1, <2>3, <2>4 DEF Expecting
<1>6. ClientInv(c)'
  BY <1>1, <1>2, <1>4, <1>5, OnResolveKeeps
<1>7. UNCHANGED <<main, next, raised>> /\ logged'[c] = logged[c] \cup {r}
  BY <1>1, <1>2 DEF C!OnResolve, C!TypeOK
<1>8. ClientAction(c)
  BY <1>1 DEF ClientAction
<1>9. \A d \in Clients \ {c} : Untouched(d)
  <2> SUFFICES ASSUME NEW d \in Clients \ {c} PROVE Untouched(d)
    OBVIOUS
  <2>1. \A q \in C!Names(d) : q \in Requests /\ q # r
    <3>1. \A q \in C!Names(d) : q \in Requests
      BY <1>1, ClientTypes DEF C!Names
    <3> QED BY <1>2, <3>1, OneOwner
  <2>2. pc["ipc"] = "terminated" => pc'["ipc"] = "terminated"
    BY <1>3
  <2> QED BY <1>3, <2>1, <2>2 DEF Untouched
<1>10. AgreeInv(c)'
  <2>1. ASSUME NEW i \in DOMAIN argv[c]
        PROVE  argv[c][i] \in logged'[c] <=> answered'[argv[c][i]] = 1
    <3>1. argv[c][i] \in Requests
      BY <1>1, <1>2, ClientTypes
    <3> QED BY <1>3, <1>4, <1>7, <3>1 DEF AgreeInv
  <2>2. pc["ipc"] = "terminated" => pc'["ipc"] = "terminated"
    BY <1>3
  <2>3. C!Current(c)' = C!Current(c) /\ Accepted' = Accepted
    BY <1>3, <1>7 DEF C!Current, Accepted
  <2> QED BY <1>3, <1>4, <1>7, <2>1, <2>2, <2>3 DEF AgreeInv
<1>11. CallInv'
  <2>1. \A d \in Clients : C!Current(d)' = C!Current(d)
    BY <1>7 DEF C!Current
  <2> QED BY <1>1, <1>3, <1>7, <2>1 DEF CallInv, C!Names
<1> QED BY <1>1, <1>2, <1>3, <1>6, <1>8, <1>9, <1>10, <1>11, OthersKeep

\* The resolver's call of a client throws.
LEMMA CallbackThrowsKeeps ==
  ASSUME LookupInv, IInv', NEW t \in Threads, CallbackThrows(t)
  PROVE  LookupInv'
<1>0. PICK r, c : r = req[t] /\ c = Owner(r)
  OBVIOUS
<1>1. /\ C!TypeOK /\ CallInv /\ OriginInv /\ dead' = dead
      /\ pc[t] = "answer" /\ pc["ipc"] # "terminated"
      /\ pc \in [Threads -> IpcLabels \cup PollLabels] /\ r \in asked
  BY <1>0 DEF LookupInv, IInv, TypeOK, AnswerInv, ThreadInv, CallbackThrows, Accepted, Threads
<1>2. c \in Clients /\ r \in C!Names(c)
  BY <1>0, <1>1, OwnerIs DEF OriginInv
<1>3. \A d \in Clients \ {c} : r \notin C!Names(d)
  BY <1>2, OneOwner
<1>4. /\ UNCHANGED <<asked, answered>>
      /\ \/ /\ pc'["ipc"] = "terminated" /\ pc'[t] = "terminated" /\ rejected' = rejected
         \/ /\ pc'["ipc"] = "idle" /\ pc'[t] = "idle" /\ pc["ipc"] = "answer"
            /\ r = req["ipc"] /\ rejected' = rejected \cup {r}
  BY <1>0, <1>1 DEF CallbackThrows, AnswerSyncThrows, AnswerAsyncThrows, Goto, Threads
<1>5. \A d \in Clients \ {c} : Untouched(d)
  BY <1>1, <1>3, <1>4 DEF Untouched
<1>6. CASE pc'["ipc"] = "terminated"
  <2>1. UNCHANGED clientVars /\ rejected' = rejected
    BY <1>4, <1>6 DEF CallbackThrows
  <2>2. CallInv'
    BY <1>6 DEF CallInv
  <2>3. Untouched(c)
    BY <1>4, <1>6, <2>1 DEF Untouched
  <2> QED BY <1>1, <1>4, <1>5, <2>1, <2>2, <2>3, ClientsStill
<1>7. CASE pc'["ipc"] = "idle"
  <2>1. /\ pc'[t] = "idle" /\ pc["ipc"] = "answer" /\ r = req["ipc"]
        /\ rejected' = rejected \cup {r}
    BY <1>4, <1>7
  <2>2. \A d \in Clients \ dead : main[d] = "calling" => d = c
    <3> SUFFICES ASSUME NEW d \in Clients \ dead, main[d] = "calling" PROVE d = c
      OBVIOUS
    <3>1. r = C!Current(d) /\ next[d] <= Len(argv[d])
      BY <1>1, <2>1 DEF CallInv, LookupInv, ClientInv, PlaceInv
    <3> QED BY <1>1, <1>3, <3>1, CurrentName
  <2>3. CASE c \in dead
    <3>1. UNCHANGED clientVars
      BY <1>0, <2>3 DEF CallbackThrows
    <3>2. CallInv'
      BY <1>1, <1>7, <2>2, <2>3, <3>1 DEF CallInv, clientVars
    <3> QED BY <1>1, <1>4, <1>5, <2>3, <3>1, <3>2, ClientsStill
  <2>4. CASE c \notin dead
    <3>1. C!CallThrows(c)
      BY <1>0, <2>1, <2>4 DEF CallbackThrows
    <3>2. ClientInv(c) /\ AgreeInv(c) /\ main[c] = "calling" /\ C!Current(c) = r
      BY <1>1, <1>2, <2>1, <2>4 DEF LookupInv, CallInv
    <3>3. ClientAction(c) /\ ClientInv(c)'
      BY <1>1, <1>2, <3>1, <3>2, CallingKeeps DEF ClientAction
    <3>4. \A d \in Clients \ {c} : Still(d)
      <4>1. owed' \subseteq Requests
        BY DEF IInv, TypeOK, owed
      <4> QED BY <1>1, <1>2, <3>2, <3>3, <4>1, ActionTypes DEF ClientInv
    <3>5. /\ main'[c] = "destroy" /\ raised'[c] = "Resolve" /\ next' = next /\ logged' = logged
          /\ C!Current(c)' = r /\ next[c] <= Len(argv[c]) /\ raised[c] = "nowhere"
      BY <1>1, <1>2, <3>1, <3>2 DEF C!CallThrows, C!Throw, C!Goto, C!TypeOK, C!Current,
         ClientInv, PlaceInv
    <3>6. CallInv'
      <4>1. \A d \in Clients \ dead : main'[d] # "calling"
        BY <2>2, <3>4, <3>5 DEF Still
      <4> QED BY <1>1, <1>7, <4>1 DEF CallInv
    <3>7. AgreeInv(c)'
      <4>1. /\ next[c] \in DOMAIN argv[c] /\ argv[c][next[c]] = r /\ next[c] \in Nat
            /\ DOMAIN argv[c] \subseteq Nat
        BY <1>1, <1>2, <3>2, <3>5, CurrentName, ClientTypes
      <4>2. \A i \in DOMAIN argv[c] : i < next[c] => argv[c][i] # r
        BY <1>2, <4>1, ClientAssumption
      <4> QED BY <1>1, <1>4, <2>1, <3>2, <3>5, <4>1, <4>2 DEF AgreeInv, Accepted
    <3> QED BY <1>1, <1>2, <1>4, <1>5, <2>4, <3>3, <3>6, <3>7, OthersKeep
  <2> QED BY <2>3, <2>4
<1> QED BY <1>4, <1>6, <1>7

\* The resolver goes on by itself.
LEMMA ResolverKeeps ==
  ASSUME LookupInv, IInv', UNCHANGED <<clientVars, dead>>,
         \/ Boot \/ SubmitAsync \/ SubmitSync \/ Shutdown \/ ShutdownNotify \/ Destroy
         \/ HasRequests \/ WaitPredicate \/ FillPollDescriptors \/ GetTimeout \/ Poll
         \/ ProcessFd \/ LeaveLibrary \/ SpuriousWakeup
         \/ \E r \in Requests : CompleteQuery(r)
  PROVE  LookupInv'
<1>1. /\ CallInv /\ OriginInv /\ pc \in [Threads -> IpcLabels \cup PollLabels]
      /\ req \in [Threads -> Requests \cup {"none"}]
  BY DEF LookupInv, IInv, TypeOK
<1>2. UNCHANGED <<asked, rejected, answered>>
  BY DEF Boot, SubmitAsync, SubmitSync, Shutdown, ShutdownNotify, Destroy, HasRequests,
     WaitPredicate, FillPollDescriptors, GetTimeout, Poll, ProcessFd, LeaveLibrary,
     SpuriousWakeup, CompleteQuery
<1>3. /\ req'["ipc"] = req["ipc"]
      /\ \/ pc'["ipc"] = pc["ipc"]
         \/ pc["ipc"] = "submit" /\ pc'["ipc"] \in {"answer", "notify"}
         \/ /\ pc["ipc"] \in {"boot", "idle", "stopping", "joining"}
            /\ pc'["ipc"] \in {"idle", "stopping", "joining", "exited"}
  <2>1. CASE Boot \/ SubmitAsync \/ SubmitSync \/ Shutdown \/ ShutdownNotify \/ Destroy
    BY <1>1, <2>1 DEF Boot, SubmitAsync, SubmitSync, Shutdown, ShutdownNotify, Destroy,
       OnResolved, Goto, NotifyOne, Threads
  <2>2. CASE HasRequests \/ WaitPredicate \/ FillPollDescriptors \/ GetTimeout \/ Poll
             \/ ProcessFd \/ LeaveLibrary \/ SpuriousWakeup
    BY <1>1, <2>2 DEF HasRequests, WaitPredicate, FillPollDescriptors, GetTimeout, Poll,
       ProcessFd, LeaveLibrary, SpuriousWakeup, Goto, Threads
  <2>3. ASSUME NEW r \in Requests, CompleteQuery(r)
        PROVE  req'["ipc"] = req["ipc"] /\ pc'["ipc"] = pc["ipc"]
    BY <1>1, <2>3 DEF CompleteQuery, OnResolved, Goto, Threads
  <2> QED BY <2>1, <2>2, <2>3
<1>4. \A d \in Clients : Untouched(d)
  BY <1>2, <1>3 DEF Untouched
<1>5. CallInv'
  <2>1. \A d \in Clients : C!Current(d)' = C!Current(d)
    BY DEF C!Current, clientVars
  <2> QED BY <1>1, <1>2, <1>3, <2>1 DEF CallInv, C!Names, clientVars
<1> QED BY <1>1, <1>2, <1>4, <1>5, ClientsStill DEF OriginInv

\* A step of the solution is a step of the resolver, or leaves it alone.
LEMMA StepOfResolver ==
  ASSUME LookupInv, [LookupNext]_lookupVars
  PROVE  [Next]_vars
<1>1. CASE UNCHANGED lookupVars
  BY <1>1 DEF lookupVars
<1>2. ASSUME NEW c \in Clients,
             \/ ClientMain(c) \/ ClientThread(c) \/ ClientWakeup(c) \/ Die(c) \/ ResolveFails(c)
      PROVE  [Next]_vars
  BY <1>2 DEF ClientMain, ClientThread, ClientWakeup, Die, ResolveFails
<1>3. ASSUME NEW c \in Clients, Resolve(c) PROVE [Next]_vars
  <2>1. C!TypeOK /\ next[c] <= Len(argv[c])
    BY <1>3 DEF Resolve, LookupInv, ClientInv, PlaceInv
  <2>2. C!Current(c) \in Requests
    BY <2>1, CurrentName
  <2> QED BY <1>3, <2>2 DEF Resolve, Next
<1>4. ASSUME NEW t \in Threads, Callback(t) \/ CallbackThrows(t) PROVE [Next]_vars
  BY <1>4 DEF Callback, CallbackThrows, Next, IpcStep, PollStep
<1>5. ASSUME NEW r \in Requests, ResolverCompletes(r) PROVE [Next]_vars
  BY <1>5 DEF ResolverCompletes, Next
<1>6. CASE Return \/ ResolverBoot \/ ResolverIpc \/ ResolverPoll
          \/ ResolverShutdown \/ ResolverWakeup
  BY <1>6 DEF Return, ResolverBoot, ResolverIpc, ResolverPoll, ResolverShutdown, ResolverWakeup,
     Next, IpcStep, PollStep
<1> QED BY <1>1, <1>2, <1>3, <1>4, <1>5, <1>6 DEF LookupNext

\* Every step of the solution keeps its invariant.
LEMMA LookupStep ==
  ASSUME LookupInv, [LookupNext]_lookupVars
  PROVE  LookupInv'
<1>0. IInv'
  BY StepOfResolver, NextIInv DEF LookupInv
<1>1. CASE UNCHANGED lookupVars
  <2>1. UNCHANGED <<clientVars, dead, asked>> /\ pc' = pc /\ req' = req
    BY <1>1 DEF lookupVars, vars
  <2>2. \A d \in Clients : Untouched(d)
    BY <1>1 DEF Untouched, lookupVars, vars
  <2>3. CallInv'
    BY <2>1, CallStays DEF LookupInv, clientVars
  <2> QED BY <1>0, <2>1, <2>2, <2>3, ClientsStill DEF LookupInv, OriginInv
<1>2. ASSUME NEW c \in Clients, ClientMain(c) \/ ClientThread(c) \/ ClientWakeup(c)
      PROVE  LookupInv'
  BY <1>0, <1>2, AloneKeeps DEF ClientMain, ClientThread, ClientWakeup
<1>3. ASSUME NEW c \in Clients, Die(c) PROVE LookupInv'
  <2>1. /\ UNCHANGED <<vars, logged>> /\ dead' = dead \cup {c}
        /\ C!TypeOK /\ CallInv /\ OriginInv
    BY <1>3 DEF Die, LookupInv
  <2>2. \A d \in Clients : Untouched(d)
    BY <2>1 DEF Untouched, vars
  <2>3. \A d \in Clients \ {c} : Still(d)
    BY <1>3, <2>1 DEF Die, Still, C!TypeOK
  <2>4. \A d \in dead' : ~C!Ended(d)'
    <3>1. main'[c] = "start"
      BY <1>3, <2>1 DEF Die, C!TypeOK
    <3> QED BY <2>1, <2>3, <3>1 DEF OriginInv, Still, C!Ended
  <2>5. CallInv'
    <3>1. \A d \in Clients \ dead' : main'[d] = main[d] /\ next'[d] = next[d]
      BY <2>1, <2>3 DEF Still
    <3>2. \A d \in Clients \ dead' : C!Current(d)' = C!Current(d)
      BY <3>1 DEF C!Current
    <3> QED BY <2>1, <3>1, <3>2 DEF CallInv, C!Names, vars
  <2>6. C!TypeOK'
    <3>1. owed' \subseteq Requests
      BY <1>0 DEF IInv, TypeOK, owed
    <3>2. <<>> \in Seq({"step", "empty"})
      OBVIOUS
    <3>3. handlers' \in [Clients -> Seq({"step", "empty"})]
      BY <1>3, <2>1, <3>2 DEF Die, C!TypeOK
    <3>4. next' \in [Clients -> Nat] /\ \A d \in Clients : next'[d] \in 1..(Len(argv[d]) + 1)
      BY <1>3, <2>1, ClientTypes DEF Die, C!TypeOK
    <3> QED BY <1>3, <2>1, <3>1, <3>3, <3>4 DEF Die, C!TypeOK, C!Names
  <2> QED BY <1>0, <2>1, <2>2, <2>3, <2>4, <2>5, <2>6, LivingStill DEF OriginInv, vars
<1>4. ASSUME NEW c \in Clients, Resolve(c) \/ ResolveFails(c) PROVE LookupInv'
  BY <1>0, <1>4, ResolveKeeps, FailsKeeps
<1>5. ASSUME NEW t \in Threads, Callback(t) \/ CallbackThrows(t) PROVE LookupInv'
  BY <1>0, <1>5, CallbackKeeps, CallbackThrowsKeeps
<1>6. ASSUME NEW r \in Requests, ResolverCompletes(r) PROVE LookupInv'
  BY <1>0, <1>6, ResolverKeeps DEF ResolverCompletes
<1>7. CASE Return
  BY <1>0, <1>7, ReturnKeeps
<1>8. CASE ResolverBoot \/ ResolverIpc \/ ResolverPoll \/ ResolverShutdown \/ ResolverWakeup
  BY <1>0, <1>8, ResolverKeeps
  DEF ResolverBoot, ResolverIpc, ResolverPoll, ResolverShutdown, ResolverWakeup
<1> QED
  BY <1>1, <1>2, <1>3, <1>4, <1>5, <1>6, <1>7, <1>8 DEF LookupNext

\* The solution starts in a state of its invariant.
LEMMA LookupStart == LookupInit => LookupInv
<1> SUFFICES ASSUME LookupInit PROVE LookupInv
  OBVIOUS
<1>1. IInv
  BY InitIInv DEF LookupInit
<1>i. /\ main = [c \in Clients |-> "start"] /\ next = [c \in Clients |-> 1]
      /\ handlers = [c \in Clients |-> <<>>] /\ serving = [c \in Clients |-> "off"]
      /\ raised = [c \in Clients |-> "nowhere"] /\ logged = [c \in Clients |-> {}]
      /\ dead = {} /\ asked = {} /\ pc["ipc"] = "boot"
      /\ answered = [r \in Requests |-> 0]
  BY DEF LookupInit, C!Init, Init
<1>l. \A c \in Clients : Len(argv[c]) \in Nat /\ DOMAIN argv[c] = 1..Len(argv[c])
                         /\ \A i \in 1..Len(argv[c]) : argv[c][i] \in Requests
  BY ClientAssumption, LenProperties, ElementOfSeq
<1>2. C!TypeOK
  <2>1. \A c \in Clients : 1 \in 1..(Len(argv[c]) + 1)
    BY <1>l
  <2>2. <<>> \in Seq({"step", "empty"})
    OBVIOUS
  <2>3. owed \subseteq Requests
    BY <1>i DEF owed
  <2>4. handlers \in [Clients -> Seq({"step", "empty"})]
    BY <1>i, <2>2
  <2>5. next \in [Clients -> Nat] /\ \A c \in Clients : next[c] \in 1..(Len(argv[c]) + 1)
    BY <1>i, <2>1
  <2> QED BY <1>i, <2>3, <2>4, <2>5 DEF C!TypeOK
<1>3. OriginInv /\ CallInv
  BY <1>i DEF OriginInv, CallInv
<1>4. ASSUME NEW c \in Clients PROVE ClientInv(c) /\ AgreeInv(c)
  <2>1. /\ main[c] = "start" /\ next[c] = 1 /\ handlers[c] = <<>> /\ serving[c] = "off"
        /\ raised[c] = "nowhere" /\ logged[c] = {}
    BY <1>i
  <2>2. PlaceInv(c)
    BY <2>1 DEF PlaceInv, C!Ended
  <2>3. ~Closing(c)
    BY <2>1 DEF Closing
  <2>4. QueueInv(c)
    BY <2>1, <2>3 DEF QueueInv
  <2>5. Queued(c) = {}
    BY <1>l, <2>1 DEF Queued
  <2>6. Expecting(c) = {}
    BY <2>5 DEF Expecting
  <2>7. IsFiniteSet({}) /\ Cardinality({}) = 0
    BY FS_EmptySet
  <2>8. CountInv(c)
    BY <2>1, <2>3, <2>6, <2>7 DEF CountInv
  <2>9. AgreeInv(c)
    BY <1>i, <1>l, <2>1 DEF AgreeInv
  <2> QED BY <2>2, <2>4, <2>8, <2>9 DEF ClientInv
<1> QED BY <1>1, <1>2, <1>3, <1>4 DEF LookupInv

\* LookupInv is an invariant of the solution, for any number of clients and of
\* host names, with empty and too long ones among them, and whichever clients are
\* killed.
THEOREM LookupInvariance == LookupSpec => []LookupInv
  BY LookupStart, LookupStep, PTL DEF LookupSpec

\* With clients that call it and are called back, are killed or hang, the
\* resolver behaves as it is specified: all that is proved of it holds here.
THEOREM Composition == LookupSpec => Spec
<1>1. LookupInit => Init
  BY DEF LookupInit
<1>2. LookupInv /\ [LookupNext]_lookupVars => [Next]_vars
  BY StepOfResolver
<1> QED BY <1>1, <1>2, LookupInvariance, PTL DEF LookupSpec, Spec

\* So the solution gives its clients the lookup service.
THEOREM SolutionIsService == LookupSpec => ImplementsService
  BY Composition, Implementation, PTL

\* The callback thread of each client waits for exactly the OnResolve() calls
\* the resolver is going to make, and for one more if Resolve() threw.
THEOREM CallsMatch == LookupSpec => []CallsMatchSteps
<1>1. LookupInv => CallsMatchSteps
  <2> SUFFICES ASSUME LookupInv, pc["ipc"] # "terminated", NEW c \in Clients \ dead
               PROVE  Steps(c) = Cardinality(owed \cap C!Names(c))
                                 + (IF HandingOver(c) THEN 1 ELSE 0)
    BY DEF CallsMatchSteps
  <2> DEFINE S == owed \cap C!Names(c)
             r == C!Current(c)
  <2>1. /\ C!TypeOK /\ ClientInv(c) /\ AgreeInv(c) /\ IsFiniteSet(Expecting(c)) /\ PlaceInv(c)
        /\ answered \in [Requests -> Nat] /\ \A q \in Requests : answered[q] <= 1
        /\ \A q \in Requests \ asked : answered[q] = 0
    <3>1. C!TypeOK /\ ClientInv(c) /\ AgreeInv(c) /\ TypeOK /\ AtMostOnce /\ AnswerInv
      BY DEF LookupInv, IInv
    <3>2. answered \in [Requests -> Nat]
      BY <3>1 DEF TypeOK
    <3>3. \A q \in Requests : answered[q] <= 1
      BY <3>1, Zenon DEF AtMostOnce
    <3>4. \A q \in Requests \ asked : answered[q] = 0
      BY <3>1 DEF AnswerInv
    <3> QED BY <3>1, <3>2, <3>3, <3>4 DEF ClientInv, CountInv
  <2>2. Steps(c) = Cardinality(Expecting(c))
    BY <2>1, StepsCounted
  <2>3. /\ next[c] \in Nat /\ \A i \in DOMAIN argv[c] : i \in Nat /\ argv[c][i] \in Requests
        /\ \A i, j \in DOMAIN argv[c] : argv[c][i] = argv[c][j] => i = j
    BY <2>1, ClientTypes, ClientAssumption
  <2>4. S = {q \in C!Names(c) : q \in Accepted /\ answered[q] = 0}
    BY DEF owed, Accepted
  <2>5. \A i \in DOMAIN argv[c] : argv[c][i] \in S <=>
          argv[c][i] \in Accepted /\ argv[c][i] \notin logged[c]
    <3> SUFFICES ASSUME NEW i \in DOMAIN argv[c]
                 PROVE  argv[c][i] \in S <=> argv[c][i] \in Accepted /\ argv[c][i] \notin logged[c]
      OBVIOUS
    <3>1. answered[argv[c][i]] \in Nat /\ answered[argv[c][i]] <= 1
      BY <2>1, <2>3
    <3>2. answered[argv[c][i]] = 0 <=> answered[argv[c][i]] # 1
      BY <3>1
    <3> QED BY <2>1, <2>4, <3>2 DEF C!Names, AgreeInv
  <2>6. \A i \in DOMAIN argv[c] : argv[c][i] \in Expecting(c) <=>
          i \in Queued(c) /\ argv[c][i] \notin logged[c]
    BY <2>3 DEF Expecting, Queued
  <2>7. /\ \A q \in S : \E i \in DOMAIN argv[c] : q = argv[c][i]
        /\ \A q \in Expecting(c) : \E i \in DOMAIN argv[c] : q = argv[c][i]
    BY DEF C!Names, Expecting, Queued
  <2>8. CASE ~HandingOver(c)
    <3>1. \A i \in DOMAIN argv[c] : argv[c][i] \in S <=> argv[c][i] \in Expecting(c)
      <4> SUFFICES ASSUME NEW i \in DOMAIN argv[c]
                   PROVE  argv[c][i] \in S <=> argv[c][i] \in Expecting(c)
        OBVIOUS
      <4>1. CASE i < next[c]
        BY <2>1, <2>5, <2>6, <4>1 DEF AgreeInv, Queued
      <4>2. CASE i = next[c]
        BY <2>1, <2>5, <2>6, <2>8, <4>2
        DEF AgreeInv, Queued, HandingOver, PlaceInv, C!Current, Accepted
      <4>3. CASE ~(i < next[c]) /\ i # next[c]
        BY <2>1, <2>5, <2>6, <4>3 DEF AgreeInv, Queued, Accepted
      <4> QED BY <4>1, <4>2, <4>3
    <3>2. S = Expecting(c)
      BY <2>7, <3>1
    <3>3. Cardinality(Expecting(c)) \in Nat
      BY <2>1, FS_CardinalityType
    <3> QED BY <2>2, <2>8, <3>2, <3>3
  <2>9. CASE HandingOver(c)
    <3>1. next[c] \in DOMAIN argv[c] /\ r = argv[c][next[c]]
      BY <2>1, <2>9, CurrentName DEF HandingOver, PlaceInv
    <3>2. r \notin Accepted /\ r \notin logged[c] /\ next[c] \in Queued(c)
      <4>1. CASE main[c] \in {"notify", "call"}
        <5>1. r \notin asked
          BY <2>1, <2>3, <3>1, <4>1 DEF AgreeInv, PlaceInv
        <5>2. answered[r] # 1
          BY <2>1, <2>3, <3>1, <5>1
        <5> QED BY <2>1, <3>1, <4>1, <5>1, <5>2 DEF AgreeInv, Accepted, Queued
      <4>2. CASE raised[c] = "Resolve" /\ r \notin logged[c]
        BY <2>1, <3>1, <4>2 DEF AgreeInv, Queued
      <4> QED BY <2>9, <4>1, <4>2 DEF HandingOver
    <3>3. r \in Expecting(c) /\ r \notin S
      BY <2>5, <2>6, <3>1, <3>2
    <3>4. \A i \in DOMAIN argv[c] : i # next[c] =>
            (argv[c][i] \in S <=> argv[c][i] \in Expecting(c))
      BY <2>1, <2>5, <2>6 DEF AgreeInv, Queued, Accepted
    <3>5. S = Expecting(c) \ {r}
      BY <2>3, <2>7, <3>1, <3>3, <3>4
    <3>6. Cardinality(S) = Cardinality(Expecting(c)) - 1 /\ Cardinality(Expecting(c)) \in Nat
      BY <2>1, <3>3, <3>5, OneLess, Zenon
    <3> QED BY <2>2, <2>9, <3>6
  <2> QED BY <2>8, <2>9
<1> QED BY <1>1, LookupInvariance, PTL

\* A client that logs "Finished" has logged, and was sent, one answer for each
\* of its host names.
THEOREM Finished == LookupSpec => []FinishedMeansAllAnswered
<1>1. LookupInv => FinishedMeansAllAnswered
  <2> SUFFICES ASSUME LookupInv, NEW c \in Clients, main[c] = "finished", NEW r \in C!Names(c)
               PROVE  r \in logged[c] /\ answered[r] = 1
    BY DEF FinishedMeansAllAnswered
  <2>1. c \notin dead
    BY DEF LookupInv, OriginInv, C!Ended
  <2>2. C!TypeOK /\ PlaceInv(c) /\ QueueInv(c) /\ CountInv(c) /\ AgreeInv(c)
    BY <2>1 DEF LookupInv, ClientInv
  <2>3. next[c] = Len(argv[c]) + 1 /\ serving[c] \in {"off", "ended"}
    BY <2>2 DEF PlaceInv, C!Ended
  <2>4. handlers[c] = <<>> /\ ~Closing(c)
    BY <2>2, <2>3 DEF QueueInv, Closing
  <2>5. Cardinality(Expecting(c)) = 0 /\ IsFiniteSet(Expecting(c))
    BY <2>2, <2>3, <2>4 DEF CountInv
  <2>6. Expecting(c) = {}
    BY <2>5, FS_EmptySet
  <2>7. PICK i \in DOMAIN argv[c] : r = argv[c][i]
    BY DEF C!Names
  <2>8. i \in Queued(c)
    BY <2>2, <2>3, <2>7, ClientTypes DEF Queued
  <2>9. r \in logged[c]
    BY <2>6, <2>7, <2>8 DEF Expecting
  <2> QED BY <2>2, <2>7, <2>9 DEF AgreeInv
<1> QED BY <1>1, LookupInvariance, PTL
=============================================================================
