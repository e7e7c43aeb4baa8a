------------------------ MODULE NumberSummationProofs ------------------------
(***************************************************************************)
(* Theorems about examples/errors_via_ipc, for any number of clients and   *)
(* whichever servers may fail.                                             *)
(***************************************************************************)
EXTENDS NumberSummation, TLAPS

\* The initial state satisfies the inductive invariant.
LEMMA InitIInv == Init => IInv
  BY SummationAssumption
  DEF Init, IInv, TypeOK, ClientInv, ServerInv, DeniedOnlyAfterBothBusy,
      AtMostOncePerServer, ResultIsOwnSum, Servers

\* Every step of a client keeps it.
LEMMA ClientIInv ==
  ASSUME IInv, NEW c \in Clients, NewRequest(c) \/ ClientStep(c)
  PROVE  IInv'
<1> USE SummationAssumption
    DEF IInv, TypeOK, Servers, clientVars, serverVars, history
<1>1. CASE NewRequest(c)
  <2>1. TypeOK'
    <3>1. PICK n \in Operands :
            request' = [request EXCEPT ![c] = [num1 |-> n[1], num2 |-> n[2], repeats |-> 0]]
      BY <1>1 DEF NewRequest
    <3>2. n \in (0..100) \X (0..100)
      BY Zenon
    <3>3. n[1] \in Nat /\ n[2] \in Nat
      BY <3>2
    <3> QED BY <1>1, <3>1, <3>3 DEF NewRequest
  <2>2. ClientInv'
    BY <1>1 DEF ClientInv, NewRequest
  <2>3. ServerInv'
    BY <1>1 DEF ServerInv, NewRequest
  <2>4. DeniedOnlyAfterBothBusy'
    BY <1>1 DEF DeniedOnlyAfterBothBusy, NewRequest
  <2>5. AtMostOncePerServer'
    BY <1>1 DEF AtMostOncePerServer, NewRequest
  <2>6. ResultIsOwnSum'
    BY <1>1 DEF ResultIsOwnSum, NewRequest
  <2> QED BY <2>1, <2>2, <2>3, <2>4, <2>5, <2>6
<1>2. CASE Send(c)
  <2>1. TypeOK'
    BY <1>2 DEF Send, CountAttempt, Denied
  <2>2. ClientInv'
    BY <1>2 DEF ClientInv, Send, CountAttempt, Denied
  <2>3. ServerInv'
    BY <1>2 DEF ServerInv, Send, CountAttempt, Denied
  <2>4. DeniedOnlyAfterBothBusy'
    BY <1>2 DEF DeniedOnlyAfterBothBusy, Send, CountAttempt, Denied
  <2>5. AtMostOncePerServer'
    BY <1>2 DEF AtMostOncePerServer, Send, CountAttempt, Denied
  <2>6. ResultIsOwnSum'
    BY <1>2 DEF ResultIsOwnSum, Send, CountAttempt, Denied
  <2> QED BY <2>1, <2>2, <2>3, <2>4, <2>5, <2>6
<1>3. CASE SendDenied(c)
  <2>1. TypeOK'
    BY <1>3 DEF SendDenied, CountAttempt, Denied, Finish
  <2>2. ClientInv'
    BY <1>3 DEF ClientInv, SendDenied, CountAttempt, Denied, Finish
  <2>3. ServerInv'
    BY <1>3 DEF ServerInv, SendDenied, CountAttempt, Denied, Finish
  <2>4. DeniedOnlyAfterBothBusy'
    <3>1. phase[c] = "send" /\ request[c].repeats > 1
      BY <1>3 DEF SendDenied, Denied
    <3>2. request[c].repeats \in 0..2
      BY <3>1 DEF ClientInv
    <3>3. busyAt[c] = Servers
      BY <3>1, <3>2 DEF ClientInv
    <3> QED BY <1>3, <3>3 DEF DeniedOnlyAfterBothBusy, SendDenied, Finish
  <2>5. AtMostOncePerServer'
    BY <1>3 DEF AtMostOncePerServer, SendDenied, CountAttempt, Denied, Finish
  <2>6. ResultIsOwnSum'
    BY <1>3 DEF ResultIsOwnSum, SendDenied, CountAttempt, Denied, Finish
  <2> QED BY <2>1, <2>2, <2>3, <2>4, <2>5, <2>6
<1>4. CASE TransportError(c)
  <2>1. TypeOK'
    BY <1>4 DEF TransportError, Finish
  <2>2. ClientInv'
    BY <1>4 DEF ClientInv, TransportError, Finish
  <2>3. ServerInv'
    BY <1>4 DEF ServerInv, TransportError, Finish
  <2>4. DeniedOnlyAfterBothBusy'
    BY <1>4 DEF DeniedOnlyAfterBothBusy, TransportError, Finish
  <2>5. AtMostOncePerServer'
    BY <1>4 DEF AtMostOncePerServer, TransportError, Finish
  <2>6. ResultIsOwnSum'
    BY <1>4 DEF ResultIsOwnSum, TransportError, Finish
  <2> QED BY <2>1, <2>2, <2>3, <2>4, <2>5, <2>6
<1>5. CASE Connect(c)
  <2>1. TypeOK'
    BY <1>5 DEF Connect
  <2>2. ClientInv'
    BY <1>5 DEF ClientInv, Connect
  <2>3. ServerInv'
    BY <1>5 DEF ServerInv, Connect
  <2>4. DeniedOnlyAfterBothBusy'
    BY <1>5 DEF DeniedOnlyAfterBothBusy, ClientInv, Connect
  <2>5. AtMostOncePerServer'
    BY <1>5 DEF AtMostOncePerServer, Connect
  <2>6. ResultIsOwnSum'
    BY <1>5 DEF ResultIsOwnSum, ClientInv, Connect
  <2> QED BY <2>1, <2>2, <2>3, <2>4, <2>5, <2>6
<1> QED
  BY <1>1, <1>2, <1>3, <1>4, <1>5 DEF ClientStep

\* Counting a repeat leaves a table of requests a table of requests.
LEMMA CountedRequest ==
  ASSUME NEW S, NEW c \in S,
         NEW f \in [S -> [num1 : Nat, num2 : Nat, repeats : Nat]]
  PROVE  [f EXCEPT ![c].repeats = @ + 1]
           \in [S -> [num1 : Nat, num2 : Nat, repeats : Nat]]
  OBVIOUS

\* Every step of a server keeps it.
LEMMA ServerIInv ==
  ASSUME IInv, NEW s \in Servers,
         \/ Reply(s) \/ ServerExit(s)
         \/ \E c \in Clients : SumRequest(s, c)
  PROVE  IInv'
<1> USE SummationAssumption
    DEF IInv, TypeOK, Servers, clientVars, serverVars, history
<1>1. ASSUME NEW c \in Clients, SumRequest(s, c) PROVE IInv'
  <2>1. TypeOK'
    BY <1>1 DEF SumRequest, Busy
  <2>2. ClientInv'
    BY <1>1 DEF ClientInv, SumRequest
  <2>3. ServerInv'
    BY <1>1 DEF ServerInv, SumRequest, Busy
  <2>4. DeniedOnlyAfterBothBusy'
    BY <1>1 DEF DeniedOnlyAfterBothBusy, SumRequest
  <2>5. AtMostOncePerServer'
    <3>1. request[c].repeats \in 0..2 /\ request[c].repeats # 2
      BY <1>1 DEF SumRequest, ClientInv
    <3>2. /\ phase[c] = "wait" /\ curServer[c] = s /\ s \in up /\ job[s] # c
          /\ request[c].repeats < 2
      BY <1>1, <3>1 DEF SumRequest
    <3>3. execs[c][s] = 0
      BY <3>2 DEF ClientInv
    <3>4. execs' = [execs EXCEPT ![c] = [execs[c] EXCEPT ![s] = 1]]
      BY <1>1, <3>3 DEF SumRequest
    <3> QED BY <3>4 DEF AtMostOncePerServer
  <2>6. ResultIsOwnSum'
    BY <1>1 DEF ResultIsOwnSum, SumRequest
  <2> QED BY <2>1, <2>2, <2>3, <2>4, <2>5, <2>6
<1>2. CASE Reply(s) /\ ServerBusy(job[s])
  <2> DEFINE c == job[s]
  <2>0. /\ c \in Clients /\ phase[c] = "wait" /\ curServer[c] = s /\ s \in up
        /\ request[c].repeats \in 0..1
    BY <1>2 DEF Reply, ServerInv, ClientInv
  <2>1. TypeOK'
    <3>1. request' \in [Clients -> [num1 : Nat, num2 : Nat, repeats : Nat]]
      BY <1>2, <2>0, CountedRequest DEF ServerBusy
    <3>2. curServer' \in [Clients -> Servers]
      BY <1>2, <2>0 DEF ServerBusy
    <3> QED BY <1>2, <2>0, <3>1, <3>2 DEF Reply, ServerBusy
  <2>2. ClientInv'
    BY <1>2, <2>0 DEF ClientInv, Reply, ServerBusy
  <2>3. ServerInv'
    BY <1>2, <2>0 DEF ServerInv, Reply, ServerBusy
  <2>4. DeniedOnlyAfterBothBusy'
    BY <1>2, <2>0 DEF DeniedOnlyAfterBothBusy, Reply, ServerBusy
  <2>5. AtMostOncePerServer'
    BY <1>2, <2>0 DEF AtMostOncePerServer, Reply, ServerBusy
  <2>6. ResultIsOwnSum'
    BY <1>2, <2>0 DEF ResultIsOwnSum, Reply, ServerBusy
  <2> QED BY <2>1, <2>2, <2>3, <2>4, <2>5, <2>6
<1>3. CASE Reply(s) /\ res[s].status = "ok" /\ Result(job[s], res[s].result)
  <2>1. TypeOK'
    BY <1>3 DEF Reply, Result, Finish
  <2>2. ClientInv'
    BY <1>3 DEF ClientInv, ServerInv, Reply, Result, Finish
  <2>3. ServerInv'
    BY <1>3 DEF ServerInv, Reply, Result, Finish
  <2>4. DeniedOnlyAfterBothBusy'
    BY <1>3 DEF DeniedOnlyAfterBothBusy, ServerInv, Reply, Result, Finish
  <2>5. AtMostOncePerServer'
    BY <1>3 DEF AtMostOncePerServer, Reply, Result, Finish
  <2>6. ResultIsOwnSum'
    BY <1>3 DEF ResultIsOwnSum, ServerInv, Reply, Result, Finish
  <2> QED BY <2>1, <2>2, <2>3, <2>4, <2>5, <2>6
<1>4. CASE ServerExit(s)
  <2>1. TypeOK'
    BY <1>4 DEF ServerExit
  <2>2. ClientInv'
    BY <1>4 DEF ClientInv, ServerExit
  <2>3. ServerInv'
    BY <1>4 DEF ServerInv, ServerExit
  <2>4. DeniedOnlyAfterBothBusy'
    BY <1>4 DEF DeniedOnlyAfterBothBusy, ServerExit
  <2>5. AtMostOncePerServer'
    BY <1>4 DEF AtMostOncePerServer, ServerExit
  <2>6. ResultIsOwnSum'
    BY <1>4 DEF ResultIsOwnSum, ServerExit
  <2> QED BY <2>1, <2>2, <2>3, <2>4, <2>5, <2>6
<1> QED
  BY <1>1, <1>2, <1>3, <1>4 DEF Reply

\* The inductive invariant holds in every state.
THEOREM Invariance == Spec => []IInv
<1>1. IInv /\ [Next]_vars => IInv'
  <2> SUFFICES ASSUME IInv, [Next]_vars PROVE IInv'
    OBVIOUS
  <2>1. CASE UNCHANGED vars
    BY <2>1 DEF vars, clientVars, serverVars, history, IInv, TypeOK, ClientInv,
       ServerInv, DeniedOnlyAfterBothBusy, AtMostOncePerServer, ResultIsOwnSum
  <2> QED
    BY <2>1, ClientIInv, ServerIInv DEF Next, Stopped
<1> QED
  BY <1>1, InitIInv, PTL DEF Spec

\* The type invariant of the solution.
THEOREM TypeCorrect == Spec => []TypeOK
  BY Invariance, PTL DEF IInv

\* A request is denied by the policy only after both servers were busy.
THEOREM DeniedAfterBothBusy == Spec => []DeniedOnlyAfterBothBusy
  BY Invariance, PTL DEF IInv

\* No server works on the same request twice.
THEOREM OncePerServer == Spec => []AtMostOncePerServer
  BY Invariance, PTL DEF IInv

\* Every sum a client logs is the sum of its own numbers.
THEOREM OwnSum == Spec => []ResultIsOwnSum
  BY Invariance, PTL DEF IInv

\* No server works on a request whose repeats exceed the limit of the IDL.
THEOREM GrantedRepeats == Spec => []RepeatsGranted
<1>1. IInv => RepeatsGranted
  <2> SUFFICES ASSUME IInv, NEW s \in Servers, job[s] # "none"
               PROVE  request[job[s]].repeats <= 1
    BY DEF RepeatsGranted, MaxSecurityGrantedRepeats
  <2>1. job[s] \in Clients /\ phase[job[s]] = "wait"
    BY DEF IInv, TypeOK, ServerInv
  <2>2. request[job[s]].repeats \in 0..2 /\ request[job[s]].repeats # 2
    BY <2>1 DEF IInv, ClientInv
  <2> QED BY <2>2
<1> QED BY <1>1, Invariance, PTL

\* As long as no server has failed, the policy bounds the calls made for one
\* request.
THEOREM BoundedRetries == Spec => []RetriesBoundedWhileUp
<1> DEFINE Count(c) == /\ phase[c] = "send" => attempts[c] = request[c].repeats
                       /\ phase[c] = "wait" => attempts[c] = request[c].repeats + 1
           AInv == up = Servers => RetriesBounded /\ \A c \in Clients : Count(c)
<1> USE DEF MaxAttempts, MaxSecurityGrantedRepeats
<1>1. Init => AInv
  BY DEF Init, RetriesBounded
<1>2. IInv /\ AInv /\ [Next]_vars => AInv'
  <2> SUFFICES ASSUME IInv, AInv, [Next]_vars, up' = Servers PROVE AInv'
    OBVIOUS
  <2>0. up = Servers /\ RetriesBounded /\ \A c \in Clients : Count(c)
    BY DEF Next, NewRequest, ClientStep, Connect, Send, SendDenied, TransportError,
       SumRequest, Reply, ServerExit, Stopped, vars, serverVars, IInv, TypeOK
  <2> USE DEF IInv, TypeOK, RetriesBounded, clientVars, serverVars, history
  <2>1. ASSUME NEW c \in Clients, NewRequest(c) PROVE AInv'
    BY <2>0, <2>1 DEF NewRequest
  <2>2. ASSUME NEW c \in Clients, Send(c) PROVE AInv'
    BY <2>0, <2>2 DEF Send, CountAttempt, Denied
  <2>3. ASSUME NEW c \in Clients, SendDenied(c) PROVE AInv'
    <3>1. phase[c] = "send"
      BY <2>0, <2>3 DEF SendDenied
    <3>2. request[c].repeats \in 0..2
      BY <3>1 DEF ClientInv
    <3>3. attempts[c] = request[c].repeats
      BY <2>0, <3>1
    <3> QED BY <2>0, <2>3, <3>2, <3>3 DEF SendDenied, CountAttempt, Finish
  <2>4. ASSUME NEW c \in Clients, TransportError(c) PROVE AInv'
    BY <2>0, <2>4 DEF TransportError
  <2>5. ASSUME NEW s \in Servers, NEW c \in Clients, SumRequest(s, c) PROVE AInv'
    BY <2>0, <2>5 DEF SumRequest
  <2>6. ASSUME NEW s \in Servers, Reply(s) PROVE AInv'
    <3>1. job[s] \in Clients /\ phase[job[s]] = "wait"
      BY <2>0, <2>6 DEF Reply, ServerInv
    <3>2. CASE ServerBusy(job[s])
      <4>1. PICK c \in Clients : c = job[s]
        BY <3>1
      <4>2. /\ request'[c].repeats = request[c].repeats + 1 /\ phase'[c] = "send"
            /\ \A d \in Clients \ {c} : request'[d] = request[d] /\ phase'[d] = phase[d]
        BY <3>2, <4>1 DEF ServerBusy
      <4>3. UNCHANGED <<attempts, up>>
        BY <2>0, <2>6 DEF Reply
      <4>4. \A d \in Clients : attempts'[d] = attempts[d]
        BY <4>3
      <4>5. attempts[c] = request[c].repeats + 1
        BY <2>0, <3>1, <4>1
      <4>6. \A d \in Clients : Count(d)'
        BY <2>0, <4>2, <4>4, <4>5
      <4> QED BY <2>0, <4>4, <4>6
    <3>3. CASE Result(job[s], res[s].result)
      BY <2>0, <2>6, <3>1, <3>3 DEF Reply, Result, Finish
    <3> QED BY <2>6, <3>2, <3>3 DEF Reply
  <2>7. ASSUME NEW s \in Servers, ServerExit(s) PROVE AInv'
    BY <2>0, <2>7 DEF ServerExit
  <2>8. CASE UNCHANGED vars
    BY <2>0, <2>8 DEF vars
  <2>9. ASSUME NEW c \in Clients, Connect(c) PROVE AInv'
    BY <2>0, <2>9 DEF Connect
  <2> QED
    BY <2>1, <2>2, <2>3, <2>4, <2>5, <2>6, <2>7, <2>8, <2>9 DEF Next, ClientStep, Stopped
<1>3. AInv => RetriesBoundedWhileUp
  BY DEF RetriesBoundedWhileUp
<1> QED
  BY <1>1, <1>2, <1>3, Invariance, PTL DEF Spec, AInv
=============================================================================
