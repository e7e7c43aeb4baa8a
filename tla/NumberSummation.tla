--------------------------- MODULE NumberSummation ---------------------------
(***************************************************************************)
(* The solution of examples/errors_via_ipc: clients (client_c, client_cpp) *)
(* that ask one of two servers (server_c, server_cpp) for a sum, retry a   *)
(* busy answer at the other server, and are stopped by the security policy *)
(* (einit/src/security.psl) after too many repeats.                        *)
(*                                                                         *)
(* Both servers count their requests and answer every second one with      *)
(* rcBusy; only the parity of the 64-bit counter is ever read, so only the *)
(* parity is kept.  A server serves one request at a time: receive and     *)
(* dispatch, then reply.  An error of the transport ends it.               *)
(***************************************************************************)
EXTENDS Naturals

CONSTANTS
  Clients,    \* all clients
  CClients,   \* the ones that run client_c; the others run client_cpp
  Operands,   \* the pairs of numbers they draw
  MayFail     \* servers whose transport may report an error

Servers == {0, 1}

\* The constant of the IDL.
MaxSecurityGrantedRepeats == 1

ASSUME SummationAssumption ==
  /\ CClients \subseteq Clients
  /\ Operands \subseteq (0..100) \X (0..100)
  /\ MayFail \subseteq Servers
  /\ "none" \notin Clients

VARIABLES
  phase,      \* per client: "start", "idle" between requests, "send", "wait",
              \* or "exited"
  request,    \* per client: the Request structure
  curServer,  \* per client: the server it talks to
  outcome,    \* per client: how its current request ended, or "none"
  result,     \* per client: the sum it received for its current request, or 0
  counter,    \* per server: parity of the number of requests plus one
  job,        \* per server: the client whose request was dispatched, or "none"
  res,        \* per server: the response structure
  up,         \* the servers that are still in their dispatch loop
  busyAt,     \* history: servers that answered rcBusy to the current request
  execs,      \* history: how often a server dispatched the current request
  attempts    \* history: SumRequest calls for the current request (saturating)

clientVars == <<phase, request, curServer, outcome, result>>
serverVars == <<counter, job, res, up>>
history    == <<busyAt, execs, attempts>>
vars       == <<clientVars, serverVars, history>>

\* The first request of a client and its one granted repeat are answered, the
\* next repeat is denied: the calls a client needs at most.
MaxAttempts == MaxSecurityGrantedRepeats + 2

Init ==
  /\ phase = [c \in Clients |-> "start"]
  /\ request \in [Clients -> [num1 : {0}, num2 : {0}, repeats : {0}]]
  /\ curServer = [c \in Clients |-> 0]
  /\ outcome = [c \in Clients |-> "none"]
  /\ result = [c \in Clients |-> 0]
  /\ counter = [s \in Servers |-> 1]
  /\ job = [s \in Servers |-> "none"]
  /\ res = [s \in Servers |-> [status |-> "ok", result |-> 0]]
  /\ up = Servers
  /\ busyAt = [c \in Clients |-> {}]
  /\ execs = [c \in Clients |-> [s \in Servers |-> 0]]
  /\ attempts = [c \in Clients |-> 0]

-----------------------------------------------------------------------------
(***************************************************************************)
(* The clients.                                                            *)
(***************************************************************************)

\* The connections to both servers are established, or the client exits.
Connect(c) ==
  /\ phase[c] = "start"
  /\ \E next \in {"idle", "exited"} : phase' = [phase EXCEPT ![c] = next]
  /\ UNCHANGED <<request, curServer, outcome, result, serverVars, history>>

\* A new request: a random server, random numbers, no repeats yet.
NewRequest(c) ==
  /\ phase[c] = "idle"
  /\ \E s \in Servers : curServer' = [curServer EXCEPT ![c] = s]
  /\ \E n \in Operands :
       request' = [request EXCEPT ![c] = [num1 |-> n[1], num2 |-> n[2], repeats |-> 0]]
  /\ phase' = [phase EXCEPT ![c] = "send"]
  /\ outcome' = [outcome EXCEPT ![c] = "none"]
  /\ result' = [result EXCEPT ![c] = 0]
  /\ busyAt' = [busyAt EXCEPT ![c] = {}]
  /\ execs' = [execs EXCEPT ![c] = [s \in Servers |-> 0]]
  /\ attempts' = [attempts EXCEPT ![c] = 0]
  /\ UNCHANGED serverVars

\* The request ends: the client logs and sleeps before the next one.
Finish(c, how) ==
  /\ phase' = [phase EXCEPT ![c] = "idle"]
  /\ outcome' = [outcome EXCEPT ![c] = how]
  /\ UNCHANGED <<request, curServer>>

\* Mistake: the limit of the policy and that of the IDL differ by one.
DeniedLate(req) == req.repeats > 2

\* The security policy's rule for SumRequest.
Denied(req) == req.repeats > 1

CountAttempt(c) ==
  attempts' = [attempts EXCEPT ![c] = IF @ > MaxAttempts THEN @ ELSE @ + 1]

\* The client calls SumRequest and the kernel passes it to the server ...
Send(c) ==
  /\ phase[c] = "send" /\ ~Denied(request[c])
  /\ phase' = [phase EXCEPT ![c] = "wait"]
  /\ CountAttempt(c)
  /\ UNCHANGED <<request, curServer, outcome, result, serverVars, busyAt, execs>>

\* Mistake: NK_EPERM does not end the loop.
SendDeniedRetries(c) ==
  /\ phase[c] = "send" /\ Denied(request[c])
  /\ CountAttempt(c)
  /\ UNCHANGED <<clientVars, serverVars, busyAt, execs>>

\* ... or denies it: NK_EPERM for the C client, an exception for the other.
SendDenied(c) ==
  /\ phase[c] = "send" /\ Denied(request[c])
  /\ Finish(c, "denied")
  /\ CountAttempt(c)
  /\ UNCHANGED <<result, serverVars, busyAt, execs>>

\* Mistake: the server is not changed.
BusySameServer(c) ==
  /\ request' = [request EXCEPT ![c].repeats = @ + 1]
  /\ phase' = [phase EXCEPT ![c] = "send"]
  /\ busyAt' = [busyAt EXCEPT ![c] = @ \cup {curServer[c]}]
  /\ UNCHANGED <<curServer, outcome, result>>

\* rcBusy or ServerBusy: the other server, one more repeat.
ServerBusy(c) ==
  /\ curServer' = [curServer EXCEPT ![c] = 1 - @]
  /\ request' = [request EXCEPT ![c].repeats = @ + 1]
  /\ phase' = [phase EXCEPT ![c] = "send"]
  /\ busyAt' = [busyAt EXCEPT ![c] = @ \cup {curServer[c]}]
  /\ UNCHANGED <<outcome, result>>

\* A reply with a sum.
Result(c, sum) ==
  /\ Finish(c, "sum")
  /\ result' = [result EXCEPT ![c] = sum]
  /\ UNCHANGED busyAt

\* The server is gone, or ends during the call: the C client logs the error
\* and calls again, at once and at the same server; the C++ client gives up.
TransportError(c) ==
  /\ phase[c] = "wait" /\ curServer[c] \notin up
  /\ \/ /\ c \in CClients
        /\ phase' = [phase EXCEPT ![c] = "send"]
        /\ UNCHANGED <<request, curServer, outcome>>
     \/ /\ c \notin CClients
        /\ Finish(c, "error")
  /\ UNCHANGED <<result, serverVars, history>>

-----------------------------------------------------------------------------
(***************************************************************************)
(* The servers.                                                            *)
(***************************************************************************)

\* The request counter's parity makes every second request a busy one.
Busy(s) == counter[s] = 0

\* Mistakes: the response structure keeps the sum of the server's first request; a
\* busy answer is not counted as a request.
SumRequestStale(s, c) ==
  /\ s \in up /\ job[s] = "none"
  /\ phase[c] = "wait" /\ curServer[c] = s
  /\ job' = [job EXCEPT ![s] = c]
  /\ res' = [res EXCEPT ![s] =
               IF Busy(s) \/ @.result # 0
               THEN [@ EXCEPT !.status = IF Busy(s) THEN "busy" ELSE "ok"]
               ELSE [status |-> "ok", result |-> request[c].num1 + request[c].num2]]
  /\ counter' = [counter EXCEPT ![s] = (@ + 1) % 2]
  /\ execs' = [execs EXCEPT ![c][s] = @ + 1]
  /\ UNCHANGED <<clientVars, up, busyAt, attempts>>

SumRequestStaysBusy(s, c) ==
  /\ s \in up /\ job[s] = "none"
  /\ phase[c] = "wait" /\ curServer[c] = s
  /\ job' = [job EXCEPT ![s] = c]
  /\ res' = [res EXCEPT ![s] =
               IF Busy(s)
               THEN [status |-> "busy", result |-> 0]
               ELSE [status |-> "ok", result |-> request[c].num1 + request[c].num2]]
  /\ counter' = [counter EXCEPT ![s] = 0]
  /\ execs' = [execs EXCEPT ![c][s] = @ + 1]
  /\ UNCHANGED <<clientVars, up, busyAt, attempts>>

\* Receive a waiting client's request and dispatch it to SumRequest.  The C
\* server does not reset the response before it dispatches; the generated
\* dispatcher (not in the repository) is taken to start a fresh response.
SumRequest(s, c) ==
  /\ s \in up /\ job[s] = "none"
  /\ phase[c] = "wait" /\ curServer[c] = s
  /\ job' = [job EXCEPT ![s] = c]
  /\ res' = [res EXCEPT ![s] =
               IF Busy(s)
               THEN [status |-> "busy", result |-> 0]
               ELSE [status |-> "ok", result |-> request[c].num1 + request[c].num2]]
  /\ counter' = [counter EXCEPT ![s] = (@ + 1) % 2]
  /\ execs' = [execs EXCEPT ![c][s] = @ + 1]
  /\ UNCHANGED <<clientVars, up, busyAt, attempts>>

\* Reply; the call of the client returns.
Reply(s) ==
  /\ s \in up /\ job[s] # "none"
  /\ \/ res[s].status = "busy" /\ ServerBusy(job[s])
     \/ res[s].status = "ok" /\ Result(job[s], res[s].result)
  /\ job' = [job EXCEPT ![s] = "none"]
  /\ UNCHANGED <<counter, res, up, execs, attempts>>

\* nk_transport_recv, the dispatch or nk_transport_reply reports an error (an
\* exception leaves loop.Run() of the C++ server): the server exits.
ServerExit(s) ==
  /\ s \in MayFail /\ s \in up
  /\ up' = up \ {s}
  /\ job' = [job EXCEPT ![s] = "none"]
  /\ UNCHANGED <<clientVars, counter, res, history>>

-----------------------------------------------------------------------------
ClientStep(c) == Connect(c) \/ Send(c) \/ SendDenied(c) \/ TransportError(c)

\* No client is left.
Stopped == (\A c \in Clients : phase[c] = "exited") /\ UNCHANGED vars

Next == \/ \E c \in Clients : \/ NewRequest(c) \/ ClientStep(c)
                              \/ \E s \in Servers : SumRequest(s, c)
        \/ \E s \in Servers : Reply(s) \/ ServerExit(s)
        \/ Stopped

Spec == Init /\ [][Next]_vars

(***************************************************************************)
(* Clients and servers that can go on do; a server serves every waiting    *)
(* client in the end (the kernel queues the callers).                      *)
(***************************************************************************)
Fairness ==
  /\ \A c \in Clients : /\ WF_vars(ClientStep(c)) /\ WF_vars(NewRequest(c))
                        /\ \A s \in Servers : SF_vars(SumRequest(s, c))
  /\ \A s \in Servers : WF_vars(Reply(s))

FairSpec == Spec /\ Fairness

-----------------------------------------------------------------------------
(***************************************************************************)
(* Properties.                                                             *)
(***************************************************************************)

\* The type invariant of clients, servers and the history.
TypeOK ==
  /\ phase \in [Clients -> {"start", "idle", "send", "wait", "exited"}]
  /\ request \in [Clients -> [num1 : Nat, num2 : Nat, repeats : Nat]]
  /\ curServer \in [Clients -> Servers]
  /\ outcome \in [Clients -> {"none", "sum", "denied", "error"}]
  /\ result \in [Clients -> Nat]
  /\ counter \in [Servers -> {0, 1}]
  /\ job \in [Servers -> Clients \cup {"none"}]
  /\ res \in [Servers -> [status : {"ok", "busy"}, result : Nat]]
  /\ up \subseteq Servers
  /\ busyAt \in [Clients -> SUBSET Servers]
  /\ execs \in [Clients -> [Servers -> Nat]]
  /\ attempts \in [Clients -> Nat]

\* The policy's limit is the one the interface promises: no server ever works
\* on a request with more repeats, however the clients interleave.
RepeatsGranted ==
  \A s \in Servers : job[s] # "none" =>
    request[job[s]].repeats <= MaxSecurityGrantedRepeats

\* A request is denied only after BOTH servers have answered it with rcBusy: a
\* client never exceeds the limit because it asked the same server again.
DeniedOnlyAfterBothBusy ==
  \A c \in Clients : phase[c] = "idle" /\ outcome[c] = "denied" => busyAt[c] = Servers

\* No server is made to work on the same request twice.
AtMostOncePerServer ==
  \A c \in Clients, s \in Servers : execs[c][s] <= 1

\* The sum a client logs is the sum of the numbers it sent, although the
\* servers use one response structure for all clients.
ResultIsOwnSum ==
  \A c \in Clients : phase[c] = "idle" /\ outcome[c] = "sum" =>
    result[c] = request[c].num1 + request[c].num2

\* A client that works on a request has been refused by the servers its repeats
\* count, and the server it talks to has not had the request yet, unless that
\* server is just working on it or is gone.
ClientInv ==
  \A c \in Clients : LET s == curServer[c] IN
    /\ phase[c] = "start" => outcome[c] = "none"
    /\ phase[c] \in {"send", "wait"} =>
         /\ request[c].repeats \in 0..2
         /\ request[c].repeats = 0 => busyAt[c] = {} /\ execs[c][1 - s] = 0
         /\ request[c].repeats = 1 => busyAt[c] = {1 - s}
         /\ request[c].repeats = 2 => busyAt[c] = Servers /\ phase[c] = "send"
         /\ request[c].repeats < 2 /\ s \in up /\ job[s] # c => execs[c][s] = 0

\* A server works, while it is up, for a client that waits for it, and on that
\* client's numbers.
ServerInv ==
  \A s \in Servers : LET c == job[s] IN c # "none" =>
    /\ phase[c] = "wait" /\ curServer[c] = s /\ s \in up
    /\ res[s].status = "ok" => res[s].result = request[c].num1 + request[c].num2

\* The inductive invariant behind the safety properties of the solution.
IInv == /\ TypeOK /\ ClientInv /\ ServerInv
        /\ DeniedOnlyAfterBothBusy /\ AtMostOncePerServer /\ ResultIsOwnSum

\* The retries of one request are limited by the policy.
RetriesBounded == \A c \in Clients : attempts[c] <= MaxAttempts

\* They are, as long as no server has failed.
RetriesBoundedWhileUp == up = Servers => RetriesBounded

\* No other client has ever got as far as a request.
Alone(c) == \A d \in Clients \ {c} : phase[d] = "exited"

\* Every request ends, with a sum or a denial, unless a server fails.
RequestEnds ==
  \A c \in Clients : (phase[c] = "send") ~> (phase[c] = "idle" \/ up # Servers)

\* A client that is alone gets a sum in the end, whichever servers it draws.
AloneGetsSums ==
  \A c \in Clients :
    (phase[c] = "send" /\ Alone(c))
      ~> (up # Servers \/ (phase[c] = "idle" /\ outcome[c] = "sum"))
=============================================================================
