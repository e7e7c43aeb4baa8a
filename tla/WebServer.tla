----------------------------- MODULE WebServer -----------------------------
(***************************************************************************)
(* The solution of examples/jwt: the WebServer program (a listener,        *)
(* sessions and URI handlers on an io_context that several threads run)    *)
(* and the TokenService program its handlers call.                         *)
(*                                                                         *)
(* Every asynchronous operation has a completion handler; a handler is one *)
(* step, taken by any free thread, except that /gettoken and /getdata      *)
(* block their thread in a call of the token service.  A session runs in a *)
(* strand of its own: its handlers do not overlap.                         *)
(*                                                                         *)
(* Boost is not part of the repository.  Taken from it: after async_shut-  *)
(* down was started a write fails, while a read may still deliver data.    *)
(***************************************************************************)
EXTENDS Naturals, FiniteSets

CONSTANTS
  Conns,           \* the connections browsers may open
  Threads,         \* number of threads that run the io_context
  Traffic,         \* the requests browsers send
  ServiceMayStop   \* whether the token service may end

Targets  == {"illegal", "/gettoken", "/getdata", "file", "missing", "unreadable"}
Requests == [target : Targets, method : {"get", "other"},
             token : {"none", "forged", "issued", "overlong"}, keepAlive : BOOLEAN]

Statuses  == {"ok", "bad_request", "not_found", "internal_server_error",
              "method_not_allowed"}
Responses == [status : Statuses, keepAlive : BOOLEAN,
              body : {"file", "token", "empty", "data", "wrong token", "why"}]

ASSUME WebServerAssumption ==
  /\ Threads \in Nat \ {0}
  /\ Traffic \subseteq Requests
  /\ ServiceMayStop \in BOOLEAN

VARIABLES
  server,     \* "boot", "running", "exited" or "terminated"
  accepting,  \* async_accept is pending
  conn,       \* per connection: "none", "waiting" to be accepted, "open"
  session,    \* per connection: its Session object
  up,         \* the token service runs
  issued      \* a browser was sent a token

vars == <<server, accepting, conn, session, up, issued>>

\* The calls of the token service a handler can be blocked in.
Calls == {"Generate", "Verify"}

NoRequest == [target |-> "illegal", method |-> "other", token |-> "none",
              keepAlive |-> TRUE]

Reply(r, status, body) ==
  [status |-> status, keepAlive |-> r.keepAlive, body |-> body]

NoResponse == Reply(NoRequest, "bad_request", "why")

\* A session: the operations it waits for, the number of shutdowns it waits for,
\* the shared_ptrs to it that their handlers hold, whether Close() was called,
\* m_req, the response that is being written, and (history) the number of requests
\* handled after Close().
NoSession  == [ops |-> {}, shutdowns |-> 0, refs |-> 0, closed |-> FALSE,
               req |-> NoRequest, res |-> NoResponse, late |-> 0]

Init ==
  /\ server = "boot" /\ accepting = FALSE
  /\ conn = [c \in Conns |-> "none"]
  /\ session = [c \in Conns |-> NoSession]
  /\ up = TRUE /\ issued = FALSE

Blocked(c) == session[c].ops \cap Calls # {}

\* A thread is free to run a completion handler.
FreeThread ==
  server = "running" /\ Cardinality({c \in Conns : Blocked(c)}) < Threads

\* The completion handler of an operation of session c can run.
Completes(c, op) == FreeThread /\ op \in session[c].ops /\ ~Blocked(c)

\* A handler ends and leaves the session s.  The last shared_ptr takes the session
\* with it, and its connection, whatever is pending on it.
Leave(c, s) ==
  LET over == s.refs = 0
      gone == [NoSession EXCEPT !.ops = s.ops, !.shutdowns = s.shutdowns]
  IN  /\ session' = [session EXCEPT ![c] = IF over THEN gone ELSE s]
      /\ conn' = [conn EXCEPT ![c] = IF over THEN "none" ELSE @]

\* An operation is started with shared_from_this() bound into its handler.
Begin(s, op) == [s EXCEPT !.ops = @ \cup {op}, !.refs = @ + 1]

\* The handler of an operation has run: its shared_ptr goes.
Without(s, op) == [s EXCEPT !.ops = @ \ {op}, !.refs = @ - 1]

-----------------------------------------------------------------------------
(***************************************************************************)
(* Start and accept.                                                       *)
(***************************************************************************)

\* main() and Run() up to ioc.run(): all goes well, or the program ends
\* because of its arguments, the network or the certificates.
Run ==
  /\ server = "boot"
  /\ \/ server' = "running" /\ accepting' = TRUE
     \/ server' = "exited" /\ UNCHANGED accepting
  /\ UNCHANGED <<conn, session, up, issued>>

\* A browser connects.
Connect(c) ==
  /\ server = "running" /\ conn[c] = "none"
  /\ conn' = [conn EXCEPT ![c] = "waiting"]
  /\ UNCHANGED <<server, accepting, session, up, issued>>

\* OnAccept(): a session is made and Run() dispatches OnRun(); accept again.
OnAccept(c) ==
  /\ FreeThread /\ accepting /\ conn[c] = "waiting"
  /\ conn' = [conn EXCEPT ![c] = "open"]
  /\ session' = [session EXCEPT ![c] = Begin(NoSession, "run")]
  /\ accepting' = TRUE
  /\ UNCHANGED <<server, up, issued>>

\* Mistake: no further accept after an error.
OnAcceptErrorLast(c) ==
  /\ FreeThread /\ accepting /\ conn[c] = "waiting"
  /\ conn' = [conn EXCEPT ![c] = "none"]
  /\ accepting' = FALSE
  /\ UNCHANGED <<server, session, up, issued>>

\* OnAccept() with an error, after which the server accepts again, too.
OnAcceptError(c) ==
  /\ FreeThread /\ accepting /\ conn[c] = "waiting"
  /\ conn' = [conn EXCEPT ![c] = "none"]
  /\ accepting' = TRUE
  /\ UNCHANGED <<server, session, up, issued>>

-----------------------------------------------------------------------------
(***************************************************************************)
(* Sessions.                                                               *)
(***************************************************************************)

\* Read(): m_req is cleared and async_read started.  The response that was
\* written before is gone.
Read(s) == [Begin(s, "read") EXCEPT !.req = NoRequest, !.res = NoResponse]

\* Mistake: the handler of the shutdown is bound to this, not to shared_from_this().
CloseUnowned(s) == [s EXCEPT !.shutdowns = @ + 1, !.closed = TRUE]

\* Close(): async_shutdown is started, with a timeout.
Close(s) == [s EXCEPT !.shutdowns = @ + 1, !.refs = @ + 1, !.closed = TRUE]

\* Mistake: the next read is started together with the write.
SendResponseReads(s, answer) ==
  [Begin(Begin(s, "read"), "write") EXCEPT !.res = answer]

\* SendResponse(): async_write is started.
SendResponse(s, answer) == [Begin(s, "write") EXCEPT !.res = answer]

OnRun(c) ==
  /\ Completes(c, "run")
  /\ Leave(c, Begin(Without(session[c], "run"), "handshake"))
  /\ UNCHANGED <<server, accepting, up, issued>>

\* After the handshake the first read is started; on an error nothing is.
OnHandshake(c) ==
  /\ Completes(c, "handshake")
  /\ LET s == Without(session[c], "handshake") IN Leave(c, s) \/ Leave(c, Read(s))
  /\ UNCHANGED <<server, accepting, up, issued>>

\* The default handler answers a GET with a file or with an error.
AllRequestHandler(r) ==
  CASE r.target = "missing"    -> Reply(r, "not_found", "why")
    [] r.target = "unreadable" -> Reply(r, "internal_server_error", "why")
    [] OTHER                   -> Reply(r, "ok", "file")

\* Every URI handler knows one method, GET.
HasMethod(r) == r.method = "get"

\* HandleRequest() for a request whose handler does not call the token service.
HandleRequest(r) ==
  IF r.target = "illegal" THEN Reply(r, "bad_request", "why")
  ELSE IF HasMethod(r)    THEN AllRequestHandler(r)
                          ELSE Reply(r, "method_not_allowed", "why")

\* The requests whose handler does.
CallFor(r) == IF ~HasMethod(r) THEN {}
              ELSE IF r.target = "/gettoken" THEN {"Generate"}
              ELSE IF r.target = "/getdata"  THEN {"Verify"} ELSE {}

\* OnRead() without an error: the request is handled.  A browser can only send
\* a token that some browser was given.
OnRead(c, r) ==
  /\ Completes(c, "read") /\ (r.token = "issued" => issued)
  /\ LET s == [Without(session[c], "read") EXCEPT
                 !.req = r, !.late = IF session[c].closed THEN @ + 1 ELSE @]
     IN  \/ \E call \in CallFor(r) : Leave(c, Begin(s, call))
         \/ CallFor(r) = {} /\ Leave(c, SendResponse(s, HandleRequest(r)))
  /\ UNCHANGED <<server, accepting, up, issued>>

\* OnRead() with an error: end_of_stream closes, any other error (after Close()
\* also the timeout of 30 s) starts nothing.
OnReadError(c) ==
  /\ Completes(c, "read")
  /\ LET s == Without(session[c], "read") IN Leave(c, s) \/ Leave(c, Close(s))
  /\ UNCHANGED <<server, accepting, up, issued>>

\* OnWrite() without an error: Close() unless the connection is kept alive,
\* and in both cases the next Read().
OnWrite(c) ==
  /\ Completes(c, "write") /\ ~session[c].closed
  /\ LET s == Without(session[c], "write")
     IN  Leave(c, Read(IF s.res.keepAlive THEN s ELSE Close(s)))
  /\ UNCHANGED <<server, accepting, up, issued>>

\* Mistake: the next Read() also follows a write that failed.
OnWriteErrorReads(c) ==
  /\ Completes(c, "write")
  /\ Leave(c, Read(Without(session[c], "write")))
  /\ UNCHANGED <<server, accepting, up, issued>>

\* OnWrite() with an error.
OnWriteError(c) ==
  /\ Completes(c, "write")
  /\ Leave(c, Without(session[c], "write"))
  /\ UNCHANGED <<server, accepting, up, issued>>

\* Mistake: OnShutdown() closes again, whatever the result.
OnShutdownCloses(c) ==
  /\ FreeThread /\ ~Blocked(c) /\ session[c].shutdowns > 0
  /\ Leave(c, Close([session[c] EXCEPT !.shutdowns = @ - 1, !.refs = @ - 1]))
  /\ UNCHANGED <<server, accepting, up, issued>>

\* The shutdown is done, failed, or timed out.
OnShutdown(c) ==
  /\ FreeThread /\ ~Blocked(c) /\ session[c].shutdowns > 0
  /\ Leave(c, [session[c] EXCEPT !.shutdowns = @ - 1, !.refs = @ - 1])
  /\ UNCHANGED <<server, accepting, up, issued>>

-----------------------------------------------------------------------------
(***************************************************************************)
(* The token service.                                                      *)
(***************************************************************************)

\* The handler gets the answer of its call and sends its response.
Respond(c, call, body) ==
  /\ server = "running" /\ up /\ call \in session[c].ops
  /\ LET s == Without(session[c], call)
     IN  Leave(c, SendResponse(s, Reply(s.req, "ok", body)))
  /\ UNCHANGED <<server, accepting, up>>

\* Generate() returns a token, or an empty one if it could not be made.
Generate(c) ==
  \/ Respond(c, "Generate", "token") /\ issued' = TRUE
  \/ Respond(c, "Generate", "empty") /\ UNCHANGED issued

\* Mistake: any token that is not empty is accepted.
AcceptsAny(token) == token # "none"

\* Verify() accepts a token only if it is signed with the service's secret.
Accepts(token) == token = "issued"

\* The IDL's bound of a token, which a request target can exceed: the proxy throws
\* and the call is not made.
Fits(token) == token # "overlong"

\* GetDataHandler::HandleGet() with the answer of Verify().
Verify(c) ==
  /\ Fits(session[c].req.token)
  /\ Respond(c, "Verify",
             IF Accepts(session[c].req.token) THEN "data" ELSE "wrong token")
  /\ UNCHANGED issued

\* The event loop of the token service ends.
ServiceStops ==
  /\ ServiceMayStop /\ up
  /\ up' = FALSE
  /\ UNCHANGED <<server, accepting, conn, session, issued>>

\* A call of a service that is gone throws, and one with a token that does not
\* fit.  No thread can handle it: the workers have no catch, and on the main
\* thread the unwinding destroys the vector of threads that were not joined.
CallThrows(c) ==
  /\ server = "running" /\ Blocked(c)
  /\ ~up \/ ("Verify" \in session[c].ops /\ ~Fits(session[c].req.token))
  /\ server' = "terminated"
  /\ UNCHANGED <<accepting, conn, session, up, issued>>

Stopped == server \in {"exited", "terminated"} /\ UNCHANGED vars

-----------------------------------------------------------------------------
Step(c) ==
  \/ OnAccept(c) \/ OnAcceptError(c) \/ OnRun(c) \/ OnHandshake(c)
  \/ (\E r \in Traffic : OnRead(c, r)) \/ OnReadError(c)
  \/ OnWrite(c) \/ OnWriteError(c) \/ OnShutdown(c)
  \/ Generate(c) \/ Verify(c) \/ CallThrows(c)

Next == \/ Run \/ ServiceStops \/ Stopped
        \/ \E c \in Conns : Connect(c) \/ Step(c)

Spec == Init /\ [][Next]_vars

(***************************************************************************)
(* Every handler that can run gets a thread in the end, and the token      *)
(* service serves every caller.  A browser may stall a handshake, a read   *)
(* or a write for ever, except after Close(), which sets a timeout.        *)
(***************************************************************************)
TimesOut(c) == session[c].closed /\ (OnReadError(c) \/ OnWriteError(c))

Fairness ==
  \A c \in Conns :
    /\ SF_vars(OnAccept(c) \/ OnAcceptError(c)) /\ SF_vars(OnShutdown(c))
    /\ WF_vars(Generate(c) \/ Verify(c) \/ CallThrows(c))
    /\ SF_vars(TimesOut(c))

FairSpec == Spec /\ Fairness

-----------------------------------------------------------------------------
(***************************************************************************)
(* Properties.                                                             *)
(***************************************************************************)

Sessions == [ops : SUBSET ({"run", "handshake", "read", "write"} \cup Calls),
             shutdowns : 0..2, refs : Nat, closed : BOOLEAN, req : Requests, res : Responses,
             late : Nat]

\* The type invariant.  At most two shutdowns are pending at a time, because
\* OnWrite() reads on after Close() and OnRead() may close again.
TypeOK ==
  /\ server \in {"boot", "running", "exited", "terminated"}
  /\ accepting \in BOOLEAN
  /\ conn \in [Conns -> {"none", "waiting", "open"}]
  /\ session \in [Conns -> Sessions]
  /\ up \in BOOLEAN /\ issued \in BOOLEAN

\* A session does one thing at a time: it reads, handles a request or writes
\* the response to that request, and m_req is left alone until it is written.
OneRequestAtATime ==
  \A c \in Conns :
    /\ \A a, b \in session[c].ops : a = b
    /\ "write" \in session[c].ops => session[c].res.keepAlive = session[c].req.keepAlive

\* The read that follows Close() lets at most one more request be handled.
AtMostOneLateRequest == \A c \in Conns : session[c].late <= 1

\* A session lives as long as something is pending on it: none of its handlers
\* runs after it is destroyed, and it is destroyed after the last of them.
SessionReleased ==
  \A c \in Conns : (conn[c] = "open") <=> (session[c].ops # {} \/ session[c].shutdowns > 0)

\* Access to the data is granted only after a token was issued, and only to a
\* request that carries it.
DataOnlyWithToken ==
  \A c \in Conns : "write" \in session[c].ops /\ session[c].res.body = "data"
                     => issued /\ session[c].req.token = "issued"

\* What holds of a session at any time.  Nothing is pending twice, and Close()
\* is what starts a shutdown; after it a read follows once, so that one request
\* is handled late and one more shutdown started at most.
SessionInv(s) ==
  /\ \A a, b \in s.ops : a = b
  /\ s.refs = s.shutdowns + (IF s.ops = {} THEN 0 ELSE 1)
  /\ ~s.closed => s.shutdowns = 0 /\ s.late = 0
  /\ s.late <= 1
  /\ s.closed /\ "read" \in s.ops => s.shutdowns <= 1 /\ s.late = 0
  /\ s.closed => "run" \notin s.ops /\ "handshake" \notin s.ops
  /\ "write" \in s.ops => s.res.keepAlive = s.req.keepAlive
  /\ "write" \in s.ops /\ s.res.body = "data" => s.req.token = "issued"

\* A token that some request carries was issued before.
TokenInv == \A c \in Conns : session[c].req.token = "issued" => issued

\* The inductive invariant of the server.
IInv ==
  TypeOK /\ SessionReleased /\ TokenInv /\ \A c \in Conns : SessionInv(session[c])

\* Every browser that connects is accepted or turned away, whatever the other
\* sessions do, as long as the server runs.
ConnectionAccepted ==
  \A c \in Conns : (conn[c] = "waiting") ~> (conn[c] # "waiting" \/ server # "running")

\* A connection that the server closes is released, although it is read again.
ClosedIsReleased ==
  \A c \in Conns : session[c].closed ~> (conn[c] # "open" \/ server # "running")

\* A request that finds the token service unavailable is answered with a
\* message: the web server outlives the token service.
SurvivesServiceLoss == server # "terminated"
=============================================================================
