-------------------------- MODULE WebServerProofs --------------------------
(***************************************************************************)
(* Theorems about the web server of examples/jwt, for any number of        *)
(* connections and threads, any traffic, and a token service that may stop.*)
(* A completion handler ends in Leave(): its lemma says once what a handler *)
(* has to show of the session it leaves.                                   *)
(***************************************************************************)
EXTENDS WebServer, TLAPS

\* What m_req and the response are before anything was read.
LEMMA Blank ==
  /\ NoRequest \in Requests /\ NoRequest.token = "none"
  /\ NoResponse \in Responses
<1>1. NoRequest \in Requests /\ NoRequest.token = "none"
  BY DEF NoRequest, Requests, Targets
<1>2. NoResponse \in Responses
  BY DEF NoResponse, NoRequest, Reply, Responses, Statuses
<1> QED BY <1>1, <1>2

\* A session that does not exist is as good as any.
LEMMA NoSessionInv ==
  NoSession \in Sessions /\ SessionInv(NoSession) /\ NoSession.req.token # "issued"
<1>1. NoSession \in Sessions
  BY Blank DEF NoSession, Sessions, Calls
<1> QED
  BY <1>1, Blank DEF NoSession, SessionInv

\* The server starts without sessions.
LEMMA InitIInv == Init => IInv
<1> SUFFICES ASSUME Init PROVE IInv
  OBVIOUS
<1>1. \A c \in Conns : session[c] = NoSession /\ conn[c] = "none"
  BY DEF Init
<1>2. TypeOK
  BY NoSessionInv DEF Init, TypeOK
<1>3. SessionReleased
  BY <1>1 DEF SessionReleased, NoSession
<1> QED
  BY <1>1, <1>2, <1>3, NoSessionInv DEF IInv, TokenInv

\* Only an open connection has pending operations.
LEMMA PendingMeansOpen ==
  ASSUME IInv, NEW c \in Conns, session[c].ops # {} \/ session[c].shutdowns > 0
  PROVE  conn[c] = "open"
  BY DEF IInv, SessionReleased

\* A handler that leaves a proper session keeps the invariant: the others are
\* not touched, and a session without pending operations goes with its connection.
LEMMA LeaveKeeps ==
  ASSUME IInv, NEW c \in Conns, conn[c] = "open",
         NEW s \in Sessions, SessionInv(s), Leave(c, s),
         s.req.token = "issued" => issued',
         issued => issued', issued' \in BOOLEAN,
         UNCHANGED <<server, accepting, up>>
  PROVE  IInv'
<1> DEFINE gone == [NoSession EXCEPT !.ops = s.ops, !.shutdowns = s.shutdowns]
           left == IF s.refs = 0 THEN NoSession ELSE s
<1>0. /\ s.shutdowns \in Nat /\ (s.refs = 0 <=> s.ops = {} /\ s.shutdowns = 0)
      /\ DOMAIN NoSession = {"ops", "shutdowns", "refs", "closed", "req", "res", "late"}
      /\ NoSession.ops = {} /\ NoSession.shutdowns = 0
  BY DEF Sessions, SessionInv, NoSession
<1>g. s.refs = 0 => gone = NoSession
  BY <1>0, NoSessionInv DEF Sessions
<1>l. /\ session' = [session EXCEPT ![c] = left]
      /\ conn' = [conn EXCEPT ![c] = IF s.refs = 0 THEN "none" ELSE @]
  BY <1>g, Zenon DEF Leave
<1>m. left \in Sessions /\ (left = NoSession \/ left = s)
  BY NoSessionInv
<1>n. left.ops # {} \/ left.shutdowns > 0 <=> s.refs # 0
  BY <1>0
<1> HIDE DEF left, gone
<1>1. session' \in [Conns -> Sessions] /\ conn' \in [Conns -> {"none", "waiting", "open"}]
  BY <1>l, <1>m DEF IInv, TypeOK
<1>2. TypeOK'
  BY <1>1 DEF IInv, TypeOK
<1>3. SessionReleased'
  BY <1>l, <1>n DEF IInv, TypeOK, SessionReleased
<1>4. \A d \in Conns :
        session'[d] = session[d] \/ session'[d] = NoSession \/ (d = c /\ session'[d] = s)
  BY <1>l, <1>m DEF IInv, TypeOK
<1>5. \A d \in Conns : SessionInv(session'[d])
  BY <1>4, NoSessionInv DEF IInv
<1>6. TokenInv'
  BY <1>4, NoSessionInv DEF IInv, TokenInv
<1> QED BY <1>2, <1>3, <1>5, <1>6 DEF IInv

\* The only pending operation besides shutdowns is the one that completes.
LEMMA OnlyOperation ==
  ASSUME IInv, NEW c \in Conns, NEW op, op \in session[c].ops
  PROVE  /\ session[c] \in Sessions /\ SessionInv(session[c])
         /\ session[c].ops = {op} /\ conn[c] = "open"
         /\ session[c].req.token = "issued" => issued
  BY DEF IInv, TypeOK, SessionReleased, TokenInv, SessionInv

\* An operation is started on a session that waits for none.
LEMMA BeginKeeps ==
  ASSUME NEW s \in Sessions, s.ops = {},
         NEW op \in {"run", "handshake", "read", "write"} \cup Calls
  PROVE  /\ Begin(s, op) \in Sessions /\ Begin(s, op).ops = {op}
         /\ Begin(s, op).refs = s.refs + 1 /\ Begin(s, op).shutdowns = s.shutdowns
         /\ Begin(s, op).req = s.req /\ Begin(s, op).res = s.res
         /\ Begin(s, op).late = s.late /\ Begin(s, op).closed = s.closed
<1> DEFINE t == [s EXCEPT !.ops = {op}]
<1>1. /\ t \in Sessions /\ t.ops = {op} /\ t.refs = s.refs /\ t.shutdowns = s.shutdowns
      /\ t.req = s.req /\ t.res = s.res /\ t.late = s.late
  BY DEF Sessions
<1>2. t.closed = s.closed
  BY DEF Sessions
<1>3. Begin(s, op) = [t EXCEPT !.refs = @ + 1]
  BY DEF Begin, Sessions
<1> HIDE DEF t
<1>4. /\ Begin(s, op) \in Sessions /\ Begin(s, op).ops = t.ops
      /\ Begin(s, op).refs = t.refs + 1 /\ Begin(s, op).shutdowns = t.shutdowns
      /\ Begin(s, op).req = t.req /\ Begin(s, op).res = t.res
      /\ Begin(s, op).late = t.late
  BY <1>1, <1>3 DEF Sessions
<1>5. Begin(s, op).closed = t.closed
  BY <1>1, <1>3 DEF Sessions
<1> QED BY <1>1, <1>2, <1>4, <1>5

\* An operation completes and its session waits for no other.
LEMMA WithoutKeeps ==
  ASSUME NEW s \in Sessions, SessionInv(s), NEW op, s.ops = {op}
  PROVE  /\ Without(s, op) \in Sessions /\ SessionInv(Without(s, op))
         /\ Without(s, op).ops = {} /\ Without(s, op).refs = s.shutdowns
         /\ Without(s, op).shutdowns = s.shutdowns
         /\ Without(s, op).req = s.req /\ Without(s, op).res = s.res
         /\ Without(s, op).late = s.late /\ Without(s, op).closed = s.closed
<1> DEFINE t == [s EXCEPT !.ops = {}]
<1>0. s.refs - 1 = s.shutdowns /\ s.shutdowns \in Nat
  BY DEF Sessions, SessionInv
<1>1. /\ t \in Sessions /\ t.ops = {} /\ t.refs = s.refs /\ t.shutdowns = s.shutdowns
      /\ t.req = s.req /\ t.res = s.res /\ t.late = s.late
  BY DEF Sessions
<1>2. t.closed = s.closed
  BY DEF Sessions
<1>3. Without(s, op) = [t EXCEPT !.refs = s.shutdowns]
  BY <1>0 DEF Without, Sessions
<1> HIDE DEF t
<1>4. /\ Without(s, op) \in Sessions /\ Without(s, op).ops = t.ops
      /\ Without(s, op).refs = s.shutdowns /\ Without(s, op).shutdowns = t.shutdowns
      /\ Without(s, op).req = t.req /\ Without(s, op).res = t.res
      /\ Without(s, op).late = t.late
  BY <1>0, <1>1, <1>3 DEF Sessions
<1>5. Without(s, op).closed = t.closed
  BY <1>1, <1>3 DEF Sessions
<1>6. SessionInv(Without(s, op))
  BY <1>0, <1>1, <1>2, <1>4, <1>5 DEF SessionInv
<1> QED BY <1>1, <1>2, <1>4, <1>5, <1>6

\* The requests that HandleRequest() answers itself are answered properly.
LEMMA HandleRequestReplies ==
  ASSUME NEW r \in Requests
  PROVE  /\ HandleRequest(r) \in Responses
         /\ HandleRequest(r).keepAlive = r.keepAlive /\ HandleRequest(r).body # "data"
<1>1. ASSUME NEW status \in Statuses, NEW body \in {"file", "why"}
      PROVE  /\ Reply(r, status, body) \in Responses
             /\ Reply(r, status, body).keepAlive = r.keepAlive
             /\ Reply(r, status, body).body # "data"
  BY DEF Reply, Responses, Requests
<1>2. \E status \in Statuses, body \in {"file", "why"} :
        HandleRequest(r) = Reply(r, status, body)
  BY DEF HandleRequest, AllRequestHandler, Statuses
<1> QED BY <1>1, <1>2

\* Read() on a session that waits for no operation and has had no request since
\* it was closed.
LEMMA ReadKeeps ==
  ASSUME NEW s \in Sessions, SessionInv(s), s.ops = {}, s.late = 0, s.shutdowns <= 1
  PROVE  Read(s) \in Sessions /\ SessionInv(Read(s)) /\ Read(s).req.token # "issued"
<1> DEFINE t == Begin(s, "read")
<1>0. /\ t \in Sessions /\ t.ops = {"read"} /\ t.refs = s.shutdowns + 1
      /\ t.shutdowns = s.shutdowns /\ t.late = s.late /\ t.closed = s.closed
  BY BeginKeeps DEF SessionInv, Sessions
<1>r. Read(s) = [t EXCEPT !.req = NoRequest, !.res = NoResponse]
  BY Zenon DEF Read
<1> HIDE DEF t
<1>1. /\ Read(s).ops = {"read"} /\ Read(s).shutdowns = s.shutdowns
      /\ Read(s).refs = s.shutdowns + 1
      /\ Read(s).req = NoRequest /\ Read(s).res = NoResponse /\ Read(s).late = s.late
  BY <1>0, <1>r DEF Sessions
<1>2. Read(s).closed = s.closed
  BY <1>0, <1>r DEF Sessions
<1>3. Read(s) \in Sessions
  BY <1>0, <1>r, Blank DEF Sessions
<1>4. SessionInv(Read(s))
  BY <1>1, <1>2 DEF SessionInv
<1> QED BY <1>1, <1>3, <1>4, Blank

\* One shutdown more is still a session.
LEMMA CloseIsSession ==
  ASSUME NEW s \in Sessions, s.shutdowns <= 1
  PROVE  Close(s) \in Sessions
<1> DEFINE u == [s EXCEPT !.shutdowns = @ + 1]
           t == [u EXCEPT !.refs = @ + 1]
<1>0. u \in Sessions
  BY DEF Sessions
<1>1. t \in Sessions
  <2> HIDE DEF u
  <2> QED BY <1>0 DEF Sessions
<1>2. Close(s) = [t EXCEPT !.closed = TRUE]
  BY DEF Close, Sessions
<1> HIDE DEF t
<1>3. [t EXCEPT !.closed = TRUE] \in Sessions
  BY <1>1 DEF Sessions
<1> QED BY <1>2, <1>3

\* Close() on a session that waits for no operation.
LEMMA CloseKeeps ==
  ASSUME NEW s \in Sessions, SessionInv(s), s.ops = {}, s.shutdowns <= 1
  PROVE  /\ Close(s) \in Sessions /\ SessionInv(Close(s))
         /\ Close(s).ops = {} /\ Close(s).shutdowns = s.shutdowns + 1
         /\ Close(s).req = s.req /\ Close(s).late = s.late
<1>1. /\ Close(s).ops = s.ops /\ Close(s).shutdowns = s.shutdowns + 1
      /\ Close(s).refs = s.refs + 1
      /\ Close(s).req = s.req /\ Close(s).res = s.res /\ Close(s).late = s.late
  BY DEF Close, Sessions
<1>2. Close(s).closed
  BY DEF Close, Sessions
<1>3. Close(s) \in Sessions
  BY CloseIsSession
<1>4. SessionInv(Close(s))
  <2>1. s.refs = s.shutdowns /\ s.shutdowns \in Nat
    BY DEF SessionInv, Sessions
  <2> QED BY <1>1, <1>2, <2>1 DEF SessionInv
<1> QED BY <1>1, <1>3, <1>4

\* OnRun() and OnHandshake().
LEMMA OpeningKeeps ==
  ASSUME IInv, NEW c \in Conns, OnRun(c) \/ OnHandshake(c)
  PROVE  IInv'
<1>1. CASE OnRun(c)
  <2> DEFINE t == Without(session[c], "run")
             s == Begin(t, "handshake")
  <2>1. "run" \in session[c].ops /\ Leave(c, s) /\ UNCHANGED <<server, accepting, up, issued>>
    BY <1>1 DEF OnRun, Completes
  <2>0. /\ session[c] \in Sessions /\ SessionInv(session[c])
        /\ session[c].ops = {"run"} /\ ~session[c].closed
    BY <2>1, OnlyOperation DEF SessionInv
  <2>t. /\ t \in Sessions /\ t.ops = {} /\ t.refs = 0 /\ t.shutdowns = 0 /\ t.late = 0
        /\ ~t.closed /\ t.req = session[c].req
    BY <2>0, WithoutKeeps DEF SessionInv
  <2> HIDE DEF t
  <2>2. s \in Sessions /\ SessionInv(s) /\ s.req = session[c].req
    BY <2>t, BeginKeeps DEF SessionInv
  <2> QED BY <2>1, <2>2, OnlyOperation, LeaveKeeps DEF IInv, TypeOK
<1>2. CASE OnHandshake(c)
  <2> DEFINE s == Without(session[c], "handshake")
  <2>1. /\ "handshake" \in session[c].ops /\ UNCHANGED <<server, accepting, up, issued>>
        /\ Leave(c, s) \/ Leave(c, Read(s))
    BY <1>2 DEF OnHandshake, Completes
  <2>2. s \in Sessions /\ SessionInv(s) /\ s.req = session[c].req
    BY <2>1, OnlyOperation, WithoutKeeps
  <2>3. Read(s) \in Sessions /\ SessionInv(Read(s)) /\ Read(s).req.token # "issued"
    <3>1. s.ops = {} /\ s.late = 0 /\ s.shutdowns <= 1
      BY <2>1, OnlyOperation, WithoutKeeps DEF SessionInv
    <3> QED BY <2>2, <3>1, ReadKeeps
  <2> QED BY <2>1, <2>2, <2>3, OnlyOperation, LeaveKeeps DEF IInv, TypeOK
<1> QED BY <1>1, <1>2

\* OnRead(): a request is handled, or passed to the token service.
LEMMA OnReadKeeps ==
  ASSUME IInv, NEW c \in Conns, NEW r \in Traffic, OnRead(c, r)
  PROVE  IInv'
<1> DEFINE s == [Without(session[c], "read") EXCEPT
                   !.req = r, !.late = IF session[c].closed THEN @ + 1 ELSE @]
           writing == SendResponse(s, HandleRequest(r))
<1>1. /\ "read" \in session[c].ops /\ UNCHANGED <<server, accepting, up, issued>>
      /\ r.token = "issued" => issued
      /\ r \in Requests
      /\ \/ \E call \in CallFor(r) : Leave(c, Begin(s, call))
         \/ Leave(c, writing)
  BY WebServerAssumption DEF OnRead, Completes
<1>2. /\ session[c] \in Sessions /\ SessionInv(session[c])
      /\ session[c].ops = {"read"} /\ conn[c] = "open"
  BY <1>1, OnlyOperation
<1>3. /\ s \in Sessions /\ s.ops = {} /\ s.req = r /\ s.refs = s.shutdowns
      /\ ~s.closed => s.shutdowns = 0 /\ s.late = 0
      /\ s.late <= 1 /\ s.shutdowns <= 2
      /\ s.closed => s.late = 1
  <2> DEFINE w == Without(session[c], "read")
  <2>1. w \in Sessions /\ w.ops = {} /\ w.refs = session[c].shutdowns
    BY <1>2, WithoutKeeps
  <2>2. w.shutdowns = session[c].shutdowns /\ w.late = session[c].late
    BY <1>2, WithoutKeeps
  <2>3. w.closed = session[c].closed
    BY <1>2, WithoutKeeps
  <2> HIDE DEF w
  <2>s. s = [w EXCEPT !.req = r, !.late = IF session[c].closed THEN @ + 1 ELSE @]
    BY Zenon DEF w
  <2> HIDE DEF s
  <2>4. /\ s.ops = {} /\ s.req = r /\ s.shutdowns = session[c].shutdowns
        /\ s.refs = session[c].shutdowns
        /\ s.late = IF session[c].closed THEN session[c].late + 1 ELSE session[c].late
    BY <2>1, <2>2, <2>s DEF Sessions
  <2>5. s.closed = session[c].closed
    BY <2>1, <2>3, <2>s DEF Sessions
  <2>6. s \in Sessions
    <3>1. (IF session[c].closed THEN w.late + 1 ELSE w.late) \in Nat
      BY <2>1 DEF Sessions
    <3> QED BY <1>1, <2>1, <2>s, <3>1 DEF Sessions
  <2> QED BY <1>2, <2>4, <2>5, <2>6 DEF SessionInv, Sessions
<1> HIDE DEF s
<1>4. CallFor(r) \subseteq Calls
  BY DEF CallFor, Calls
<1>5. ASSUME NEW call \in Calls
      PROVE  Begin(s, call) \in Sessions /\ SessionInv(Begin(s, call)) /\ Begin(s, call).req = r
  <2>1. /\ Begin(s, call) \in Sessions /\ Begin(s, call).ops = {call}
        /\ Begin(s, call).refs = s.shutdowns + 1 /\ Begin(s, call).shutdowns = s.shutdowns
        /\ Begin(s, call).req = r /\ Begin(s, call).late = s.late
        /\ Begin(s, call).closed = s.closed
    BY <1>3, BeginKeeps
  <2>2. call \notin {"run", "handshake", "read", "write"}
    BY DEF Calls
  <2> QED BY <1>3, <2>1, <2>2 DEF SessionInv
<1>6. writing \in Sessions /\ SessionInv(writing) /\ writing.req = r
  <2> DEFINE t == Begin(s, "write")
  <2>0. /\ t \in Sessions /\ t.ops = {"write"} /\ t.refs = s.shutdowns + 1
        /\ t.shutdowns = s.shutdowns /\ t.req = r /\ t.late = s.late /\ t.closed = s.closed
    BY <1>3, BeginKeeps
  <2>w. writing = [t EXCEPT !.res = HandleRequest(r)]
    BY Zenon DEF SendResponse
  <2> HIDE DEF t, writing
  <2>1. /\ writing.ops = {"write"} /\ writing.shutdowns = s.shutdowns
        /\ writing.refs = s.shutdowns + 1
        /\ writing.req = r /\ writing.res = HandleRequest(r) /\ writing.late = s.late
    BY <2>0, <2>w DEF Sessions
  <2>2. writing.closed = s.closed
    BY <2>0, <2>w DEF Sessions
  <2>3. writing \in Sessions
    BY <1>1, <2>0, <2>w, HandleRequestReplies DEF Sessions
  <2> QED BY <1>1, <1>3, <2>1, <2>2, <2>3, HandleRequestReplies DEF SessionInv
<1> QED BY <1>1, <1>2, <1>4, <1>5, <1>6, LeaveKeeps DEF IInv, TypeOK

\* OnRead() with an error, OnWrite() and OnShutdown().
LEMMA ClosingKeeps ==
  ASSUME IInv, NEW c \in Conns,
         OnReadError(c) \/ OnWrite(c) \/ OnWriteError(c) \/ OnShutdown(c)
  PROVE  IInv'
<1>1. CASE OnReadError(c)
  <2> DEFINE s == Without(session[c], "read")
  <2>1. /\ "read" \in session[c].ops /\ UNCHANGED <<server, accepting, up, issued>>
        /\ Leave(c, s) \/ Leave(c, Close(s))
    BY <1>1 DEF OnReadError, Completes
  <2>2. s \in Sessions /\ SessionInv(s) /\ s.req = session[c].req
    BY <2>1, OnlyOperation, WithoutKeeps DEF Sessions, SessionInv
  <2>3. Close(s) \in Sessions /\ SessionInv(Close(s)) /\ Close(s).req = session[c].req
    <3>1. s.ops = {} /\ s.shutdowns <= 1
      BY <2>1, OnlyOperation, WithoutKeeps DEF Sessions, SessionInv
    <3> QED BY <2>2, <3>1, CloseKeeps
  <2> QED BY <2>1, <2>2, <2>3, OnlyOperation, LeaveKeeps DEF IInv, TypeOK
<1>2. CASE OnWrite(c)
  <2> DEFINE s == Without(session[c], "write")
             t == IF s.res.keepAlive THEN s ELSE Close(s)
  <2>1. /\ "write" \in session[c].ops /\ ~session[c].closed /\ Leave(c, Read(t))
        /\ UNCHANGED <<server, accepting, up, issued>>
    BY <1>2 DEF OnWrite, Completes
  <2>2. s \in Sessions /\ SessionInv(s) /\ s.ops = {} /\ s.late = 0 /\ s.shutdowns = 0
    BY <2>1, OnlyOperation, WithoutKeeps DEF Sessions, SessionInv
  <2>3. t \in Sessions /\ SessionInv(t) /\ t.ops = {} /\ t.late = 0 /\ t.shutdowns <= 1
    BY <2>2, CloseKeeps
  <2>4. Read(t) \in Sessions /\ SessionInv(Read(t)) /\ Read(t).req.token # "issued"
    BY <2>3, ReadKeeps
  <2> QED BY <2>1, <2>4, OnlyOperation, LeaveKeeps DEF IInv, TypeOK
<1>3. CASE OnWriteError(c)
  <2> DEFINE s == Without(session[c], "write")
  <2>1. /\ "write" \in session[c].ops /\ Leave(c, s)
        /\ UNCHANGED <<server, accepting, up, issued>>
    BY <1>3 DEF OnWriteError, Completes
  <2>2. s \in Sessions /\ SessionInv(s) /\ s.req = session[c].req
    BY <2>1, OnlyOperation, WithoutKeeps DEF Sessions, SessionInv
  <2> QED BY <2>1, <2>2, OnlyOperation, LeaveKeeps DEF IInv, TypeOK
<1>4. CASE OnShutdown(c)
  <2> DEFINE s == [session[c] EXCEPT !.shutdowns = @ - 1, !.refs = @ - 1]
  <2>1. /\ session[c].shutdowns > 0 /\ Leave(c, s)
        /\ UNCHANGED <<server, accepting, up, issued>>
    BY <1>4 DEF OnShutdown
  <2>2. session[c] \in Sessions /\ SessionInv(session[c]) /\ conn[c] = "open"
    BY <2>1 DEF IInv, TypeOK, SessionReleased
  <2>3. s \in Sessions /\ SessionInv(s) /\ s.req = session[c].req
    <3> DEFINE x == session[c]
    <3>0. x \in Sessions /\ SessionInv(x) /\ x.shutdowns \in 1..2 /\ x.refs \in Nat
          /\ x.refs = x.shutdowns + (IF x.ops = {} THEN 0 ELSE 1)
      BY <2>1, <2>2 DEF Sessions, SessionInv
    <3> HIDE DEF x
    <3> DEFINE y == [x EXCEPT !.refs = @ - 1]
    <3>s. s = [y EXCEPT !.shutdowns = @ - 1]
      BY <3>0 DEF x, Sessions
    <3> HIDE DEF s
    <3>1. /\ y \in Sessions /\ y.shutdowns = x.shutdowns /\ y.refs = x.refs - 1
          /\ y.ops = x.ops /\ y.req = x.req /\ y.res = x.res
          /\ y.late = x.late /\ y.closed = x.closed
      BY <3>0 DEF Sessions
    <3> HIDE DEF y
    <3>2. s \in Sessions
      <4>1. y.shutdowns - 1 \in 0..2
        BY <3>0, <3>1
      <4> QED BY <3>1, <3>s, <4>1 DEF Sessions
    <3>3. /\ s.ops = x.ops /\ s.shutdowns = x.shutdowns - 1 /\ s.refs = x.refs - 1
          /\ s.req = x.req /\ s.res = x.res /\ s.late = x.late
      BY <3>0, <3>1, <3>s DEF Sessions
    <3>4. s.closed = x.closed
      BY <3>1, <3>s DEF Sessions
    <3>5. SessionInv(s)
      BY <3>0, <3>3, <3>4 DEF SessionInv
    <3> QED BY <3>2, <3>3, <3>5 DEF x
  <2> QED BY <2>1, <2>2, <2>3, LeaveKeeps DEF IInv, TypeOK, TokenInv
<1> QED BY <1>1, <1>2, <1>3, <1>4

\* The token service answers, and the handler sends its response.
LEMMA RespondKeeps ==
  ASSUME IInv, NEW c \in Conns, NEW call, NEW body \in {"token", "empty", "data", "wrong token"},
         Respond(c, call, body), call \in Calls, issued => issued', issued' \in BOOLEAN,
         body = "data" => session[c].req.token = "issued"
  PROVE  IInv'
<1> DEFINE t == Without(session[c], call)
           s == SendResponse(t, Reply(t.req, "ok", body))
<1>1. call \in session[c].ops /\ Leave(c, s) /\ UNCHANGED <<server, accepting, up>>
  BY DEF Respond
<1>2. /\ session[c] \in Sessions /\ SessionInv(session[c]) /\ session[c].ops = {call}
      /\ conn[c] = "open" /\ (session[c].req.token = "issued" => issued)
  BY <1>1, OnlyOperation
<1>3. /\ t \in Sessions /\ SessionInv(t) /\ t.ops = {} /\ t.refs = t.shutdowns
      /\ t.req = session[c].req
  BY <1>2, WithoutKeeps
<1>4. /\ Reply(t.req, "ok", body) \in Responses
      /\ Reply(t.req, "ok", body).keepAlive = t.req.keepAlive
      /\ Reply(t.req, "ok", body).body = body
  BY <1>3 DEF Reply, Responses, Statuses, Sessions, Requests
<1>5. s \in Sessions /\ SessionInv(s) /\ s.req = session[c].req
  <2> DEFINE u == Begin(t, "write")
             answer == Reply(t.req, "ok", body)
  <2> HIDE DEF t, answer
  <2>w. "write" \in {"run", "handshake", "read", "write"} \cup Calls
    OBVIOUS
  <2>0. /\ u \in Sessions /\ u.ops = {"write"} /\ u.refs = t.shutdowns + 1
        /\ u.shutdowns = t.shutdowns /\ u.req = t.req /\ u.late = t.late /\ u.closed = t.closed
    BY <1>3, <2>w, BeginKeeps
  <2>s. s = [u EXCEPT !.res = answer]
    BY Zenon DEF SendResponse, answer
  <2> HIDE DEF u, s
  <2>a. answer \in Responses /\ answer.keepAlive = t.req.keepAlive /\ answer.body = body
    BY <1>4 DEF answer
  <2>1. /\ s.ops = {"write"} /\ s.shutdowns = t.shutdowns /\ s.refs = t.shutdowns + 1
        /\ s.req = t.req /\ s.res = answer /\ s.late = t.late
    BY <2>0, <2>s DEF Sessions
  <2>2. s.closed = t.closed
    BY <2>0, <2>s DEF Sessions
  <2>3. s \in Sessions
    BY <2>0, <2>a, <2>s DEF Sessions
  <2> QED BY <1>3, <2>a, <2>1, <2>2, <2>3 DEF SessionInv
<1> QED BY <1>1, <1>2, <1>5, LeaveKeeps

\* Steps that touch no session: start, accept, and the end of a program.
LEMMA OutsideKeeps ==
  ASSUME IInv, \/ Run \/ ServiceStops \/ Stopped
               \/ \E c \in Conns : \/ Connect(c) \/ OnAccept(c) \/ OnAcceptError(c)
                                   \/ CallThrows(c)
  PROVE  IInv'
<1>1. CASE Run \/ ServiceStops \/ Stopped \/ \E c \in Conns : CallThrows(c)
  BY <1>1 DEF Run, ServiceStops, Stopped, CallThrows, vars, IInv, TypeOK,
              SessionReleased, TokenInv
<1>2. ASSUME NEW c \in Conns, Connect(c) \/ OnAcceptError(c) PROVE IInv'
  BY <1>2 DEF Connect, OnAcceptError, IInv, TypeOK, SessionReleased, TokenInv
<1>3. ASSUME NEW c \in Conns, OnAccept(c) PROVE IInv'
  <2> DEFINE s == Begin(NoSession, "run")
  <2>1. /\ session' = [session EXCEPT ![c] = s] /\ conn' = [conn EXCEPT ![c] = "open"]
        /\ accepting' = TRUE /\ UNCHANGED <<server, up, issued>>
    BY <1>3 DEF OnAccept
  <2>2. s \in Sessions /\ SessionInv(s) /\ s.req.token # "issued" /\ s.ops # {}
    <3>1. /\ NoSession \in Sessions /\ NoSession.ops = {} /\ NoSession.refs = 0
          /\ NoSession.shutdowns = 0 /\ NoSession.late = 0 /\ ~NoSession.closed
          /\ NoSession.req.token # "issued"
      BY NoSessionInv DEF NoSession
    <3> QED BY <3>1, BeginKeeps DEF SessionInv
  <2> HIDE DEF s
  <2>3. TypeOK'
    BY <2>1, <2>2 DEF IInv, TypeOK
  <2>4. \A d \in Conns : session'[d] = IF d = c THEN s ELSE session[d]
    BY <2>1 DEF IInv, TypeOK
  <2>5. SessionReleased'
    BY <2>1, <2>2, <2>4 DEF IInv, TypeOK, SessionReleased
  <2>6. TokenInv' /\ \A d \in Conns : SessionInv(session'[d])
    BY <2>1, <2>2, <2>4 DEF IInv, TokenInv
  <2> QED BY <2>3, <2>5, <2>6 DEF IInv
<1> QED BY <1>1, <1>2, <1>3


\* Every step keeps the invariant.
LEMMA StepIInv == IInv /\ [Next]_vars => IInv'
<1> SUFFICES ASSUME IInv, [Next]_vars PROVE IInv'
  OBVIOUS
<1>1. CASE UNCHANGED vars
  BY <1>1 DEF vars, IInv, TypeOK, SessionReleased, TokenInv
<1>2. CASE Run \/ ServiceStops \/ Stopped \/ \E c \in Conns : Connect(c)
  BY <1>2, OutsideKeeps
<1>3. ASSUME NEW c \in Conns, Step(c) PROVE IInv'
  <2>1. CASE OnAccept(c) \/ OnAcceptError(c) \/ CallThrows(c)
    BY <2>1, OutsideKeeps
  <2>2. CASE OnRun(c) \/ OnHandshake(c)
    BY <2>2, OpeningKeeps
  <2>3. CASE \E r \in Traffic : OnRead(c, r)
    BY <2>3, OnReadKeeps
  <2>4. CASE OnReadError(c) \/ OnWrite(c) \/ OnWriteError(c) \/ OnShutdown(c)
    BY <2>4, ClosingKeeps
  <2>5. CASE Generate(c)
    <3>1. CASE Respond(c, "Generate", "token") /\ issued' = TRUE
      BY <3>1, RespondKeeps DEF Calls
    <3>2. CASE Respond(c, "Generate", "empty") /\ UNCHANGED issued
      BY <3>2, RespondKeeps DEF Calls, IInv, TypeOK
    <3> QED BY <2>5, <3>1, <3>2 DEF Generate
  <2>6. CASE Verify(c)
    <3>1. CASE /\ Accepts(session[c].req.token)
               /\ Respond(c, "Verify", "data") /\ UNCHANGED issued
      BY <3>1, RespondKeeps DEF Accepts, Calls, IInv, TypeOK
    <3>2. CASE Respond(c, "Verify", "wrong token") /\ UNCHANGED issued
      BY <3>2, RespondKeeps DEF Calls, IInv, TypeOK
    <3> QED BY <2>6, <3>1, <3>2 DEF Verify
  <2> QED BY <1>3, <2>1, <2>2, <2>3, <2>4, <2>5, <2>6 DEF Step
<1> QED BY <1>1, <1>2, <1>3 DEF Next

\* The invariant holds in every reachable state of the server.
THEOREM Invariance == Spec => []IInv
  BY InitIInv, StepIInv, PTL DEF Spec

\* The state keeps its type; in particular no connection ever has more than two
\* shutdowns pending, although OnWrite() reads on after Close().
THEOREM TypeCorrect == Spec => []TypeOK
<1>1. IInv => TypeOK
  BY DEF IInv
<1> QED BY <1>1, Invariance, PTL

\* The strand does one thing at a time: the read, the handler and the write of a
\* session never overlap, and a response keeps the connection alive exactly if the
\* request in m_req asks for that.
THEOREM OneRequest == Spec => []OneRequestAtATime
<1>1. IInv => OneRequestAtATime
  BY DEF IInv, SessionInv, OneRequestAtATime
<1> QED BY <1>1, Invariance, PTL

\* However the shutdown, its timeout and the read that OnWrite() starts after
\* Close() interleave, one request at most is handled on a closed connection.
THEOREM LateRequest == Spec => []AtMostOneLateRequest
<1>1. IInv => AtMostOneLateRequest
  BY DEF IInv, SessionInv, AtMostOneLateRequest
<1> QED BY <1>1, Invariance, PTL

\* A session lives exactly as long as its connection: the last completion handler
\* releases both, whichever handler that is.
THEOREM Released == Spec => []SessionReleased
<1>1. IInv => SessionReleased
  BY DEF IInv
<1> QED BY <1>1, Invariance, PTL

\* GetDataHandler grants the data only to a request with a token that
\* the token service issued.
THEOREM DataNeedsToken == Spec => []DataOnlyWithToken
<1>1. IInv => DataOnlyWithToken
  BY DEF IInv, SessionInv, TokenInv, DataOnlyWithToken
<1> QED BY <1>1, Invariance, PTL
=============================================================================
