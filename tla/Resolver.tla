------------------------------ MODULE Resolver ------------------------------
(***************************************************************************)
(* The NameResolver program of examples/c-ares (resolver/src/resolver.cpp, *)
(* resolver/src/main.cpp): class Resolver with its two threads.            *)
(*                                                                         *)
(*   "ipc"   the main thread.  It runs the kosipc event loop and executes  *)
(*           Resolve() for one client call at a time.                      *)
(*   "poll"  the thread started by the constructor.  It runs               *)
(*           ServeRequests(): drive c-ares while there are requests.       *)
(*                                                                         *)
(* A lookup request is one call of Resolve().  Every step below is a part  *)
(* of a function between two points where another thread can interfere:    *)
(* taking m_requestsGuard, taking the lock of the c-ares channel, sleeping *)
(* on m_hasRequests, poll(), and calling a client back.                    *)
(*                                                                         *)
(* The c-ares library is not part of the repository.  The code calls it    *)
(* from both threads with no lock of its own, so it is modelled as the     *)
(* thread-safe library this use needs: a (recursive) lock per channel that *)
(* is held during every call, the callbacks it makes included.             *)
(***************************************************************************)
EXTENDS Naturals

CONSTANTS
  Requests,     \* the calls of Resolve() the clients may make
  EmptyName,    \* those that pass an empty host name
  MayThrow,     \* those whose OnResolve() call may throw: the client is gone,
                \* or the name does not fit OnResolve's string<128>
  SyncStatus,   \* how ares_gethostbyname may complete before it returns
  MaxSocks      \* ARES_GETSOCK_MAXNUM

ASSUME ResolverAssumption ==
  /\ EmptyName \subseteq Requests
  /\ MayThrow \subseteq Requests
  /\ SyncStatus \subseteq {"success", "failed"}
  /\ MaxSocks \in Nat \ {0}
  /\ "none" \notin Requests

Threads  == {"ipc", "poll"}
Statuses == {"success", "failed"}

VARIABLES
  pc,          \* where each thread is
  req,         \* the request a thread is working on, or "none"
  status,      \* the status argument of a thread's OnResolved() call
  requests,    \* m_requests: the nodes in the list
  callbacks,   \* the nodes whose CallbackPtr is not null
  active,      \* m_active
  inflight,    \* queries pending in the c-ares channel
  channel,     \* lock of the channel: "free", a holder, or "leaked" by "ipc"
  descNum,     \* descriptors ServeRequests still has to process
  pollResult,  \* why ServeRequests calls the library
  asked,       \* requests for which Resolve() was entered
  rejected,    \* requests whose Resolve() call ended with an exception
  answered,    \* number of OnResolve() calls a client received per request
  misnamed     \* requests answered with a name that is not theirs

vars == <<pc, req, status, requests, callbacks, active, inflight, channel,
          descNum, pollResult, asked, rejected, answered, misnamed>>

Goto(t, label) == pc' = [pc EXCEPT ![t] = label]

(***************************************************************************)
(* m_hasRequests.notify_one(): only the poll thread ever waits.            *)
(***************************************************************************)
NotifyOne(t, label) ==
  pc' = [pc EXCEPT ![t] = label,
                   !["poll"] = IF @ = "asleep" THEN "woken" ELSE @]

Init ==
  /\ pc = [ipc |-> "boot", poll |-> "off"]
  /\ req = [t \in Threads |-> "none"]
  /\ status = [t \in Threads |-> "success"]
  /\ requests = {} /\ callbacks = {} /\ active = TRUE
  /\ inflight = {} /\ channel = "free"
  /\ descNum = 0 /\ pollResult = "timeout"
  /\ asked = {} /\ rejected = {}
  /\ answered = [r \in Requests |-> 0] /\ misnamed = {}

(***************************************************************************)
(* main() up to the event loop: the network comes up, the Resolver is      *)
(* constructed and its poll thread starts; or the program exits because    *)
(* wait_for_iface() or ares_init() failed.                                 *)
(***************************************************************************)
Boot ==
  /\ pc["ipc"] = "boot"
  /\ \/ pc' = [ipc |-> "idle", poll |-> "check"]
     \/ Goto("ipc", "exited")
  /\ UNCHANGED <<req, status, requests, callbacks, active, inflight, channel,
                 descNum, pollResult, asked, rejected, answered, misnamed>>

-----------------------------------------------------------------------------
(***************************************************************************)
(* The ipc thread.                                                         *)
(***************************************************************************)

\* Resolve() with an empty name throws invalid_argument before anything else.
ResolveEmpty(r) ==
  /\ pc["ipc"] = "idle" /\ r \notin asked
  /\ r \in EmptyName
  /\ asked' = asked \cup {r}
  /\ rejected' = rejected \cup {r}
  /\ UNCHANGED <<pc, req, status, requests, callbacks, active, inflight,
                 channel, descNum, pollResult, answered, misnamed>>

\* Resolve() and AddRequest() up to the unlock: the node is in the list.
AddRequest(r) ==
  /\ pc["ipc"] = "idle" /\ r \notin asked
  /\ r \notin EmptyName
  /\ asked' = asked \cup {r}
  /\ requests' = requests \cup {r}
  /\ callbacks' = callbacks \cup {r}
  /\ req' = [req EXCEPT !["ipc"] = r]
  /\ Goto("ipc", "submit")
  /\ UNCHANGED <<status, active, inflight, channel, descNum, pollResult,
                 rejected, answered, misnamed>>

\* OnResolved() up to the move of the callback out of the node, on thread t.
OnResolved(t, r, st) ==
  /\ callbacks' = callbacks \ {r}
  /\ req' = [req EXCEPT ![t] = r]
  /\ status' = [status EXCEPT ![t] = st]
  /\ Goto(t, "answer")

\* ares_gethostbyname() sends a query and returns.
SubmitAsync ==
  /\ pc["ipc"] = "submit" /\ channel \in {"free", "leaked"}
  /\ inflight' = inflight \cup {req["ipc"]}
  /\ Goto("ipc", "notify")
  /\ UNCHANGED <<req, status, requests, callbacks, active, channel, descNum,
                 pollResult, asked, rejected, answered, misnamed>>

\* ares_gethostbyname() knows the result at once (an address literal, a name
\* from the hosts file, a malformed name): it calls OnResolved() itself.
SubmitSync ==
  /\ pc["ipc"] = "submit" /\ channel \in {"free", "leaked"}
  /\ channel' = IF channel = "free" THEN "ipc" ELSE channel
  /\ \E st \in SyncStatus : OnResolved("ipc", req["ipc"], st)
  /\ UNCHANGED <<requests, active, inflight, descNum, pollResult, asked,
                 rejected, answered, misnamed>>

(***************************************************************************)
(* The client receives OnResolve().  On success the name is c-ares' own;   *)
(* on failure it is read from the node.  If the node has been erased this  *)
(* is a read of a dead object: the name may be anything.                   *)
(***************************************************************************)
OnResolve(t) ==
  /\ answered' = [answered EXCEPT ![req[t]] = @ + 1]
  /\ misnamed' \in IF status[t] = "failed" /\ req[t] \notin requests
                   THEN {misnamed, misnamed \cup {req[t]}}
                   ELSE {misnamed}

\* The rest of OnResolved() called by ares_gethostbyname(), which returns.
AnswerSync ==
  /\ pc["ipc"] = "answer"
  /\ OnResolve("ipc")
  /\ channel' = IF channel = "ipc" THEN "free" ELSE channel
  /\ Goto("ipc", "notify")
  /\ UNCHANGED <<req, status, requests, callbacks, active, inflight, descNum,
                 pollResult, asked, rejected>>

\* OnResolve() throws inside ares_gethostbyname(): the exception either cannot
\* leave the C library (std::terminate) or leaves it with its lock taken and
\* ends the Resolve() call before the notification.
AnswerSyncThrows ==
  /\ pc["ipc"] = "answer" /\ req["ipc"] \in MayThrow
  /\ \/ /\ pc' = [t \in Threads |-> "terminated"]
        /\ UNCHANGED <<req, channel, rejected>>
     \/ /\ Goto("ipc", "idle")
        /\ channel' = "leaked"
        /\ rejected' = rejected \cup {req["ipc"]}
        /\ req' = [req EXCEPT !["ipc"] = "none"]
  /\ UNCHANGED <<status, requests, callbacks, active, inflight, descNum,
                 pollResult, asked, answered, misnamed>>

\* Mistake: AddRequest() returns without a notification.
NotifyForgotten ==
  /\ pc["ipc"] = "notify"
  /\ Goto("ipc", "idle")
  /\ req' = [req EXCEPT !["ipc"] = "none"]
  /\ UNCHANGED <<status, requests, callbacks, active, inflight, channel,
                 descNum, pollResult, asked, rejected, answered, misnamed>>

\* AddRequest() notifies, Resolve() returns to the client.
Notify ==
  /\ pc["ipc"] = "notify"
  /\ NotifyOne("ipc", "idle")
  /\ req' = [req EXCEPT !["ipc"] = "none"]
  /\ UNCHANGED <<status, requests, callbacks, active, inflight, channel,
                 descNum, pollResult, asked, rejected, answered, misnamed>>

\* The event loop ended by an exception: ~Resolver() calls Shutdown() ...
Shutdown ==
  /\ pc["ipc"] = "idle"
  /\ active' = FALSE
  /\ Goto("ipc", "stopping")
  /\ UNCHANGED <<req, status, requests, callbacks, inflight, channel, descNum,
                 pollResult, asked, rejected, answered, misnamed>>

\* Mistake: Shutdown() does not notify.
ShutdownSilent ==
  /\ pc["ipc"] = "stopping"
  /\ Goto("ipc", "joining")
  /\ UNCHANGED <<req, status, requests, callbacks, active, inflight, channel,
                 descNum, pollResult, asked, rejected, answered, misnamed>>

\* ... which notifies after the unlock ...
ShutdownNotify ==
  /\ pc["ipc"] = "stopping"
  /\ NotifyOne("ipc", "joining")
  /\ UNCHANGED <<req, status, requests, callbacks, active, inflight, channel,
                 descNum, pollResult, asked, rejected, answered, misnamed>>

\* Mistake: the destructor does not join the poll thread.
DestroyWithoutJoin ==
  /\ pc["ipc"] = "joining"
  /\ Goto("ipc", "exited")
  /\ UNCHANGED <<req, status, requests, callbacks, active, inflight, channel,
                 descNum, pollResult, asked, rejected, answered, misnamed>>

\* ... and joins the poll thread before it destroys the channel.
Destroy ==
  /\ pc["ipc"] = "joining" /\ pc["poll"] = "exit"
  /\ Goto("ipc", "exited")
  /\ UNCHANGED <<req, status, requests, callbacks, active, inflight, channel,
                 descNum, pollResult, asked, rejected, answered, misnamed>>

-----------------------------------------------------------------------------
(***************************************************************************)
(* The poll thread: ServeRequests().                                       *)
(***************************************************************************)

\* How HasRequests() ends: its result decides between another round and the
\* end of the thread.
AfterHasRequests(left) == IF left = {} THEN "exit" ELSE "fill"

\* Mistake: the predicate of remove_if is inverted.
HasRequestsInverted ==
  /\ pc["poll"] = "check"
  /\ requests' = requests \ callbacks
  /\ Goto("poll", IF requests' = {} /\ active THEN "asleep"
                                    ELSE AfterHasRequests(requests'))
  /\ UNCHANGED <<req, status, callbacks, active, inflight, channel, descNum,
                 pollResult, asked, rejected, answered, misnamed>>

\* HasRequests() up to the wait: erase the answered nodes; sleep if none is
\* left and the resolver is active.
HasRequests ==
  /\ pc["poll"] = "check"
  /\ requests' = requests \cap callbacks
  /\ Goto("poll", IF requests' = {} /\ active THEN "asleep"
                                    ELSE AfterHasRequests(requests'))
  /\ UNCHANGED <<req, status, callbacks, active, inflight, channel, descNum,
                 pollResult, asked, rejected, answered, misnamed>>

\* A condition variable may wake up a waiting thread for no reason.
SpuriousWakeup ==
  /\ pc["poll"] = "asleep"
  /\ Goto("poll", "woken")
  /\ UNCHANGED <<req, status, requests, callbacks, active, inflight, channel,
                 descNum, pollResult, asked, rejected, answered, misnamed>>

\* The wait's predicate, evaluated again under the lock after a wakeup.
WaitPredicate ==
  /\ pc["poll"] = "woken"
  /\ Goto("poll", IF requests = {} /\ active THEN "asleep"
                                   ELSE AfterHasRequests(requests))
  /\ UNCHANGED <<req, status, requests, callbacks, active, inflight, channel,
                 descNum, pollResult, asked, rejected, answered, misnamed>>

\* Mistake: ServeRequests() does not look at the number of descriptors.
FillUnchecked ==
  /\ pc["poll"] = "fill" /\ channel = "free"
  /\ descNum' \in 0..MaxSocks
  /\ Goto("poll", "timeout")
  /\ UNCHANGED <<req, status, requests, callbacks, active, inflight, channel,
                 pollResult, asked, rejected, answered, misnamed>>

\* FillPollDescriptors(): the sockets of the pending queries (several queries
\* may share one), at most MaxSocks; with none, the loop starts over.
FillPollDescriptors ==
  /\ pc["poll"] = "fill" /\ channel = "free"
  /\ \/ /\ inflight = {}
        /\ descNum' = 0
        /\ Goto("poll", "check")
     \/ /\ inflight # {}
        /\ descNum' \in 1..MaxSocks
        /\ Goto("poll", "timeout")
  /\ UNCHANGED <<req, status, requests, callbacks, active, inflight, channel,
                 pollResult, asked, rejected, answered, misnamed>>

\* GetTimeout(): ares_timeout() computes the time to the earliest deadline.
\* It returns NULL, which the code dereferences, if no query is pending.
GetTimeout ==
  /\ pc["poll"] = "timeout" /\ channel = "free"
  /\ inflight # {}
  /\ Goto("poll", "poll")
  /\ UNCHANGED <<req, status, requests, callbacks, active, inflight, channel,
                 descNum, pollResult, asked, rejected, answered, misnamed>>

\* poll() returns: some descriptor is ready, the timeout expired, or an error.
Poll ==
  /\ pc["poll"] = "poll"
  /\ pollResult' \in {"ready", "timeout", "error"}
  /\ descNum' = IF pollResult' = "ready" THEN descNum ELSE 0
  /\ Goto("poll", "process")
  /\ UNCHANGED <<req, status, requests, callbacks, active, inflight, channel,
                 asked, rejected, answered, misnamed>>

\* ServeRequests() enters ares_process_fd(), for the next descriptor or for
\* none, or ares_cancel().
ProcessFd ==
  /\ pc["poll"] = "process" /\ channel = "free"
  /\ channel' = "poll"
  /\ descNum' = IF pollResult = "ready" THEN descNum - 1 ELSE descNum
  /\ Goto("poll", "inside")
  /\ UNCHANGED <<req, status, requests, callbacks, active, inflight,
                 pollResult, asked, rejected, answered, misnamed>>

\* The library ends a query: with an address only if it read a descriptor,
\* with a failure also when the query's tries are used up or cancelled.
CompleteQuery(r) ==
  /\ pc["poll"] = "inside" /\ r \in inflight
  /\ inflight' = inflight \ {r}
  /\ \E st \in Statuses : /\ st = "success" => pollResult = "ready"
                          /\ OnResolved("poll", r, st)
  /\ UNCHANGED <<requests, active, channel, descNum, pollResult, asked,
                 rejected, answered, misnamed>>

\* The rest of OnResolved() called by the library on the poll thread.
AnswerAsync ==
  /\ pc["poll"] = "answer"
  /\ OnResolve("poll")
  /\ Goto("poll", "inside")
  /\ UNCHANGED <<req, status, requests, callbacks, active, inflight, channel,
                 descNum, pollResult, asked, rejected>>

\* Mistake: an exception of OnResolve() is swallowed.
AnswerAsyncSwallows ==
  /\ pc["poll"] = "answer" /\ req["poll"] \in MayThrow
  /\ Goto("poll", "inside")
  /\ UNCHANGED <<req, status, requests, callbacks, active, inflight, channel,
                 descNum, pollResult, asked, rejected, answered, misnamed>>

\* Nothing on the poll thread catches an exception of OnResolve().
AnswerAsyncThrows ==
  /\ pc["poll"] = "answer" /\ req["poll"] \in MayThrow
  /\ pc' = [t \in Threads |-> "terminated"]
  /\ UNCHANGED <<req, status, requests, callbacks, active, inflight, channel,
                 descNum, pollResult, asked, rejected, answered, misnamed>>

\* The library call returns: next descriptor, ares_cancel() after a failed
\* poll(), or the next round.  ares_cancel() returns when no query is left.
LeaveLibrary ==
  /\ pc["poll"] = "inside"
  /\ pollResult = "cancel" => inflight = {}
  /\ channel' = "free"
  /\ req' = [req EXCEPT !["poll"] = "none"]
  /\ \/ /\ pollResult = "error"
        /\ pollResult' = "cancel"
        /\ Goto("poll", "process")
     \/ /\ pollResult # "error"
        /\ UNCHANGED pollResult
        /\ Goto("poll", IF descNum > 0 THEN "process" ELSE "check")
  /\ UNCHANGED <<status, requests, callbacks, active, inflight, descNum,
                 asked, rejected, answered, misnamed>>

\* The program has ended.
Stopped ==
  /\ pc["ipc"] \in {"exited", "terminated"}
  /\ UNCHANGED vars

-----------------------------------------------------------------------------
IpcStep  == SubmitAsync \/ SubmitSync \/ AnswerSync \/ AnswerSyncThrows
              \/ Notify \/ ShutdownNotify \/ Destroy

PollStep == \/ HasRequests \/ WaitPredicate \/ FillPollDescriptors
            \/ GetTimeout \/ Poll \/ ProcessFd \/ AnswerAsync
            \/ AnswerAsyncThrows \/ LeaveLibrary

Next == \/ Boot \/ IpcStep \/ Shutdown
        \/ \E r \in Requests : ResolveEmpty(r) \/ AddRequest(r)
        \/ PollStep \/ SpuriousWakeup
        \/ \E r \in Requests : CompleteQuery(r)
        \/ Stopped

(***************************************************************************)
(* Each thread that can run does run.  Clients need not call, the event    *)
(* loop need not end, nothing wakes the condition variable spuriously.     *)
(* The poll thread gives up the lock of the channel during every poll(),   *)
(* so the ipc thread gets it in the end.  The library gives every query a  *)
(* bounded number of tries, so one that is processed again and again is    *)
(* completed.                                                              *)
(***************************************************************************)
Fairness == /\ WF_vars(Boot) /\ WF_vars(IpcStep) /\ WF_vars(PollStep)
            /\ SF_vars(SubmitAsync \/ SubmitSync)
            /\ \A r \in Requests : SF_vars(CompleteQuery(r))

Spec == Init /\ [][Next]_vars
FairSpec == Spec /\ Fairness

-----------------------------------------------------------------------------
(***************************************************************************)
(* Properties.                                                             *)
(***************************************************************************)

IpcLabels  == {"boot", "idle", "submit", "answer", "notify", "stopping",
               "joining", "exited", "terminated"}
PollLabels == {"off", "check", "asleep", "woken", "fill", "timeout", "poll",
               "process", "inside", "answer", "exit", "terminated"}

\* The type invariant: the list, its non-null callbacks and the channel hold
\* requests that were asked; the thread-local variables are in their ranges.
TypeOK ==
  /\ pc \in [Threads -> IpcLabels \cup PollLabels]
  /\ pc["ipc"] \in IpcLabels /\ pc["poll"] \in PollLabels
  /\ req \in [Threads -> Requests \cup {"none"}]
  /\ status \in [Threads -> Statuses]
  /\ asked \subseteq Requests /\ requests \subseteq asked
  /\ callbacks \subseteq asked /\ inflight \subseteq asked
  /\ rejected \subseteq asked /\ misnamed \subseteq asked
  /\ active \in BOOLEAN
  /\ channel \in {"free", "ipc", "poll", "leaked"}
  /\ descNum \in 0..MaxSocks
  /\ pollResult \in {"ready", "timeout", "error", "cancel"}
  /\ answered \in [Requests -> Nat]

Accepted == asked \ rejected

\* Threads that have taken r's callback out of its node and not yet called it.
Answering(r) == {t \in Threads : pc[t] = "answer" /\ req[t] = r}

\* A client that was promised one OnResolve() call (it queued one Step() for
\* it) receives at most one, and none if its Resolve() call failed.
AtMostOnce ==
  \A r \in Requests : /\ answered[r] <= 1
                      /\ r \in rejected => answered[r] = 0

\* No answer is lost between the list, the channel and the two threads: an
\* accepted request is answered, or exactly one of the following holds it: a
\* pending query, the call that is about to submit it, a running OnResolved().
NoLostAnswer ==
  pc["ipc"] # "terminated" =>
    \A r \in Accepted :
      LET submitting == pc["ipc"] = "submit" /\ req["ipc"] = r
          held == \/ r \in inflight /\ ~submitting /\ Answering(r) = {}
                  \/ r \notin inflight /\ submitting /\ Answering(r) = {}
                  \/ r \notin inflight /\ ~submitting /\ \E t \in Threads : Answering(r) = {t}
      IN  (answered[r] = 0) <=> held

\* ~Resolver() drains: when the channel is destroyed every accepted request
\* has been answered, also those that were pending when Shutdown() ran.
DrainedAtExit ==
  pc["ipc"] = "exited" => \A r \in Accepted : answered[r] = 1

\* The poll thread never sleeps through work: with an unanswered request in
\* the list, a query in the channel, or after Shutdown(), the notification is
\* still to come.
NoLostWakeup ==
  pc["poll"] = "asleep" =>
    /\ callbacks # {} => pc["ipc"] \in {"submit", "notify"}
    /\ inflight # {} => pc["ipc"] = "notify"
    /\ ~active => pc["ipc"] = "stopping"

\* GetTimeout() dereferences what ares_timeout() returns: a query is pending
\* whenever it is called, although the channel was unlocked in between.
TimeoutDefined == pc["poll"] = "timeout" => inflight # {}

\* A query's node stays in the list until OnResolved() has read the name from
\* it, if OnResolved() runs on the thread that erases nodes.
NodeAlive ==
  /\ inflight \subseteq requests
  /\ pc["poll"] = "answer" => req["poll"] \in requests

\* Where a request is, between Resolve() and the answer: its query is pending
\* or about to be submitted as long as its node holds the callback.
ListInv ==
  /\ inflight \subseteq callbacks /\ callbacks \subseteq requests
  /\ pc["ipc"] = "submit" => req["ipc"] \in callbacks \ inflight
  /\ pc["ipc"] # "terminated" =>
       \A r \in callbacks : r \in inflight \/ (pc["ipc"] = "submit" /\ req["ipc"] = r)

\* A request has been answered, or still holds its callback, or a running
\* OnResolved() has taken it: one of the three, unless it was rejected.
AnswerInv ==
  /\ \A t \in Threads : pc[t] = "answer" =>
       /\ req[t] \in Accepted \ callbacks
       /\ answered[req[t]] = 0
  /\ pc["ipc"] = "answer" /\ pc["poll"] = "answer" => req["ipc"] # req["poll"]
  /\ \A r \in callbacks : answered[r] = 0 /\ r \notin rejected
  /\ \A r \in Requests \ asked : answered[r] = 0
  /\ pc["ipc"] # "terminated" =>
       \A r \in Accepted : answered[r] = 1 \/ r \in callbacks \/ Answering(r) # {}

\* How far the two threads can be apart.
ThreadInv ==
  /\ pc["ipc"] = "terminated" <=> pc["poll"] = "terminated"
  /\ pc["ipc"] = "boot" => pc["poll"] = "off"
  /\ pc["poll"] = "off" => pc["ipc"] \in {"boot", "exited"} /\ asked = {}
  /\ pc["ipc"] = "exited" => pc["poll"] \in {"off", "exit"}
  /\ pc["poll"] = "exit" => requests = {} /\ ~active
  /\ ~active => pc["ipc"] \in {"stopping", "joining", "exited", "terminated"}

\* The loop over the descriptors has one to process whenever it goes on.
DescInv ==
  \/ pc["poll"] \in {"timeout", "poll"}
  \/ pc["poll"] = "process" /\ pollResult = "ready"
  => descNum > 0

\* The inductive invariant: all that the safety properties of the resolver
\* rest on.  It holds in every state and every step of either thread keeps it.
IInv ==
  /\ TypeOK /\ ListInv /\ AnswerInv /\ ThreadInv /\ DescInv
  /\ AtMostOnce /\ NoLostWakeup /\ TimeoutDefined /\ NodeAlive

\* Every failure reported to a client carries the name the client asked for.
AnswersNameTheirHost == misnamed = {}

\* ~Resolver() returns: the poll thread notices the shutdown and ends, unless
\* an OnResolve() exception ends the process first, or an earlier one has left
\* the c-ares channel locked.
ShutdownCompletes ==
  (pc["ipc"] = "stopping" /\ channel # "leaked")
    ~> (pc["ipc"] \in {"exited", "terminated"})

-----------------------------------------------------------------------------
(***************************************************************************)
(* The resolver implements the lookup service.                             *)
(***************************************************************************)
StateOf(r) == IF r \notin asked         THEN "unknown"
              ELSE IF r \in rejected     THEN "refused"
              ELSE IF answered[r] = 0   THEN "accepted"
              ELSE IF answered[r] = 1   THEN "answered"
              ELSE "answered again"

lookups == [r \in Requests |-> StateOf(r)]

condition == IF pc["ipc"] = "exited"          THEN "stopped"
             ELSE IF pc["ipc"] = "terminated" THEN "failed" ELSE "up"

Service == INSTANCE LookupService
             WITH Unreliable <- MayThrow, state <- lookups, service <- condition

\* Safety: each step of the two threads is a step of the service or none.
ImplementsService == Service!Spec

\* Liveness: the service answers, or gives up, every request it accepted, also
\* while callbacks of other clients throw, as long as none of these exceptions
\* has left the c-ares channel locked.
AnswersUnlessLeaked == [](channel # "leaked") => Service!Fairness
=============================================================================
