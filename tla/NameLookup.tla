----------------------------- MODULE NameLookup -----------------------------
(***************************************************************************)
(* The solution of examples/c-ares: the NameResolver program and its       *)
(* Client programs, connected by synchronous IPC.  A call is a joint step  *)
(* of caller and callee at its beginning and, if the callee does more than *)
(* one step, at its end:                                                   *)
(*                                                                         *)
(*   client main thread     -- Resolve -->    resolver ipc thread          *)
(*   resolver, any thread   -- OnResolve -->  client callback thread       *)
(*                                                                         *)
(* A client in Clients may be killed at any time if it is in MayDie.  A    *)
(* call throws if the process it is made to is gone, and if a string does  *)
(* not fit the call's IDL: Resolver.idl takes names of at most 256         *)
(* characters, ResolveCallback.idl of at most 128.                         *)
(***************************************************************************)
EXTENDS Resolver, Integers, Sequences, FiniteSets

CONSTANTS
  Clients,      \* the client processes
  MayDie,       \* those that may be killed
  LongName,     \* the requests whose name, or the name c-ares finds for it,
                \* may be too long for one of the two calls
  argv          \* argv[c]: the requests of client c, in order

\* No two entries of the command lines are the same request, and the OnResolve()
\* call for each of them may throw.
ASSUME ClientAssumption ==
  /\ MayDie \subseteq Clients /\ MayThrow = Requests /\ LongName \subseteq Requests
  /\ argv \in [Clients -> Seq(Requests)]
  /\ \A c, d \in Clients : \A i \in DOMAIN argv[c], j \in DOMAIN argv[d] :
       argv[c][i] = argv[d][j] => c = d /\ i = j

VARIABLES
  main, next, handlers, serving, raised, logged,   \* see ResolverClient
  dead                                             \* the clients that were killed

\* What the clients can still expect of the resolver.
owed == IF pc["ipc"] = "terminated" THEN {}
        ELSE {r \in asked \ rejected : answered[r] = 0}

C == INSTANCE ResolverClient

clientVars == <<main, next, handlers, serving, raised, logged>>
lookupVars == <<vars, clientVars, dead>>   \* vars: those of the resolver

Owner(r) == CHOOSE c \in Clients : r \in C!Names(c)

ResolverGone == pc["ipc"] \in {"exited", "terminated"}

LookupInit == Init /\ C!Init /\ dead = {}

-----------------------------------------------------------------------------
\* Steps of one process alone.
ClientMain(c)   == c \notin dead /\ UNCHANGED <<vars, dead>> /\ C!MainStep(c)
ClientThread(c) == c \notin dead /\ UNCHANGED <<vars, dead>> /\ C!GetHandler(c)
ClientWakeup(c) == c \notin dead /\ UNCHANGED <<vars, dead>> /\ C!SpuriousWakeup(c)

ResolverIpc ==
  /\ SubmitAsync \/ SubmitSync \/ ShutdownNotify \/ Destroy
  /\ UNCHANGED <<clientVars, dead>>

ResolverPoll ==
  /\ \/ HasRequests \/ WaitPredicate \/ FillPollDescriptors
     \/ GetTimeout \/ Poll \/ ProcessFd \/ LeaveLibrary
  /\ UNCHANGED <<clientVars, dead>>

ResolverCompletes(r) == CompleteQuery(r) /\ UNCHANGED <<clientVars, dead>>

ResolverBoot     == Boot /\ UNCHANGED <<clientVars, dead>>
ResolverShutdown == Shutdown /\ UNCHANGED <<clientVars, dead>>
ResolverWakeup   == SpuriousWakeup /\ UNCHANGED <<clientVars, dead>>

\* A client is killed: nothing is left of its threads.
Die(c) ==
  /\ c \in MayDie \ dead /\ ~C!Ended(c)
  /\ dead' = dead \cup {c}
  /\ main' = [main EXCEPT ![c] = "start"]
  /\ next' = [next EXCEPT ![c] = 1]
  /\ handlers' = [handlers EXCEPT ![c] = <<>>]
  /\ serving' = [serving EXCEPT ![c] = "off"]
  /\ raised' = [raised EXCEPT ![c] = "nowhere"]
  /\ UNCHANGED <<vars, logged>>

-----------------------------------------------------------------------------
\* The resolver's ipc thread receives a client's call of Resolve() and adds
\* the request, or throws because the name is empty.
Resolve(c) ==
  /\ c \notin dead /\ main[c] = "call"
  /\ \/ AddRequest(C!Current(c)) /\ C!Accept(c)
     \/ ResolveEmpty(C!Current(c)) /\ C!CallThrows(c)
  /\ UNCHANGED dead

\* AddRequest() notifies the poll thread and Resolve() returns to its caller.
Return ==
  /\ Notify
  /\ LET c == Owner(req["ipc"])
     IN  IF c \in dead THEN UNCHANGED clientVars ELSE C!CallReturns(c)
  /\ UNCHANGED dead

\* The resolver is gone, or ends during the call; or the call is not even made
\* because the name does not fit its string<256>.
ResolveFails(c) ==
  /\ c \notin dead
  /\ ResolverGone \/ (main[c] = "call" /\ C!Current(c) \in LongName)
  /\ UNCHANGED <<vars, dead>>
  /\ C!CallThrows(c)

\* The resolver calls a client back and the client's Step() serves the call.
Callback(t) ==
  /\ pc[t] = "answer" /\ Owner(req[t]) \notin dead
  /\ IF t = "ipc" THEN AnswerSync ELSE AnswerAsync
  /\ C!OnResolve(Owner(req[t]), req[t])
  /\ UNCHANGED dead

\* The resolver's call throws and does not reach a client: the client is gone, or
\* the name does not fit OnResolve's string<128>.  If the exception comes out of
\* Resolve(), the caller of Resolve() gets it.
CallbackThrows(t) ==
  /\ pc[t] = "answer"
  /\ Owner(req[t]) \in dead \/ req[t] \in LongName
  /\ IF t = "ipc" THEN AnswerSyncThrows ELSE AnswerAsyncThrows
  /\ IF pc'[t] = "idle" /\ Owner(req[t]) \notin dead
     THEN C!CallThrows(Owner(req[t]))
     ELSE UNCHANGED clientVars
  /\ UNCHANGED dead

AllEnded == \A c \in Clients : C!Ended(c) \/ c \in dead

LookupNext ==
  \/ \E c \in Clients :
       \/ ClientMain(c) \/ ClientThread(c) \/ ClientWakeup(c) \/ Die(c)
       \/ Resolve(c) \/ ResolveFails(c)
  \/ \E t \in Threads : Callback(t) \/ CallbackThrows(t)
  \/ \E r \in Requests : ResolverCompletes(r)
  \/ Return \/ ResolverBoot \/ ResolverIpc \/ ResolverPoll
  \/ ResolverShutdown \/ ResolverWakeup
  \/ AllEnded /\ UNCHANGED lookupVars

(***************************************************************************)
(* Every thread that can go on does, one condition per thread; a thread    *)
(* that waits for the lock of the channel gets it in the end.  The event   *)
(* loop of the resolver serves every caller in the end, and c-ares ends    *)
(* every query (see Resolver).  No call has to throw because of a name:    *)
(* the name may fit.                                                       *)
(***************************************************************************)
AnswerStep(t) == Callback(t) \/ (CallbackThrows(t) /\ Owner(req[t]) \in dead)
IpcThread  == ResolverBoot \/ ResolverIpc \/ Return \/ AnswerStep("ipc")
PollThread == ResolverPoll \/ AnswerStep("poll")

LookupFairness ==
  /\ \A c \in Clients : /\ WF_lookupVars(ClientMain(c) \/ (ResolverGone /\ ResolveFails(c)))
                        /\ WF_lookupVars(ClientThread(c))
                        /\ SF_lookupVars(Resolve(c))
  /\ \A r \in Requests : SF_lookupVars(ResolverCompletes(r))
  /\ SF_lookupVars(IpcThread) /\ WF_lookupVars(PollThread)

LookupSpec == LookupInit /\ [][LookupNext]_lookupVars
LookupFairSpec == LookupSpec /\ LookupFairness

-----------------------------------------------------------------------------
(***************************************************************************)
(* Properties.                                                             *)
(***************************************************************************)

\* The handlers that still expect an OnResolve() call.
Steps(c) == Cardinality({i \in DOMAIN handlers[c] : handlers[c][i] = "step"})
            + (IF serving[c] = "step" THEN 1 ELSE 0)

\* A Step() is queued for a name the resolver has not accepted (yet): the call
\* of Resolve() is about to be made, or it threw and the name is unanswered.
HandingOver(c) == \/ main[c] \in {"notify", "call"}
                  \/ raised[c] = "Resolve" /\ C!Current(c) \notin logged[c]

\* As long as the resolver has not crashed, the callback thread of each client
\* waits for exactly the calls the resolver is going to make: OnResolve() never
\* finds a client that does not listen, and no Step() waits for a call that
\* does not come, except the one queued for a Resolve() call that threw.
CallsMatchSteps ==
  pc["ipc"] # "terminated" =>
    \A c \in Clients \ dead :
      Steps(c) = Cardinality(owed \cap C!Names(c))
                 + (IF HandingOver(c) THEN 1 ELSE 0)

\* A client that ends successfully was called back for all its host names.
FinishedMeansAllAnswered ==
  \A c \in Clients : main[c] = "finished" =>
    \A r \in C!Names(c) : r \in logged[c] /\ answered[r] = 1

\* The resolver is never stuck in a client: every OnResolve() call returns or
\* throws, also when the client is still inside its Resolve() call and when
\* another client hangs.
CallbackReturns ==
  \A t \in Threads : (pc[t] = "answer") ~> (pc[t] # "answer")

\* Every client that is not killed ends unless one of its own Resolve() calls
\* throws or the resolver was lost to an OnResolve() call that threw: that ends
\* the resolver or leaves the c-ares channel locked, which takes the answers of
\* all clients with it.  A client is not held up by another one that hangs, and
\* it ends when the resolver shuts down.
GoodClientsEnd ==
  <>(\/ pc["ipc"] = "terminated" \/ channel = "leaked"
     \/ \A c \in Clients \ dead : C!Ended(c) \/ raised[c] = "Resolve")

\* Every client ends, with a result or an error message for each host name.
AllClientsEnd == \A c \in Clients : <>C!Ended(c)

-----------------------------------------------------------------------------
(***************************************************************************)
(* What holds of a client that lives, whatever the resolver does.          *)
(***************************************************************************)

\* The host names for which Get() has queued a handler.
Queued(c) ==
  {i \in DOMAIN argv[c] :
     \/ i < next[c]
     \/ i = next[c] /\ (main[c] \in {"notify", "call", "calling"} \/ raised[c] = "Resolve")}

\* Those of them whose OnResolve() call has not come.
Expecting(c) == {argv[c][i] : i \in Queued(c)} \ logged[c]

\* ~Callable() has queued the empty handler, which is taken last.
Closing(c) == main[c] \in {"notifyEmpty", "join"} /\ serving[c] # "ended"

\* Where the two threads can be, and how far the loop has come.
PlaceInv(c) ==
  /\ main[c] \in {"start", "connect"} =>
       next[c] = 1 /\ handlers[c] = <<>> /\ logged[c] = {} /\ raised[c] = "nowhere"
  /\ main[c] = "start" => serving[c] = "off"
  /\ serving[c] = "off" => main[c] \in {"start", "finished", "failed"}
  /\ serving[c] = "ended" => main[c] \in {"notifyEmpty", "join", "finished", "failed"}
  /\ C!Ended(c) => serving[c] \in {"off", "ended"}
  /\ main[c] \in {"notify", "call", "calling"} => next[c] <= Len(argv[c])
  /\ raised[c] # "nowhere" => main[c] \in {"destroy", "notifyEmpty", "join", "failed"}
  /\ raised[c] = "Resolve" => next[c] <= Len(argv[c])
  /\ main[c] \in {"destroy", "notifyEmpty", "join", "finished"} /\ raised[c] = "nowhere" =>
       next[c] = Len(argv[c]) + 1

\* The queue holds step handlers, then the empty one if it has been queued.
QueueInv(c) ==
  /\ serving[c] \in {"off", "ended"} => handlers[c] = <<>>
  /\ Closing(c) => handlers[c] # <<>>
  /\ \A i \in DOMAIN handlers[c] :
       (handlers[c][i] = "empty") <=> (i = Len(handlers[c]) /\ Closing(c))

\* As many handlers wait for a call as there are names that expect one.
CountInv(c) ==
  /\ logged[c] \subseteq {argv[c][i] : i \in Queued(c)}
  /\ IsFiniteSet(Expecting(c))
  /\ Len(handlers[c]) - (IF Closing(c) THEN 1 ELSE 0) + (IF serving[c] = "step" THEN 1 ELSE 0)
       = Cardinality(Expecting(c))

ClientInv(c) == PlaceInv(c) /\ QueueInv(c) /\ CountInv(c)

-----------------------------------------------------------------------------
(***************************************************************************)
(* The inductive invariant of the solution.                                *)
(***************************************************************************)

\* The resolver's ipc thread is in the call of a client that is still there
\* exactly when that client's main thread is in it.
CallInv ==
  /\ pc["ipc"] \in {"submit", "answer", "notify"} =>
       /\ req["ipc"] \in asked
       /\ \A c \in Clients \ dead : req["ipc"] \in C!Names(c) =>
            main[c] = "calling" /\ C!Current(c) = req["ipc"]
  /\ \A c \in Clients \ dead : main[c] = "calling" /\ pc["ipc"] # "terminated" =>
       pc["ipc"] \in {"submit", "answer", "notify"} /\ req["ipc"] = C!Current(c)

\* What a client's loop has done and what the resolver has recorded agree.
AgreeInv(c) ==
  /\ \A i \in DOMAIN argv[c] :
       /\ argv[c][i] \in asked =>
            i < next[c] \/ (i = next[c] /\ (main[c] = "calling" \/ raised[c] = "Resolve"))
       /\ i < next[c] => argv[c][i] \in Accepted
       /\ argv[c][i] \in logged[c] <=> answered[argv[c][i]] = 1
  /\ main[c] = "calling" => C!Current(c) \in Accepted
  /\ raised[c] = "Resolve" /\ pc["ipc"] # "terminated" => C!Current(c) \notin Accepted

\* Requests come from clients, and those that have ended were not killed.
OriginInv ==
  /\ dead \subseteq Clients /\ \A c \in dead : ~C!Ended(c)
  /\ \A r \in asked : \E c \in Clients : r \in C!Names(c)

LookupInv ==
  /\ IInv /\ C!TypeOK /\ OriginInv /\ CallInv
  /\ \A c \in Clients \ dead : ClientInv(c) /\ AgreeInv(c)
=============================================================================
