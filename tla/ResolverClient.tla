--------------------------- MODULE ResolverClient ---------------------------
(***************************************************************************)
(* The Client programs of examples/c-ares (client/src/main.cpp) with the   *)
(* callback endpoint they use (common/callable.h, class Callable).         *)
(*                                                                         *)
(* Each client has two threads.  Its main thread asks the resolver for     *)
(* every host name of its command line; for each one Callable::Get() first *)
(* queues a handler that will serve ONE incoming OnResolve() call.  Its    *)
(* callback thread, ServeCalls(), takes the handlers from the queue and    *)
(* runs them.  ~Callable() queues an empty handler, which ends that        *)
(* thread, and joins it.                                                   *)
(*                                                                         *)
(* The resolver is seen through "owed": the requests it has accepted and   *)
(* not answered yet.  NameLookup composes the clients with the resolver.   *)
(***************************************************************************)
EXTENDS Naturals, Sequences

CONSTANTS
  Clients,      \* the client processes
  Requests,     \* the host names asked for, one element per command line entry
  argv          \* argv[c]: the requests of client c, in order

VARIABLES
  main,       \* where the main thread is
  next,       \* index of the next host name
  handlers,   \* m_handlers: a queue of "step" handlers and the "empty" one
  serving,    \* where the callback thread is
  raised,     \* where an exception was thrown, or "nowhere"
  logged,     \* requests whose result was written to standard output
  owed        \* environment: accepted requests the resolver has not answered

clientVars == <<main, next, handlers, serving, raised, logged>>
vars == <<clientVars, owed>>

Names(c) == {argv[c][i] : i \in DOMAIN argv[c]}
Current(c) == argv[c][next[c]]

Init ==
  /\ main = [c \in Clients |-> "start"]
  /\ next = [c \in Clients |-> 1]
  /\ handlers = [c \in Clients |-> <<>>]
  /\ serving = [c \in Clients |-> "off"]
  /\ raised = [c \in Clients |-> "nowhere"]
  /\ logged = [c \in Clients |-> {}]
  /\ owed = {}

Goto(c, label) == main' = [main EXCEPT ![c] = label]

\* An exception leaves the loop: the destructors of the try block run next.
Throw(c, where) ==
  /\ raised' = [raised EXCEPT ![c] = where]
  /\ Goto(c, "destroy")

-----------------------------------------------------------------------------
(***************************************************************************)
(* The main thread.                                                        *)
(***************************************************************************)

\* Without host names there is nothing to do; otherwise the Callable is
\* constructed and starts its thread, or its constructor throws.
Start(c) ==
  /\ main[c] = "start"
  /\ \/ /\ argv[c] = <<>>
        /\ Goto(c, "finished")
        /\ UNCHANGED <<serving, raised>>
     \/ /\ argv[c] # <<>>
        /\ Goto(c, "connect")
        /\ serving' = [serving EXCEPT ![c] = "get"]
        /\ UNCHANGED raised
     \/ /\ argv[c] # <<>>
        /\ Goto(c, "failed")
        /\ raised' = [raised EXCEPT ![c] = "Callable"]
        /\ UNCHANGED serving
  /\ UNCHANGED <<next, handlers, logged, owed>>

\* MakeProxy() connects to the resolver's channel, or throws.
Connect(c) ==
  /\ main[c] = "connect"
  /\ \/ Goto(c, "next") /\ UNCHANGED raised
     \/ Throw(c, "MakeProxy")
  /\ UNCHANGED <<next, handlers, serving, logged, owed>>

\* AddHandler() up to the unlock.
Push(c, handler, label) ==
  /\ handlers' = [handlers EXCEPT ![c] = Append(@, handler)]
  /\ Goto(c, label)
  /\ UNCHANGED <<next, serving, raised, logged, owed>>

\* Mistake: AddHandler() does not notify.
NotifyForgotten(c, label) ==
  /\ Goto(c, label)
  /\ UNCHANGED <<next, handlers, serving, raised, logged, owed>>

\* The rest of AddHandler(): m_notEmpty.notify_one().
NotifyOne(c, label) ==
  /\ serving' = [serving EXCEPT ![c] = IF @ = "asleep" THEN "woken" ELSE @]
  /\ Goto(c, label)
  /\ UNCHANGED <<next, handlers, raised, logged, owed>>

\* Mistake: Get() returns the handle without queueing a handler.
GetHandleOnly(c) ==
  /\ main[c] = "next" /\ next[c] <= Len(argv[c])
  /\ Goto(c, "notify")
  /\ UNCHANGED <<next, handlers, serving, raised, logged, owed>>

\* Callable::Get() for the next host name: a handler that serves one call.
Get(c) ==
  /\ main[c] = "next" /\ next[c] <= Len(argv[c])
  /\ Push(c, "step", "notify")

GetNotify(c) == main[c] = "notify" /\ NotifyOne(c, "call")

\* The resolver accepts the call of Resolve() ...
Accept(c) ==
  /\ main[c] = "call"
  /\ owed' = owed \cup {Current(c)}
  /\ Goto(c, "calling")
  /\ UNCHANGED <<next, handlers, serving, raised, logged>>

\* ... and returns from it, perhaps after it has called back.
CallReturns(c) ==
  /\ main[c] = "calling"
  /\ next' = [next EXCEPT ![c] = @ + 1]
  /\ Goto(c, "next")
  /\ UNCHANGED <<handlers, serving, raised, logged, owed>>

\* Resolve() throws: the resolver refused the name, or it is gone.
CallThrows(c) ==
  /\ main[c] \in {"call", "calling"}
  /\ Throw(c, "Resolve")
  /\ owed' = owed \ {Current(c)}
  /\ UNCHANGED <<next, handlers, serving, logged>>

\* The loop ends after the last host name.
EndLoop(c) ==
  /\ main[c] = "next" /\ next[c] > Len(argv[c])
  /\ Goto(c, "destroy")
  /\ UNCHANGED <<next, handlers, serving, raised, logged, owed>>

\* ~Callable(): the empty handler, then the join.
Destroy(c) == main[c] = "destroy" /\ Push(c, "empty", "notifyEmpty")

DestroyNotify(c) == main[c] = "notifyEmpty" /\ NotifyOne(c, "join")

\* Mistake: the destructor detaches the thread.
Detach(c) ==
  /\ main[c] = "join"
  /\ Goto(c, IF raised[c] = "nowhere" THEN "finished" ELSE "failed")
  /\ UNCHANGED <<next, handlers, serving, raised, logged, owed>>

\* After the join main() logs "Finished", or the exception it caught.
Join(c) ==
  /\ main[c] = "join" /\ serving[c] = "ended"
  /\ Goto(c, IF raised[c] = "nowhere" THEN "finished" ELSE "failed")
  /\ UNCHANGED <<next, handlers, serving, raised, logged, owed>>

-----------------------------------------------------------------------------
(***************************************************************************)
(* The callback thread: ServeCalls().                                      *)
(***************************************************************************)

\* GetHandler(): sleep while the queue is empty, else take its front; the
\* empty handler ends the loop.
GetHandler(c) ==
  /\ serving[c] \in {"get", "woken"}
  /\ \/ /\ handlers[c] = <<>>
        /\ serving' = [serving EXCEPT ![c] = "asleep"]
        /\ UNCHANGED handlers
     \/ /\ handlers[c] # <<>>
        /\ serving' = [serving EXCEPT ![c] =
                         IF Head(handlers[c]) = "empty" THEN "ended" ELSE "step"]
        /\ handlers' = [handlers EXCEPT ![c] = Tail(@)]
  /\ UNCHANGED <<main, next, raised, logged, owed>>

\* A condition variable may wake up for no reason.
SpuriousWakeup(c) ==
  /\ serving[c] = "asleep"
  /\ serving' = [serving EXCEPT ![c] = "woken"]
  /\ UNCHANGED <<main, next, handlers, raised, logged, owed>>

\* loop.Step(): serve one OnResolve() call, which logs the result.
OnResolve(c, r) ==
  /\ serving[c] = "step" /\ r \in owed \cap Names(c)
  /\ serving' = [serving EXCEPT ![c] = "get"]
  /\ logged' = [logged EXCEPT ![c] = @ \cup {r}]
  /\ owed' = owed \ {r}
  /\ UNCHANGED <<main, next, handlers, raised>>

-----------------------------------------------------------------------------
Ended(c) == main[c] \in {"finished", "failed"}

\* Steps of a client that involve no other process.
MainStep(c) ==
  \/ Start(c) \/ Connect(c) \/ Get(c) \/ GetNotify(c) \/ EndLoop(c)
  \/ Destroy(c) \/ DestroyNotify(c) \/ Join(c)

-----------------------------------------------------------------------------
\* The type invariant of the clients.
TypeOK ==
  /\ main \in [Clients -> {"start", "connect", "next", "notify", "call", "calling",
                           "destroy", "notifyEmpty", "join", "finished", "failed"}]
  /\ next \in [Clients -> Nat] /\ \A c \in Clients : next[c] \in 1..(Len(argv[c]) + 1)
  /\ handlers \in [Clients -> Seq({"step", "empty"})]
  /\ serving \in [Clients -> {"off", "get", "asleep", "woken", "step", "ended"}]
  /\ raised \in [Clients -> {"nowhere", "Callable", "MakeProxy", "Resolve"}]
  /\ logged \in [Clients -> SUBSET Requests] /\ \A c \in Clients : logged[c] \subseteq Names(c)
  /\ owed \subseteq Requests
=============================================================================
