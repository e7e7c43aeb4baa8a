-------------------------- MODULE ExecutionManager --------------------------
(***************************************************************************)
(* The solution of examples/execution_manager_separated_vfs: a client that *)
(* starts applications one after another through the ExecutionManager      *)
(* component, waits for a notification of each, and then stops them all.   *)
(* The code has two applications, the module NumApps.                      *)
(*                                                                         *)
(* Every error makes the client return EXIT_FAILURE at once.  An           *)
(* application that cannot notify the client returns; after it has, it     *)
(* sleeps in a loop until it is stopped.  The ExecutionManager component,  *)
(* the name server and the kernel are external: a call of them succeeds or *)
(* fails.                                                                  *)
(***************************************************************************)
EXTENDS Naturals

CONSTANT NumApps

ASSUME ExecutionManagerAssumption == NumApps \in Nat \ {0}

Apps == 1..NumApps

VARIABLES
  pc,      \* what main() of the client does next
  cur,     \* the application it starts, waits for or stops
  served,  \* the one whose connection WaitForNotification() serves, or 0
  app,     \* what each application does
  heard    \* (history) those whose Notification() call was dispatched

vars == <<pc, cur, served, app, heard>>

Waiting == {"listen", "accept", "recv", "reply"}
Ended   == pc \in {"success", "failure"}

\* The states of an application that was started and has not come to its end.
Live == {"running", "connecting", "connected", "calling", "alive"}

Init ==
  /\ pc = "publish" /\ cur = 1 /\ served = 0
  /\ app = [a \in Apps |-> "absent"]
  /\ heard = {}

-----------------------------------------------------------------------------
(***************************************************************************)
(* The client.                                                             *)
(***************************************************************************)

\* main() returns EXIT_FAILURE; nothing is stopped or withdrawn.
Fail == pc' = "failure" /\ UNCHANGED <<cur, served, app, heard>>

\* PublishService(), CreateExecutionManager(), GetApplicationController().
Prepare ==
  /\ pc = "publish"
  /\ \/ pc' = "start" /\ UNCHANGED <<cur, served, app, heard>>
     \/ Fail

\* Mistake: the next application is started before this one is waited for.
StartEntityAll ==
  /\ pc = "start"
  /\ app' = [app EXCEPT ![cur] = "running"]
  /\ pc'  = IF cur < NumApps THEN "start" ELSE "listen"
  /\ cur' = IF cur < NumApps THEN cur + 1 ELSE 1
  /\ UNCHANGED <<served, heard>>

StartEntity ==
  /\ pc = "start"
  /\ \/ /\ app' = [app EXCEPT ![cur] = "running"]
        /\ pc' = "listen"
        /\ UNCHANGED <<cur, served, heard>>
     \/ Fail

\* KnCmListen() returns the names of an application that wants to connect,
\* whichever it is.  It has no timeout.
Listen(a) ==
  /\ pc = "listen" /\ app[a] = "connecting"
  /\ pc' = "accept" /\ served' = a
  /\ UNCHANGED <<cur, app, heard>>

\* Mistake: main() does not look at the result of WaitForNotification().
ListenFailsIgnored ==
  /\ pc = "listen"
  /\ IF cur < NumApps THEN pc' = "start" /\ cur' = cur + 1
                      ELSE pc' = "stop"  /\ cur' = 1
  /\ UNCHANGED <<served, app, heard>>

ListenFails == pc = "listen" /\ Fail

\* Mistake: the client listens again when it could not accept.
AcceptRetries ==
  /\ pc = "accept"
  /\ \/ /\ app[served] = "connecting"
        /\ app' = [app EXCEPT ![served] = "connected"]
        /\ pc' = "recv"
     \/ pc' = "listen" /\ UNCHANGED app
  /\ UNCHANGED <<cur, served, heard>>

\* KnCmAccept() fails if the application is gone.
Accept ==
  /\ pc = "accept"
  /\ \/ /\ app[served] = "connecting"
        /\ app' = [app EXCEPT ![served] = "connected"]
        /\ pc' = "recv"
        /\ UNCHANGED <<cur, served, heard>>
     \/ Fail

\* nk_transport_recv() and the dispatch to Notification_impl().
Recv ==
  /\ pc = "recv" /\ app[served] = "calling"
  /\ heard' = heard \cup {served}
  /\ pc' = "reply"
  /\ UNCHANGED <<cur, served, app>>

RecvFails == pc = "recv" /\ Fail

\* Mistake: the loop that stops the applications begins at the last one.
ReplyStopsLast ==
  /\ pc = "reply"
  /\ \/ /\ app[served] = "calling"
        /\ app' = [app EXCEPT ![served] = "alive"]
        /\ served' = 0
        /\ IF cur < NumApps THEN pc' = "start" /\ cur' = cur + 1
                            ELSE pc' = "stop"  /\ cur' = cur
        /\ UNCHANGED heard
     \/ Fail

\* nk_transport_reply() succeeds: WaitForNotification() is over, and the next
\* application is started or, after the last, the first one stopped.
\* It fails if the application is gone.
Reply ==
  /\ pc = "reply"
  /\ \/ /\ app[served] = "calling"
        /\ app' = [app EXCEPT ![served] = "alive"]
        /\ served' = 0
        /\ IF cur < NumApps THEN pc' = "start" /\ cur' = cur + 1
                            ELSE pc' = "stop"  /\ cur' = 1
        /\ UNCHANGED heard
     \/ Fail

\* Mistake: an application that cannot be stopped is passed over.
StopEntitySkips ==
  /\ pc = "stop"
  /\ \/ app' = [app EXCEPT ![cur] = IF @ \in Live THEN "stopped" ELSE @]
     \/ UNCHANGED app
  /\ IF cur < NumApps THEN pc' = "stop"    /\ cur' = cur + 1
                      ELSE pc' = "success" /\ cur' = cur
  /\ UNCHANGED <<served, heard>>

\* StopEntity() of one application after the other.  One that has ended by
\* itself stays as it is, whether the call succeeds or not.
StopEntity ==
  /\ pc = "stop"
  /\ \/ /\ app' = [app EXCEPT ![cur] = IF @ \in Live THEN "stopped" ELSE @]
        /\ IF cur < NumApps THEN pc' = "stop"    /\ cur' = cur + 1
                            ELSE pc' = "success" /\ cur' = cur
        /\ UNCHANGED <<served, heard>>
     \/ Fail

-----------------------------------------------------------------------------
(***************************************************************************)
(* The applications.                                                       *)
(***************************************************************************)

\* The application logs its arguments, finds the client's endpoint on the name
\* server and calls KnCmConnect(), which has no timeout.
Connect(a) ==
  /\ app[a] = "running"
  /\ app' = [app EXCEPT ![a] = "connecting"]
  /\ UNCHANGED <<pc, cur, served, heard>>

\* It calls Notification().
Call(a) ==
  /\ app[a] = "connected"
  /\ app' = [app EXCEPT ![a] = "calling"]
  /\ UNCHANGED <<pc, cur, served, heard>>

\* Up to the notification any error makes it return; later it can only crash.
Exit(a) ==
  /\ app[a] \in Live
  /\ app' = [app EXCEPT ![a] = "exited"]
  /\ UNCHANGED <<pc, cur, served, heard>>

Stopped == Ended /\ (\A a \in Apps : app[a] \notin Live) /\ UNCHANGED vars

-----------------------------------------------------------------------------
Client ==
  Prepare \/ StartEntity \/ (\E a \in Apps : Listen(a)) \/ Accept \/ Recv
  \/ Reply \/ StopEntity

Next == \/ Client \/ ListenFails \/ RecvFails \/ Stopped
        \/ \E a \in Apps : Connect(a) \/ Call(a) \/ Exit(a)

Spec == Init /\ [][Next]_vars

(***************************************************************************)
(* The processes are scheduled fairly and the external calls return,       *)
(* except that KnCmListen() and nk_transport_recv() return only if an      *)
(* application connects or calls: nobody need tell the client that it      *)
(* ended.                                                                  *)
(***************************************************************************)
FairSpec == /\ Spec /\ WF_vars(Client)
            /\ \A a \in Apps : WF_vars(Connect(a)) /\ WF_vars(Call(a))

-----------------------------------------------------------------------------
(***************************************************************************)
(* Properties.                                                             *)
(***************************************************************************)

\* The type invariant of the client and the applications.
TypeOK ==
  /\ pc \in {"publish", "start", "stop", "success", "failure"} \cup Waiting
  /\ cur \in Apps /\ served \in Apps \cup {0}
  /\ app \in [Apps -> Live \cup {"absent", "exited", "stopped"}]
  /\ heard \subseteq Apps

\* WaitForNotification() does not look at the sender, yet the notification
\* that ends the wait for an application is always its own.
NotifiedByTheOneStarted ==
  /\ pc \in {"accept", "recv", "reply"} => served = cur
  /\ pc = "reply" => served \in heard

\* An application is started only after all earlier ones were heard.
StartedInTurn ==
  \A a, b \in Apps : a < b /\ app[b] # "absent" => a \in heard

\* No application is stopped before all of them have reported that their work
\* is done.
StoppedAfterWork == (\E a \in Apps : app[a] = "stopped") => heard = Apps

\* If main() returns EXIT_SUCCESS, every application was heard and has ended.
SuccessMeansStopped ==
  pc = "success" => heard = Apps /\ \A a \in Apps : app[a] \notin Live

\* The client waits for an application that ended before it was heard.
Deserted == pc \in {"listen", "recv"} /\ app[cur] = "exited"

\* The client ends, unless an application ends while it is waited for.
ClientEnds == <>(Ended \/ Deserted)

\* An application that waits to be stopped is stopped, unless it crashes, the
\* client fails or the client is deserted by another one.
AliveIsStopped ==
  \A a \in Apps : (app[a] = "alive") ~> (app[a] # "alive" \/ pc = "failure" \/ Deserted)

(***************************************************************************)
(* The inductive invariant: which applications have been started, heard    *)
(* and stopped at each point of main().                                    *)
(***************************************************************************)
IInv ==
  /\ TypeOK
  /\ NotifiedByTheOneStarted /\ StartedInTurn /\ StoppedAfterWork
  /\ SuccessMeansStopped
  /\ pc \in {"publish", "start"} => app[cur] = "absent"
  /\ pc \in {"publish", "start"} \cup Waiting =>
       \A a \in Apps : /\ a < cur => a \in heard /\ app[a] \in {"alive", "exited"}
                       /\ a > cur => app[a] = "absent"
  /\ pc = "publish" => cur = 1
  /\ pc = "stop" => /\ heard = Apps
                    /\ \A a \in Apps : a < cur => app[a] \notin Live
=============================================================================
