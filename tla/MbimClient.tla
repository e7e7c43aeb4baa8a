----------------------------- MODULE MbimClient -----------------------------
(***************************************************************************)
(* The two programs of examples/cellular that talk to a modem over MBIM:   *)
(*                                                                         *)
(*   "sms"   mbim_sms/client/src/main.c: sends one short message;          *)
(*   "ntpd"  mbim_ntpd/client/src/client.c: sets the clock back, connects  *)
(*           to the Internet and waits for Ntpd to put the clock right.    *)
(*                                                                         *)
(* They share the wait for the SIM card and for the registration, each     *)
(* with its own return values.  The modem, the network and Ntpd are        *)
(* external: they change at any time, and each call may fail with a        *)
(* negative result ("error") or a positive MBIM status ("status").         *)
(***************************************************************************)
EXTENDS SmsPdu

CONSTANTS
  Messages,    \* [smsc, dest, text] of the message to send; main() has smsc NULL
  TimeoutS,    \* TIMEOUT_S
  Attempts     \* ATTEMPTS

ASSUME MbimAssumption ==
  /\ TimeoutS \in Nat /\ Attempts \in Nat
  /\ Messages \subseteq [smsc : Seq(Digit \cup {Plus, Other}) \cup {NULL},
                         dest : Seq(Digit \cup {Plus, Other}), text : Seq(Septet)]

Results   == {"ok", "error", "status"}
NoMessage == [smsc |-> NULL, dest |-> <<>>, text |-> <<>>]

VARIABLES
  program,     \* which of the two programs runs
  message,
  pc,
  timeout,     \* the counter of the current wait
  session,     \* "none", "open" or "closed": VfsMbimOpen() and VfsMbimClose()
  seen,        \* what the modem has reported: "sim", "registered"
  sent,        \* the PDU the modem has accepted, or <<>>
  sim,         \* the SIM card: "starting" or "ready"
  network,     \* the registration: "searching", "registered" or "denied"
  route,       \* the default route: "none", "other" or "modem"
  clock,       \* "before", "birthday" or "after": the year against 2011
  setBy        \* who set the clock last: "nobody", "client" or "ntpd"

world  == <<sim, network>>
time   == <<clock, setBy>>
vars   == <<program, message, pc, timeout, session, seen, sent, world, route, time>>

Ended == pc \in {"success", "failure"}

Init ==
  /\ \/ /\ program = "sms" /\ pc = "iface" /\ message \in Messages
        /\ route = "none" /\ clock = "before"
     \/ /\ program = "ntpd" /\ pc = "gettime" /\ message = NoMessage
        /\ route \in {"none", "other"} /\ clock \in {"before", "after"}
  /\ timeout = 0 /\ session = "none" /\ seen = {} /\ sent = <<>>
  /\ sim = "starting" /\ network = "searching"
  /\ setBy = "nobody"

-----------------------------------------------------------------------------
(***************************************************************************)
(* The surroundings.                                                       *)
(***************************************************************************)
ModemChanges ==
  /\ ~Ended
  /\ \/ sim = "starting" /\ sim' = "ready" /\ UNCHANGED network
     \/ network' \in {"searching", "registered", "denied"} \ {network} /\ UNCHANGED sim
  /\ UNCHANGED <<program, message, pc, timeout, session, seen, sent, route, time>>

\* Ntpd, which only the solution of mbim_ntpd contains, reaches a server over
\* the default route.
NtpSync ==
  /\ program = "ntpd" /\ route # "none" /\ clock' = "after" /\ setBy' = "ntpd"
  /\ UNCHANGED <<program, message, pc, timeout, session, seen, sent, world, route>>

-----------------------------------------------------------------------------
(***************************************************************************)
(* SetInitialTime() of mbim_ntpd: the clock is read ...                    *)
(***************************************************************************)
GetCurrentTimeinfo ==
  /\ pc = "gettime"
  /\ pc' \in {"settime", "failure"}
  /\ UNCHANGED <<program, message, timeout, session, seen, sent, world, route, time>>

\* Mistake: the result of clock_settime() is not looked at.
SetInitialTimeUnchecked ==
  /\ pc = "settime"
  /\ \/ clock' = "birthday" /\ setBy' = "client" /\ pc' \in {"iface", "failure"}
     \/ pc' = "iface" /\ UNCHANGED time
  /\ UNCHANGED <<program, message, timeout, session, seen, sent, world, route>>

\* ... and set, in a later step, to 11.11.2011, then read again.
SetInitialTime ==
  /\ pc = "settime"
  /\ \/ clock' = "birthday" /\ setBy' = "client" /\ pc' \in {"iface", "failure"}
     \/ pc' = "failure" /\ UNCHANGED time
  /\ UNCHANGED <<program, message, timeout, session, seen, sent, world, route>>

\* wait_for_iface() gives up in the end.
WaitForIface ==
  /\ pc = "iface"
  /\ pc' \in {"open", "failure"}
  /\ UNCHANGED <<program, message, timeout, session, seen, sent, world, route, time>>

Open ==
  /\ pc = "open"
  /\ \/ session' = "open" /\ pc' = "sim" /\ timeout' = 0
     \/ pc' = "failure" /\ UNCHANGED <<session, timeout>>
  /\ UNCHANGED <<program, message, seen, sent, world, route, time>>

\* Mistake: a failing path forgets VfsMbimClose().
AbandonOpen == pc' = "failure" /\ UNCHANGED <<session, timeout, seen>>

\* VfsMbimClose() and EXIT_FAILURE: the end of every path that fails after Open.
Abandon == session' = "closed" /\ pc' = "failure" /\ UNCHANGED <<timeout, seen>>

Proceed(label, what) ==
  /\ pc' = label /\ timeout' = 0 /\ seen' = seen \cup what
  /\ UNCHANGED session

\* The loops of both waits: one call, then a second of sleep.
Sleep == timeout' = timeout + 1 /\ UNCHANGED <<pc, session, seen>>

\* A positive status ends the wait; mbim_sms then takes it for success, since
\* main() looks for a negative result only.
WaitSimReady ==
  /\ pc = "sim"
  /\ IF timeout >= TimeoutS THEN Abandon
     ELSE \E ret \in Results :
            \/ ret = "ok" /\ sim = "ready" /\ Proceed("register", {"sim"})
            \/ ret = "ok" /\ sim # "ready" /\ Sleep
            \/ ret = "status" /\ program = "sms" /\ Proceed("register", {})
            \/ ret = "status" /\ program = "ntpd" /\ Abandon
            \/ ret = "error" /\ Abandon
  /\ UNCHANGED <<program, message, sent, world, route, time>>

\* Home, roaming or partner network: on to what the program is for.
WaitRegistered ==
  /\ pc = "register"
  /\ IF timeout >= TimeoutS THEN Abandon
     ELSE \E ret \in Results :
            \/ ret # "ok" /\ Abandon
            \/ ret = "ok" /\ network = "denied" /\ Abandon
            \/ ret = "ok" /\ network = "searching" /\ Sleep
            \/ ret = "ok" /\ network = "registered"
               /\ Proceed(IF program = "sms" THEN "encode" ELSE "connect", {"registered"})
  /\ UNCHANGED <<program, message, sent, world, route, time>>

-----------------------------------------------------------------------------
(***************************************************************************)
(* The rest of main() of mbim_sms.                                         *)
(***************************************************************************)
Encode ==
  /\ pc = "encode"
  /\ IF Refused(message.smsc, message.dest, message.text)
       THEN Abandon
       ELSE pc' = "send" /\ UNCHANGED <<session, timeout, seen>>
  /\ UNCHANGED <<program, message, sent, world, route, time>>

\* A message the modem does not take is only logged.
Send ==
  /\ pc = "send"
  /\ \/ sent' = Handed(message.smsc, message.dest, message.text)
     \/ UNCHANGED sent
  /\ pc' = "close"
  /\ UNCHANGED <<program, message, timeout, session, seen, world, route, time>>

CloseSms ==
  /\ pc = "close"
  /\ session' = "closed"
  /\ \E ret \in Results : pc' = IF ret = "error" THEN "failure" ELSE "success"
  /\ UNCHANGED <<program, message, timeout, seen, sent, world, route, time>>

-----------------------------------------------------------------------------
(***************************************************************************)
(* The rest of main() of mbim_ntpd.                                        *)
(***************************************************************************)

\* MbimConnect(): the connection, the wait for an address and its query.
MbimConnect ==
  /\ pc = "connect"
  /\ \/ pc' = "gateway" /\ UNCHANGED <<session, timeout, seen>>
     \/ Abandon
  /\ UNCHANGED <<program, message, sent, world, route, time>>

\* A new default route, or an update of the one that exists.
SetDefaultGateway ==
  /\ pc = "gateway"
  /\ \/ route' = "modem" /\ Proceed("update", {})
     \/ Abandon /\ UNCHANGED route
  /\ UNCHANGED <<program, message, sent, world, time>>

\* VfsMbimClose(), whatever it returns, and the end with the test's result.
CloseNtpd(code) == session' = "closed" /\ pc' = code /\ UNCHANGED <<timeout, seen>>

\* The year is read again and again, or cannot be read.
WaitTimeUpdate ==
  /\ pc = "update"
  /\ \/ timeout >= Attempts /\ CloseNtpd("failure")
     \/ timeout < Attempts /\ clock = "after" /\ CloseNtpd("success")
     \/ timeout < Attempts /\ clock # "after" /\ Sleep
     \/ timeout < Attempts /\ CloseNtpd("failure")
  /\ UNCHANGED <<program, message, sent, world, route, time>>

-----------------------------------------------------------------------------
Program ==
  \/ GetCurrentTimeinfo \/ SetInitialTime \/ WaitForIface \/ Open
  \/ WaitSimReady \/ WaitRegistered \/ Encode \/ Send \/ CloseSms
  \/ MbimConnect \/ SetDefaultGateway \/ WaitTimeUpdate

Next == Program \/ ModemChanges \/ NtpSync \/ (Ended /\ UNCHANGED vars)

Spec == Init /\ [][Next]_vars

\* One thread, whose calls all return; nothing is assumed of modem and Ntpd.
FairSpec == Spec /\ WF_vars(Program)

-----------------------------------------------------------------------------
(***************************************************************************)
(* Properties.                                                             *)
(***************************************************************************)

TypeOK ==
  /\ program \in {"sms", "ntpd"} /\ message \in Messages \cup {NoMessage}
  /\ pc \in {"gettime", "settime", "iface", "open", "sim", "register", "encode",
             "send", "close", "connect", "gateway", "update", "success", "failure"}
  /\ timeout \in Nat /\ session \in {"none", "open", "closed"}
  /\ seen \subseteq {"sim", "registered"}
  /\ sim \in {"starting", "ready"} /\ network \in {"searching", "registered", "denied"}
  /\ route \in {"none", "other", "modem"}
  /\ clock \in {"before", "birthday", "after"} /\ setBy \in {"nobody", "client", "ntpd"}

\* A network that reads the PDU given to the modem finds the service centre, the
\* number, the ASCII codes of the text and nothing else in it: packing and the
\* separate count of its length agree.
SentAsWritten ==
  sent # <<>> =>
    LET got == Read(sent) IN
      /\ got.smsc = (IF message.smsc = NULL THEN NULL ELSE DropPlus(message.smsc))
      /\ got.dest = DropPlus(message.dest) /\ got.toa = PDU_NUM_INTERNATIONAL
      /\ got.text = message.text /\ got.rest = <<>>
      /\ got.type = PDU_FLAGS_MTI_SMS_SUBMIT /\ got.dcs = PDU_DCS_ASCII7
      /\ Len(sent) <= BufLen

\* "Test passed" is true: it was Ntpd that put the clock right, after the program
\* set it back and not before, and the modem's default route is in place by then
\* (Ntpd may have used another one, where there was one).
PassedMeansSynced ==
  program = "ntpd" /\ pc = "success" =>
    clock = "after" /\ setBy = "ntpd" /\ route = "modem"

\* Nothing is sent and no route set unless the modem has reported that it is
\* registered; mbim_ntpd has also seen a ready SIM card.
OnlyWhenRegistered ==
  /\ sent # <<>> \/ route = "modem" => "registered" \in seen
  /\ route = "modem" => "sim" \in seen

\* How far a program is: what it has opened and what it has seen.
StageInv ==
  /\ program = "sms" => /\ route = "none"
                        /\ pc \notin {"gettime", "settime", "connect", "gateway", "update"}
  /\ program = "ntpd" => pc \notin {"encode", "send", "close"}
  /\ pc \in {"gettime", "settime", "iface", "open"} => session = "none"
  /\ Ended => session # "open"
  /\ pc = "register" /\ program = "ntpd" => "sim" \in seen
  /\ pc \in {"encode", "send", "close", "connect", "gateway", "update"} => "registered" \in seen
  /\ pc \in {"connect", "gateway", "update"} => "sim" \in seen
  /\ pc = "update" => route = "modem"

\* Once the program has set the clock back, only Ntpd puts it right.
ClockInv ==
  /\ setBy = "client" => clock = "birthday"
  /\ program = "ntpd" /\ pc \notin {"gettime", "settime", "failure"} => setBy # "nobody"

\* What is encoded was not refused, and what is sent is what was encoded.
PduInv ==
  LET refused == Refused(message.smsc, message.dest, message.text)
  IN  /\ pc = "send" => ~refused
      /\ sent # <<>> => ~refused /\ sent = Handed(message.smsc, message.dest, message.text)

\* The inductive invariant of the two programs.
IInv == TypeOK /\ StageInv /\ ClockInv /\ PassedMeansSynced /\ OnlyWhenRegistered

\* However the modem answers, the program ends, and leaves no open session.
SessionEnds == <>[](Ended /\ session # "open")
=============================================================================
