----------------------------- MODULE WifiClient -----------------------------
(***************************************************************************)
(* The Client of examples/wifi/wpa_supplicant_client and its class         *)
(* ConnectionManager, with the WpaSupplicant program it sends text         *)
(* commands to.                                                            *)
(*                                                                         *)
(* WpaSupplicant is not part of the repository.  Taken from it: it knows   *)
(* no network but those added by commands (resources/hdd/etc/              *)
(* wpa_supplicant.conf names none), it associates with an enabled network  *)
(* and loses it again at any time, and it leaves a network that was        *)
(* disabled.  A command whose answer is lost may have been executed.       *)
(***************************************************************************)
EXTENDS Naturals

CONSTANT DefaultTimeout   \* defaultTimeout, the seconds WaitStatus() waits

ASSUME WifiClientAssumption == DefaultTimeout \in Nat \ {0}

VARIABLES
  pc,        \* what main() and the method it is in do next
  server,    \* serverIp of client.conf
  id,        \* m_networkId: an identifier, or the answer to a failed command
  timeout,   \* the seconds left in WaitStatus()
  status,    \* the wpa_state WaitStatus() read last, or the empty string
  tcp,       \* the test connection
  net,       \* what WpaSupplicant knows of the added network
  flag,      \* whether the network is enabled
  wpa        \* WpaSupplicant's wpa_state

client     == <<server, id, timeout, status, tcp>>
supplicant == <<net, flag, wpa>>
vars       == <<pc, client, supplicant>>

Ended == pc \in {"success", "failure", "terminated"}

Init ==
  /\ pc = "scan" /\ server \in {"missing", "malformed", "valid"}
  /\ id = "none" /\ timeout = 0 /\ status = "empty" /\ tcp = "none"
  /\ net = "absent" /\ flag = "DISABLED" /\ wpa = "DISCONNECTED"

-----------------------------------------------------------------------------
(***************************************************************************)
(* ConnectionManager.                                                      *)
(***************************************************************************)

\* A command that turns the network into n and its enabling into e.  It is
\* answered "OK" and main() goes on, or it is refused or its answer lost.
RunCommand(n, e, next) ==
  \/ net' = n /\ flag' = e /\ pc' = next
  \/ net' = n /\ flag' = e /\ pc' = "failure"
  \/ UNCHANGED <<net, flag>> /\ pc' = "failure"

\* The constructor, the first GetConnectionStatus(), and GetNetworks().
GetNetworks ==
  /\ pc = "scan"
  /\ pc' \in {"add", "failure"}
  /\ UNCHANGED <<client, supplicant>>

\* AddNetwork(), whose result Connect() does not look at.
AddNetwork ==
  /\ pc = "add"
  /\ \/ net' = "added" /\ id' = "id"
     \/ net' \in {"absent", "added"} /\ id' = "FAIL"
  /\ pc' = "ssid"
  /\ UNCHANGED <<server, timeout, status, tcp, flag, wpa>>

\* Mistake: the answer to SET_NETWORK is not looked at.
SetNetworkUnchecked(property, n, next) ==
  /\ pc = property
  /\ net' \in {n, net} /\ pc' = next
  /\ UNCHANGED <<client, flag, wpa>>

\* SetNetwork(): WpaSupplicant refuses an identifier it did not hand out.
SetNetwork(property, n, next) ==
  /\ pc = property
  /\ IF id = "id" THEN RunCommand(n, flag, next)
                  ELSE pc' = "failure" /\ UNCHANGED <<net, flag>>
  /\ UNCHANGED <<client, wpa>>

SelectNetwork ==
  /\ pc = "select"
  /\ RunCommand(net, "ENABLED", "waitUp")
  /\ timeout' = DefaultTimeout
  /\ UNCHANGED <<server, id, status, tcp, wpa>>

\* Mistake: Disconnect() does not look at the answer to DISABLE_NETWORK.
DisableNetworkUnchecked ==
  /\ pc = "disable"
  /\ flag' \in {"DISABLED", flag} /\ pc' = "waitDown"
  /\ timeout' = DefaultTimeout
  /\ UNCHANGED <<server, id, status, tcp, net, wpa>>

DisableNetwork ==
  /\ pc = "disable"
  /\ RunCommand(net, "DISABLED", "waitDown")
  /\ timeout' = DefaultTimeout
  /\ UNCHANGED <<server, id, status, tcp, wpa>>

\* What GetProperty(GetStatus(), "wpa_state") can return: the state, or the empty
\* string if the STATUS command fails.
GetStatus == {wpa, "empty"}

\* Mistake: the seconds are not counted down.
WaitStatusForever(checker, next) ==
  /\ \E s \in GetStatus : status' = s /\ pc' = IF s \in checker THEN next ELSE pc
  /\ UNCHANGED <<server, id, timeout, tcp, supplicant>>

\* Mistake: the end of the time counts as the status waited for.
WaitStatusTrue(checker, next) ==
  /\ IF timeout > 0
       THEN /\ timeout' = timeout - 1
            /\ \E s \in GetStatus :
                 status' = s /\ pc' = IF s \in checker THEN next ELSE pc
       ELSE pc' = next /\ UNCHANGED <<timeout, status>>
  /\ UNCHANGED <<server, id, tcp, supplicant>>

\* One round of the loop of WaitStatus(), which goes on to next when the
\* status is one of those the checker is content with.
WaitStatus(checker, next) ==
  /\ IF timeout > 0
       THEN /\ timeout' = timeout - 1
            /\ \E s \in GetStatus :
                 status' = s /\ pc' = IF s \in checker THEN next ELSE pc
       ELSE pc' = "failure" /\ UNCHANGED <<timeout, status>>
  /\ UNCHANGED <<server, id, tcp, supplicant>>

\* The loops of Connect() and Disconnect().
WaitCompleted    == pc = "waitUp"   /\ WaitStatus({"COMPLETED"}, "online")
WaitNotCompleted == pc = "waitDown" /\ WaitStatus({"DISCONNECTED", "empty"}, "success")

-----------------------------------------------------------------------------
(***************************************************************************)
(* main() between Connect() and Disconnect().                              *)
(***************************************************************************)

\* BoostTcpSocket's constructor.  from_string() throws if serverIp is not an
\* address, and nothing catches it; an error of connect() is kept in m_ec.
ConnectServer ==
  /\ pc = "online"
  /\ \/ server = "missing"   /\ pc' = "disable"    /\ UNCHANGED tcp
     \/ server = "malformed" /\ pc' = "terminated" /\ UNCHANGED tcp
     \/ server = "valid"     /\ pc' = "send"       /\ tcp' \in {"open", "failed"}
  /\ UNCHANGED <<server, id, timeout, status, supplicant>>

\* Send() returns at once if m_ec is set; then the socket is closed.
Send ==
  /\ pc = "send"
  /\ tcp' \in IF tcp = "open" THEN {"sent", "failed"} ELSE {tcp}
  /\ pc' = "disable"
  /\ UNCHANGED <<server, id, timeout, status, supplicant>>

-----------------------------------------------------------------------------
(***************************************************************************)
(* WpaSupplicant on its own.                                               *)
(***************************************************************************)
Associate == /\ flag = "ENABLED" /\ wpa = "DISCONNECTED" /\ wpa' = "COMPLETED"
             /\ UNCHANGED <<pc, client, net, flag>>

LoseNetwork == /\ flag = "ENABLED" /\ wpa = "COMPLETED" /\ wpa' = "DISCONNECTED"
               /\ UNCHANGED <<pc, client, net, flag>>

LeaveNetwork == /\ flag = "DISABLED" /\ wpa = "COMPLETED" /\ wpa' = "DISCONNECTED"
                /\ UNCHANGED <<pc, client, net, flag>>

Stopped == Ended /\ UNCHANGED vars

-----------------------------------------------------------------------------
Client ==
  \/ GetNetworks \/ AddNetwork \/ SetNetwork("ssid", "named", "psk")
  \/ SetNetwork("psk", "ready", "select") \/ SelectNetwork \/ WaitCompleted
  \/ ConnectServer \/ Send \/ DisableNetwork \/ WaitNotCompleted

Next == Client \/ Associate \/ LoseNetwork \/ LeaveNetwork \/ Stopped

Spec == Init /\ [][Next]_vars

\* The client is scheduled, its calls return, and WpaSupplicant leaves a
\* disabled network in the end.  Nothing makes it associate.
FairSpec == Spec /\ WF_vars(Client) /\ WF_vars(LeaveNetwork)

-----------------------------------------------------------------------------
(***************************************************************************)
(* Properties.                                                             *)
(***************************************************************************)

\* The type invariant of the client and WpaSupplicant; WaitStatus() never waits
\* longer than its timeout.
TypeOK ==
  /\ pc \in {"scan", "add", "ssid", "psk", "select", "waitUp", "online", "send",
             "disable", "waitDown", "success", "failure", "terminated"}
  /\ server \in {"missing", "malformed", "valid"}
  /\ id \in {"none", "id", "FAIL"}
  /\ timeout \in 0..DefaultTimeout
  /\ status \in {"empty", "COMPLETED", "DISCONNECTED"}
  /\ tcp \in {"none", "open", "failed", "sent"}
  /\ net \in {"absent", "added", "named", "ready"}
  /\ flag \in {"ENABLED", "DISABLED"}
  /\ wpa \in {"COMPLETED", "DISCONNECTED"}

\* Although Connect() ignores the result of AddNetwork(), only a network with
\* both its name and its key is ever enabled, so an association is with the
\* configured network.
OnlyConfiguredNetwork == (flag = "ENABLED" \/ wpa = "COMPLETED") => net = "ready"

\* The test connection is tried only with the network enabled and after its
\* association was read from STATUS.
OnlineWhenSeen ==
  pc \in {"online", "send", "disable"} => flag = "ENABLED" /\ status = "COMPLETED"

\* When main() returns EXIT_SUCCESS the network is disabled; it is also left
\* already, unless the STATUS command failed: the empty string is not
\* "COMPLETED" either, and counts as disconnected.
DisconnectConfirmed ==
  pc = "success" => flag = "DISABLED" /\ (status # "empty" => wpa = "DISCONNECTED")

\* Whatever WpaSupplicant answers, the program ends.
ProgramEnds == <>Ended

\* After a successful run the network is left for good.
NetworkLeft == (pc = "success") ~> [](wpa = "DISCONNECTED")

(***************************************************************************)
(* The inductive invariant.                                                *)
(***************************************************************************)
IInv ==
  /\ TypeOK /\ OnlyConfiguredNetwork /\ OnlineWhenSeen /\ DisconnectConfirmed
  /\ pc \in {"scan", "add", "ssid", "psk", "select"} =>
       flag = "DISABLED" /\ wpa = "DISCONNECTED"
  /\ pc \in {"psk", "select"} => id = "id"
  /\ pc = "select" => net = "ready"
  /\ pc = "waitUp" => flag = "ENABLED"
  /\ pc = "waitDown" => flag = "DISABLED"
=============================================================================
