-------------------------- MODULE WifiClientProofs --------------------------
(***************************************************************************)
(* Proofs about the Wi-Fi client, for every timeout of WaitStatus().       *)
(***************************************************************************)
EXTENDS WifiClient, TLAPS

\* The initial state satisfies the inductive invariant.
LEMMA InitIInv == Init => IInv
  BY WifiClientAssumption
  DEF Init, IInv, TypeOK, OnlyConfiguredNetwork, OnlineWhenSeen, DisconnectConfirmed

\* Every step of main(), of ConnectionManager and of WpaSupplicant preserves it.
LEMMA StepIInv == IInv /\ [Next]_vars => IInv'
<1> SUFFICES ASSUME IInv, [Next]_vars PROVE IInv'
    OBVIOUS
<1> USE WifiClientAssumption
<1> USE DEF IInv, TypeOK, OnlyConfiguredNetwork, OnlineWhenSeen, DisconnectConfirmed,
            client, supplicant
<1>1. CASE GetNetworks
  BY <1>1 DEF GetNetworks
<1>2. CASE AddNetwork
  BY <1>2 DEF AddNetwork
<1>3. CASE SetNetwork("ssid", "named", "psk")
  BY <1>3 DEF SetNetwork, RunCommand
<1>4. CASE SetNetwork("psk", "ready", "select")
  BY <1>4 DEF SetNetwork, RunCommand
<1>5. CASE SelectNetwork
  BY <1>5 DEF SelectNetwork, RunCommand
<1>6. CASE WaitCompleted
  <2>1. CASE timeout > 0
    BY <1>6, <2>1 DEF WaitCompleted, WaitStatus, GetStatus
  <2>2. CASE ~(timeout > 0)
    BY <1>6, <2>2 DEF WaitCompleted, WaitStatus
  <2> QED BY <2>1, <2>2
<1>7. CASE WaitNotCompleted
  <2>1. CASE timeout > 0
    BY <1>7, <2>1 DEF WaitNotCompleted, WaitStatus, GetStatus
  <2>2. CASE ~(timeout > 0)
    BY <1>7, <2>2 DEF WaitNotCompleted, WaitStatus
  <2> QED BY <2>1, <2>2
<1>8. CASE ConnectServer
  BY <1>8 DEF ConnectServer
<1>9. CASE Send
  BY <1>9 DEF Send
<1>10. CASE DisableNetwork
  BY <1>10 DEF DisableNetwork, RunCommand
<1>11. CASE Associate
  BY <1>11 DEF Associate
<1>12. CASE LoseNetwork
  BY <1>12 DEF LoseNetwork
<1>13. CASE LeaveNetwork
  BY <1>13 DEF LeaveNetwork
<1>14. CASE UNCHANGED vars
  BY <1>14 DEF vars
<1> QED
  BY <1>1, <1>2, <1>3, <1>4, <1>5, <1>6, <1>7, <1>8, <1>9, <1>10, <1>11, <1>12,
     <1>13, <1>14
  DEF Next, Client, Stopped

\* The inductive invariant holds in every state of every behaviour.
THEOREM Invariance == Spec => []IInv
<1>1. QED
  BY InitIInv, StepIInv, PTL DEF Spec

\* WaitStatus() counts within its timeout, and all variables have their types.
THEOREM TypeCorrect == Spec => []TypeOK
<1>1. IInv => TypeOK
  BY DEF IInv
<1>2. QED
  BY Invariance, <1>1, PTL

\* SET_NETWORK's results make up for the unchecked result of ADD_NETWORK.
THEOREM ConfiguredNetwork == Spec => []OnlyConfiguredNetwork
<1>1. IInv => OnlyConfiguredNetwork
  BY DEF IInv
<1>2. QED
  BY Invariance, <1>1, PTL

\* main() goes online only after it has read that the network is associated.
THEOREM OnlineOnlyWhenSeen == Spec => []OnlineWhenSeen
<1>1. IInv => OnlineWhenSeen
  BY DEF IInv
<1>2. QED
  BY Invariance, <1>1, PTL

\* EXIT_SUCCESS means that the network is disabled, and left if STATUS said so.
THEOREM Disconnected == Spec => []DisconnectConfirmed
<1>1. IInv => DisconnectConfirmed
  BY DEF IInv
<1>2. QED
  BY Invariance, <1>1, PTL
=============================================================================
