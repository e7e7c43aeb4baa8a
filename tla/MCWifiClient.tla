---------------------------- MODULE MCWifiClient ----------------------------
(* The Wi-Fi client with the timeout of the cfg. *)
EXTENDS WifiClient
=============================================================================
