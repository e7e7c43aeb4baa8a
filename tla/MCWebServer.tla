---------------------------- MODULE MCWebServer ----------------------------
(***************************************************************************)
(* Instances of WebServer for TLC.                                         *)
(***************************************************************************)
EXTENDS WebServer

CONSTANTS c1, c2

Get(target, token, keepAlive) ==
  [target |-> target, method |-> "get", token |-> token, keepAlive |-> keepAlive]

\* Requests for a token and for data, kept alive or not; one for each other
\* outcome of HandleRequest().
Browsing ==
  {Get("/gettoken", "none", TRUE), Get("/gettoken", "none", FALSE),
   Get("/getdata", "issued", TRUE), Get("/getdata", "forged", FALSE),
   Get("missing", "none", FALSE), Get("unreadable", "none", TRUE),
   Get("file", "none", TRUE), Get("illegal", "none", TRUE),
   [target |-> "/getdata", method |-> "other", token |-> "none", keepAlive |-> TRUE]}

\* And one whose token does not fit the call of the token service.
AnyBrowsing == Browsing \cup {Get("/getdata", "overlong", TRUE)}
=============================================================================
