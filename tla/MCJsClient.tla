----------------------------- MODULE MCJsClient -----------------------------
(* Instances of JsClient for TLC: a subscribe and a ping, two requests that *)
(* differ in their handlers and in what their answers do.                   *)
EXTENDS JsClient

MCKind == <<"subscribe", "ping">>
=============================================================================
