---------------------------- MODULE MCMcpSession ----------------------------
(* A call of the application and one of a notification handler share the       *)
(* session with an execution of Close and one request of the peer.             *)
EXTENDS McpSession
CONSTANTS c1, h1, k1, r1

MCAppCalls     == {c1}
MCHandlerCalls == {h1}
MCClosers      == {k1}
MCInbound      == {r1}
=============================================================================
