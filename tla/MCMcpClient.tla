----------------------------- MODULE MCMcpClient -----------------------------
(* Two goroutines call a tool on one client that has a heartbeat.               *)
EXTENDS McpClient
CONSTANTS u1, u2

MCUsers == {u1, u2}
==============================================================================
