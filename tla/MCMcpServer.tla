---------------------------- MODULE MCMcpServer ----------------------------
(* Three requests for two slots, a malformed frame and a notification.       *)
EXTENDS McpServer

CONSTANTS r1, r2, r3, bad, note
=============================================================================
