----------------------------- MODULE MCMcpBridge -----------------------------
(* A small instance of McpBridge for TLC.                                    *)
EXTENDS McpBridge

=============================================================================
