----------------------------- MODULE MCMcpServer -----------------------------
(* The MCP server for TLC: its event streams are interchangeable.          *)
EXTENDS McpServer, TLC

CONSTANTS s1, s2

Symmetry == Permutations(Streams)

=============================================================================
