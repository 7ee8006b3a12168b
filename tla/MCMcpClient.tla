---------------------------- MODULE MCMcpClient ----------------------------
(* One or two threads that call the client, beside its own.                *)
EXTENDS McpClient, TLC

Symmetry == Permutations(Threads)

=============================================================================
