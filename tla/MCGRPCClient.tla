---------------------------- MODULE MCGRPCClient ----------------------------
(* GRPCClient with a few server tasks for TLC. *)
EXTENDS GRPCClient

\* Every type of the protocol, and one that is unknown to the client.
AllTypes == TaskType \cup {Unknown}
=============================================================================
