----------------------------- MODULE MCPeerGraph ------------------------------
(* A few clients for TLC. *)
EXTENDS PeerGraph, TLC

Symmetry == Permutations(Clients)
===============================================================================
