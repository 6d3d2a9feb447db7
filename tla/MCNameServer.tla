----------------------------- MODULE MCNameServer -----------------------------
(* A name server with a few clients for TLC. *)
EXTENDS NameServer, TLC

CONSTANTS a, b, c

Symmetry == Permutations(Clients)
===============================================================================
