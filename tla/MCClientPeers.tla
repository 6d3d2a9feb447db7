---------------------------- MODULE MCClientPeers -----------------------------
(* A client with two possible peers for TLC. *)
EXTENDS ClientPeers, TLC

CONSTANTS peer1, peer2

(* Both peers, and one of them twice, as client_peers_rand names them.      *)
SomeLists == {<<peer1, peer2>>, <<peer2, peer2>>}

BothPeers == {<<peer1, peer2>>}
===============================================================================
