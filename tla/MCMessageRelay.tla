---------------------------- MODULE MCMessageRelay ----------------------------
(* Small networks of clients for TLC. *)
EXTENDS MessageRelay, TLC

CONSTANTS a, b, c, m1, m2, m3, m4, m5, m6

(* The mesh of two clients. *)
PairPeers == a :> <<b>> @@ b :> <<a>>

(* a feeds two clients that feed each other: the smallest network in which  *)
(* a message comes in at a client on two connections before it goes round.  *)
FanPeers == a :> <<b, c>> @@ b :> <<c>> @@ c :> <<b>>

(* a feeds one of two clients that feed each other: messages of all three   *)
(* come in there on two connections, and its own comes back.                *)
TailPeers == a :> <<b>> @@ b :> <<c>> @@ c :> <<b>>

TwoOfA       == m1 :> a @@ m2 :> a
TwoOfAAndBC  == m1 :> a @@ m2 :> a @@ m3 :> b @@ m4 :> c
ThreeEach    == m1 :> a @@ m2 :> a @@ m3 :> a @@ m4 :> b @@ m5 :> b @@ m6 :> b
===============================================================================
