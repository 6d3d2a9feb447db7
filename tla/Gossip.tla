-------------------------------- MODULE Gossip --------------------------------
(***************************************************************************)
(* What the flooding of messages between clients promises, with neither    *)
(* threads, buffers nor sockets: every client has a set of messages it     *)
(* knows, the author of a message may publish it, and a client may learn a *)
(* message that a client having it as a peer already knows.                *)
(***************************************************************************)
EXTENDS Naturals, Sequences

CONSTANTS Nodes,      \* the clients
          Msgs,       \* the messages, each one typed at most once
          peer_list,  \* peer_list[n] is the sequence of the peers n sends to
          Author      \* Author[m] is the client whose user types m

VARIABLE known        \* known[n] is the set of the messages n has seen

(* a sends what it relays to n. *)
FeedsInto(a, n) == \E k \in 1..Len(peer_list[a]) : peer_list[a][k] = n

Init == known = [n \in Nodes |-> {}]

Publish(m) ==
  /\ m \notin known[Author[m]]
  /\ known' = [known EXCEPT ![Author[m]] = @ \union {m}]

Learn(n, m) ==
  /\ m \notin known[n]
  /\ \E a \in Nodes : FeedsInto(a, n) /\ m \in known[a]
  /\ known' = [known EXCEPT ![n] = @ \union {m}]

Next == \E m \in Msgs : Publish(m) \/ \E n \in Nodes : Learn(n, m)

Spec == Init /\ [][Next]_known
===============================================================================
