------------------------------- MODULE PeerGraph -------------------------------
(***************************************************************************)
(* One call of manage_graph in the name server, which holds the mutex of   *)
(* client_list throughout: the clients are shuffled, combined to a graph,  *)
(* and for every client the graph is searched for its node, the neighbours *)
(* of which are sent to it.  NameServer takes from this that a client is   *)
(* told of all others.                                                     *)
(*                                                                         *)
(* A node is the client that is its data.  Arrays start at 1 here.         *)
(***************************************************************************)
EXTENDS Naturals, Sequences, FiniteSets, SequencesExt

CONSTANTS Clients,             \* clients that may be connected
          minConnections,      \* argument of combineNodesToGraph
          PEER_POOL_SIZE

ASSUME GraphAssumption ==
  /\ minConnections \in Nat
  /\ PEER_POOL_SIZE \in Nat

VARIABLES
  client_list,        \* the clients connected, in the order they came
  pc,                 \* where manage_graph is
  group,              \* the array that is shuffled
  counter,            \* loop variable of the shuffle
  count, sub,         \* loop variables of combineNodesToGraph
  connections,        \* connections[c]: the array of the node of c
  here,               \* position of the client that is searched for
  queue, sight,       \* lists of the breadth first search
  target,             \* node the search is at
  msg                 \* msg[c]: the entries of the message sent to c

vars == <<client_list, pc, group, counter, count, sub, connections, here, queue,
          sight, target, msg>>

size == Len(client_list)

Members == {client_list[k] : k \in 1..size}

Start(list) ==
  /\ client_list = list
  /\ group = list
  /\ counter = Len(list)
  /\ count = 1
  /\ sub = 1
  /\ connections = [c \in Clients |-> <<>>]
  /\ here = 1
  /\ queue = <<>>
  /\ sight = <<>>
  /\ target = list[1]
  /\ msg = [c \in Clients |-> <<>>]

Lists == {s \in UNION {[1..n -> Clients] : n \in 1..Cardinality(Clients)} :
            \A j, k \in DOMAIN s : s[j] = s[k] => j = k}

Init == pc = "shuffle" /\ \E list \in Lists : Start(list)

-------------------------------------------------------------------------------
(* Part 1: the last element not yet fixed is exchanged with one before it.  *)
Exchange(array, j, k) == [array EXCEPT ![j] = array[k], ![k] = array[j]]

(* Mutation: the loop variable is decreased in the header and in the body.  *)
ShuffleByTwo ==
  /\ pc = "shuffle"
  /\ counter > 1
  /\ \E num \in 1..(counter - 1) : group' = Exchange(group, num, counter)
  /\ counter' = counter - 2
  /\ UNCHANGED <<client_list, pc, count, sub, connections, here, queue, sight,
                 target, msg>>

(* Mutation: an element may be exchanged with itself, as in Fisher-Yates.   *)
ShuffleInPlace ==
  /\ pc = "shuffle"
  /\ counter > 1
  /\ \E num \in 1..counter : group' = Exchange(group, num, counter)
  /\ counter' = counter - 1
  /\ UNCHANGED <<client_list, pc, count, sub, connections, here, queue, sight,
                 target, msg>>

Shuffle ==
  /\ pc = "shuffle"
  /\ counter > 1
  /\ \E num \in 1..(counter - 1) : group' = Exchange(group, num, counter)
  /\ counter' = counter - 1
  /\ UNCHANGED <<client_list, pc, count, sub, connections, here, queue, sight,
                 target, msg>>

Shuffled ==
  /\ pc = "shuffle"
  /\ counter = 1
  /\ pc' = IF size = 1 THEN "next" ELSE "link"
  /\ UNCHANGED <<client_list, group, counter, count, sub, connections, here,
                 queue, sight, target, msg>>

-------------------------------------------------------------------------------
(* Part 2: combineNodesToGraph. *)

(* Mutation: the edge is entered at one end only.                           *)
addConnectionOneWay(uno, dos) ==
  connections' = IF uno = dos THEN connections
                 ELSE [connections EXCEPT ![uno] = Append(@, dos)]

(* Mutation: a node may be connected with itself.                           *)
addConnectionSelf(uno, dos) ==
  connections' = IF uno = dos
                 THEN [connections EXCEPT ![uno] = Append(Append(@, dos), uno)]
                 ELSE [connections EXCEPT ![uno] = Append(@, dos),
                                          ![dos] = Append(@, uno)]

addConnection(uno, dos) ==
  connections' = IF uno = dos THEN connections
                 ELSE [connections EXCEPT ![uno] = Append(@, dos),
                                          ![dos] = Append(@, uno)]

(* The two branches for more than one node: each is connected with the      *)
(* minConnections - 1 behind it, or with all.                               *)
Few == size < minConnections - 1

Subs == IF Few THEN (IF size < minConnections THEN size ELSE minConnections) - 1
        ELSE size

Partner == IF ~ Few THEN sub
           ELSE IF count - 1 + sub >= size THEN sub + 1 ELSE count + sub

(* Mutation: only the connections of the first node are made.               *)
LinkFirst ==
  /\ pc = "link"
  /\ addConnection(group[count], group[Partner])
  /\ sub' = sub + 1
  /\ pc' = IF sub < Subs THEN "link" ELSE "next"
  /\ UNCHANGED <<client_list, group, counter, count, here, queue, sight, target,
                 msg>>

Link ==
  /\ pc = "link"
  /\ addConnection(group[count], group[Partner])
  /\ IF sub < Subs THEN sub' = sub + 1 /\ UNCHANGED count
                   ELSE sub' = 1 /\ count' = count + 1
  /\ pc' = IF sub = Subs /\ count = size THEN "next" ELSE "link"
  /\ UNCHANGED <<client_list, group, counter, here, queue, sight, target, msg>>

-------------------------------------------------------------------------------
(* Part 3: the graph is the last node of the array; for every client on the *)
(* list a search starts there.                                              *)
NextClient ==
  /\ pc = "next"
  /\ here <= size
  /\ queue' = <<group[size]>>
  /\ sight' = <<group[size]>>
  /\ pc' = "search"
  /\ UNCHANGED <<client_list, group, counter, count, sub, connections, here,
                 target, msg>>

(* The nodes seen once the edges of a node are worked off, in the order in  *)
(* which they are added to both lists.                                      *)
Seen(node) ==
  LET edges == connections[node]
      seen[j \in 0..Len(edges)] ==
        IF j = 0 THEN sight
        ELSE LET before == seen[j - 1]
             IN  IF Contains(before, edges[j]) THEN before ELSE Append(before, edges[j])
  IN  seen[Len(edges)]

(* When nothing is left to search, target stays where it is.                *)
Search ==
  /\ pc = "search"
  /\ target' = Head(queue)
  /\ sight' = IF target' = client_list[here] THEN sight ELSE Seen(target')
  /\ queue' = Tail(queue) \o SubSeq(sight', Len(sight) + 1, Len(sight'))
  /\ pc' = IF target' = client_list[here] \/ queue' = <<>> THEN "send" ELSE "search"
  /\ UNCHANGED <<client_list, group, counter, count, sub, connections, here, msg>>

(* client_peers_static below the size of the pool, else client_peers_rand;  *)
(* a client that is alone is sent nothing.                                  *)
client_peers_static(c) ==
  LET peers[k \in 0..size] ==
        IF k = 0 THEN <<>>
        ELSE IF client_list[k] = c THEN peers[k - 1]
        ELSE Append(peers[k - 1], client_list[k])
  IN  peers[size]

client_peers_rand(node) == connections[node]

client_send_peers ==
  /\ pc = "send"
  /\ LET c == client_list[here] IN
       msg' = [msg EXCEPT ![c] = IF PEER_POOL_SIZE > size
                                 THEN client_peers_static(c)
                                 ELSE client_peers_rand(target)]
  /\ here' = here + 1
  /\ pc' = IF here = size THEN "done" ELSE "next"
  /\ UNCHANGED <<client_list, group, counter, count, sub, connections, queue,
                 sight, target>>

-------------------------------------------------------------------------------
Next == Shuffle \/ Shuffled \/ Link \/ NextClient \/ Search \/ client_send_peers

Spec == Init /\ [][Next]_vars

-------------------------------------------------------------------------------
Nodes == Seq(Clients)

TypeOK ==
  /\ client_list \in Nodes
  /\ pc \in {"shuffle", "link", "next", "search", "send", "done"}
  /\ group \in Nodes
  /\ counter \in 1..size
  /\ count \in 1..(size + 1)
  /\ sub \in 1..size
  /\ connections \in [Clients -> Nodes]
  /\ here \in 1..(size + 1)
  /\ queue \in Nodes
  /\ sight \in Nodes
  /\ target \in Clients
  /\ msg \in [Clients -> Nodes]

(* The search ends at the client it was made for: else the client would be  *)
(* sent the neighbours of another node.                                     *)
SearchFinds == pc = "send" => target = client_list[here]

(* "Creates a two-way connection between uno and dos": also when edges are  *)
(* made twice, from either end, both ends have them equally often.          *)
Often(node, n) == Cardinality({k \in 1..Len(connections[node]) :
                                 connections[node][k] = n})

TwoWay == \A c, d \in Members : Often(c, d) = Often(d, c)

(* In the end every client has been sent all the others and not itself,     *)
(* whichever of the two ways of writing the message was taken.              *)
EveryoneTold ==
  pc = "done" => \A c \in Members : ToSet(msg[c]) = Members \ {c}

(* How long the message can get: client_peers_rand names every other client *)
(* twice, whatever PEER_POOL_SIZE is.                                       *)
MessageLength == \A c \in Members : Len(msg[c]) <= 2 * (size - 1)

(* The bound of the random index leaves out the element itself, so that the *)
(* shuffle is not the one its comment names: of all orders of the clients   *)
(* it gives those that are one cycle, and no set of clients, and no single  *)
(* one, keeps its places.                                                   *)
OneCycle ==
  pc # "shuffle" =>
    \A S \in (SUBSET (1..size)) \ {{}, 1..size} :
      {group[k] : k \in S} # {client_list[k] : k \in S}
===============================================================================
