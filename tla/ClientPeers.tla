------------------------------ MODULE ClientPeers ------------------------------
(***************************************************************************)
(* The peer list of one client_server process: the name server thread      *)
(* (name_server_handle) replaces it for every PEERS message and connects   *)
(* to the new peers, while handler and input threads send messages to it   *)
(* (client_send_to_all_peers).                                             *)
(*                                                                         *)
(* parse_peers and clean_peers_list take the mutex of the list for every   *)
(* change of the sequence; connect_to_peers does not, and writes the       *)
(* fields of a peer that a sender may be reading.                          *)
(*                                                                         *)
(* The peers are addresses.  At an address listens another client, which   *)
(* may exit, or nobody: the name server lists clients that have left and   *)
(* ports that were not announced.  Sockets never fill here (MessageRelay   *)
(* has the blocking send), and which messages are sent at all is left to   *)
(* MessageRelay: each one is relayed once, by any thread.                  *)
(***************************************************************************)
EXTENDS Naturals, Sequences, FiniteSets

CONSTANTS Peers,       \* addresses
          MayExit,     \* those whose client may exit
          Lists,       \* the lists a PEERS message may have, sequences of Peers
          MaxUpdates,  \* PEERS messages received
          Senders,     \* handler and input threads
          Msgs,        \* messages they relay
          NoMsg,       \* message of a sender that has not had one
          Nobody       \* owner of the mutex no thread holds

ASSUME PeersAssumption ==
  /\ MayExit \subseteq Peers
  /\ Lists \subseteq Seq(Peers)
  /\ MaxUpdates \in Nat
  /\ NoMsg \notin Msgs
  /\ Nobody \notin Senders

VARIABLES
  npc,        \* where the name server thread is
  last,       \* the list of the last PEERS message
  added,      \* its entries that parse_peers has added
  i,          \* next position of connect_to_peers
  updates,    \* PEERS messages received
  peer_list,  \* sequence of peers
  mutex,      \* the sender that holds the mutex of peer_list
  spc, msg,   \* spc[t], msg[t]: where sender t is, and its message
  pos,        \* next position of the send loop
  relayed,    \* the messages some sender has taken up
  up,         \* up[p]: a client listens at p
  alive,      \* this process runs
  got,        \* got[p][m]: copies of m that were put on open connections to p
  was,        \* history: peers connected when the last PEERS message came
  due, owed   \* history: deliveries the send loops started should make

nvars == <<npc, last, added, i, updates, was>>
svars == <<spc, msg, pos, relayed, due, owed>>
vars == <<nvars, peer_list, mutex, svars, up, alive, got>>

(* The socket of a peer: not set, the -1 of a failed connect, or connected: *)
(* to a client that is there, to one that has gone ("fin", "rst"), or gone  *)
(* and known to be so to the kernel ("gone", "dead").                       *)
Sockets == {"unset", "-1", "open", "fin", "rst", "gone", "dead"}

Peer == [who : Peers, socket_fd : Sockets, open_con : BOOLEAN]

Init ==
  /\ npc = "recv" /\ last = <<>> /\ added = 0 /\ i = 1 /\ updates = 0
  /\ peer_list = <<>> /\ mutex = Nobody
  /\ spc = [t \in Senders |-> "idle"]
  /\ msg = [t \in Senders |-> NoMsg]
  /\ pos = 1 /\ relayed = {}
  /\ up \in [Peers -> BOOLEAN]
  /\ alive = TRUE
  /\ got = [p \in Peers |-> [m \in Msgs |-> 0]]
  /\ was = {} /\ due = {} /\ owed = {}

Listed == {last[k] : k \in 1..Len(last)}

Connected == {peer_list[k].who : k \in {l \in 1..Len(peer_list) :
                /\ peer_list[l].open_con
                /\ peer_list[l].socket_fd = "open"}}

-------------------------------------------------------------------------------
(* The name server thread. *)

RecvPeers(list) ==
  /\ npc = "recv"
  /\ updates < MaxUpdates
  /\ last' = list
  /\ added' = 0
  /\ updates' = updates + 1
  /\ was' = Connected
  /\ npc' = "clean"
  /\ UNCHANGED <<i, peer_list, mutex, svars, up, alive, got>>

(* Mutations: the list is emptied without the mutex; it is not emptied.     *)
clean_peers_list_Unlocked ==
  /\ npc = "clean"
  /\ peer_list' = <<>>
  /\ npc' = "add"
  /\ UNCHANGED <<last, added, i, updates, was, mutex, svars, up, alive, got>>

clean_peers_list_Keeping ==
  /\ npc = "clean"
  /\ mutex = Nobody
  /\ npc' = "add"
  /\ UNCHANGED <<last, added, i, updates, was, peer_list, mutex, svars, up,
                 alive, got>>

(* Closes the connections and frees the peers, all under the mutex.         *)
clean_peers_list ==
  /\ npc = "clean"
  /\ mutex = Nobody
  /\ peer_list' = <<>>
  /\ npc' = "add"
  /\ UNCHANGED <<last, added, i, updates, was, mutex, svars, up, alive, got>>

(* The loop of parse_peers; create_peer leaves socket_fd unset.             *)
AddPeer ==
  /\ npc = "add"
  /\ added < Len(last)
  /\ mutex = Nobody
  /\ peer_list' = Append(peer_list, [who |-> last[added + 1],
                                     socket_fd |-> "unset",
                                     open_con |-> FALSE])
  /\ added' = added + 1
  /\ UNCHANGED <<npc, last, i, updates, was, mutex, svars, up, alive, got>>

Parsed ==
  /\ npc = "add"
  /\ added = Len(last)
  /\ i' = 1
  /\ npc' = "connect"
  /\ UNCHANGED <<last, added, updates, was, peer_list, mutex, svars, up, alive, got>>

(* connect_to_peer: connect_to_host, the result of which is stored, and     *)
(* then open_con, whatever the result was.  A peer that is connected is     *)
(* passed over; there is none as long as the list has been emptied.         *)
connect_to_host ==
  /\ npc = "connect"
  /\ i <= Len(peer_list)
  /\ peer_list' = [peer_list EXCEPT ![i].socket_fd =
                     IF peer_list[i].open_con THEN @
                     ELSE IF up[peer_list[i].who] THEN "open" ELSE "-1"]
  /\ npc' = "opened"
  /\ UNCHANGED <<last, added, i, updates, was, mutex, svars, up, alive, got>>

SetOpenCon ==
  /\ npc = "opened"
  /\ peer_list' = [peer_list EXCEPT ![i].open_con = TRUE]
  /\ i' = i + 1
  /\ npc' = "connect"
  /\ UNCHANGED <<last, added, updates, was, mutex, svars, up, alive, got>>

(* Mutation: the last peer is not connected to.                             *)
AllConnectedButLast ==
  /\ npc = "connect"
  /\ i >= Len(peer_list)
  /\ npc' = "recv"
  /\ UNCHANGED <<last, added, i, updates, was, peer_list, mutex, svars, up,
                 alive, got>>

AllConnected ==
  /\ npc = "connect"
  /\ i > Len(peer_list)
  /\ npc' = "recv"
  /\ UNCHANGED <<last, added, i, updates, was, peer_list, mutex, svars, up,
                 alive, got>>

name_server_handle ==
  \/ \E list \in Lists : RecvPeers(list)
  \/ clean_peers_list \/ AddPeer \/ Parsed
  \/ connect_to_host \/ SetOpenCon \/ AllConnected

-------------------------------------------------------------------------------
(* The senders: client_send_to_all_peers. *)

TakeUp(t, m) ==
  /\ spc[t] = "idle"
  /\ m \notin relayed
  /\ msg' = [msg EXCEPT ![t] = m]
  /\ relayed' = relayed \union {m}
  /\ spc' = [spc EXCEPT ![t] = "lock"]
  /\ UNCHANGED <<nvars, peer_list, mutex, pos, due, owed, up,
                 alive, got>>

(* Mutation: the loop starts before the first peer.                         *)
LockPeersFromZero(t) ==
  /\ spc[t] = "lock"
  /\ mutex = Nobody
  /\ mutex' = t
  /\ pos' = 0
  /\ spc' = [spc EXCEPT ![t] = "send"]
  /\ UNCHANGED <<nvars, peer_list, msg, relayed, due, owed, up,
                 alive, got>>

(* due: who is connected gets the message.  owed: so does who was connected *)
(* when the PEERS message came that is being worked on, if it lists him.    *)
LockPeers(t) ==
  /\ spc[t] = "lock"
  /\ mutex = Nobody
  /\ mutex' = t
  /\ pos' = 1
  /\ spc' = [spc EXCEPT ![t] = "send"]
  /\ due' = due \union {<<msg[t], p>> : p \in Connected}
  /\ owed' = owed \union {<<msg[t], p>> : p \in was \intersect Listed}
  /\ UNCHANGED <<nvars, peer_list, msg, relayed, up, alive, got>>

(* Mutation: a message is sent in two parts.                                *)
send_Twice(m) ==
  LET fd == peer_list[pos].socket_fd
      p  == peer_list[pos].who IN
  \/ /\ fd = "open"
     /\ got' = [got EXCEPT ![p][m] = @ + 1]
     /\ UNCHANGED <<peer_list, alive>>
  \/ /\ fd \in {"fin", "rst", "gone", "dead"}
     /\ alive' = FALSE
     /\ UNCHANGED <<got, peer_list>>
  \/ /\ fd = "-1"
     /\ UNCHANGED <<got, peer_list, alive>>

(* send on a connected socket, as in NameServer: a connection that the      *)
(* other side has closed takes one message, or reports its reset, and the   *)
(* send after that raises SIGPIPE.                                          *)
send(m) ==
  LET fd == peer_list[pos].socket_fd
      p  == peer_list[pos].who IN
  \/ /\ fd = "open"
     /\ got' = [got EXCEPT ![p][m] = @ + 1]
     /\ UNCHANGED <<peer_list, alive>>
  \/ /\ fd \in {"fin", "rst"}
     /\ peer_list' = [peer_list EXCEPT ![pos].socket_fd =
                        IF fd = "fin" THEN "gone" ELSE "dead"]
     /\ UNCHANGED <<got, alive>>
  \/ /\ fd \in {"gone", "dead"}
     /\ alive' = FALSE
     /\ UNCHANGED <<got, peer_list>>
  \/ /\ fd = "-1"
     /\ UNCHANGED <<got, peer_list, alive>>

(* send_msg takes every result of send but 0 for success.                   *)
send_msg_peer(t) ==
  /\ spc[t] = "send"
  /\ pos <= Len(peer_list)
  /\ \/ /\ peer_list[pos].open_con
        /\ send(msg[t])
     \/ /\ ~ peer_list[pos].open_con
        /\ UNCHANGED <<peer_list, alive, got>>
  /\ pos' = pos + 1
  /\ UNCHANGED <<nvars, mutex, spc, msg, relayed, due, owed, up>>

(* Mutation: the mutex is kept.                                             *)
ReturnLocked(t) ==
  /\ spc[t] = "send"
  /\ pos > Len(peer_list)
  /\ spc' = [spc EXCEPT ![t] = "idle"]
  /\ UNCHANGED <<nvars, mutex, peer_list, msg, pos, relayed, due,
                 owed, up, alive, got>>

UnlockPeers(t) ==
  /\ spc[t] = "send"
  /\ pos > Len(peer_list)
  /\ mutex' = Nobody
  /\ spc' = [spc EXCEPT ![t] = "idle"]
  /\ UNCHANGED <<nvars, peer_list, msg, pos, relayed, due, owed,
                 up, alive, got>>

client_send_to_all_peers(t) == LockPeers(t) \/ send_msg_peer(t) \/ UnlockPeers(t)

-------------------------------------------------------------------------------
(* The client at p exits: its kernel closes its connections, with a FIN or, *)
(* where messages were not read, a reset.                                   *)
Exit(p) ==
  /\ p \in MayExit
  /\ up[p]
  /\ up' = [up EXCEPT ![p] = FALSE]
  /\ \E end \in {"fin", "rst"} :
       peer_list' = [k \in 1..Len(peer_list) |->
         IF peer_list[k].who = p /\ peer_list[k].socket_fd = "open"
         THEN [peer_list[k] EXCEPT !.socket_fd = end]
         ELSE peer_list[k]]
  /\ UNCHANGED <<nvars, mutex, svars, alive, got>>

-------------------------------------------------------------------------------
(* Nothing is modelled after the process has died.                          *)
Next ==
  /\ alive
  /\ \/ name_server_handle
     \/ \E t \in Senders : \/ \E m \in Msgs : TakeUp(t, m)
                           \/ client_send_to_all_peers(t)
     \/ \E p \in Peers : Exit(p)

Spec == Init /\ [][Next]_vars

(* Threads are scheduled by the kernel.  No PEERS message has to come and   *)
(* no user has to type.                                                     *)
Fairness ==
  /\ WF_vars(alive /\ npc # "recv" /\ name_server_handle)
  /\ \A t \in Senders : WF_vars(alive /\ client_send_to_all_peers(t))

FairSpec == Spec /\ Fairness

-------------------------------------------------------------------------------
TypeOK ==
  /\ npc \in {"recv", "clean", "add", "connect", "opened"}
  /\ last \in Seq(Peers)
  /\ added \in Nat /\ i \in Nat \ {0} /\ updates \in 0..MaxUpdates
  /\ peer_list \in Seq(Peer)
  /\ mutex \in Senders \union {Nobody}
  /\ spc \in [Senders -> {"idle", "lock", "send"}]
  /\ msg \in [Senders -> Msgs \union {NoMsg}]
  /\ pos \in Nat \ {0}
  /\ relayed \subseteq Msgs
  /\ up \in [Peers -> BOOLEAN]
  /\ alive \in BOOLEAN
  /\ got \in [Peers -> [Msgs -> Nat]]
  /\ was \subseteq Peers
  /\ due \subseteq Msgs \X Peers /\ owed \subseteq Msgs \X Peers

Delivered(set) == \A d \in set : up[d[2]] => got[d[2]][d[1]] > 0

(* A peer that is connected when a send loop starts has the message when    *)
(* the loop is over, also if a PEERS message comes in while it runs.        *)
ConnectedGetMessage == alive /\ mutex = Nobody => Delivered(due)

(* How often list names p: client_peers_rand names everybody twice.         *)
Times(p, list) == Cardinality({k \in 1..Len(list) : list[k] = p})

(* A peer does not get a message on its old and again on its new            *)
(* connection: no more copies of it than one list has entries for the peer. *)
OneCopyPerListing ==
  \A p \in Peers, m \in Msgs :
    got[p][m] > 0 => \E list \in Lists : got[p][m] <= Times(p, list)

(* When the name server thread waits for the next PEERS message, the peers  *)
(* are those of the last one, and all of them that are there are connected. *)
ListIsLast ==
  npc = "recv" =>
    /\ Len(peer_list) = Len(last)
    /\ \A k \in 1..Len(last) :
         /\ peer_list[k].who = last[k]
         /\ up[last[k]] => peer_list[k].open_con /\ peer_list[k].socket_fd = "open"

(* The exit of a peer does not harm the process with the first message sent *)
(* to it after that, but with a second one.                                 *)
OneMessageIsSafe == ~ alive => \E m, n \in relayed : m # n

(* Every PEERS message is worked off, whatever the senders do.              *)
UpdateEnds == npc # "recv" ~> (npc = "recv" \/ ~ alive)

(* "Messages in transit when connections are re-assigned behave as if       *)
(* nothing happened": a peer that was connected before a PEERS message and  *)
(* is on its list gets what is relayed while the message is worked on.      *)
InTransitUnaffected == alive /\ mutex = Nobody => Delivered(owed)
===============================================================================
