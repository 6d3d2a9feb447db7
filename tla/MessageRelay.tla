----------------------------- MODULE MessageRelay -----------------------------
(***************************************************************************)
(* Flooding of chat messages between client_server processes.              *)
(*                                                                         *)
(* Each client runs one input thread (input_handle) and, for every client  *)
(* that has it as a peer, one handler thread (client_handle).  A message   *)
(* that a client has not seen is entered into its message hash table and   *)
(* sent to all of its peers, under the mutex of the peer list.             *)
(*                                                                         *)
(* The hash table does not own its keys: client_hash_add_msg inserts the   *)
(* pointer it is given, which is the receive buffer of the handler thread  *)
(* or the padded message of the input thread.  GLib keeps the hash of the  *)
(* key as it was on insertion and, on lookup, compares the text the key    *)
(* points to NOW.  So an entry is modelled by its hash (the message that   *)
(* was hashed) and by its key (the thread whose buffer it points to), and  *)
(* a lookup depends on what has been received into that buffer since.      *)
(*                                                                         *)
(* Peer lists are fixed here (PEERS messages are not modelled), every      *)
(* connection is open, and a recv returns one whole message.               *)
(***************************************************************************)
EXTENDS Naturals, Sequences, FiniteSets

CONSTANTS Nodes,      \* the client processes
          Msgs,       \* the padded ciphertexts; each is produced once
          peer_list,  \* peer_list[n] is the sequence of the peers n sends to
          Author,     \* Author[m] is the client whose user types m
          Cap,        \* messages the two socket buffers of a connection hold
          NoMsg,      \* content of a buffer nothing was stored in, or freed
          Nobody      \* owner of a mutex no thread holds

-------------------------------------------------------------------------------
(* <<n, k>> is the connection from n to the k-th element of its peer list, *)
(* and the handler thread at its receiving end; <<n, 0>> is the input      *)
(* thread of n.                                                            *)

Conns   == UNION {{<<n, k>> : k \in 1..Len(peer_list[n])} : n \in Nodes}
Inputs  == {<<n, 0>> : n \in Nodes}
Threads == Conns \union Inputs

Host(t) == IF t[2] = 0 THEN t[1] ELSE peer_list[t[1]][t[2]]

ASSUME RelayAssumption ==
  /\ peer_list \in [Nodes -> Seq(Nodes)]
  /\ Author \in [Msgs -> Nodes]
  /\ Cap \in Nat \ {0}
  /\ NoMsg \notin Msgs
  /\ Nobody \notin Threads

Entry == [hash : Msgs, key : Threads]

VARIABLES
  chan,                \* chan[c]: messages sent on c and not yet received
  pc,                  \* pc[t]: where thread t is
  buffer,              \* buffer[t]: text that the message pointer of t points to
  message_hash_table,  \* message_hash_table[n]: set of entries
  mutex,               \* mutex[n]: thread holding the mutex of n's peer list
  pos,                 \* pos[n]: next position of the send loop of n
  relays               \* history: relays[t][m] counts the send loops t ran for m

vars == <<chan, pc, buffer, message_hash_table, mutex, pos, relays>>

Init ==
  /\ chan = [c \in Conns |-> <<>>]
  /\ pc = [t \in Threads |-> "recv"]
  /\ buffer = [t \in Threads |-> NoMsg]
  /\ message_hash_table = [n \in Nodes |-> {}]
  /\ mutex = [n \in Nodes |-> Nobody]
  /\ pos = [n \in Nodes |-> 1]
  /\ relays = [t \in Threads |-> [m \in Msgs |-> 0]]

-------------------------------------------------------------------------------
(* The message hash table. *)

(* client_hash_add_msg: the entry keeps the thread's own pointer as key.    *)
client_hash_add_msg(t, m) ==
  message_hash_table' = [message_hash_table EXCEPT
                           ![Host(t)] = @ \union {[hash |-> m, key |-> t]}]

(* client_has_seen_msg: an entry with the hash of m whose key still points  *)
(* to the text of m.                                                        *)
client_has_seen_msg(n, m) ==
  \E e \in message_hash_table[n] : e.hash = m /\ buffer[e.key] = m

(* The key of an own message dangles once input_send_msg has freed it: what *)
(* the comparison with the freed text yields is undefined.                  *)
DanglingKey(n, m) ==
  /\ [hash |-> m, key |-> <<n, 0>>] \in message_hash_table[n]
  /\ buffer[<<n, 0>>] # m

-------------------------------------------------------------------------------
(* Handler threads: client_handle and client_parse_msg. *)

(* recv overwrites the buffer, and with it the keys pointing to it.         *)
Recv(c) ==
  /\ pc[c] = "recv"
  /\ chan[c] # <<>>
  /\ buffer' = [buffer EXCEPT ![c] = Head(chan[c])]
  /\ chan' = [chan EXCEPT ![c] = Tail(@)]
  /\ pc' = [pc EXCEPT ![c] = "parse"]
  /\ UNCHANGED <<message_hash_table, mutex, pos, relays>>

DropSeen(c) ==
  /\ pc[c] = "parse"
  /\ \/ client_has_seen_msg(Host(c), buffer[c])
     \/ DanglingKey(Host(c), buffer[c])
  /\ pc' = [pc EXCEPT ![c] = "recv"]
  /\ UNCHANGED <<chan, buffer, message_hash_table, mutex, pos, relays>>

(* Mutation: the message is relayed without being entered into the table.   *)
AcceptNewWithoutEntry(c) ==
  /\ pc[c] = "parse"
  /\ ~ client_has_seen_msg(Host(c), buffer[c])
  /\ pc' = [pc EXCEPT ![c] = "lock"]
  /\ UNCHANGED <<chan, buffer, message_hash_table, mutex, pos, relays>>

AcceptNew(c) ==
  /\ pc[c] = "parse"
  /\ ~ client_has_seen_msg(Host(c), buffer[c])
  /\ client_hash_add_msg(c, buffer[c])
  /\ pc' = [pc EXCEPT ![c] = "lock"]
  /\ UNCHANGED <<chan, buffer, mutex, pos, relays>>

-------------------------------------------------------------------------------
(* Input thread: input_send_msg encrypts and pads the line into fresh       *)
(* memory and enters it into the table without looking it up.               *)

Typed(m) ==
  [hash |-> m, key |-> <<Author[m], 0>>] \in message_hash_table[Author[m]]

(* Mutation: the own message is sent without being entered into the table.  *)
input_send_msg_WithoutEntry(m) ==
  LET t == <<Author[m], 0>> IN
  /\ pc[t] = "recv"
  /\ ~ Typed(m)
  /\ buffer' = [buffer EXCEPT ![t] = m]
  /\ pc' = [pc EXCEPT ![t] = "lock"]
  /\ UNCHANGED <<chan, message_hash_table, mutex, pos, relays>>

input_send_msg(m) ==
  LET t == <<Author[m], 0>> IN
  /\ pc[t] = "recv"
  /\ ~ Typed(m)
  /\ buffer' = [buffer EXCEPT ![t] = m]
  /\ client_hash_add_msg(t, m)
  /\ pc' = [pc EXCEPT ![t] = "lock"]
  /\ UNCHANGED <<chan, mutex, pos, relays>>

-------------------------------------------------------------------------------
(* client_send_to_all_peers, run by either kind of thread: the mutex of the *)
(* peer list is held over the whole loop, and each send blocks while the    *)
(* connection's socket buffers are full.                                    *)

(* Mutation: the input thread frees its message before the send loop.       *)
LockPeersAfterFree(t) ==
  /\ pc[t] = "lock"
  /\ mutex[Host(t)] = Nobody
  /\ mutex' = [mutex EXCEPT ![Host(t)] = t]
  /\ pos' = [pos EXCEPT ![Host(t)] = 1]
  /\ pc' = [pc EXCEPT ![t] = "send"]
  /\ relays' = [relays EXCEPT ![t][buffer[t]] = @ + 1]
  /\ buffer' = IF t \in Inputs THEN [buffer EXCEPT ![t] = NoMsg] ELSE buffer
  /\ UNCHANGED <<chan, message_hash_table>>

LockPeers(t) ==
  /\ pc[t] = "lock"
  /\ mutex[Host(t)] = Nobody
  /\ mutex' = [mutex EXCEPT ![Host(t)] = t]
  /\ pos' = [pos EXCEPT ![Host(t)] = 1]
  /\ pc' = [pc EXCEPT ![t] = "send"]
  /\ relays' = [relays EXCEPT ![t][buffer[t]] = @ + 1]
  /\ UNCHANGED <<chan, buffer, message_hash_table>>

send_msg_peer(t) ==
  LET n  == Host(t)
      to == <<n, pos[n]>> IN
  /\ pc[t] = "send"
  /\ pos[n] <= Len(peer_list[n])
  /\ Len(chan[to]) < Cap
  /\ chan' = [chan EXCEPT ![to] = Append(@, buffer[t])]
  /\ pos' = [pos EXCEPT ![n] = @ + 1]
  /\ UNCHANGED <<pc, buffer, message_hash_table, mutex, relays>>

(* Mutations: the loop stops before the last peer; it returns without       *)
(* releasing the mutex.                                                     *)
UnlockPeersBeforeLast(t) ==
  /\ pc[t] = "send"
  /\ pos[Host(t)] >= Len(peer_list[Host(t)])
  /\ mutex' = [mutex EXCEPT ![Host(t)] = Nobody]
  /\ pc' = [pc EXCEPT ![t] = "recv"]
  /\ UNCHANGED <<chan, buffer, message_hash_table, pos, relays>>

ReturnLocked(t) ==
  /\ pc[t] = "send"
  /\ pos[Host(t)] > Len(peer_list[Host(t)])
  /\ pc' = [pc EXCEPT ![t] = "recv"]
  /\ UNCHANGED <<chan, buffer, message_hash_table, mutex, pos, relays>>

(* After the loop the input thread frees its message; a handler keeps its   *)
(* buffer for the next recv.                                                *)
UnlockPeers(t) ==
  /\ pc[t] = "send"
  /\ pos[Host(t)] > Len(peer_list[Host(t)])
  /\ mutex' = [mutex EXCEPT ![Host(t)] = Nobody]
  /\ pc' = [pc EXCEPT ![t] = "recv"]
  /\ buffer' = IF t \in Inputs THEN [buffer EXCEPT ![t] = NoMsg] ELSE buffer
  /\ UNCHANGED <<chan, message_hash_table, pos, relays>>

-------------------------------------------------------------------------------
Handle(c) == Recv(c) \/ DropSeen(c) \/ AcceptNew(c)

client_send_to_all_peers(t) == LockPeers(t) \/ send_msg_peer(t) \/ UnlockPeers(t)

Next ==
  \/ \E c \in Conns : Handle(c)
  \/ \E m \in Msgs : input_send_msg(m)
  \/ \E t \in Threads : client_send_to_all_peers(t)

Spec == Init /\ [][Next]_vars

(* Threads are scheduled by the kernel, so a thread that can go on does;    *)
(* nothing makes a user type.                                               *)
Fairness ==
  /\ \A c \in Conns : WF_vars(Handle(c))
  /\ \A t \in Threads : WF_vars(client_send_to_all_peers(t))

FairSpec == Spec /\ Fairness

-------------------------------------------------------------------------------
(* State formulae the properties are stated with. *)

Known(n) == {e.hash : e \in message_hash_table[n]}

Within(m, s) == \E i \in 1..Len(s) : s[i] = m

InChan(m, c) == Within(m, chan[c])

(* A thread still has something to do with m. *)
Holds(t, m) == pc[t] # "recv" /\ buffer[t] = m

Quiet(m) ==
  /\ \A c \in Conns : ~ InChan(m, c)
  /\ \A t \in Threads : ~ Holds(t, m)

-------------------------------------------------------------------------------
TypeOK ==
  /\ chan \in [Conns -> Seq(Msgs)]
  /\ pc \in [Threads -> {"recv", "parse", "lock", "send"}]
  /\ buffer \in [Threads -> Msgs \union {NoMsg}]
  /\ message_hash_table \in [Nodes -> SUBSET Entry]
  /\ mutex \in [Nodes -> Threads \union {Nobody}]
  /\ pos \in [Nodes -> Nat \ {0}]
  /\ relays \in [Threads -> [Msgs -> Nat]]

(* Flooding ends because a handler thread relays a message at most once,    *)
(* however often it comes in on the connection it serves: the entry it made *)
(* has that connection's buffer as key, which holds the message whenever it *)
(* is looked up there.                                                      *)
RelayedOncePerThread ==
  \A t \in Threads, m \in Msgs : relays[t][m] <= 1

(* Once a message is in no socket and in no thread's hands, a client that   *)
(* has it has got it to all of its peers: no copy was dropped as seen by a  *)
(* client that had not in fact seen it.                                     *)
FloodClosed ==
  \A m \in Msgs : Quiet(m) =>
    \A c \in Conns : m \in Known(c[1]) => m \in Known(Host(c))

(* What client_parse_msg and the design document say of the hash table: a   *)
(* message that was entered is not processed again.  Stated for the         *)
(* messages of others, whose keys never dangle.                             *)
RelayedOncePerNode ==
  \A n \in Nodes, m \in Msgs :
    n # Author[m] =>
      Cardinality({t \in Threads : Host(t) = n /\ relays[t][m] > 0}) <= 1

(* The clients that connections lead to from the author of m.               *)
Reach(m) ==
  {n \in Nodes : \A S \in SUBSET Nodes :
     Author[m] \in S /\ (\A c \in Conns : c[1] \in S => Host(c) \in S) => n \in S}

(* Clients whose send loops wait, with the mutex, for room on connections   *)
(* to each other.                                                           *)
Jammed ==
  \E S \in (SUBSET Nodes) \ {{}} : \A n \in S :
    /\ mutex[n] # Nobody
    /\ pos[n] <= Len(peer_list[n])
    /\ peer_list[n][pos[n]] \in S
    /\ Len(chan[<<n, pos[n]>>]) = Cap

(* A message that is typed reaches every client connections lead to, and    *)
(* stops circulating: clients that wait for each other for ever are the     *)
(* only thing that can keep it from that.                                   *)
FloodEnds ==
  \A m \in Msgs :
    Typed(m) ~> \/ Quiet(m) /\ \A n \in Reach(m) : m \in Known(n)
                \/ []Jammed

(* "we sent all the messages": input_send_msg returns.                      *)
InputReturns ==
  \A n \in Nodes : (pc[<<n, 0>>] # "recv") ~> (pc[<<n, 0>>] = "recv")

(* What the flooding promises, whatever the threads and buffers do.         *)
Promise == INSTANCE Gossip WITH known <- [n \in Nodes |-> Known(n)]
ImplementsGossip == Promise!Spec
===============================================================================
