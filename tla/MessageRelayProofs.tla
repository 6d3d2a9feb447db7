-------------------------- MODULE MessageRelayProofs --------------------------
(***************************************************************************)
(* Proofs about MessageRelay, for any number of clients and messages, any  *)
(* peer lists and any capacity of the sockets.                             *)
(***************************************************************************)
EXTENDS MessageRelay, TLAPS

-------------------------------------------------------------------------------
(* The inductive invariant, besides TypeOK. *)

(* A thread in the send loop holds the mutex of the peer list, so there is  *)
(* at most one such thread in a client.                                     *)
MutexInv == \A t \in Threads : pc[t] = "send" => mutex[Host(t)] = t

(* A thread that works on a message has it in its buffer, and from the      *)
(* moment it is past the lookup its own entry is in the table.              *)
BufferInv ==
  \A t \in Threads :
    /\ pc[t] # "recv" => buffer[t] \in Msgs
    /\ pc[t] = "parse" => t \in Conns
    /\ pc[t] \in {"lock", "send"} =>
         [hash |-> buffer[t], key |-> t] \in message_hash_table[Host(t)]

(* A send loop was preceded by the entry of its message, made by the same   *)
(* thread, and an entry is made once.                                       *)
RelayInv ==
  \A t \in Threads, m \in Msgs :
    /\ relays[t][m] <= 1
    /\ relays[t][m] > 0 =>
         [hash |-> m, key |-> t] \in message_hash_table[Host(t)]
    /\ pc[t] = "lock" /\ buffer[t] = m => relays[t][m] = 0

(* Who sends a message has it. *)
SentInv ==
  \A c \in Conns, m \in Msgs :
    InChan(m, c) \/ (pc[c] = "parse" /\ buffer[c] = m) => m \in Known(c[1])

(* t has still to send m on the k-th connection of its client. *)
WillSend(t, m, k) ==
  /\ buffer[t] = m
  /\ \/ pc[t] = "lock"
     \/ pc[t] = "send" /\ pos[Host(t)] <= k

(* What a client has, its peers have, or it is on its way to them. *)
Covered(c, m) ==
  \/ m \in Known(Host(c))
  \/ InChan(m, c)
  \/ pc[c] = "parse" /\ buffer[c] = m
  \/ \E t \in Threads : Host(t) = c[1] /\ WillSend(t, m, c[2])

CoverInv == \A c \in Conns, m \in Msgs : m \in Known(c[1]) => Covered(c, m)

IInv == TypeOK /\ MutexInv /\ BufferInv /\ RelayInv /\ SentInv /\ CoverInv

-------------------------------------------------------------------------------
(* Connections and threads. *)

(* A connection is a client and a position of its peer list.                *)
LEMMA ConnType ==
  ASSUME NEW c \in Conns
  PROVE  /\ c = <<c[1], c[2]>>
         /\ c[1] \in Nodes
         /\ c[2] \in 1..Len(peer_list[c[1]])
         /\ Host(c) = peer_list[c[1]][c[2]]
         /\ Host(c) \in Nodes
         /\ c \in Threads
         /\ c \notin Inputs
<1>1. PICK n \in Nodes : c \in {<<n, k>> : k \in 1..Len(peer_list[n])}
  BY DEF Conns
<1>2. PICK k \in 1..Len(peer_list[n]) : c = <<n, k>>
  BY <1>1
<1>3. peer_list[n] \in Seq(Nodes)
  BY RelayAssumption
<1>4. k \in Nat /\ k # 0 /\ peer_list[n][k] \in Nodes
  BY <1>3
<1>5. c[1] = n /\ c[2] = k
  BY <1>2
<1>6. Host(c) = peer_list[n][k]
  BY <1>4, <1>5 DEF Host
<1>7. c \notin Inputs
  BY <1>4, <1>5 DEF Inputs
<1> QED
  BY <1>2, <1>4, <1>5, <1>6, <1>7 DEF Threads

(* Every position of a peer list is a connection.                           *)
LEMMA ConnOf ==
  ASSUME NEW n \in Nodes, NEW k \in 1..Len(peer_list[n])
  PROVE  <<n, k>> \in Conns
BY DEF Conns

(* The input thread of a client runs in it and serves no connection.        *)
LEMMA InputType ==
  ASSUME NEW n \in Nodes
  PROVE  /\ <<n, 0>> \in Inputs
         /\ <<n, 0>> \in Threads
         /\ <<n, 0>> \notin Conns
         /\ Host(<<n, 0>>) = n
<1>1. <<n, 0>> \in Inputs
  BY DEF Inputs
<1>2. <<n, 0>> \notin Conns
  BY <1>1, ConnType
<1> QED
  BY <1>1, <1>2 DEF Threads, Host

(* Every thread runs in a client.                                           *)
LEMMA ThreadType ==
  ASSUME NEW t \in Threads
  PROVE  Host(t) \in Nodes /\ (t \in Conns \/ t \in Inputs)
<1>1. CASE t \in Conns
  BY <1>1, ConnType
<1>2. CASE t \in Inputs
  <2>1. PICK n \in Nodes : t = <<n, 0>>
    BY <1>2 DEF Inputs
  <2> QED
    BY <1>2, <2>1, InputType
<1> QED
  BY <1>1, <1>2 DEF Threads

(* The input thread of the author of a message.                             *)
LEMMA AuthorThread ==
  ASSUME NEW m \in Msgs
  PROVE  /\ Author[m] \in Nodes
         /\ <<Author[m], 0>> \in Threads
         /\ <<Author[m], 0>> \in Inputs
         /\ <<Author[m], 0>> \notin Conns
         /\ Host(<<Author[m], 0>>) = Author[m]
BY RelayAssumption, InputType

-------------------------------------------------------------------------------
(* The initial state satisfies the invariant.                               *)
LEMMA InitIInv == Init => IInv
<1> SUFFICES ASSUME Init PROVE IInv
  OBVIOUS
<1>1. TypeOK
  BY DEF Init, TypeOK
<1>2. MutexInv /\ BufferInv
  BY DEF Init, MutexInv, BufferInv
<1>3. RelayInv
  BY DEF Init, RelayInv
<1>4. SentInv
  <2> SUFFICES ASSUME NEW c \in Conns, NEW m \in Msgs
               PROVE  ~ (InChan(m, c) \/ (pc[c] = "parse" /\ buffer[c] = m))
    BY DEF SentInv
  <2>1. chan[c] = <<>> /\ pc[c] = "recv"
    BY ConnType DEF Init
  <2> QED
    BY <2>1 DEF InChan, Within
<1>5. CoverInv
  <2> SUFFICES ASSUME NEW c \in Conns, NEW m \in Msgs
               PROVE  m \notin Known(c[1])
    BY DEF CoverInv
  <2> QED
    BY ConnType DEF Init, Known
<1> QED
  BY <1>1, <1>2, <1>3, <1>4, <1>5 DEF IInv

-------------------------------------------------------------------------------
(* Every step is an action of one thread, or changes nothing.  The cases    *)
(* that the lemmas below go through.                                        *)
LEMMA StepCases ==
  ASSUME [Next]_vars
  PROVE  \/ \E c \in Conns : Recv(c)
         \/ \E c \in Conns : DropSeen(c)
         \/ \E c \in Conns : AcceptNew(c)
         \/ \E m \in Msgs : input_send_msg(m)
         \/ \E t \in Threads : LockPeers(t)
         \/ \E t \in Threads : send_msg_peer(t)
         \/ \E t \in Threads : UnlockPeers(t)
         \/ UNCHANGED vars
BY DEF Next, Handle, client_send_to_all_peers

(* Types are preserved.                                                     *)
LEMMA TypeStep ==
  ASSUME TypeOK, BufferInv, [Next]_vars
  PROVE  TypeOK'
<1>1. ASSUME NEW c \in Conns, Recv(c) PROVE TypeOK'
  <2>1. chan[c] \in Seq(Msgs) /\ chan[c] # <<>> /\ c \in Threads
    BY <1>1, ConnType DEF TypeOK, Recv
  <2>2. Head(chan[c]) \in Msgs /\ Tail(chan[c]) \in Seq(Msgs)
    BY <2>1
  <2> QED
    BY <1>1, <2>1, <2>2 DEF TypeOK, Recv
<1>2. ASSUME NEW c \in Conns, DropSeen(c) PROVE TypeOK'
  BY <1>2, ConnType DEF TypeOK, DropSeen
<1>3. ASSUME NEW c \in Conns, AcceptNew(c) PROVE TypeOK'
  <2>1. c \in Threads /\ Host(c) \in Nodes /\ buffer[c] \in Msgs
    BY <1>3, ConnType DEF AcceptNew, BufferInv
  <2>2. [hash |-> buffer[c], key |-> c] \in Entry
    BY <2>1 DEF Entry
  <2>3. message_hash_table' \in [Nodes -> SUBSET Entry]
    BY <1>3, <2>1, <2>2 DEF TypeOK, AcceptNew, client_hash_add_msg
  <2> QED
    BY <1>3, <2>1, <2>3 DEF TypeOK, AcceptNew
<1>4. ASSUME NEW m \in Msgs, input_send_msg(m) PROVE TypeOK'
  <2> DEFINE t == <<Author[m], 0>>
  <2>1. t \in Threads /\ Host(t) \in Nodes
    BY AuthorThread
  <2>2. [hash |-> m, key |-> t] \in Entry
    BY <2>1 DEF Entry
  <2>3. message_hash_table' \in [Nodes -> SUBSET Entry]
    BY <1>4, <2>1, <2>2 DEF TypeOK, input_send_msg, client_hash_add_msg
  <2> QED
    BY <1>4, <2>1, <2>3 DEF TypeOK, input_send_msg
<1>5. ASSUME NEW t \in Threads, LockPeers(t) PROVE TypeOK'
  <2>1. Host(t) \in Nodes /\ buffer[t] \in Msgs
    BY <1>5, ThreadType DEF LockPeers, BufferInv
  <2>2. relays' \in [Threads -> [Msgs -> Nat]]
    BY <1>5, <2>1 DEF TypeOK, LockPeers
  <2> QED
    BY <1>5, <2>1, <2>2 DEF TypeOK, LockPeers
<1>6. ASSUME NEW t \in Threads, send_msg_peer(t) PROVE TypeOK'
  <2> DEFINE n == Host(t)
             c == <<n, pos[n]>>
  <2>1. n \in Nodes /\ buffer[t] \in Msgs /\ pos[n] \in Nat \ {0}
    BY <1>6, ThreadType DEF send_msg_peer, BufferInv, TypeOK
  <2>2. pos[n] \in 1..Len(peer_list[n])
    BY <1>6, <2>1, RelayAssumption DEF send_msg_peer
  <2>3. c \in Conns
    BY <2>1, <2>2, ConnOf
  <2>4. Append(chan[c], buffer[t]) \in Seq(Msgs)
    BY <2>1, <2>3 DEF TypeOK
  <2>5. chan' \in [Conns -> Seq(Msgs)]
    BY <1>6, <2>3, <2>4 DEF TypeOK, send_msg_peer
  <2> QED
    BY <1>6, <2>1, <2>5 DEF TypeOK, send_msg_peer
<1>7. ASSUME NEW t \in Threads, UnlockPeers(t) PROVE TypeOK'
  <2>1. Host(t) \in Nodes
    BY ThreadType
  <2> QED
    BY <1>7, <2>1 DEF TypeOK, UnlockPeers
<1>8. CASE UNCHANGED vars
  BY <1>8 DEF TypeOK, vars
<1> QED
  BY <1>1, <1>2, <1>3, <1>4, <1>5, <1>6, <1>7, <1>8, StepCases

(* Only the thread that holds the mutex of a peer list gives it away.       *)
LEMMA MutexStep ==
  ASSUME TypeOK, MutexInv, BufferInv, [Next]_vars
  PROVE  MutexInv'
<1> SUFFICES ASSUME NEW u \in Threads, pc'[u] = "send"
             PROVE  mutex'[Host(u)] = u
  BY DEF MutexInv
<1>0. Host(u) \in Nodes
  BY ThreadType
<1>1. CASE \E c \in Conns : Recv(c) \/ DropSeen(c) \/ AcceptNew(c)
  BY <1>1, ConnType DEF Recv, DropSeen, AcceptNew, MutexInv, TypeOK
<1>2. CASE \E m \in Msgs : input_send_msg(m)
  BY <1>2, AuthorThread DEF input_send_msg, MutexInv, TypeOK
<1>3. ASSUME NEW t \in Threads, LockPeers(t) PROVE mutex'[Host(u)] = u
  <2>1. CASE u = t
    BY <1>0, <1>3, <2>1 DEF LockPeers, TypeOK
  <2>2. CASE u # t
    <3>1. pc[u] = "send" /\ mutex[Host(u)] = u
      BY <1>3, <2>2 DEF LockPeers, TypeOK, MutexInv
    <3>2. Host(u) # Host(t)
      BY <1>3, <3>1, RelayAssumption DEF LockPeers
    <3> QED
      BY <1>0, <1>3, <3>1, <3>2 DEF LockPeers, TypeOK
  <2> QED
    BY <2>1, <2>2
<1>4. CASE \E t \in Threads : send_msg_peer(t)
  BY <1>4 DEF send_msg_peer, MutexInv
<1>5. ASSUME NEW t \in Threads, UnlockPeers(t) PROVE mutex'[Host(u)] = u
  <2>1. u # t /\ pc[u] = "send"
    BY <1>5 DEF UnlockPeers, TypeOK
  <2>2. mutex[Host(u)] = u /\ mutex[Host(t)] = t
    BY <1>5, <2>1 DEF UnlockPeers, MutexInv
  <2> QED
    BY <1>0, <1>5, <2>1, <2>2 DEF UnlockPeers, TypeOK
<1>6. CASE UNCHANGED vars
  BY <1>6 DEF vars, MutexInv
<1> QED
  BY <1>1, <1>2, <1>3, <1>4, <1>5, <1>6, StepCases

-------------------------------------------------------------------------------
(* Entries are never removed: what a client knows it goes on knowing.       *)
LEMMA TableGrows ==
  ASSUME TypeOK, [Next]_vars, NEW n \in Nodes
  PROVE  /\ message_hash_table[n] \subseteq message_hash_table'[n]
         /\ Known(n) \subseteq Known(n)'
<1>1. message_hash_table[n] \subseteq message_hash_table'[n]
  <2>1. ASSUME NEW c \in Conns, AcceptNew(c)
        PROVE  message_hash_table[n] \subseteq message_hash_table'[n]
    BY <2>1, ConnType DEF AcceptNew, client_hash_add_msg, TypeOK
  <2>2. ASSUME NEW m \in Msgs, input_send_msg(m)
        PROVE  message_hash_table[n] \subseteq message_hash_table'[n]
    BY <2>2, AuthorThread DEF input_send_msg, client_hash_add_msg, TypeOK
  <2>3. CASE UNCHANGED message_hash_table
    BY <2>3
  <2> QED
    BY <2>1, <2>2, <2>3, StepCases
    DEF Recv, DropSeen, LockPeers, send_msg_peer, UnlockPeers, vars
<1> QED
  BY <1>1 DEF Known

(* The entry of an accepted or typed message.                               *)
LEMMA EntryMade ==
  ASSUME TypeOK, NEW t \in Threads, NEW m \in Msgs, client_hash_add_msg(t, m)
  PROVE  /\ [hash |-> m, key |-> t] \in message_hash_table'[Host(t)]
         /\ Known(Host(t))' = Known(Host(t)) \union {m}
         /\ \A n \in Nodes \ {Host(t)} : Known(n)' = Known(n)
<1>1. Host(t) \in Nodes
  BY ThreadType
<1>2. message_hash_table'[Host(t)]
        = message_hash_table[Host(t)] \union {[hash |-> m, key |-> t]}
  BY <1>1 DEF client_hash_add_msg, TypeOK
<1>3. \A n \in Nodes \ {Host(t)} :
        message_hash_table'[n] = message_hash_table[n]
  BY <1>1 DEF client_hash_add_msg, TypeOK
<1>4. Known(Host(t))' = Known(Host(t)) \union {m}
  <2>1. [hash |-> m, key |-> t].hash = m
    OBVIOUS
  <2> QED
    BY <1>2, <2>1 DEF Known
<1> QED
  BY <1>2, <1>3, <1>4 DEF Known

(* What the buffers hold.                                                   *)
LEMMA BufferStep ==
  ASSUME TypeOK, BufferInv, [Next]_vars
  PROVE  BufferInv'
<1> SUFFICES ASSUME NEW u \in Threads
             PROVE  /\ pc'[u] # "recv" => buffer'[u] \in Msgs
                    /\ pc'[u] = "parse" => u \in Conns
                    /\ pc'[u] \in {"lock", "send"} =>
                         [hash |-> buffer'[u], key |-> u]
                           \in message_hash_table'[Host(u)]
  BY DEF BufferInv
<1> DEFINE Goal == /\ pc'[u] # "recv" => buffer'[u] \in Msgs
                   /\ pc'[u] = "parse" => u \in Conns
                   /\ pc'[u] \in {"lock", "send"} =>
                        [hash |-> buffer'[u], key |-> u]
                          \in message_hash_table'[Host(u)]
<1>0. /\ Host(u) \in Nodes
      /\ message_hash_table[Host(u)] \subseteq message_hash_table'[Host(u)]
  BY ThreadType, TableGrows
<1>a. CASE pc'[u] = pc[u] /\ buffer'[u] = buffer[u]
  BY <1>0, <1>a DEF BufferInv
<1>b. CASE pc'[u] = "recv"
  BY <1>b
<1>1. ASSUME NEW c \in Conns, Recv(c), u = c PROVE Goal
  <2>1. chan[c] \in Seq(Msgs) /\ chan[c] # <<>> /\ c \in Threads
    BY <1>1, ConnType DEF TypeOK, Recv
  <2>2. pc'[c] = "parse" /\ buffer'[c] = Head(chan[c])
    BY <1>1, <2>1 DEF Recv, TypeOK
  <2> QED
    BY <1>1, <2>1, <2>2
<1>2. ASSUME NEW c \in Conns, AcceptNew(c), u = c PROVE Goal
  <2>1. c \in Threads /\ buffer[c] \in Msgs
    BY <1>2, ConnType DEF AcceptNew, BufferInv
  <2>2. pc'[c] = "lock" /\ buffer'[c] = buffer[c]
    BY <1>2, <2>1 DEF AcceptNew, TypeOK
  <2>3. [hash |-> buffer[c], key |-> c] \in message_hash_table'[Host(c)]
    BY <1>2, <2>1, EntryMade DEF AcceptNew
  <2> QED
    BY <1>2, <2>1, <2>2, <2>3
<1>3. ASSUME NEW m \in Msgs, input_send_msg(m), u = <<Author[m], 0>> PROVE Goal
  <2>1. client_hash_add_msg(u, m) /\ pc'[u] = "lock" /\ buffer'[u] = m
    BY <1>3 DEF input_send_msg, TypeOK
  <2> QED
    BY <2>1, EntryMade
<1>4. ASSUME NEW t \in Threads, LockPeers(t), u = t PROVE Goal
  <2>1. pc[u] = "lock" /\ pc'[u] = "send" /\ buffer'[u] = buffer[u]
    BY <1>4 DEF LockPeers, TypeOK
  <2> QED
    BY <1>0, <2>1 DEF BufferInv
<1>5. ASSUME [Next]_vars PROVE Goal
  <2>1. ASSUME NEW c \in Conns, Recv(c), u # c PROVE Goal
    BY <1>a, <2>1 DEF Recv, TypeOK
  <2>2. ASSUME NEW c \in Conns, DropSeen(c) PROVE Goal
    BY <1>a, <1>b, <2>2 DEF DropSeen, TypeOK
  <2>3. ASSUME NEW c \in Conns, AcceptNew(c), u # c PROVE Goal
    BY <1>a, <2>3 DEF AcceptNew, TypeOK
  <2>4. ASSUME NEW m \in Msgs, input_send_msg(m), u # <<Author[m], 0>> PROVE Goal
    BY <1>a, <2>4 DEF input_send_msg, TypeOK
  <2>5. ASSUME NEW t \in Threads, LockPeers(t), u # t PROVE Goal
    BY <1>a, <2>5 DEF LockPeers, TypeOK
  <2>6. ASSUME NEW t \in Threads, send_msg_peer(t) PROVE Goal
    BY <1>a, <2>6 DEF send_msg_peer
  <2>7. ASSUME NEW t \in Threads, UnlockPeers(t) PROVE Goal
    <3>1. u = t => pc'[u] = "recv"
      BY <2>7 DEF UnlockPeers, TypeOK
    <3>2. u # t => pc'[u] = pc[u] /\ buffer'[u] = buffer[u]
      BY <2>7 DEF UnlockPeers, TypeOK
    <3> QED
      BY <1>a, <1>b, <3>1, <3>2
  <2>8. CASE UNCHANGED vars
    BY <1>a, <2>8 DEF vars
  <2> HIDE DEF Goal
  <2> QED
    BY <1>1, <1>2, <1>3, <1>4, <2>1, <2>2, <2>3, <2>4, <2>5, <2>6, <2>7, <2>8,
       StepCases
<1> QED
  BY <1>5

-------------------------------------------------------------------------------
(* A thread relays a message only after making its entry, which it makes    *)
(* only if it has none.                                                     *)
LEMMA RelayStep ==
  ASSUME TypeOK, BufferInv, RelayInv, [Next]_vars
  PROVE  RelayInv'
<1> SUFFICES ASSUME NEW u \in Threads, NEW m \in Msgs
             PROVE  /\ relays'[u][m] <= 1
                    /\ relays'[u][m] > 0 =>
                         [hash |-> m, key |-> u] \in message_hash_table'[Host(u)]
                    /\ pc'[u] = "lock" /\ buffer'[u] = m => relays'[u][m] = 0
  BY DEF RelayInv
<1> DEFINE Goal == /\ relays'[u][m] <= 1
                   /\ relays'[u][m] > 0 =>
                        [hash |-> m, key |-> u] \in message_hash_table'[Host(u)]
                   /\ pc'[u] = "lock" /\ buffer'[u] = m => relays'[u][m] = 0
<1>0. /\ relays[u][m] \in Nat
      /\ relays[u][m] <= 1
      /\ relays[u][m] > 0 =>
           [hash |-> m, key |-> u] \in message_hash_table[Host(u)]
      /\ Host(u) \in Nodes
      /\ message_hash_table[Host(u)] \subseteq message_hash_table'[Host(u)]
  BY ThreadType, TableGrows DEF TypeOK, RelayInv
<1>a. CASE relays'[u][m] = relays[u][m]
           /\ (pc'[u] = "lock" => pc[u] = "lock" /\ buffer'[u] = buffer[u])
  BY <1>0, <1>a DEF RelayInv
<1>1. ASSUME NEW c \in Conns, Recv(c) PROVE Goal
  <2>1. pc'[u] = "lock" => pc[u] = "lock" /\ u # c
    BY <1>1, ConnType DEF Recv, TypeOK
  <2> QED
    BY <1>1, <1>a, <2>1 DEF Recv, TypeOK
<1>2. ASSUME NEW c \in Conns, DropSeen(c) PROVE Goal
  BY <1>2, <1>a DEF DropSeen, TypeOK
<1>3. ASSUME NEW c \in Conns, AcceptNew(c) PROVE Goal
  <2>1. CASE u = c /\ buffer[c] = m
    <3>1. ~ \E e \in message_hash_table[Host(c)] :
              e.hash = m /\ buffer[e.key] = m
      BY <1>3, <2>1 DEF AcceptNew, client_has_seen_msg
    <3>2. [hash |-> m, key |-> c] \notin message_hash_table[Host(c)]
      <4>1. [hash |-> m, key |-> c].hash = m /\ [hash |-> m, key |-> c].key = c
        OBVIOUS
      <4> QED
        BY <2>1, <3>1, <4>1
    <3>3. relays[u][m] = 0
      BY <1>0, <2>1, <3>2
    <3> QED
      BY <1>3, <3>3 DEF AcceptNew
  <2>2. CASE u = c /\ buffer[c] # m
    BY <1>0, <1>3, <2>2 DEF AcceptNew
  <2>3. CASE u # c
    BY <1>3, <1>a, <2>3 DEF AcceptNew, TypeOK
  <2> QED
    BY <2>1, <2>2, <2>3
<1>4. ASSUME NEW k \in Msgs, input_send_msg(k) PROVE Goal
  <2> DEFINE t == <<Author[k], 0>>
  <2>0. relays' = relays
    BY <1>4 DEF input_send_msg
  <2>1. CASE u = t /\ k = m
    <3>1. [hash |-> m, key |-> u] \notin message_hash_table[Host(u)]
      BY <1>4, <2>1, AuthorThread DEF input_send_msg, Typed
    <3>2. relays[u][m] = 0
      BY <1>0, <3>1
    <3> QED
      BY <2>0, <3>2
  <2>2. CASE u = t /\ k # m
    <3>1. buffer'[u] = k
      BY <1>4, <2>2 DEF input_send_msg, TypeOK
    <3> QED
      BY <1>0, <2>0, <2>2, <3>1
  <2>3. CASE u # t
    BY <1>4, <1>a, <2>0, <2>3 DEF input_send_msg, TypeOK
  <2> QED
    BY <2>1, <2>2, <2>3
<1>5. ASSUME NEW t \in Threads, LockPeers(t) PROVE Goal
  <2>0. buffer[t] \in Msgs /\ pc[t] = "lock"
    BY <1>5 DEF LockPeers, BufferInv
  <2>1. CASE u = t /\ buffer[t] = m
    <3>1. relays'[u][m] = relays[u][m] + 1 /\ relays[u][m] = 0
      BY <1>5, <2>0, <2>1 DEF LockPeers, TypeOK, RelayInv
    <3>2. [hash |-> m, key |-> u] \in message_hash_table[Host(u)]
      BY <2>0, <2>1 DEF BufferInv
    <3>3. pc'[u] = "send"
      BY <1>5, <2>1 DEF LockPeers, TypeOK
    <3> QED
      BY <1>0, <3>1, <3>2, <3>3
  <2>2. CASE u = t /\ buffer[t] # m
    <3>1. relays'[u][m] = relays[u][m]
      BY <1>5, <2>0, <2>2 DEF LockPeers, TypeOK
    <3>2. pc'[u] = "send"
      BY <1>5, <2>2 DEF LockPeers, TypeOK
    <3> QED
      BY <1>a, <3>1, <3>2
  <2>3. CASE u # t
    BY <1>5, <1>a, <2>3 DEF LockPeers, TypeOK
  <2> QED
    BY <2>1, <2>2, <2>3
<1>6. ASSUME NEW t \in Threads, send_msg_peer(t) PROVE Goal
  BY <1>6, <1>a DEF send_msg_peer
<1>7. ASSUME NEW t \in Threads, UnlockPeers(t) PROVE Goal
  <2>1. pc'[u] = "lock" => pc[u] = "lock" /\ u # t
    BY <1>7 DEF UnlockPeers, TypeOK
  <2>2. u # t => buffer'[u] = buffer[u]
    BY <1>7 DEF UnlockPeers, TypeOK
  <2> QED
    BY <1>7, <1>a, <2>1, <2>2 DEF UnlockPeers
<1>8. CASE UNCHANGED vars
  BY <1>8, <1>a DEF vars
<1> QED
  BY <1>1, <1>2, <1>3, <1>4, <1>5, <1>6, <1>7, <1>8, StepCases

-------------------------------------------------------------------------------
(* What receiving and sending do to the messages of a connection.           *)
LEMMA WithinTail ==
  ASSUME NEW s \in Seq(Msgs), s # <<>>, NEW m \in Msgs
  PROVE  Within(m, s) <=> (Head(s) = m \/ Within(m, Tail(s)))
<1>1. /\ Len(s) \in Nat \ {0}
      /\ Len(Tail(s)) = Len(s) - 1
      /\ Head(s) = s[1]
      /\ \A i \in 1..Len(Tail(s)) : Tail(s)[i] = s[i + 1]
  OBVIOUS
<1>2. ASSUME NEW i \in 1..Len(s), s[i] = m
      PROVE  Head(s) = m \/ Within(m, Tail(s))
  <2>1. CASE i = 1
    BY <1>1, <1>2, <2>1
  <2>2. CASE i # 1
    <3>1. i - 1 \in 1..Len(Tail(s)) /\ Tail(s)[i - 1] = m
      BY <1>1, <1>2, <2>2
    <3> QED
      BY <3>1 DEF Within
  <2> QED
    BY <2>1, <2>2
<1>3. ASSUME NEW i \in 1..Len(Tail(s)), Tail(s)[i] = m
      PROVE  Within(m, s)
  <2>1. i + 1 \in 1..Len(s) /\ s[i + 1] = m
    BY <1>1, <1>3
  <2> QED
    BY <2>1 DEF Within
<1>4. Head(s) = m => Within(m, s)
  BY <1>1 DEF Within
<1> QED
  BY <1>2, <1>3, <1>4 DEF Within

(* A message is within a list it was appended to, and those within before.  *)
LEMMA WithinAppend ==
  ASSUME NEW s \in Seq(Msgs), NEW m \in Msgs, NEW x \in Msgs
  PROVE  Within(m, Append(s, x)) <=> (x = m \/ Within(m, s))
<1>1. /\ Len(s) \in Nat
      /\ Len(Append(s, x)) = Len(s) + 1
      /\ Append(s, x)[Len(s) + 1] = x
      /\ \A i \in 1..Len(s) : Append(s, x)[i] = s[i]
  OBVIOUS
<1>2. Len(s) + 1 \in 1..Len(Append(s, x))
  BY <1>1
<1>3. \A i \in 1..Len(Append(s, x)) : i = Len(s) + 1 \/ i \in 1..Len(s)
  BY <1>1
<1>4. \A i \in 1..Len(s) : i \in 1..Len(Append(s, x))
  BY <1>1
<1> QED
  BY <1>1, <1>2, <1>3, <1>4 DEF Within

(* The message and the connection of a send.                                *)
LEMMA SendFacts ==
  ASSUME TypeOK, BufferInv, NEW t \in Threads, send_msg_peer(t)
  PROVE  /\ <<Host(t), pos[Host(t)]>> \in Conns
         /\ pos[Host(t)] \in Nat
         /\ buffer[t] \in Msgs
         /\ buffer[t] \in Known(Host(t))
         /\ \A c \in Conns, m \in Msgs :
              (c = <<Host(t), pos[Host(t)]>> /\ buffer[t] = m) \/ Within(m, chan[c])
                <=> Within(m, chan'[c])
<1>1. /\ Host(t) \in Nodes
      /\ pos[Host(t)] \in Nat \ {0}
      /\ pc[t] = "send"
      /\ buffer[t] \in Msgs
  BY ThreadType DEF TypeOK, send_msg_peer, BufferInv
<1>2. pos[Host(t)] \in 1..Len(peer_list[Host(t)])
  BY <1>1, RelayAssumption DEF send_msg_peer
<1>3. PICK d \in Conns : d = <<Host(t), pos[Host(t)]>>
  BY <1>1, <1>2, ConnOf
<1>4. buffer[t] \in Known(Host(t))
  <2>1. [hash |-> buffer[t], key |-> t] \in message_hash_table[Host(t)]
    BY <1>1 DEF BufferInv
  <2>2. [hash |-> buffer[t], key |-> t].hash = buffer[t]
    OBVIOUS
  <2> QED
    BY <2>1, <2>2 DEF Known
<1>5. chan' = [chan EXCEPT ![d] = Append(@, buffer[t])]
  BY <1>3 DEF send_msg_peer
<1>6. ASSUME NEW c \in Conns, NEW m \in Msgs
      PROVE  (c = d /\ buffer[t] = m) \/ Within(m, chan[c]) <=> Within(m, chan'[c])
  <2>1. CASE c = d
    <3>1. chan'[c] = Append(chan[c], buffer[t]) /\ chan[c] \in Seq(Msgs)
      BY <1>5, <2>1 DEF TypeOK
    <3> QED
      BY <1>1, <2>1, <3>1, WithinAppend
  <2>2. CASE c # d
    <3>1. chan'[c] = chan[c]
      BY <1>5, <2>2 DEF TypeOK
    <3> QED
      BY <2>2, <3>1
  <2> QED
    BY <2>1, <2>2
<1> QED
  BY <1>1, <1>3, <1>4, <1>6

(* The message and the connection of a recv.                                *)
LEMMA RecvFacts ==
  ASSUME TypeOK, NEW c \in Conns, Recv(c)
  PROVE  /\ pc[c] = "recv" /\ pc' = [pc EXCEPT ![c] = "parse"]
         /\ buffer'[c] = Head(chan[c])
         /\ \A t \in Threads : t # c => buffer'[t] = buffer[t]
         /\ \A m \in Msgs :
              Within(m, chan[c]) <=> (buffer'[c] = m \/ Within(m, chan'[c]))
         /\ \A d \in Conns : d # c => chan'[d] = chan[d]
<1>1. c \in Threads
  BY ConnType
<1>2. /\ chan[c] \in Seq(Msgs) /\ chan[c] # <<>>
      /\ chan'[c] = Tail(chan[c])
      /\ buffer'[c] = Head(chan[c])
  BY <1>1 DEF Recv, TypeOK
<1>3. \A m \in Msgs :
        Within(m, chan[c]) <=> (Head(chan[c]) = m \/ Within(m, Tail(chan[c])))
  BY <1>2, WithinTail
<1> QED
  BY <1>1, <1>2, <1>3 DEF Recv, TypeOK

(* Whatever a connection or its handler has to deliver, its sender knows.   *)
LEMMA SentStep ==
  ASSUME TypeOK, BufferInv, SentInv, [Next]_vars
  PROVE  SentInv'
<1> SUFFICES ASSUME NEW c \in Conns, NEW m \in Msgs,
                    Within(m, chan'[c]) \/ (pc'[c] = "parse" /\ buffer'[c] = m)
             PROVE  m \in Known(c[1])'
  BY DEF SentInv, InChan
<1> DEFINE Before == Within(m, chan[c]) \/ (pc[c] = "parse" /\ buffer[c] = m)
<1>0. c \in Threads /\ c \notin Inputs /\ c[1] \in Nodes
  BY ConnType
<1>a. ASSUME Before PROVE m \in Known(c[1])'
  <2>1. m \in Known(c[1])
    BY <1>a DEF SentInv, InChan
  <2> QED
    BY <1>0, <2>1, TableGrows
<1>1. ASSUME NEW d \in Conns, Recv(d) PROVE Before
  <2>1. CASE d = c
    BY <1>1, <2>1, RecvFacts
  <2>2. CASE d # c
    BY <1>0, <1>1, <2>2, RecvFacts DEF TypeOK
  <2> QED
    BY <2>1, <2>2
<1>2. ASSUME NEW d \in Conns, DropSeen(d) \/ AcceptNew(d) PROVE Before
  BY <1>0, <1>2 DEF DropSeen, AcceptNew, TypeOK
<1>3. ASSUME NEW k \in Msgs, input_send_msg(k) PROVE Before
  <2>1. c # <<Author[k], 0>>
    BY AuthorThread
  <2> QED
    BY <1>0, <1>3, <2>1 DEF input_send_msg, TypeOK
<1>4. ASSUME NEW t \in Threads, LockPeers(t) PROVE Before
  BY <1>0, <1>4 DEF LockPeers, TypeOK
<1>5. ASSUME NEW t \in Threads, send_msg_peer(t) PROVE Before \/ m \in Known(c[1])'
  <2>1. CASE c = <<Host(t), pos[Host(t)]>> /\ buffer[t] = m
    <3>1. m \in Known(c[1])
      BY <1>5, <2>1, SendFacts
    <3> QED
      BY <1>0, <3>1, TableGrows
  <2>2. CASE ~ (c = <<Host(t), pos[Host(t)]>> /\ buffer[t] = m)
    <3>1. Within(m, chan'[c]) => Within(m, chan[c])
      BY <1>5, <2>2, SendFacts
    <3> QED
      BY <1>5, <3>1 DEF send_msg_peer
  <2> QED
    BY <2>1, <2>2
<1>6. ASSUME NEW t \in Threads, UnlockPeers(t) PROVE Before
  BY <1>0, <1>6 DEF UnlockPeers, TypeOK
<1>7. CASE UNCHANGED vars
  BY <1>7, <1>a DEF vars
<1> QED
  BY <1>a, <1>1, <1>2, <1>3, <1>4, <1>5, <1>6, <1>7, StepCases

-------------------------------------------------------------------------------
(* A message a client learns is one its thread goes on to send.             *)
LEMMA NewIsCovered ==
  ASSUME TypeOK, BufferInv, [Next]_vars, NEW c \in Conns, NEW m \in Msgs,
         m \notin Known(c[1]), m \in Known(c[1])'
  PROVE  \E t \in Threads :
            Host(t) = c[1] /\ buffer'[t] = m /\ pc'[t] = "lock"
<1>0. c[1] \in Nodes
  BY ConnType
<1>1. ASSUME NEW d \in Conns, AcceptNew(d)
      PROVE  Host(d) = c[1] /\ buffer'[d] = m /\ pc'[d] = "lock"
  <2>1. d \in Threads /\ buffer[d] \in Msgs /\ Host(d) \in Nodes
    BY <1>1, ConnType DEF AcceptNew, BufferInv
  <2>2. client_hash_add_msg(d, buffer[d])
    BY <1>1 DEF AcceptNew
  <2>3. /\ Known(Host(d))' = Known(Host(d)) \union {buffer[d]}
        /\ \A n \in Nodes \ {Host(d)} : Known(n)' = Known(n)
    BY <2>1, <2>2, EntryMade
  <2>4. Host(d) = c[1] /\ buffer[d] = m
    BY <1>0, <2>3
  <2> QED
    BY <1>1, <2>1, <2>4 DEF AcceptNew, TypeOK
<1>2. ASSUME NEW k \in Msgs, input_send_msg(k)
      PROVE  \E t \in Threads :
                Host(t) = c[1] /\ buffer'[t] = m /\ pc'[t] = "lock"
  <2> DEFINE t == <<Author[k], 0>>
  <2>1. t \in Threads /\ Host(t) \in Nodes
    BY AuthorThread
  <2>2. client_hash_add_msg(t, k)
    BY <1>2 DEF input_send_msg
  <2>3. /\ Known(Host(t))' = Known(Host(t)) \union {k}
        /\ \A n \in Nodes \ {Host(t)} : Known(n)' = Known(n)
    BY <2>1, <2>2, EntryMade
  <2>4. Host(t) = c[1] /\ k = m
    BY <1>0, <2>3
  <2>5. buffer'[t] = k /\ pc'[t] = "lock"
    BY <1>2, <2>1 DEF input_send_msg, TypeOK
  <2> QED
    BY <2>1, <2>4, <2>5
<1>3. CASE UNCHANGED message_hash_table
  BY <1>3 DEF Known
<1> QED
  BY <1>1, <1>2, <1>3, ConnType, StepCases
  DEF Recv, DropSeen, LockPeers, send_msg_peer, UnlockPeers, vars

(* A copy in a socket stays there, is handed to the handler, or is lost to  *)
(* nobody else.                                                             *)
LEMMA InChanStays ==
  ASSUME TypeOK, BufferInv, [Next]_vars, NEW c \in Conns, NEW m \in Msgs,
         Within(m, chan[c])
  PROVE  Within(m, chan'[c]) \/ (pc'[c] = "parse" /\ buffer'[c] = m)
<1>0. c \in Threads
  BY ConnType
<1>1. ASSUME NEW d \in Conns, Recv(d)
      PROVE  Within(m, chan'[c]) \/ (pc'[c] = "parse" /\ buffer'[c] = m)
  <2>1. CASE d = c
    BY <1>0, <1>1, <2>1, RecvFacts DEF TypeOK
  <2>2. CASE d # c
    BY <1>1, <2>2, RecvFacts
  <2> QED
    BY <2>1, <2>2
<1>2. ASSUME NEW t \in Threads, send_msg_peer(t) PROVE Within(m, chan'[c])
  BY <1>2, SendFacts
<1>3. CASE UNCHANGED chan
  BY <1>3
<1> QED
  BY <1>1, <1>2, <1>3, StepCases
  DEF DropSeen, AcceptNew, input_send_msg, LockPeers, UnlockPeers, vars

(* A copy a handler has looked up was dropped for an entry of the message,  *)
(* or an entry of it was made.                                              *)
LEMMA ParsedIsKnown ==
  ASSUME TypeOK, BufferInv, [Next]_vars, NEW c \in Conns, NEW m \in Msgs,
         pc[c] = "parse", buffer[c] = m
  PROVE  m \in Known(Host(c))' \/ (pc'[c] = "parse" /\ buffer'[c] = m)
<1>0. c \in Threads /\ c \notin Inputs /\ Host(c) \in Nodes
  BY ConnType
<1>1. ASSUME DropSeen(c) PROVE m \in Known(Host(c))'
  <2>1. CASE client_has_seen_msg(Host(c), m)
    BY <1>1, <2>1 DEF client_has_seen_msg, DropSeen, Known
  <2>2. CASE DanglingKey(Host(c), m)
    <3> DEFINE e == [hash |-> m, key |-> <<Host(c), 0>>]
    <3>1. e \in message_hash_table[Host(c)] /\ e.hash = m
      BY <2>2 DEF DanglingKey
    <3> QED
      BY <1>1, <3>1 DEF DropSeen, Known
  <2> QED
    BY <1>1, <2>1, <2>2 DEF DropSeen
<1>2. ASSUME AcceptNew(c) PROVE m \in Known(Host(c))'
  <2>1. client_hash_add_msg(c, m)
    BY <1>2 DEF AcceptNew
  <2>2. [hash |-> m, key |-> c] \in message_hash_table'[Host(c)]
    BY <1>0, <2>1, EntryMade
  <2>3. [hash |-> m, key |-> c].hash = m
    OBVIOUS
  <2> QED
    BY <2>2, <2>3 DEF Known
<1>3. ASSUME NEW d \in Conns, Recv(d) PROVE pc'[c] = "parse" /\ buffer'[c] = m
  <2>1. d # c
    BY <1>3 DEF Recv
  <2> QED
    BY <1>0, <1>3, <2>1, RecvFacts DEF TypeOK
<1>4. ASSUME NEW d \in Conns, DropSeen(d) \/ AcceptNew(d), d # c
      PROVE  pc'[c] = "parse" /\ buffer'[c] = m
  BY <1>0, <1>4 DEF DropSeen, AcceptNew, TypeOK
<1>5. ASSUME NEW k \in Msgs, input_send_msg(k)
      PROVE  pc'[c] = "parse" /\ buffer'[c] = m
  <2>1. c # <<Author[k], 0>>
    BY AuthorThread
  <2> QED
    BY <1>0, <1>5, <2>1 DEF input_send_msg, TypeOK
<1>6. ASSUME NEW t \in Threads, LockPeers(t) \/ send_msg_peer(t) \/ UnlockPeers(t)
      PROVE  pc'[c] = "parse" /\ buffer'[c] = m
  <2>1. t # c
    BY <1>6 DEF LockPeers, send_msg_peer, UnlockPeers
  <2> QED
    BY <1>0, <1>6, <2>1 DEF LockPeers, send_msg_peer, UnlockPeers, TypeOK
<1>7. CASE UNCHANGED vars
  BY <1>7 DEF vars
<1> QED
  BY <1>1, <1>2, <1>3, <1>4, <1>5, <1>6, <1>7, StepCases

(* A send that is still to come stays to come until it is done: no other    *)
(* thread moves the position of the loop, because the loop's own thread     *)
(* holds the mutex.                                                         *)
LEMMA WillSendStays ==
  ASSUME TypeOK, MutexInv, BufferInv, [Next]_vars, NEW c \in Conns, NEW m \in Msgs,
         NEW t \in Threads, Host(t) = c[1], WillSend(t, m, c[2])
  PROVE  \/ Within(m, chan'[c])
         \/ /\ buffer'[t] = m
            /\ pc'[t] = "lock" \/ (pc'[t] = "send" /\ pos'[Host(t)] <= c[2])
<1> DEFINE After == /\ buffer'[t] = m
                    /\ pc'[t] = "lock" \/ (pc'[t] = "send" /\ pos'[Host(t)] <= c[2])
<1>0. /\ c[1] \in Nodes
      /\ c[2] \in 1..Len(peer_list[c[1]])
      /\ c[2] \in Nat /\ c[2] >= 1
      /\ Len(peer_list[c[1]]) \in Nat
      /\ pos[Host(t)] \in Nat
      /\ buffer[t] = m
      /\ pc[t] = "lock" \/ (pc[t] = "send" /\ pos[Host(t)] <= c[2])
  <2>1. /\ c[1] \in Nodes
        /\ c[2] \in 1..Len(peer_list[c[1]])
    BY ConnType
  <2>2. Len(peer_list[c[1]]) \in Nat
    BY ConnType
  <2>3. pos[Host(t)] \in Nat
    BY <2>1, RelayAssumption DEF TypeOK
  <2>4. /\ buffer[t] = m
        /\ pc[t] = "lock" \/ (pc[t] = "send" /\ pos[Host(t)] <= c[2])
    BY DEF WillSend
  <2>5. c[2] \in Nat /\ c[2] >= 1
    BY <2>1, <2>2
  <2> QED
    BY <2>1, <2>2, <2>3, <2>4, <2>5
<1>1. ASSUME NEW d \in Conns, Recv(d) \/ DropSeen(d) \/ AcceptNew(d) PROVE After
  <2>1. d # t
    BY <1>0, <1>1 DEF Recv, DropSeen, AcceptNew
  <2>2. pc'[t] = pc[t] /\ buffer'[t] = buffer[t] /\ pos' = pos
    BY <1>1, <2>1 DEF Recv, DropSeen, AcceptNew, TypeOK
  <2> QED
    BY <1>0, <2>2
<1>2. ASSUME NEW k \in Msgs, input_send_msg(k) PROVE After
  <2>1. t # <<Author[k], 0>>
    BY <1>0, <1>2 DEF input_send_msg
  <2>2. pc'[t] = pc[t] /\ buffer'[t] = buffer[t] /\ pos' = pos
    BY <1>2, <2>1 DEF input_send_msg, TypeOK
  <2> QED
    BY <1>0, <2>2
<1>3. ASSUME NEW u \in Threads, LockPeers(u) PROVE After
  <2>1. CASE u = t
    BY <1>0, <1>3, <2>1 DEF LockPeers, TypeOK
  <2>2. CASE u # t
    <3>1. pc'[t] = pc[t] /\ buffer'[t] = buffer[t]
      BY <1>3, <2>2 DEF LockPeers, TypeOK
    <3>2. CASE pc[t] = "lock"
      BY <1>0, <3>1, <3>2
    <3>3. CASE pc[t] = "send"
      <4>1. mutex[Host(t)] = t /\ mutex[Host(u)] = Nobody
        BY <1>3, <3>3 DEF MutexInv, LockPeers
      <4>2. Host(u) # Host(t)
        BY <4>1, RelayAssumption
      <4>3. pos'[Host(t)] = pos[Host(t)]
        BY <1>0, <1>3, <4>2 DEF LockPeers, TypeOK
      <4> QED
        BY <1>0, <3>1, <4>3
    <3> QED
      BY <1>0, <3>2, <3>3
  <2> QED
    BY <2>1, <2>2
<1>4. ASSUME NEW u \in Threads, send_msg_peer(u) PROVE Within(m, chan'[c]) \/ After
  <2>1. pc' = pc /\ buffer' = buffer /\ pc[u] = "send"
    BY <1>4 DEF send_msg_peer
  <2>2. CASE pc[t] = "lock"
    BY <1>0, <2>1, <2>2
  <2>3. CASE u = t /\ pc[t] = "send"
    <3>1. pos'[Host(t)] = pos[Host(t)] + 1
      BY <1>0, <1>4, <2>3 DEF send_msg_peer, TypeOK
    <3>2. CASE pos[Host(t)] = c[2]
      <4>1. c = <<Host(t), pos[Host(t)]>>
        BY <3>2, ConnType
      <4> QED
        BY <1>0, <1>4, <2>3, <4>1, SendFacts
    <3>3. CASE pos[Host(t)] # c[2]
      BY <1>0, <2>1, <2>3, <3>1, <3>3
    <3> QED
      BY <3>2, <3>3
  <2>4. CASE u # t /\ pc[t] = "send"
    <3>1. mutex[Host(t)] = t /\ mutex[Host(u)] = u
      BY <2>1, <2>4 DEF MutexInv
    <3>2. pos'[Host(t)] = pos[Host(t)]
      BY <1>0, <1>4, <2>4, <3>1 DEF send_msg_peer, TypeOK
    <3> QED
      BY <1>0, <2>1, <3>2
  <2> QED
    BY <1>0, <2>2, <2>3, <2>4
<1>5. ASSUME NEW u \in Threads, UnlockPeers(u) PROVE After
  <2>1. u # t
    BY <1>0, <1>5 DEF UnlockPeers
  <2>2. pc'[t] = pc[t] /\ buffer'[t] = buffer[t] /\ pos' = pos
    BY <1>5, <2>1 DEF UnlockPeers, TypeOK
  <2> QED
    BY <1>0, <2>2
<1>6. CASE UNCHANGED vars
  BY <1>0, <1>6 DEF vars
<1> QED
  BY <1>1, <1>2, <1>3, <1>4, <1>5, <1>6, StepCases

(* What a client has goes on being covered on each of its connections.      *)
LEMMA CoverStep ==
  ASSUME TypeOK, MutexInv, BufferInv, CoverInv, [Next]_vars
  PROVE  CoverInv'
<1> SUFFICES
      ASSUME NEW c \in Conns, NEW m \in Msgs, m \in Known(c[1])'
      PROVE  \/ m \in Known(Host(c))'
             \/ Within(m, chan'[c])
             \/ pc'[c] = "parse" /\ buffer'[c] = m
             \/ \E t \in Threads :
                  /\ Host(t) = c[1]
                  /\ buffer'[t] = m
                  /\ pc'[t] = "lock" \/ (pc'[t] = "send" /\ pos'[Host(t)] <= c[2])
  BY DEF CoverInv, Covered, InChan, WillSend
<1>1. CASE m \notin Known(c[1])
  BY <1>1, NewIsCovered
<1>2. CASE m \in Known(c[1])
  <2>1. Covered(c, m)
    BY <1>2 DEF CoverInv
  <2>2. CASE m \in Known(Host(c))
    BY <2>2, ConnType, TableGrows
  <2>3. CASE Within(m, chan[c])
    BY <2>3, InChanStays
  <2>4. CASE pc[c] = "parse" /\ buffer[c] = m
    BY <2>4, ParsedIsKnown
  <2>5. ASSUME NEW t \in Threads, Host(t) = c[1], WillSend(t, m, c[2])
        PROVE  \/ Within(m, chan'[c])
               \/ /\ buffer'[t] = m
                  /\ pc'[t] = "lock" \/ (pc'[t] = "send" /\ pos'[Host(t)] <= c[2])
    BY <2>5, WillSendStays
  <2> QED
    BY <2>1, <2>2, <2>3, <2>4, <2>5 DEF Covered, InChan
<1> QED
  BY <1>1, <1>2

-------------------------------------------------------------------------------
(* Every step keeps the invariant.                                          *)
LEMMA StepIInv == IInv /\ [Next]_vars => IInv'
BY TypeStep, MutexStep, BufferStep, RelayStep, SentStep, CoverStep DEF IInv

(* The inductive invariant holds in every reachable state.                  *)
THEOREM Invariance == Spec => []IInv
BY InitIInv, StepIInv, PTL DEF Spec

(* Buffers, sockets, tables and counters have their types: in particular    *)
(* no thread sends the text of a buffer that nothing was received into or   *)
(* that was freed.                                                          *)
THEOREM TypeCorrect == Spec => []TypeOK
<1>1. IInv => TypeOK
  BY DEF IInv
<1> QED
  BY <1>1, Invariance, PTL

(* A thread runs client_send_to_all_peers at most once for a message,       *)
(* whatever is received into the buffers the keys of the table point to.    *)
THEOREM RelayedOnce == Spec => []RelayedOncePerThread
<1>1. IInv => RelayedOncePerThread
  BY DEF IInv, RelayInv, RelayedOncePerThread
<1> QED
  BY <1>1, Invariance, PTL

(* When a message has come to rest, who has it has got it to all peers: the *)
(* comparison with overwritten or freed keys never makes a client drop a    *)
(* message it has not seen.                                                 *)
THEOREM FloodIsClosed == Spec => []FloodClosed
<1>1. IInv => FloodClosed
  <2> SUFFICES ASSUME IInv, NEW m \in Msgs, Quiet(m),
                      NEW c \in Conns, m \in Known(c[1])
               PROVE  m \in Known(Host(c))
    BY DEF FloodClosed
  <2>1. Covered(c, m)
    BY DEF IInv, CoverInv
  <2>2. c \in Threads
    BY ConnType
  <2> QED
    BY <2>1, <2>2 DEF Covered, Quiet, Holds, WillSend
<1> QED
  BY <1>1, Invariance, PTL

-------------------------------------------------------------------------------
(* Refinement of Gossip. *)

(* The initial states are those of the promise.                             *)
LEMMA ImplementsInit == Init => Promise!Init
BY DEF Init, Promise!Init, Known

(* The mapped state after the entry of a message.                           *)
LEMMA EntryMapped ==
  ASSUME TypeOK, NEW t \in Threads, NEW m \in Msgs, client_hash_add_msg(t, m)
  PROVE  [n \in Nodes |-> Known(n)]'
           = [[n \in Nodes |-> Known(n)] EXCEPT ![Host(t)] = @ \union {m}]
<1>1. Host(t) \in Nodes
  BY ThreadType
<1>2. Known(Host(t))' = Known(Host(t)) \union {m}
  BY EntryMade
<1>3. \A n \in Nodes \ {Host(t)} : Known(n)' = Known(n)
  BY EntryMade
<1> QED
  BY <1>1, <1>2, <1>3

(* A message a handler accepts is known to the client that relayed it.      *)
LEMMA AcceptLearns ==
  ASSUME IInv, NEW c \in Conns, AcceptNew(c)
  PROVE  [Promise!Next]_([n \in Nodes |-> Known(n)])
<1> DEFINE n == Host(c)
<1>1. /\ n \in Nodes /\ c[1] \in Nodes /\ c \in Threads
      /\ pc[c] = "parse" /\ buffer[c] \in Msgs
  BY ConnType DEF AcceptNew, IInv, BufferInv
<1>2. PICK m \in Msgs : m = buffer[c]
  BY <1>1
<1>3. [k \in Nodes |-> Known(k)]'
        = [[k \in Nodes |-> Known(k)] EXCEPT ![n] = @ \union {m}]
  <2>1. client_hash_add_msg(c, m) /\ TypeOK
    BY <1>2 DEF AcceptNew, IInv
  <2> QED
    BY <1>1, <2>1, EntryMapped
<1>4. CASE m \in Known(n)
  <2>1. Known(n) \union {m} = Known(n)
    BY <1>4
  <2>2. UNCHANGED [k \in Nodes |-> Known(k)]
    BY <1>1, <1>3, <2>1
  <2> QED
    BY <2>2
<1>5. CASE m \notin Known(n)
  <2>1. m \in Known(c[1])
    BY <1>1, <1>2 DEF IInv, SentInv
  <2>2. Promise!FeedsInto(c[1], n)
    BY ConnType DEF Promise!FeedsInto
  <2>3. Promise!Learn(n, m)
    BY <1>1, <1>3, <1>5, <2>1, <2>2 DEF Promise!Learn
  <2> QED
    BY <1>1, <2>3 DEF Promise!Next
<1> QED
  BY <1>4, <1>5

(* A typed message is published by its author.                              *)
LEMMA TypingPublishes ==
  ASSUME IInv, NEW m \in Msgs, input_send_msg(m)
  PROVE  [Promise!Next]_([n \in Nodes |-> Known(n)])
<1>1. [k \in Nodes |-> Known(k)]'
        = [[k \in Nodes |-> Known(k)] EXCEPT ![Author[m]] = @ \union {m}]
  <2>1. client_hash_add_msg(<<Author[m], 0>>, m) /\ TypeOK
    BY DEF input_send_msg, IInv
  <2> QED
    BY <2>1, AuthorThread, EntryMapped
<1>2. CASE m \in Known(Author[m])
  <2>1. Known(Author[m]) \union {m} = Known(Author[m])
    BY <1>2
  <2>2. UNCHANGED [k \in Nodes |-> Known(k)]
    BY <1>1, <2>1, AuthorThread
  <2> QED
    BY <2>2
<1>3. CASE m \notin Known(Author[m])
  <2>1. Promise!Publish(m)
    BY <1>1, <1>3, AuthorThread DEF Promise!Publish
  <2> QED
    BY <2>1 DEF Promise!Next
<1> QED
  BY <1>2, <1>3

(* Every step is a step of the promise, or none.                            *)
LEMMA ImplementsStep ==
  IInv /\ [Next]_vars => [Promise!Next]_([n \in Nodes |-> Known(n)])
<1> SUFFICES ASSUME IInv, [Next]_vars
             PROVE  [Promise!Next]_([n \in Nodes |-> Known(n)])
  OBVIOUS
<1>1. ASSUME UNCHANGED message_hash_table
      PROVE  UNCHANGED [n \in Nodes |-> Known(n)]
  BY <1>1 DEF Known
<1> QED
  BY <1>1, AcceptLearns, TypingPublishes, StepCases
  DEF Recv, DropSeen, LockPeers, send_msg_peer, UnlockPeers, vars

(* The threads, buffers and tables of the clients implement the flooding of *)
(* Gossip: a client learns only what a client that has it as a peer knows,  *)
(* and forgets nothing.                                                     *)
THEOREM Refinement == Spec => ImplementsGossip
BY Invariance, ImplementsInit, ImplementsStep, PTL
DEF Spec, ImplementsGossip, Promise!Spec
===============================================================================
