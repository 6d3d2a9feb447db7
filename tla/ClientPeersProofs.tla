--------------------------- MODULE ClientPeersProofs ---------------------------
(***************************************************************************)
(* Proofs about ClientPeers, for any peers, lists, threads and messages.   *)
(***************************************************************************)
EXTENDS ClientPeers, SequenceTheorems, FiniteSetTheorems, TLAPS

-------------------------------------------------------------------------------
(* The inductive invariant, besides TypeOK and OneMessageIsSafe. *)

(* The k-th peer is what parse_peers and connect_to_peers make of the k-th  *)
(* entry of the last message.                                               *)
IsConnected(k) == peer_list[k].open_con /\ peer_list[k].socket_fd = "open"

ListInv ==
  /\ npc = "clean" => added = 0
  /\ npc = "add" =>
       /\ Len(peer_list) = added
       /\ added <= Len(last)
       /\ \A k \in 1..added : peer_list[k].who = last[k] /\ ~ peer_list[k].open_con
  /\ npc \in {"connect", "opened"} =>
       /\ Len(peer_list) = Len(last)
       /\ i <= Len(last) + 1
       /\ \A k \in 1..Len(last) :
            /\ peer_list[k].who = last[k]
            /\ k < i /\ up[last[k]] => IsConnected(k)
            /\ k >= i => ~ peer_list[k].open_con
  /\ npc = "opened" =>
       /\ i <= Len(last)
       /\ up[last[i]] => peer_list[i].socket_fd = "open"
  /\ ListIsLast

(* A connection is open as long as the other side runs.                     *)
OpenInv ==
  \A k \in 1..Len(peer_list) : peer_list[k].socket_fd = "open" => up[peer_list[k].who]

(* A thread is in the send loop while it holds the mutex.                   *)
MutexInv == \A t \in Senders : spc[t] = "send" <=> mutex = t

(* A peer that is to get m has it, or the loop is still to come to a        *)
(* connection to it.                                                        *)
WillGet(m, p) ==
  \E t \in Senders :
    /\ spc[t] = "send" /\ msg[t] = m
    /\ \E k \in pos..Len(peer_list) : peer_list[k].who = p /\ IsConnected(k)

DueInv ==
  \A m \in Msgs, p \in Peers :
    <<m, p>> \in due /\ up[p] => got[p][m] > 0 \/ WillGet(m, p)

(* Threads that work on messages have taken them up, and different ones.    *)
MsgInv ==
  \A t, u \in Senders :
    /\ spc[t] # "idle" => msg[t] \in relayed
    /\ spc[t] # "idle" /\ spc[u] # "idle" /\ msg[t] = msg[u] => t = u

(* Thread t has still to come to position k with its message.               *)
StillToSend(t, k) == spc[t] = "lock" \/ (spc[t] = "send" /\ pos <= k)

(* A connection the kernel knows to be gone took a message that no thread   *)
(* will send there again.                                                   *)
GoneInv ==
  \A k \in 1..Len(peer_list) :
    peer_list[k].socket_fd \in {"gone", "dead"} =>
      \E m \in relayed : \A t \in Senders : StillToSend(t, k) => msg[t] # m

(* The peers are, as far as they were added, those of a message.            *)
PrefixInv ==
  /\ npc # "recv" => last \in Lists
  /\ \/ Len(peer_list) = 0
     \/ \E list \in Lists :
          /\ Len(peer_list) <= Len(list)
          /\ \A k \in 1..Len(peer_list) : peer_list[k].who = list[k]

(* A loop has sent p no more copies than it has passed entries for p.       *)
Before(p, n) == {k \in 1..Len(peer_list) : k < n /\ peer_list[k].who = p}

CopyInv ==
  \A p \in Peers, m \in Msgs :
    /\ m \notin relayed => got[p][m] = 0
    /\ \A t \in Senders : spc[t] = "lock" /\ msg[t] = m => got[p][m] = 0
    /\ \A t \in Senders : spc[t] = "send" /\ msg[t] = m =>
         got[p][m] <= Cardinality(Before(p, pos))
    /\ got[p][m] > 0 =>
         \/ \E t \in Senders : spc[t] = "send" /\ msg[t] = m
         \/ \E list \in Lists : got[p][m] <= Times(p, list)

IInv == TypeOK /\ ListInv /\ OpenInv /\ MutexInv /\ DueInv /\ MsgInv /\ GoneInv
          /\ OneMessageIsSafe /\ PrefixInv /\ CopyInv
-------------------------------------------------------------------------------
(* What the steps that change the peers do to them. *)

(* The peers on the list.                                                   *)
LEMMA PeersType ==
  ASSUME TypeOK
  PROVE  /\ Len(peer_list) \in Nat
         /\ \A k \in 1..Len(peer_list) :
              /\ peer_list[k] \in Peer
              /\ peer_list[k].who \in Peers
              /\ peer_list[k].socket_fd \in Sockets
              /\ peer_list[k].open_con \in BOOLEAN
<1>1. peer_list \in Seq(Peer)
  BY DEF TypeOK
<1>2. Len(peer_list) \in Nat /\ \A k \in 1..Len(peer_list) : peer_list[k] \in Peer
  BY <1>1
<1> QED
  BY <1>2 DEF Peer

(* One element of the list is replaced.                                     *)
LEMMA Replaced ==
  ASSUME TypeOK, NEW j \in 1..Len(peer_list), NEW e \in Peer,
         peer_list' = [peer_list EXCEPT ![j] = e]
  PROVE  /\ peer_list' \in Seq(Peer)
         /\ Len(peer_list') = Len(peer_list)
         /\ peer_list'[j] = e
         /\ \A k \in 1..Len(peer_list) : k # j => peer_list'[k] = peer_list[k]
<1>1. peer_list \in Seq(Peer)
  BY DEF TypeOK
<1> QED
  BY <1>1, ExceptSeq

(* What connect_to_host does to the list: one peer may get a socket.        *)
LEMMA HostShape ==
  ASSUME TypeOK, connect_to_host
  PROVE  /\ i \in 1..Len(peer_list)
         /\ peer_list' \in Seq(Peer) /\ Len(peer_list') = Len(peer_list)
         /\ \A k \in 1..Len(peer_list) :
              /\ peer_list'[k].who = peer_list[k].who
              /\ peer_list'[k].open_con = peer_list[k].open_con
              /\ k # i \/ peer_list[k].open_con =>
                   peer_list'[k].socket_fd = peer_list[k].socket_fd
         /\ ~ peer_list[i].open_con =>
              peer_list'[i].socket_fd = IF up[peer_list[i].who] THEN "open" ELSE "-1"
<1>1. i \in 1..Len(peer_list)
  BY PeersType DEF TypeOK, connect_to_host
<1>2. peer_list[i] \in Peer
  BY <1>1, PeersType
<1> DEFINE e == [peer_list[i] EXCEPT !.socket_fd =
                    IF peer_list[i].open_con THEN @
                    ELSE IF up[peer_list[i].who] THEN "open" ELSE "-1"]
<1>3. /\ e \in Peer /\ e.who = peer_list[i].who /\ e.open_con = peer_list[i].open_con
      /\ peer_list[i].open_con => e.socket_fd = peer_list[i].socket_fd
      /\ ~ peer_list[i].open_con =>
           e.socket_fd = IF up[peer_list[i].who] THEN "open" ELSE "-1"
  BY <1>2 DEF Peer, Sockets
<1>4. peer_list' = [peer_list EXCEPT ![i] = e]
  BY DEF connect_to_host
<1> HIDE DEF e
<1>5. /\ peer_list' \in Seq(Peer) /\ Len(peer_list') = Len(peer_list)
      /\ peer_list'[i] = e
      /\ \A k \in 1..Len(peer_list) : k # i => peer_list'[k] = peer_list[k]
  BY <1>1, <1>3, <1>4, Replaced
<1> QED
  BY <1>1, <1>3, <1>5

(* What SetOpenCon does to the list: one peer is marked.                    *)
LEMMA OpenConShape ==
  ASSUME TypeOK, ListInv, SetOpenCon
  PROVE  /\ i \in 1..Len(peer_list)
         /\ peer_list' \in Seq(Peer) /\ Len(peer_list') = Len(peer_list)
         /\ \A k \in 1..Len(peer_list) :
              /\ peer_list'[k].who = peer_list[k].who
              /\ peer_list'[k].socket_fd = peer_list[k].socket_fd
              /\ k # i => peer_list'[k].open_con = peer_list[k].open_con
         /\ peer_list'[i].open_con
<1>1. i \in 1..Len(peer_list)
  BY PeersType DEF TypeOK, ListInv, SetOpenCon
<1>2. peer_list[i] \in Peer
  BY <1>1, PeersType
<1> DEFINE e == [peer_list[i] EXCEPT !.open_con = TRUE]
<1>3. /\ e \in Peer /\ e.who = peer_list[i].who
      /\ e.socket_fd = peer_list[i].socket_fd /\ e.open_con
  BY <1>2 DEF Peer
<1>4. peer_list' = [peer_list EXCEPT ![i] = e]
  BY DEF SetOpenCon
<1> HIDE DEF e
<1>5. /\ peer_list' \in Seq(Peer) /\ Len(peer_list') = Len(peer_list)
      /\ peer_list'[i] = e
      /\ \A k \in 1..Len(peer_list) : k # i => peer_list'[k] = peer_list[k]
  BY <1>1, <1>3, <1>4, Replaced
<1> QED
  BY <1>1, <1>3, <1>5

(* What the exit of a peer does: its sockets are closed.                    *)
LEMMA ExitShape ==
  ASSUME TypeOK, NEW p \in Peers, Exit(p)
  PROVE  /\ peer_list' \in Seq(Peer) /\ Len(peer_list') = Len(peer_list)
         /\ \A k \in 1..Len(peer_list) :
              /\ peer_list'[k].who = peer_list[k].who
              /\ peer_list'[k].open_con = peer_list[k].open_con
              /\ peer_list[k].who # p => peer_list'[k].socket_fd = peer_list[k].socket_fd
              /\ peer_list[k].who = p => peer_list'[k].socket_fd # "open"
              /\ peer_list'[k].socket_fd \in {"gone", "dead"} =>
                   peer_list'[k].socket_fd = peer_list[k].socket_fd
         /\ up' = [up EXCEPT ![p] = FALSE]
<1>1. PICK end \in {"fin", "rst"} :
        peer_list' = [k \in 1..Len(peer_list) |->
          IF peer_list[k].who = p /\ peer_list[k].socket_fd = "open"
          THEN [peer_list[k] EXCEPT !.socket_fd = end]
          ELSE peer_list[k]]
  BY DEF Exit
<1>2. ASSUME NEW k \in 1..Len(peer_list)
      PROVE  /\ peer_list'[k] \in Peer
             /\ peer_list'[k].who = peer_list[k].who
             /\ peer_list'[k].open_con = peer_list[k].open_con
             /\ IF peer_list[k].who = p /\ peer_list[k].socket_fd = "open"
                THEN peer_list'[k].socket_fd = end
                ELSE peer_list'[k].socket_fd = peer_list[k].socket_fd
  <2>1. peer_list[k] \in Peer
    BY PeersType
  <2>2. peer_list'[k] =
          IF peer_list[k].who = p /\ peer_list[k].socket_fd = "open"
          THEN [peer_list[k] EXCEPT !.socket_fd = end]
          ELSE peer_list[k]
    BY <1>1
  <2> QED
    BY <2>1, <2>2 DEF Peer, Sockets
<1>3. Len(peer_list) \in Nat
  BY PeersType
<1>4. peer_list' \in Seq(Peer) /\ Len(peer_list') = Len(peer_list)
  BY <1>1, <1>2, <1>3
<1> QED
  BY <1>2, <1>4 DEF Exit

(* What send_msg_peer does: the peer at pos has the message, or its         *)
(* connection is found broken.                                              *)
LEMMA SendShape ==
  ASSUME TypeOK, MsgInv, NEW t \in Senders, send_msg_peer(t)
  PROVE  /\ pos \in 1..Len(peer_list) /\ msg[t] \in Msgs
         /\ peer_list' \in Seq(Peer) /\ Len(peer_list') = Len(peer_list)
         /\ \A k \in 1..Len(peer_list) :
              /\ peer_list'[k].who = peer_list[k].who
              /\ peer_list'[k].open_con = peer_list[k].open_con
              /\ peer_list'[k].socket_fd # peer_list[k].socket_fd =>
                   /\ k = pos
                   /\ peer_list[k].socket_fd \in {"fin", "rst"}
                   /\ peer_list'[k].socket_fd \in {"gone", "dead"}
         /\ got' \in [Peers -> [Msgs -> Nat]]
         /\ \A p \in Peers, m \in Msgs : got[p][m] > 0 => got'[p][m] > 0
         /\ \A p \in Peers, m \in Msgs : got'[p][m] # got[p][m] =>
              p = peer_list[pos].who /\ m = msg[t] /\ got'[p][m] = got[p][m] + 1
         /\ IsConnected(pos) => got'[peer_list[pos].who][msg[t]] > 0
         /\ alive' \in BOOLEAN
         /\ alive' # alive => peer_list[pos].socket_fd \in {"gone", "dead"}
<1>1. pos \in 1..Len(peer_list)
  BY PeersType DEF TypeOK, send_msg_peer
<1>2. /\ peer_list[pos] \in Peer /\ peer_list[pos].who \in Peers
      /\ peer_list \in Seq(Peer)
  BY <1>1, PeersType DEF TypeOK
<1>3. msg[t] \in Msgs
  BY DEF send_msg_peer, MsgInv, TypeOK
<1> DEFINE fd == peer_list[pos].socket_fd
           p == peer_list[pos].who
           Ignored == /\ UNCHANGED <<peer_list, got>> /\ alive' \in BOOLEAN
                      /\ ~ IsConnected(pos)
                      /\ alive' # alive => fd \in {"gone", "dead"}
           Received == /\ got' = [got EXCEPT ![p][msg[t]] = @ + 1]
                       /\ UNCHANGED <<peer_list, alive>>
           Lost == /\ fd \in {"fin", "rst"}
                   /\ peer_list' = [peer_list EXCEPT ![pos].socket_fd =
                                      IF fd = "fin" THEN "gone" ELSE "dead"]
                   /\ UNCHANGED <<got, alive>>
<1>4. CASE Ignored
  BY <1>1, <1>2, <1>3, <1>4 DEF TypeOK
<1>5. CASE Received
  <2>0. got \in [Peers -> [Msgs -> Nat]]
    BY DEF TypeOK
  <2>1. got[p] \in [Msgs -> Nat]
    BY <1>2, <2>0
  <2>2. /\ got' \in [Peers -> [Msgs -> Nat]]
        /\ got'[p][msg[t]] = got[p][msg[t]] + 1
        /\ \A q \in Peers, m \in Msgs : <<q, m>> # <<p, msg[t]>> => got'[q][m] = got[q][m]
    <3> HIDE DEF p, Ignored, Lost
    <3>1. p \in Peers
      BY <1>2 DEF p
    <3> QED
      BY <1>3, <1>5, <2>0, <2>1, <3>1
  <2>3. \A q \in Peers, m \in Msgs : got[q][m] \in Nat /\ got'[q][m] \in Nat
    BY <2>0, <2>2
  <2>4. \A q \in Peers, m \in Msgs :
          \/ got'[q][m] = got[q][m]
          \/ q = p /\ m = msg[t] /\ got'[q][m] = got[q][m] + 1
    <3> SUFFICES ASSUME NEW q \in Peers, NEW m \in Msgs
                 PROVE  \/ got'[q][m] = got[q][m]
                        \/ q = p /\ m = msg[t] /\ got'[q][m] = got[q][m] + 1
      OBVIOUS
    <3> HIDE DEF p, Ignored, Received, Lost
    <3>1. CASE q = p /\ m = msg[t]
      BY <2>2, <3>1
    <3>2. CASE ~ (q = p /\ m = msg[t])
      <4>1. <<q, m>> # <<p, msg[t]>>
        BY <3>2
      <4> QED
        BY <2>2, <4>1
    <3> QED
      BY <3>1, <3>2
  <2>5. UNCHANGED <<peer_list, alive>> /\ alive \in BOOLEAN
    BY <1>5 DEF TypeOK
  <2> HIDE DEF fd, p, Ignored, Received, Lost
  <2>6. \A q \in Peers, m \in Msgs : got[q][m] > 0 => got'[q][m] > 0
    BY <2>3, <2>4
  <2>7. got'[p][msg[t]] > 0
    <3>1. p \in Peers
      BY <1>2 DEF p
    <3> QED
      BY <1>3, <2>2, <2>3, <3>1
  <2> QED
    BY <1>1, <1>2, <1>3, <2>2, <2>4, <2>5, <2>6, <2>7 DEF p
<1>6. CASE Lost
  <2> DEFINE e == [peer_list[pos] EXCEPT !.socket_fd = IF fd = "fin" THEN "gone" ELSE "dead"]
  <2>1. /\ e \in Peer /\ e.who = p /\ e.open_con = peer_list[pos].open_con
        /\ e.socket_fd \in {"gone", "dead"}
    BY <1>2 DEF Peer, Sockets
  <2>2. peer_list' = [peer_list EXCEPT ![pos] = e]
    BY <1>6
  <2> HIDE DEF e
  <2>3. /\ peer_list' \in Seq(Peer) /\ Len(peer_list') = Len(peer_list)
        /\ peer_list'[pos] = e
        /\ \A k \in 1..Len(peer_list) : k # pos => peer_list'[k] = peer_list[k]
    BY <1>1, <2>1, <2>2, Replaced
  <2>4. ~ IsConnected(pos)
    BY <1>6 DEF IsConnected
  <2> QED
    BY <1>1, <1>3, <1>6, <2>1, <2>3, <2>4 DEF TypeOK
<1>7. Ignored \/ Received \/ Lost
  <2>1. alive \in BOOLEAN
    BY DEF TypeOK
  <2>2. CASE ~ peer_list[pos].open_con /\ UNCHANGED <<peer_list, alive, got>>
    BY <2>1, <2>2 DEF IsConnected
  <2>3. CASE send(msg[t])
    <3>1. CASE fd = "open"
      BY <2>3, <3>1 DEF send
    <3>2. CASE fd \in {"fin", "rst"}
      BY <2>3, <3>2 DEF send
    <3>3. CASE fd \in {"gone", "dead"}
      BY <2>3, <3>3 DEF send, IsConnected
    <3>4. CASE fd = "-1"
      BY <2>1, <2>3, <3>4 DEF send, IsConnected
    <3> QED
      BY <2>3, <3>1, <3>2, <3>3, <3>4 DEF send
  <2> QED
    BY <2>2, <2>3 DEF send_msg_peer
<1> HIDE DEF Ignored, Received, Lost
<1> QED
  BY <1>4, <1>5, <1>6, <1>7

-------------------------------------------------------------------------------
(* The initial state satisfies the invariant. *)

(* The invariant holds in the beginning.                                    *)
LEMMA InitIInv == Init => IInv
<1> SUFFICES ASSUME Init PROVE IInv
  OBVIOUS
<1>1. TypeOK
  BY PeersAssumption DEF Init, TypeOK
<1>2. Len(peer_list) = 0 /\ Len(last) = 0
  BY DEF Init
<1>3. ListInv
  BY <1>2 DEF Init, ListInv, ListIsLast
<1>4. OpenInv /\ MutexInv /\ DueInv /\ MsgInv /\ GoneInv /\ OneMessageIsSafe
  BY <1>2, PeersAssumption DEF Init, OpenInv, MutexInv, DueInv, MsgInv, GoneInv, OneMessageIsSafe
<1>5. PrefixInv /\ CopyInv
  BY <1>2 DEF Init, PrefixInv, CopyInv
<1> QED
  BY <1>1, <1>3, <1>4, <1>5 DEF IInv

-------------------------------------------------------------------------------
(* Every step preserves each part of it. *)

(* Types.                                                                   *)
LEMMA TypeStep ==
  ASSUME TypeOK, ListInv, MsgInv, Next
  PROVE  TypeOK'
<1>1. ASSUME NEW list \in Lists, RecvPeers(list)
      PROVE  TypeOK'
  <2>1. list \in Seq(Peers) /\ was' \subseteq Peers
    BY <1>1, PeersAssumption, PeersType DEF RecvPeers, Connected
  <2> QED
    BY <1>1, <2>1, PeersAssumption DEF TypeOK, RecvPeers, nvars, svars
<1>2. CASE clean_peers_list
  BY <1>2 DEF TypeOK, clean_peers_list, nvars, svars
<1>3. CASE AddPeer
  <2>1. last[added + 1] \in Peers
    BY <1>3 DEF TypeOK, AddPeer
  <2>2. [who |-> last[added + 1], socket_fd |-> "unset", open_con |-> FALSE] \in Peer
    BY <2>1 DEF Peer, Sockets
  <2>3. peer_list' \in Seq(Peer)
    BY <1>3, <2>2 DEF TypeOK, AddPeer, nvars, svars
  <2> QED
    BY <1>3, <2>3 DEF TypeOK, AddPeer, nvars, svars
<1>4. CASE Parsed
  BY <1>4 DEF TypeOK, Parsed, nvars, svars
<1>5. CASE connect_to_host
  BY <1>5, HostShape DEF TypeOK, connect_to_host, nvars, svars
<1>6. CASE SetOpenCon
  <2>1. peer_list' \in Seq(Peer)
    BY <1>6, OpenConShape
  <2> QED
    BY <1>6, <2>1 DEF TypeOK, SetOpenCon, svars
<1>7. CASE AllConnected
  BY <1>7 DEF TypeOK, AllConnected, nvars, svars
<1>8. ASSUME NEW t \in Senders, NEW m \in Msgs, TakeUp(t, m)
      PROVE  TypeOK'
  BY <1>8 DEF TypeOK, TakeUp, nvars, svars
<1>9. ASSUME NEW t \in Senders, LockPeers(t)
      PROVE  TypeOK'
  <2>1. due' \subseteq Msgs \X Peers /\ owed' \subseteq Msgs \X Peers
    <3>1. msg[t] \in Msgs
      BY <1>9 DEF LockPeers, MsgInv, TypeOK
    <3>2. Connected \subseteq Peers
      BY PeersType DEF Connected
    <3> QED
      BY <1>9, <3>1, <3>2 DEF TypeOK, LockPeers
  <2> QED
    BY <1>9, <2>1 DEF TypeOK, LockPeers, nvars, svars
<1>10. ASSUME NEW t \in Senders, send_msg_peer(t)
      PROVE  TypeOK'
  BY <1>10, SendShape DEF TypeOK, send_msg_peer, nvars, svars
<1>11. ASSUME NEW t \in Senders, UnlockPeers(t)
      PROVE  TypeOK'
  BY <1>11 DEF TypeOK, UnlockPeers, nvars, svars
<1>12. ASSUME NEW p \in Peers, Exit(p)
      PROVE  TypeOK'
  <2>1. peer_list' \in Seq(Peer) /\ up' \in [Peers -> BOOLEAN]
    BY <1>12, ExitShape DEF TypeOK
  <2> QED
    BY <1>12, <2>1 DEF TypeOK, Exit, nvars, svars
<1> QED
  BY <1>1, <1>2, <1>3, <1>4, <1>5, <1>6, <1>7, <1>8, <1>9, <1>10, <1>11, <1>12
  DEF Next, name_server_handle, client_send_to_all_peers

(* ListInv, where connections to peers that run stay as they are.           *)
LEMMA SameList ==
  ASSUME TypeOK, ListInv,
         UNCHANGED <<npc, last, added, i>>, Len(peer_list') = Len(peer_list),
         \A q \in Peers : up'[q] => up[q],
         \A k \in 1..Len(peer_list) :
           /\ peer_list'[k].who = peer_list[k].who
           /\ peer_list'[k].open_con = peer_list[k].open_con
           /\ up'[peer_list[k].who] /\ peer_list[k].socket_fd = "open" =>
                peer_list'[k].socket_fd = "open"
  PROVE  ListInv'
<1>1. /\ Len(last) \in Nat /\ \A k \in 1..Len(last) : last[k] \in Peers
      /\ i \in Nat \ {0} /\ added \in Nat
  BY DEF TypeOK
<1>2. CASE npc \in {"recv", "clean", "add"}
  BY <1>1, <1>2 DEF ListInv, ListIsLast
<1>3. CASE npc \in {"connect", "opened"}
  BY <1>1, <1>3 DEF ListInv, ListIsLast, IsConnected
<1> QED
  BY <1>2, <1>3 DEF TypeOK

(* The list is worked off entry by entry.                                   *)
LEMMA ListStep ==
  ASSUME TypeOK, ListInv, MsgInv, Next
  PROVE  ListInv'
<1>0. ASSUME UNCHANGED <<npc, last, added, i, peer_list, up>>
      PROVE  ListInv'
  BY <1>0 DEF ListInv, ListIsLast, IsConnected
<1>1. ASSUME NEW list \in Lists, RecvPeers(list)
      PROVE  ListInv'
  BY <1>1 DEF ListInv, ListIsLast, IsConnected, RecvPeers
<1>2. CASE clean_peers_list
  <2>1. npc' = "add" /\ added' = 0 /\ Len(peer_list') = 0 /\ UNCHANGED last
    BY <1>2 DEF ListInv, clean_peers_list
  <2>2. Len(last) \in Nat
    BY DEF TypeOK
  <2> QED
    BY <2>1, <2>2 DEF ListInv, ListIsLast
<1>3. CASE AddPeer
  <2> DEFINE e == [who |-> last[added + 1], socket_fd |-> "unset", open_con |-> FALSE]
  <2>1. /\ npc = "add" /\ npc' = "add" /\ added' = added + 1 /\ UNCHANGED last
        /\ added < Len(last) /\ added \in Nat /\ Len(last) \in Nat
        /\ Len(peer_list) = added
    BY <1>3 DEF TypeOK, ListInv, AddPeer
  <2>2. /\ peer_list \in Seq(Peer) /\ peer_list' = Append(peer_list, e)
        /\ e.who = last[added + 1] /\ ~ e.open_con
    BY <1>3 DEF TypeOK, AddPeer
  <2> HIDE DEF e
  <2>3. /\ Len(peer_list') = added + 1 /\ peer_list'[added + 1] = e
        /\ \A k \in 1..added : peer_list'[k] = peer_list[k]
    BY <2>1, <2>2
  <2>4. \A k \in 1..(added + 1) : peer_list'[k].who = last[k] /\ ~ peer_list'[k].open_con
    BY <2>1, <2>2, <2>3 DEF ListInv
  <2> QED
    BY <2>1, <2>3, <2>4 DEF ListInv, ListIsLast
<1>4. CASE Parsed
  <2>1. /\ npc = "add" /\ npc' = "connect" /\ i' = 1 /\ added = Len(last)
        /\ UNCHANGED <<last, peer_list, up>> /\ Len(last) \in Nat
    BY <1>4 DEF TypeOK, Parsed
  <2> QED
    BY <2>1 DEF ListInv, ListIsLast
<1>5. CASE connect_to_host
  <2>1. /\ npc = "connect" /\ npc' = "opened" /\ UNCHANGED <<last, i, up>>
        /\ Len(peer_list) = Len(last) /\ Len(last) \in Nat /\ i \in 1..Len(last)
    BY <1>5, HostShape DEF TypeOK, ListInv, connect_to_host
  <2>2. ~ peer_list[i].open_con /\ peer_list[i].who = last[i]
    BY <2>1 DEF ListInv
  <2>3. \A k \in 1..Len(last) :
          /\ peer_list'[k].who = last[k]
          /\ k < i /\ up[last[k]] => IsConnected(k)'
          /\ k >= i => ~ peer_list'[k].open_con
    BY <1>5, <2>1, HostShape DEF ListInv, IsConnected
  <2>4. up[last[i]] => peer_list'[i].socket_fd = "open"
    BY <1>5, <2>2, HostShape
  <2>5. Len(peer_list') = Len(last)
    BY <1>5, <2>1, HostShape
  <2> QED
    BY <2>1, <2>3, <2>4, <2>5 DEF ListInv, ListIsLast
<1>6. CASE SetOpenCon
  <2>1. /\ npc = "opened" /\ npc' = "connect" /\ UNCHANGED <<last, up>> /\ i' = i + 1
        /\ Len(peer_list) = Len(last) /\ Len(last) \in Nat /\ i \in 1..Len(last)
    BY <1>6, OpenConShape DEF TypeOK, ListInv, SetOpenCon
  <2>2. \A k \in 1..Len(last) :
          /\ peer_list'[k].who = last[k]
          /\ k < i + 1 /\ up[last[k]] => IsConnected(k)'
          /\ k >= i + 1 => ~ peer_list'[k].open_con
    BY <1>6, <2>1, OpenConShape DEF ListInv, IsConnected
  <2>3. Len(peer_list') = Len(last)
    BY <1>6, <2>1, OpenConShape
  <2> QED
    BY <2>1, <2>2, <2>3 DEF ListInv, ListIsLast
<1>7. CASE AllConnected
  <2>1. /\ npc = "connect" /\ npc' = "recv" /\ UNCHANGED <<last, peer_list, up>>
        /\ Len(peer_list) = Len(last) /\ Len(last) \in Nat /\ i > Len(last)
    BY <1>7 DEF TypeOK, ListInv, AllConnected
  <2> QED
    BY <2>1 DEF ListInv, ListIsLast, IsConnected, TypeOK
<1>8. ASSUME NEW t \in Senders, NEW m \in Msgs, TakeUp(t, m)
      PROVE  ListInv'
  BY <1>0, <1>8 DEF TakeUp, nvars, svars
<1>9. ASSUME NEW t \in Senders, LockPeers(t)
      PROVE  ListInv'
  BY <1>0, <1>9 DEF LockPeers, nvars, svars
<1>10. ASSUME NEW t \in Senders, send_msg_peer(t)
      PROVE  ListInv'
  <2>1. /\ UNCHANGED <<npc, last, added, i, up>> /\ Len(peer_list') = Len(peer_list)
        /\ \A k \in 1..Len(peer_list) :
             /\ peer_list'[k].who = peer_list[k].who
             /\ peer_list'[k].open_con = peer_list[k].open_con
             /\ peer_list[k].socket_fd = "open" => peer_list'[k].socket_fd = "open"
    BY <1>10, SendShape DEF send_msg_peer, nvars
  <2> QED
    BY <2>1, SameList
<1>11. ASSUME NEW t \in Senders, UnlockPeers(t)
      PROVE  ListInv'
  BY <1>0, <1>11 DEF UnlockPeers, nvars, svars
<1>12. ASSUME NEW p \in Peers, Exit(p)
      PROVE  ListInv'
  <2>1. /\ UNCHANGED <<npc, last, added, i>> /\ Len(peer_list') = Len(peer_list)
        /\ \A k \in 1..Len(peer_list) :
             /\ peer_list'[k].who = peer_list[k].who
             /\ peer_list'[k].open_con = peer_list[k].open_con
             /\ peer_list[k].who # p /\ peer_list[k].socket_fd = "open" =>
                  peer_list'[k].socket_fd = "open"
    BY <1>12, ExitShape DEF Exit, nvars
  <2>2. \A q \in Peers : up'[q] => up[q] /\ q # p
    BY <1>12, ExitShape DEF TypeOK
  <2>3. \A k \in 1..Len(peer_list) :
          up'[peer_list[k].who] /\ peer_list[k].socket_fd = "open" =>
            peer_list'[k].socket_fd = "open"
    BY <2>1, <2>2, PeersType
  <2> QED
    BY <2>1, <2>2, <2>3, SameList
<1> QED
  BY <1>1, <1>2, <1>3, <1>4, <1>5, <1>6, <1>7, <1>8, <1>9, <1>10, <1>11, <1>12
  DEF Next, name_server_handle, client_send_to_all_peers

(* Connections are open as long as the other side runs.                     *)
LEMMA OpenStep ==
  ASSUME TypeOK, ListInv, OpenInv, MsgInv, Next
  PROVE  OpenInv'
<1>0. ASSUME UNCHANGED <<peer_list, up>>
      PROVE  OpenInv'
  BY <1>0 DEF OpenInv
<1>1. ASSUME NEW list \in Lists, RecvPeers(list)
      PROVE  OpenInv'
  BY <1>0, <1>1 DEF RecvPeers, nvars, svars
<1>2. CASE clean_peers_list
  <2>1. Len(peer_list') = 0
    BY <1>2 DEF clean_peers_list
  <2> QED
    BY <2>1 DEF OpenInv
<1>3. CASE AddPeer
  <2> DEFINE e == [who |-> last[added + 1], socket_fd |-> "unset", open_con |-> FALSE]
  <2>1. peer_list \in Seq(Peer) /\ UNCHANGED up /\ peer_list' = Append(peer_list, e)
    BY <1>3 DEF TypeOK, AddPeer
  <2>2. e.socket_fd = "unset"
    OBVIOUS
  <2> HIDE DEF e
  <2>3. /\ Len(peer_list) \in Nat /\ Len(peer_list') = Len(peer_list) + 1
        /\ peer_list'[Len(peer_list) + 1].socket_fd = "unset"
        /\ \A k \in 1..Len(peer_list) : peer_list'[k] = peer_list[k]
    BY <2>1, <2>2
  <2> QED
    BY <2>1, <2>3 DEF OpenInv
<1>4. CASE Parsed
  BY <1>0, <1>4 DEF Parsed, nvars, svars
<1>5. CASE connect_to_host
  BY <1>5, HostShape DEF OpenInv, connect_to_host
<1>6. CASE SetOpenCon
  BY <1>6, OpenConShape DEF OpenInv, SetOpenCon
<1>7. CASE AllConnected
  BY <1>0, <1>7 DEF AllConnected, nvars, svars
<1>8. ASSUME NEW t \in Senders, NEW m \in Msgs, TakeUp(t, m)
      PROVE  OpenInv'
  BY <1>0, <1>8 DEF TakeUp, nvars, svars
<1>9. ASSUME NEW t \in Senders, LockPeers(t)
      PROVE  OpenInv'
  BY <1>0, <1>9 DEF LockPeers, nvars, svars
<1>10. ASSUME NEW t \in Senders, send_msg_peer(t)
      PROVE  OpenInv'
  BY <1>10, SendShape DEF OpenInv, send_msg_peer
<1>11. ASSUME NEW t \in Senders, UnlockPeers(t)
      PROVE  OpenInv'
  BY <1>0, <1>11 DEF UnlockPeers, nvars, svars
<1>12. ASSUME NEW p \in Peers, Exit(p)
      PROVE  OpenInv'
  <2>1. \A q \in Peers : q # p => up'[q] = up[q]
    BY <1>12, ExitShape DEF TypeOK
  <2>2. /\ Len(peer_list') = Len(peer_list)
        /\ \A k \in 1..Len(peer_list) :
             /\ peer_list'[k].who = peer_list[k].who /\ peer_list[k].who \in Peers
             /\ peer_list'[k].socket_fd = "open" =>
                  peer_list[k].who # p /\ peer_list[k].socket_fd = "open"
    BY <1>12, ExitShape, PeersType
  <2> QED
    BY <2>1, <2>2 DEF OpenInv
<1> QED
  BY <1>1, <1>2, <1>3, <1>4, <1>5, <1>6, <1>7, <1>8, <1>9, <1>10, <1>11, <1>12
  DEF Next, name_server_handle, client_send_to_all_peers

(* The mutex is taken and released with the loop.                           *)
LEMMA MutexStep ==
  ASSUME TypeOK, MutexInv, Next
  PROVE  MutexInv'
<1>1. ASSUME NEW list \in Lists, RecvPeers(list)
      PROVE  MutexInv'
  BY <1>1, PeersAssumption DEF TypeOK, MutexInv, RecvPeers, nvars, svars
<1>2. CASE clean_peers_list
  BY <1>2, PeersAssumption DEF TypeOK, MutexInv, clean_peers_list, nvars, svars
<1>3. CASE AddPeer
  BY <1>3, PeersAssumption DEF TypeOK, MutexInv, AddPeer, nvars, svars
<1>4. CASE Parsed
  BY <1>4, PeersAssumption DEF TypeOK, MutexInv, Parsed, nvars, svars
<1>5. CASE connect_to_host
  BY <1>5, PeersAssumption DEF TypeOK, MutexInv, connect_to_host, nvars, svars
<1>6. CASE SetOpenCon
  BY <1>6, PeersAssumption DEF TypeOK, MutexInv, SetOpenCon, nvars, svars
<1>7. CASE AllConnected
  BY <1>7, PeersAssumption DEF TypeOK, MutexInv, AllConnected, nvars, svars
<1>8. ASSUME NEW t \in Senders, NEW m \in Msgs, TakeUp(t, m)
      PROVE  MutexInv'
  BY <1>8, PeersAssumption DEF TypeOK, MutexInv, TakeUp, nvars, svars
<1>9. ASSUME NEW t \in Senders, LockPeers(t)
      PROVE  MutexInv'
  BY <1>9, PeersAssumption DEF TypeOK, MutexInv, LockPeers, nvars, svars
<1>10. ASSUME NEW t \in Senders, send_msg_peer(t)
      PROVE  MutexInv'
  BY <1>10, PeersAssumption DEF TypeOK, MutexInv, send_msg_peer, nvars, svars
<1>11. ASSUME NEW t \in Senders, UnlockPeers(t)
      PROVE  MutexInv'
  BY <1>11, PeersAssumption DEF TypeOK, MutexInv, UnlockPeers, nvars, svars
<1>12. ASSUME NEW p \in Peers, Exit(p)
      PROVE  MutexInv'
  BY <1>12, PeersAssumption DEF TypeOK, MutexInv, Exit, nvars, svars
<1> QED
  BY <1>1, <1>2, <1>3, <1>4, <1>5, <1>6, <1>7, <1>8, <1>9, <1>10, <1>11, <1>12
  DEF Next, name_server_handle, client_send_to_all_peers

(* Only TakeUp gives a thread a message, and none that another has.         *)
LEMMA MsgStep ==
  ASSUME TypeOK, MsgInv, Next
  PROVE  MsgInv'
<1>1. ASSUME NEW list \in Lists, RecvPeers(list)
      PROVE  MsgInv'
  BY <1>1 DEF TypeOK, MsgInv, RecvPeers, nvars, svars
<1>2. CASE clean_peers_list
  BY <1>2 DEF TypeOK, MsgInv, clean_peers_list, nvars, svars
<1>3. CASE AddPeer
  BY <1>3 DEF TypeOK, MsgInv, AddPeer, nvars, svars
<1>4. CASE Parsed
  BY <1>4 DEF TypeOK, MsgInv, Parsed, nvars, svars
<1>5. CASE connect_to_host
  BY <1>5 DEF TypeOK, MsgInv, connect_to_host, nvars, svars
<1>6. CASE SetOpenCon
  BY <1>6 DEF TypeOK, MsgInv, SetOpenCon, nvars, svars
<1>7. CASE AllConnected
  BY <1>7 DEF TypeOK, MsgInv, AllConnected, nvars, svars
<1>8. ASSUME NEW t \in Senders, NEW m \in Msgs, TakeUp(t, m)
      PROVE  MsgInv'
  BY <1>8 DEF TypeOK, MsgInv, TakeUp, nvars, svars
<1>9. ASSUME NEW t \in Senders, LockPeers(t)
      PROVE  MsgInv'
  BY <1>9 DEF TypeOK, MsgInv, LockPeers, nvars, svars
<1>10. ASSUME NEW t \in Senders, send_msg_peer(t)
      PROVE  MsgInv'
  BY <1>10 DEF TypeOK, MsgInv, send_msg_peer, nvars, svars
<1>11. ASSUME NEW t \in Senders, UnlockPeers(t)
      PROVE  MsgInv'
  BY <1>11 DEF TypeOK, MsgInv, UnlockPeers, nvars, svars
<1>12. ASSUME NEW p \in Peers, Exit(p)
      PROVE  MsgInv'
  BY <1>12 DEF TypeOK, MsgInv, Exit, nvars, svars
<1> QED
  BY <1>1, <1>2, <1>3, <1>4, <1>5, <1>6, <1>7, <1>8, <1>9, <1>10, <1>11, <1>12
  DEF Next, name_server_handle, client_send_to_all_peers

(* DueInv, where loops go on and connections to peers that run stay.        *)
LEMMA SameDue ==
  ASSUME TypeOK, DueInv, UNCHANGED <<due, got, pos>>, Len(peer_list') = Len(peer_list),
         \A t \in Senders : spc[t] = "send" => spc'[t] = "send" /\ msg'[t] = msg[t],
         \A q \in Peers : up'[q] => up[q],
         \A k \in 1..Len(peer_list) :
           /\ peer_list'[k].who = peer_list[k].who
           /\ IsConnected(k) /\ up'[peer_list[k].who] => IsConnected(k)'
  PROVE  DueInv'
<1>1. \A m \in Msgs, p \in Peers : up'[p] /\ WillGet(m, p) => WillGet(m, p)'
  <2> SUFFICES ASSUME NEW m \in Msgs, NEW p \in Peers, up'[p], WillGet(m, p)
               PROVE  WillGet(m, p)'
    OBVIOUS
  <2>1. PICK t \in Senders :
          /\ spc[t] = "send" /\ msg[t] = m
          /\ \E k \in pos..Len(peer_list) : peer_list[k].who = p /\ IsConnected(k)
    BY DEF WillGet
  <2>2. PICK k \in pos..Len(peer_list) : peer_list[k].who = p /\ IsConnected(k)
    BY <2>1
  <2>3. k \in 1..Len(peer_list)
    BY PeersType DEF TypeOK
  <2> QED
    BY <2>1, <2>2, <2>3 DEF WillGet
<1> QED
  BY <1>1 DEF DueInv

(* Who holds no mutex is in no loop.                                        *)
LEMMA NoLoop ==
  ASSUME MutexInv, mutex = Nobody
  PROVE  \A t \in Senders : spc[t] # "send"
BY PeersAssumption DEF MutexInv

(* What is due stays due or is sent.                                        *)
LEMMA DueStep ==
  ASSUME TypeOK, ListInv, OpenInv, MutexInv, MsgInv, DueInv, Next
  PROVE  DueInv'
<1>1. ASSUME NEW list \in Lists, RecvPeers(list)
      PROVE  DueInv'
  <2>1. UNCHANGED <<due, got, pos, peer_list, up, spc, msg>>
    BY <1>1 DEF RecvPeers, svars
  <2> QED
    BY <2>1, SameDue DEF IsConnected
<1>2. CASE clean_peers_list
  <2>1. \A m \in Msgs, p \in Peers : ~ WillGet(m, p)
    BY <1>2, NoLoop DEF clean_peers_list, WillGet
  <2>2. UNCHANGED <<due, got, up>>
    BY <1>2 DEF clean_peers_list, svars
  <2> QED
    BY <2>1, <2>2 DEF DueInv
<1>3. CASE AddPeer
  <2>1. \A m \in Msgs, p \in Peers : ~ WillGet(m, p)
    BY <1>3, NoLoop DEF AddPeer, WillGet
  <2>2. UNCHANGED <<due, got, up>>
    BY <1>3 DEF AddPeer, svars
  <2> QED
    BY <2>1, <2>2 DEF DueInv
<1>4. CASE Parsed
  <2>1. UNCHANGED <<due, got, pos, peer_list, up, spc, msg>>
    BY <1>4 DEF Parsed, svars
  <2> QED
    BY <2>1, SameDue DEF IsConnected
<1>5. CASE connect_to_host
  <2>1. /\ UNCHANGED <<due, got, pos, up, spc, msg>>
        /\ Len(peer_list') = Len(peer_list)
        /\ \A k \in 1..Len(peer_list) :
             /\ peer_list'[k].who = peer_list[k].who
             /\ IsConnected(k) => IsConnected(k)'
    BY <1>5, HostShape DEF connect_to_host, svars, IsConnected
  <2> QED
    BY <2>1, SameDue
<1>6. CASE SetOpenCon
  <2>1. /\ UNCHANGED <<due, got, pos, up, spc, msg>>
        /\ Len(peer_list') = Len(peer_list)
        /\ \A k \in 1..Len(peer_list) :
             /\ peer_list'[k].who = peer_list[k].who
             /\ IsConnected(k) => IsConnected(k)'
    BY <1>6, OpenConShape DEF SetOpenCon, svars, IsConnected
  <2> QED
    BY <2>1, SameDue
<1>7. CASE AllConnected
  <2>1. UNCHANGED <<due, got, pos, peer_list, up, spc, msg>>
    BY <1>7 DEF AllConnected, svars
  <2> QED
    BY <2>1, SameDue DEF IsConnected
<1>8. ASSUME NEW t \in Senders, NEW m \in Msgs, TakeUp(t, m)
      PROVE  DueInv'
  <2>1. /\ UNCHANGED <<due, got, pos, peer_list, up>>
        /\ \A u \in Senders : spc[u] = "send" => spc'[u] = "send" /\ msg'[u] = msg[u]
    BY <1>8 DEF TypeOK, TakeUp
  <2> QED
    BY <2>1, SameDue DEF IsConnected
<1>9. ASSUME NEW t \in Senders, LockPeers(t)
      PROVE  DueInv'
  <2>1. /\ mutex = Nobody /\ spc'[t] = "send" /\ pos' = 1
        /\ due' = due \union {<<msg[t], p>> : p \in Connected}
        /\ UNCHANGED <<got, peer_list, up, msg>>
    BY <1>9 DEF TypeOK, LockPeers
  <2>2. \A m \in Msgs, p \in Peers : ~ WillGet(m, p)
    BY <2>1, NoLoop DEF WillGet
  <2>3. \A m \in Msgs, p \in Peers : m = msg[t] /\ p \in Connected => WillGet(m, p)'
    BY <2>1 DEF WillGet, Connected, IsConnected
  <2> SUFFICES ASSUME NEW m \in Msgs, NEW p \in Peers, <<m, p>> \in due', up'[p]
               PROVE  got'[p][m] > 0 \/ WillGet(m, p)'
    BY DEF DueInv
  <2>4. CASE <<m, p>> \in due
    BY <2>1, <2>2, <2>4 DEF DueInv
  <2>5. <<m, p>> \in due \/ \E q \in Connected : <<m, p>> = <<msg[t], q>>
    BY <2>1
  <2>6. <<m, p>> \in due \/ (m = msg[t] /\ p \in Connected)
    BY <2>5
  <2> QED
    BY <2>3, <2>4, <2>6
<1>10. ASSUME NEW t \in Senders, send_msg_peer(t)
      PROVE  DueInv'
  <2>1. /\ spc[t] = "send" /\ pos' = pos + 1 /\ UNCHANGED <<due, up, spc, msg>>
        /\ pos \in Nat /\ mutex = t
    BY <1>10 DEF TypeOK, MutexInv, send_msg_peer
  <2> SUFFICES ASSUME NEW m \in Msgs, NEW p \in Peers, got[p][m] > 0 \/ WillGet(m, p)
               PROVE  got'[p][m] > 0 \/ WillGet(m, p)'
    BY <2>1 DEF DueInv
  <2>2. CASE got[p][m] > 0
    BY <1>10, <2>2, SendShape
  <2>3. CASE WillGet(m, p)
    <3>1. msg[t] = m
      BY <2>1, <2>3 DEF WillGet, MutexInv
    <3>2. PICK k \in pos..Len(peer_list) : peer_list[k].who = p /\ IsConnected(k)
      BY <2>3 DEF WillGet
    <3>3. CASE k = pos
      BY <1>10, <3>1, <3>2, <3>3, SendShape
    <3>4. CASE k # pos
      <4>0. Len(peer_list') = Len(peer_list) /\ Len(peer_list) \in Nat
        BY <1>10, PeersType, SendShape
      <4>1. k \in pos'..Len(peer_list') /\ k \in 1..Len(peer_list)
        BY <2>1, <3>2, <3>4, <4>0
      <4>2. peer_list'[k].who = p /\ IsConnected(k)'
        BY <1>10, <3>2, <4>1, SendShape DEF IsConnected
      <4> QED
        BY <2>1, <3>1, <4>1, <4>2 DEF WillGet
    <3> QED
      BY <3>3, <3>4
  <2> QED
    BY <2>2, <2>3
<1>11. ASSUME NEW t \in Senders, UnlockPeers(t)
      PROVE  DueInv'
  <2>1. /\ UNCHANGED <<due, got, up>> /\ mutex = t /\ pos > Len(peer_list)
        /\ pos \in Nat /\ Len(peer_list) \in Nat
    BY <1>11, PeersType DEF UnlockPeers, MutexInv, TypeOK
  <2>2. \A m \in Msgs, p \in Peers : ~ WillGet(m, p)
    BY <2>1 DEF WillGet
  <2> QED
    BY <2>1, <2>2 DEF DueInv
<1>12. ASSUME NEW p \in Peers, Exit(p)
      PROVE  DueInv'
  <2>1. UNCHANGED <<due, got, pos, spc, msg>>
    BY <1>12 DEF Exit, svars
  <2>2. \A q \in Peers : up'[q] => up[q] /\ q # p
    BY <1>12, ExitShape DEF TypeOK
  <2>3. /\ Len(peer_list') = Len(peer_list)
        /\ \A k \in 1..Len(peer_list) :
             /\ peer_list'[k].who = peer_list[k].who
             /\ IsConnected(k) /\ up'[peer_list[k].who] => IsConnected(k)'
    BY <1>12, <2>2, ExitShape, PeersType DEF IsConnected
  <2> QED
    BY <2>1, <2>2, <2>3, SameDue
<1> QED
  BY <1>1, <1>2, <1>3, <1>4, <1>5, <1>6, <1>7, <1>8, <1>9, <1>10, <1>11, <1>12
  DEF Next, name_server_handle, client_send_to_all_peers

(* GoneInv, where nothing is newly gone and nobody has more to send.        *)
LEMMA SameGone ==
  ASSUME GoneInv, relayed \subseteq relayed', Len(peer_list') = Len(peer_list),
         \A k \in 1..Len(peer_list) :
           /\ peer_list'[k].socket_fd \in {"gone", "dead"} =>
                peer_list[k].socket_fd \in {"gone", "dead"}
           /\ \A t \in Senders : StillToSend(t, k)' =>
                \/ msg'[t] \notin relayed
                \/ StillToSend(t, k) /\ msg'[t] = msg[t]
  PROVE  GoneInv'
BY DEF GoneInv

(* A connection that is gone has had its message.                           *)
LEMMA GoneStep ==
  ASSUME TypeOK, ListInv, MutexInv, MsgInv, GoneInv, Next
  PROVE  GoneInv'
<1>1. ASSUME NEW list \in Lists, RecvPeers(list)
      PROVE  GoneInv'
  <2>1. UNCHANGED <<relayed, peer_list, spc, msg, pos>>
    BY <1>1 DEF RecvPeers, svars
  <2> QED
    BY <2>1, SameGone DEF StillToSend
<1>2. CASE clean_peers_list
  <2>1. Len(peer_list') = 0
    BY <1>2 DEF clean_peers_list
  <2> QED
    BY <2>1 DEF GoneInv
<1>3. CASE AddPeer
  <2> DEFINE e == [who |-> last[added + 1], socket_fd |-> "unset", open_con |-> FALSE]
  <2>1. /\ peer_list \in Seq(Peer) /\ peer_list' = Append(peer_list, e)
        /\ UNCHANGED <<relayed, spc, msg, pos>>
    BY <1>3 DEF TypeOK, AddPeer, svars
  <2>2. e.socket_fd = "unset"
    OBVIOUS
  <2> HIDE DEF e
  <2>3. /\ Len(peer_list) \in Nat /\ Len(peer_list') = Len(peer_list) + 1
        /\ peer_list'[Len(peer_list) + 1].socket_fd = "unset"
        /\ \A k \in 1..Len(peer_list) : peer_list'[k] = peer_list[k]
    BY <2>1, <2>2
  <2>4. ASSUME NEW k \in 1..Len(peer_list'), peer_list'[k].socket_fd \in {"gone", "dead"}
        PROVE  k \in 1..Len(peer_list) /\ peer_list[k].socket_fd \in {"gone", "dead"}
    BY <2>3, <2>4
  <2> QED
    BY <2>1, <2>4 DEF GoneInv, StillToSend
<1>4. CASE Parsed
  <2>1. UNCHANGED <<relayed, peer_list, spc, msg, pos>>
    BY <1>4 DEF Parsed, svars
  <2> QED
    BY <2>1, SameGone DEF StillToSend
<1>5. CASE connect_to_host
  <2>1. UNCHANGED <<relayed, spc, msg, pos>>
    BY <1>5 DEF connect_to_host, svars
  <2> QED
    BY <1>5, <2>1, HostShape, SameGone DEF StillToSend
<1>6. CASE SetOpenCon
  <2>1. UNCHANGED <<relayed, spc, msg, pos>>
    BY <1>6 DEF SetOpenCon, svars
  <2> QED
    BY <1>6, <2>1, OpenConShape, SameGone DEF StillToSend
<1>7. CASE AllConnected
  <2>1. UNCHANGED <<relayed, peer_list, spc, msg, pos>>
    BY <1>7 DEF AllConnected, svars
  <2> QED
    BY <2>1, SameGone DEF StillToSend
<1>8. ASSUME NEW t \in Senders, NEW m \in Msgs, TakeUp(t, m)
      PROVE  GoneInv'
  <2>1. /\ UNCHANGED <<peer_list, pos>> /\ relayed' = relayed \union {m}
        /\ msg'[t] = m /\ m \notin relayed
        /\ \A u \in Senders : u # t => spc'[u] = spc[u] /\ msg'[u] = msg[u]
    BY <1>8 DEF TypeOK, TakeUp
  <2> QED
    BY <2>1, SameGone DEF StillToSend
<1>9. ASSUME NEW t \in Senders, LockPeers(t)
      PROVE  GoneInv'
  <2>1. /\ UNCHANGED <<peer_list, relayed, msg>> /\ spc[t] = "lock" /\ mutex = Nobody
        /\ \A u \in Senders : u # t => spc'[u] = spc[u]
    BY <1>9 DEF TypeOK, LockPeers
  <2>2. \A u \in Senders : spc[u] # "send"
    BY <2>1, NoLoop
  <2> QED
    BY <2>1, <2>2, SameGone DEF StillToSend
<1>10. ASSUME NEW t \in Senders, send_msg_peer(t)
      PROVE  GoneInv'
  <2>1. /\ UNCHANGED <<relayed, msg, spc>> /\ spc[t] = "send" /\ mutex = t
        /\ pos' = pos + 1 /\ pos \in Nat
    BY <1>10 DEF TypeOK, MutexInv, send_msg_peer
  <2> SUFFICES ASSUME NEW k \in 1..Len(peer_list),
                      peer_list'[k].socket_fd \in {"gone", "dead"}
               PROVE  \E m \in relayed : \A u \in Senders : StillToSend(u, k)' => msg[u] # m
    BY <1>10, <2>1, SendShape DEF GoneInv
  <2>2. \A u \in Senders : StillToSend(u, k)' => StillToSend(u, k)
    BY <2>1 DEF StillToSend
  <2>3. CASE peer_list[k].socket_fd \in {"gone", "dead"}
    BY <2>2, <2>3 DEF GoneInv
  <2>4. CASE peer_list[k].socket_fd \notin {"gone", "dead"}
    <3>1. k = pos
      BY <1>10, <2>4, SendShape
    <3>2. msg[t] \in relayed
      BY <2>1 DEF MsgInv
    <3>3. ASSUME NEW u \in Senders, StillToSend(u, k)'
          PROVE  msg[u] # msg[t]
      <4>1. u # t
        BY <2>1, <3>1, <3>3 DEF StillToSend
      <4>2. spc[u] # "idle"
        BY <2>1, <3>3 DEF StillToSend
      <4> QED
        BY <2>1, <4>1, <4>2 DEF MsgInv
    <3> QED
      BY <3>2, <3>3
  <2> QED
    BY <2>3, <2>4
<1>11. ASSUME NEW t \in Senders, UnlockPeers(t)
      PROVE  GoneInv'
  <2>1. /\ UNCHANGED <<peer_list, relayed, msg, pos>> /\ spc'[t] = "idle"
        /\ \A u \in Senders : u # t => spc'[u] = spc[u]
    BY <1>11 DEF TypeOK, UnlockPeers
  <2> QED
    BY <2>1, SameGone DEF StillToSend
<1>12. ASSUME NEW p \in Peers, Exit(p)
      PROVE  GoneInv'
  <2>1. UNCHANGED <<relayed, spc, msg, pos>>
    BY <1>12 DEF Exit, svars
  <2> QED
    BY <1>12, <2>1, ExitShape, SameGone DEF StillToSend
<1> QED
  BY <1>1, <1>2, <1>3, <1>4, <1>5, <1>6, <1>7, <1>8, <1>9, <1>10, <1>11, <1>12
  DEF Next, name_server_handle, client_send_to_all_peers

(* It takes a second message to end the process.                            *)
LEMMA SafeStep ==
  ASSUME TypeOK, MsgInv, GoneInv, OneMessageIsSafe, Next
  PROVE  OneMessageIsSafe'
<1>1. ASSUME NEW list \in Lists, RecvPeers(list)
      PROVE  OneMessageIsSafe'
  BY <1>1 DEF Next, RecvPeers, OneMessageIsSafe
<1>2. CASE clean_peers_list
  BY <1>2 DEF Next, clean_peers_list, OneMessageIsSafe
<1>3. CASE AddPeer
  BY <1>3 DEF Next, AddPeer, OneMessageIsSafe
<1>4. CASE Parsed
  BY <1>4 DEF Next, Parsed, OneMessageIsSafe
<1>5. CASE connect_to_host
  BY <1>5 DEF Next, connect_to_host, OneMessageIsSafe
<1>6. CASE SetOpenCon
  BY <1>6 DEF Next, SetOpenCon, OneMessageIsSafe
<1>7. CASE AllConnected
  BY <1>7 DEF Next, AllConnected, OneMessageIsSafe
<1>8. ASSUME NEW t \in Senders, NEW m \in Msgs, TakeUp(t, m)
      PROVE  OneMessageIsSafe'
  BY <1>8 DEF Next, TakeUp, OneMessageIsSafe
<1>9. ASSUME NEW t \in Senders, LockPeers(t)
      PROVE  OneMessageIsSafe'
  BY <1>9 DEF Next, LockPeers, OneMessageIsSafe
<1>10. ASSUME NEW t \in Senders, send_msg_peer(t)
      PROVE  OneMessageIsSafe'
  <2>1. alive /\ spc[t] = "send" /\ UNCHANGED relayed /\ pos \in Nat
    BY <1>10 DEF Next, TypeOK, send_msg_peer
  <2>2. ASSUME ~ alive' PROVE \E m, n \in relayed : m # n
    <3>1. pos \in 1..Len(peer_list) /\ peer_list[pos].socket_fd \in {"gone", "dead"}
      BY <1>10, <2>1, <2>2, SendShape
    <3>2. StillToSend(t, pos)
      BY <2>1 DEF StillToSend
    <3>3. PICK m \in relayed : msg[t] # m
      BY <3>1, <3>2 DEF GoneInv
    <3>4. msg[t] \in relayed
      BY <2>1 DEF MsgInv
    <3> QED
      BY <3>3, <3>4
  <2> QED
    BY <2>1, <2>2 DEF OneMessageIsSafe
<1>11. ASSUME NEW t \in Senders, UnlockPeers(t)
      PROVE  OneMessageIsSafe'
  BY <1>11 DEF Next, UnlockPeers, OneMessageIsSafe
<1>12. ASSUME NEW p \in Peers, Exit(p)
      PROVE  OneMessageIsSafe'
  BY <1>12 DEF Next, Exit, OneMessageIsSafe
<1> QED
  BY <1>1, <1>2, <1>3, <1>4, <1>5, <1>6, <1>7, <1>8, <1>9, <1>10, <1>11, <1>12
  DEF Next, name_server_handle, client_send_to_all_peers

(* No loop sends p more copies than a list has entries for it.              *)
LEMMA CountBound ==
  ASSUME TypeOK, PrefixInv, NEW p \in Peers, NEW n \in Nat
  PROVE  /\ IsFiniteSet(Before(p, n)) /\ Cardinality(Before(p, n)) \in Nat
         /\ Cardinality(Before(p, n)) > 0 =>
              \E list \in Lists : Cardinality(Before(p, n)) <= Times(p, list)
<1>1. Len(peer_list) \in Nat
  BY PeersType
<1>2. IsFiniteSet(1..Len(peer_list)) /\ Before(p, n) \in SUBSET (1..Len(peer_list))
  BY <1>1, FS_Interval DEF Before
<1>3. IsFiniteSet(Before(p, n)) /\ Cardinality(Before(p, n)) \in Nat
  BY <1>2, FS_Subset, FS_CardinalityType
<1>4. CASE Len(peer_list) = 0
  <2>1. Before(p, n) = {}
    BY <1>4 DEF Before
  <2> QED
    BY <1>3, <2>1, FS_EmptySet
<1>5. ASSUME NEW list \in Lists, Len(peer_list) <= Len(list),
             \A k \in 1..Len(peer_list) : peer_list[k].who = list[k]
      PROVE  Cardinality(Before(p, n)) <= Times(p, list)
  <2> DEFINE T == {k \in 1..Len(list) : list[k] = p}
  <2>1. Len(list) \in Nat
    BY PeersAssumption
  <2>2. IsFiniteSet(1..Len(list)) /\ T \in SUBSET (1..Len(list))
    BY <2>1, FS_Interval
  <2>3. IsFiniteSet(T)
    BY <2>2, FS_Subset
  <2>4. Before(p, n) \in SUBSET T
    BY <1>1, <1>5, <2>1 DEF Before
  <2>5. Cardinality(Before(p, n)) <= Cardinality(T)
    BY <2>3, <2>4, FS_Subset
  <2> QED
    BY <2>5 DEF Times
<1> QED
  BY <1>3, <1>4, <1>5 DEF PrefixInv

(* How often a peer is on a list is a number.                               *)
LEMMA TimesType ==
  ASSUME NEW p, NEW list \in Lists
  PROVE  Times(p, list) \in Nat
<1>1. Len(list) \in Nat
  BY PeersAssumption
<1>2. IsFiniteSet(1..Len(list))
        /\ {k \in 1..Len(list) : list[k] = p} \in SUBSET (1..Len(list))
  BY <1>1, FS_Interval
<1> QED
  BY <1>2, FS_Subset, FS_CardinalityType DEF Times

(* The count goes up with the entry that is passed.                         *)
LEMMA CountStep ==
  ASSUME TypeOK, PrefixInv, pos \in 1..Len(peer_list), NEW p \in Peers
  PROVE  /\ Cardinality(Before(p, pos)) <= Cardinality(Before(p, pos + 1))
         /\ p = peer_list[pos].who =>
              Cardinality(Before(p, pos + 1)) = Cardinality(Before(p, pos)) + 1
<1>1. Len(peer_list) \in Nat /\ pos \in Nat
  BY PeersType
<1>2. IsFiniteSet(Before(p, pos)) /\ Cardinality(Before(p, pos)) \in Nat
  BY <1>1, CountBound
<1>3. CASE p = peer_list[pos].who
  <2>1. Before(p, pos + 1) = Before(p, pos) \union {pos} /\ pos \notin Before(p, pos)
    BY <1>1, <1>3 DEF Before
  <2>2. Cardinality(Before(p, pos + 1)) = Cardinality(Before(p, pos)) + 1
    BY <1>2, <2>1, FS_AddElement
  <2> QED
    BY <1>2, <2>2
<1>4. CASE p # peer_list[pos].who
  <2>1. Before(p, pos + 1) = Before(p, pos)
    BY <1>1, <1>4 DEF Before
  <2> QED
    BY <1>2, <1>4, <2>1
<1> QED
  BY <1>3, <1>4
(* PrefixInv, where the peers stay who they are.                            *)
LEMMA SamePrefix ==
  ASSUME PrefixInv, UNCHANGED last, npc' # "recv" => npc # "recv",
         Len(peer_list') = Len(peer_list),
         \A k \in 1..Len(peer_list) : peer_list'[k].who = peer_list[k].who
  PROVE  PrefixInv'
BY DEF PrefixInv

(* The peers are a beginning of a list that was received.                   *)
LEMMA PrefixStep ==
  ASSUME TypeOK, ListInv, MsgInv, PrefixInv, Next
  PROVE  PrefixInv'
<1>1. ASSUME NEW list \in Lists, RecvPeers(list)
      PROVE  PrefixInv'
  BY <1>1 DEF PrefixInv, RecvPeers
<1>2. CASE clean_peers_list
  <2>1. Len(peer_list') = 0 /\ UNCHANGED last /\ npc # "recv"
    BY <1>2 DEF clean_peers_list
  <2> QED
    BY <2>1 DEF PrefixInv
<1>3. CASE AddPeer
  <2> DEFINE e == [who |-> last[added + 1], socket_fd |-> "unset", open_con |-> FALSE]
  <2>1. /\ npc = "add" /\ UNCHANGED <<npc, last>> /\ last \in Lists
        /\ added < Len(last) /\ added \in Nat /\ Len(last) \in Nat
        /\ Len(peer_list) = added
    BY <1>3 DEF TypeOK, ListInv, PrefixInv, AddPeer
  <2>2. /\ peer_list \in Seq(Peer) /\ peer_list' = Append(peer_list, e)
        /\ e.who = last[added + 1]
    BY <1>3 DEF TypeOK, AddPeer
  <2> HIDE DEF e
  <2>3. /\ Len(peer_list') = added + 1 /\ peer_list'[added + 1] = e
        /\ \A k \in 1..added : peer_list'[k] = peer_list[k]
    BY <2>1, <2>2
  <2>4. \A k \in 1..(added + 1) : peer_list'[k].who = last[k]
    BY <2>1, <2>2, <2>3 DEF ListInv
  <2>5. added + 1 <= Len(last)
    BY <2>1
  <2> QED
    BY <2>1, <2>3, <2>4, <2>5 DEF PrefixInv
<1>4. CASE Parsed
  BY <1>4, SamePrefix DEF Parsed, nvars
<1>5. CASE connect_to_host
  BY <1>5, HostShape, SamePrefix DEF connect_to_host
<1>6. CASE SetOpenCon
  BY <1>6, OpenConShape, SamePrefix DEF SetOpenCon
<1>7. CASE AllConnected
  BY <1>7, SamePrefix DEF AllConnected, nvars
<1>8. ASSUME NEW t \in Senders, NEW m \in Msgs, TakeUp(t, m)
      PROVE  PrefixInv'
  BY <1>8, SamePrefix DEF TakeUp, nvars
<1>9. ASSUME NEW t \in Senders, LockPeers(t)
      PROVE  PrefixInv'
  BY <1>9, SamePrefix DEF LockPeers, nvars
<1>10. ASSUME NEW t \in Senders, send_msg_peer(t)
      PROVE  PrefixInv'
  BY <1>10, SendShape, SamePrefix DEF send_msg_peer, nvars
<1>11. ASSUME NEW t \in Senders, UnlockPeers(t)
      PROVE  PrefixInv'
  BY <1>11, SamePrefix DEF UnlockPeers, nvars
<1>12. ASSUME NEW p \in Peers, Exit(p)
      PROVE  PrefixInv'
  BY <1>12, ExitShape, SamePrefix DEF Exit, nvars
<1> QED
  BY <1>1, <1>2, <1>3, <1>4, <1>5, <1>6, <1>7, <1>8, <1>9, <1>10, <1>11, <1>12
  DEF Next, name_server_handle, client_send_to_all_peers

(* CopyInv, where no loop is running, or the peers stay who they are.       *)
LEMMA SameCopies ==
  ASSUME CopyInv, UNCHANGED <<got, relayed, spc, msg, pos>>,
         \/ \A t \in Senders : spc[t] # "send"
         \/ /\ Len(peer_list') = Len(peer_list)
            /\ \A k \in 1..Len(peer_list) : peer_list'[k].who = peer_list[k].who
  PROVE  CopyInv'
<1>1. CASE \A t \in Senders : spc[t] # "send"
  BY <1>1 DEF CopyInv, Times
<1>2. CASE /\ Len(peer_list') = Len(peer_list)
           /\ \A k \in 1..Len(peer_list) : peer_list'[k].who = peer_list[k].who
  <2>1. \A p \in Peers : Before(p, pos)' = Before(p, pos)
    BY <1>2 DEF Before
  <2> QED
    BY <2>1 DEF CopyInv, Times
<1> QED
  BY <1>1, <1>2

(* A message is sent by one loop, once per entry.                           *)
LEMMA CopyStep ==
  ASSUME TypeOK, ListInv, MutexInv, MsgInv, PrefixInv, CopyInv, Next
  PROVE  CopyInv'
<1>1. ASSUME NEW list \in Lists, RecvPeers(list)
      PROVE  CopyInv'
  BY <1>1, SameCopies DEF RecvPeers, svars
<1>2. CASE clean_peers_list
  BY <1>2, NoLoop, SameCopies DEF clean_peers_list, svars
<1>3. CASE AddPeer
  BY <1>3, NoLoop, SameCopies DEF AddPeer, svars
<1>4. CASE Parsed
  BY <1>4, SameCopies DEF Parsed, svars
<1>5. CASE connect_to_host
  BY <1>5, HostShape, SameCopies DEF connect_to_host, svars
<1>6. CASE SetOpenCon
  BY <1>6, OpenConShape, SameCopies DEF SetOpenCon, svars
<1>7. CASE AllConnected
  BY <1>7, SameCopies DEF AllConnected, svars
<1>8. ASSUME NEW t \in Senders, NEW m \in Msgs, TakeUp(t, m)
      PROVE  CopyInv'
  <2>1. /\ UNCHANGED <<got, pos, peer_list>> /\ relayed' = relayed \union {m}
        /\ m \notin relayed /\ msg'[t] = m /\ spc'[t] = "lock" /\ spc[t] = "idle"
        /\ \A u \in Senders : u # t => spc'[u] = spc[u] /\ msg'[u] = msg[u]
    BY <1>8 DEF TypeOK, TakeUp
  <2>2. \A p \in Peers : Before(p, pos)' = Before(p, pos)
    BY <2>1 DEF Before
  <2> SUFFICES ASSUME NEW p \in Peers, NEW n \in Msgs
               PROVE  /\ n \notin relayed' => got[p][n] = 0
                      /\ \A u \in Senders : spc'[u] = "lock" /\ msg'[u] = n => got[p][n] = 0
                      /\ \A u \in Senders : spc'[u] = "send" /\ msg'[u] = n =>
                           got[p][n] <= Cardinality(Before(p, pos))
                      /\ got[p][n] > 0 =>
                           \/ \E u \in Senders : spc'[u] = "send" /\ msg'[u] = n
                           \/ \E list \in Lists : got[p][n] <= Times(p, list)
    BY <2>1, <2>2 DEF CopyInv, Times
  <2>3. \A u \in Senders : spc'[u] = "send" => u # t /\ spc[u] = "send" /\ msg'[u] = msg[u]
    BY <2>1
  <2>4. \A u \in Senders : spc[u] = "send" => spc'[u] = "send" /\ msg'[u] = msg[u]
    BY <2>1
  <2>5. \A u \in Senders : spc'[u] = "lock" /\ u # t => spc[u] = "lock" /\ msg'[u] = msg[u]
    BY <2>1
  <2> QED
    BY <2>1, <2>3, <2>4, <2>5 DEF CopyInv
<1>9. ASSUME NEW t \in Senders, LockPeers(t)
      PROVE  CopyInv'
  <2>1. /\ UNCHANGED <<got, peer_list, relayed, msg>> /\ spc[t] = "lock"
        /\ spc'[t] = "send" /\ mutex = Nobody /\ pos' = 1
        /\ \A u \in Senders : u # t => spc'[u] = spc[u]
    BY <1>9 DEF TypeOK, LockPeers
  <2>2. \A u \in Senders : spc[u] # "send"
    BY <2>1, NoLoop
  <2>3. \A p \in Peers : Before(p, pos)' = Before(p, 1)
    BY <2>1 DEF Before
  <2>4. \A p \in Peers : Cardinality(Before(p, 1)) \in Nat
    BY CountBound
  <2> SUFFICES ASSUME NEW p \in Peers, NEW m \in Msgs
               PROVE  /\ m \notin relayed => got[p][m] = 0
                      /\ \A u \in Senders : spc'[u] = "lock" /\ msg[u] = m => got[p][m] = 0
                      /\ \A u \in Senders : spc'[u] = "send" /\ msg[u] = m =>
                           got[p][m] <= Cardinality(Before(p, 1))
                      /\ got[p][m] > 0 =>
                           \/ \E u \in Senders : spc'[u] = "send" /\ msg[u] = m
                           \/ \E list \in Lists : got[p][m] <= Times(p, list)
    BY <2>1, <2>3 DEF CopyInv, Times
  <2> QED
    BY <2>1, <2>2, <2>4 DEF CopyInv
<1>10. ASSUME NEW t \in Senders, send_msg_peer(t)
      PROVE  CopyInv'
  <2>1. /\ UNCHANGED <<relayed, msg, spc>> /\ spc[t] = "send" /\ pos' = pos + 1
        /\ \A u \in Senders : spc[u] = "send" => u = t
    BY <1>10 DEF TypeOK, MutexInv, send_msg_peer
  <2>2. pos \in 1..Len(peer_list) /\ Len(peer_list) \in Nat /\ msg[t] \in Msgs
    BY <1>10, PeersType, SendShape
  <2>3. \A p \in Peers : Before(p, pos)' = Before(p, pos + 1)
    BY <1>10, <2>1, SendShape DEF Before
  <2>4. \A p \in Peers : /\ Cardinality(Before(p, pos)) \in Nat
                         /\ Cardinality(Before(p, pos + 1)) \in Nat
    BY <2>2, CountBound
  <2>9. /\ got' \in [Peers -> [Msgs -> Nat]]
        /\ \A p \in Peers, m \in Msgs : got'[p][m] # got[p][m] =>
             p = peer_list[pos].who /\ m = msg[t] /\ got'[p][m] = got[p][m] + 1
    BY <1>10, SendShape
  <2>5. ASSUME NEW p \in Peers, NEW m \in Msgs
        PROVE  /\ got[p][m] \in Nat /\ got'[p][m] \in Nat
               /\ m # msg[t] => got'[p][m] = got[p][m]
               /\ m = msg[t] => got'[p][m] <= Cardinality(Before(p, pos + 1))
    <3>1. got[p][m] \in Nat /\ got'[p][m] \in Nat
      BY <2>9 DEF TypeOK
    <3>2. m # msg[t] => got'[p][m] = got[p][m]
      BY <2>9
    <3>3. m = msg[t] => got[p][m] <= Cardinality(Before(p, pos))
      BY <2>1 DEF CopyInv
    <3>4. \/ got'[p][m] = got[p][m]
          \/ p = peer_list[pos].who /\ got'[p][m] = got[p][m] + 1
      BY <2>9
    <3>5. /\ Cardinality(Before(p, pos)) <= Cardinality(Before(p, pos + 1))
          /\ p = peer_list[pos].who =>
               Cardinality(Before(p, pos + 1)) = Cardinality(Before(p, pos)) + 1
      BY <2>2, CountStep
    <3> QED
      BY <2>4, <3>1, <3>2, <3>3, <3>4, <3>5
  <2>6. msg[t] \in relayed
    BY <2>1 DEF MsgInv
  <2>7. ASSUME NEW u \in Senders, spc[u] = "lock" PROVE msg[u] # msg[t]
    BY <2>1, <2>7 DEF MsgInv
  <2> SUFFICES ASSUME NEW p \in Peers, NEW m \in Msgs
               PROVE  /\ m \notin relayed => got'[p][m] = 0
                      /\ \A u \in Senders : spc[u] = "lock" /\ msg[u] = m => got'[p][m] = 0
                      /\ \A u \in Senders : spc[u] = "send" /\ msg[u] = m =>
                           got'[p][m] <= Cardinality(Before(p, pos + 1))
                      /\ got'[p][m] > 0 =>
                           \/ \E u \in Senders : spc[u] = "send" /\ msg[u] = m
                           \/ \E list \in Lists : got'[p][m] <= Times(p, list)
    BY <2>1, <2>3 DEF CopyInv, Times
  <2>8. CASE m = msg[t]
    BY <2>1, <2>5, <2>6, <2>7, <2>8
  <2>10. CASE m # msg[t]
    BY <2>1, <2>5, <2>10 DEF CopyInv
  <2> QED
    BY <2>8, <2>10
<1>11. ASSUME NEW t \in Senders, UnlockPeers(t)
      PROVE  CopyInv'
  <2>1. /\ UNCHANGED <<got, peer_list, relayed, msg, pos>> /\ spc[t] = "send"
        /\ spc'[t] = "idle" /\ pos \in Nat
        /\ \A u \in Senders : u # t => spc'[u] = spc[u]
        /\ \A u \in Senders : spc[u] = "send" => u = t
    BY <1>11 DEF TypeOK, MutexInv, UnlockPeers
  <2> SUFFICES ASSUME NEW p \in Peers, NEW m \in Msgs
               PROVE  /\ m \notin relayed => got[p][m] = 0
                      /\ \A u \in Senders : spc'[u] = "lock" /\ msg[u] = m => got[p][m] = 0
                      /\ got[p][m] > 0 => \E list \in Lists : got[p][m] <= Times(p, list)
    BY <2>1 DEF CopyInv, Times
  <2>2. CASE msg[t] = m /\ got[p][m] > 0
    <3>1. got[p][m] <= Cardinality(Before(p, pos)) /\ got[p][m] \in Nat
      BY <2>1, <2>2 DEF CopyInv, TypeOK
    <3>2. Cardinality(Before(p, pos)) \in Nat
      BY <2>1, CountBound
    <3>3. PICK list \in Lists : Cardinality(Before(p, pos)) <= Times(p, list)
      BY <2>1, <2>2, <3>1, <3>2, CountBound
    <3>4. got[p][m] <= Times(p, list)
      BY <3>1, <3>2, <3>3, TimesType
    <3> QED
      BY <2>1, <3>4 DEF CopyInv
  <2>3. CASE ~ (msg[t] = m /\ got[p][m] > 0)
    BY <2>1, <2>3 DEF CopyInv
  <2> QED
    BY <2>2, <2>3
<1>12. ASSUME NEW p \in Peers, Exit(p)
      PROVE  CopyInv'
  BY <1>12, ExitShape, SameCopies DEF Exit, svars
<1> QED
  BY <1>1, <1>2, <1>3, <1>4, <1>5, <1>6, <1>7, <1>8, <1>9, <1>10, <1>11, <1>12
  DEF Next, name_server_handle, client_send_to_all_peers

-------------------------------------------------------------------------------
(* The theorems. *)

(* Every step keeps the invariant.                                          *)
LEMMA StepIInv ==
  ASSUME IInv, [Next]_vars
  PROVE  IInv'
<1>1. CASE Next
  BY <1>1, TypeStep, ListStep, OpenStep, MutexStep, MsgStep, DueStep, GoneStep, SafeStep,
     PrefixStep, CopyStep DEF IInv
<1>2. CASE UNCHANGED vars
  <2> USE <1>2 DEF vars, nvars, svars, IInv
  <2>1. TypeOK' /\ ListInv' /\ OpenInv' /\ MutexInv'
    BY DEF TypeOK, ListInv, ListIsLast, IsConnected, OpenInv, MutexInv
  <2>2. DueInv' /\ MsgInv' /\ GoneInv' /\ OneMessageIsSafe'
    BY DEF DueInv, WillGet, IsConnected, MsgInv, GoneInv, StillToSend, OneMessageIsSafe
  <2>3. PrefixInv'
    BY DEF PrefixInv
  <2>4. CopyInv'
    BY SameCopies
  <2> QED
    BY <2>1, <2>2, <2>3, <2>4
<1> QED
  BY <1>1, <1>2

(* The invariant always holds.                                              *)
LEMMA Invariance == Spec => []IInv
BY InitIInv, StepIInv, PTL DEF Spec

(* The variables of a client's peer list have their types.                  *)
THEOREM TypeCorrect == Spec => []TypeOK
<1>1. IInv => TypeOK
  BY DEF IInv
<1> QED
  BY <1>1, Invariance, PTL

(* Whatever PEERS messages come in meanwhile, a send loop gets its message  *)
(* to every peer that was connected when it started and has not exited.     *)
THEOREM ConnectedAlwaysGet == Spec => []ConnectedGetMessage
<1>1. ASSUME IInv PROVE ConnectedGetMessage
  <2> USE <1>1 DEF IInv
  <2> SUFFICES ASSUME mutex = Nobody, NEW d \in due, up[d[2]]
               PROVE  got[d[2]][d[1]] > 0
    BY DEF ConnectedGetMessage, Delivered
  <2>1. d[1] \in Msgs /\ d[2] \in Peers /\ d = <<d[1], d[2]>>
    BY DEF TypeOK
  <2>2. ~ WillGet(d[1], d[2])
    BY NoLoop DEF WillGet
  <2> QED
    BY <2>1, <2>2 DEF DueInv
<1> QED
  BY <1>1, Invariance, PTL

(* A peer gets no more copies of a message than a list has entries for it.  *)
THEOREM OneCopyOnly == Spec => []OneCopyPerListing
<1>1. ASSUME IInv PROVE OneCopyPerListing
  <2> USE <1>1 DEF IInv
  <2> SUFFICES ASSUME NEW p \in Peers, NEW m \in Msgs, got[p][m] > 0
               PROVE  \E list \in Lists : got[p][m] <= Times(p, list)
    BY DEF OneCopyPerListing
  <2>1. CASE \E t \in Senders : spc[t] = "send" /\ msg[t] = m
    <3>1. got[p][m] <= Cardinality(Before(p, pos)) /\ got[p][m] \in Nat /\ pos \in Nat
      BY <2>1 DEF CopyInv, TypeOK
    <3>2. Cardinality(Before(p, pos)) \in Nat
      BY <3>1, CountBound
    <3>3. PICK list \in Lists : Cardinality(Before(p, pos)) <= Times(p, list)
      BY <3>1, <3>2, CountBound
    <3> QED
      BY <3>1, <3>2, <3>3, TimesType
  <2> QED
    BY <2>1 DEF CopyInv
<1> QED
  BY <1>1, Invariance, PTL

(* Between PEERS messages the peers are those of the last one, connected.   *)
THEOREM ListIsAlwaysLast == Spec => []ListIsLast
<1>1. IInv => ListIsLast
  BY DEF IInv, ListInv
<1> QED
  BY <1>1, Invariance, PTL

(* One message cannot end the process, however many peers have exited.      *)
THEOREM OneMessageIsAlwaysSafe == Spec => []OneMessageIsSafe
<1>1. IInv => OneMessageIsSafe
  BY DEF IInv
<1> QED
  BY <1>1, Invariance, PTL

===============================================================================
