--------------------------- MODULE NameServerProofs ---------------------------
(***************************************************************************)
(* Proofs about NameServer, for any number of clients, whichever of them   *)
(* leave or stall, and any number of descriptors and capacity of sockets.  *)
(***************************************************************************)
EXTENDS NameServer, SequenceTheorems, TLAPS

-------------------------------------------------------------------------------
(* The inductive invariant, besides TypeOK and RoundInforms. *)

(* A client is on the list, once, from Join to list_remove.                 *)
OnList == {"recv", "port", "lock", "send", "leave"}

ListInv ==
  /\ \A c \in Clients : c \in Listed <=> pc[c] \in OnList
  /\ \A i, j \in 1..Len(client_list) : client_list[i] = client_list[j] => i = j

(* Clients the server has accepted have connected, and their descriptors    *)
(* differ until they are closed.                                            *)
FdInv ==
  /\ \A c \in Clients : pc[c] # "none" => conn[c] # "none"
  /\ \A c, d \in Clients :
       /\ pc[c] \notin {"none", "done"}
       /\ pc[d] \notin {"none", "done"}
       /\ socket_fd[c] = socket_fd[d]
       => c = d

(* The mutex is held for the send loop and only there.                      *)
MutexInv ==
  /\ \A c \in Clients : pc[c] = "send" <=> mutex = c
  /\ mutex # Nobody => pos <= Len(client_list) + 1

(* The port is announced once, by a client on the list, and is what was     *)
(* announced when the thread is done copying.                               *)
PortInv ==
  \A c \in Clients :
    /\ port[c] = "torn" <=> pc[c] = "port"
    /\ pc[c] \in {"none", "start"} => port[c] = "default"
    /\ portupd[c] = "read" <=> port[c] # "default"

(* A send loop is due, or is running and has not come to c yet.             *)
WillBeSent(c) ==
  \/ \E t \in Clients : pc[t] = "lock"
  \/ /\ mutex # Nobody
     /\ \E i \in pos..Len(client_list) : client_list[i] = c

(* Two clients whose ports the server has been told: one knows the other,   *)
(* or a message on its way tells it, or one will be sent.                   *)
ToldInv ==
  \A c, d \in Listed :
    /\ c # d
    /\ conn[c] = "open"
    /\ port[c] = "announced"
    /\ port[d] = "announced"
    => <<d, "announced">> \in Newest(c) \/ WillBeSent(c)

IInv == TypeOK /\ ListInv /\ FdInv /\ MutexInv /\ PortInv /\ RoundInforms /\ ToldInv

-------------------------------------------------------------------------------
(* Sequences. *)

(* RemoveAt takes out the k-th element and moves those behind it up.        *)
LEMMA RemoveAtResult ==
  ASSUME NEW S, NEW s \in Seq(S), NEW k \in 1..Len(s)
  PROVE  /\ RemoveAt(s, k) \in Seq(S)
         /\ Len(RemoveAt(s, k)) = Len(s) - 1
         /\ \A i \in 1..(Len(s) - 1) :
              /\ i < k => RemoveAt(s, k)[i] = s[i]
              /\ i >= k => RemoveAt(s, k)[i] = s[i + 1]
<1> DEFINE front == SubSeq(s, 1, k - 1)
           back == SubSeq(s, k + 1, Len(s))
<1>1. /\ front \in Seq(S) /\ Len(front) = k - 1
      /\ \A i \in 1..(k - 1) : front[i] = s[i]
  OBVIOUS
<1>2. /\ back \in Seq(S) /\ Len(back) = Len(s) - k
      /\ \A i \in 1..(Len(s) - k) : back[i] = s[k + i]
  OBVIOUS
<1> HIDE DEF front, back
<1>3. RemoveAt(s, k) = front \o back
  BY DEF RemoveAt, front, back
<1>4. front \o back \in Seq(S) /\ Len(front \o back) = Len(s) - 1
  BY <1>1, <1>2
<1>5. ASSUME NEW i \in 1..(Len(s) - 1), i < k
      PROVE  (front \o back)[i] = s[i]
  <2>1. i \in 1..(k - 1)
    BY <1>5
  <2>2. (front \o back)[i] = front[i]
    BY <1>1, <1>2, <2>1
  <2> QED
    BY <1>1, <2>1, <2>2
<1>6. ASSUME NEW i \in 1..(Len(s) - 1), i >= k
      PROVE  (front \o back)[i] = s[i + 1]
  <2>1. (front \o back)[i] = back[i - (k - 1)]
    BY <1>1, <1>2, <1>6
  <2>2. i - (k - 1) \in 1..(Len(s) - k) /\ k + (i - (k - 1)) = i + 1
    BY <1>6
  <2>3. back[i - (k - 1)] = s[k + (i - (k - 1))]
    BY <1>2, <2>2
  <2> QED
    BY <2>1, <2>2, <2>3
<1> QED
  BY <1>3, <1>4, <1>5, <1>6

(* Where an element is in a sequence once, RemoveFirst takes it out.        *)
LEMMA RemoveFirstResult ==
  ASSUME NEW S, NEW s \in Seq(S), NEW k \in 1..Len(s),
         \A i \in 1..Len(s) : s[i] = s[k] => i = k
  PROVE  RemoveFirst(s, s[k]) = RemoveAt(s, k)
<1> DEFINE I == {i \in 1..Len(s) : s[i] = s[k]}
<1>1. I = {k}
  OBVIOUS
<1>2. Min(I) = k
  BY <1>1 DEF Min
<1> QED
  BY <1>1, <1>2 DEF RemoveFirst, SelectInSeq

(* Reading the oldest of several messages leaves the newest.                *)
LEMMA TailKeepsLast ==
  ASSUME NEW S, NEW s \in Seq(S), s # <<>>
  PROVE  /\ Tail(s) \in Seq(S)
         /\ Head(s) \in S
         /\ Tail(s) = <<>> => s[Len(s)] = Head(s)
         /\ Tail(s) # <<>> => Tail(s)[Len(Tail(s))] = s[Len(s)]
<1>1. /\ Tail(s) \in Seq(S) /\ Len(Tail(s)) = Len(s) - 1
      /\ \A i \in 1..Len(Tail(s)) : Tail(s)[i] = s[i + 1]
  BY HeadTailProperties
<1>2. Len(s) \in Nat \ {0} /\ (Tail(s) # <<>> => Len(Tail(s)) \in Nat \ {0})
  BY <1>1, EmptySeq
<1>3. Head(s) = s[1] /\ s[1] \in S
  BY <1>2
<1>4. Tail(s) = <<>> => Len(s) = 1
  <2>1. Tail(s) = <<>> => Len(Tail(s)) = 0
    BY EmptySeq, Zenon
  <2> QED
    BY <1>1, <1>2, <2>1
<1>5. Tail(s) # <<>> => Tail(s)[Len(Tail(s))] = s[Len(s)]
  BY <1>1, <1>2
<1> QED
  BY <1>1, <1>3, <1>4, <1>5

-------------------------------------------------------------------------------
-------------------------------------------------------------------------------
(* Consequences of the invariant. *)

(* The clients on the list are those at its positions.                      *)
LEMMA ListedType ==
  ASSUME TypeOK
  PROVE  /\ Len(client_list) \in Nat
         /\ Listed \subseteq Clients
         /\ \A i \in 1..Len(client_list) : client_list[i] \in Listed
         /\ \A c \in Listed : \E i \in 1..Len(client_list) : client_list[i] = c
<1>1. client_list \in Seq(Clients)
  BY DEF TypeOK
<1>2. Len(client_list) \in Nat
        /\ \A i \in 1..Len(client_list) : client_list[i] \in Clients
  BY <1>1
<1> QED
  BY <1>2 DEF Listed

(* Descriptors of clients on the list differ.                               *)
LEMMA FdsDiffer ==
  ASSUME TypeOK, ListInv, FdInv
  PROVE  ListedFdsDiffer
<1> SUFFICES ASSUME NEW c \in Listed, NEW d \in Listed, socket_fd[c] = socket_fd[d]
             PROVE  c = d
  BY DEF ListedFdsDiffer
<1>1. c \in Clients /\ d \in Clients
  BY ListedType
<1>2. pc[c] \in OnList /\ pc[d] \in OnList
  BY <1>1 DEF ListInv
<1> QED
  BY <1>1, <1>2 DEF FdInv, OnList

(* A client that leaves is taken off the list, from the position it has.    *)
LEMMA RemovedList ==
  ASSUME TypeOK, ListInv, NEW c \in Clients, list_remove(c)
  PROVE  /\ client_list' \in Seq(Clients)
         /\ Listed' = Listed \ {c}
         /\ \A i, j \in 1..Len(client_list') :
              client_list'[i] = client_list'[j] => i = j
<1>1. c \in Listed
  BY DEF list_remove, ListInv, OnList
<1>2. PICK k \in 1..Len(client_list) : client_list[k] = c
  BY <1>1, ListedType
<1>3. client_list \in Seq(Clients) /\ Len(client_list) \in Nat
  BY DEF TypeOK
<1>4. \A i \in 1..Len(client_list) : client_list[i] = client_list[k] => i = k
  BY DEF ListInv
<1>5. client_list' = RemoveAt(client_list, k)
  BY <1>2, <1>3, <1>4, RemoveFirstResult DEF list_remove
<1>6. /\ client_list' \in Seq(Clients)
      /\ Len(client_list') = Len(client_list) - 1
      /\ \A i \in 1..(Len(client_list) - 1) :
           /\ i < k => client_list'[i] = client_list[i]
           /\ i >= k => client_list'[i] = client_list[i + 1]
  BY <1>3, <1>5, RemoveAtResult
<1>7. ASSUME NEW i \in 1..Len(client_list')
      PROVE  /\ client_list'[i] \in Listed \ {c}
             /\ \A j \in 1..Len(client_list') :
                  client_list'[i] = client_list'[j] => i = j
  <2> DEFINE was(j) == IF j < k THEN j ELSE j + 1
  <2>1. \A j \in 1..Len(client_list') :
          /\ client_list'[j] = client_list[was(j)]
          /\ was(j) \in 1..Len(client_list) /\ was(j) # k
    BY <1>3, <1>6
  <2>2. \A j \in 1..Len(client_list') : was(i) = was(j) => i = j
    BY <1>3, <1>6
  <2> HIDE DEF was
  <2>3. client_list'[i] \in Listed /\ client_list'[i] # c
    BY <1>2, <1>4, <2>1 DEF Listed
  <2>4. \A j \in 1..Len(client_list') :
          client_list[was(i)] = client_list[was(j)] => was(i) = was(j)
    BY <2>1 DEF ListInv
  <2> QED
    BY <2>1, <2>2, <2>3, <2>4
<1>8. ASSUME NEW d \in Listed, d # c
      PROVE  d \in Listed'
  <2>1. PICK i \in 1..Len(client_list) : client_list[i] = d
    BY ListedType
  <2>2. CASE i < k
    BY <1>3, <1>6, <2>1, <2>2 DEF Listed
  <2>3. CASE i > k
    <3>1. i - 1 \in 1..(Len(client_list) - 1) /\ i - 1 >= k /\ (i - 1) + 1 = i
      BY <1>3, <2>3
    <3> QED
      BY <1>6, <2>1, <3>1 DEF Listed
  <2>4. i # k
    BY <1>2, <1>8, <2>1
  <2>5. i < k \/ i > k
    BY <1>3, <2>4
  <2> QED
    BY <2>2, <2>3, <2>5
<1>9. Listed' = Listed \ {c}
  BY <1>7, <1>8 DEF Listed
<1> QED
  BY <1>6, <1>7, <1>9

(* When the server is at rest, its clients know each other.                 *)
LEMMA RestInforms ==
  ASSUME IInv
  PROVE  ServedKnowEachOther
<1> SUFFICES ASSUME Idle, NEW c \in Clients, NEW d \in Clients, c # d,
                    Served(c), Served(d)
             PROVE  <<d, "announced">> \in told[c]
  BY DEF ServedKnowEachOther
<1> USE DEF IInv
<1>1. c \in Listed /\ d \in Listed
  BY DEF Served, ListInv, OnList
<1>2. port[c] = "announced" /\ port[d] = "announced"
  BY DEF Served, PortInv, TypeOK, PortValues
<1>3. \A t \in Clients : pc[t] # "lock" /\ pc[t] # "send"
  BY DEF Idle
<1>4. mutex = Nobody
  BY <1>3 DEF MutexInv, TypeOK
<1>5. ~ WillBeSent(c)
  BY <1>3, <1>4 DEF WillBeSent
<1>6. <<d, "announced">> \in Newest(c)
  BY <1>1, <1>2, <1>5 DEF ToldInv, Served
<1> QED
  BY <1>6 DEF Newest, Served

-------------------------------------------------------------------------------
(* The initial state satisfies the invariant. *)

(* The invariant holds in the beginning.                                    *)
LEMMA InitIInv == Init => IInv
<1> SUFFICES ASSUME Init PROVE IInv
  OBVIOUS
<1>1. TypeOK
  BY ServerAssumption DEF Init, TypeOK, PeersMsg, PortValues
<1>2. Listed = {} /\ Len(client_list) = 0
  BY DEF Init, Listed
<1>3. ListInv
  BY <1>2 DEF Init, ListInv, OnList
<1>4. FdInv /\ PortInv
  BY DEF Init, FdInv, PortInv
<1>5. MutexInv
  BY ServerAssumption DEF Init, MutexInv
<1>6. RoundInforms /\ ToldInv
  BY <1>2 DEF Init, RoundInforms, ToldInv
<1> QED
  BY <1>1, <1>3, <1>4, <1>5, <1>6 DEF IInv

-------------------------------------------------------------------------------
(* Types. *)

(* What is sent is a message.                                               *)
LEMMA PeersOfType ==
  ASSUME TypeOK, NEW d
  PROVE  PeersOf(d) \in PeersMsg
<1>1. \A p \in Listed : <<p, port[p]>> \in Clients \X PortValues
  BY ListedType DEF TypeOK
<1> QED
  BY <1>1 DEF PeersOf, PeersMsg

(* Every step keeps the types.                                              *)
LEMMA TypeStep ==
  ASSUME TypeOK, ListInv, Next
  PROVE  TypeOK'
<1> PICK c \in Clients : Client(c) \/ listen_for_clients(c) \/ client_handle(c)
  BY DEF Next
<1>1. CASE Connect(c)
  BY <1>1 DEF TypeOK, Connect
<1>2. CASE update_port(c)
  BY <1>2 DEF TypeOK, update_port
<1>3. CASE name_server_handle(c)
  <2>1. inbox[c] \in Seq(PeersMsg) /\ inbox[c] # <<>>
    BY <1>3 DEF TypeOK, name_server_handle
  <2>2. Head(inbox[c]) \in PeersMsg /\ Tail(inbox[c]) \in Seq(PeersMsg)
    BY <2>1, TailKeepsLast
  <2> QED
    BY <1>3, <2>2 DEF TypeOK, name_server_handle
<1>4. CASE Leave(c)
  <2>1. <<>> \in Seq(PeersMsg) /\ {} \in PeersMsg
    BY DEF PeersMsg
  <2> QED
    BY <1>4, <2>1 DEF TypeOK, Leave
<1>5. CASE listen_for_clients(c)
  BY <1>5 DEF TypeOK, listen_for_clients
<1>6. CASE Join(c)
  BY <1>6 DEF TypeOK, Join
<1>7. CASE RecvPort(c)
  BY <1>7 DEF TypeOK, RecvPort, PortValues
<1>8. CASE CopyPort(c)
  BY <1>8 DEF TypeOK, CopyPort, PortValues
<1>9. CASE RecvError(c)
  BY <1>9 DEF TypeOK, RecvError
<1>10. CASE RecvEnd(c)
  BY <1>10 DEF TypeOK, RecvEnd
<1>11. CASE list_remove(c)
  <2>1. client_list' \in Seq(Clients)
    BY <1>11, RemovedList
  <2> QED
    BY <1>11, <2>1 DEF TypeOK, list_remove
<1>12. CASE Close(c)
  BY <1>12 DEF TypeOK, Close
<1>13. CASE LockList(c)
  BY <1>13 DEF TypeOK, LockList
<1>14. CASE client_send_peers(c)
  <2>1. client_list[pos] \in Clients /\ pos + 1 \in Nat \ {0}
    BY <1>14 DEF TypeOK, client_send_peers
  <2>2. /\ conn' \in [Clients -> {"none", "open", "fin", "gone", "rst", "dead"}]
        /\ inbox' \in [Clients -> Seq(PeersMsg)]
        /\ alive' \in BOOLEAN
    <3> DEFINE d == client_list[pos]
    <3>1. CASE UNCHANGED <<conn, inbox, alive>>
      BY <3>1 DEF TypeOK
    <3>2. CASE inbox' = [inbox EXCEPT ![d] = Append(@, PeersOf(d))]
                 /\ UNCHANGED <<conn, alive>>
      <4>1. Append(inbox[d], PeersOf(d)) \in Seq(PeersMsg)
        BY <2>1, PeersOfType DEF TypeOK
      <4> QED
        BY <2>1, <3>2, <4>1 DEF TypeOK
    <3>3. CASE /\ \/ conn' = [conn EXCEPT ![d] = "gone"]
                  \/ conn' = [conn EXCEPT ![d] = "dead"]
               /\ UNCHANGED <<inbox, alive>>
      BY <2>1, <3>3 DEF TypeOK
    <3>4. CASE alive' = FALSE /\ UNCHANGED <<conn, inbox>>
      BY <3>4 DEF TypeOK
    <3> QED
      BY <1>14, <3>1, <3>2, <3>3, <3>4 DEF client_send_peers, server_send_message
  <2> QED
    BY <1>14, <2>1, <2>2 DEF TypeOK, client_send_peers
<1>15. CASE UnlockList(c)
  BY <1>15 DEF TypeOK, UnlockList
<1> QED
  BY <1>1, <1>2, <1>3, <1>4, <1>5, <1>6, <1>7, <1>8, <1>9, <1>10, <1>11, <1>12,
     <1>13, <1>14, <1>15 DEF Client, client_handle, manage_graph

-------------------------------------------------------------------------------
(* The list, the descriptors, the mutex and the ports. *)

(* Only Join and list_remove change the list, and who is between them.      *)
LEMMA ListStep ==
  ASSUME TypeOK, ListInv, Next
  PROVE  ListInv'
<1> PICK c \in Clients : Client(c) \/ listen_for_clients(c) \/ client_handle(c)
  BY DEF Next
<1>0. ASSUME UNCHANGED client_list,
             \A d \in Clients : pc'[d] \in OnList <=> pc[d] \in OnList
      PROVE  ListInv'
  BY <1>0 DEF ListInv, Listed
<1>1. CASE Connect(c)
  BY <1>0, <1>1 DEF TypeOK, OnList, Connect
<1>2. CASE update_port(c)
  BY <1>0, <1>2 DEF TypeOK, OnList, update_port
<1>3. CASE name_server_handle(c)
  BY <1>0, <1>3 DEF TypeOK, OnList, name_server_handle
<1>4. CASE Leave(c)
  BY <1>0, <1>4 DEF TypeOK, OnList, Leave
<1>5. CASE listen_for_clients(c)
  BY <1>0, <1>5 DEF TypeOK, OnList, listen_for_clients
<1>6. CASE Join(c)
  <2>1. client_list \in Seq(Clients) /\ Len(client_list) \in Nat
    BY DEF TypeOK
  <2>2. /\ Len(client_list') = Len(client_list) + 1
        /\ client_list'[Len(client_list) + 1] = c
        /\ \A i \in 1..Len(client_list) : client_list'[i] = client_list[i]
    BY <1>6, <2>1 DEF Join
  <2>3. c \notin Listed
    BY <1>6 DEF Join, ListInv, OnList
  <2>4. Listed' = Listed \union {c}
    BY <2>1, <2>2 DEF Listed
  <2>5. \A i, j \in 1..Len(client_list') : client_list'[i] = client_list'[j] => i = j
    BY <2>1, <2>2, <2>3 DEF ListInv, Listed
  <2>6. \A d \in Clients : d \in Listed' <=> pc'[d] \in OnList
    BY <1>6, <2>4 DEF TypeOK, ListInv, OnList, Join
  <2> QED
    BY <2>5, <2>6 DEF ListInv
<1>7. CASE RecvPort(c)
  BY <1>0, <1>7 DEF TypeOK, OnList, RecvPort
<1>8. CASE CopyPort(c)
  BY <1>0, <1>8 DEF TypeOK, OnList, CopyPort
<1>9. CASE RecvError(c)
  BY <1>0, <1>9 DEF TypeOK, OnList, RecvError
<1>10. CASE RecvEnd(c)
  BY <1>0, <1>10 DEF TypeOK, OnList, RecvEnd
<1>11. CASE list_remove(c)
  <2>1. /\ Listed' = Listed \ {c}
        /\ \A i, j \in 1..Len(client_list') : client_list'[i] = client_list'[j] => i = j
    BY <1>11, RemovedList
  <2>2. \A d \in Clients : d \in Listed' <=> pc'[d] \in OnList
    BY <1>11, <2>1 DEF TypeOK, ListInv, OnList, list_remove
  <2> QED
    BY <2>1, <2>2 DEF ListInv
<1>12. CASE Close(c)
  BY <1>0, <1>12 DEF TypeOK, OnList, Close
<1>13. CASE LockList(c)
  BY <1>0, <1>13 DEF TypeOK, OnList, LockList
<1>14. CASE client_send_peers(c)
  BY <1>0, <1>14 DEF TypeOK, OnList, client_send_peers
<1>15. CASE UnlockList(c)
  BY <1>0, <1>15 DEF TypeOK, OnList, UnlockList
<1> QED
  BY <1>1, <1>2, <1>3, <1>4, <1>5, <1>6, <1>7, <1>8, <1>9, <1>10, <1>11,
     <1>12, <1>13, <1>14, <1>15 DEF Client, client_handle, manage_graph

(* A new descriptor is none that is open; a connection, once made, is never *)
(* again one that was not made.                                             *)
LEMMA FdStep ==
  ASSUME TypeOK, ListInv, FdInv, Next
  PROVE  FdInv'
<1> PICK c \in Clients : Client(c) \/ listen_for_clients(c) \/ client_handle(c)
  BY DEF Next
<1>1. CASE Connect(c)
  BY <1>1 DEF TypeOK, FdInv, Connect
<1>2. CASE update_port(c)
  BY <1>2 DEF TypeOK, FdInv, update_port
<1>3. CASE name_server_handle(c)
  BY <1>3 DEF TypeOK, FdInv, name_server_handle
<1>4. CASE Leave(c)
  BY <1>4 DEF TypeOK, FdInv, Leave
<1>5. CASE listen_for_clients(c)
  <2>1. \A d \in Clients : d # c /\ pc[d] \notin {"none", "done"} =>
                             socket_fd'[c] # socket_fd[d]
    BY <1>5 DEF TypeOK, listen_for_clients, OpenFds
  <2> QED
    BY <1>5, <2>1 DEF TypeOK, FdInv, listen_for_clients
<1>6. CASE Join(c)
  BY <1>6 DEF TypeOK, FdInv, Join
<1>7. CASE RecvPort(c)
  BY <1>7 DEF TypeOK, FdInv, RecvPort
<1>8. CASE CopyPort(c)
  BY <1>8 DEF TypeOK, FdInv, CopyPort
<1>9. CASE RecvError(c)
  BY <1>9 DEF TypeOK, FdInv, RecvError
<1>10. CASE RecvEnd(c)
  BY <1>10 DEF TypeOK, FdInv, RecvEnd
<1>11. CASE list_remove(c)
  BY <1>11 DEF TypeOK, FdInv, list_remove
<1>12. CASE Close(c)
  BY <1>12 DEF TypeOK, FdInv, Close
<1>13. CASE LockList(c)
  BY <1>13 DEF TypeOK, FdInv, LockList
<1>14. CASE client_send_peers(c)
  <2>1. \A d \in Clients : conn'[d] = "none" => conn[d] = "none"
    BY <1>14 DEF TypeOK, client_send_peers, server_send_message
  <2> QED
    BY <1>14, <2>1 DEF TypeOK, FdInv, client_send_peers
<1>15. CASE UnlockList(c)
  BY <1>15 DEF TypeOK, FdInv, UnlockList
<1> QED
  BY <1>1, <1>2, <1>3, <1>4, <1>5, <1>6, <1>7, <1>8, <1>9, <1>10, <1>11,
     <1>12, <1>13, <1>14, <1>15 DEF Client, client_handle, manage_graph

(* The mutex is taken and released by the send loop.                        *)
LEMMA MutexStep ==
  ASSUME TypeOK, ListInv, MutexInv, Next
  PROVE  MutexInv'
<1> PICK c \in Clients : Client(c) \/ listen_for_clients(c) \/ client_handle(c)
  BY DEF Next
<1>1. CASE Connect(c)
  BY <1>1 DEF TypeOK, MutexInv, Connect
<1>2. CASE update_port(c)
  BY <1>2 DEF TypeOK, MutexInv, update_port
<1>3. CASE name_server_handle(c)
  BY <1>3 DEF TypeOK, MutexInv, name_server_handle
<1>4. CASE Leave(c)
  BY <1>4 DEF TypeOK, MutexInv, Leave
<1>5. CASE listen_for_clients(c)
  BY <1>5 DEF TypeOK, MutexInv, listen_for_clients
<1>6. CASE Join(c)
  BY <1>6 DEF TypeOK, MutexInv, Join
<1>7. CASE RecvPort(c)
  BY <1>7 DEF TypeOK, MutexInv, RecvPort
<1>8. CASE CopyPort(c)
  BY <1>8 DEF TypeOK, MutexInv, CopyPort
<1>9. CASE RecvError(c)
  BY <1>9 DEF TypeOK, MutexInv, RecvError
<1>10. CASE RecvEnd(c)
  BY <1>10 DEF TypeOK, MutexInv, RecvEnd
<1>11. CASE list_remove(c)
  BY <1>11 DEF TypeOK, MutexInv, list_remove
<1>12. CASE Close(c)
  BY <1>12 DEF TypeOK, MutexInv, Close
<1>13. CASE LockList(c)
  <2>1. Len(client_list) \in Nat
    BY ListedType
  <2> QED
    BY <1>13, <2>1, ServerAssumption DEF TypeOK, MutexInv, LockList
<1>14. CASE client_send_peers(c)
  <2>1. Len(client_list) \in Nat
    BY ListedType
  <2> QED
    BY <1>14, <2>1 DEF TypeOK, MutexInv, client_send_peers
<1>15. CASE UnlockList(c)
  BY <1>15, ServerAssumption DEF TypeOK, MutexInv, UnlockList
<1> QED
  BY <1>1, <1>2, <1>3, <1>4, <1>5, <1>6, <1>7, <1>8, <1>9, <1>10, <1>11,
     <1>12, <1>13, <1>14, <1>15 DEF Client, client_handle, manage_graph

(* A port changes only in RecvPort and CopyPort.                            *)
LEMMA PortStep ==
  ASSUME TypeOK, PortInv, Next
  PROVE  PortInv'
<1> PICK c \in Clients : Client(c) \/ listen_for_clients(c) \/ client_handle(c)
  BY DEF Next
<1>1. CASE Connect(c)
  BY <1>1 DEF TypeOK, PortInv, Connect
<1>2. CASE update_port(c)
  BY <1>2 DEF TypeOK, PortInv, update_port
<1>3. CASE name_server_handle(c)
  BY <1>3 DEF TypeOK, PortInv, name_server_handle
<1>4. CASE Leave(c)
  BY <1>4 DEF TypeOK, PortInv, Leave
<1>5. CASE listen_for_clients(c)
  BY <1>5 DEF TypeOK, PortInv, listen_for_clients
<1>6. CASE Join(c)
  BY <1>6 DEF TypeOK, PortInv, Join
<1>7. CASE RecvPort(c)
  BY <1>7 DEF TypeOK, PortInv, RecvPort
<1>8. CASE CopyPort(c)
  BY <1>8 DEF TypeOK, PortInv, CopyPort
<1>9. CASE RecvError(c)
  BY <1>9 DEF TypeOK, PortInv, RecvError
<1>10. CASE RecvEnd(c)
  BY <1>10 DEF TypeOK, PortInv, RecvEnd
<1>11. CASE list_remove(c)
  BY <1>11 DEF TypeOK, PortInv, list_remove
<1>12. CASE Close(c)
  BY <1>12 DEF TypeOK, PortInv, Close
<1>13. CASE LockList(c)
  BY <1>13 DEF TypeOK, PortInv, LockList
<1>14. CASE client_send_peers(c)
  BY <1>14 DEF TypeOK, PortInv, client_send_peers
<1>15. CASE UnlockList(c)
  BY <1>15 DEF TypeOK, PortInv, UnlockList
<1> QED
  BY <1>1, <1>2, <1>3, <1>4, <1>5, <1>6, <1>7, <1>8, <1>9, <1>10, <1>11,
     <1>12, <1>13, <1>14, <1>15 DEF Client, client_handle, manage_graph

-------------------------------------------------------------------------------
(* Messages. *)

(* To a client on the list, all the others on it are sent.                  *)
LEMMA PeersAreOthers ==
  ASSUME TypeOK, ListInv, FdInv, NEW d \in Listed
  PROVE  PeersOf(d) = {<<p, port[p]>> : p \in Listed \ {d}}
<1>1. \A q \in Listed : socket_fd[q] = socket_fd[d] <=> q = d
  BY FdsDiffer DEF ListedFdsDiffer
<1>2. {q \in Listed : socket_fd[q] # socket_fd[d]} = Listed \ {d}
  BY <1>1
<1> QED
  BY <1>2 DEF PeersOf

(* A client that reads or leaves does not change what was sent to others,   *)
(* nor, by reading, what was sent to it last.                               *)
LEMMA ReadKeepsNewest ==
  ASSUME TypeOK, NEW c \in Clients, name_server_handle(c), NEW d \in Clients
  PROVE  Newest(d)' = Newest(d)
<1>1. CASE d # c
  BY <1>1 DEF TypeOK, name_server_handle, Newest
<1>2. CASE d = c
  <2>1. inbox[c] \in Seq(PeersMsg) /\ inbox[c] # <<>>
    BY DEF TypeOK, name_server_handle
  <2>2. inbox'[c] = Tail(inbox[c]) /\ told'[c] = Head(inbox[c])
    BY DEF TypeOK, name_server_handle
  <2>3. /\ Tail(inbox[c]) = <<>> => inbox[c][Len(inbox[c])] = Head(inbox[c])
        /\ Tail(inbox[c]) # <<>> =>
             Tail(inbox[c])[Len(Tail(inbox[c]))] = inbox[c][Len(inbox[c])]
    BY <2>1, TailKeepsLast
  <2> QED
    BY <1>2, <2>1, <2>2, <2>3 DEF Newest
<1> QED
  BY <1>1, <1>2

(* A send makes the list of the others the newest message of one client and *)
(* leaves those of the others as they are.                                  *)
LEMMA SendMakesNewest ==
  ASSUME TypeOK, ListInv, FdInv, NEW c \in Clients, client_send_peers(c),
         Len(client_list) # 1, NEW d \in Listed, conn'[d] = "open"
  PROVE  /\ conn[d] = "open"
         /\ d = client_list[pos] => Newest(d)' = {<<p, port[p]>> : p \in Listed \ {d}}
         /\ d # client_list[pos] => Newest(d)' = Newest(d)
<1> DEFINE e == client_list[pos]
<1>1. pos \in 1..Len(client_list) /\ e \in Clients /\ d \in Clients
  BY ListedType DEF TypeOK, client_send_peers
<1>2. server_send_message(e)
  BY DEF client_send_peers
<1>3. UNCHANGED told
  BY DEF client_send_peers
<1> HIDE DEF e
<1>4. conn[d] = "open"
  BY <1>1, <1>2 DEF TypeOK, server_send_message
<1>5. CASE d = e
  <2>1. inbox' = [inbox EXCEPT ![d] = Append(@, PeersOf(d))]
    BY <1>1, <1>2, <1>4, <1>5 DEF TypeOK, server_send_message
  <2>2. inbox[d] \in Seq(PeersMsg) /\ inbox'[d] = Append(inbox[d], PeersOf(d))
    BY <1>1, <2>1 DEF TypeOK
  <2>3. inbox'[d] # <<>> /\ inbox'[d][Len(inbox'[d])] = PeersOf(d)
    BY <2>2, PeersOfType
  <2>4. Newest(d)' = PeersOf(d)
    BY <2>3 DEF Newest
  <2> QED
    BY <1>4, <1>5, <2>4, PeersAreOthers DEF e
<1>6. CASE d # e
  <2>1. inbox'[d] = inbox[d] /\ told'[d] = told[d]
    BY <1>1, <1>2, <1>3, <1>6 DEF TypeOK, server_send_message
  <2> QED
    BY <1>4, <1>6, <2>1 DEF Newest, e
<1> QED
  BY <1>5, <1>6

(* What a step may do without disturbing the loop or what it has sent.      *)
LoopStays ==
  /\ UNCHANGED <<client_list, pos, mutex>>
  /\ \A d \in Listed : conn'[d] = "open" => conn[d] = "open" /\ Newest(d)' = Newest(d)

(* Steps of clients, and of threads that do not use the list, are such.     *)
LEMMA OthersLeaveLoop ==
  ASSUME TypeOK, ListInv, FdInv, NEW c \in Clients,
         \/ Client(c) \/ listen_for_clients(c) \/ RecvPort(c) \/ CopyPort(c)
         \/ RecvError(c) \/ RecvEnd(c) \/ Close(c)
  PROVE  LoopStays
<1>0. Listed \subseteq Clients
  BY ListedType
<1>1. CASE Connect(c)
  <2>1. c \notin Listed
    BY <1>1 DEF Connect, ListInv, FdInv, OnList
  <2> QED
    BY <1>0, <1>1, <2>1 DEF LoopStays, TypeOK, Connect, Newest
<1>2. CASE update_port(c)
  BY <1>0, <1>2 DEF LoopStays, TypeOK, update_port, Newest
<1>3. CASE name_server_handle(c)
  BY <1>0, <1>3, ReadKeepsNewest DEF LoopStays, name_server_handle
<1>4. CASE Leave(c)
  BY <1>0, <1>4 DEF LoopStays, TypeOK, Leave, Newest
<1>5. CASE listen_for_clients(c)
  BY <1>0, <1>5 DEF LoopStays, TypeOK, listen_for_clients, Newest
<1>6. CASE RecvPort(c) \/ CopyPort(c) \/ RecvEnd(c) \/ Close(c)
  BY <1>0, <1>6 DEF LoopStays, TypeOK, RecvPort, CopyPort, RecvEnd, Close, Newest
<1>7. CASE RecvError(c)
  BY <1>0, <1>7 DEF LoopStays, TypeOK, RecvError, Newest
<1> QED
  BY <1>1, <1>2, <1>3, <1>4, <1>5, <1>6, <1>7 DEF Client

(* RoundInforms at one client that the loop has passed, before and after a  *)
(* step.                                                                    *)
LEMMA PassedIsInformed ==
  ASSUME RoundInforms, mutex # Nobody, Len(client_list) > 1, NEW i \in 1..(pos - 1),
         NEW d, d = client_list[i], conn[d] = "open"
  PROVE  {e[1] : e \in Newest(d)} = Listed \ {d}
BY DEF RoundInforms

(* What is to be shown of the round after a step.                           *)
LEMMA RoundAfter ==
  ASSUME mutex' # Nobody /\ Len(client_list') > 1 =>
           \A i \in 1..(pos' - 1) : \A d : d = client_list'[i] /\ conn'[d] = "open" =>
             {e[1] : e \in Newest(d)'} = Listed' \ {d}
  PROVE  RoundInforms'
BY DEF RoundInforms, Newest

(* A step outside the loop keeps what the round has told.                   *)
LEMMA LoopStaysInforms ==
  ASSUME TypeOK, MutexInv, RoundInforms, LoopStays
  PROVE  RoundInforms'
<1> SUFFICES ASSUME mutex # Nobody, Len(client_list) > 1, NEW i \in 1..(pos - 1),
                    NEW d, d = client_list[i], conn'[d] = "open"
             PROVE  {e[1] : e \in Newest(d)'} = Listed' \ {d}
  BY RoundAfter DEF LoopStays
<1>1. d \in Listed
  BY ListedType DEF TypeOK, MutexInv
<1>2. conn[d] = "open" /\ Newest(d)' = Newest(d) /\ Listed' = Listed
  BY <1>1 DEF LoopStays, Listed
<1> QED
  BY <1>2, PassedIsInformed

(* The clients the loop has passed keep the current list as their newest    *)
(* message.                                                                 *)
LEMMA RoundStep ==
  ASSUME TypeOK, ListInv, FdInv, MutexInv, RoundInforms, Next
  PROVE  RoundInforms'
<1> PICK c \in Clients : Client(c) \/ listen_for_clients(c) \/ client_handle(c)
  BY DEF Next
<1>1. CASE LoopStays
  BY <1>1, LoopStaysInforms
<1>2. CASE Join(c) \/ list_remove(c) \/ UnlockList(c)
  <2>1. mutex' = Nobody
    BY <1>2 DEF Join, list_remove, UnlockList
  <2> QED
    BY <2>1 DEF RoundInforms
<1>3. CASE LockList(c)
  <2>1. pos' = 1
    BY <1>3 DEF LockList
  <2> QED
    BY <2>1 DEF RoundInforms
<1>4. CASE client_send_peers(c)
  <2>1. /\ Len(client_list) \in Nat /\ pos \in 1..Len(client_list)
        /\ mutex # Nobody
        /\ pos' - 1 = pos /\ UNCHANGED client_list /\ Listed' = Listed
    BY <1>4, ListedType, ServerAssumption DEF TypeOK, client_send_peers, MutexInv, Listed
  <2> SUFFICES ASSUME Len(client_list) > 1, NEW i \in 1..pos,
                      NEW d, d = client_list[i], conn'[d] = "open"
               PROVE  {e[1] : e \in Newest(d)'} = Listed \ {d}
    BY <2>1, RoundAfter
  <2>2. d \in Listed /\ Len(client_list) # 1
    BY <2>1, ListedType
  <2>3. CASE d = client_list[pos]
    <3>1. Newest(d)' = {<<p, port[p]>> : p \in Listed \ {d}}
      BY <1>4, <2>2, <2>3, SendMakesNewest
    <3>2. {e[1] : e \in {<<p, port[p]>> : p \in Listed \ {d}}} = Listed \ {d}
      <4> DEFINE M == {<<p, port[p]>> : p \in Listed \ {d}}
      <4>1. \A e \in M : e[1] \in Listed \ {d}
        OBVIOUS
      <4>2. \A p \in Listed \ {d} : <<p, port[p]>> \in M /\ <<p, port[p]>>[1] = p
        OBVIOUS
      <4> HIDE DEF M
      <4> DEFINE Q == {e[1] : e \in M}
      <4>3. \A q \in Q : q \in Listed \ {d}
        BY <4>1
      <4>5. \A e \in M : e[1] \in Q
        OBVIOUS
      <4> HIDE DEF Q
      <4>6. \A p \in Listed \ {d} : p \in Q
        BY <4>2, <4>5
      <4>7. Q = Listed \ {d}
        BY <4>3, <4>6
      <4>8. {e[1] : e \in M} = Listed \ {d}
        BY <4>7 DEF Q
      <4> QED
        BY <4>8 DEF M
    <3> QED
      BY <3>1, <3>2
  <2>4. CASE d # client_list[pos]
    <3>1. conn[d] = "open" /\ Newest(d)' = Newest(d)
      BY <1>4, <2>2, <2>4, SendMakesNewest
    <3>2. i \in 1..(pos - 1)
      BY <2>1, <2>4
    <3> QED
      BY <2>1, <3>1, <3>2, PassedIsInformed
  <2> QED
    BY <2>3, <2>4
<1> QED
  BY <1>1, <1>2, <1>3, <1>4, OthersLeaveLoop DEF client_handle, manage_graph

(* Who knows whom, or will.                                                 *)
LEMMA ToldStep ==
  ASSUME TypeOK, ListInv, FdInv, MutexInv, PortInv, ToldInv, Next
  PROVE  ToldInv'
<1> PICK c \in Clients : Client(c) \/ listen_for_clients(c) \/ client_handle(c)
  BY DEF Next
<1>0. Listed \subseteq Clients
  BY ListedType
<1>1. ASSUME LoopStays,
             \A d \in Clients : port'[d] = "announced" => port[d] = "announced",
             \A t \in Clients : pc[t] = "lock" => pc'[t] = "lock"
      PROVE  ToldInv'
  <2>1. Listed' = Listed /\ \A d \in Listed : WillBeSent(d) => WillBeSent(d)'
    BY <1>1 DEF LoopStays, WillBeSent, Listed
  <2> QED
    BY <1>0, <1>1, <2>1 DEF LoopStays, ToldInv
<1>2. CASE Client(c)
  <2>1. UNCHANGED <<port, pc>>
    BY <1>2 DEF Client, Connect, update_port, name_server_handle, Leave
  <2> QED
    BY <1>1, <1>2, <2>1, OthersLeaveLoop
<1>3. CASE listen_for_clients(c) \/ RecvPort(c) \/ RecvEnd(c) \/ Close(c)
  <2>1. /\ \A d \in Clients : port'[d] = "announced" => port[d] = "announced"
        /\ \A t \in Clients : pc[t] = "lock" => pc'[t] = "lock"
    BY <1>3 DEF TypeOK, listen_for_clients, RecvPort, RecvEnd, Close
  <2> QED
    BY <1>1, <1>3, <2>1, OthersLeaveLoop
<1>4. CASE CopyPort(c) \/ RecvError(c)
  <2>1. pc'[c] = "lock"
    BY <1>4 DEF TypeOK, CopyPort, RecvError
  <2> QED
    BY <2>1 DEF ToldInv, WillBeSent
<1>5. CASE LockList(c)
  <2>1. mutex' # Nobody /\ pos' = 1 /\ UNCHANGED client_list
    BY <1>5, ServerAssumption DEF LockList
  <2>2. \A d \in Listed : WillBeSent(d)'
    BY <2>1, ListedType DEF WillBeSent
  <2> QED
    BY <2>1, <2>2 DEF ToldInv, Listed
<1>6. CASE Join(c) \/ list_remove(c)
  <2>1. Listed' \subseteq Listed \union {c} /\ (list_remove(c) => c \notin Listed')
    <3>1. CASE Join(c)
      BY <3>1 DEF TypeOK, Join, list_remove, Listed
    <3>2. CASE list_remove(c)
      BY <3>2, RemovedList
    <3> QED
      BY <1>6, <3>1, <3>2
  <2>2. port'[c] = "announced" => list_remove(c)
    BY <1>6 DEF PortInv, Join
  <2>3. mutex = Nobody /\ UNCHANGED <<conn, port, inbox, told>>
    BY <1>6 DEF Join, list_remove
  <2>4. \A t \in Clients : pc[t] = "lock" => pc'[t] = "lock"
    BY <1>6 DEF TypeOK, Join, list_remove
  <2>5. \A d \in Clients : WillBeSent(d) => WillBeSent(d)'
    BY <2>3, <2>4 DEF WillBeSent
  <2>6. \A d \in Clients : Newest(d)' = Newest(d)
    BY <2>3 DEF Newest
  <2> QED
    BY <1>0, <2>1, <2>2, <2>3, <2>5, <2>6 DEF ToldInv
<1>7. CASE UnlockList(c)
  <2>1. /\ UNCHANGED <<conn, port, inbox, told, client_list>> /\ Listed' = Listed
        /\ pos > Len(client_list)
    BY <1>7 DEF UnlockList, Listed
  <2>2. \A d \in Listed : WillBeSent(d) => \E t \in Clients : pc[t] = "lock"
    BY <2>1, ListedType DEF WillBeSent, TypeOK
  <2>3. \A t \in Clients : pc[t] = "lock" => pc'[t] = "lock"
    BY <1>7 DEF TypeOK, UnlockList
  <2>4. \A d \in Listed : WillBeSent(d) => WillBeSent(d)'
    BY <2>2, <2>3 DEF WillBeSent
  <2>5. \A d \in Clients : Newest(d)' = Newest(d)
    BY <2>1 DEF Newest
  <2> QED
    BY <1>0, <2>1, <2>4, <2>5 DEF ToldInv
<1>8. CASE client_send_peers(c)
  <2> SUFFICES ASSUME NEW d \in Listed, NEW e \in Listed, d # e, conn'[d] = "open",
                      port[d] = "announced", port[e] = "announced", ~ WillBeSent(d)'
               PROVE  <<e, "announced">> \in Newest(d)'
    BY <1>8 DEF ToldInv, client_send_peers, Listed
  <2>1. /\ Len(client_list) \in Nat /\ pos \in 1..Len(client_list)
        /\ mutex' = mutex /\ pos' = pos + 1
        /\ UNCHANGED <<client_list, pc>>
    BY <1>8, ListedType DEF TypeOK, client_send_peers
  <2>2. Len(client_list) # 1
    BY ListedType
  <2>3. CASE d = client_list[pos]
    <3>1. Newest(d)' = {<<p, port[p]>> : p \in Listed \ {d}}
      BY <1>8, <2>2, <2>3, SendMakesNewest
    <3> QED
      BY <3>1
  <2>4. CASE d # client_list[pos]
    <3>1. ~ WillBeSent(d)
      BY <2>1, <2>4 DEF WillBeSent
    <3>2. conn[d] = "open" /\ Newest(d)' = Newest(d)
      BY <1>8, <2>2, <2>4, SendMakesNewest
    <3> QED
      BY <3>1, <3>2 DEF ToldInv
  <2> QED
    BY <2>3, <2>4
<1> QED
  BY <1>2, <1>3, <1>4, <1>5, <1>6, <1>7, <1>8 DEF client_handle, manage_graph

-------------------------------------------------------------------------------
(* The theorems. *)

(* Every step keeps the invariant.                                          *)
LEMMA StepIInv ==
  ASSUME IInv, [Next]_vars
  PROVE  IInv'
<1>1. CASE Next
  BY <1>1, TypeStep, ListStep, FdStep, MutexStep, PortStep, RoundStep, ToldStep DEF IInv
<1>2. CASE UNCHANGED vars
  <2> USE <1>2 DEF vars, IInv
  <2>1. TypeOK' /\ ListInv' /\ FdInv'
    BY DEF TypeOK, ListInv, FdInv, Listed
  <2>2. MutexInv' /\ PortInv'
    BY DEF MutexInv, PortInv
  <2>3. ToldInv'
    BY DEF ToldInv, Listed, Newest, WillBeSent
  <2>4. RoundInforms'
    BY LoopStaysInforms DEF LoopStays, Newest
  <2> QED
    BY <2>1, <2>2, <2>3, <2>4
<1> QED
  BY <1>1, <1>2

(* The invariant always holds.                                              *)
LEMMA Invariance == Spec => []IInv
BY InitIInv, StepIInv, PTL DEF Spec

(* The variables of the name server have their types.                       *)
THEOREM TypeCorrect == Spec => []TypeOK
<1>1. IInv => TypeOK
  BY DEF IInv
<1> QED
  BY <1>1, Invariance, PTL

(* However clients come and go, descriptors of clients on the list differ:  *)
(* client_peers_static never takes one client for another.                  *)
THEOREM FdsAlwaysDiffer == Spec => []ListedFdsDiffer
<1>1. IInv => ListedFdsDiffer
  BY FdsDiffer DEF IInv
<1> QED
  BY <1>1, Invariance, PTL

(* manage_graph's loop informs every client it passes of the current list.  *)
THEOREM RoundsInform == Spec => []RoundInforms
<1>1. IInv => RoundInforms
  BY DEF IInv
<1> QED
  BY <1>1, Invariance, PTL

(* When the server is at rest, all clients it serves know each other by the *)
(* ports they announced, though ports are copied without the mutex.         *)
THEOREM RestMeansInformed == Spec => []ServedKnowEachOther
<1>1. IInv => ServedKnowEachOther
  BY RestInforms
<1> QED
  BY <1>1, Invariance, PTL

-------------------------------------------------------------------------------
(* Refinement of Registry. *)

(* A thread takes its client off the list after the connection has ended.   *)
GoneInv ==
  \A c \in Clients : pc[c] \in {"leave", "close", "done"} => conn[c] \notin {"none", "open"}

(* A connection that has ended stays so.                                    *)
LEMMA EndedStays ==
  ASSUME TypeOK, Next, NEW c \in Clients, conn[c] \notin {"none", "open"}
  PROVE  conn'[c] \notin {"none", "open"}
<1> PICK d \in Clients : Client(d) \/ listen_for_clients(d) \/ client_handle(d)
  BY DEF Next
<1>1. CASE UNCHANGED conn
  BY <1>1
<1>2. CASE Connect(d)
  BY <1>2 DEF TypeOK, Connect
<1>3. CASE Leave(d)
  BY <1>3 DEF TypeOK, Leave
<1>4. CASE RecvError(d)
  BY <1>4 DEF TypeOK, RecvError
<1>5. CASE client_send_peers(d)
  BY <1>5 DEF TypeOK, client_send_peers, server_send_message
<1> QED
  BY <1>1, <1>2, <1>3, <1>4, <1>5
  DEF Client, update_port, name_server_handle, listen_for_clients, client_handle, Join,
      RecvPort, CopyPort, RecvEnd, list_remove, Close, manage_graph, LockList, UnlockList

(* A thread begins to leave only when recv has reported the end.            *)
LEMMA LeavesWhenEnded ==
  ASSUME TypeOK, Next, NEW c \in Clients, pc'[c] \in {"leave", "close", "done"}
  PROVE  pc[c] \in {"leave", "close", "done"} \/ conn[c] \notin {"none", "open"}
<1> PICK d \in Clients : Client(d) \/ listen_for_clients(d) \/ client_handle(d)
  BY DEF Next
<1>1. CASE UNCHANGED pc
  BY <1>1
<1>2. CASE RecvEnd(d)
  BY <1>2 DEF TypeOK, RecvEnd
<1>3. CASE list_remove(d) \/ Close(d)
  BY <1>3 DEF TypeOK, list_remove, Close
<1>4. CASE listen_for_clients(d) \/ Join(d) \/ RecvPort(d) \/ CopyPort(d)
  BY <1>4 DEF TypeOK, listen_for_clients, Join, RecvPort, CopyPort
<1>5. CASE RecvError(d) \/ LockList(d) \/ UnlockList(d)
  BY <1>5 DEF TypeOK, RecvError, LockList, UnlockList
<1> QED
  BY <1>1, <1>2, <1>3, <1>4, <1>5
  DEF Client, client_handle, Connect, update_port, name_server_handle, Leave,
      manage_graph, client_send_peers

(* GoneInv always holds.                                                    *)
LEMMA GoneInvariance == Spec => []GoneInv
<1>1. Init => GoneInv
  BY DEF Init, GoneInv
<1>2. ASSUME TypeOK, GoneInv, [Next]_vars PROVE GoneInv'
  <2>1. CASE Next
    BY <1>2, <2>1, EndedStays, LeavesWhenEnded DEF GoneInv
  <2>2. CASE UNCHANGED vars
    BY <1>2, <2>2 DEF GoneInv, vars
  <2> QED
    BY <1>2, <2>1, <2>2
<1> QED
  BY <1>1, <1>2, TypeCorrect, PTL DEF Spec

(* The members of the registry are the clients on the list.                 *)
LEMMA MembersAreListed ==
  ASSUME TypeOK, ListInv
  PROVE  Promise!Members = Listed
<1>1. \A c \in Clients : Status[c] = "member" <=> pc[c] \in OnList
  BY DEF TypeOK, Status, StatusAt, OnList
<1>2. Listed \subseteq Clients
  BY ListedType
<1> QED
  BY <1>1, <1>2 DEF Promise!Members, ListInv

(* The status that goes with the place where a thread is.                   *)
LEMMA StatusValues ==
  /\ \A v \in {"none", "start"} : StatusAt(v) = "new"
  /\ \A v \in OnList : StatusAt(v) = "member"
  /\ \A v \in {"close", "done"} : StatusAt(v) = "former"
BY DEF StatusAt, OnList

(* The thread of c goes from v to w: what becomes of the status of clients, *)
(* and of who is owed a round.                                              *)
Moved(c, v, w) ==
  /\ Status[c] = StatusAt(v)
  /\ Status' = [Status EXCEPT ![c] = StatusAt(w)]
  /\ StatusAt(v) = StatusAt(w) => Status' = Status
  /\ c \in Owed <=> v = "lock"
  /\ v # "lock" /\ w # "lock" => Owed' = Owed
  /\ w = "lock" => Owed' = Owed \union {c}
  /\ w # "lock" => Owed' = Owed \ {c}

(* A step of one thread moves that one.                                     *)
LEMMA Moves ==
  ASSUME TypeOK, NEW c \in Clients, NEW v, NEW w, pc[c] = v, pc' = [pc EXCEPT ![c] = w]
  PROVE  Moved(c, v, w)
<1>1. pc'[c] = w /\ \A d \in Clients : d # c => pc'[d] = pc[d]
  BY DEF TypeOK
<1> DEFINE f == [d \in Clients |-> StatusAt(pc'[d])]
<1>2. Status' = [Status EXCEPT ![c] = StatusAt(w)]
  <2>1. f[c] = StatusAt(w) /\ \A d \in Clients : d # c => f[d] = Status[d]
    BY <1>1 DEF Status
  <2>2. f = [Status EXCEPT ![c] = StatusAt(w)]
    BY <2>1 DEF Status
  <2> QED
    BY <2>2 DEF Status
<1>3. StatusAt(v) = StatusAt(w) => Status' = Status
  BY <1>1 DEF Status
<1>4. Status[c] = StatusAt(v)
  BY DEF Status
<1>5. Owed' = {d \in Clients : pc'[d] = "lock"} /\ Owed = {d \in Clients : pc[d] = "lock"}
  BY DEF Owed
<1>6. /\ c \in Owed <=> v = "lock"
      /\ w = "lock" => Owed' = Owed \union {c}
      /\ w # "lock" => Owed' = Owed \ {c}
  BY <1>1, <1>5
<1>7. v # "lock" /\ w # "lock" => Owed' = Owed
  BY <1>6
<1> QED
  BY <1>2, <1>3, <1>4, <1>6, <1>7 DEF Moved

(* Without the mutex, no round goes on; and what a round is to come to      *)
(* changes only with the list, the position or the mutex.                   *)
LEMMA DueIs ==
  /\ mutex = Nobody => Due = {}
  /\ mutex' = Nobody => Due' = {}
  /\ UNCHANGED <<mutex, pos, client_list>> => UNCHANGED Due
BY DEF Due

(* What changes the processes of clients.                                   *)
LEMMA ProcessAfter ==
  ASSUME TypeOK, NEW c \in Clients, NEW v, conn' = [conn EXCEPT ![c] = v]
  PROVE  Process' = [Process EXCEPT ![c] = IF v \in {"none", "open"} THEN v ELSE "gone"]
<1>1. conn'[c] = v /\ \A d \in Clients : d # c => conn'[d] = conn[d]
  BY DEF TypeOK
<1> QED
  BY <1>1 DEF Process

(* What a client does, the registry has its process do.                     *)
LEMMA ClientMaps ==
  ASSUME TypeOK, NEW c \in Clients, Client(c)
  PROVE  [Promise!Next]_(Promise!vars)
<1>1. CASE Connect(c)
  <2>1. Process[c] = "none" /\ Process' = [Process EXCEPT ![c] = "open"]
    BY <1>1, ProcessAfter DEF Connect, Process
  <2>2. UNCHANGED <<Status, port, Owed, Due, inbox, told>>
    BY <1>1 DEF Connect, Status, Owed, Due
  <2>3. Promise!Arrive(c)
    BY <2>1, <2>2 DEF Promise!Arrive
  <2> QED
    BY <2>3 DEF Promise!Next
<1>2. CASE update_port(c)
  BY <1>2 DEF update_port, Promise!vars, Process, Status, Owed, Due
<1>3. CASE name_server_handle(c)
  <2>1. Process[c] = "open"
    BY <1>3 DEF name_server_handle, Process
  <2>2. UNCHANGED <<Process, Status, port, Owed, Due>>
    BY <1>3 DEF name_server_handle, Process, Status, Owed, Due
  <2>3. Promise!Read(c)
    BY <1>3, <2>1, <2>2 DEF name_server_handle, Promise!Read
  <2> QED
    BY <2>3 DEF Promise!Next
<1>4. CASE Leave(c)
  <2>1. PICK end \in {"fin", "rst", "gone"} : conn' = [conn EXCEPT ![c] = end]
    BY <1>4 DEF Leave
  <2>2. Process[c] = "open" /\ Process' = [Process EXCEPT ![c] = "gone"]
    BY <1>4, <2>1, ProcessAfter DEF Leave, Process
  <2>3. UNCHANGED <<Status, port, Owed, Due>>
    BY <1>4 DEF Leave, Status, Owed, Due
  <2>4. Promise!Depart(c)
    BY <1>4, <2>2, <2>3 DEF Leave, Promise!Depart
  <2> QED
    BY <2>4 DEF Promise!Next
<1> QED
  BY <1>1, <1>2, <1>3, <1>4 DEF Client

(* Joining and leaving the list are the changes of the members; accepting a *)
(* client and closing its connection change nothing.                        *)
LEMMA MembersMap ==
  ASSUME IInv, GoneInv, NEW c \in Clients,
         listen_for_clients(c) \/ Join(c) \/ RecvEnd(c) \/ list_remove(c) \/ Close(c)
  PROVE  [Promise!Next]_(Promise!vars)
<1> USE DEF IInv
<1>1. CASE listen_for_clients(c)
  <2>1. pc[c] = "none" /\ pc' = [pc EXCEPT ![c] = "start"]
    BY <1>1 DEF listen_for_clients
  <2>2. Status' = Status /\ Owed' = Owed
    <3>1. Moved(c, "none", "start")
      BY <2>1, Moves
    <3>2. StatusAt("none") = "new" /\ StatusAt("start") = "new"
      BY StatusValues DEF OnList
    <3> QED
      BY <3>1, <3>2 DEF Moved
  <2>3. UNCHANGED <<Process, port, Due, inbox, told>>
    BY <1>1 DEF listen_for_clients, Process, Due
  <2> QED
    BY <2>2, <2>3 DEF Promise!vars
<1>2. CASE Join(c)
  <2>1. pc[c] = "start" /\ pc' = [pc EXCEPT ![c] = "recv"]
    BY <1>2 DEF Join
  <2>2. Status[c] = "new" /\ Status' = [Status EXCEPT ![c] = "member"] /\ Owed' = Owed
    <3>1. Moved(c, "start", "recv")
      BY <2>1, Moves
    <3>2. StatusAt("start") = "new" /\ StatusAt("recv") = "member"
      BY StatusValues DEF OnList
    <3> QED
      BY <3>1, <3>2 DEF Moved
  <2>3. Process[c] # "none"
    BY <2>1 DEF FdInv, Process
  <2>4. Due = {} /\ UNCHANGED Due
    BY <1>2, DueIs DEF Join
  <2>5. UNCHANGED <<Process, port, inbox, told>>
    BY <1>2 DEF Join, Process
  <2>6. Promise!Register(c)
    BY <2>2, <2>3, <2>4, <2>5 DEF Promise!Register
  <2> QED
    BY <2>6 DEF Promise!Next
<1>3. CASE RecvEnd(c)
  <2>1. pc[c] = "recv" /\ pc' = [pc EXCEPT ![c] = "leave"]
    BY <1>3 DEF RecvEnd
  <2>2. Status' = Status /\ Owed' = Owed
    <3>1. Moved(c, "recv", "leave")
      BY <2>1, Moves
    <3>2. StatusAt("recv") = "member" /\ StatusAt("leave") = "member"
      BY StatusValues DEF OnList
    <3> QED
      BY <3>1, <3>2 DEF Moved
  <2>3. UNCHANGED <<Process, port, Due, inbox, told>>
    BY <1>3 DEF RecvEnd, Process, Due
  <2> QED
    BY <2>2, <2>3 DEF Promise!vars
<1>4. CASE list_remove(c)
  <2>1. pc[c] = "leave" /\ pc' = [pc EXCEPT ![c] = "close"]
    BY <1>4 DEF list_remove
  <2>2. /\ Status[c] = "member" /\ Status' = [Status EXCEPT ![c] = "former"]
        /\ Owed' = Owed /\ c \notin Owed
    <3>1. Moved(c, "leave", "close")
      BY <2>1, Moves
    <3>2. StatusAt("leave") = "member" /\ StatusAt("close") = "former"
      BY StatusValues DEF OnList
    <3> QED
      BY <3>1, <3>2 DEF Moved
  <2>3. Process[c] = "gone"
    BY <2>1 DEF GoneInv, Process
  <2>4. Due = {} /\ UNCHANGED Due
    BY <1>4, DueIs DEF list_remove
  <2>5. UNCHANGED <<Process, port, inbox, told>>
    BY <1>4 DEF list_remove, Process
  <2>6. Promise!Deregister(c)
    BY <2>2, <2>3, <2>4, <2>5 DEF Promise!Deregister
  <2> QED
    BY <2>6 DEF Promise!Next
<1>5. CASE Close(c)
  <2>1. pc[c] = "close" /\ pc' = [pc EXCEPT ![c] = "done"]
    BY <1>5 DEF Close
  <2>2. Status' = Status /\ Owed' = Owed
    <3>1. Moved(c, "close", "done")
      BY <2>1, Moves
    <3>2. StatusAt("close") = "former" /\ StatusAt("done") = "former"
      BY StatusValues DEF OnList
    <3> QED
      BY <3>1, <3>2 DEF Moved
  <2>3. UNCHANGED <<Process, port, Due, inbox, told>>
    BY <1>5 DEF Close, Process, Due
  <2> QED
    BY <2>2, <2>3 DEF Promise!vars
<1> QED
  BY <1>1, <1>2, <1>3, <1>4, <1>5

(* Copying a port is its announcement; only it and an error of recv make    *)
(* the thread go on to a round.                                             *)
LEMMA PortMaps ==
  ASSUME IInv, NEW c \in Clients, RecvPort(c) \/ CopyPort(c) \/ RecvError(c)
  PROVE  [Promise!Next]_(Promise!vars)
<1> USE DEF IInv
<1>1. CASE RecvPort(c)
  <2>1. pc[c] = "recv" /\ pc' = [pc EXCEPT ![c] = "port"]
    BY <1>1 DEF RecvPort
  <2>2. Status[c] = "member" /\ Status' = Status /\ Owed' = Owed
    <3>1. Moved(c, "recv", "port")
      BY <2>1, Moves
    <3>2. StatusAt("recv") = "member" /\ StatusAt("port") = "member"
      BY StatusValues DEF OnList
    <3> QED
      BY <3>1, <3>2 DEF Moved
  <2>3. port[c] = "default"
    BY <1>1 DEF PortInv, RecvPort
  <2>4. UNCHANGED <<Process, Due, inbox, told>> /\ port' = [port EXCEPT ![c] = "torn"]
    BY <1>1 DEF RecvPort, Process, Due
  <2>5. Promise!BeginAnnounce(c)
    BY <2>2, <2>3, <2>4 DEF Promise!BeginAnnounce
  <2> QED
    BY <2>5 DEF Promise!Next
<1>2. CASE CopyPort(c)
  <2>1. pc[c] = "port" /\ pc' = [pc EXCEPT ![c] = "lock"]
    BY <1>2 DEF CopyPort
  <2>2. Status[c] = "member" /\ Status' = Status /\ Owed' = Owed \union {c}
    <3>1. Moved(c, "port", "lock")
      BY <2>1, Moves
    <3>2. StatusAt("port") = "member" /\ StatusAt("lock") = "member"
      BY StatusValues DEF OnList
    <3> QED
      BY <3>1, <3>2 DEF Moved
  <2>3. port[c] = "torn"
    BY <2>1 DEF PortInv
  <2>4. UNCHANGED <<Process, Due, inbox, told>> /\ port' = [port EXCEPT ![c] = "announced"]
    BY <1>2 DEF CopyPort, Process, Due
  <2>5. Promise!EndAnnounce(c)
    BY <2>2, <2>3, <2>4 DEF Promise!EndAnnounce
  <2> QED
    BY <2>5 DEF Promise!Next
<1>3. CASE RecvError(c)
  <2>1. pc[c] = "recv" /\ pc' = [pc EXCEPT ![c] = "lock"]
    BY <1>3 DEF RecvError
  <2>2. Status[c] = "member" /\ Status' = Status /\ Owed' = Owed \union {c}
    <3>1. Moved(c, "recv", "lock")
      BY <2>1, Moves
    <3>2. StatusAt("recv") = "member" /\ StatusAt("lock") = "member"
      BY StatusValues DEF OnList
    <3> QED
      BY <3>1, <3>2 DEF Moved
  <2>3. conn[c] = "rst" /\ conn' = [conn EXCEPT ![c] = "dead"]
    BY <1>3 DEF RecvError
  <2>4. Process[c] = "gone" /\ Process' = Process
    BY <2>3, ProcessAfter DEF Process
  <2>5. UNCHANGED <<port, Due, inbox, told>>
    BY <1>3 DEF RecvError, Due
  <2>6. Promise!Misread(c)
    BY <2>2, <2>4, <2>5 DEF Promise!Misread
  <2> QED
    BY <2>6 DEF Promise!Next
<1> QED
  BY <1>1, <1>2, <1>3

(* The mutex is what a round needs, and the round is over when it is given  *)
(* back.                                                                    *)
LEMMA RoundMaps ==
  ASSUME IInv, NEW c \in Clients, LockList(c) \/ UnlockList(c)
  PROVE  [Promise!Next]_(Promise!vars)
<1> USE DEF IInv
<1>1. CASE LockList(c)
  <2>1. pc[c] = "lock" /\ pc' = [pc EXCEPT ![c] = "send"]
    BY <1>1 DEF LockList
  <2>2. Status' = Status /\ Owed' = Owed \ {c} /\ c \in Owed
    <3>1. Moved(c, "lock", "send")
      BY <2>1, Moves
    <3>2. StatusAt("lock") = "member" /\ StatusAt("send") = "member"
      BY StatusValues DEF OnList
    <3> QED
      BY <3>1, <3>2 DEF Moved
  <2>3. Due = {}
    BY <1>1, DueIs DEF LockList
  <2>4. Due' = Promise!Members
    <3>1. mutex' # Nobody /\ pos' = 1 /\ client_list' = client_list
      BY <1>1, ServerAssumption DEF LockList
    <3>2. Due' = Listed
      BY <3>1 DEF Due, Listed
    <3> QED
      BY <3>2, MembersAreListed
  <2>5. UNCHANGED <<Process, port, inbox, told>>
    BY <1>1 DEF LockList, Process
  <2>6. Promise!StartRound(c)
    BY <2>2, <2>3, <2>4, <2>5 DEF Promise!StartRound
  <2> QED
    BY <2>6 DEF Promise!Next
<1>2. CASE UnlockList(c)
  <2>1. pc[c] = "send" /\ pc' = [pc EXCEPT ![c] = "recv"]
    BY <1>2 DEF UnlockList
  <2>2. Status' = Status /\ Owed' = Owed
    <3>1. Moved(c, "send", "recv")
      BY <2>1, Moves
    <3>2. StatusAt("send") = "member" /\ StatusAt("recv") = "member"
      BY StatusValues DEF OnList
    <3> QED
      BY <3>1, <3>2 DEF Moved
  <2>3. Due = {}
    <3>1. Len(client_list) \in Nat /\ pos \in Nat
      BY ListedType DEF TypeOK
    <3>2. pos..Len(client_list) = {}
      BY <1>2, <3>1 DEF UnlockList
    <3> QED
      BY <3>2 DEF Due
  <2>4. Due' = {}
    BY <1>2, DueIs DEF UnlockList
  <2>5. UNCHANGED <<Process, port, inbox, told>>
    BY <1>2 DEF UnlockList, Process
  <2> QED
    BY <2>2, <2>3, <2>4, <2>5 DEF Promise!vars
<1> QED
  BY <1>1, <1>2

(* One turn of the loop takes the client at its position out of what is     *)
(* due: no client is on the list twice.                                     *)
LEMMA TurnTakesOne ==
  ASSUME IInv, NEW c \in Clients, client_send_peers(c)
  PROVE  /\ client_list[pos] \in Clients /\ client_list[pos] \in Listed
         /\ client_list[pos] \in Due
         /\ Due' = Due \ {client_list[pos]}
<1> USE DEF IInv
<1> DEFINE n == Len(client_list)
<1>1. mutex # Nobody /\ mutex' = mutex /\ pos' = pos + 1 /\ client_list' = client_list
  BY ServerAssumption DEF client_send_peers, MutexInv
<1>2. n \in Nat /\ pos \in Nat /\ pos > 0 /\ pos <= n
  BY ListedType DEF TypeOK, client_send_peers
<1>3. \A i \in 1..n : client_list[i] = client_list[pos] => i = pos
  BY <1>2 DEF ListInv
<1>4. client_list[pos] \in Listed /\ client_list[pos] \in Clients
  BY <1>2, ListedType
<1>5. Due = {client_list[i] : i \in pos..n} /\ Due' = {client_list[i] : i \in (pos + 1)..n}
  BY <1>1 DEF Due
<1> HIDE DEF n
<1>6. pos..n = {pos} \union ((pos + 1)..n) /\ pos \notin (pos + 1)..n
  BY <1>2
<1>7. \A i \in (pos + 1)..n : client_list[i] # client_list[pos]
  <2>1. \A i \in (pos + 1)..n : i \in 1..n /\ i # pos
    BY <1>2
  <2> QED
    BY <1>3, <2>1
<1> QED
  BY <1>4, <1>5, <1>6, <1>7

(* A client that is alone on the list is the only member.                   *)
LEMMA Alone ==
  ASSUME IInv, NEW d \in Listed
  PROVE  Len(client_list) = 1 <=> Promise!Members = {d}
<1> USE DEF IInv
<1>1. Promise!Members = Listed /\ Len(client_list) \in Nat
  BY MembersAreListed, ListedType
<1>2. PICK i \in 1..Len(client_list) : client_list[i] = d
  BY ListedType
<1>3. ASSUME Len(client_list) = 1 PROVE Listed = {d}
  BY <1>2, <1>3 DEF Listed
<1>4. ASSUME Listed = {d} PROVE Len(client_list) = 1
  <2>1. \A j \in 1..Len(client_list) : client_list[j] = client_list[i]
    BY <1>2, <1>4, ListedType
  <2>2. \A j \in 1..Len(client_list) : j = i
    BY <2>1 DEF ListInv
  <2>3. 1 \in 1..Len(client_list) /\ Len(client_list) \in 1..Len(client_list)
    BY <1>1, <1>2
  <2> QED
    BY <2>2, <2>3
<1> QED
  BY <1>1, <1>3, <1>4

(* A turn of the loop informs one member of all the others, whom it tells   *)
(* apart by descriptor, or passes over one that is gone or alone.           *)
LEMMA TurnMaps ==
  ASSUME IInv, NEW c \in Clients, client_send_peers(c)
  PROVE  [Promise!Next]_(Promise!vars)
<1> USE DEF IInv
<1> DEFINE d == client_list[pos]
<1>1. d \in Clients /\ d \in Listed /\ d \in Due /\ Due' = Due \ {d}
  BY TurnTakesOne
<1>2. UNCHANGED <<Status, Owed, port, told>>
  BY DEF client_send_peers, Status, Owed
<1>3. Len(client_list) = 1 <=> Promise!Members = {d}
  BY <1>1, Alone
<1>4. Promise!PassOver(d) => [Promise!Next]_(Promise!vars)
  BY <1>1 DEF Promise!Next
<1>5. CASE Len(client_list) = 1
  <2>1. UNCHANGED <<Process, inbox>>
    BY <1>5 DEF client_send_peers, Process
  <2>2. Promise!PassOver(d)
    BY <1>1, <1>2, <1>3, <1>5, <2>1 DEF Promise!PassOver
  <2> QED
    BY <1>4, <2>2
<1>6. CASE Len(client_list) # 1 /\ conn[d] = "open"
  <2>1. /\ inbox' = [inbox EXCEPT ![d] = Append(@, PeersOf(d))]
        /\ conn' = conn
    BY <1>6 DEF client_send_peers, server_send_message
  <2>2. PeersOf(d) = Promise!Snapshot(d)
    BY <1>1, MembersAreListed, PeersAreOthers DEF Promise!Snapshot
  <2>3. Process[d] = "open" /\ Process' = Process
    BY <1>1, <1>6, <2>1 DEF Process
  <2>4. Promise!Inform(d)
    BY <1>1, <1>2, <1>3, <1>6, <2>1, <2>2, <2>3 DEF Promise!Inform
  <2> QED
    BY <1>1, <2>4 DEF Promise!Next
<1>7. CASE Len(client_list) # 1 /\ conn[d] # "open"
  <2>1. /\ inbox' = inbox /\ conn[d] \notin {"none", "open"}
        /\ \/ conn' = conn
           \/ \E end \in {"gone", "dead"} : conn' = [conn EXCEPT ![d] = end]
    BY <1>7 DEF client_send_peers, server_send_message
  <2>2. Process[d] = "gone"
    BY <1>1, <2>1 DEF Process
  <2>3. Process' = Process
    <3>1. CASE conn' = conn
      BY <3>1 DEF Process
    <3>2. CASE \E end \in {"gone", "dead"} : conn' = [conn EXCEPT ![d] = end]
      <4>1. Process' = [Process EXCEPT ![d] = "gone"]
        BY <1>1, <3>2, ProcessAfter
      <4> QED
        BY <2>2, <4>1 DEF Process
    <3> QED
      BY <2>1, <3>1, <3>2
  <2>4. Promise!PassOver(d)
    BY <1>1, <1>2, <2>1, <2>2, <2>3 DEF Promise!PassOver
  <2> QED
    BY <1>4, <2>4
<1> QED
  BY <1>5, <1>6, <1>7

(* The initial states are those of the registry.                            *)
LEMMA RegistryInit == Init => Promise!Init
BY DEF Init, Promise!Init, Process, Status, StatusAt, Owed, Due

(* Every step is a step of the registry, or none.                           *)
LEMMA RegistryStep ==
  IInv /\ GoneInv /\ [Next]_vars => [Promise!Next]_(Promise!vars)
<1> SUFFICES ASSUME IInv, GoneInv, [Next]_vars
             PROVE  [Promise!Next]_(Promise!vars)
  OBVIOUS
<1>1. CASE Next
  <2>1. PICK c \in Clients : Client(c) \/ listen_for_clients(c) \/ client_handle(c)
    BY <1>1 DEF Next
  <2>2. TypeOK
    BY DEF IInv
  <2> QED
    BY <2>1, <2>2, ClientMaps, MembersMap, PortMaps, RoundMaps, TurnMaps
    DEF client_handle, manage_graph
<1>2. CASE UNCHANGED vars
  BY <1>2 DEF vars, Promise!vars, Process, Status, Owed, Due
<1> QED
  BY <1>1, <1>2

(* The name server implements the registry: its threads, which share a list *)
(* and copy ports without the mutex of it, run one round after the other,   *)
(* and every round sends all who are there the others that were on the list *)
(* when it began.                                                           *)
THEOREM ServerIsRegistry == Spec => ImplementsRegistry
BY Invariance, GoneInvariance, RegistryInit, RegistryStep, PTL
DEF Spec, ImplementsRegistry, Promise!Spec
===============================================================================
