------------------------------ MODULE NameServer ------------------------------
(***************************************************************************)
(* The name server: one thread per connected client (client_handle), a     *)
(* list of clients with its mutex, and manage_graph, which sends every     *)
(* client on the list a PEERS message.                                     *)
(*                                                                         *)
(* A client is the process at the other end: it connects, announces the    *)
(* port it listens on (update_port), reads PEERS messages and may exit.    *)
(* There is no way back for it here: a client that starts again is another *)
(* client.                                                                 *)
(*                                                                         *)
(* The peers a message lists are all the other clients on the list: this   *)
(* is what client_peers_static writes, and what client_peers_rand writes   *)
(* for the graphs combineNodesToGraph builds; order and repetition are     *)
(* left out.  A recv returns one whole message.                            *)
(***************************************************************************)
EXTENDS Naturals, Sequences, SequencesExt

CONSTANTS Clients,   \* the client processes
          MayLeave,  \* those that may exit
          MayStall,  \* those that may stop reading what they are sent
          Fds,       \* descriptors the server can have open, numbered
          Cap,       \* PEERS messages the socket buffers of a client hold
          NoFd,      \* descriptor of a client that was not accepted
          Nobody     \* owner of the mutex when no thread holds it

ASSUME ServerAssumption ==
  /\ MayLeave \cup MayStall \subseteq Clients
  /\ Fds \subseteq Nat
  /\ Cap \in Nat \ {0}
  /\ NoFd \notin Fds
  /\ Nobody \notin Clients

VARIABLES
  conn,         \* conn[c]: the server's end of the connection of c
  portupd,      \* portupd[c]: the PORTUPD message of c
  inbox,        \* inbox[c]: PEERS messages sent to c and not read by it
  told,         \* told[c]: the last PEERS message c has read
  pc,           \* pc[c]: where the server thread of c is
  socket_fd,    \* socket_fd[c]: descriptor of the connection of c
  port,         \* port[c]: what the server has as the port of c
  client_list,  \* sequence of clients
  mutex,        \* thread holding the mutex of client_list
  pos,          \* next position of the send loop of manage_graph
  alive         \* the server process runs

vars == <<conn, portupd, inbox, told, pc, socket_fd, port, client_list, mutex,
          pos, alive>>

(* "default" is CLIENT_PEER_DEF_PORT, "torn" what can be read while the     *)
(* thread of the client copies the announced port over it.                  *)
PortValues == {"default", "torn", "announced"}

PeersMsg == SUBSET (Clients \X PortValues)

Init ==
  /\ conn = [c \in Clients |-> "none"]
  /\ portupd = [c \in Clients |-> "unsent"]
  /\ inbox = [c \in Clients |-> <<>>]
  /\ told = [c \in Clients |-> {}]
  /\ pc = [c \in Clients |-> "none"]
  /\ socket_fd = [c \in Clients |-> NoFd]
  /\ port = [c \in Clients |-> "default"]
  /\ client_list = <<>>
  /\ mutex = Nobody
  /\ pos = 1
  /\ alive = TRUE

Listed == {client_list[i] : i \in 1..Len(client_list)}

-------------------------------------------------------------------------------
(* Clients. *)

Connect(c) ==
  /\ conn[c] = "none"
  /\ conn' = [conn EXCEPT ![c] = "open"]
  /\ UNCHANGED <<portupd, inbox, told, pc, socket_fd, port, client_list, mutex,
                 pos, alive>>

update_port(c) ==
  /\ conn[c] = "open"
  /\ portupd[c] = "unsent"
  /\ portupd' = [portupd EXCEPT ![c] = "sent"]
  /\ UNCHANGED <<conn, inbox, told, pc, socket_fd, port, client_list, mutex,
                 pos, alive>>

name_server_handle(c) ==
  /\ conn[c] = "open"
  /\ inbox[c] # <<>>
  /\ told' = [told EXCEPT ![c] = Head(inbox[c])]
  /\ inbox' = [inbox EXCEPT ![c] = Tail(@)]
  /\ UNCHANGED <<conn, portupd, pc, socket_fd, port, client_list, mutex, pos,
                 alive>>

(* The process exits.  With everything read, the kernel sends a FIN.  With  *)
(* a message unread or on its way it sends a reset, which is all the server *)
(* gets ("rst") or comes after the FIN ("gone").                            *)
Leave(c) ==
  /\ c \in MayLeave
  /\ conn[c] = "open"
  /\ \E end \in IF inbox[c] = <<>> THEN {"fin"} ELSE {"rst", "gone"} :
       conn' = [conn EXCEPT ![c] = end]
  /\ inbox' = [inbox EXCEPT ![c] = <<>>]
  /\ told' = [told EXCEPT ![c] = {}]
  /\ UNCHANGED <<portupd, pc, socket_fd, port, client_list, mutex, pos, alive>>

-------------------------------------------------------------------------------
(* Accepting a client: the kernel gives the lowest free descriptor, and the *)
(* new thread puts the client on the list, with the default port.           *)

(* Mutation: the descriptor is closed before the client is off the list.    *)
OpenFdsOfRunning ==
  {socket_fd[c] : c \in {d \in Clients : pc[d] \notin {"none", "leave", "close", "done"}}}

OpenFds == {socket_fd[c] : c \in {d \in Clients : pc[d] \notin {"none", "done"}}}

listen_for_clients(c) ==
  /\ pc[c] = "none"
  /\ conn[c] # "none"
  /\ \E fd \in Fds \ OpenFds :
       /\ \A f \in Fds \ OpenFds : fd <= f
       /\ socket_fd' = [socket_fd EXCEPT ![c] = fd]
  /\ pc' = [pc EXCEPT ![c] = "start"]
  /\ UNCHANGED <<conn, portupd, inbox, told, port, client_list, mutex, pos, alive>>

(* Mutation: the client is put on the list without the mutex.               *)
JoinUnlocked(c) ==
  /\ pc[c] = "start"
  /\ client_list' = Append(client_list, c)
  /\ pc' = [pc EXCEPT ![c] = "recv"]
  /\ UNCHANGED <<conn, portupd, inbox, told, socket_fd, port, mutex, pos, alive>>

Join(c) ==
  /\ pc[c] = "start"
  /\ mutex = Nobody
  /\ client_list' = Append(client_list, c)
  /\ pc' = [pc EXCEPT ![c] = "recv"]
  /\ UNCHANGED <<conn, portupd, inbox, told, socket_fd, port, mutex, pos, alive>>

-------------------------------------------------------------------------------
(* The receive loop.  The port is copied without the mutex of the list, so  *)
(* that another thread's manage_graph can read it half written.             *)

RecvPort(c) ==
  /\ pc[c] = "recv"
  /\ portupd[c] = "sent"
  /\ portupd' = [portupd EXCEPT ![c] = "read"]
  /\ port' = [port EXCEPT ![c] = "torn"]
  /\ pc' = [pc EXCEPT ![c] = "port"]
  /\ UNCHANGED <<conn, inbox, told, socket_fd, client_list, mutex, pos, alive>>

(* Mutation: the graph is not managed after the port has changed.           *)
CopyPortOnly(c) ==
  /\ pc[c] = "port"
  /\ port' = [port EXCEPT ![c] = "announced"]
  /\ pc' = [pc EXCEPT ![c] = "recv"]
  /\ UNCHANGED <<conn, portupd, inbox, told, socket_fd, client_list, mutex, pos,
                 alive>>

CopyPort(c) ==
  /\ pc[c] = "port"
  /\ port' = [port EXCEPT ![c] = "announced"]
  /\ pc' = [pc EXCEPT ![c] = "lock"]
  /\ UNCHANGED <<conn, portupd, inbox, told, socket_fd, client_list, mutex, pos,
                 alive>>

(* recv returns -1, once, for a reset; the loop takes that for a message.   *)
RecvError(c) ==
  /\ pc[c] = "recv"
  /\ portupd[c] # "sent"
  /\ conn[c] = "rst"
  /\ conn' = [conn EXCEPT ![c] = "dead"]
  /\ pc' = [pc EXCEPT ![c] = "lock"]
  /\ UNCHANGED <<portupd, inbox, told, socket_fd, port, client_list, mutex, pos,
                 alive>>

RecvEnd(c) ==
  /\ pc[c] = "recv"
  /\ portupd[c] # "sent"
  /\ conn[c] \in {"fin", "gone", "dead"}
  /\ pc' = [pc EXCEPT ![c] = "leave"]
  /\ UNCHANGED <<conn, portupd, inbox, told, socket_fd, port, client_list, mutex,
                 pos, alive>>

(* Mutation: the client is taken off the list without the mutex.            *)
list_remove_Unlocked(c) ==
  /\ pc[c] = "leave"
  /\ client_list' = RemoveFirst(client_list, c)
  /\ pc' = [pc EXCEPT ![c] = "close"]
  /\ UNCHANGED <<conn, portupd, inbox, told, socket_fd, port, mutex, pos, alive>>

list_remove(c) ==
  /\ pc[c] = "leave"
  /\ mutex = Nobody
  /\ client_list' = RemoveFirst(client_list, c)
  /\ pc' = [pc EXCEPT ![c] = "close"]
  /\ UNCHANGED <<conn, portupd, inbox, told, socket_fd, port, mutex, pos, alive>>

Close(c) ==
  /\ pc[c] = "close"
  /\ pc' = [pc EXCEPT ![c] = "done"]
  /\ UNCHANGED <<conn, portupd, inbox, told, socket_fd, port, client_list, mutex,
                 pos, alive>>

-------------------------------------------------------------------------------
(* manage_graph, run by the thread of c. *)

(* Mutation: the loop starts before the first client.                       *)
LockListFromZero(c) ==
  /\ pc[c] = "lock"
  /\ mutex = Nobody
  /\ mutex' = c
  /\ pos' = 0
  /\ pc' = [pc EXCEPT ![c] = "send"]
  /\ UNCHANGED <<conn, portupd, inbox, told, socket_fd, port, client_list, alive>>

LockList(c) ==
  /\ pc[c] = "lock"
  /\ mutex = Nobody
  /\ mutex' = c
  /\ pos' = 1
  /\ pc' = [pc EXCEPT ![c] = "send"]
  /\ UNCHANGED <<conn, portupd, inbox, told, socket_fd, port, client_list, alive>>

(* What is sent to d: everyone on the list but those with d's descriptor.   *)
PeersOf(d) == {<<p, port[p]>> : p \in {q \in Listed : socket_fd[q] # socket_fd[d]}}

(* send to d.  It blocks while d does not read.  A closed connection takes  *)
(* one message and is reset for it; a reset is reported once; a send after  *)
(* that raises SIGPIPE, which nothing handles.                              *)
server_send_message(d) ==
  \/ /\ conn[d] = "open"
     /\ Len(inbox[d]) < Cap
     /\ inbox' = [inbox EXCEPT ![d] = Append(@, PeersOf(d))]
     /\ UNCHANGED <<conn, alive>>
  \/ /\ conn[d] = "fin"
     /\ conn' = [conn EXCEPT ![d] = "gone"]
     /\ UNCHANGED <<inbox, alive>>
  \/ /\ conn[d] = "rst"
     /\ conn' = [conn EXCEPT ![d] = "dead"]
     /\ UNCHANGED <<inbox, alive>>
  \/ /\ conn[d] \in {"gone", "dead"}
     /\ alive' = FALSE
     /\ UNCHANGED <<conn, inbox>>

(* A client that is alone on the list is sent nothing.                      *)
client_send_peers(c) ==
  /\ pc[c] = "send"
  /\ pos <= Len(client_list)
  /\ IF Len(client_list) = 1
     THEN UNCHANGED <<conn, inbox, alive>>
     ELSE server_send_message(client_list[pos])
  /\ pos' = pos + 1
  /\ UNCHANGED <<portupd, told, pc, socket_fd, port, client_list, mutex>>

(* Mutation: the mutex is not released.                                     *)
KeepList(c) ==
  /\ pc[c] = "send"
  /\ pos > Len(client_list)
  /\ pc' = [pc EXCEPT ![c] = "recv"]
  /\ UNCHANGED <<conn, portupd, inbox, told, socket_fd, port, client_list, mutex,
                 pos, alive>>

UnlockList(c) ==
  /\ pc[c] = "send"
  /\ pos > Len(client_list)
  /\ mutex' = Nobody
  /\ pc' = [pc EXCEPT ![c] = "recv"]
  /\ UNCHANGED <<conn, portupd, inbox, told, socket_fd, port, client_list, pos,
                 alive>>

manage_graph(c) == LockList(c) \/ client_send_peers(c) \/ UnlockList(c)

-------------------------------------------------------------------------------
client_handle(c) ==
  \/ Join(c) \/ RecvPort(c) \/ CopyPort(c) \/ RecvError(c) \/ RecvEnd(c)
  \/ list_remove(c) \/ Close(c) \/ manage_graph(c)

Client(c) == Connect(c) \/ update_port(c) \/ name_server_handle(c) \/ Leave(c)

(* Nothing is modelled after the server has died.                           *)
Next ==
  /\ alive
  /\ \E c \in Clients : Client(c) \/ listen_for_clients(c) \/ client_handle(c)

Spec == Init /\ [][Next]_vars

(* Server threads are scheduled by the kernel; a connected client goes on   *)
(* to announce its port and, unless it may stall, reads what it is sent.    *)
Fairness ==
  \A c \in Clients :
    /\ WF_vars(alive /\ (listen_for_clients(c) \/ client_handle(c)))
    /\ WF_vars(alive /\ update_port(c))
    /\ c \notin MayStall => WF_vars(alive /\ name_server_handle(c))

FairSpec == Spec /\ Fairness

-------------------------------------------------------------------------------
TypeOK ==
  /\ conn \in [Clients -> {"none", "open", "fin", "gone", "rst", "dead"}]
  /\ portupd \in [Clients -> {"unsent", "sent", "read"}]
  /\ inbox \in [Clients -> Seq(PeersMsg)]
  /\ told \in [Clients -> PeersMsg]
  /\ pc \in [Clients -> {"none", "start", "recv", "port", "lock", "send",
                         "leave", "close", "done"}]
  /\ socket_fd \in [Clients -> Fds \union {NoFd}]
  /\ port \in [Clients -> PortValues]
  /\ client_list \in Seq(Clients)
  /\ mutex \in Clients \union {Nobody}
  /\ pos \in Nat \ {0}
  /\ alive \in BOOLEAN

(* Clients on the list have different descriptors, by which                 *)
(* client_peers_static tells the client it writes to from the others.       *)
ListedFdsDiffer ==
  \A c, d \in Listed : socket_fd[c] = socket_fd[d] => c = d

(* c is up, its port is known to the server, and it has read everything.    *)
Served(c) ==
  /\ conn[c] = "open"
  /\ portupd[c] = "read"
  /\ pc[c] = "recv"
  /\ inbox[c] = <<>>

(* Nothing is left to be done by the server.                                *)
Idle ==
  /\ alive
  /\ \A c \in Clients : pc[c] \in {"none", "done"} \/
       (pc[c] = "recv" /\ conn[c] = "open" /\ portupd[c] # "sent")

(* When the server has come to rest, the last message each client has read  *)
(* lists every other client with the port it announced, however the threads *)
(* were interleaved and whatever half-written port was sent before.         *)
ServedKnowEachOther ==
  Idle => \A c, d \in Clients :
            c # d /\ Served(c) /\ Served(d) => <<d, "announced">> \in told[c]

(* The newest message of d, whether d has read it or not.                   *)
Newest(d) == IF inbox[d] = <<>> THEN told[d] ELSE inbox[d][Len(inbox[d])]

(* The clients that the loop of manage_graph has passed over are, as long   *)
(* as it runs, the ones whose newest message has all the others on the list *)
(* in it: no client is skipped, and none is sent an older list after a      *)
(* newer one, because threads join, leave and run the loop one at a time.   *)
RoundInforms ==
  mutex # Nobody /\ Len(client_list) > 1 =>
    \A i \in 1..(pos - 1) :
      LET d == client_list[i] IN
        conn[d] = "open" => {e[1] : e \in Newest(d)} = Listed \ {d}

(* Registry, in terms of the server: a member is a client from Join to      *)
(* list_remove, a round is owed by a thread that waits for the mutex, and   *)
(* due is what the loop of manage_graph has not come to.                    *)
Process == [c \in Clients |-> IF conn[c] \in {"none", "open"} THEN conn[c] ELSE "gone"]

StatusAt(at) == IF at \in {"none", "start"} THEN "new"
                ELSE IF at \in {"close", "done"} THEN "former" ELSE "member"

Status == [c \in Clients |-> StatusAt(pc[c])]

Owed == {c \in Clients : pc[c] = "lock"}

Due == IF mutex = Nobody THEN {} ELSE {client_list[i] : i \in pos..Len(client_list)}

Promise == INSTANCE Registry WITH process <- Process, status <- Status,
                                  owed <- Owed, due <- Due, mail <- inbox

(* The threads, the mutex and the descriptors of the server implement the   *)
(* registry: rounds do not overlap, the members do not change during one,   *)
(* all that are there are sent one message each, about all the others, and  *)
(* no round is started but for an announcement or an error.                 *)
ImplementsRegistry == Promise!Spec

(* Once all clients are connected, and if they stay, each of them is in the *)
(* end told of all the others.  Only one that does not read its messages    *)
(* can keep them from that: a send to it waits, with the mutex of the list, *)
(* for room.                                                                *)
AllAreTold ==
  (\A c \in Clients : conn[c] = "open")
    ~> \/ \A c, d \in Clients : c # d => <<d, "announced">> \in told[c]
       \/ \E d \in MayStall : [](Len(inbox[d]) > 0)

(* "return 0 if sucess, error code other wise": sending to a client that    *)
(* has gone is reported to the caller, and does not end the server.         *)
ServerSurvives == alive
===============================================================================
