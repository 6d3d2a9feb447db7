------------------------------- MODULE Registry -------------------------------
(***************************************************************************)
(* What the name server promises its clients, with neither threads,        *)
(* sockets, descriptors nor a mutex.  There is a set of members.  Once a   *)
(* member has announced its port, a round is owed, in which every member   *)
(* whose process is there is sent one message that says who the others     *)
(* are, and the members do not change while a round goes on.  What a       *)
(* client reads are the messages sent to it, in their order.               *)
(***************************************************************************)
EXTENDS Sequences

CONSTANT Clients  \* the client processes

VARIABLES
  process,  \* process[c]: "none" before it connected, "open", "gone" after
  status,   \* status[c]: "new", "member", "former"
  port,     \* port[c]: "default", "torn" while it is changed, "announced"
  owed,     \* the members for whom a round has to be started
  due,      \* the members that the present round has not come to
  mail,     \* mail[c]: what was sent to c and not read
  told      \* told[c]: what c has read last

vars == <<process, status, port, owed, due, mail, told>>

Members == {c \in Clients : status[c] = "member"}

(* The others, with the ports they have at the moment.                      *)
Snapshot(d) == {<<p, port[p]>> : p \in Members \ {d}}

Init ==
  /\ process = [c \in Clients |-> "none"]
  /\ status = [c \in Clients |-> "new"]
  /\ port = [c \in Clients |-> "default"]
  /\ owed = {}
  /\ due = {}
  /\ mail = [c \in Clients |-> <<>>]
  /\ told = [c \in Clients |-> {}]

Arrive(c) ==
  /\ process[c] = "none"
  /\ process' = [process EXCEPT ![c] = "open"]
  /\ UNCHANGED <<status, port, owed, due, mail, told>>

Read(c) ==
  /\ process[c] = "open"
  /\ mail[c] # <<>>
  /\ told' = [told EXCEPT ![c] = Head(mail[c])]
  /\ mail' = [mail EXCEPT ![c] = Tail(@)]
  /\ UNCHANGED <<process, status, port, owed, due>>

Depart(c) ==
  /\ process[c] = "open"
  /\ process' = [process EXCEPT ![c] = "gone"]
  /\ mail' = [mail EXCEPT ![c] = <<>>]
  /\ told' = [told EXCEPT ![c] = {}]
  /\ UNCHANGED <<status, port, owed, due>>

(* Between rounds, the members change.                                      *)
Register(c) ==
  /\ due = {}
  /\ status[c] = "new" /\ process[c] # "none"
  /\ status' = [status EXCEPT ![c] = "member"]
  /\ UNCHANGED <<process, port, owed, due, mail, told>>

Deregister(c) ==
  /\ due = {}
  /\ status[c] = "member" /\ process[c] = "gone" /\ c \notin owed
  /\ status' = [status EXCEPT ![c] = "former"]
  /\ UNCHANGED <<process, port, owed, due, mail, told>>

(* A member announces its port, once.  A round may show it half changed.    *)
BeginAnnounce(c) ==
  /\ status[c] = "member" /\ port[c] = "default"
  /\ port' = [port EXCEPT ![c] = "torn"]
  /\ UNCHANGED <<process, status, owed, due, mail, told>>

EndAnnounce(c) ==
  /\ status[c] = "member" /\ port[c] = "torn"
  /\ port' = [port EXCEPT ![c] = "announced"]
  /\ owed' = owed \union {c}
  /\ UNCHANGED <<process, status, due, mail, told>>

(* A round may also be started for a member that was cut off.               *)
Misread(c) ==
  /\ status[c] = "member" /\ process[c] = "gone"
  /\ owed' = owed \union {c}
  /\ UNCHANGED <<process, status, port, due, mail, told>>

(* One round after the other.                                               *)
StartRound(c) ==
  /\ due = {}
  /\ c \in owed
  /\ owed' = owed \ {c}
  /\ due' = Members
  /\ UNCHANGED <<process, status, port, mail, told>>

Inform(d) ==
  /\ d \in due
  /\ process[d] = "open" /\ Members # {d}
  /\ due' = due \ {d}
  /\ mail' = [mail EXCEPT ![d] = Append(@, Snapshot(d))]
  /\ UNCHANGED <<process, status, port, owed, told>>

(* Nobody but who is gone or alone is passed over.                          *)
PassOver(d) ==
  /\ d \in due
  /\ process[d] = "gone" \/ Members = {d}
  /\ due' = due \ {d}
  /\ UNCHANGED <<process, status, port, owed, mail, told>>

Next ==
  \E c \in Clients :
    \/ Arrive(c) \/ Read(c) \/ Depart(c)
    \/ Register(c) \/ Deregister(c)
    \/ BeginAnnounce(c) \/ EndAnnounce(c) \/ Misread(c)
    \/ StartRound(c) \/ Inform(c) \/ PassOver(c)

Spec == Init /\ [][Next]_vars
===============================================================================
