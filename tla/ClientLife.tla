------------------------------- MODULE ClientLife ------------------------------
(***************************************************************************)
(* A client process from start to end: main, the thread that listens for   *)
(* peers, the thread that hears the name server, the thread that reads     *)
(* what the user types, and the handlers of Receiver.                      *)
(*                                                                         *)
(* What the outside does is a "world": the messages peers send, the key    *)
(* files, a PEERS message, the lines the user types, and how things end.   *)
(* What becomes of the peers on the list is ClientPeers', what becomes of  *)
(* a message that was typed WireFormat's and MessageRelay's.               *)
(***************************************************************************)
EXTENDS Receiver

CONSTANT Worlds   \* see World

Colon == 58

(* Key files lie in a directory that readdir reads in blocks; each block    *)
(* is put where the one before was.  A peer is an address and a port, which *)
(* the name server writes in digits and dots.  Of a line it matters whether *)
(* it has a colon.                                                          *)
File == [name : STRING, ext : STRING, readable : BOOLEAN]
Address == [ip : Seq(0..255), port : Seq(0..255)]
Plain == Seq((0..255) \ {Space, Colon}) \ {<<>>}
World == [feed : Feeds, dir : Seq(Seq(File)), private : BOOLEAN, bind : BOOLEAN,
          server : BOOLEAN, peers : Seq([ip : Plain, port : Plain]),
          lines : Seq(BOOLEAN), eof : BOOLEAN, ends : SUBSET {"fin", "rst"}]

ASSUME LifeAssumption == Worlds \subseteq World

VARIABLES
  world,      \* what the outside does; it never changes
  main,       \* where main is
  table,      \* public_key_hash_table
  listener,   \* the listening thread: "bound" until it calls listen
  nsconn,     \* the connection to the name server; "reset": recv returned -1
  announced,  \* the name server was told the port
  npc,        \* where the name server thread is
  entry,      \* ip_port_tok
  save_ptr,   \* where its strtok_r goes on in peers_msg
  found,      \* ip_addr and port, as far as they were found
  peer_list,  \* addresses of the peers that were parsed
  input       \* number of lines input_handle has read

others == <<feed, peers_msg, hvars, static, ctx, uvars>>
nvars == <<npc, entry, save_ptr, found, peer_list>>
mvars == <<main, table, listener, announced, input, world>>
vars == <<others, crashed, nsconn, nvars, mvars>>

Init ==
  /\ world \in Worlds
  /\ ReceiverInit(world.feed)
  /\ main = "load" /\ table = {} /\ listener = "none" /\ nsconn = "none"
  /\ announced = FALSE /\ input = 0
  /\ npc = "none" /\ entry = Nowhere /\ save_ptr = 1 /\ found = <<>>
  /\ peer_list = <<>>

-------------------------------------------------------------------------------
(* The table of public keys. *)

Blocks == 1..Len(world.dir)
KeyFiles(b) == {s \in 1..Len(world.dir[b]) : world.dir[b][s].ext = "pub"}

(* What is read, after the last block, where file s of a block was.         *)
d_name(s) == LET b == Max({c \in Blocks : s <= Len(world.dir[c])})
             IN  world.dir[b][s].name

(* Mutation: all names are kept in the same place.                          *)
key_hash_add_OneBuffer(b, s) ==
  [hash |-> world.dir[b][s].name, at |-> 1, key |-> world.dir[b][s].name]

(* An entry has the hash of its name, but not the name: it points into the  *)
(* buffer of readdir.                                                       *)
key_hash_add(b, s) ==
  [hash |-> world.dir[b][s].name, at |-> s, key |-> world.dir[b][s].name]

key_get_by_name(name) ==
  {e.key : e \in {f \in table : f.hash = name /\ d_name(f.at) = name}}

-------------------------------------------------------------------------------
(* main, and what it calls. *)

(* The files that are opened and hold a key; NULL is returned for others.   *)
client_open_pub_key(b, s) == world.dir[b][s].readable
client_open_priv_key == world.private

(* A key that could not be opened is copied from NULL before it is compared *)
(* with NULL.  A directory that is not there has no blocks.                 *)
load_public_keys ==
  /\ main = "load"
  /\ IF \E b \in Blocks : \E s \in KeyFiles(b) : ~ client_open_pub_key(b, s)
     THEN crashed' = "keys" /\ UNCHANGED <<main, table>>
     ELSE /\ table' = UNION {{key_hash_add(b, s) : s \in KeyFiles(b)} : b \in Blocks}
          /\ main' = "private" /\ UNCHANGED crashed
  /\ UNCHANGED <<others, nsconn, nvars, listener, announced, input, world>>

load_private_key ==
  /\ main = "private"
  /\ IF client_open_priv_key THEN main' = "server" /\ UNCHANGED crashed
                             ELSE crashed' = "keys" /\ UNCHANGED main
  /\ UNCHANGED <<others, nsconn, nvars, table, listener, announced, input, world>>

(* Mutation: the listening thread is not started.                           *)
init_server_Only ==
  /\ main = "server"
  /\ main' = "connect"
  /\ UNCHANGED <<others, crashed, nsconn, nvars, table, listener, announced, input, world>>

(* Nobody looks whether the socket could be bound.                          *)
init_server ==
  /\ main = "server"
  /\ main' = "connect" /\ listener' = "bound"
  /\ UNCHANGED <<others, crashed, nsconn, nvars, table, announced, input, world>>

connect_to_name_server ==
  /\ main = "connect"
  /\ IF world.server THEN main' = "port" /\ nsconn' = "open" /\ npc' = "recv"
                     ELSE main' = "ended" /\ UNCHANGED <<nsconn, npc>>
  /\ UNCHANGED <<others, crashed, entry, save_ptr, found, peer_list, table, listener,
                 announced, input, world>>

(* On a connection that was reset, the send takes the error that recv has   *)
(* not seen yet, or raises SIGPIPE.                                         *)
update_port ==
  /\ main = "port"
  /\ announced' = (nsconn \in {"open", "fin"})
  /\ nsconn' = IF nsconn = "rst" THEN "reset" ELSE nsconn
  /\ IF nsconn = "reset" THEN crashed' = "send" /\ UNCHANGED main
                         ELSE main' = "join" /\ UNCHANGED crashed
  /\ UNCHANGED <<others, nvars, table, listener, input, world>>

(* From here on the user can type.  The process ends with main.             *)
Join ==
  /\ main = "join"
  /\ npc = "done"
  /\ main' = "ended"
  /\ UNCHANGED <<others, crashed, nsconn, nvars, table, listener, announced, input, world>>

-------------------------------------------------------------------------------
(* listen_for_clients. *)

(* Without a bound socket accept fails for ever.                            *)
Listen ==
  /\ listener = "bound"
  /\ listener' = IF world.bind THEN "accept" ELSE "spin"
  /\ UNCHANGED <<others, crashed, nsconn, nvars, main, table, announced, input, world>>

Accept(h) ==
  /\ listener = "accept"
  /\ hpc[h] = "none" /\ feed[h] # <<>>
  /\ Goto(h, "recv")
  /\ UNCHANGED <<feed, peers_msg, chunk, fields, outcome, static, ctx, uvars, crashed,
                 nsconn, nvars, mvars>>

-------------------------------------------------------------------------------
(* name_server_handle, for one PEERS message. *)

PeersText ==
  Front(FlattenSeq([k \in 1..Len(world.peers) |->
    world.peers[k].ip \o <<Colon>> \o world.peers[k].port \o <<Space>>]))

(* strtok_r on peers_msg: the next entry, or the next recv.                 *)
NextEntry(text, from) ==
  LET w == strtok(text, from, Len(text), Space) IN
  IF w.first = 0
  THEN npc' = "recv" /\ Leave("name") /\ UNCHANGED <<entry, save_ptr>>
  ELSE /\ npc' = "ip"
       /\ entry' = Word("name", w)
       /\ save_ptr' = w.last + 2
       /\ UNCHANGED uvars

RecvPeers ==
  /\ npc = "recv"
  /\ nsconn \in {"open", "fin", "rst"}
  /\ peers_msg = <<>> /\ world.peers # <<>>
  /\ peers_msg' = PeersText
  /\ peer_list' = <<>> /\ found' = <<>>
  /\ NextEntry(PeersText, 1)
  /\ UNCHANGED <<feed, hvars, static, ctx, crashed, nsconn, mvars>>

(* A recv that returns -1 leaves the text as it is: PEERS and the address   *)
(* of the first entry, which strtok has cut off.                            *)
RecvError ==
  /\ npc = "recv"
  /\ nsconn = "rst"
  /\ nsconn' = "reset"
  /\ IF peers_msg = <<>>
     THEN UNCHANGED <<npc, entry, save_ptr, peer_list>>
     ELSE /\ peer_list' = <<>>
          /\ npc' = "ip"
          /\ entry' = Word("name", strtok(peers_msg, 1, Len(peers_msg), Colon))
          /\ save_ptr' = Len(peers_msg) + 1
  /\ UNCHANGED <<others, found, crashed, mvars>>

(* Mutation: the loop does not end when the name server does.               *)
RecvEndOfOthers ==
  /\ npc = "recv"
  /\ nsconn = "reset"
  /\ npc' = "done"
  /\ UNCHANGED <<others, crashed, nsconn, entry, save_ptr, found, peer_list, mvars>>

RecvEndOfServer ==
  /\ npc = "recv"
  /\ nsconn \in {"fin", "reset"}
  /\ npc' = "done"
  /\ UNCHANGED <<others, crashed, nsconn, entry, save_ptr, found, peer_list, mvars>>

(* strtok ends the word with a NUL, and so the entry.                       *)
ParseIp ==
  /\ npc = "ip"
  /\ LET w == strtok(peers_msg, entry.first, entry.last, Colon) IN
     /\ found' = <<Word("name", w)>>
     /\ static' = Rest("name", w, entry.last)
     /\ entry' = Word("name", w)
  /\ npc' = "port"
  /\ Enter("name")
  /\ UNCHANGED <<feed, peers_msg, hvars, ctx, crashed, nsconn, save_ptr, peer_list, mvars>>

(* Where no port is found the loop goes on with the same entry.             *)
ParsePort ==
  /\ npc = "port"
  /\ LET w == NextWord(Colon) IN
     IF w.first = 0
     THEN npc' = "ip" /\ UNCHANGED <<found, static>>
     ELSE /\ found' = Append(found, Word(static.of, w))
          /\ static' = Rest(static.of, w, static.last)
          /\ npc' = "next"
  /\ UNCHANGED <<feed, peers_msg, hvars, ctx, uvars, crashed, nsconn, entry, save_ptr,
                 peer_list, mvars>>

create_peer == [ip |-> Chars(found[1]), port |-> Chars(found[2])]

(* Mutation: the entry that strtok finds is taken for the next one.         *)
ParseNext_Strtok ==
  /\ npc = "next"
  /\ LET w == NextWord(Space) IN
     IF w.first = 0
     THEN npc' = "recv" /\ Leave("name") /\ UNCHANGED <<static, entry>>
     ELSE /\ npc' = "ip" /\ entry' = Word(static.of, w) /\ UNCHANGED uvars
          /\ static' = Rest(static.of, w, static.last)
  /\ peer_list' = Append(peer_list, create_peer)
  /\ found' = <<>>
  /\ UNCHANGED <<feed, peers_msg, hvars, ctx, crashed, nsconn, save_ptr, mvars>>

(* Mutation: strtok_r is not called for the next entry.                     *)
ParseNext_Same ==
  /\ npc = "next"
  /\ npc' = "ip"
  /\ peer_list' = Append(peer_list, create_peer)
  /\ found' = <<>>
  /\ UNCHANGED <<others, crashed, nsconn, entry, save_ptr, mvars>>

(* A last strtok finds nothing, unless another thread has used it; then the *)
(* peer is added, and strtok_r gives the next entry.                        *)
ParseNext ==
  /\ npc = "next"
  /\ LET w == NextWord(Space) IN
     static' = IF w.first = 0 THEN static ELSE Rest(static.of, w, static.last)
  /\ peer_list' = Append(peer_list, create_peer)
  /\ found' = <<>>
  /\ NextEntry(peers_msg, save_ptr)
  /\ UNCHANGED <<feed, peers_msg, hvars, ctx, crashed, nsconn, mvars>>

name_server_handle ==
  \/ RecvPeers \/ RecvError \/ RecvEndOfServer
  \/ ParseIp \/ ParsePort \/ ParseNext

(* The name server ends, or resets the connection.                          *)
NsEnds ==
  /\ nsconn = "open"
  /\ nsconn' \in world.ends
  /\ UNCHANGED <<others, crashed, nvars, mvars>>

-------------------------------------------------------------------------------
(* Mutation: the end of the input is taken for a line.                      *)
input_handle_PastEnd ==
  /\ main = "join"
  /\ input < Len(world.lines) \/ world.eof
  /\ IF input >= Len(world.lines) \/ world.lines[input + 1]
     THEN input' = input + 1 /\ UNCHANGED crashed
     ELSE crashed' = "input" /\ UNCHANGED input
  /\ UNCHANGED <<others, nsconn, nvars, main, table, listener, announced, world>>

(* input_handle up to the encryption.  A line without a colon, and getline  *)
(* at the end of the input, which leaves a text whose colon was replaced by *)
(* NUL, both have a NUL written to where no colon was found.                *)
input_handle ==
  /\ main = "join"
  /\ input < Len(world.lines) \/ world.eof
  /\ IF input < Len(world.lines) /\ world.lines[input + 1]
     THEN input' = input + 1 /\ UNCHANGED crashed
     ELSE crashed' = "input" /\ UNCHANGED input
  /\ UNCHANGED <<others, nsconn, nvars, main, table, listener, announced, world>>

-------------------------------------------------------------------------------
Running == main # "ended" /\ crashed = "no"

Main == load_public_keys \/ load_private_key \/ init_server \/ connect_to_name_server
          \/ update_port \/ Join
Handler(h) == client_handle(h) /\ UNCHANGED <<nsconn, nvars, mvars>>

Next ==
  /\ Running
  /\ \/ Main \/ Listen \/ name_server_handle \/ NsEnds \/ input_handle
     \/ \E h \in Conns : Accept(h) \/ Handler(h)

Spec == Init /\ [][Next]_vars

(* The scheduler leaves none of these threads behind; what the handlers     *)
(* get to do makes no difference to how the process ends.                   *)
Fairness ==
  /\ WF_vars(Running /\ Main) /\ WF_vars(Running /\ Listen)
  /\ WF_vars(Running /\ name_server_handle)

FairSpec == Spec /\ Fairness

-------------------------------------------------------------------------------
TypeOK ==
  /\ ReceiverTypeOK
  /\ world \in Worlds
  /\ main \in {"load", "private", "server", "connect", "port", "join", "ended"}
  /\ table \subseteq [hash : STRING, at : Nat, key : STRING]
  /\ listener \in {"none", "bound", "accept", "spin"}
  /\ nsconn \in {"none", "open", "fin", "rst", "reset"}
  /\ announced \in BOOLEAN /\ input \in 0..Len(world.lines)
  /\ npc \in {"none", "recv", "ip", "port", "next", "done"}
  /\ entry \in Place /\ save_ptr \in Nat
  /\ found \in Seq(Place) /\ Len(found) <= 2
  /\ peer_list \in Seq(Address)

(* key_get_by_name gives no alias the key of another, though its entries    *)
(* point into a buffer that is read over; and it finds every alias as long  *)
(* as the directory is read in one block.                                   *)
KeysAreOwn ==
  \A b \in Blocks : \A s \in KeyFiles(b) :
    LET name == world.dir[b][s].name IN
    /\ key_get_by_name(name) \subseteq {name}
    /\ Len(world.dir) = 1 /\ main \notin {"load"} => key_get_by_name(name) = {name}

(* The name server thread has parsed all peers it was sent, and each with   *)
(* its port, when no other thread used strtok meanwhile.                    *)
AloneParses ==
  npc = "recv" /\ peers_msg # <<>> /\ "name" \notin mixed => peer_list = world.peers

(* The name server thread goes round for ever on an entry without a port.   *)
Looping == npc = "ip" /\ Colon \notin ToSet(Chars(entry))

(* It never does so of a message of the name server alone: only where       *)
(* another thread took its port, or an error of recv was taken for a        *)
(* message.                                                                 *)
LoopNeedsResetOrMix == Looping => "name" \in mixed \/ nsconn = "reset"

(* When the name server is gone the client ends, as main's comment says,    *)
(* but for the loop above.                                                  *)
EndsWithServer ==
  nsconn \in {"fin", "rst", "reset"} ~> ~ Running \/ Looping

(* A client that has announced its port gets to accept connections to it,   *)
(* unless it could not bind it, which nobody notices.                       *)
BecomesReachable ==
  announced ~> ~ Running \/ listener = "accept" \/ ~ world.bind
===============================================================================
