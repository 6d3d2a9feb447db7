-------------------------------- MODULE Receiver -------------------------------
(***************************************************************************)
(* The handler threads of a client process (client_handle): each reads     *)
(* the byte stream of one connection and tries to decode what it gets      *)
(* (client_parse_msg, msg_decode_decrypt).                                 *)
(*                                                                         *)
(* TCP knows no messages: a recv returns any part of the stream that has   *)
(* arrived.  The threads share the position strtok keeps in the C library  *)
(* and the context OpenSSL decrypts with, and no mutex covers them.        *)
(*                                                                         *)
(* Looking up, entering and relaying what was received, which comes before *)
(* the decoding, is MessageRelay's; here every message comes in on one     *)
(* connection only, so that none is dropped as seen.                       *)
(***************************************************************************)
EXTENDS WireFormat

CONSTANTS Conns,        \* connections to this client, one handler each
          Me,           \* the alias of the private key
          Feeds,        \* functions: what the other sides send on Conns
          BUFFER_SIZE,  \* the most a recv returns
          Cuts,         \* numbers of bytes a recv may return besides all
          NoMsg, Garbage

(* Every message is encrypted with a random key of its own, so messages     *)
(* whose encrypted keys are the same are the same.                          *)
ASSUME ReceiverAssumption ==
  /\ "name" \notin Conns
  /\ BUFFER_SIZE \in Nat \ {0}
  /\ Cuts \subseteq Nat
  /\ {NoMsg, Garbage} \cap Message = {}
  /\ Feeds \subseteq [Conns -> Seq(Message)]
  /\ \A f \in Feeds : \A h, g \in Conns : \A m \in ToSet(f[h]), n \in ToSet(f[g]) :
       client_encrypt_msg(m).key = client_encrypt_msg(n).key => m = n

(* The threads that call strtok: the handlers, and the thread that parses   *)
(* the PEERS messages of the name server.                                   *)
Threads == Conns \union {"name"}

VARIABLES
  feed,       \* feed[h]: the messages that are sent on connection h
  peers_msg,  \* the text of the PEERS message the name server thread is at
  hpc,        \* hpc[h]: where handler h is
  chunk,      \* chunk[h]: first and last position of its buffer in the stream
  fields,     \* fields[h]: the words of it that were taken for fields
  outcome,    \* outcome[h]: what decoding gave: a message, Garbage or NoMsg
  static,     \* where the next strtok(NULL, ...) of any thread goes on
  ctx,        \* the decryption context
  crashed,    \* what the process died of, or "no"
  busy,       \* history: threads between their first strtok and their last use
              \* of something shared
  mixed       \* history: threads whose use was overlapped by another's

hvars == <<hpc, chunk, fields, outcome>>
uvars == <<busy, mixed>>

-------------------------------------------------------------------------------
(* The texts, each computed once.                                           *)
Streams == UNION {{f[h] : h \in Conns} : f \in Feeds}
Sent == UNION {ToSet(s) : s \in Streams}
SealedOf == [m \in Sent |-> client_encrypt_msg(m)]
EncodedOf == [m \in Sent |-> msg_encrypt_encode(m)]
PaddedOf == [m \in Sent |-> Padded(m)]
StreamOf == [s \in Streams |-> FlattenSeq([k \in 1..Len(s) |-> PaddedOf[s[k]]])]

Text(t) == IF t = "name" THEN peers_msg ELSE StreamOf[feed[t]]

(* A word is a place in the text of a thread.                               *)
Word(t, w) == [of |-> t, first |-> w.first, last |-> w.last]
Chars(w) == SubSeq(Text(w.of), w.first, w.last)
Rest(t, w, to) == [of |-> t, first |-> w.last + 2, last |-> to]
Nowhere == [of |-> "name", first |-> 1, last |-> 0]

(* strtok(NULL, delim), whosever text it is that static points into.        *)
NextWord(delim) == strtok(Text(static.of), static.first, static.last, delim)

(* The history of overlaps: t begins (or goes on) and ends to use what is   *)
(* shared.                                                                  *)
Enter(t) ==
  /\ busy' = busy \union {t}
  /\ mixed' = IF busy = {} THEN mixed \ {t}
              ELSE IF busy = {t} THEN mixed
              ELSE mixed \union busy'
Leave(t) == busy' = busy \ {t} /\ UNCHANGED mixed

ReceiverInit(f) ==
  /\ feed = f
  /\ peers_msg = <<>>
  /\ hpc = [h \in Conns |-> "none"]
  /\ chunk = [h \in Conns |-> [first |-> 1, last |-> 0]]
  /\ fields = [h \in Conns |-> <<>>]
  /\ outcome = [h \in Conns |-> NoMsg]
  /\ static = Nowhere
  /\ ctx = [cipher |-> FALSE, key |-> NoMsg, ivRight |-> FALSE, fed |-> <<>>]
  /\ crashed = "no"
  /\ busy = {} /\ mixed = {}

-------------------------------------------------------------------------------
(* client_handle. *)

Goto(h, label) == hpc' = [hpc EXCEPT ![h] = label]

Recv(h) ==
  /\ hpc[h] = "recv"
  /\ \E n \in Cuts \union {BUFFER_SIZE, Len(Text(h)) - chunk[h].last} :
       /\ n \in 1..BUFFER_SIZE
       /\ chunk[h].last + n <= Len(Text(h))
       /\ chunk' = [chunk EXCEPT ![h] = [first |-> @.last + 1, last |-> @.last + n]]
  /\ Goto(h, "msg")
  /\ UNCHANGED <<feed, peers_msg, fields, outcome, static, ctx, crashed, uvars>>

(* The other side has sent everything and closes; the loop ends.  What      *)
(* list_remove is asked for then is on no list: client_list is never added  *)
(* to.                                                                      *)
RecvEnd(h) ==
  /\ hpc[h] = "recv"
  /\ chunk[h].last = Len(Text(h))
  /\ Goto(h, "done")
  /\ UNCHANGED <<feed, peers_msg, chunk, fields, outcome, static, ctx, crashed, uvars>>

-------------------------------------------------------------------------------
(* Mutation: strtok does not keep its position.                             *)
TakeFieldFromStart(h, before, t, first, last, label) ==
  LET w == strtok(Text(t), first, last, Space) IN
  /\ IF w.first = 0
     THEN crashed' = "decode" /\ UNCHANGED <<hpc, fields>>
     ELSE /\ fields' = [fields EXCEPT ![h] = Append(before, Word(t, w))]
          /\ Goto(h, label)
          /\ UNCHANGED crashed
  /\ UNCHANGED <<feed, peers_msg, chunk, outcome, static, ctx>>

(* parse_str_encrypted_msg: the next word from first to last in the text of *)
(* thread t becomes a field.  A word that is missing is NULL, and           *)
(* Base64decode_len reads through it.                                       *)
TakeField(h, before, t, first, last, label) ==
  LET w == strtok(Text(t), first, last, Space) IN
  /\ IF w.first = 0
     THEN crashed' = "decode" /\ UNCHANGED <<hpc, fields, static>>
     ELSE /\ fields' = [fields EXCEPT ![h] = Append(before, Word(t, w))]
          /\ static' = Rest(t, w, last)
          /\ Goto(h, label)
          /\ UNCHANGED crashed
  /\ UNCHANGED <<feed, peers_msg, chunk, outcome, ctx>>

FirstField(h) ==
  /\ hpc[h] = "msg"
  /\ TakeField(h, <<>>, h, chunk[h].first, chunk[h].last, "key")
  /\ Enter(h)

NextField(h) ==
  /\ hpc[h] \in {"key", "iv"}
  /\ TakeField(h, fields[h], static.of, static.first, static.last,
               IF hpc[h] = "key" THEN "iv" ELSE "init")
  /\ UNCHANGED uvars

-------------------------------------------------------------------------------
(* client_decrypt_msg, with the context that all threads use. *)

Bytes(w) == Base64decode(Chars(w))

InFeed == UNION {ToSet(feed[h]) : h \in Conns}

(* The messages for us whose encrypted session key the bytes are.           *)
Unwrapped(bytes) == {m \in InFeed : m.to = Me /\ bytes = SealedOf[m].key}

Return(h, result) ==
  /\ outcome' = [outcome EXCEPT ![h] = result]
  /\ Goto(h, "recv")
  /\ Leave(h)

(* EVP_OpenInit fails where the key cannot be decrypted, and leaves a       *)
(* context without a key.                                                   *)
OpenInit(h) ==
  /\ hpc[h] = "init"
  /\ LET keys == Unwrapped(Bytes(fields[h][2])) IN
     \/ /\ keys = {}
        /\ ctx' = [cipher |-> TRUE, key |-> NoMsg, ivRight |-> FALSE, fed |-> <<>>]
        /\ Return(h, NoMsg)
     \/ \E m \in keys :
          /\ ctx' = [cipher |-> TRUE, key |-> m, fed |-> <<>>,
                     ivRight |-> Bytes(fields[h][3]) = SealedOf[m].iv]
          /\ Goto(h, "update")
          /\ UNCHANGED <<outcome, uvars>>
  /\ UNCHANGED <<feed, peers_msg, chunk, fields, static, crashed>>

(* The library reads through the cipher of a context that another thread    *)
(* has cleaned up.                                                          *)
CleanedUp == [cipher |-> FALSE, key |-> NoMsg, ivRight |-> FALSE, fed |-> <<>>]

UseCleanedUp(h) ==
  /\ hpc[h] \in {"update", "final"}
  /\ ~ ctx.cipher
  /\ crashed' = "decode"
  /\ UNCHANGED <<feed, peers_msg, hvars, static, ctx, uvars>>

OpenUpdate(h) ==
  /\ hpc[h] = "update"
  /\ ctx.cipher
  /\ ctx' = [ctx EXCEPT !.fed = Append(@, fields[h][1])]
  /\ Goto(h, "final")
  /\ UNCHANGED <<feed, peers_msg, chunk, fields, outcome, static, crashed, uvars>>

(* Mutation: the byte parse_encrypted_msg_str encoded too many stays.       *)
IntactWithExtra(w) == ctx.key # NoMsg /\ ctx.fed = <<w>> /\ ctx.ivRight
                        /\ Bytes(w) = SealedOf[ctx.key].msg

(* What was put through the context is what was sealed, less the last byte  *)
(* that parse_encrypted_msg_str encoded too many.                           *)
Intact(w) == ctx.key # NoMsg /\ ctx.fed = <<w>> /\ ctx.ivRight
               /\ Front(Bytes(w)) = SealedOf[ctx.key].msg

(* Anything else is garbage, and is noticed by its last block or not.  The  *)
(* context is cleaned up unless that fails.                                 *)
OpenFinal(h) ==
  /\ hpc[h] = "final"
  /\ ctx.cipher
  /\ \E result \in IF Intact(fields[h][1]) THEN {ctx.key} ELSE {NoMsg, Garbage} :
       /\ Return(h, result)
       /\ ctx' = IF result = NoMsg THEN ctx ELSE CleanedUp
  /\ UNCHANGED <<feed, peers_msg, chunk, fields, static, crashed>>

client_handle(h) ==
  \/ Recv(h) \/ RecvEnd(h) \/ FirstField(h) \/ NextField(h)
  \/ OpenInit(h) \/ OpenUpdate(h) \/ OpenFinal(h) \/ UseCleanedUp(h)

-------------------------------------------------------------------------------
Place == [of : Threads, first : Nat, last : Nat]

ReceiverTypeOK ==
  /\ feed \in Feeds
  /\ peers_msg \in Seq(0..255)
  /\ hpc \in [Conns -> {"none", "recv", "msg", "key", "iv", "init", "update",
                        "final", "done"}]
  /\ chunk \in [Conns -> [first : Nat, last : Nat]]
  /\ fields \in [Conns -> Seq(Place)]
  /\ outcome \in [Conns -> Sent \union {NoMsg, Garbage}]
  /\ static \in Place
  /\ ctx \in [cipher : BOOLEAN, key : Sent \union {NoMsg}, ivRight : BOOLEAN,
              fed : Seq(Place)]
  /\ crashed \in {"no", "decode", "keys", "send", "input"}
  /\ busy \subseteq Threads /\ mixed \subseteq Threads

(* Every text a user can type is sent as MESSAGE_LENGTH characters that     *)
(* begin with its encoding if, and only if, it has no more than LongestText *)
(* characters; of a longer one, the end of the initialisation vector is     *)
(* missing.                                                                 *)
AllAlike ==
  \A m \in InFeed :
    (m.len <= LongestText) <=> (/\ Len(PaddedOf[m]) = MESSAGE_LENGTH
                                /\ IsStrictPrefix(EncodedOf[m], PaddedOf[m]))

(* The buffer parse_encrypted_msg_str allocates holds the encoding and its  *)
(* NUL, except where the encrypted text fills whole groups of three bytes:  *)
(* the byte that is encoded too many then needs a group of its own, and one *)
(* byte is written past the end.                                            *)
EncodedFits ==
  \A m \in InFeed :
    Len(EncodedOf[m]) < encoded_len(SealedOf[m]) <=> Len(SealedOf[m].msg) % 3 # 0

(* The messages that lie whole at the beginning of the buffer of h.         *)
Start(h, k) == 1 + Len(FlattenSeq([i \in 1..(k - 1) |-> PaddedOf[feed[h][i]]]))
Whole(h) ==
  {feed[h][k] : k \in {l \in 1..Len(feed[h]) :
     /\ Start(h, l) = chunk[h].first
     /\ Start(h, l) + Len(PaddedOf[feed[h][l]]) - 1 <= chunk[h].last}}

(* A handler whose recv began with a whole message, and while it decoded no *)
(* other thread used strtok or the context, has got that message if it is   *)
(* for us, whatever other threads did before, and nothing if it is not.     *)
AloneDecodes ==
  \A h \in Conns : hpc[h] = "recv" /\ h \notin mixed =>
    \A m \in Whole(h) : m.len <= LongestText =>
      outcome[h] = IF m.to = Me THEN m ELSE NoMsg

(* The process dies of decoding only where two threads decode at a time, or *)
(* a recv does not begin with a whole message that fits.                    *)
CrashNeedsCutOrMix ==
  crashed = "decode" /\ mixed = {} =>
    \E h \in busy : \A m \in Whole(h) : m.len > LongestText
===============================================================================
