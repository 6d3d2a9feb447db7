---------------------------- MODULE ClientLifeProofs --------------------------
(***************************************************************************)
(* Proofs about ClientLife and Receiver, for any number of connections,    *)
(* any messages on them, any cuts of their streams, any peers and any key  *)
(* files: the types, the keys, what the name server thread parses, and     *)
(* what the handlers decode, however their steps and those of the other    *)
(* threads are interleaved.                                                *)
(***************************************************************************)
EXTENDS ClientLife, WireFormatProofs, SequenceTheorems

-------------------------------------------------------------------------------
(* The texts on the connections.                                            *)

(* What is sent on a connection.                                            *)
LEMMA FeedTypes ==
  ASSUME NEW f \in Feeds, NEW h \in Conns
  PROVE  /\ f[h] \in Seq(Message) /\ f[h] \in Streams
         /\ \A k \in 1..Len(f[h]) : f[h][k] \in Sent
         /\ ToSet(f[h]) \subseteq Sent
<1>1. f \in [Conns -> Seq(Message)]
  BY ReceiverAssumption
<1>2. f[h] \in Seq(Message)
  BY <1>1
<1>3. f[h] \in Streams
  BY DEF Streams
<1>4. ToSet(f[h]) \subseteq Sent
  BY <1>3 DEF Sent
<1>5. \A k \in 1..Len(f[h]) : f[h][k] \in ToSet(f[h])
  BY <1>2 DEF ToSet
<1> QED
  BY <1>2, <1>3, <1>4, <1>5

(* What is sent are messages.                                               *)
LEMMA SentTypes == Sent \subseteq Message
<1> SUFFICES ASSUME NEW m \in Sent PROVE m \in Message
  OBVIOUS
<1>1. PICK s \in Streams : m \in ToSet(s)
  BY DEF Sent
<1>2. PICK f \in Feeds, h \in Conns : s = f[h]
  BY DEF Streams
<1>3. s \in Seq(Message)
  BY <1>2, FeedTypes
<1> QED
  BY <1>1, <1>3 DEF ToSet

(* The texts that Receiver computes once are those of WireFormat.           *)
LEMMA TextsOf ==
  ASSUME NEW m \in Sent
  PROVE  /\ SealedOf[m] = client_encrypt_msg(m)
         /\ EncodedOf[m] = msg_encrypt_encode(m)
         /\ PaddedOf[m] = Padded(m) /\ Padded(m) \in Seq(0..255)
BY SentTypes, PaddedText DEF SealedOf, EncodedOf, PaddedOf

(* The padded texts of a stream.                                            *)
PaddedTexts(s) == [k \in 1..Len(s) |-> PaddedOf[s[k]]]

(* A stream is what its padded texts are put together to.                   *)
LEMMA StreamTexts ==
  ASSUME NEW s \in Streams
  PROVE  /\ StreamOf[s] = FlattenSeq(PaddedTexts(s))
         /\ PaddedTexts(s) \in Seq(Seq(0..255)) /\ Len(PaddedTexts(s)) = Len(s)
         /\ StreamOf[s] \in Seq(0..255)
         /\ \A k \in 1..Len(s) : PaddedTexts(s)[k] = Padded(s[k]) /\ s[k] \in Sent
<1>1. PICK f \in Feeds, h \in Conns : s = f[h]
  BY DEF Streams
<1>2. s \in Seq(Message) /\ \A k \in 1..Len(s) : s[k] \in Sent
  BY <1>1, FeedTypes
<1>3. Len(s) \in Nat
  BY <1>2, Elements
<1>4. \A k \in 1..Len(s) : PaddedTexts(s)[k] = Padded(s[k]) /\ Padded(s[k]) \in Seq(0..255)
  BY <1>2, TextsOf DEF PaddedTexts
<1> DEFINE p == PaddedTexts(s)
           T == Seq(0..255)
<1>5. p \in [1..Len(s) -> T]
  BY <1>4 DEF PaddedTexts
<1> HIDE DEF p, T
<1>6. p \in Seq(T) /\ Len(p) = Len(s)
  BY <1>3, <1>5, Sequence
<1>7. PICK F : Flattens(F, p, 0..255)
  BY <1>6, FlattensExists DEF T
<1>8. FlattenSeq(p) = F[Len(p)]
  BY <1>6, <1>7, FlattenIs DEF T
<1>9. F[Len(p)] \in T
  <2>1. F \in [0..Len(p) -> T]
    BY <1>7 DEF Flattens, T
  <2>2. Len(p) \in 0..Len(p)
    BY <1>3, <1>6
  <2> QED
    BY <2>1, <2>2
<1>10. StreamOf[s] = FlattenSeq(p)
  BY DEF StreamOf, p, PaddedTexts
<1> QED
  BY <1>2, <1>4, <1>6, <1>8, <1>9, <1>10 DEF p, T

(* Where a message that lies whole in a buffer is.                          *)
LEMMA StreamPlaces ==
  ASSUME NEW s \in Streams, NEW k \in 1..Len(s), NEW o,
         o = Len(FlattenSeq([i \in 1..(k - 1) |-> PaddedOf[s[i]]]))
  PROVE  /\ o \in Nat
         /\ o + Len(PaddedOf[s[k]]) <= Len(StreamOf[s])
         /\ \A i \in 1..Len(PaddedOf[s[k]]) : StreamOf[s][o + i] = PaddedOf[s[k]][i]
<1> DEFINE p == PaddedTexts(s)
           T == Seq(0..255)
<1>1. p \in Seq(T) /\ Len(p) = Len(s) /\ StreamOf[s] = FlattenSeq(p)
  BY StreamTexts
<1>2. Len(s) \in Nat
  BY <1>1, Elements
<1>3. PICK F : Flattens(F, p, 0..255)
  BY <1>1, FlattensExists DEF T
<1>4. FlattenSeq(p) = F[Len(p)]
  BY <1>1, <1>3, FlattenIs DEF T
<1>5. k \in 1..Len(p)
  BY <1>1
<1>6. FlattenSeq([i \in 1..(k - 1) |-> p[i]]) = F[k - 1]
  BY <1>1, <1>3, <1>5, FlattensBefore DEF T
<1>7. /\ Len(F[k - 1]) \in Nat
      /\ Len(F[k]) = Len(F[k - 1]) + Len(p[k])
      /\ Len(F[k]) <= Len(F[Len(p)])
      /\ \A i \in 1..Len(p[k]) : F[Len(p)][Len(F[k - 1]) + i] = p[k][i]
  <2>1. PartAt(F, p, k)
    BY <1>1, <1>3, <1>5, FlattensAt DEF T
  <2> QED
    BY <2>1 DEF PartAt
<1>8. \A i \in 1..Len(s) : p[i] = PaddedOf[s[i]]
  BY DEF PaddedTexts
<1>9. [i \in 1..(k - 1) |-> p[i]] = [i \in 1..(k - 1) |-> PaddedOf[s[i]]]
  <2>1. \A i \in 1..(k - 1) : i \in 1..Len(s)
    BY <1>2
  <2> HIDE DEF p
  <2> QED
    BY <1>8, <2>1
<1> HIDE DEF p, T
<1>10. o = Len(F[k - 1])
  BY <1>6, <1>9
<1> QED
  BY <1>1, <1>4, <1>7, <1>8, <1>10

-------------------------------------------------------------------------------
(* The text of a PEERS message.                                             *)

(* What the name server writes of a peer, of all peers, and the text that   *)
(* is left after the last space was cut off.                                *)
PeerEntry(a) == a.ip \o <<Colon>> \o a.port \o <<Space>>
PeerEntries(w) == [k \in 1..Len(w.peers) |-> PeerEntry(w.peers[k])]
TextOf(w) == Front(FlattenSeq(PeerEntries(w)))

(* How much text lies before entry k + 1.                                   *)
Offset(w, k) == Len((CHOOSE F : Flattens(F, PeerEntries(w), 0..255))[k])

(* The places of an address, of its port, and of both.                      *)
Ip(w, k) == [of |-> "name", first |-> Offset(w, k - 1) + 1,
             last |-> Offset(w, k - 1) + Len(w.peers[k].ip)]
Port(w, k) == [of |-> "name", first |-> Ip(w, k).last + 2,
               last |-> Ip(w, k).last + 1 + Len(w.peers[k].port)]
Entry(w, k) == [of |-> "name", first |-> Ip(w, k).first, last |-> Port(w, k).last]

(* t is x, the character c, y, and the character d.                         *)
Spelled(t, x, c, y, d) ==
  /\ Len(t) = Len(x) + 1 + Len(y) + 1
  /\ \A k \in 1..Len(x) : t[k] = x[k]
  /\ t[Len(x) + 1] = c
  /\ \A k \in 1..Len(y) : t[Len(x) + 1 + k] = y[k]
  /\ t[Len(x) + 1 + Len(y) + 1] = d

(* Putting together an entry spells it.                                     *)
LEMMA EntryText ==
  ASSUME NEW S, NEW x \in Seq(S), NEW y \in Seq(S), NEW c \in S, NEW d \in S
  PROVE  /\ x \o <<c>> \o y \o <<d>> \in Seq(S)
         /\ Spelled(x \o <<c>> \o y \o <<d>>, x, c, y, d)
<1> DEFINE u == x \o <<c>>
           v == u \o y
           t == v \o <<d>>
<1>1. u \in Seq(S) /\ Len(u) = Len(x) + 1 /\ Len(x) \in Nat /\ Len(y) \in Nat
  OBVIOUS
<1>2. (\A k \in 1..Len(x) : u[k] = x[k]) /\ u[Len(x) + 1] = c
  OBVIOUS
<1> HIDE DEF u
<1>3. v \in Seq(S) /\ Len(v) = Len(u) + Len(y)
  BY <1>1, Joined
<1>4. /\ \A k \in 1..Len(u) : v[k] = u[k]
      /\ \A k \in 1..Len(y) : v[Len(u) + k] = y[k]
  BY <1>1, JoinedAt
<1> HIDE DEF v
<1>5. t \in Seq(S) /\ Len(t) = Len(v) + 1 /\ t[Len(v) + 1] = d
  BY <1>3
<1>6. \A k \in 1..Len(v) : t[k] = v[k]
  BY <1>3
<1> HIDE DEF t
<1>7. \A k \in 1..Len(x) : k \in 1..Len(u) /\ k \in 1..Len(v)
  BY <1>1, <1>3
<1>8. Len(x) + 1 \in 1..Len(u) /\ Len(x) + 1 \in 1..Len(v)
  BY <1>1, <1>3
<1>9. \A k \in 1..Len(y) : Len(u) + k \in 1..Len(v)
  BY <1>1, <1>3
<1>10. t \in Seq(S) /\ Len(t) = Len(x) + 1 + Len(y) + 1
  BY <1>1, <1>3, <1>5
<1>11. (\A k \in 1..Len(x) : t[k] = x[k]) /\ t[Len(x) + 1] = c
  BY <1>2, <1>4, <1>6, <1>7, <1>8
<1>12. \A k \in 1..Len(y) : t[Len(u) + k] = y[k]
  BY <1>4, <1>6, <1>9
<1>13. t[Len(x) + 1 + Len(y) + 1] = d
  BY <1>1, <1>3, <1>5
<1> QED
  <2>1. \A k \in 1..Len(y) : t[Len(x) + 1 + k] = y[k]
    BY <1>1, <1>12
  <2>2. t \in Seq(S) /\ Spelled(t, x, c, y, d)
    BY <1>10, <1>11, <1>13, <2>1 DEF Spelled
  <2> QED
    BY <2>2 DEF t, v, u

(* What a place holds, and where an entry k of text lies.                   *)
Holds(text, p, chars) ==
  /\ p.first \in Nat /\ p.last \in Nat /\ 0 < p.first /\ p.first <= p.last
  /\ p.last <= Len(text)
  /\ SubSeq(text, p.first, p.last) = chars
  /\ \A i \in p.first..p.last : text[i] \notin {Space, Colon}

(* Entry k lies in the text with its address and port, a colon between them *)
(* and a space or the end of the text behind.                               *)
EntryLies(text, w, k) ==
  /\ Holds(text, Ip(w, k), w.peers[k].ip)
  /\ Holds(text, Port(w, k), w.peers[k].port)
  /\ text[Ip(w, k).last + 1] = Colon
  /\ Offset(w, k) + 1 = Port(w, k).last + 2
  /\ IF k = Len(w.peers) THEN Port(w, k).last = Len(text)
                         ELSE text[Port(w, k).last + 1] = Space

(* A part of a text that is c character by character holds c.               *)
LEMMA HoldsAt ==
  ASSUME NEW text \in Seq(0..255), NEW c \in Plain, NEW o \in Nat,
         o + Len(c) <= Len(text), NEW p, p.first = o + 1, p.last = o + Len(c),
         \A i \in 1..Len(c) : text[o + i] = c[i]
  PROVE  Holds(text, p, c)
<1> DEFINE S == (0..255) \ {Space, Colon}
           n == Len(c)
<1>1. c \in Seq(S) /\ c # <<>>
  BY DEF Plain
<1>2. n \in Nat /\ (\A i \in 1..n : c[i] \in S) /\ n > 0
  <2>1. n \in Nat /\ \A i \in 1..n : c[i] \in S
    BY <1>1, Elements
  <2>2. n # 0
    BY <1>1
  <2> QED
    BY <2>1, <2>2
<1>3. c = [i \in 1..n |-> c[i]]
  <2> HIDE DEF S
  <2> QED
    BY <1>1
<1>4. \A i \in 1..n : c[i] \notin {Space, Colon}
  BY <1>2
<1> HIDE DEF n, S
<1>5. p.first = o + 1 /\ p.last = o + n /\ o + n <= Len(text)
  BY DEF n
<1>6. \A i \in 1..n : text[o + i] = c[i]
  BY DEF n
<1>7. SubSeq(text, p.first, p.last) = c
  <2>1. SubSeq(text, p.first, p.last)
          = [k \in 1..(1 + p.last - p.first) |-> text[k + p.first - 1]]
    <3>1. p.first \in Int /\ p.last \in Int
      BY <1>2, <1>5
    <3> QED
      BY <3>1, SubSeqIs
  <2>2. 1 + p.last - p.first = n /\ \A k \in 1..n : k + p.first - 1 = o + k
    BY <1>2, <1>5
  <2> QED
    BY <1>3, <1>6, <2>1, <2>2
<1>8. ASSUME NEW i \in p.first..p.last PROVE text[i] \notin {Space, Colon}
  <2>1. i - o \in 1..n /\ o + (i - o) = i
    BY <1>2, <1>5
  <2> QED
    BY <1>4, <1>6, <2>1
<1> QED
  BY <1>2, <1>5, <1>7, <1>8 DEF Holds

(* A peer that the name server sends.                                       *)
LEMMA PeerTypes ==
  ASSUME NEW w \in World, NEW k \in 1..Len(w.peers)
  PROVE  /\ Len(w.peers) \in Nat
         /\ w.peers[k].ip \in Plain /\ w.peers[k].port \in Plain
         /\ w.peers[k].ip \in Seq(0..255) /\ w.peers[k].port \in Seq(0..255)
         /\ w.peers[k] = [ip |-> w.peers[k].ip, port |-> w.peers[k].port]
<1> DEFINE P == [ip : Plain, port : Plain]
<1>1. w.peers \in Seq(P)
  BY DEF World
<1>2. Len(w.peers) \in Nat /\ w.peers[k] \in P
  <2> HIDE DEF P
  <2> QED
    BY <1>1, Elements
<1>3. Plain \subseteq Seq(0..255)
  <2> DEFINE S == (0..255) \ {Space, Colon}
             T == 0..255
  <2>1. S \subseteq T
    OBVIOUS
  <2> HIDE DEF S, T
  <2>2. Seq(S) \subseteq Seq(T)
    BY <2>1
  <2> QED
    BY <2>2 DEF Plain, S, T
<1> QED
  BY <1>2, <1>3

(* The first peer of a PEERS message.                                       *)
LEMMA FirstPeer ==
  ASSUME NEW w \in World, w.peers # <<>>
  PROVE  /\ Len(w.peers) \in Nat /\ Len(w.peers) > 0 /\ 1 \in 1..Len(w.peers)
         /\ SubSeq(w.peers, 1, 1 - 1) = <<>>
<1> DEFINE R == [ip : Plain, port : Plain]
<1>1. w.peers \in Seq(R)
  BY DEF World
<1> HIDE DEF R
<1> QED
  BY <1>1

(* The entry of a peer in the text.                                         *)
LEMMA EntryTypes ==
  ASSUME NEW w \in World, NEW k \in 1..Len(w.peers)
  PROVE  /\ PeerEntry(w.peers[k]) \in Seq(0..255)
         /\ Spelled(PeerEntry(w.peers[k]), w.peers[k].ip, Colon, w.peers[k].port, Space)
<1>1. w.peers[k].ip \in Seq(0..255) /\ w.peers[k].port \in Seq(0..255)
  BY PeerTypes
<1>2. Colon \in 0..255 /\ Space \in 0..255
  BY DEF Colon, Space
<1> DEFINE x == w.peers[k].ip
           y == w.peers[k].port
<1>3. PeerEntry(w.peers[k]) = x \o <<Colon>> \o y \o <<Space>>
  BY DEF PeerEntry
<1> HIDE DEF x, y
<1>4. x \in Seq(0..255) /\ y \in Seq(0..255)
  BY <1>1 DEF x, y
<1>5. /\ x \o <<Colon>> \o y \o <<Space>> \in Seq(0..255)
      /\ Spelled(x \o <<Colon>> \o y \o <<Space>>, x, Colon, y, Space)
  BY <1>2, <1>4, EntryText
<1> QED
  BY <1>3, <1>5 DEF x, y

(* A sequence without its last element.                                     *)
LEMMA FrontIs ==
  ASSUME NEW S, NEW s \in Seq(S), Len(s) > 0
  PROVE  /\ Front(s) \in Seq(S) /\ Len(Front(s)) = Len(s) - 1
         /\ \A i \in 1..(Len(s) - 1) : Front(s)[i] = s[i]
<1>1. Len(s) \in Nat /\ \A i \in 1..Len(s) : s[i] \in S
  BY Elements
<1> DEFINE f == [i \in 1..(Len(s) - 1) |-> s[i]]
<1>2. Front(s) = SubSeq(s, 1, Len(s) - 1)
  BY DEF Front
<1>3. SubSeq(s, 1, Len(s) - 1) = f
  BY <1>1
<1>4. f \in [1..(Len(s) - 1) -> S] /\ Len(s) - 1 \in Nat
  BY <1>1
<1>5. \A i \in 1..(Len(s) - 1) : f[i] = s[i]
  OBVIOUS
<1> HIDE DEF f
<1>6. f \in Seq(S) /\ Len(f) = Len(s) - 1
  BY <1>4, Sequence
<1> QED
  BY <1>2, <1>3, <1>5, <1>6

(* Every entry lies in the text of a PEERS message where those before it    *)
(* end.                                                                     *)
LEMMA PeersLie ==
  ASSUME NEW w \in World, NEW k \in 1..Len(w.peers)
  PROVE  /\ TextOf(w) \in Seq(0..255) /\ EntryLies(TextOf(w), w, k)
         /\ Offset(w, 0) = 0 /\ Offset(w, k - 1) \in Nat /\ Offset(w, k) \in Nat
<1> DEFINE n == Len(w.peers)
           e == PeerEntries(w)
           B == 0..255
           F == CHOOSE G : Flattens(G, e, B)
           T == F[n]
           text == TextOf(w)
           a == w.peers[k].ip
           b == w.peers[k].port
           o == Offset(w, k - 1)
<1>1. n \in Nat /\ a \in Plain /\ b \in Plain
  BY PeerTypes
<1>2. a \in Seq(B) /\ b \in Seq(B)
  BY PeerTypes
<1>3. Len(a) \in Nat /\ Len(b) \in Nat
  BY <1>2, Elements
<1>4. e \in Seq(Seq(B)) /\ Len(e) = n
  <2>1. \A j \in 1..n : PeerEntry(w.peers[j]) \in Seq(B)
    BY EntryTypes
  <2> DEFINE R == Seq(B)
  <2>2. e \in [1..n -> R]
    BY <2>1 DEF PeerEntries
  <2> HIDE DEF R, e
  <2>3. e \in Seq(R) /\ Len(e) = n
    BY <1>1, <2>2, Sequence
  <2> QED
    BY <2>3 DEF R
<1>5. Flattens(F, e, B)
  <2> HIDE DEF e, B
  <2>1. \E G : Flattens(G, e, B)
    BY <1>4, FlattensExists
  <2> QED
    BY <2>1
<1>6. FlattenSeq(e) = T
  <2> HIDE DEF F, e, B
  <2> QED
    BY <1>4, <1>5, FlattenIs
<1>7. PartAt(F, e, k)
  <2> HIDE DEF F, e, B
  <2> QED
    BY <1>4, <1>5, FlattensAt
<1>8. \A j : Offset(w, j) = Len(F[j])
  BY DEF Offset
<1>9. e[k] = PeerEntry(w.peers[k])
  BY DEF PeerEntries
<1>10. /\ Len(e[k]) = Len(a) + 1 + Len(b) + 1
       /\ \A i \in 1..Len(a) : e[k][i] = a[i]
       /\ e[k][Len(a) + 1] = Colon
       /\ \A i \in 1..Len(b) : e[k][Len(a) + 1 + i] = b[i]
       /\ e[k][Len(a) + 1 + Len(b) + 1] = Space
  <2>1. Spelled(PeerEntry(w.peers[k]), a, Colon, b, Space)
    BY EntryTypes
  <2> HIDE DEF a, b, e
  <2>2. Spelled(e[k], a, Colon, b, Space)
    BY <1>9, <2>1
  <2> QED
    BY <2>2 DEF Spelled
<1>11. text = Front(T)
  BY <1>6 DEF TextOf
<1> HIDE DEF e, F
<1>12. T \in Seq(B) /\ F[0] = <<>>
  <2>1. n \in 0..n
    BY <1>1
  <2> QED
    BY <1>4, <1>5, <2>1 DEF Flattens
<1> HIDE DEF T
<1>13. /\ o \in Nat
       /\ Offset(w, k) = o + (Len(a) + 1 + Len(b) + 1)
       /\ Offset(w, k) <= Len(T)
       /\ \A i \in 1..(Len(a) + 1 + Len(b) + 1) : T[o + i] = e[k][i]
       /\ k = n => Offset(w, k) = Len(T)
  BY <1>4, <1>7, <1>8, <1>10 DEF PartAt, T
<1> HIDE DEF a, b, o, n, B
<1>14. Len(T) \in Nat /\ Len(T) > 0
  BY <1>3, <1>12, <1>13, Elements
<1>15. /\ text \in Seq(B) /\ Len(text) = Len(T) - 1
       /\ \A i \in 1..(Len(T) - 1) : text[i] = T[i]
  BY <1>11, <1>12, <1>14, FrontIs
<1> HIDE DEF text
<1>16. \A i \in 1..(Len(a) + 1 + Len(b)) : text[o + i] = e[k][i]
  <2> SUFFICES ASSUME NEW i \in 1..(Len(a) + 1 + Len(b)) PROVE text[o + i] = e[k][i]
    OBVIOUS
  <2>1. o + i \in 1..(Len(T) - 1) /\ i \in 1..(Len(a) + 1 + Len(b) + 1)
    BY <1>3, <1>13, <1>14
  <2> QED
    BY <1>13, <1>15, <2>1
<1>17. Holds(text, Ip(w, k), a)
  <2>1. Ip(w, k).first = o + 1 /\ Ip(w, k).last = o + Len(a)
    BY DEF Ip, o, a
  <2>2. ASSUME NEW i \in 1..Len(a) PROVE text[o + i] = a[i]
    <3>1. i \in 1..(Len(a) + 1 + Len(b))
      BY <1>3
    <3> QED
      BY <1>10, <1>16, <3>1 DEF a
  <2>3. o + Len(a) <= Len(text)
    BY <1>3, <1>13, <1>14, <1>15
  <2> HIDE DEF a
  <2> QED
    BY <1>1, <1>13, <1>15, <2>1, <2>2, <2>3, HoldsAt DEF B
<1>18. text[Ip(w, k).last + 1] = Colon
  <2>1. Ip(w, k).last + 1 = o + (Len(a) + 1)
    <3>1. Ip(w, k).last = o + Len(a)
      BY DEF Ip, o, a
    <3>2. o \in Nat /\ Len(a) \in Nat
      BY <1>3, <1>13
    <3> QED
      BY <3>1, <3>2
  <2>2. Len(a) + 1 \in 1..(Len(a) + 1 + Len(b))
    BY <1>3
  <2>3. text[o + (Len(a) + 1)] = e[k][Len(a) + 1]
    BY <1>16, <2>2
  <2>4. e[k][Len(a) + 1] = Colon
    BY <1>10 DEF a
  <2> QED
    BY <2>1, <2>3, <2>4
<1>19. Port(w, k).first = o + (Len(a) + 1) + 1 /\ Port(w, k).last = o + (Len(a) + 1) + Len(b)
  <2>1. Ip(w, k).last = o + Len(a) /\ Port(w, k).first = Ip(w, k).last + 2
        /\ Port(w, k).last = Ip(w, k).last + 1 + Len(b)
    BY DEF Ip, Port, o, a, b
  <2> QED
    BY <1>3, <1>13, <2>1
<1>20. Holds(text, Port(w, k), b)
  <2> DEFINE q == o + (Len(a) + 1)
  <2>1. q \in Nat /\ Port(w, k).first = q + 1 /\ Port(w, k).last = q + Len(b)
    BY <1>3, <1>13, <1>19
  <2>2. ASSUME NEW i \in 1..Len(b) PROVE text[q + i] = b[i]
    <3>1. Len(a) + 1 + i \in 1..(Len(a) + 1 + Len(b))
      BY <1>3
    <3>2. o + (Len(a) + 1 + i) = q + i
      BY <1>3, <1>13
    <3>3. text[o + (Len(a) + 1 + i)] = e[k][Len(a) + 1 + i]
      BY <1>16, <3>1
    <3>4. e[k][Len(a) + 1 + i] = b[i]
      BY <1>10 DEF a, b
    <3> QED
      BY <3>2, <3>3, <3>4
  <2>3. q + Len(b) <= Len(text)
    BY <1>3, <1>13, <1>14, <1>15
  <2> HIDE DEF q
  <2> QED
    BY <1>1, <1>15, <2>1, <2>2, <2>3, HoldsAt DEF B
<1>21. Offset(w, k) + 1 = Port(w, k).last + 2
  BY <1>3, <1>13, <1>19
<1>22. IF k = n THEN Port(w, k).last = Len(text)
              ELSE text[Port(w, k).last + 1] = Space
  <2>1. CASE k = n
    <3>1. Port(w, k).last = Len(text)
      BY <1>3, <1>13, <1>14, <1>15, <1>19, <2>1
    <3> QED
      BY <2>1, <3>1
  <2>2. CASE k # n
    <3>1. Offset(w, k) < Len(T)
      <4> DEFINE j == k + 1
      <4>1. j \in 1..Len(e) /\ j \in 1..n /\ j - 1 = k
        BY <1>1, <1>4, <2>2 DEF n
      <4> HIDE DEF j
      <4>2. PartAt(F, e, j)
        BY <1>4, <1>5, <4>1, FlattensAt DEF B
      <4>3. e[j] = PeerEntry(w.peers[j])
        BY <4>1 DEF e, PeerEntries, n
      <4>4. Len(e[j]) > 0 /\ Len(e[j]) \in Nat
        <5> DEFINE x == w.peers[j].ip
                   y == w.peers[j].port
        <5>1. x \in Seq(0..255) /\ y \in Seq(0..255)
          BY <4>1, PeerTypes DEF n
        <5>2. Spelled(PeerEntry(w.peers[j]), x, Colon, y, Space)
          BY <4>1, EntryTypes DEF n
        <5> HIDE DEF x, y
        <5>3. Len(e[j]) = Len(x) + 1 + Len(y) + 1
          BY <4>3, <5>2 DEF Spelled
        <5>4. Len(x) \in Nat /\ Len(y) \in Nat
          BY <5>1, Elements
        <5> QED
          BY <5>3, <5>4
      <4>5. Len(F[j]) = Len(F[k]) + Len(e[j]) /\ Len(F[j]) <= Len(F[Len(e)])
            /\ Len(F[k]) \in Nat
        BY <4>1, <4>2 DEF PartAt
      <4>6. Offset(w, k) = Len(F[k])
        BY <1>8
      <4>7. Len(F[Len(e)]) = Len(T)
        BY <1>4 DEF T
      <4> DEFINE p == Len(F[k])
                 q == Len(F[j])
                 r == Len(e[j])
                 t == Len(T)
      <4>8. p \in Nat /\ r \in Nat /\ r > 0 /\ t \in Nat /\ q = p + r /\ q <= t
        BY <1>14, <4>4, <4>5, <4>7
      <4>9. Offset(w, k) = p
        BY <4>6
      <4> HIDE DEF p, q, r, t
      <4>10. p < t
        BY <4>8
      <4> QED
        BY <4>9, <4>10 DEF t
    <3>2. /\ Port(w, k).last + 1 = o + (Len(a) + 1 + Len(b) + 1)
          /\ Port(w, k).last + 1 \in 1..(Len(T) - 1)
          /\ Len(a) + 1 + Len(b) + 1 \in 1..(Len(a) + 1 + Len(b) + 1)
      BY <1>3, <1>13, <1>14, <1>19, <3>1
    <3>3. e[k][Len(a) + 1 + Len(b) + 1] = Space
      BY <1>10 DEF a, b
    <3>4. text[Port(w, k).last + 1] = Space
      BY <1>13, <1>15, <3>2, <3>3
    <3> QED
      BY <2>2, <3>4
  <2> QED
    BY <2>1, <2>2
<1>23. Offset(w, 0) = 0
  BY <1>8, <1>12
<1>24. EntryLies(text, w, k)
  BY <1>17, <1>18, <1>20, <1>21, <1>22 DEF EntryLies, a, b, n
<1> QED
  BY <1>3, <1>13, <1>15, <1>23, <1>24 DEF text, B, o

(* What strtok finds in the text, from where the thread that parses it calls *)
(* it.                                                                      *)
Found(text, from, to, delim, p) ==
  strtok(text, from, to, delim) = [first |-> p.first, last |-> p.last]

(* strtok_r finds entry k from where entry k - 1 ends.                      *)
LEMMA EntryFound ==
  ASSUME NEW w \in World, NEW k \in 1..Len(w.peers)
  PROVE  Found(TextOf(w), Offset(w, k - 1) + 1, Len(TextOf(w)), Space, Entry(w, k))
<1> DEFINE text == TextOf(w)
           n == Len(text)
           f == Ip(w, k).first
           i1 == Ip(w, k).last
           p0 == Port(w, k).first
           l == Port(w, k).last
<1>1. EntryLies(text, w, k) /\ text \in Seq(0..255)
  BY PeersLie
<1>2. n \in Nat
  BY <1>1, Elements
<1>3. f \in Nat /\ i1 \in Nat /\ p0 \in Nat /\ l \in Nat
      /\ 0 < f /\ f <= i1 /\ p0 <= l /\ l <= n
      /\ (\A i \in f..i1 : text[i] \notin {Space, Colon})
      /\ (\A i \in p0..l : text[i] \notin {Space, Colon})
      /\ text[i1 + 1] = Colon
  BY <1>1 DEF EntryLies, Holds
<1>4. p0 = i1 + 2 /\ f = Offset(w, k - 1) + 1
  BY DEF Port, Ip
<1>5. l = n \/ text[l + 1] = Space
  BY <1>1 DEF EntryLies
<1>6. Entry(w, k).first = f /\ Entry(w, k).last = l
  BY DEF Entry
<1> HIDE DEF text, n, f, i1, p0, l
<1>7. ASSUME NEW i \in f..l PROVE text[i] # Space
  <2>1. CASE i \in f..i1
    BY <1>3, <2>1
  <2>2. CASE i = i1 + 1
    BY <1>3, <2>2 DEF Space, Colon
  <2>3. CASE i \in p0..l
    BY <1>3, <2>3
  <2> QED
    BY <1>3, <1>4, <2>1, <2>2, <2>3
<1>8. f <= l
  BY <1>3, <1>4
<1>9. strtok(text, f, n, Space) = [first |-> f, last |-> l]
  <2>1. Stands(text, f, l, n, Space)
    BY <1>2, <1>3, <1>5, <1>7, <1>8 DEF Stands
  <2> QED
    BY <2>1, StrtokFinds
<1> QED
  BY <1>4, <1>6, <1>9 DEF Found, text, n

(* strtok finds nothing from behind the end of a text.                      *)
LEMMA NoEntry ==
  ASSUME NEW text \in Seq(0..255), NEW from \in Nat, from > Len(text), NEW delim
  PROVE  strtok(text, from, Len(text), delim).first = 0
<1>1. Len(text) \in Nat
  BY Elements
<1>2. \A i \in from..Len(text) : text[i] = delim
  BY <1>1
<1>3. strtok(text, from, Len(text), delim) = [first |-> 0, last |-> Len(text)]
  BY <1>1, <1>2, StrtokNone
<1> QED
  BY <1>3

(* strtok finds the word p that ends at a colon or at the end.              *)
LEMMA WordFound ==
  ASSUME NEW text, NEW p, NEW c, Holds(text, p, c), NEW to \in Nat,
         p.last <= to, p.last = to \/ text[p.last + 1] = Colon
  PROVE  Found(text, p.first, to, Colon, p)
<1> DEFINE f == p.first
           l == p.last
<1>1. f \in Nat /\ l \in Nat /\ 0 < f /\ f <= l /\ (\A i \in f..l : text[i] # Colon)
  BY DEF Holds
<1>2. Stands(text, f, l, to, Colon)
  BY <1>1, Zenon DEF Stands
<1>3. strtok(text, f, to, Colon) = [first |-> f, last |-> l]
  BY <1>2, StrtokFinds
<1> QED
  BY <1>3, Zenon DEF Found

(* strtok finds the address of an entry whether or not the entry was cut    *)
(* behind it, then its port; and the address of the first entry also in the *)
(* whole text.                                                              *)
LEMMA WordsFound ==
  ASSUME NEW w \in World, NEW k \in 1..Len(w.peers)
  PROVE  /\ Found(TextOf(w), Ip(w, k).first, Entry(w, k).last, Colon, Ip(w, k))
         /\ Found(TextOf(w), Ip(w, k).first, Ip(w, k).last, Colon, Ip(w, k))
         /\ Found(TextOf(w), Port(w, k).first, Port(w, k).last, Colon, Port(w, k))
         /\ k = 1 => Found(TextOf(w), 1, Len(TextOf(w)), Colon, Ip(w, k))
<1> DEFINE text == TextOf(w)
           a == w.peers[k].ip
           b == w.peers[k].port
           ip == Ip(w, k)
           port == Port(w, k)
<1>1. EntryLies(text, w, k) /\ text \in Seq(0..255) /\ Offset(w, 0) = 0
  BY PeersLie
<1>2. /\ Holds(text, ip, a) /\ Holds(text, port, b) /\ text[ip.last + 1] = Colon
  BY <1>1 DEF EntryLies
<1>3. /\ Entry(w, k).last = port.last /\ port.first = ip.last + 2
      /\ ip.first = Offset(w, k - 1) + 1
  BY DEF Entry, Port, Ip
<1>4. Len(text) \in Nat
  BY <1>1, Elements
<1>5. k = 1 => ip.first = 1
  BY <1>1, <1>3
<1> HIDE DEF text, ip, port, a, b
<1>6. /\ ip.last \in Nat /\ port.last \in Nat /\ ip.last <= port.last
      /\ ip.last <= Len(text)
  BY <1>2, <1>3 DEF Holds
<1>7. Found(text, ip.first, port.last, Colon, ip)
  BY <1>2, <1>6, WordFound
<1>8. Found(text, ip.first, ip.last, Colon, ip)
  BY <1>2, <1>6, WordFound
<1>9. Found(text, port.first, port.last, Colon, port)
  BY <1>2, <1>6, WordFound
<1>10. Found(text, ip.first, Len(text), Colon, ip)
  BY <1>2, <1>4, <1>6, WordFound
<1> QED
  BY <1>3, <1>5, <1>7, <1>8, <1>9, <1>10 DEF text, ip, port

-------------------------------------------------------------------------------
(* The feed never changes.                                                  *)
FeedInv == feed \in Feeds /\ world \in World

(* The world and the messages in the beginning.                             *)
LEMMA FeedInit == Init => FeedInv
<1> SUFFICES ASSUME Init PROVE FeedInv
  OBVIOUS
<1>1. world \in World
  BY LifeAssumption DEF Init
<1>2. world.feed \in Feeds
  BY <1>1 DEF World
<1> QED
  BY <1>1, <1>2 DEF Init, ReceiverInit, FeedInv

(* No step changes the world or the messages.                               *)
LEMMA FeedKept == [Next]_vars => feed' = feed /\ world' = world
BY DEF Next, vars, others, hvars, uvars, nvars, mvars, Main, load_public_keys, load_private_key,
       init_server, connect_to_name_server, update_port, Join, Listen, Accept, name_server_handle,
       RecvPeers, RecvError, RecvEndOfServer, ParseIp, ParsePort, ParseNext, NsEnds, input_handle,
       Handler, client_handle, Recv, RecvEnd, FirstField, NextField, TakeField, OpenInit,
       OpenUpdate, OpenFinal, UseCleanedUp

(* What the outside does is one of the worlds, and the feed is that         *)
(* world's.                                                                 *)
THEOREM FeedAlways == Spec => []FeedInv
<1>1. FeedInv /\ [Next]_vars => FeedInv'
  BY FeedKept DEF FeedInv
<1> QED
  BY <1>1, FeedInit, PTL DEF Spec

(* The messages of the feed.                                                *)
LEMMA FeedMessages ==
  ASSUME FeedInv, NEW m \in InFeed
  PROVE  m \in Sent /\ m \in Message
<1>1. PICK h \in Conns : m \in ToSet(feed[h])
  BY DEF InFeed
<1> QED
  BY <1>1, FeedTypes, SentTypes DEF FeedInv

(* What parse_encrypted_msg_str writes past the end of its buffer, and      *)
(* when: for every message on any connection.                               *)
THEOREM AlwaysFits == Spec => []EncodedFits
<1>1. FeedInv => EncodedFits
  <2> SUFFICES ASSUME FeedInv, NEW m \in InFeed
               PROVE  Len(EncodedOf[m]) < encoded_len(SealedOf[m])
                        <=> Len(SealedOf[m].msg) % 3 # 0
    BY DEF EncodedFits
  <2>1. m \in Sent /\ m \in Message
    BY FeedMessages
  <2>2. EncodedOf[m] = msg_encrypt_encode(m) /\ SealedOf[m] = client_encrypt_msg(m)
    BY <2>1, TextsOf
  <2>3. Len(msg_encrypt_encode(m)) < encoded_len(client_encrypt_msg(m))
          <=> Len(client_encrypt_msg(m).msg) % 3 # 0
    BY <2>1, EncodingFits
  <2> QED
    BY <2>2, <2>3, Zenon
<1> QED
  BY <1>1, FeedAlways, PTL

(* All texts up to LongestText look alike on their way, and no others: with *)
(* the sizes of the program, for every message.                             *)
THEOREM AlwaysAlike ==
  ASSUME ProgramSizes
  PROVE  Spec => []AllAlike
<1>1. FeedInv => AllAlike
  <2> SUFFICES ASSUME FeedInv, NEW m \in InFeed
               PROVE  (m.len <= LongestText) <=>
                        (/\ Len(PaddedOf[m]) = MESSAGE_LENGTH
                         /\ IsStrictPrefix(EncodedOf[m], PaddedOf[m]))
    BY DEF AllAlike
  <2>1. m \in Sent /\ m \in Message
    BY FeedMessages
  <2>2. EncodedOf[m] = msg_encrypt_encode(m) /\ PaddedOf[m] = Padded(m)
    BY <2>1, TextsOf
  <2>3. (/\ Len(Padded(m)) = MESSAGE_LENGTH
         /\ IsStrictPrefix(msg_encrypt_encode(m), Padded(m)))
          <=> EncodingLength(m.len) < MESSAGE_LENGTH
    BY <2>1, PaddedText
  <2>4. m.len \in Nat
    BY <2>1 DEF Message
  <2>5. (m.len <= LongestText) <=> EncodingLength(m.len) < MESSAGE_LENGTH
    BY <2>4, LongestFits
  <2> QED
    BY <2>2, <2>3, <2>5, Zenon
<1> QED
  BY <1>1, FeedAlways, PTL

-------------------------------------------------------------------------------
(* The table of public keys.                                                *)

(* The entries of all key files.                                            *)
AllKeys == UNION {{key_hash_add(b, s) : s \in KeyFiles(b)} : b \in Blocks}

(* The table has none of them, or all.                                      *)
KeyInv == table = IF main = "load" THEN {} ELSE AllKeys

(* The table in the beginning.                                              *)
LEMMA KeyInit == Init => KeyInv
BY DEF Init, KeyInv

(* Only load_public_keys changes the table.                                 *)
LEMMA KeyKept == KeyInv /\ [Next]_vars => KeyInv'
<1> SUFFICES ASSUME KeyInv, [Next]_vars PROVE KeyInv'
  OBVIOUS
<1>1. world' = world
  BY FeedKept
<1>2. AllKeys' = AllKeys
  BY <1>1 DEF AllKeys, KeyFiles, Blocks, key_hash_add
<1>3. CASE load_public_keys
  BY <1>2, <1>3 DEF load_public_keys, KeyInv, AllKeys
<1>4. CASE Next /\ ~ load_public_keys
  <2>1. table' = table /\ (main' = main \/ (main # "load" /\ main' # "load"))
    BY <1>4 DEF Next, Main, load_private_key, init_server, connect_to_name_server,
       update_port, Join, Listen, Accept, name_server_handle, RecvPeers, RecvError,
       RecvEndOfServer, ParseIp, ParsePort, ParseNext, NsEnds, input_handle, Handler, mvars
  <2> QED
    BY <1>2, <2>1 DEF KeyInv
<1>5. CASE UNCHANGED vars
  BY <1>2, <1>5 DEF KeyInv, vars, mvars
<1> QED
  BY <1>3, <1>4, <1>5

(* key_get_by_name gives no alias the key of another, whatever blocks       *)
(* readdir returns the directory in (key_hash_add keeps pointers into       *)
(* them); and it finds every alias of a directory of one block.             *)
THEOREM AlwaysOwn == Spec => []KeysAreOwn
<1>1. FeedInv /\ KeyInv => KeysAreOwn
  <2> SUFFICES ASSUME FeedInv, KeyInv, NEW b \in Blocks, NEW s \in KeyFiles(b)
               PROVE  LET name == world.dir[b][s].name IN
                      /\ key_get_by_name(name) \subseteq {name}
                      /\ Len(world.dir) = 1 /\ main \notin {"load"}
                           => key_get_by_name(name) = {name}
    BY DEF KeysAreOwn
  <2> DEFINE name == world.dir[b][s].name
  <2>1. table \subseteq AllKeys
    BY DEF KeyInv
  <2>2. \A e \in AllKeys : e.key = e.hash
    BY DEF AllKeys, key_hash_add
  <2>3. key_get_by_name(name) \subseteq {name}
    BY <2>1, <2>2 DEF key_get_by_name
  <2>4. ASSUME Len(world.dir) = 1, main # "load" PROVE name \in key_get_by_name(name)
    <3>1. Blocks = {1} /\ b = 1
      BY <2>4 DEF Blocks
    <3>2. s \in 1..Len(world.dir[b])
      BY DEF KeyFiles
    <3>3. world.dir[b] \in Seq(File)
      <4> DEFINE R == Seq(File)
      <4>1. world.dir \in Seq(R)
        BY DEF FeedInv, World
      <4> HIDE DEF R
      <4>2. world.dir[b] \in R
        BY <4>1 DEF Blocks
      <4> QED
        BY <4>2 DEF R
    <3>4. Len(world.dir[b]) \in Nat
      BY <3>3
    <3>5. {c \in Blocks : s <= Len(world.dir[c])} = {1}
      BY <3>1, <3>2, <3>4
    <3>6. Max({1}) = 1
      BY DEF Max
    <3>7. d_name(s) = name
      BY <3>1, <3>5, <3>6 DEF d_name
    <3>8. table = AllKeys
      BY <2>4 DEF KeyInv
    <3>9. key_hash_add(b, s) \in table
      BY <3>8 DEF AllKeys
    <3> HIDE DEF name
    <3>10. /\ key_hash_add(b, s).key = name /\ key_hash_add(b, s).hash = name
           /\ key_hash_add(b, s).at = s
      BY DEF key_hash_add, name
    <3> QED
      BY <3>7, <3>9, <3>10 DEF key_get_by_name
  <2> QED
    BY <2>3, <2>4
<1>2. KeyInv /\ [Next]_vars => KeyInv'
  BY KeyKept
<1> QED
  BY <1>1, <1>2, KeyInit, FeedAlways, PTL DEF Spec
-------------------------------------------------------------------------------
(* What the threads share.                                                  *)

(* Where a handler is between its first strtok and its last use of the      *)
(* context.                                                                 *)
Using == {"key", "iv", "init", "update", "final"}
(* Two threads that use what is shared at the same time are both noted;     *)
(* whoever is between its first strtok and its last use is busy.            *)
BusyInv ==
  /\ \A t, u \in busy : t # u => t \in mixed
  /\ \A h \in Conns : hpc[h] \in Using => h \in busy
  /\ npc \in {"port", "next"} => "name" \in busy
  /\ npc \in {"none", "recv", "done"} => "name" \notin busy

(* A place in the text of a thread.                                         *)
InText(p) ==
  /\ p \in Place
  /\ 0 < p.first /\ p.last <= Len(Text(p.of))

(* The text of peers is that of the world, buffers lie in their streams,    *)
(* and strtok goes on within a text.                                        *)
PlaceInv ==
  /\ peers_msg # <<>> => world.peers # <<>> /\ peers_msg = TextOf(world)
  /\ \A h \in Conns : /\ chunk[h] \in [first : Nat, last : Nat]
                      /\ 0 < chunk[h].first /\ chunk[h].last <= Len(Text(h))
  /\ InText(static)

-------------------------------------------------------------------------------
(* Where the thread that parses the peers is: at entry k of the text.       *)
AtEntry(k) ==
  /\ save_ptr \in {Offset(world, k) + 1, Len(peers_msg) + 1}
  /\ npc = "ip" => entry \in {Entry(world, k), Ip(world, k)}
  /\ npc \in {"port", "next"} => entry = Ip(world, k) /\ found[1] = Ip(world, k)
  /\ npc = "port" => found = <<Ip(world, k)>>
  /\ npc = "next" => Len(found) = 2 /\ InText(found[2])

(* It has parsed all entries before k, and goes on with this one.           *)
OnTheWay(k) ==
  /\ save_ptr = Offset(world, k) + 1
  /\ peer_list = SubSeq(world.peers, 1, k - 1)
  /\ npc = "ip" => entry = Entry(world, k)
  /\ npc = "port" => static = Port(world, k)
  /\ npc = "next" => found[2] = Port(world, k)

(* It was led to an entry whose port is cut off.                            *)
Stuck(k) ==
  /\ nsconn = "reset" /\ npc \in {"ip", "port"}
  /\ npc = "ip" => entry = Ip(world, k)
  /\ npc = "port" => static.first > static.last

(* No other thread has used strtok since it began.                          *)
Untouched == "name" \notin mixed \/ (npc = "ip" /\ "name" \notin busy)

(* The name server thread is at an entry of the text; while no other thread *)
(* has used strtok it has parsed all entries before, or an error of recv    *)
(* has led it to an entry that was cut.                                     *)
NameInv ==
  /\ main \in {"load", "private", "server", "connect"} => npc = "none"
  /\ npc = "none" => peers_msg = <<>>
  /\ npc \in {"ip", "port", "next"} =>
       /\ peers_msg # <<>>
       /\ \E k \in 1..Len(world.peers) :
            AtEntry(k) /\ (Untouched => OnTheWay(k) \/ Stuck(k))
  /\ AloneParses

(* How many fields a handler has taken.                                     *)
FieldInv ==
  \A h \in Conns :
    /\ hpc[h] = "key" => Len(fields[h]) = 1
    /\ hpc[h] = "iv" => Len(fields[h]) = 2
    /\ hpc[h] \in {"init", "update", "final"} => Len(fields[h]) = 3

(* The inductive invariant.                                                 *)
IInv == FeedInv /\ TypeOK /\ BusyInv /\ PlaceInv /\ FieldInv /\ NameInv

-------------------------------------------------------------------------------
(* The first part of BusyInv.                                               *)
Overlaps == \A t, u \in busy : t # u => t \in mixed

(* A thread that begins to use what is shared is noted with the others.     *)
LEMMA EnterNotes ==
  ASSUME Overlaps, NEW t, Enter(t)
  PROVE  Overlaps' /\ busy' = busy \union {t}
BY DEF Overlaps, Enter

(* A thread that ends its use leaves the others noted.                      *)
LEMMA LeaveNotes ==
  ASSUME Overlaps, NEW t, Leave(t)
  PROVE  Overlaps' /\ busy' = busy \ {t} /\ mixed' = mixed
BY DEF Overlaps, Leave

(* A step of a handler keeps BusyInv.                                       *)
LEMMA HandlerBusy ==
  ASSUME TypeOK, BusyInv, NEW h \in Conns, Handler(h)
  PROVE  BusyInv'
<1>1. /\ "name" # h /\ npc' = npc /\ Overlaps
      /\ hpc \in [Conns -> {"none", "recv", "msg", "key", "iv", "init", "update", "final", "done"}]
  BY ReceiverAssumption DEF Handler, nvars, BusyInv, Overlaps, TypeOK, ReceiverTypeOK
<1> USE DEF Using
<1>2. CASE Recv(h) \/ RecvEnd(h) \/ NextField(h) \/ OpenUpdate(h) \/ UseCleanedUp(h)
  BY <1>1, <1>2 DEF Recv, RecvEnd, NextField, TakeField, OpenUpdate, UseCleanedUp, uvars, hvars,
     Goto, BusyInv
<1>3. CASE FirstField(h)
  <2>1. Overlaps' /\ busy' = busy \union {h}
    BY <1>1, <1>3, EnterNotes DEF FirstField
  <2>2. \A g \in Conns : g # h => hpc'[g] = hpc[g]
    BY <1>1, <1>3 DEF FirstField, TakeField, Goto
  <2> QED
    BY <1>1, <2>1, <2>2 DEF BusyInv, Overlaps
<1>4. CASE OpenInit(h) \/ OpenFinal(h)
  <2>1. PICK r : Return(h, r) \/ (Goto(h, "update") /\ UNCHANGED uvars /\ hpc[h] = "init")
    BY <1>4 DEF OpenInit, OpenFinal
  <2>2. CASE Return(h, r)
    <3>1. Overlaps' /\ busy' = busy \ {h} /\ hpc' = [hpc EXCEPT ![h] = "recv"]
      BY <1>1, <2>2, LeaveNotes DEF Return, Goto
    <3> QED
      BY <1>1, <3>1 DEF BusyInv, Overlaps
  <2>3. CASE Goto(h, "update") /\ UNCHANGED uvars /\ hpc[h] = "init"
    BY <1>1, <2>3 DEF BusyInv, uvars, Goto
  <2> QED
    BY <2>1, <2>2, <2>3
<1> QED
  BY <1>2, <1>3, <1>4 DEF Handler, client_handle

(* A step of the name server thread keeps BusyInv.                          *)
LEMMA NameBusy ==
  ASSUME TypeOK, BusyInv, name_server_handle
  PROVE  BusyInv'
<1>1. hpc' = hpc /\ Overlaps
  BY DEF name_server_handle, RecvPeers, RecvError, RecvEndOfServer, ParseIp, ParsePort, ParseNext,
     others, hvars, BusyInv, Overlaps
<1>2. CASE RecvError \/ RecvEndOfServer \/ ParsePort
  BY <1>1, <1>2 DEF RecvError, RecvEndOfServer, ParsePort, others, uvars, BusyInv
<1>3. CASE ParseIp
  <2>1. Overlaps' /\ busy' = busy \union {"name"} /\ npc' = "port"
    BY <1>1, <1>3, EnterNotes DEF ParseIp
  <2> QED
    BY <1>1, <2>1 DEF BusyInv, Overlaps
<1>4. CASE RecvPeers \/ ParseNext
  <2>1. PICK text, from : NextEntry(text, from)
    BY <1>4 DEF RecvPeers, ParseNext
  <2>2. CASE npc' = "recv" /\ Leave("name")
    <3>1. Overlaps' /\ busy' = busy \ {"name"}
      BY <1>1, <2>2, LeaveNotes
    <3>2. "name" \notin Conns
      BY ReceiverAssumption
    <3> QED
      BY <1>1, <2>2, <3>1, <3>2 DEF BusyInv, Overlaps
  <2>3. CASE npc' = "ip" /\ UNCHANGED uvars
    BY <1>1, <2>3 DEF BusyInv, uvars
  <2> QED
    BY <2>1, <2>2, <2>3 DEF NextEntry
<1> QED
  BY <1>2, <1>3, <1>4 DEF name_server_handle

(* Every step keeps BusyInv.                                                *)
LEMMA BusyKept == IInv /\ [Next]_vars => BusyInv'
<1> SUFFICES ASSUME IInv, [Next]_vars PROVE BusyInv'
  OBVIOUS
<1> USE DEF IInv
<1>1. CASE \E h \in Conns : Handler(h)
  BY <1>1, HandlerBusy
<1>2. CASE name_server_handle
  BY <1>2, NameBusy
<1>3. CASE \E h \in Conns : Accept(h)
  <2>1. PICK h \in Conns : Accept(h)
    BY <1>3
  <2>2. hpc \in [Conns -> {"none", "recv", "msg", "key", "iv", "init", "update", "final", "done"}]
    BY DEF TypeOK, ReceiverTypeOK
  <2> QED
    BY <2>1, <2>2 DEF Accept, Goto, BusyInv, Using, uvars, nvars
<1>4. CASE connect_to_name_server
  BY <1>4 DEF connect_to_name_server, others, hvars, uvars, BusyInv, NameInv
<1>5. CASE load_public_keys \/ load_private_key \/ init_server \/ update_port \/ Join
           \/ Listen \/ NsEnds \/ input_handle \/ UNCHANGED vars
  BY <1>5 DEF load_public_keys, load_private_key, init_server, update_port, Join, Listen, NsEnds,
     input_handle, vars, others, hvars, uvars, nvars, BusyInv
<1> QED
  BY <1>1, <1>2, <1>3, <1>4, <1>5 DEF Next, Main

-------------------------------------------------------------------------------
(* Places.                                                                  *)

(* The texts of the threads.                                                *)
LEMMA TextTypes ==
  ASSUME FeedInv, TypeOK
  PROVE  \A t \in Threads : Text(t) \in Seq(0..255) /\ Len(Text(t)) \in Nat
<1> SUFFICES ASSUME NEW t \in Threads PROVE Text(t) \in Seq(0..255)
  BY Elements
<1>1. CASE t = "name"
  BY <1>1 DEF Text, TypeOK, ReceiverTypeOK
<1>2. CASE t # "name"
  <2>1. t \in Conns
    BY <1>2 DEF Threads
  <2>2. StreamOf[feed[t]] \in Seq(0..255)
    BY <2>1, FeedTypes, StreamTexts DEF FeedInv
  <2> QED
    BY <1>2, <2>2 DEF Text
<1> QED
  BY <1>1, <1>2

(* Only the arrival of a PEERS message changes a text.                      *)
LEMMA TextsStay ==
  ASSUME [Next]_vars
  PROVE  /\ \A t \in Threads : t # "name" => Text(t)' = Text(t)
         /\ RecvPeers \/ (peers_msg' = peers_msg /\ \A t \in Threads : Text(t)' = Text(t))
<1>1. feed' = feed
  BY FeedKept
<1>2. RecvPeers \/ peers_msg' = peers_msg
  BY DEF Next, vars, others, hvars, uvars, nvars, mvars, Main, load_public_keys, load_private_key,
         init_server, connect_to_name_server, update_port, Join, Listen, Accept,
         name_server_handle, RecvError, RecvEndOfServer, ParseIp, ParsePort, ParseNext, NsEnds,
         input_handle, Handler, client_handle, Recv, RecvEnd, FirstField, NextField, TakeField,
         OpenInit, OpenUpdate, OpenFinal, UseCleanedUp
<1> QED
  BY <1>1, <1>2 DEF Text

(* A place in a text stays one.                                             *)
LEMMA PlacesStay ==
  ASSUME FeedInv, TypeOK, [Next]_vars, NEW p, InText(p)
  PROVE  InText(p)'
<1>1. p \in Place /\ 0 < p.first /\ p.last <= Len(Text(p.of)) /\ p.of \in Threads /\ p.last \in Nat
  BY DEF InText, Place
<1>2. CASE Text(p.of)' = Text(p.of)
  BY <1>1, <1>2 DEF InText
<1>3. CASE Text(p.of)' # Text(p.of)
  <2>1. p.of = "name" /\ RecvPeers
    BY <1>1, <1>3, TextsStay
  <2>2. peers_msg = <<>>
    BY <2>1 DEF RecvPeers
  <2>3. p.last = 0
    BY <1>1, <2>1, <2>2 DEF Text
  <2>4. world \in World /\ world.peers # <<>> /\ peers_msg' = PeersText
    BY <2>1 DEF RecvPeers, FeedInv
  <2>5. PeersText \in Seq(0..255)
    <3>1. PeersText = TextOf(world)
      BY DEF PeersText, TextOf, PeerEntries, PeerEntry
    <3>2. 1 \in 1..Len(world.peers)
      BY <2>4, FirstPeer
    <3> QED
      BY <2>4, <3>1, <3>2, PeersLie
  <2>6. Len(Text(p.of)') \in Nat
    <3>1. Text(p.of)' = PeersText
      BY <2>1, <2>4 DEF Text
    <3> QED
      BY <2>5, <3>1, Elements
  <2>7. p.last <= Len(Text(p.of)')
    BY <2>3, <2>6
  <2> QED
    BY <1>1, <2>7 DEF InText
<1> QED
  BY <1>2, <1>3

(* A word, and what is left of the part it was looked for in.               *)
LEMMA WordInText ==
  ASSUME NEW p, InText(p), NEW delim, NEW w, w = strtok(Text(p.of), p.first, p.last, delim),
         FeedInv, TypeOK
  PROVE  w.first # 0 => InText(Word(p.of, w)) /\ InText(Rest(p.of, w, p.last))
<1>1. p \in Place /\ 0 < p.first /\ p.last <= Len(Text(p.of)) /\ p.of \in Threads
      /\ p.last \in Nat /\ p.first \in Nat /\ Len(Text(p.of)) \in Nat
  BY TextTypes DEF InText, Place
<1>2. /\ w \in [first : Nat, last : Nat] /\ w.last <= p.last
      /\ w.first # 0 => p.first <= w.first
  BY <1>1, StrtokWithin
<1> DEFINE q == Word(p.of, w)
           r == Rest(p.of, w, p.last)
<1>3. q \in Place /\ q.first = w.first /\ q.last = w.last /\ q.of = p.of
  BY <1>1, <1>2 DEF Word, Place
<1>4. r \in Place /\ r.first = w.last + 2 /\ r.last = p.last /\ r.of = p.of
  BY <1>1, <1>2 DEF Rest, Place
<1> HIDE DEF q, r
<1>5. ASSUME w.first # 0 PROVE InText(q) /\ InText(r)
  BY <1>1, <1>2, <1>3, <1>4, <1>5 DEF InText
<1> QED
  BY <1>5 DEF q, r

(* What taking a field does: none is taken, or q is appended to those       *)
(* before; either way strtok goes on within a text.                         *)
FieldStep(h, before, label) ==
  /\ InText(static')
  /\ \/ fields' = fields /\ hpc' = hpc
     \/ \E q : /\ InText(q) /\ fields' = [fields EXCEPT ![h] = Append(before, q)]
               /\ hpc' = [hpc EXCEPT ![h] = label]

(* parse_str_encrypted_msg takes a field as FieldStep says.                 *)
LEMMA FieldTaken ==
  ASSUME FeedInv, TypeOK, InText(static),
         NEW h, NEW before, NEW t, NEW first, NEW last, NEW label,
         InText([of |-> t, first |-> first, last |-> last]),
         TakeField(h, before, t, first, last, label)
  PROVE  FieldStep(h, before, label)
<1> DEFINE p == [of |-> t, first |-> first, last |-> last]
           w == strtok(Text(t), first, last, Space)
<1>1. w.first # 0 => InText(Word(t, w)) /\ InText(Rest(t, w, last))
  <2>1. p.of = t /\ p.first = first /\ p.last = last /\ InText(p)
    OBVIOUS
  <2> HIDE DEF p
  <2>2. w = strtok(Text(p.of), p.first, p.last, Space)
    BY <2>1
  <2> HIDE DEF w
  <2> QED
    BY <2>1, <2>2, WordInText
<1>2. \/ static' = static /\ fields' = fields /\ hpc' = hpc
      \/ /\ w.first # 0 /\ static' = Rest(t, w, last)
         /\ fields' = [fields EXCEPT ![h] = Append(before, Word(t, w))]
         /\ hpc' = [hpc EXCEPT ![h] = label]
  BY DEF TakeField, Goto
<1> HIDE DEF w
<1> QED
  BY <1>1, <1>2 DEF FieldStep

(* The text, once a PEERS message has come.                                 *)
LEMMA PeersText1 ==
  ASSUME FeedInv, PlaceInv, peers_msg # <<>>
  PROVE  peers_msg = TextOf(world) /\ world \in World /\ Text("name") = TextOf(world)
BY DEF PlaceInv, FeedInv, Text

(* Entry k of the text.                                                     *)
LEMMA EntryInText ==
  ASSUME FeedInv, PlaceInv, peers_msg # <<>>, NEW k \in 1..Len(world.peers)
  PROVE  /\ InText(Ip(world, k)) /\ InText(Port(world, k)) /\ InText(Entry(world, k))
         /\ EntryLies(peers_msg, world, k)
<1> DEFINE ip == Ip(world, k)
           port == Port(world, k)
           e == Entry(world, k)
           n == Len(Text("name"))
<1>1. EntryLies(TextOf(world), world, k) /\ peers_msg = TextOf(world)
      /\ Text("name") = TextOf(world)
  BY PeersText1, PeersLie
<1>2. /\ ip.first \in Nat /\ ip.last \in Nat /\ 0 < ip.first /\ ip.first <= ip.last /\ ip.last <= n
      /\ port.first \in Nat /\ port.last \in Nat /\ 0 < port.first /\ port.last <= n
  BY <1>1 DEF EntryLies, Holds
<1>3. /\ ip = [of |-> "name", first |-> ip.first, last |-> ip.last]
      /\ port = [of |-> "name", first |-> port.first, last |-> port.last]
      /\ e = [of |-> "name", first |-> ip.first, last |-> port.last]
  BY DEF Ip, Port, Entry
<1>4. "name" \in Threads
  BY DEF Threads
<1> HIDE DEF ip, port, e, n
<1>5. ip \in Place /\ port \in Place /\ e \in Place
  BY <1>2, <1>3, <1>4 DEF Place
<1>6. /\ ip.of = "name" /\ port.of = "name" /\ e.of = "name"
      /\ e.first = ip.first /\ e.last = port.last
  BY <1>3
<1>7. InText(ip) /\ InText(port) /\ InText(e)
  BY <1>2, <1>5, <1>6 DEF InText, n
<1> QED
  BY <1>1, <1>7 DEF ip, port, e

(* ParseIp takes the address of the entry it is at.                         *)
LEMMA IpTaken ==
  ASSUME IInv, ParseIp, NEW k \in 1..Len(world.peers), AtEntry(k)
  PROVE  /\ found' = <<Ip(world, k)>> /\ entry' = Ip(world, k)
         /\ static' = [of |-> "name", first |-> Ip(world, k).last + 2, last |-> entry.last]
         /\ InText(static') /\ peers_msg # <<>>
<1> DEFINE ip == Ip(world, k)
           w == strtok(peers_msg, entry.first, entry.last, Colon)
<1>1. npc = "ip" /\ peers_msg # <<>> /\ entry \in {Entry(world, k), ip}
  BY DEF ParseIp, IInv, NameInv, AtEntry
<1>2. peers_msg = TextOf(world) /\ world \in World
  BY <1>1, PeersText1 DEF IInv
<1>3. InText(ip) /\ InText(Port(world, k)) /\ InText(Entry(world, k))
  BY <1>1, EntryInText DEF IInv
<1>4. entry.first = ip.first /\ Entry(world, k).first = ip.first
  BY <1>1 DEF Entry
<1>5. Found(peers_msg, entry.first, entry.last, Colon, ip)
  BY <1>1, <1>2, <1>4, WordsFound
<1>6. w = [first |-> ip.first, last |-> ip.last]
  BY <1>5 DEF Found
<1>7. ip = [of |-> "name", first |-> ip.first, last |-> ip.last]
  BY DEF Ip
<1>8. found' = <<Word("name", w)>> /\ entry' = Word("name", w)
      /\ static' = Rest("name", w, entry.last)
  BY DEF ParseIp
<1>9. entry.last \in Nat /\ entry.last <= Len(Text("name")) /\ ip.last \in Nat
  <2>1. ip \in Place /\ entry \in Place
    BY <1>1, <1>3 DEF InText
  <2>2. InText(entry) /\ entry.of = "name"
    BY <1>1, <1>3, <1>7 DEF Entry
  <2> QED
    BY <2>1, <2>2 DEF InText, Place
<1> HIDE DEF w, ip
<1>10. Word("name", w) = ip
  BY <1>6, <1>7 DEF Word
<1>11. static' = [of |-> "name", first |-> ip.last + 2, last |-> entry.last]
  BY <1>6, <1>8 DEF Rest
<1>12. InText([of |-> "name", first |-> ip.last + 2, last |-> entry.last])
  BY <1>9 DEF InText, Place, Threads
<1> QED
  BY <1>1, <1>8, <1>10, <1>11, <1>12 DEF ip

(* What strtok(NULL, delim) finds lies in a text, and it goes on within it. *)
LEMMA StaticTaken ==
  ASSUME FeedInv, TypeOK, InText(static), NEW delim
  PROVE  NextWord(delim).first # 0 =>
           /\ InText(Word(static.of, NextWord(delim)))
           /\ InText(Rest(static.of, NextWord(delim), static.last))
<1> DEFINE w == NextWord(delim)
<1>1. w = strtok(Text(static.of), static.first, static.last, delim)
  BY DEF NextWord
<1> HIDE DEF w
<1>2. w.first # 0 => InText(Word(static.of, w)) /\ InText(Rest(static.of, w, static.last))
  BY <1>1, WordInText
<1> QED
  BY <1>2 DEF w

(* What was taken before, and where the handler is after the next word.     *)
Takes(h, before, label) ==
  \/ hpc[h] = "msg" /\ before = <<>> /\ label = "key"
  \/ hpc[h] = "key" /\ before = fields[h] /\ label = "iv"
  \/ hpc[h] = "iv" /\ before = fields[h] /\ label = "init"

(* The first and the next fields are taken as FieldStep says.               *)
LEMMA FieldsTaken ==
  ASSUME IInv, NEW h \in Conns, FirstField(h) \/ NextField(h)
  PROVE  \E before, label : Takes(h, before, label) /\ FieldStep(h, before, label)
<1>1. InText(static) /\ FeedInv /\ TypeOK
  BY DEF PlaceInv, IInv
<1>2. \E before, t, first, last, label :
        /\ InText([of |-> t, first |-> first, last |-> last])
        /\ Takes(h, before, label) /\ TakeField(h, before, t, first, last, label)
  <2>1. CASE FirstField(h)
    <3>1. chunk[h].first \in Nat /\ chunk[h].last \in Nat /\ 0 < chunk[h].first
          /\ chunk[h].last <= Len(Text(h)) /\ h \in Threads
      BY DEF IInv, PlaceInv, Threads
    <3>2. InText([of |-> h, first |-> chunk[h].first, last |-> chunk[h].last])
      BY <3>1 DEF InText, Place
    <3>3. /\ TakeField(h, <<>>, h, chunk[h].first, chunk[h].last, "key")
          /\ Takes(h, <<>>, "key")
      BY <2>1 DEF FirstField, Takes
    <3> QED
      BY <3>2, <3>3
  <2>2. CASE NextField(h)
    <3>1. PICK label \in {"iv", "init"} :
            /\ Takes(h, fields[h], label)
            /\ TakeField(h, fields[h], static.of, static.first, static.last, label)
      BY <2>2 DEF NextField, Takes
    <3>2. static = [of |-> static.of, first |-> static.first, last |-> static.last]
      BY <1>1 DEF TypeOK, ReceiverTypeOK, Place
    <3>3. InText([of |-> static.of, first |-> static.first, last |-> static.last])
      BY <1>1, <3>2
    <3> QED
      BY <3>1, <3>3
  <2> QED
    BY <2>1, <2>2
<1>3. PICK before, t, first, last, label :
        /\ InText([of |-> t, first |-> first, last |-> last])
        /\ Takes(h, before, label) /\ TakeField(h, before, t, first, last, label)
  BY <1>2
<1>4. FieldStep(h, before, label)
  BY <1>1, <1>3, FieldTaken
<1> QED
  BY <1>3, <1>4

(* strtok always goes on within a text.                                     *)
LEMMA StaticKept ==
  ASSUME IInv, [Next]_vars
  PROVE  InText(static')
<1> USE DEF IInv
<1>1. InText(static)
  BY DEF PlaceInv
<1>2. CASE \E h \in Conns : FirstField(h) \/ NextField(h)
  BY <1>2, FieldsTaken DEF FieldStep
<1>3. CASE ParseIp
  <2>1. \E k \in 1..Len(world.peers) : AtEntry(k)
    BY <1>3 DEF ParseIp, NameInv
  <2> QED
    BY <1>3, <2>1, IpTaken
<1>4. CASE ParsePort \/ ParseNext
  <2>1. PICK delim : static' = static
          \/ (NextWord(delim).first # 0 /\ static' = Rest(static.of, NextWord(delim), static.last))
    BY <1>4 DEF ParsePort, ParseNext
  <2> QED
    BY <1>1, <2>1, StaticTaken
<1>5. CASE ~ (\E h \in Conns : FirstField(h) \/ NextField(h)) /\ ~ ParseIp /\ ~ ParsePort
           /\ ~ ParseNext
  <2>1. static' = static
    BY <1>5 DEF Next, vars, others, Main, load_public_keys, load_private_key,
         init_server, connect_to_name_server, update_port, Join, Listen, Accept,
         name_server_handle, RecvPeers, RecvError, RecvEndOfServer, NsEnds,
         input_handle, Handler, client_handle, Recv, RecvEnd,
         OpenInit, OpenUpdate, OpenFinal, UseCleanedUp
  <2> QED
    BY <1>1, <2>1
<1> QED
  BY <1>2, <1>3, <1>4, <1>5

(* The buffers always lie in their streams.                                 *)
LEMMA ChunksKept ==
  ASSUME IInv, [Next]_vars
  PROVE  \A h \in Conns : /\ chunk'[h] \in [first : Nat, last : Nat]
                          /\ 0 < chunk'[h].first /\ chunk'[h].last <= Len(Text(h))
<1>1. /\ chunk \in [Conns -> [first : Nat, last : Nat]]
      /\ \A h \in Conns : 0 < chunk[h].first /\ chunk[h].last <= Len(Text(h))
  BY DEF IInv, PlaceInv, TypeOK, ReceiverTypeOK
<1>2. CASE \E h \in Conns : Recv(h)
  <2>1. PICK h \in Conns : Recv(h)
    BY <1>2
  <2>2. PICK n : /\ n \in 1..BUFFER_SIZE /\ chunk[h].last + n <= Len(Text(h))
                 /\ chunk' = [chunk EXCEPT ![h] = [first |-> @.last + 1, last |-> @.last + n]]
    BY <2>1 DEF Recv
  <2>3. BUFFER_SIZE \in Nat /\ n \in Nat
    BY <2>2, ReceiverAssumption
  <2>4. chunk[h].last \in Nat
    BY <1>1
  <2>5. chunk'[h] = [first |-> chunk[h].last + 1, last |-> chunk[h].last + n]
    BY <1>1, <2>2
  <2>6. \A g \in Conns \ {h} : chunk'[g] = chunk[g]
    BY <1>1, <2>2
  <2> QED
    BY <1>1, <2>2, <2>3, <2>4, <2>5, <2>6
<1>3. CASE ~ (\E h \in Conns : Recv(h))
  <2>1. chunk' = chunk
    BY <1>3 DEF Next, vars, others, hvars, Main, load_public_keys, load_private_key,
         init_server, connect_to_name_server, update_port, Join, Listen, Accept,
         name_server_handle, RecvPeers, RecvError, RecvEndOfServer, ParseIp, ParsePort, ParseNext,
         NsEnds, input_handle, Handler, client_handle, RecvEnd, FirstField, NextField, TakeField,
         OpenInit, OpenUpdate, OpenFinal, UseCleanedUp
  <2> QED
    BY <1>1, <2>1
<1> QED
  BY <1>2, <1>3

(* Every step keeps PlaceInv.                                               *)
LEMMA PlaceKept == IInv /\ [Next]_vars => PlaceInv'
<1> SUFFICES ASSUME IInv, [Next]_vars PROVE PlaceInv'
  OBVIOUS
<1>1. FeedInv /\ TypeOK /\ PlaceInv
  BY DEF IInv
<1>2. InText(static)'
  <2>1. InText(static')
    BY StaticKept
  <2>2. ASSUME NEW p, InText(p), p = static' PROVE InText(static)'
    <3>1. InText(p)'
      BY <1>1, <2>2, PlacesStay
    <3> QED
      BY <2>2, <3>1 DEF InText, Text
  <2> QED
    BY <2>1, <2>2
<1>3. \A h \in Conns : Text(h)' = Text(h)
  <2>1. \A h \in Conns : h \in Threads /\ h # "name"
    BY ReceiverAssumption DEF Threads
  <2> QED
    BY <2>1, TextsStay
<1>4. (\A h \in Conns : /\ chunk[h] \in [first : Nat, last : Nat]
                         /\ 0 < chunk[h].first /\ chunk[h].last <= Len(Text(h)))'
  BY <1>3, ChunksKept
<1>5. (peers_msg # <<>> => world.peers # <<>> /\ peers_msg = TextOf(world))'
  <2>1. world' = world
    BY FeedKept
  <2>2. CASE RecvPeers
    <3>1. PeersText = TextOf(world)
      BY DEF PeersText, TextOf, PeerEntries, PeerEntry
    <3>2. world.peers # <<>> /\ peers_msg' = PeersText
      BY <2>2 DEF RecvPeers
    <3> QED
      BY <2>1, <3>1, <3>2
  <2>3. CASE ~ RecvPeers
    <3>1. peers_msg' = peers_msg
      BY <2>3, TextsStay
    <3> QED
      BY <1>1, <2>1, <3>1 DEF PlaceInv
  <2> QED
    BY <2>2, <2>3
<1> QED
  BY <1>2, <1>4, <1>5 DEF PlaceInv

-------------------------------------------------------------------------------
(* The fields, and where the handlers are.                                  *)

(* Where a handler can be.                                                  *)
Labels == {"none", "recv", "msg", "key", "iv", "init", "update", "final", "done"}

(* A handler that takes no field only goes on; what it has taken stays.     *)
Moves(h, from, to) == hpc[h] \in from /\ \E l \in to : hpc' = [hpc EXCEPT ![h] = l]

(* Where the steps lead a handler that takes no field.                      *)
LEMMA StepsOf ==
  ASSUME [Next]_vars
  PROVE  \/ \E h \in Conns : FirstField(h) \/ NextField(h)
         \/ /\ fields' = fields
            /\ \/ hpc' = hpc
               \/ \E h \in Conns :
                    Moves(h, {"none", "recv", "init", "final"}, {"recv", "msg", "done"})
                      \/ Moves(h, {"init"}, {"update"}) \/ Moves(h, {"update"}, {"final"})
<1> USE DEF Moves, Goto
<1>1. CASE \E h \in Conns : Handler(h)
  <2>1. PICK h \in Conns : Handler(h)
    BY <1>1
  <2>2. CASE FirstField(h) \/ NextField(h)
    BY <2>2
  <2>3. CASE Recv(h) \/ RecvEnd(h)
    BY <2>3 DEF Recv, RecvEnd
  <2>4. CASE OpenInit(h)
    BY <2>4 DEF OpenInit, Return
  <2>5. CASE OpenUpdate(h)
    BY <2>5 DEF OpenUpdate
  <2>6. CASE OpenFinal(h)
    BY <2>6 DEF OpenFinal, Return
  <2>7. CASE UseCleanedUp(h)
    BY <2>7 DEF UseCleanedUp, hvars
  <2> QED
    BY <2>1, <2>2, <2>3, <2>4, <2>5, <2>6, <2>7 DEF Handler, client_handle
<1>2. CASE \E h \in Conns : Accept(h)
  BY <1>2 DEF Accept
<1>3. CASE Main \/ Listen \/ name_server_handle \/ NsEnds \/ input_handle \/ UNCHANGED vars
  BY <1>3 DEF Main, load_public_keys, load_private_key, init_server, connect_to_name_server,
     update_port, Join, Listen, NsEnds, input_handle, vars, others, hvars, name_server_handle,
     RecvPeers, RecvError, RecvEndOfServer, ParseIp, ParsePort, ParseNext
<1> QED
  BY <1>1, <1>2, <1>3 DEF Next

(* Every step keeps FieldInv and the types of fields and hpc.               *)
LEMMA FieldsKept ==
  ASSUME IInv, [Next]_vars
  PROVE  /\ FieldInv' /\ fields' \in [Conns -> Seq(Place)] /\ hpc' \in [Conns -> Labels]
<1>1. fields \in [Conns -> Seq(Place)] /\ hpc \in [Conns -> Labels] /\ FieldInv
  BY DEF IInv, TypeOK, ReceiverTypeOK, Labels
<1>2. ASSUME NEW h \in Conns, FirstField(h) \/ NextField(h)
      PROVE  FieldInv' /\ fields' \in [Conns -> Seq(Place)] /\ hpc' \in [Conns -> Labels]
  <2>1. PICK before, label : Takes(h, before, label) /\ FieldStep(h, before, label)
    BY <1>2, FieldsTaken
  <2>2. CASE fields' = fields /\ hpc' = hpc
    BY <1>1, <2>2 DEF FieldInv
  <2>3. ASSUME NEW q, InText(q), fields' = [fields EXCEPT ![h] = Append(before, q)],
               hpc' = [hpc EXCEPT ![h] = label]
        PROVE  FieldInv' /\ fields' \in [Conns -> Seq(Place)] /\ hpc' \in [Conns -> Labels]
    <3>1. q \in Place
      BY <2>3 DEF InText
    <3> DEFINE S == Seq(Place)
    <3>2. /\ before \in S /\ label \in Labels
          /\ \/ label = "key" /\ Len(before) = 0
             \/ label = "iv" /\ Len(before) = 1
             \/ label = "init" /\ Len(before) = 2
      <4>1. <<>> \in Seq(Place) /\ Len(<<>>) = 0
        OBVIOUS
      <4>2. fields[h] \in S
        BY <1>1
      <4> HIDE DEF S
      <4>3. hpc[h] = "msg" /\ before = <<>> /\ label = "key" => before \in S /\ Len(before) = 0
        BY <4>1 DEF S
      <4> QED
        BY <1>1, <2>1, <4>2, <4>3 DEF Takes, Labels, FieldInv
    <3>3. Append(before, q) \in S /\ Len(Append(before, q)) = Len(before) + 1
      BY <3>1, <3>2
    <3>7. \/ label = "key" /\ Len(Append(before, q)) = 1
          \/ label = "iv" /\ Len(Append(before, q)) = 2
          \/ label = "init" /\ Len(Append(before, q)) = 3
      <4> DEFINE x == Len(before)
                 y == Len(Append(before, q))
      <4>1. y = x + 1 /\ (\/ label = "key" /\ x = 0
                          \/ label = "iv" /\ x = 1
                          \/ label = "init" /\ x = 2)
        BY <3>2, <3>3
      <4> HIDE DEF x, y
      <4>2. \/ label = "key" /\ y = 1
            \/ label = "iv" /\ y = 2
            \/ label = "init" /\ y = 3
        BY <4>1
      <4> QED
        BY <4>2 DEF y
    <3>4. /\ fields'[h] = Append(before, q) /\ hpc'[h] = label
          /\ \A g \in Conns : g # h => fields'[g] = fields[g] /\ hpc'[g] = hpc[g]
      BY <1>1, <2>3
    <3> HIDE DEF S
    <3>5. fields' \in [Conns -> S] /\ hpc' \in [Conns -> Labels]
      BY <1>1, <2>3, <3>2, <3>3 DEF S
    <3>6. FieldInv'
      <4> SUFFICES ASSUME NEW g \in Conns
                   PROVE  /\ hpc'[g] = "key" => Len(fields'[g]) = 1
                          /\ hpc'[g] = "iv" => Len(fields'[g]) = 2
                          /\ hpc'[g] \in {"init", "update", "final"} => Len(fields'[g]) = 3
        BY DEF FieldInv
      <4>1. CASE g = h
        BY <3>4, <3>7, <4>1
      <4>2. CASE g # h
        BY <1>1, <3>4, <4>2 DEF FieldInv
      <4> QED
        BY <4>1, <4>2
    <3> QED
      BY <3>5, <3>6 DEF S
  <2> QED
    BY <2>1, <2>2, <2>3 DEF FieldStep
<1>3. ASSUME fields' = fields, hpc' = hpc
      PROVE  FieldInv' /\ fields' \in [Conns -> Seq(Place)] /\ hpc' \in [Conns -> Labels]
  BY <1>1, <1>3 DEF FieldInv
<1>4. ASSUME fields' = fields, NEW h \in Conns,
             Moves(h, {"none", "recv", "init", "final"}, {"recv", "msg", "done"})
               \/ Moves(h, {"init"}, {"update"}) \/ Moves(h, {"update"}, {"final"})
      PROVE  FieldInv' /\ fields' \in [Conns -> Seq(Place)] /\ hpc' \in [Conns -> Labels]
  BY <1>1, <1>4 DEF FieldInv, Moves, Labels
<1> QED
  BY <1>2, <1>3, <1>4, StepsOf

(* What decoding gives, and the context.                                    *)
Contexts == [cipher : BOOLEAN, key : Sent \union {NoMsg}, ivRight : BOOLEAN, fed : Seq(Place)]

(* Every step keeps the types of outcome and ctx: whatever a handler takes  *)
(* out of the shared context, it is a message or nothing.                   *)
LEMMA OutcomesKept ==
  ASSUME IInv, [Next]_vars
  PROVE  outcome' \in [Conns -> Sent \union {NoMsg, Garbage}] /\ ctx' \in Contexts
<1>1. /\ outcome \in [Conns -> Sent \union {NoMsg, Garbage}] /\ ctx \in Contexts
      /\ fields \in [Conns -> Seq(Place)]
  BY DEF IInv, TypeOK, ReceiverTypeOK, Contexts
<1>2. ASSUME NEW h \in Conns, OpenInit(h)
      PROVE  outcome' \in [Conns -> Sent \union {NoMsg, Garbage}] /\ ctx' \in Contexts
  <2>1. CASE ctx' = [cipher |-> TRUE, key |-> NoMsg, ivRight |-> FALSE, fed |-> <<>>]
             /\ Return(h, NoMsg)
    BY <1>1, <2>1 DEF Contexts, Return
  <2>2. ASSUME NEW m \in InFeed,
               ctx' = [cipher |-> TRUE, key |-> m, fed |-> <<>>,
                       ivRight |-> Bytes(fields[h][3]) = SealedOf[m].iv],
               outcome' = outcome
        PROVE  outcome' \in [Conns -> Sent \union {NoMsg, Garbage}] /\ ctx' \in Contexts
    <3>1. m \in Sent
      BY FeedMessages DEF IInv
    <3>2. (Bytes(fields[h][3]) = SealedOf[m].iv) \in BOOLEAN
      BY Zenon
    <3> DEFINE v == Bytes(fields[h][3]) = SealedOf[m].iv
    <3>3. ctx' = [cipher |-> TRUE, key |-> m, fed |-> <<>>, ivRight |-> v] /\ v \in BOOLEAN
      BY <2>2, <3>2
    <3> HIDE DEF v
    <3>4. ctx' \in Contexts
      BY <3>1, <3>3 DEF Contexts
    <3> QED
      BY <1>1, <2>2, <3>4
  <2> QED
    BY <1>2, <2>1, <2>2 DEF OpenInit, Unwrapped
<1>3. ASSUME NEW h \in Conns, OpenUpdate(h)
      PROVE  outcome' \in [Conns -> Sent \union {NoMsg, Garbage}] /\ ctx' \in Contexts
  <2>1. fields[h][1] \in Place
    <3>1. Len(fields[h]) = 3 /\ fields[h] \in Seq(Place)
      BY <1>1, <1>3 DEF OpenUpdate, IInv, FieldInv
    <3> QED
      BY <3>1
  <2>2. ctx' = [ctx EXCEPT !.fed = Append(@, fields[h][1])] /\ outcome' = outcome
    BY <1>3 DEF OpenUpdate
  <2> DEFINE q == fields[h][1]
  <2> HIDE DEF q
  <2>3. Append(ctx.fed, q) \in Seq(Place)
    BY <1>1, <2>1 DEF Contexts, q
  <2> QED
    BY <1>1, <2>2, <2>3 DEF Contexts, q
<1>4. ASSUME NEW h \in Conns, OpenFinal(h)
      PROVE  outcome' \in [Conns -> Sent \union {NoMsg, Garbage}] /\ ctx' \in Contexts
  <2>1. PICK result \in (IF Intact(fields[h][1]) THEN {ctx.key} ELSE {NoMsg, Garbage}) :
          Return(h, result) /\ ctx' = IF result = NoMsg THEN ctx ELSE CleanedUp
    BY <1>4 DEF OpenFinal
  <2>2. result \in Sent \union {NoMsg, Garbage}
    BY <1>1, <2>1 DEF Contexts
  <2>3. CleanedUp \in Contexts
    BY DEF CleanedUp, Contexts
  <2> QED
    BY <1>1, <2>1, <2>2, <2>3 DEF Return
<1>5. CASE ~ (\E h \in Conns : OpenInit(h) \/ OpenUpdate(h) \/ OpenFinal(h))
  <2>1. outcome' = outcome /\ ctx' = ctx
    BY <1>5 DEF Next, vars, others, hvars, Main, load_public_keys, load_private_key,
         init_server, connect_to_name_server, update_port, Join, Listen, Accept,
         name_server_handle, RecvPeers, RecvError, RecvEndOfServer, ParseIp, ParsePort, ParseNext,
         NsEnds, input_handle, Handler, client_handle, Recv, RecvEnd, FirstField, NextField,
         TakeField, UseCleanedUp
  <2> QED
    BY <1>1, <2>1
<1> QED
  BY <1>2, <1>3, <1>4, <1>5

-------------------------------------------------------------------------------
(* The thread that parses the peers.                                        *)

(* Where main is before there is a name server thread.                      *)
Early == {"load", "private", "server", "connect"}

(* Steps of other threads.                                                  *)
LEMMA NameFrame ==
  ASSUME IInv, [Next]_vars, UNCHANGED <<nvars, peers_msg>>,
         nsconn = "reset" => nsconn' = "reset",
         main' \in Early => main \in Early,
         Untouched' => Untouched /\ (npc = "port" => static' = static),
         npc = "recv" /\ "name" \notin mixed' => "name" \notin mixed
  PROVE  NameInv'
<1>1. world' = world /\ NameInv /\ FeedInv /\ TypeOK
  BY FeedKept DEF IInv
<1>3. /\ npc' = npc /\ entry' = entry /\ save_ptr' = save_ptr /\ found' = found
      /\ peer_list' = peer_list /\ peers_msg' = peers_msg
  BY DEF nvars
<1>4. \A k : AtEntry(k) => AtEntry(k)'
  <2>1. npc = "next" /\ InText(found[2]) => InText(found[2])'
    <3>1. ASSUME NEW q, q = found[2], InText(q) PROVE InText(found[2])'
      <4>1. InText(q)'
        BY <1>1, <3>1, PlacesStay
      <4> QED
        BY <1>3, <3>1, <4>1 DEF InText, Text
    <3> QED
      BY <3>1
  <2> QED
    BY <1>1, <1>3, <2>1 DEF AtEntry
<1>5. \A k : (npc = "port" => static' = static) /\ OnTheWay(k) => OnTheWay(k)'
  BY <1>1, <1>3 DEF OnTheWay
<1>6. \A k : (npc = "port" => static' = static) /\ Stuck(k) => Stuck(k)'
  BY <1>1, <1>3 DEF Stuck
<1>7. npc \in {"ip", "port", "next"} =>
        /\ peers_msg # <<>>
        /\ \E k \in 1..Len(world.peers) :
             AtEntry(k)' /\ (Untouched' => OnTheWay(k)' \/ Stuck(k)')
  BY <1>1, <1>4, <1>5, <1>6 DEF NameInv
<1>8. AloneParses'
  BY <1>1, <1>3 DEF NameInv, AloneParses
<1> QED
  BY <1>1, <1>3, <1>7, <1>8 DEF NameInv, Early

(* A step of a handler keeps NameInv: where it uses strtok between two      *)
(* calls of the name server thread, that thread is noted.                   *)
LEMMA HandlerName ==
  ASSUME IInv, NEW h \in Conns, Handler(h), [Next]_vars
  PROVE  NameInv'
<1>1. UNCHANGED <<nvars, peers_msg, nsconn, main>> /\ h # "name"
  BY ReceiverAssumption DEF Handler, mvars, client_handle, Recv, RecvEnd, FirstField, NextField,
     TakeField, OpenInit, OpenUpdate, OpenFinal, UseCleanedUp
<1>2. npc' = npc /\ BusyInv
  BY <1>1 DEF nvars, IInv
<1>3. CASE Recv(h) \/ RecvEnd(h) \/ OpenUpdate(h) \/ UseCleanedUp(h)
  <2>1. UNCHANGED <<static, uvars>>
    BY <1>3 DEF Recv, RecvEnd, OpenUpdate, UseCleanedUp
  <2> QED
    BY <1>1, <1>2, <2>1, NameFrame DEF uvars, Untouched
<1>4. CASE OpenInit(h) \/ OpenFinal(h)
  <2>1. static' = static /\ mixed' = mixed /\ ("name" \in busy => "name" \in busy')
    BY <1>1, <1>4 DEF OpenInit, OpenFinal, Return, Leave, uvars
  <2> QED
    BY <1>1, <1>2, <2>1, NameFrame DEF Untouched
<1>5. CASE FirstField(h)
  <2>1. Enter(h)
    BY <1>5 DEF FirstField
  <2>2. "name" \in mixed => "name" \in mixed'
    BY <1>1, <2>1 DEF Enter
  <2>3. "name" \in busy => "name" \in busy' /\ "name" \in mixed'
    BY <1>1, <2>1 DEF Enter
  <2>4. npc = "port" => "name" \in busy
    BY <1>2 DEF BusyInv
  <2> QED
    BY <1>1, <1>2, <2>2, <2>3, <2>4, NameFrame DEF Untouched
<1>6. CASE NextField(h)
  <2>1. UNCHANGED uvars /\ h \in busy
    BY <1>2, <1>6 DEF NextField, BusyInv, Using
  <2>2. npc = "port" => "name" \in mixed
    BY <1>1, <1>2, <2>1 DEF BusyInv
  <2> QED
    BY <1>1, <1>2, <2>1, <2>2, NameFrame DEF Untouched, uvars
<1> QED
  BY <1>3, <1>4, <1>5, <1>6 DEF Handler, client_handle

(* The steps of main, of the listening thread, of the user and of the name  *)
(* server keep NameInv.                                                     *)
LEMMA OthersName ==
  ASSUME IInv, [Next]_vars,
         ~ (\E h \in Conns : Handler(h)), ~ name_server_handle
  PROVE  NameInv'
<1>1. CASE connect_to_name_server
  <2>1. npc = "none" /\ peers_msg = <<>> /\ peers_msg' = <<>>
    BY <1>1 DEF connect_to_name_server, IInv, NameInv, others
  <2> QED
    BY <1>1, <2>1 DEF connect_to_name_server, NameInv, AloneParses
<1>2. CASE ~ connect_to_name_server
  <2>1. /\ UNCHANGED <<nvars, peers_msg, static, uvars>>
        /\ nsconn = "reset" => nsconn' = "reset"
        /\ main' \in Early => main \in Early
    BY <1>2 DEF Next, vars, others, Main, load_public_keys, load_private_key,
       init_server, update_port, Join, Listen, Accept, NsEnds, input_handle, mvars, Early
  <2> QED
    BY <2>1, NameFrame DEF Untouched, nvars, uvars
<1> QED
  BY <1>1, <1>2

(* What strtok_r finds of the text, from where entry k + 1 is looked for.   *)
LEMMA NextFound ==
  ASSUME FeedInv, PlaceInv, peers_msg # <<>>,
         NEW k \in 0..Len(world.peers), NEW from,
         \/ from = Offset(world, k) + 1
         \/ from = Len(peers_msg) + 1 /\ k > 0,
         NextEntry(peers_msg, from)
  PROVE  \/ /\ npc' = "recv" /\ Leave("name")
            /\ from = Offset(world, k) + 1 => k = Len(world.peers)
         \/ /\ npc' = "ip" /\ k + 1 \in 1..Len(world.peers)
            /\ entry' = Entry(world, k + 1) /\ save_ptr' = Offset(world, k + 1) + 1
            /\ UNCHANGED uvars
<1> DEFINE text == TextOf(world)
           n == Len(world.peers)
           w == strtok(text, from, Len(text), Space)
<1>1. peers_msg = text /\ world \in World /\ world.peers # <<>> /\ n \in Nat /\ n > 0
  <2>1. world \in World /\ world.peers # <<>>
    BY DEF PlaceInv, FeedInv
  <2>2. n \in Nat /\ n > 0
    BY <2>1, FirstPeer
  <2> QED
    BY <2>1, <2>2, PeersText1
<1>2. text \in Seq(0..255)
  <2>1. 1 \in 1..n
    BY <1>1
  <2> QED
    BY <1>1, <2>1, PeersLie
<1>3. Len(text) \in Nat
  BY <1>2, Elements
<1>4. \/ w.first = 0 /\ npc' = "recv" /\ Leave("name")
      \/ /\ w.first # 0 /\ npc' = "ip" /\ entry' = Word("name", w) /\ save_ptr' = w.last + 2
         /\ UNCHANGED uvars
  BY <1>1 DEF NextEntry
<1>5. CASE k < n /\ from = Offset(world, k) + 1
  <2> DEFINE j == k + 1
  <2>1. j \in 1..n /\ j - 1 = k /\ j \in 1..Len(world.peers)
    BY <1>1, <1>5
  <2>2. k + 1 = j
    OBVIOUS
  <2> HIDE DEF j, n, text
  <2>3. Found(text, Offset(world, j - 1) + 1, Len(text), Space, Entry(world, j))
    BY <1>1, <2>1, EntryFound DEF text
  <2>4. EntryLies(text, world, j)
    BY <1>1, <2>1, PeersLie DEF text
  <2>5. w = [first |-> Entry(world, j).first, last |-> Entry(world, j).last]
    BY <1>5, <2>1, <2>3 DEF Found
  <2>6. /\ Entry(world, j) = [of |-> "name", first |-> Entry(world, j).first,
                              last |-> Entry(world, j).last]
        /\ Entry(world, j).first = Ip(world, j).first
        /\ Entry(world, j).last = Port(world, j).last
    BY DEF Entry
  <2>7. Ip(world, j).first # 0 /\ Offset(world, j) + 1 = Port(world, j).last + 2
    <3>1. /\ Holds(text, Ip(world, j), world.peers[j].ip)
          /\ Offset(world, j) + 1 = Port(world, j).last + 2
      BY <2>4 DEF EntryLies
    <3> QED
      BY <3>1 DEF Holds
  <2>8. w.first # 0 /\ Word("name", w) = Entry(world, j) /\ w.last + 2 = Offset(world, j) + 1
    BY <2>5, <2>6, <2>7 DEF Word
  <2> QED
    BY <1>4, <2>1, <2>2, <2>8 DEF n
<1>6. CASE ~ (k < n /\ from = Offset(world, k) + 1)
  <2>1. from \in Nat /\ from > Len(text)
    <3>1. CASE from = Len(text) + 1
      BY <1>3, <3>1
    <3>2. CASE k = n /\ from = Offset(world, n) + 1
      <4>1. n \in 1..Len(world.peers)
        BY <1>1
      <4>2. EntryLies(text, world, n) /\ Offset(world, n) \in Nat
        BY <1>1, <4>1, PeersLie
      <4>3. Offset(world, n) + 1 = Port(world, n).last + 2 /\ Port(world, n).last = Len(text)
        BY <4>2 DEF EntryLies
      <4> HIDE DEF n, text
      <4> QED
        BY <1>3, <3>2, <4>2, <4>3
    <3> QED
      BY <1>1, <1>6, <3>1, <3>2
  <2>2. w.first = 0
    BY <1>2, <2>1, NoEntry
  <2>3. from = Offset(world, k) + 1 => k = Len(world.peers)
    BY <1>1, <1>6
  <2> QED
    BY <1>4, <2>2, <2>3
<1> QED
  BY <1>5, <1>6

(* RecvPeers keeps NameInv: the first entry is found.                       *)
LEMMA RecvPeersName ==
  ASSUME IInv, RecvPeers, world' = world
  PROVE  NameInv'
<1>1. /\ peers_msg' = PeersText /\ world.peers # <<>> /\ world \in World /\ main' = main
      /\ peer_list' = <<>> /\ found' = <<>> /\ NextEntry(PeersText, 1) /\ npc # "none"
  BY DEF RecvPeers, IInv, FeedInv, mvars
<1>2. PeersText = TextOf(world)
  BY DEF PeersText, TextOf, PeerEntries, PeerEntry
<1> DEFINE text == TextOf(world)
           n == Len(world.peers)
           w == strtok(text, 1, Len(text), Space)
<1>3. n \in Nat /\ n > 0 /\ 1 \in 1..n
  BY <1>1, FirstPeer
<1>4. /\ Found(text, Offset(world, 1 - 1) + 1, Len(text), Space, Entry(world, 1))
      /\ EntryLies(text, world, 1) /\ Offset(world, 0) = 0 /\ text \in Seq(0..255)
  BY <1>1, <1>3, EntryFound, PeersLie
<1>5. Offset(world, 1 - 1) + 1 = 1
  BY <1>4
<1>6. w = [first |-> Entry(world, 1).first, last |-> Entry(world, 1).last]
  BY <1>4, <1>5 DEF Found
<1>7. /\ Entry(world, 1) = [of |-> "name", first |-> Entry(world, 1).first,
                            last |-> Entry(world, 1).last]
      /\ Entry(world, 1).first = Ip(world, 1).first
      /\ Entry(world, 1).last = Port(world, 1).last
  BY DEF Entry
<1>8. Ip(world, 1).first # 0 /\ Offset(world, 1) + 1 = Port(world, 1).last + 2
      /\ Len(text) > 0
  <2>1. Len(text) \in Nat
    BY <1>4, Elements
  <2>2. EntryLies(text, world, 1)
    BY <1>4
  <2>3. Offset(world, 1) + 1 = Port(world, 1).last + 2
    BY <2>2 DEF EntryLies
  <2>4. Holds(text, Ip(world, 1), world.peers[1].ip)
    BY <2>2 DEF EntryLies
  <2>5. /\ Ip(world, 1).first \in Nat /\ Ip(world, 1).last \in Nat
        /\ 0 < Ip(world, 1).first /\ Ip(world, 1).first <= Ip(world, 1).last
        /\ Ip(world, 1).last <= Len(text)
    BY <2>4 DEF Holds
  <2> QED
    BY <2>1, <2>3, <2>5
<1>9. w.first # 0 /\ Word("name", w) = Entry(world, 1) /\ w.last + 2 = Offset(world, 1) + 1
  BY <1>6, <1>7, <1>8 DEF Word
<1>10. npc' = "ip" /\ entry' = Entry(world, 1) /\ save_ptr' = Offset(world, 1) + 1
  BY <1>1, <1>2, <1>9 DEF NextEntry
<1>11. SubSeq(world.peers, 1, 1 - 1) = <<>>
  BY <1>1, FirstPeer
<1>12. AtEntry(1)'
  BY <1>10 DEF AtEntry
<1>13. OnTheWay(1)'
  BY <1>1, <1>10, <1>11 DEF OnTheWay
<1>14. peers_msg' # <<>>
  BY <1>1, <1>2, <1>8
<1> HIDE DEF n
<1> QED
  BY <1>1, <1>3, <1>10, <1>12, <1>13, <1>14 DEF NameInv, AloneParses, n, IInv

(* RecvError keeps NameInv: it leads to the first entry, cut.               *)
LEMMA RecvErrorName ==
  ASSUME IInv, RecvError, world' = world
  PROVE  NameInv'
<1>1. NameInv /\ npc = "recv" /\ nsconn' = "reset" /\ peers_msg' = peers_msg /\ main' = main
      /\ mixed' = mixed
  BY DEF IInv, RecvError, others, mvars, uvars
<1>2. CASE peers_msg = <<>>
  BY <1>1, <1>2 DEF RecvError, NameInv, AloneParses
<1>3. CASE peers_msg # <<>>
  <2>1. /\ peer_list' = <<>> /\ npc' = "ip" /\ save_ptr' = Len(peers_msg) + 1
        /\ entry' = Word("name", strtok(peers_msg, 1, Len(peers_msg), Colon))
    BY <1>3 DEF RecvError
  <2>2. peers_msg = TextOf(world) /\ world \in World /\ world.peers # <<>>
    BY <1>3, PeersText1 DEF IInv, PlaceInv
  <2>3. 1 \in 1..Len(world.peers)
    BY <2>2, FirstPeer
  <2>4. Found(peers_msg, 1, Len(peers_msg), Colon, Ip(world, 1))
    BY <2>2, <2>3, WordsFound
  <2>5. entry' = Ip(world, 1)
    <3>1. Ip(world, 1) = [of |-> "name", first |-> Ip(world, 1).first, last |-> Ip(world, 1).last]
      BY DEF Ip
    <3> QED
      BY <2>1, <2>4, <3>1 DEF Word, Found
  <2>6. AtEntry(1)' /\ Stuck(1)'
    BY <1>1, <2>1, <2>5 DEF AtEntry, Stuck
  <2> QED
    BY <1>1, <1>3, <2>1, <2>3, <2>6 DEF NameInv, AloneParses
<1> QED
  BY <1>2, <1>3

(* ParseIp keeps NameInv.                                                   *)
LEMMA ParseIpName ==
  ASSUME IInv, ParseIp, world' = world
  PROVE  NameInv'
<1>1. /\ npc = "ip" /\ npc' = "port" /\ Enter("name") /\ save_ptr' = save_ptr /\ NameInv
      /\ peer_list' = peer_list /\ peers_msg' = peers_msg /\ nsconn' = nsconn /\ main' = main
  BY DEF IInv, ParseIp, mvars
<1>2. PICK k \in 1..Len(world.peers) : AtEntry(k) /\ (Untouched => OnTheWay(k) \/ Stuck(k))
  BY <1>1 DEF NameInv
<1>3. /\ found' = <<Ip(world, k)>> /\ entry' = Ip(world, k)
      /\ static' = [of |-> "name", first |-> Ip(world, k).last + 2, last |-> entry.last]
      /\ peers_msg # <<>>
  BY <1>2, IpTaken
<1>4. AtEntry(k)'
  BY <1>1, <1>2, <1>3 DEF AtEntry
<1>5. Untouched' => Untouched
  BY <1>1 DEF Untouched, Enter
<1>6. ASSUME OnTheWay(k) PROVE OnTheWay(k)'
  <2>1. entry = Entry(world, k)
    BY <1>1, <1>6 DEF OnTheWay
  <2>2. static' = Port(world, k)
    BY <1>3, <2>1 DEF Entry, Port
  <2> QED
    BY <1>1, <1>6, <2>2 DEF OnTheWay
<1>7. ASSUME Stuck(k) PROVE Stuck(k)'
  <2>1. entry = Ip(world, k) /\ nsconn = "reset"
    BY <1>1, <1>7 DEF Stuck
  <2>2. Ip(world, k).last \in Nat
    BY <1>3, EntryInText DEF IInv, InText, Place
  <2>3. static'.first > static'.last
    BY <1>3, <2>1, <2>2
  <2> QED
    BY <1>1, <2>1, <2>3 DEF Stuck
<1> QED
  BY <1>1, <1>2, <1>3, <1>4, <1>5, <1>6, <1>7 DEF NameInv, AloneParses

(* ParsePort keeps NameInv: it finds the port, or none where the entry was  *)
(* cut.                                                                     *)
LEMMA ParsePortName ==
  ASSUME IInv, ParsePort, world' = world
  PROVE  NameInv'
<1> DEFINE w == NextWord(Colon)
<1>1. /\ npc = "port" /\ UNCHANGED <<entry, save_ptr, peer_list, peers_msg, nsconn, uvars, main>>
      /\ NameInv
      /\ \/ w.first = 0 /\ npc' = "ip" /\ found' = found /\ static' = static
         \/ w.first # 0 /\ npc' = "next" /\ found' = Append(found, Word(static.of, w))
  BY DEF IInv, ParsePort, mvars
<1>2. PICK k \in 1..Len(world.peers) : AtEntry(k) /\ (Untouched => OnTheWay(k) \/ Stuck(k))
  BY <1>1 DEF NameInv
<1>3. /\ entry = Ip(world, k) /\ found = <<Ip(world, k)>> /\ "name" \in busy /\ peers_msg # <<>>
      /\ save_ptr \in {Offset(world, k) + 1, Len(peers_msg) + 1}
  BY <1>1, <1>2 DEF AtEntry, NameInv, IInv, BusyInv
<1>4. Untouched' => Untouched
  BY <1>1, <1>3 DEF Untouched, uvars
<1>5. w.first # 0 => InText(Word(static.of, w))
  BY StaticTaken DEF IInv, PlaceInv
<1>6. ASSUME OnTheWay(k) PROVE w.first # 0 /\ Word(static.of, w) = Port(world, k)
  <2>1. static = Port(world, k)
    BY <1>1, <1>6 DEF OnTheWay
  <2>2. Text(static.of) = TextOf(world) /\ world \in World
    BY <1>3, <2>1, PeersText1 DEF IInv, Port
  <2>3. Found(TextOf(world), Port(world, k).first, Port(world, k).last, Colon, Port(world, k))
    BY <2>2, WordsFound
  <2>4. w = [first |-> Port(world, k).first, last |-> Port(world, k).last]
    BY <2>1, <2>2, <2>3 DEF NextWord, Found
  <2>5. EntryLies(peers_msg, world, k)
    BY <1>3, EntryInText DEF IInv
  <2>6. Port(world, k).first # 0
    <3>1. Holds(peers_msg, Port(world, k), world.peers[k].port)
      BY <2>5 DEF EntryLies
    <3> QED
      BY <3>1 DEF Holds
  <2>7. Port(world, k) =
          [of |-> "name", first |-> Port(world, k).first, last |-> Port(world, k).last]
    BY DEF Port
  <2> QED
    BY <2>1, <2>4, <2>6, <2>7 DEF Word
<1>7. ASSUME Stuck(k) PROVE w.first = 0
  <2>1. static.first > static.last /\ static.first \in Nat /\ static.last \in Nat
    BY <1>1, <1>7 DEF Stuck, IInv, TypeOK, ReceiverTypeOK, Place
  <2>2. w = strtok(Text(static.of), static.first, static.last, Colon)
    BY DEF NextWord
  <2>3. /\ w \in [first : Nat, last : Nat] /\ w.last <= static.last
        /\ w.first # 0 => static.first <= w.first /\ w.first <= w.last
    BY <2>1, <2>2, StrtokWithin
  <2> HIDE DEF w
  <2> QED
    BY <2>1, <2>3
<1> HIDE DEF w
<1>8. CASE w.first = 0
  <2>1. npc' = "ip" /\ found' = found /\ static' = static
    BY <1>1, <1>8
  <2>2. AtEntry(k)'
    BY <1>1, <1>3, <2>1 DEF AtEntry
  <2>3. Stuck(k) => Stuck(k)'
    BY <1>1, <1>3, <2>1 DEF Stuck
  <2> QED
    BY <1>1, <1>2, <1>3, <1>4, <1>6, <1>8, <2>1, <2>2, <2>3 DEF NameInv, AloneParses
<1>9. CASE w.first # 0
  <2> PICK q : q = Word(static.of, w)
    OBVIOUS
  <2>1. npc' = "next" /\ found' = <<Ip(world, k), q>>
    BY <1>1, <1>3, <1>9
  <2>2. InText(q)'
    <3>1. InText(q)
      BY <1>5, <1>9
    <3>2. \A t : Text(t)' = Text(t)
      BY FeedKept, <1>1 DEF Text, ParsePort
    <3> QED
      BY <3>1, <3>2 DEF InText
  <2>3. AtEntry(k)'
    <3>1. Len(found') = 2 /\ found'[1] = Ip(world, k) /\ found'[2] = q
      BY <2>1
    <3>2. InText(found[2])'
      BY <2>2, <3>1 DEF InText, Text
    <3> QED
      BY <1>1, <1>3, <2>1, <3>1, <3>2 DEF AtEntry
  <2>4. OnTheWay(k) => OnTheWay(k)'
    BY <1>1, <1>6, <2>1 DEF OnTheWay
  <2> QED
    BY <1>1, <1>2, <1>3, <1>4, <1>7, <1>9, <2>1, <2>3, <2>4 DEF NameInv, AloneParses
<1> QED
  BY <1>8, <1>9

(* The first k elements are the first k - 1 and element k.                  *)
LEMMA Longer ==
  ASSUME NEW S, NEW s \in Seq(S), NEW k \in 1..Len(s)
  PROVE  /\ Append(SubSeq(s, 1, k - 1), s[k]) = SubSeq(s, 1, k)
         /\ k = Len(s) => SubSeq(s, 1, k) = s
<1>1. Len(s) \in Nat
  OBVIOUS
<1> DEFINE a == SubSeq(s, 1, k - 1)
           b == SubSeq(s, 1, k)
           c == Append(a, s[k])
<1>2. a \in Seq(S) /\ Len(a) = k - 1 /\ \A i \in 1..(k - 1) : a[i] = s[i]
  BY <1>1
<1>3. b \in Seq(S) /\ Len(b) = k /\ \A i \in 1..k : b[i] = s[i]
  BY <1>1
<1>4. s[k] \in S
  OBVIOUS
<1> HIDE DEF a, b
<1>5. c \in Seq(S) /\ Len(c) = k /\ (\A i \in 1..(k - 1) : c[i] = a[i]) /\ c[k] = s[k]
  BY <1>2, <1>4
<1> HIDE DEF c
<1>6. \A i \in 1..k : c[i] = b[i]
  <2> SUFFICES ASSUME NEW i \in 1..k PROVE c[i] = b[i]
    OBVIOUS
  <2>1. b[i] = s[i]
    BY <1>3
  <2>2. i \in 1..(k - 1) \/ i = k
    BY <1>1
  <2>3. CASE i \in 1..(k - 1)
    BY <1>2, <1>5, <2>1, <2>3
  <2> QED
    BY <1>5, <2>1, <2>2, <2>3
<1>7. c = b
  BY <1>3, <1>5, <1>6
<1>8. k = Len(s) => b = s
  BY <1>1, <1>3
<1> QED
  BY <1>7, <1>8 DEF a, b, c

(* ParseNext keeps NameInv: the peer is appended, and the next entry is     *)
(* found, or the list is complete.                                          *)
LEMMA ParseNextName ==
  ASSUME IInv, ParseNext, world' = world
  PROVE  NameInv'
<1>1. /\ npc = "next" /\ UNCHANGED <<peers_msg, nsconn, main>>
      /\ NameInv /\ peer_list' = Append(peer_list, create_peer)
      /\ NextEntry(peers_msg, save_ptr)
  BY DEF IInv, ParseNext, mvars
<1>2. PICK k \in 1..Len(world.peers) : AtEntry(k) /\ (Untouched => OnTheWay(k) \/ Stuck(k))
  BY <1>1 DEF NameInv
<1>3. /\ found[1] = Ip(world, k) /\ "name" \in busy /\ peers_msg # <<>>
      /\ save_ptr \in {Offset(world, k) + 1, Len(peers_msg) + 1}
  BY <1>1, <1>2 DEF AtEntry, NameInv, IInv, BusyInv
<1>4. world \in World /\ Len(world.peers) \in Nat /\ k \in 0..Len(world.peers) /\ k > 0
  <2>1. world \in World
    BY DEF IInv, FeedInv
  <2> QED
    BY <2>1, PeerTypes
<1>5. \/ /\ npc' = "recv" /\ Leave("name")
         /\ save_ptr = Offset(world, k) + 1 => k = Len(world.peers)
      \/ /\ npc' = "ip" /\ k + 1 \in 1..Len(world.peers)
         /\ entry' = Entry(world, k + 1) /\ save_ptr' = Offset(world, k + 1) + 1
         /\ UNCHANGED uvars
  BY <1>1, <1>3, <1>4, NextFound DEF IInv
<1>6. ASSUME "name" \notin mixed
      PROVE  peer_list' = SubSeq(world.peers, 1, k) /\ save_ptr = Offset(world, k) + 1
  <2>1. OnTheWay(k)
    BY <1>1, <1>2, <1>6 DEF Untouched, Stuck
  <2>2. found[2] = Port(world, k) /\ peer_list = SubSeq(world.peers, 1, k - 1)
        /\ save_ptr = Offset(world, k) + 1
    BY <1>1, <2>1 DEF OnTheWay
  <2>3. EntryLies(peers_msg, world, k)
    BY <1>3, EntryInText DEF IInv
  <2>4. Chars(Ip(world, k)) = world.peers[k].ip /\ Chars(Port(world, k)) = world.peers[k].port
    <3>1. Ip(world, k).of = "name" /\ Port(world, k).of = "name"
      BY DEF Ip, Port
    <3>2. Text("name") = peers_msg
      BY DEF Text
    <3> QED
      BY <2>3, <3>1, <3>2 DEF EntryLies, Holds, Chars
  <2>5. create_peer = world.peers[k]
    BY <1>3, <1>4, <2>2, <2>4, PeerTypes DEF create_peer
  <2>6. peer_list' = Append(SubSeq(world.peers, 1, k - 1), world.peers[k])
    BY <1>1, <2>2, <2>5
  <2>7. Append(SubSeq(world.peers, 1, k - 1), world.peers[k]) = SubSeq(world.peers, 1, k)
    <3> DEFINE R == [ip : Plain, port : Plain]
    <3>1. world.peers \in Seq(R)
      BY <1>4 DEF World
    <3> HIDE DEF R
    <3> QED
      BY <3>1, Longer
  <2> QED
    BY <2>2, <2>6, <2>7
<1>7. CASE /\ npc' = "recv" /\ Leave("name")
           /\ save_ptr = Offset(world, k) + 1 => k = Len(world.peers)
  <2>1. ASSUME "name" \notin mixed PROVE peer_list' = world.peers
    <3>1. k = Len(world.peers) /\ peer_list' = SubSeq(world.peers, 1, k)
      BY <1>6, <1>7, <2>1
    <3>2. SubSeq(world.peers, 1, k) = world.peers
      <4> DEFINE R == [ip : Plain, port : Plain]
      <4>1. world.peers \in Seq(R)
        BY <1>4 DEF World
      <4> HIDE DEF R
      <4> QED
        BY <3>1, <4>1, Longer
    <3> QED
      BY <3>1, <3>2
  <2>2. AloneParses'
    BY <1>7, <2>1 DEF AloneParses, Leave
  <2> QED
    BY <1>1, <1>7, <2>2 DEF NameInv
<1>8. CASE /\ npc' = "ip" /\ k + 1 \in 1..Len(world.peers)
           /\ entry' = Entry(world, k + 1) /\ save_ptr' = Offset(world, k + 1) + 1
           /\ UNCHANGED uvars
  <2> DEFINE j == k + 1
  <2>1. j - 1 = k
    BY <1>4
  <2>2. /\ npc' = "ip" /\ j \in 1..Len(world.peers)
        /\ entry' = Entry(world, j) /\ save_ptr' = Offset(world, j) + 1
        /\ UNCHANGED uvars
    BY <1>8
  <2> HIDE DEF j
  <2>3. AtEntry(j)'
    BY <2>2 DEF AtEntry
  <2>4. Untouched' => OnTheWay(j)'
    <3>1. Untouched' => "name" \notin mixed
      BY <1>3, <2>2 DEF Untouched, uvars
    <3> QED
      BY <1>6, <2>1, <2>2, <3>1 DEF OnTheWay
  <2> QED
    BY <1>1, <1>3, <2>2, <2>3, <2>4 DEF NameInv, AloneParses
<1> QED
  BY <1>5, <1>7, <1>8

(* Every step keeps NameInv.                                                *)
LEMMA NameKept == IInv /\ [Next]_vars => NameInv'
<1> SUFFICES ASSUME IInv, [Next]_vars PROVE NameInv'
  OBVIOUS
<1>1. world' = world
  BY FeedKept
<1>2. CASE \E h \in Conns : Handler(h)
  BY <1>2, HandlerName
<1>3. CASE RecvEndOfServer
  BY <1>1, <1>3 DEF RecvEndOfServer, IInv, NameInv, AloneParses, mvars, others
<1>4. CASE name_server_handle
  BY <1>1, <1>3, <1>4, RecvPeersName, RecvErrorName, ParseIpName, ParsePortName, ParseNextName
     DEF name_server_handle
<1> QED
  BY <1>2, <1>4, OthersName

-------------------------------------------------------------------------------
(* Types.                                                                   *)

(* The text of peers is a text.                                             *)
LEMMA PeersMsgKept ==
  ASSUME FeedInv', PlaceInv'
  PROVE  peers_msg' \in Seq(0..255)
<1>1. CASE peers_msg' = <<>>
  BY <1>1
<1>2. CASE peers_msg' # <<>>
  <2>1. world' \in World /\ world'.peers # <<>> /\ peers_msg' = TextOf(world')
    BY <1>2 DEF FeedInv, PlaceInv
  <2>2. 1 \in 1..Len(world'.peers)
    BY <2>1, FirstPeer
  <2> QED
    BY <2>1, <2>2, PeersLie
<1> QED
  BY <1>1, <1>2

(* Every step keeps the types of Receiver.                                  *)
LEMMA ReceiverTypes ==
  ASSUME IInv, [Next]_vars, FeedInv', PlaceInv'
  PROVE  ReceiverTypeOK'
<1>1. feed' \in Feeds /\ peers_msg' \in Seq(0..255)
  BY PeersMsgKept DEF FeedInv
<1>2. hpc' \in [Conns -> Labels] /\ fields' \in [Conns -> Seq(Place)]
  BY FieldsKept
<1>3. chunk' \in [Conns -> [first : Nat, last : Nat]]
  <2>1. chunk \in [Conns -> [first : Nat, last : Nat]]
    BY DEF IInv, TypeOK, ReceiverTypeOK
  <2>2. chunk' = chunk \/ \E h \in Conns : \E r : chunk' = [chunk EXCEPT ![h] = r]
    BY DEF Next, vars, others, hvars, Main, load_public_keys, load_private_key,
         init_server, connect_to_name_server, update_port, Join, Listen, Accept,
         name_server_handle, RecvPeers, RecvError, RecvEndOfServer, ParseIp, ParsePort, ParseNext,
         NsEnds, input_handle, Handler, client_handle, Recv, RecvEnd, FirstField, NextField,
         TakeField, OpenInit, OpenUpdate, OpenFinal, UseCleanedUp
  <2>3. \A h \in Conns : chunk'[h] \in [first : Nat, last : Nat]
    BY ChunksKept
  <2> QED
    BY <2>1, <2>2, <2>3
<1>4. outcome' \in [Conns -> Sent \union {NoMsg, Garbage}] /\ ctx' \in Contexts
  BY OutcomesKept
<1>5. static' \in Place
  BY StaticKept DEF InText
<1>6. crashed' \in {"no", "decode", "keys", "send", "input"}
  <2>1. crashed \in {"no", "decode", "keys", "send", "input"}
    BY DEF IInv, TypeOK, ReceiverTypeOK
  <2> QED
    BY <2>1 DEF Next, vars, others, hvars, Main, load_public_keys, load_private_key,
         init_server, connect_to_name_server, update_port, Join, Listen, Accept,
         name_server_handle, RecvPeers, RecvError, RecvEndOfServer, ParseIp, ParsePort, ParseNext,
         NsEnds, input_handle, Handler, client_handle, Recv, RecvEnd, FirstField, NextField,
         TakeField, OpenInit, OpenUpdate, OpenFinal, UseCleanedUp
<1>7. busy' \subseteq Threads /\ mixed' \subseteq Threads
  <2>1. busy \subseteq Threads /\ mixed \subseteq Threads
    BY DEF IInv, TypeOK, ReceiverTypeOK
  <2>2. UNCHANGED uvars \/ \E t \in Threads : Enter(t) \/ Leave(t)
    BY DEF Next, vars, others, hvars, Main, load_public_keys, load_private_key,
         init_server, connect_to_name_server, update_port, Join, Listen, Accept,
         name_server_handle, RecvPeers, RecvError, RecvEndOfServer, ParseIp, ParsePort, ParseNext,
         NextEntry, NsEnds, input_handle, Handler, client_handle, Recv, RecvEnd, FirstField,
         NextField, OpenInit, OpenUpdate, OpenFinal, Return, UseCleanedUp, Threads
  <2> QED
    BY <2>1, <2>2 DEF uvars, Enter, Leave
<1> QED
  BY <1>1, <1>2, <1>3, <1>4, <1>5, <1>6, <1>7 DEF ReceiverTypeOK, Labels, Contexts

(* The characters of a place are a text.                                    *)
LEMMA CharsTypes ==
  ASSUME FeedInv, TypeOK, NEW p, InText(p)
  PROVE  Chars(p) \in Seq(0..255)
<1> DEFINE s == Text(p.of)
           f == p.first
           l == p.last
           B == 0..255
<1>1. f \in Nat /\ 0 < f /\ l \in Nat /\ l <= Len(s) /\ s \in Seq(B) /\ Len(s) \in Nat
  BY TextTypes DEF InText, Place
<1> HIDE DEF s, f, l, B
<1>2. SubSeq(s, f, l) \in Seq(B)
  BY <1>1
<1> QED
  BY <1>2 DEF Chars, s, f, l, B

(* A sequence with one element more.                                        *)
LEMMA Appended ==
  ASSUME NEW S, NEW s \in Seq(S), NEW e \in S
  PROVE  Append(s, e) \in Seq(S) /\ Len(Append(s, e)) = Len(s) + 1
OBVIOUS

(* The name server thread.                                                  *)
NameTypes ==
  /\ npc \in {"none", "recv", "ip", "port", "next", "done"}
  /\ entry \in Place /\ save_ptr \in Nat
  /\ found \in Seq(Place) /\ Len(found) <= 2
  /\ peer_list \in Seq(Address)

(* What strtok_r finds has the types of the name server thread.             *)
LEMMA NextEntryTypes ==
  ASSUME NameTypes, NEW text \in Seq(0..255), NEW from \in Nat, NextEntry(text, from)
  PROVE  npc' \in {"recv", "ip"} /\ entry' \in Place /\ save_ptr' \in Nat
<1> DEFINE w == strtok(text, from, Len(text), Space)
<1>1. Len(text) \in Nat
  BY Elements
<1>2. w \in [first : Nat, last : Nat]
  BY <1>1, StrtokWithin
<1>3. \/ npc' = "recv" /\ UNCHANGED <<entry, save_ptr>>
      \/ npc' = "ip" /\ entry' = Word("name", w) /\ save_ptr' = w.last + 2
  BY DEF NextEntry
<1> HIDE DEF w
<1> QED
  BY <1>2, <1>3 DEF NameTypes, Word, Place, Threads

(* Every step keeps the types of the name server thread.                    *)
LEMMA NameTypesKept ==
  ASSUME IInv, [Next]_vars, peers_msg' \in Seq(0..255)
  PROVE  NameTypes'
<1>1. NameTypes /\ peers_msg \in Seq(0..255) /\ Len(peers_msg) \in Nat
  <2>1. NameTypes /\ peers_msg \in Seq(0..255)
    BY DEF IInv, TypeOK, ReceiverTypeOK, NameTypes
  <2> QED
    BY <2>1, Elements
<1>2. CASE RecvPeers
  <2>1. npc' \in {"recv", "ip"} /\ entry' \in Place /\ save_ptr' \in Nat
    BY <1>1, <1>2, NextEntryTypes DEF RecvPeers
  <2>2. peer_list' = <<>> /\ found' = <<>>
    BY <1>2 DEF RecvPeers
  <2> QED
    BY <2>1, <2>2 DEF NameTypes
<1>3. CASE RecvError
  <2> DEFINE w == strtok(peers_msg, 1, Len(peers_msg), Colon)
  <2>1. w \in [first : Nat, last : Nat]
    BY <1>1, StrtokWithin
  <2>2. Word("name", w) \in Place
    <3> HIDE DEF w
    <3> QED
      BY <2>1 DEF Word, Place, Threads
  <2> HIDE DEF w
  <2>3. \/ npc' = npc /\ entry' = entry /\ save_ptr' = save_ptr /\ peer_list' = peer_list
        \/ npc' = "ip" /\ entry' = Word("name", w) /\ save_ptr' = Len(peers_msg) + 1
           /\ peer_list' = <<>>
    BY <1>3 DEF RecvError, w
  <2>4. found' = found
    BY <1>3 DEF RecvError
  <2>5. Len(peers_msg) + 1 \in Nat
    BY <1>1
  <2> DEFINE n == Len(peers_msg) + 1
  <2>6. \/ npc' = npc /\ entry' = entry /\ save_ptr' = save_ptr /\ peer_list' = peer_list
        \/ npc' = "ip" /\ entry' = Word("name", w) /\ save_ptr' = n /\ peer_list' = <<>>
    BY <2>3
  <2>7. <<>> \in Seq(Address) /\ n \in Nat
    BY <2>5
  <2> HIDE DEF n
  <2>8. found' \in Seq(Place) /\ Len(found') <= 2
    BY <1>1, <2>4 DEF NameTypes
  <2>9. /\ npc' \in {"none", "recv", "ip", "port", "next", "done"} /\ entry' \in Place
        /\ save_ptr' \in Nat /\ peer_list' \in Seq(Address)
    BY <1>1, <2>2, <2>6, <2>7 DEF NameTypes
  <2> QED
    BY <2>8, <2>9 DEF NameTypes
<1>4. CASE ParseIp
  <2>1. PICK k \in 1..Len(world.peers) : AtEntry(k)
    BY <1>4 DEF ParseIp, IInv, NameInv
  <2>2. found' = <<Ip(world, k)>> /\ entry' = Ip(world, k) /\ peers_msg # <<>>
    BY <1>4, <2>1, IpTaken
  <2>3. Ip(world, k) \in Place
    BY <2>2, EntryInText DEF IInv, InText
  <2> HIDE DEF Ip
  <2>4. <<Ip(world, k)>> \in Seq(Place) /\ Len(<<Ip(world, k)>>) = 1
    BY <2>3
  <2> QED
    BY <1>1, <1>4, <2>2, <2>3, <2>4 DEF NameTypes, ParseIp
<1>5. CASE ParsePort
  <2> DEFINE w == NextWord(Colon)
             q == Word(static.of, w)
  <2>1. w.first # 0 => InText(q)
    BY StaticTaken DEF IInv, PlaceInv
  <2>2. npc = "port" /\ Len(found) = 1
    <3>1. npc = "port"
      BY <1>5 DEF ParsePort
    <3>2. PICK k \in 1..Len(world.peers) : AtEntry(k)
      BY <3>1 DEF IInv, NameInv
    <3> QED
      BY <3>1, <3>2 DEF AtEntry
  <2>3. /\ entry' = entry /\ save_ptr' = save_ptr /\ peer_list' = peer_list
        /\ \/ npc' = "ip" /\ found' = found
           \/ npc' = "next" /\ w.first # 0 /\ found' = Append(found, q)
    BY <1>5 DEF ParsePort
  <2> HIDE DEF w, q
  <2>4. InText(q) => Append(found, q) \in Seq(Place) /\ Len(Append(found, q)) = 2
    <3>1. InText(q) => q \in Place
      BY DEF InText
    <3>2. found \in Seq(Place) /\ Len(found) = 1
      BY <1>1, <2>2 DEF NameTypes
    <3>3. InText(q) => Append(found, q) \in Seq(Place) /\ Len(Append(found, q)) = Len(found) + 1
      BY <3>1, <3>2, Appended
    <3> QED
      BY <3>2, <3>3
  <2> QED
    <3>1. CASE npc' = "ip" /\ found' = found
      BY <1>1, <2>3, <3>1 DEF NameTypes
    <3>2. CASE npc' = "next" /\ w.first # 0 /\ found' = Append(found, q)
      BY <1>1, <2>1, <2>3, <2>4, <3>2 DEF NameTypes
    <3> QED
      BY <2>3, <3>1, <3>2
<1>6. CASE ParseNext
  <2>1. npc' \in {"recv", "ip"} /\ entry' \in Place /\ save_ptr' \in Nat
    BY <1>1, <1>6, NextEntryTypes DEF ParseNext, NameTypes
  <2>2. npc = "next" /\ found' = <<>> /\ peer_list' = Append(peer_list, create_peer)
    BY <1>6 DEF ParseNext
  <2>3. PICK k \in 1..Len(world.peers) : AtEntry(k) /\ peers_msg # <<>>
    BY <2>2 DEF IInv, NameInv
  <2>4. InText(found[1]) /\ InText(found[2])
    BY <2>2, <2>3, EntryInText DEF IInv, AtEntry
  <2>5. create_peer \in Address
    BY <2>4, CharsTypes DEF IInv, create_peer, Address
  <2>6. Append(peer_list, create_peer) \in Seq(Address)
    <3> HIDE DEF create_peer, Address
    <3> QED
      BY <1>1, <2>5 DEF NameTypes
  <2> QED
    BY <2>1, <2>2, <2>6 DEF NameTypes
<1>7. CASE ~ (RecvPeers \/ RecvError \/ ParseIp \/ ParsePort \/ ParseNext)
  <2>1. UNCHANGED <<entry, save_ptr, found, peer_list>> /\ npc' \in {npc, "recv", "done"}
    BY <1>7 DEF Next, vars, nvars, Main, load_public_keys, load_private_key,
         init_server, connect_to_name_server, update_port, Join, Listen, Accept,
         name_server_handle, RecvEndOfServer, NsEnds, input_handle, Handler
  <2> QED
    BY <1>1, <2>1 DEF NameTypes
<1> QED
  BY <1>2, <1>3, <1>4, <1>5, <1>6, <1>7

(* What main, and the threads that listen and read the input, do.           *)
MainTypes ==
  /\ world \in Worlds
  /\ main \in {"load", "private", "server", "connect", "port", "join", "ended"}
  /\ table \subseteq [hash : STRING, at : Nat, key : STRING]
  /\ listener \in {"none", "bound", "accept", "spin"}
  /\ nsconn \in {"none", "open", "fin", "rst", "reset"}
  /\ announced \in BOOLEAN /\ input \in 0..Len(world.lines)

(* The type of an entry of the table of keys.                               *)
LEMMA KeyTypes ==
  ASSUME world \in World, NEW b \in Blocks, NEW s \in KeyFiles(b)
  PROVE  key_hash_add(b, s) \in [hash : STRING, at : Nat, key : STRING]
<1> DEFINE R == Seq(File)
<1>1. world.dir \in Seq(R)
  BY DEF World
<1>2. world.dir[b] \in R
  <2> HIDE DEF R
  <2> QED
    BY <1>1 DEF Blocks
<1>3. s \in 1..Len(world.dir[b]) /\ Len(world.dir[b]) \in Nat
  BY <1>2 DEF KeyFiles
<1>4. world.dir[b][s] \in File
  <2> HIDE DEF File
  <2> QED
    BY <1>2, <1>3
<1>5. world.dir[b][s].name \in STRING /\ s \in Nat
  BY <1>3, <1>4 DEF File
<1> QED
  BY <1>5 DEF key_hash_add

(* Every step keeps the types of main and the other threads.                *)
LEMMA MainTypesKept ==
  ASSUME IInv, [Next]_vars
  PROVE  MainTypes'
<1>1. MainTypes /\ world \in World /\ world' = world
  BY FeedKept DEF IInv, TypeOK, MainTypes, FeedInv
<1>2. CASE load_public_keys
  <2>1. table' = table \/ table' = AllKeys
    BY <1>2 DEF load_public_keys, AllKeys
  <2>2. AllKeys \subseteq [hash : STRING, at : Nat, key : STRING]
    BY <1>1, KeyTypes DEF AllKeys
  <2>3. UNCHANGED <<listener, announced, input, nsconn>> /\ main' \in {main, "private"}
    BY <1>2 DEF load_public_keys
  <2> QED
    BY <1>1, <2>1, <2>2, <2>3 DEF MainTypes
<1>3. CASE Main /\ ~ load_public_keys
  <2>1. UNCHANGED <<table, input>>
    BY <1>3 DEF Main, load_private_key, init_server, connect_to_name_server, update_port, Join
  <2>2. main' \in {"load", "private", "server", "connect", "port", "join", "ended"}
    BY <1>1, <1>3 DEF Main, load_private_key, init_server, connect_to_name_server, update_port,
       Join, MainTypes
  <2>3. listener' \in {"none", "bound", "accept", "spin"}
    BY <1>1, <1>3 DEF Main, load_private_key, init_server, connect_to_name_server, update_port,
       Join, MainTypes
  <2>4. nsconn' \in {"none", "open", "fin", "rst", "reset"}
    BY <1>1, <1>3 DEF Main, load_private_key, init_server, connect_to_name_server, update_port,
       Join, MainTypes
  <2>5. announced' \in BOOLEAN
    <3>1. CASE update_port
      <4>1. (nsconn \in {"open", "fin"}) \in BOOLEAN
        OBVIOUS
      <4> QED
        BY <3>1, <4>1 DEF update_port
    <3>2. CASE ~ update_port
      BY <1>1, <1>3, <3>2 DEF Main, load_private_key, init_server, connect_to_name_server, Join,
         MainTypes
    <3> QED
      BY <3>1, <3>2
  <2> QED
    BY <1>1, <2>1, <2>2, <2>3, <2>4, <2>5 DEF MainTypes
<1>4. CASE Listen
  BY <1>1, <1>4 DEF Listen, MainTypes
<1>5. CASE NsEnds
  <2>1. world.ends \subseteq {"fin", "rst"}
    BY <1>1 DEF World
  <2> QED
    BY <1>1, <1>5, <2>1 DEF NsEnds, MainTypes, mvars
<1>6. CASE input_handle
  <2>1. /\ UNCHANGED <<world, main, table, listener, nsconn, announced>>
        /\ input' = input \/ (input' = input + 1 /\ input < Len(world.lines))
    BY <1>6 DEF input_handle
  <2>2. Len(world.lines) \in Nat
    BY <1>1 DEF World
  <2>3. input' \in 0..Len(world.lines)
    BY <1>1, <2>1, <2>2 DEF MainTypes
  <2> QED
    BY <1>1, <2>1, <2>3 DEF MainTypes
<1>7. CASE name_server_handle
  BY <1>1, <1>7 DEF name_server_handle, RecvPeers, RecvError, RecvEndOfServer, ParseIp,
     ParsePort, ParseNext, mvars, MainTypes
<1>8. CASE (\E h \in Conns : Accept(h) \/ Handler(h)) \/ UNCHANGED vars
  BY <1>1, <1>8 DEF Accept, Handler, vars, mvars, MainTypes
<1> QED
  BY <1>2, <1>3, <1>4, <1>5, <1>6, <1>7, <1>8 DEF Next

(* The inductive invariant holds in the beginning.                          *)
LEMMA InitInv == Init => IInv
<1> SUFFICES ASSUME Init PROVE IInv
  OBVIOUS
<1>1. FeedInv
  BY FeedInit
<1>2. /\ feed = world.feed /\ peers_msg = <<>> /\ hpc = [h \in Conns |-> "none"]
      /\ chunk = [h \in Conns |-> [first |-> 1, last |-> 0]]
      /\ fields = [h \in Conns |-> <<>>] /\ outcome = [h \in Conns |-> NoMsg]
      /\ static = Nowhere /\ crashed = "no" /\ busy = {} /\ mixed = {}
      /\ ctx = [cipher |-> FALSE, key |-> NoMsg, ivRight |-> FALSE, fed |-> <<>>]
  BY DEF Init, ReceiverInit
<1>3. "name" \in Threads /\ Nowhere \in Place
  BY DEF Threads, Nowhere, Place
<1>4. TypeOK
  <2>1. ReceiverTypeOK
    <3>1. feed \in Feeds
      BY <1>1 DEF FeedInv
    <3>2. fields \in [Conns -> Seq(Place)]
      BY <1>2
    <3>3. ctx \in Contexts
      BY <1>2 DEF Contexts
    <3> QED
      BY <1>2, <1>3, <3>1, <3>2, <3>3 DEF ReceiverTypeOK, Contexts
  <2>2. MainTypes
    <3>1. Len(world.lines) \in Nat
      BY <1>1 DEF FeedInv, World
    <3> QED
      <4>1. 0 \in 0..Len(world.lines)
        BY <3>1
      <4>2. /\ world \in Worlds /\ main = "load" /\ table = {} /\ listener = "none"
            /\ nsconn = "none" /\ announced = FALSE /\ input = 0
        BY DEF Init
      <4> QED
        BY <4>1, <4>2 DEF MainTypes
  <2>3. NameTypes
    BY <1>3 DEF Init, NameTypes
  <2> QED
    BY <2>1, <2>2, <2>3 DEF TypeOK, MainTypes, NameTypes
<1>5. \A h \in Conns : Len(Text(h)) \in Nat
  BY <1>1, <1>4, TextTypes DEF Threads
<1>6. InText(static)
  BY <1>2, <1>3 DEF InText, Nowhere, Text
<1>7. PlaceInv
  BY <1>2, <1>5, <1>6 DEF PlaceInv
<1>8. BusyInv /\ FieldInv
  BY <1>2 DEF BusyInv, FieldInv, Using, Init
<1>9. NameInv
  BY <1>2 DEF Init, NameInv, AloneParses
<1> QED
  BY <1>1, <1>4, <1>7, <1>8, <1>9 DEF IInv

(* Every step keeps the inductive invariant.                                *)
LEMMA NextInv == IInv /\ [Next]_vars => IInv'
<1> SUFFICES ASSUME IInv, [Next]_vars PROVE IInv'
  OBVIOUS
<1>1. FeedInv'
  BY FeedKept DEF FeedInv, IInv
<1>2. PlaceInv' /\ BusyInv' /\ NameInv' /\ FieldInv'
  BY PlaceKept, BusyKept, NameKept, FieldsKept
<1>3. ReceiverTypeOK' /\ NameTypes' /\ MainTypes'
  BY <1>1, <1>2, ReceiverTypes, NameTypesKept, MainTypesKept DEF ReceiverTypeOK
<1>4. TypeOK'
  BY <1>3 DEF TypeOK, NameTypes, MainTypes
<1> QED
  BY <1>1, <1>2, <1>4 DEF IInv

(* The inductive invariant always holds.                                    *)
THEOREM AlwaysInv == Spec => []IInv
BY InitInv, NextInv, PTL DEF Spec

(* Type correctness of the handlers, of main, and of the other threads.     *)
THEOREM TypeCorrect == Spec => []TypeOK
<1>1. IInv => TypeOK
  BY DEF IInv
<1> QED
  BY <1>1, AlwaysInv, PTL

(* The name server thread parses exactly the peers it was sent, each with   *)
(* its port, unless another thread used strtok meanwhile: for any peers and *)
(* any interleaving.                                                        *)
THEOREM AlwaysParses == Spec => []AloneParses
<1>1. IInv => AloneParses
  BY DEF IInv, NameInv
<1> QED
  BY <1>1, AlwaysInv, PTL

(* A character at a place is among the characters of the place.             *)
LEMMA InChars ==
  ASSUME FeedInv, TypeOK, NEW p, InText(p), NEW i \in p.first..p.last
  PROVE  Text(p.of)[i] \in ToSet(Chars(p))
<1> DEFINE s == Text(p.of)
           f == p.first
           l == p.last
           B == 0..255
           c == SubSeq(s, f, l)
<1>1. f \in Nat /\ 0 < f /\ l \in Nat /\ l <= Len(s) /\ s \in Seq(B) /\ Len(s) \in Nat
  BY TextTypes DEF InText, Place
<1>2. i \in f..l
  OBVIOUS
<1> HIDE DEF s, f, l, B
<1>3. Len(c) = 1 + l - f /\ c[i - f + 1] = s[i]
  BY <1>1, <1>2
<1>4. i - f + 1 \in 1..Len(c)
  BY <1>1, <1>2, <1>3
<1>5. s[i] \in ToSet(c)
  <2> HIDE DEF c
  <2> QED
    BY <1>3, <1>4 DEF ToSet
<1> QED
  BY <1>5 DEF Chars, s, f, l, c

(* The endless loop of parse_peers needs another thread that used strtok,   *)
(* or an error of recv that was taken for a message.                        *)
THEOREM AlwaysLoopReason == Spec => []LoopNeedsResetOrMix
<1>1. IInv => LoopNeedsResetOrMix
  <2> SUFFICES ASSUME IInv, npc = "ip", "name" \notin mixed, nsconn # "reset"
               PROVE  Colon \in ToSet(Chars(entry))
    BY DEF LoopNeedsResetOrMix, Looping
  <2>1. PICK k \in 1..Len(world.peers) : OnTheWay(k) /\ peers_msg # <<>>
    BY DEF IInv, NameInv, Untouched, Stuck
  <2>2. entry = Entry(world, k)
    BY <2>1 DEF OnTheWay
  <2>3. InText(Entry(world, k)) /\ EntryLies(peers_msg, world, k)
    BY <2>1, EntryInText DEF IInv
  <2> DEFINE i == Ip(world, k).last + 1
  <2>4. i \in Entry(world, k).first..Entry(world, k).last /\ peers_msg[i] = Colon
    <3>1. Port(world, k).first = Ip(world, k).last + 2
          /\ Entry(world, k).first = Ip(world, k).first
          /\ Entry(world, k).last = Port(world, k).last
      BY DEF Port, Entry
    <3>2. /\ Ip(world, k).first \in Nat /\ Ip(world, k).last \in Nat
          /\ Ip(world, k).first <= Ip(world, k).last
      BY <2>3 DEF EntryLies, Holds
    <3>3. /\ Port(world, k).first \in Nat /\ Port(world, k).last \in Nat
          /\ Port(world, k).first <= Port(world, k).last
      BY <2>3 DEF EntryLies, Holds
    <3>4. peers_msg[i] = Colon
      BY <2>3 DEF EntryLies
    <3> QED
      BY <3>1, <3>2, <3>3, <3>4
  <2>5. Text(Entry(world, k).of) = peers_msg
    BY DEF Entry, Text
  <2> HIDE DEF i
  <2>6. Text(Entry(world, k).of)[i] \in ToSet(Chars(Entry(world, k)))
    BY <2>3, <2>4, InChars DEF IInv
  <2> QED
    BY <2>2, <2>4, <2>5, <2>6
<1> QED
  BY <1>1, AlwaysInv, PTL

-------------------------------------------------------------------------------
(* The handlers.                                                            *)

(* A text of up to LongestText characters leaves room for padding.          *)
LongestTextFits == \A n \in Nat : n <= LongestText => EncodingLength(n) < MESSAGE_LENGTH

(* It does with the sizes of the program.                                   *)
LEMMA ProgramFits == ProgramSizes => LongestTextFits
BY LongestFits DEF LongestTextFits

(* The buffer of a handler, and the words of message m in it.               *)
Base(h) == chunk[h].first - 1
Lies(h, m, l1, l2, l3) ==
  /\ LiesAt(Text(h), m, Base(h), l1, l2, l3)
  /\ Base(h) + MESSAGE_LENGTH <= chunk[h].last
Word1(h, l1) == [of |-> h, first |-> Base(h) + 1, last |-> l1]
NextTo(h, l, last) == [of |-> h, first |-> l + 2, last |-> last]

(* What a handler has done of message m that its buffer begins with.        *)
Decodes(h, m, l1, l2, l3) ==
  /\ Lies(h, m, l1, l2, l3)
  /\ hpc[h] # "none"
  /\ hpc[h] = "key" => /\ fields[h] = <<Word1(h, l1)>>
                       /\ static = NextTo(h, l1, chunk[h].last)
  /\ hpc[h] = "iv" => /\ fields[h] = <<Word1(h, l1), NextTo(h, l1, l2)>>
                      /\ static = NextTo(h, l2, chunk[h].last)
  /\ hpc[h] \in {"init", "update", "final"} =>
       fields[h] = <<Word1(h, l1), NextTo(h, l1, l2), NextTo(h, l2, l3)>>
  /\ hpc[h] \in {"update", "final"} =>
       /\ m.to = Me /\ ctx.cipher /\ ctx.key = m /\ ctx.ivRight
       /\ ctx.fed = IF hpc[h] = "update" THEN <<>> ELSE <<Word1(h, l1)>>
  /\ hpc[h] = "recv" => outcome[h] = IF m.to = Me THEN m ELSE NoMsg

(* The messages that lie whole at the beginning of the buffer, and fit.     *)
Short(h) == {m \in Whole(h) : m.len <= LongestText}

(* A handler that was not overlapped has decoded what its buffer begins     *)
(* with, as far as it is.                                                   *)
HandlerInv ==
  \A h \in Conns \ mixed : \A m \in Short(h) :
    \E l1, l2, l3 : Decodes(h, m, l1, l2, l3)

(* CrashNeedsCutOrMix, as it is kept.                                       *)
CrashInv ==
  crashed = "decode" =>
    mixed # {} \/ \E h \in busy : \A m \in Whole(h) : m.len > LongestText

-------------------------------------------------------------------------------
(* The words of a message that lies whole at the beginning of a buffer lie  *)
(* there too.                                                               *)
LEMMA ShortLies ==
  ASSUME LongestTextFits, IInv, NEW h \in Conns, NEW m \in Short(h)
  PROVE  /\ m \in Sent /\ m \in Message /\ m \in InFeed
         /\ \E l1, l2, l3 : Lies(h, m, l1, l2, l3)
<1> DEFINE s == feed[h]
           o == Base(h)
           L == MESSAGE_LENGTH
<1>1. /\ feed \in Feeds /\ s \in Streams /\ s \in Seq(Message)
      /\ \A k \in 1..Len(s) : s[k] \in Sent
  BY FeedTypes DEF IInv, FeedInv
<1>2. PICK k \in 1..Len(s) : /\ m = s[k] /\ Start(h, k) = chunk[h].first
                             /\ Start(h, k) + Len(PaddedOf[s[k]]) - 1 <= chunk[h].last
  BY DEF Short, Whole
<1>3. m \in Sent /\ m \in Message /\ m.len <= LongestText /\ m.len \in Nat
  BY <1>1, <1>2, SentTypes DEF Short, Message
<1>4. m \in InFeed
  <2>1. m \in ToSet(s)
    BY <1>2 DEF ToSet
  <2> QED
    BY <2>1 DEF InFeed
<1>5. EncodingLength(m.len) < L
  BY <1>3 DEF LongestTextFits
<1>6. PaddedOf[m] = Padded(m)
  BY <1>3, TextsOf
<1>7. Len(Padded(m)) = L
  BY <1>3, <1>5, PaddedText
<1>8. L \in Nat
  BY WireAssumption
<1> DEFINE p == Len(FlattenSeq([i \in 1..(k - 1) |-> PaddedOf[s[i]]]))
<1>9. /\ p \in Nat /\ p + Len(PaddedOf[s[k]]) <= Len(StreamOf[s])
      /\ \A i \in 1..Len(PaddedOf[s[k]]) : StreamOf[s][p + i] = PaddedOf[s[k]][i]
  <2>1. s \in Streams /\ k \in 1..Len(s)
    BY <1>1
  <2>2. p = Len(FlattenSeq([i \in 1..(k - 1) |-> PaddedOf[s[i]]]))
    OBVIOUS
  <2> HIDE DEF p, s
  <2> QED
    BY <2>1, <2>2, StreamPlaces
<1>10. Start(h, k) = 1 + p
  BY DEF Start
<1>11. StreamOf[s] \in Seq(0..255)
  BY <1>1, StreamTexts
<1>12. Text(h) = StreamOf[s]
  BY ReceiverAssumption DEF Text
<1>13. chunk[h].last \in Nat
  BY DEF IInv, PlaceInv
<1> HIDE DEF p, s, L
<1>14. o = p /\ o + L <= chunk[h].last
  BY <1>2, <1>6, <1>7, <1>8, <1>9, <1>10, <1>13 DEF Base
<1>15. o \in Nat /\ o + L <= Len(Text(h)) /\ \A i \in 1..L : Text(h)[o + i] = Padded(m)[i]
  BY <1>2, <1>6, <1>7, <1>9, <1>12, <1>14
<1>16. \E l1, l2, l3 : LiesAt(Text(h), m, o, l1, l2, l3)
  <2> DEFINE text == Text(h)
  <2>1. text \in Seq(0..255) /\ o \in Nat /\ o + MESSAGE_LENGTH <= Len(text)
        /\ EncodingLength(m.len) < MESSAGE_LENGTH
        /\ \A i \in 1..MESSAGE_LENGTH : text[o + i] = Padded(m)[i]
    BY <1>5, <1>11, <1>12, <1>15 DEF L
  <2> HIDE DEF text, o
  <2>2. \E l1, l2, l3 : LiesAt(text, m, o, l1, l2, l3)
    BY <1>3, <2>1, MessageLies
  <2> QED
    BY <2>2 DEF text, o
<1> QED
  BY <1>3, <1>4, <1>14, <1>16 DEF Lies, L

(* What strtok finds, and what the words decode to.                         *)
WordsLie(h, m, l1, l2, l3) ==
  /\ strtok(Text(h), Base(h) + 1, chunk[h].last, Space) = [first |-> Base(h) + 1, last |-> l1]
  /\ strtok(Text(h), l1 + 2, chunk[h].last, Space) = [first |-> l1 + 2, last |-> l2]
  /\ strtok(Text(h), l2 + 2, chunk[h].last, Space) = [first |-> l2 + 2, last |-> l3]
  /\ Bytes(Word1(h, l1)) = WordOf(m, 1)
  /\ Bytes(NextTo(h, l1, l2)) = WordOf(m, 2)
  /\ Bytes(NextTo(h, l2, l3)) = WordOf(m, 3)
  /\ Base(h) \in Nat /\ l1 \in Nat /\ l2 \in Nat /\ l3 \in Nat

(* strtok finds a word of the message where it begins.                      *)
LEMMA OneWord ==
  ASSUME NEW text, NEW m, NEW i, NEW f, NEW l, NEW to \in Nat,
         IsWord(text, m, i, f, l), l <= to
  PROVE  strtok(text, f, to, Space) = [first |-> f, last |-> l]
<1>1. Stands(text, f, l, to, Space)
  BY DEF IsWord, Stands
<1> QED
  BY <1>1, StrtokFinds

(* strtok finds the three words one after the other, and they decode to     *)
(* what was sealed.                                                         *)
LEMMA WordsFoundAt ==
  ASSUME IInv, NEW h \in Conns, NEW m, NEW l1, NEW l2, NEW l3, Lies(h, m, l1, l2, l3)
  PROVE  WordsLie(h, m, l1, l2, l3)
<1> DEFINE text == Text(h)
           o == Base(h)
           to == chunk[h].last
           f1 == o + 1
           f2 == l1 + 2
           f3 == l2 + 2
<1>1. to \in Nat /\ o \in Nat
  BY DEF IInv, PlaceInv, Base
<1>2. /\ IsWord(text, m, 1, f1, l1) /\ IsWord(text, m, 2, f2, l2) /\ IsWord(text, m, 3, f3, l3)
      /\ l3 < o + MESSAGE_LENGTH /\ o + MESSAGE_LENGTH <= to
  BY DEF Lies, LiesAt
<1>3. l1 \in Nat /\ l2 \in Nat /\ l3 \in Nat /\ f2 <= l2 /\ f3 <= l3
  BY <1>2 DEF IsWord
<1>4. l1 <= to /\ l2 <= to /\ l3 <= to
  BY <1>1, <1>2, <1>3, WireAssumption
<1>5. Word1(h, l1).of = h /\ NextTo(h, l1, l2).of = h /\ NextTo(h, l2, l3).of = h
  BY DEF Word1, NextTo
<1>6. /\ Bytes(Word1(h, l1)) = Base64decode(SubSeq(text, f1, l1))
      /\ Bytes(NextTo(h, l1, l2)) = Base64decode(SubSeq(text, f2, l2))
      /\ Bytes(NextTo(h, l2, l3)) = Base64decode(SubSeq(text, f3, l3))
  BY DEF Bytes, Chars, Word1, NextTo
<1> HIDE DEF text, to, f1, f2, f3
<1>7. /\ strtok(text, f1, to, Space) = [first |-> f1, last |-> l1]
      /\ strtok(text, f2, to, Space) = [first |-> f2, last |-> l2]
      /\ strtok(text, f3, to, Space) = [first |-> f3, last |-> l3]
  BY <1>1, <1>2, <1>4, OneWord
<1>8. /\ Base64decode(SubSeq(text, f1, l1)) = WordOf(m, 1)
      /\ Base64decode(SubSeq(text, f2, l2)) = WordOf(m, 2)
      /\ Base64decode(SubSeq(text, f3, l3)) = WordOf(m, 3)
  BY <1>2 DEF IsWord
<1> QED
  BY <1>1, <1>3, <1>6, <1>7, <1>8 DEF WordsLie, text, to, f1, f2, f3

(* A word that strtok finds is taken for a field, and the process lives.    *)
LEMMA TakenWord ==
  ASSUME TypeOK, NEW h \in Conns, NEW before, NEW t, NEW first, NEW last, NEW label,
         TakeField(h, before, t, first, last, label), NEW f, NEW l, f # 0,
         strtok(Text(t), first, last, Space) = [first |-> f, last |-> l]
  PROVE  /\ fields'[h] = Append(before, [of |-> t, first |-> f, last |-> l])
         /\ static' = [of |-> t, first |-> l + 2, last |-> last]
         /\ hpc'[h] = label /\ crashed' = crashed
<1> DEFINE w == [first |-> f, last |-> l]
<1>1. w.first # 0 /\ Word(t, w) = [of |-> t, first |-> f, last |-> l]
      /\ Rest(t, w, last) = [of |-> t, first |-> l + 2, last |-> last]
  BY DEF Word, Rest
<1> HIDE DEF w
<1>2. /\ fields' = [fields EXCEPT ![h] = Append(before, Word(t, w))]
      /\ static' = Rest(t, w, last)
      /\ hpc' = [hpc EXCEPT ![h] = label]
      /\ crashed' = crashed
  BY <1>1 DEF TakeField, Goto, w
<1>3. DOMAIN fields = Conns /\ DOMAIN hpc = Conns
  BY DEF TypeOK, ReceiverTypeOK
<1> QED
  BY <1>1, <1>2, <1>3

(* A handler that does not move keeps what it has done.                     *)
LEMMA LiesStay ==
  ASSUME [Next]_vars, NEW h \in Conns, chunk'[h] = chunk[h]
  PROVE  /\ Short(h)' = Short(h) /\ Base(h)' = Base(h)
         /\ \A m, l1, l2, l3 : Lies(h, m, l1, l2, l3)' <=> Lies(h, m, l1, l2, l3)
<1>1. feed' = feed /\ Text(h)' = Text(h)
  BY FeedKept, TextsStay, ReceiverAssumption DEF Threads
<1>2. Base(h)' = Base(h)
  BY DEF Base
<1>3. Whole(h)' = Whole(h)
  BY <1>1 DEF Whole, Start
<1> QED
  BY <1>1, <1>2, <1>3 DEF Short, Lies

(* A handler that does not move keeps what it has done, as long as nobody   *)
(* else uses what is shared.                                                *)
LEMMA DecodesStay ==
  ASSUME IInv, [Next]_vars, HandlerInv, NEW h \in Conns, h \notin mixed,
         hpc'[h] = hpc[h], chunk'[h] = chunk[h], fields'[h] = fields[h], outcome'[h] = outcome[h],
         hpc[h] \notin Using \/ UNCHANGED <<static, ctx>>
  PROVE  \A m \in Short(h)' : \E l1, l2, l3 : Decodes(h, m, l1, l2, l3)'
<1> SUFFICES ASSUME NEW m \in Short(h)' PROVE \E l1, l2, l3 : Decodes(h, m, l1, l2, l3)'
  OBVIOUS
<1>1. m \in Short(h) /\ Base(h)' = Base(h)
  BY LiesStay
<1>2. PICK l1, l2, l3 : Decodes(h, m, l1, l2, l3)
  BY <1>1 DEF HandlerInv
<1>3. Lies(h, m, l1, l2, l3)'
  BY <1>2, LiesStay DEF Decodes
<1>4. Word1(h, l1)' = Word1(h, l1)
  BY <1>1 DEF Word1
<1>5. Decodes(h, m, l1, l2, l3)'
  <2>1. CASE hpc[h] \notin Using
    BY <1>2, <1>3, <2>1 DEF Decodes, Using
  <2>2. CASE UNCHANGED <<static, ctx>>
    BY <1>2, <1>3, <1>4, <2>2 DEF Decodes, NextTo
  <2> QED
    BY <2>1, <2>2
<1> QED
  BY <1>5

(* The first field that is taken is the first word.                         *)
LEMMA FirstFieldDecodes ==
  ASSUME LongestTextFits, IInv, [Next]_vars, NEW h \in Conns, FirstField(h), NEW m \in Short(h)
  PROVE  (\E l1, l2, l3 : Decodes(h, m, l1, l2, l3)') /\ crashed' = crashed
<1>1. PICK l1, l2, l3 : Lies(h, m, l1, l2, l3)
  BY ShortLies
<1>2. WordsLie(h, m, l1, l2, l3)
  BY <1>1, WordsFoundAt
<1>3. chunk' = chunk /\ TakeField(h, <<>>, h, chunk[h].first, chunk[h].last, "key")
  BY DEF FirstField, TakeField
<1> DEFINE f == Base(h) + 1
           to == chunk[h].last
<1>4. chunk[h].first = f /\ f # 0 /\ strtok(Text(h), f, to, Space) = [first |-> f, last |-> l1]
  <2>1. chunk[h].first \in Nat
    BY DEF IInv, PlaceInv
  <2> QED
    BY <1>2, <2>1 DEF WordsLie, Base
<1>5. Base(h)' = Base(h) /\ Lies(h, m, l1, l2, l3)' /\ chunk'[h].last = to
  BY <1>1, <1>3, LiesStay
<1>6. Word1(h, l1) = [of |-> h, first |-> f, last |-> l1]
      /\ NextTo(h, l1, to) = [of |-> h, first |-> l1 + 2, last |-> to]
  BY DEF Word1, NextTo
<1>10. Word1(h, l1)' = Word1(h, l1)
  BY <1>5 DEF Word1
<1> HIDE DEF f, to
<1> DEFINE before == <<>>
<1>7. TakeField(h, before, h, f, to, "key")
  BY <1>3, <1>4 DEF to
<1>8. \A q : Append(before, q) = <<q>>
  OBVIOUS
<1> HIDE DEF before
<1>9. /\ fields'[h] = Append(before, [of |-> h, first |-> f, last |-> l1])
      /\ static' = [of |-> h, first |-> l1 + 2, last |-> to]
      /\ hpc'[h] = "key" /\ crashed' = crashed
  BY <1>4, <1>7, TakenWord DEF IInv
<1>11. Decodes(h, m, l1, l2, l3)'
  BY <1>5, <1>6, <1>8, <1>9, <1>10 DEF Decodes
<1> QED
  BY <1>9, <1>11

(* Appending to sequences of one and of two.                                *)
LEMMA AppendToOne ==
  ASSUME NEW x, NEW q
  PROVE  Append(<<x>>, q) = <<x, q>>
<1> DEFINE S == {x, q}
           s == <<x>>
           t == <<x, q>>
<1>1. Len(s) = 1 /\ s[1] = x /\ Len(t) = 2 /\ t[1] = x /\ t[2] = q
  OBVIOUS
<1>2. s \in Seq(S) /\ q \in S /\ t \in Seq(S)
  OBVIOUS
<1> HIDE DEF s, t, S
<1> DEFINE a == Append(s, q)
<1>3. a \in Seq(S) /\ Len(a) = Len(s) + 1 /\ (\A i \in 1..Len(s) : a[i] = s[i]) /\ a[Len(s) + 1] = q
  BY <1>2, AppendProperties
<1> HIDE DEF a
<1>4. Len(a) = 2 /\ a[1] = x /\ a[2] = q
  BY <1>1, <1>3
<1>5. \A i \in 1..2 : a[i] = t[i]
  BY <1>1, <1>4
<1>6. a = t
  BY <1>1, <1>2, <1>3, <1>4, <1>5, SeqEqual
<1> QED
  BY <1>6 DEF a, s, t

(* Appending to a sequence of two.                                          *)
LEMMA AppendToTwo ==
  ASSUME NEW x, NEW y, NEW q
  PROVE  Append(<<x, y>>, q) = <<x, y, q>>
<1> DEFINE S == {x, y, q}
           s == <<x, y>>
           t == <<x, y, q>>
<1>1. Len(s) = 2 /\ s[1] = x /\ s[2] = y /\ Len(t) = 3 /\ t[1] = x /\ t[2] = y /\ t[3] = q
  OBVIOUS
<1>2. s \in Seq(S) /\ q \in S /\ t \in Seq(S)
  OBVIOUS
<1> HIDE DEF s, t, S
<1> DEFINE a == Append(s, q)
<1>3. a \in Seq(S) /\ Len(a) = Len(s) + 1 /\ (\A i \in 1..Len(s) : a[i] = s[i]) /\ a[Len(s) + 1] = q
  BY <1>2, AppendProperties
<1> HIDE DEF a
<1>4. Len(a) = 3 /\ a[1] = x /\ a[2] = y /\ a[3] = q
  BY <1>1, <1>3
<1>5. \A i \in 1..3 : a[i] = t[i]
  BY <1>1, <1>4
<1>6. a = t
  BY <1>1, <1>2, <1>3, <1>4, <1>5, SeqEqual
<1> QED
  BY <1>6 DEF a, s, t

(* The next fields that are taken are the next words, when no other thread  *)
(* has used strtok.                                                         *)
LEMMA NextFieldDecodes ==
  ASSUME LongestTextFits, IInv, [Next]_vars, HandlerInv, NEW h \in Conns, h \notin mixed,
         NextField(h), NEW m \in Short(h)
  PROVE  (\E l1, l2, l3 : Decodes(h, m, l1, l2, l3)') /\ crashed' = crashed
<1>1. PICK l1, l2, l3 : Decodes(h, m, l1, l2, l3)
  BY DEF HandlerInv
<1>2. Lies(h, m, l1, l2, l3) /\ WordsLie(h, m, l1, l2, l3)
  BY <1>1, WordsFoundAt DEF Decodes
<1>3. /\ chunk' = chunk /\ hpc[h] \in {"key", "iv"}
      /\ TakeField(h, fields[h], static.of, static.first, static.last,
                   IF hpc[h] = "key" THEN "iv" ELSE "init")
  BY DEF NextField, TakeField
<1> DEFINE to == chunk[h].last
<1>4. Base(h)' = Base(h) /\ Lies(h, m, l1, l2, l3)' /\ chunk'[h].last = to
  BY <1>2, <1>3, LiesStay
<1>5. Word1(h, l1)' = Word1(h, l1)
  BY <1>4 DEF Word1
<1>6. CASE hpc[h] = "key"
  <2> DEFINE f == l1 + 2
             t == h
             before == <<Word1(h, l1)>>
  <2>1. static.of = t /\ static.first = f /\ static.last = to /\ fields[h] = before
    BY <1>1, <1>6 DEF Decodes, NextTo
  <2>2. TakeField(h, before, t, f, to, "iv")
    BY <1>3, <1>6, <2>1
  <2>3. f # 0 /\ strtok(Text(t), f, to, Space) = [first |-> f, last |-> l2]
    BY <1>2 DEF WordsLie
  <2>4. NextTo(h, l1, l2) = [of |-> t, first |-> f, last |-> l2]
        /\ NextTo(h, l2, to) = [of |-> t, first |-> l2 + 2, last |-> to]
    BY DEF NextTo
  <2>5. \A q : Append(before, q) = <<Word1(h, l1), q>>
    BY AppendToOne
  <2> HIDE DEF f, to, before, t
  <2>6. /\ fields'[h] = Append(before, [of |-> t, first |-> f, last |-> l2])
        /\ static' = [of |-> t, first |-> l2 + 2, last |-> to]
        /\ hpc'[h] = "iv" /\ crashed' = crashed
    BY <2>2, <2>3, TakenWord DEF IInv
  <2>7. fields'[h] = <<Word1(h, l1), NextTo(h, l1, l2)>> /\ static' = NextTo(h, l2, to)
    BY <2>4, <2>5, <2>6
  <2>8. Decodes(h, m, l1, l2, l3)'
    BY <1>4, <1>5, <2>6, <2>7 DEF Decodes, NextTo
  <2> QED
    BY <2>6, <2>8
<1>7. CASE hpc[h] = "iv"
  <2> DEFINE f == l2 + 2
             t == h
             before == <<Word1(h, l1), NextTo(h, l1, l2)>>
  <2>1. static.of = t /\ static.first = f /\ static.last = to /\ fields[h] = before
    BY <1>1, <1>7 DEF Decodes, NextTo
  <2>2. TakeField(h, before, t, f, to, "init")
    BY <1>3, <1>7, <2>1
  <2>3. f # 0 /\ strtok(Text(t), f, to, Space) = [first |-> f, last |-> l3]
    BY <1>2 DEF WordsLie
  <2>4. NextTo(h, l2, l3) = [of |-> t, first |-> f, last |-> l3]
    BY DEF NextTo
  <2>5. \A q : Append(before, q) = <<Word1(h, l1), NextTo(h, l1, l2), q>>
    BY AppendToTwo
  <2> HIDE DEF f, to, before, t
  <2>6. /\ fields'[h] = Append(before, [of |-> t, first |-> f, last |-> l3])
        /\ hpc'[h] = "init" /\ crashed' = crashed
    BY <2>2, <2>3, TakenWord DEF IInv
  <2>7. fields'[h] = <<Word1(h, l1), NextTo(h, l1, l2), NextTo(h, l2, l3)>>
    BY <2>4, <2>5, <2>6
  <2>8. Decodes(h, m, l1, l2, l3)'
    BY <1>4, <1>5, <2>6, <2>7 DEF Decodes, NextTo
  <2> QED
    BY <2>6, <2>8
<1> QED
  BY <1>3, <1>6, <1>7

(* The session keys of the messages on the connections differ.              *)
LEMMA OwnKey ==
  ASSUME FeedInv, NEW m \in InFeed
  PROVE  Unwrapped(client_encrypt_msg(m).key) = IF m.to = Me THEN {m} ELSE {}
<1>1. PICK h \in Conns : m \in ToSet(feed[h])
  BY DEF InFeed
<1>2. ASSUME NEW n \in InFeed, client_encrypt_msg(m).key = client_encrypt_msg(n).key
      PROVE  m = n
  <2>1. PICK g \in Conns : n \in ToSet(feed[g])
    BY DEF InFeed
  <2> QED
    BY <1>1, <1>2, <2>1, FeedTypes, ReceiverAssumption DEF FeedInv
<1>3. \A n \in InFeed : n \in Sent /\ SealedOf[n] = client_encrypt_msg(n)
  BY FeedMessages, TextsOf
<1>4. \A n : n \in Unwrapped(client_encrypt_msg(m).key) <=> n = m /\ m.to = Me
  <2>1. \A n : n \in Unwrapped(client_encrypt_msg(m).key)
                 <=> n \in InFeed /\ n.to = Me
                     /\ client_encrypt_msg(m).key = client_encrypt_msg(n).key
    BY <1>3 DEF Unwrapped
  <2> QED
    BY <1>2, <2>1
<1> QED
  BY <1>4

(* EVP_OpenInit gets the key and the initialisation vector of the message   *)
(* if it is for us, and fails if it is not.                                 *)
LEMMA OpenInitDecodes ==
  ASSUME LongestTextFits, IInv, [Next]_vars, HandlerInv, NEW h \in Conns, h \notin mixed,
         OpenInit(h), NEW m \in Short(h)
  PROVE  \E l1, l2, l3 : Decodes(h, m, l1, l2, l3)'
<1>1. PICK l1, l2, l3 : Decodes(h, m, l1, l2, l3)
  BY DEF HandlerInv
<1>2. Lies(h, m, l1, l2, l3) /\ WordsLie(h, m, l1, l2, l3)
  BY <1>1, WordsFoundAt DEF Decodes
<1>3. hpc[h] = "init" /\ chunk' = chunk /\ fields' = fields
  BY DEF OpenInit
<1>4. Base(h)' = Base(h) /\ Lies(h, m, l1, l2, l3)'
  BY <1>2, <1>3, LiesStay
<1>5. fields[h] = <<Word1(h, l1), NextTo(h, l1, l2), NextTo(h, l2, l3)>>
  BY <1>1, <1>3 DEF Decodes
<1>6. Bytes(fields[h][2]) = client_encrypt_msg(m).key
      /\ Bytes(fields[h][3]) = client_encrypt_msg(m).iv
  <2>1. fields[h][2] = NextTo(h, l1, l2) /\ fields[h][3] = NextTo(h, l2, l3)
    BY <1>5
  <2>2. WordOf(m, 2) = client_encrypt_msg(m).key /\ WordOf(m, 3) = client_encrypt_msg(m).iv
    BY DEF WordOf
  <2> QED
    BY <1>2, <2>1, <2>2 DEF WordsLie
<1>7. m \in Sent /\ m \in InFeed /\ SealedOf[m] = client_encrypt_msg(m)
  BY ShortLies, TextsOf
<1>8. Unwrapped(Bytes(fields[h][2])) = IF m.to = Me THEN {m} ELSE {}
  BY <1>6, <1>7, OwnKey DEF IInv
<1>9. Word1(h, l1)' = Word1(h, l1)
  BY <1>4 DEF Word1
<1>10. DOMAIN hpc = Conns /\ DOMAIN outcome = Conns
  BY DEF IInv, TypeOK, ReceiverTypeOK
<1>11. CASE m.to = Me
  <2>1. ctx' = [cipher |-> TRUE, key |-> m, fed |-> <<>>,
                ivRight |-> Bytes(fields[h][3]) = SealedOf[m].iv]
        /\ hpc' = [hpc EXCEPT ![h] = "update"]
    BY <1>8, <1>11 DEF OpenInit, Goto
  <2>2. ctx'.cipher /\ ctx'.key = m /\ ctx'.ivRight /\ ctx'.fed = <<>> /\ hpc'[h] = "update"
    BY <1>6, <1>7, <1>10, <2>1
  <2>3. Decodes(h, m, l1, l2, l3)'
    BY <1>3, <1>4, <1>5, <1>9, <1>11, <2>2 DEF Decodes, NextTo
  <2> QED
    BY <2>3
<1>12. CASE m.to # Me
  <2>1. Return(h, NoMsg)
    BY <1>8, <1>12 DEF OpenInit
  <2>2. outcome'[h] = NoMsg /\ hpc'[h] = "recv"
    BY <1>10, <2>1 DEF Return, Goto
  <2>3. Decodes(h, m, l1, l2, l3)'
    BY <1>4, <1>12, <2>2 DEF Decodes
  <2> QED
    BY <2>3
<1> QED
  BY <1>11, <1>12

(* EVP_OpenUpdate is given the encrypted text, and the byte too many.       *)
LEMMA OpenUpdateDecodes ==
  ASSUME IInv, [Next]_vars, HandlerInv, NEW h \in Conns, h \notin mixed,
         OpenUpdate(h), NEW m \in Short(h)
  PROVE  \E l1, l2, l3 : Decodes(h, m, l1, l2, l3)'
<1>1. PICK l1, l2, l3 : Decodes(h, m, l1, l2, l3)
  BY DEF HandlerInv
<1>2. /\ hpc[h] = "update" /\ chunk' = chunk /\ fields' = fields
      /\ ctx' = [ctx EXCEPT !.fed = Append(@, fields[h][1])]
      /\ hpc' = [hpc EXCEPT ![h] = "final"]
  BY DEF OpenUpdate, Goto
<1>3. Base(h)' = Base(h) /\ Lies(h, m, l1, l2, l3)'
  BY <1>1, <1>2, LiesStay DEF Decodes
<1>4. fields[h] = <<Word1(h, l1), NextTo(h, l1, l2), NextTo(h, l2, l3)>>
      /\ m.to = Me /\ ctx.cipher /\ ctx.key = m /\ ctx.ivRight /\ ctx.fed = <<>>
  BY <1>1, <1>2 DEF Decodes
<1>5. Word1(h, l1)' = Word1(h, l1)
  BY <1>3 DEF Word1
<1>6. fields[h][1] = Word1(h, l1)
  BY <1>4
<1>7. DOMAIN hpc = Conns /\ ctx \in Contexts
  BY DEF IInv, TypeOK, ReceiverTypeOK, Contexts
<1>8. ctx'.cipher = ctx.cipher /\ ctx'.key = ctx.key /\ ctx'.ivRight = ctx.ivRight
      /\ ctx'.fed = <<Word1(h, l1)>> /\ hpc'[h] = "final"
  <2> DEFINE q == Word1(h, l1)
  <2> HIDE DEF q
  <2>1. Append(ctx.fed, q) = <<q>>
    BY <1>4
  <2>2. ctx' = [ctx EXCEPT !.fed = Append(@, q)]
    BY <1>2, <1>6 DEF q
  <2>3. ctx'.fed = <<q>>
    BY <1>7, <2>1, <2>2 DEF Contexts
  <2>4. ctx'.cipher = ctx.cipher /\ ctx'.key = ctx.key /\ ctx'.ivRight = ctx.ivRight
    BY <1>7, <2>2 DEF Contexts
  <2>5. hpc'[h] = "final"
    BY <1>2, <1>7
  <2> QED
    BY <2>3, <2>4, <2>5 DEF q
<1>9. Decodes(h, m, l1, l2, l3)'
  BY <1>2, <1>3, <1>4, <1>5, <1>8 DEF Decodes, NextTo
<1> QED
  BY <1>9

(* EVP_OpenFinal gives the message, when no other thread has used the       *)
(* context.                                                                 *)
LEMMA OpenFinalDecodes ==
  ASSUME LongestTextFits, IInv, [Next]_vars, HandlerInv, NEW h \in Conns, h \notin mixed,
         OpenFinal(h), NEW m \in Short(h)
  PROVE  \E l1, l2, l3 : Decodes(h, m, l1, l2, l3)'
<1>1. PICK l1, l2, l3 : Decodes(h, m, l1, l2, l3)
  BY DEF HandlerInv
<1>2. hpc[h] = "final" /\ chunk' = chunk
  BY DEF OpenFinal
<1>3. Base(h)' = Base(h) /\ Lies(h, m, l1, l2, l3)' /\ WordsLie(h, m, l1, l2, l3)
  BY <1>1, <1>2, LiesStay, WordsFoundAt DEF Decodes
<1>4. fields[h] = <<Word1(h, l1), NextTo(h, l1, l2), NextTo(h, l2, l3)>>
      /\ m.to = Me /\ ctx.key = m /\ ctx.ivRight /\ ctx.fed = <<Word1(h, l1)>>
  BY <1>1, <1>2 DEF Decodes
<1>5. fields[h][1] = Word1(h, l1)
  BY <1>4
<1>6. m \in Sent /\ m \in Message /\ SealedOf[m] = client_encrypt_msg(m)
  BY ShortLies, TextsOf
<1>7. Intact(fields[h][1])
  <2>1. m # NoMsg
    BY <1>6, ReceiverAssumption
  <2>2. Front(Bytes(Word1(h, l1))) = client_encrypt_msg(m).msg
    BY <1>3, <1>6, WordTypes DEF WordsLie
  <2> QED
    BY <1>4, <1>5, <1>6, <2>1, <2>2 DEF Intact
<1>8. Return(h, m)
  BY <1>4, <1>7 DEF OpenFinal
<1>9. DOMAIN hpc = Conns /\ DOMAIN outcome = Conns
  BY DEF IInv, TypeOK, ReceiverTypeOK
<1>10. outcome'[h] = m /\ hpc'[h] = "recv"
  BY <1>8, <1>9 DEF Return, Goto
<1>11. Decodes(h, m, l1, l2, l3)'
  BY <1>3, <1>4, <1>10 DEF Decodes
<1> QED
  BY <1>11

(* A buffer that was just filled.                                           *)
FreshInv ==
  \A h \in Conns : hpc[h] \in {"msg", "done"} =>
    \A m \in Short(h) : \E l1, l2, l3 : Decodes(h, m, l1, l2, l3)

(* Nothing is to be shown of such a buffer but where the words lie.         *)
LEMMA Fresh == LongestTextFits /\ IInv => FreshInv
<1> SUFFICES ASSUME LongestTextFits, IInv, NEW h \in Conns, hpc[h] \in {"msg", "done"},
                    NEW m \in Short(h)
             PROVE  \E l1, l2, l3 : Decodes(h, m, l1, l2, l3)
  BY DEF FreshInv
<1>1. PICK l1, l2, l3 : Lies(h, m, l1, l2, l3)
  BY ShortLies
<1>2. Decodes(h, m, l1, l2, l3)
  BY <1>1 DEF Decodes
<1> QED
  BY <1>2

(* The same after a step.                                                   *)
LEMMA FreshNext == LongestTextFits /\ IInv' => FreshInv'
<1>1. (LongestTextFits /\ IInv => FreshInv)'
  BY Fresh, PTL
<1> QED
  BY <1>1 DEF LongestTextFits

(* What other threads do while h is not overlapped.                         *)
LEMMA OthersStay ==
  ASSUME IInv, [Next]_vars, NEW h \in Conns, h \notin mixed', hpc[h] \in Using,
         ~ Handler(h)
  PROVE  UNCHANGED <<static, ctx>>
<1>1. BusyInv /\ h \in busy /\ h # "name"
  BY ReceiverAssumption DEF IInv, BusyInv
<1>2. CASE \E g \in Conns \ {h} : FirstField(g)
  <2>1. PICK g \in Conns \ {h} : Enter(g)
    BY <1>2 DEF FirstField
  <2>2. h \in mixed'
    BY <1>1, <2>1 DEF Enter
  <2> QED
    BY <2>2
<1>3. CASE ParseIp
  <2>1. Enter("name")
    BY <1>3 DEF ParseIp
  <2>2. h \in mixed'
    BY <1>1, <2>1 DEF Enter
  <2> QED
    BY <2>2
<1>4. CASE \E g \in Conns \ {h} : NextField(g) \/ OpenInit(g) \/ OpenUpdate(g) \/ OpenFinal(g)
  <2>1. PICK g \in Conns \ {h} : NextField(g) \/ OpenInit(g) \/ OpenUpdate(g) \/ OpenFinal(g)
    BY <1>4
  <2>2. hpc[g] \in Using /\ mixed' = mixed
    BY <2>1 DEF NextField, OpenInit, OpenUpdate, OpenFinal, Using, Return, Leave, uvars
  <2>3. h \in mixed
    BY <1>1, <2>2 DEF BusyInv
  <2> QED
    BY <2>2, <2>3
<1>5. CASE ParsePort \/ ParseNext
  <2>1. npc \in {"port", "next"} /\ mixed' = mixed
    BY <1>5 DEF ParsePort, ParseNext, NextEntry, Leave, uvars
  <2>2. h \in mixed
    BY <1>1, <2>1 DEF BusyInv
  <2> QED
    BY <2>1, <2>2
<1>6. CASE ~ (\E g \in Conns \ {h} : FirstField(g) \/ NextField(g) \/ OpenInit(g)
                 \/ OpenUpdate(g) \/ OpenFinal(g))
           /\ ~ ParseIp /\ ~ ParsePort /\ ~ ParseNext
  BY <1>6 DEF Next, vars, others, Main, load_public_keys, load_private_key,
         init_server, connect_to_name_server, update_port, Join, Listen, Accept,
         name_server_handle, RecvPeers, RecvError, RecvEndOfServer, NsEnds,
         input_handle, Handler, client_handle, Recv, RecvEnd, UseCleanedUp
<1> QED
  BY <1>2, <1>3, <1>4, <1>5, <1>6

(* A thread that is not overlapped after a step that is not its own was not *)
(* before, and its buffer and fields are as they were.                      *)
LEMMA OthersFrame ==
  ASSUME IInv, [Next]_vars, NEW h \in Conns, h \notin mixed', ~ Handler(h), ~ Accept(h)
  PROVE  /\ h \notin mixed
         /\ hpc'[h] = hpc[h] /\ chunk'[h] = chunk[h] /\ fields'[h] = fields[h]
         /\ outcome'[h] = outcome[h]
<1>1. /\ DOMAIN hpc = Conns /\ DOMAIN chunk = Conns /\ DOMAIN fields = Conns
      /\ DOMAIN outcome = Conns /\ h # "name"
  BY ReceiverAssumption DEF IInv, TypeOK, ReceiverTypeOK
<1>2. CASE \E g \in Conns \ {h} : Handler(g)
  <2>1. PICK g \in Conns \ {h} : Handler(g)
    BY <1>2
  <2>2. CASE Recv(g) \/ RecvEnd(g) \/ UseCleanedUp(g) \/ OpenUpdate(g)
    BY <1>1, <2>2 DEF Recv, RecvEnd, UseCleanedUp, OpenUpdate, Goto, uvars, hvars
  <2>3. CASE FirstField(g)
    BY <1>1, <2>3 DEF FirstField, TakeField, Enter, Goto
  <2>4. CASE NextField(g)
    BY <1>1, <2>4 DEF NextField, TakeField, Goto, uvars
  <2>5. CASE OpenInit(g) \/ OpenFinal(g)
    BY <1>1, <2>5 DEF OpenInit, OpenFinal, Return, Leave, Goto, uvars
  <2> QED
    BY <2>1, <2>2, <2>3, <2>4, <2>5 DEF Handler, client_handle
<1>3. CASE \E g \in Conns \ {h} : Accept(g)
  BY <1>1, <1>3 DEF Accept, Goto, uvars
<1>4. CASE name_server_handle
  <2>1. UNCHANGED hvars
    BY <1>4 DEF name_server_handle, RecvPeers, RecvError, RecvEndOfServer, ParseIp, ParsePort,
       ParseNext, others
  <2>2. CASE ParseIp
    BY <1>1, <2>1, <2>2 DEF ParseIp, Enter, hvars
  <2>3. CASE ~ ParseIp
    <3>1. mixed' = mixed
      BY <1>4, <2>3 DEF name_server_handle, RecvPeers, RecvError, RecvEndOfServer, ParsePort,
         ParseNext, NextEntry, Leave, others, uvars
    <3> QED
      BY <2>1, <3>1 DEF hvars
  <2> QED
    BY <2>2, <2>3
<1>5. CASE Main \/ Listen \/ NsEnds \/ input_handle \/ UNCHANGED vars
  BY <1>5 DEF Main, load_public_keys, load_private_key, init_server, connect_to_name_server,
     update_port, Join, Listen, NsEnds, input_handle, vars, others, hvars, uvars
<1> QED
  BY <1>2, <1>3, <1>4, <1>5 DEF Next

(* Every step keeps HandlerInv.                                             *)
LEMMA HandlerKept ==
  ASSUME LongestTextFits, IInv, IInv', HandlerInv, [Next]_vars
  PROVE  HandlerInv'
<1> SUFFICES ASSUME NEW h \in Conns, h \notin mixed'
             PROVE  \A m \in Short(h)' : \E l1, l2, l3 : Decodes(h, m, l1, l2, l3)'
  BY DEF HandlerInv
<1>1. DOMAIN hpc = Conns /\ FeedInv
  BY DEF IInv, TypeOK, ReceiverTypeOK
<1>2. CASE ~ Handler(h) /\ ~ Accept(h)
  <2>1. /\ h \notin mixed
        /\ hpc'[h] = hpc[h] /\ chunk'[h] = chunk[h] /\ fields'[h] = fields[h]
        /\ outcome'[h] = outcome[h]
    BY <1>2, OthersFrame
  <2>2. hpc[h] \notin Using \/ UNCHANGED <<static, ctx>>
    BY <1>2, OthersStay
  <2> QED
    BY <2>1, <2>2, DecodesStay
<1>3. CASE Accept(h)
  <2>1. hpc[h] = "none" /\ h \notin mixed /\ chunk' = chunk
    BY <1>3 DEF Accept, uvars
  <2>2. Short(h)' = Short(h)
    BY <2>1, LiesStay
  <2>3. \A m \in Short(h) : FALSE
    BY <2>1 DEF HandlerInv, Decodes
  <2> QED
    BY <2>2, <2>3
<1>4. CASE Handler(h)
  <2>1. CASE Recv(h) \/ RecvEnd(h)
    <3>1. hpc'[h] \in {"msg", "done"}
      BY <1>1, <2>1 DEF Recv, RecvEnd, Goto
    <3> QED
      BY <3>1, FreshNext DEF FreshInv
  <2>2. CASE FirstField(h)
    <3>1. chunk' = chunk
      BY <2>2 DEF FirstField, TakeField
    <3>2. Short(h)' = Short(h)
      BY <3>1, LiesStay
    <3> QED
      BY <2>2, <3>2, FirstFieldDecodes
  <2>3. CASE NextField(h) \/ OpenInit(h) \/ OpenUpdate(h) \/ OpenFinal(h)
    <3>1. chunk' = chunk /\ mixed' = mixed
      BY <2>3 DEF NextField, TakeField, OpenInit, OpenUpdate, OpenFinal, Return, Leave, uvars
    <3>2. Short(h)' = Short(h)
      BY <3>1, LiesStay
    <3> QED
      BY <2>3, <3>1, <3>2, NextFieldDecodes, OpenInitDecodes, OpenUpdateDecodes, OpenFinalDecodes
  <2>4. CASE UseCleanedUp(h)
    <3>1. hpc[h] \in {"update", "final"} /\ ~ ctx.cipher /\ UNCHANGED <<hvars, uvars>>
      BY <2>4 DEF UseCleanedUp
    <3>2. Short(h)' = Short(h)
      BY <3>1, LiesStay DEF hvars
    <3>3. \A m \in Short(h) : FALSE
      BY <3>1 DEF HandlerInv, Decodes, uvars
    <3> QED
      BY <3>2, <3>3
  <2> QED
    BY <1>4, <2>1, <2>2, <2>3, <2>4 DEF Handler, client_handle
<1> QED
  BY <1>2, <1>3, <1>4

(* In the beginning nothing lies in a buffer.                               *)
LEMMA HandlerInit == LongestTextFits /\ Init => HandlerInv
<1> SUFFICES ASSUME LongestTextFits, Init, NEW h \in Conns, NEW m \in Short(h)
             PROVE  FALSE
  BY DEF HandlerInv
<1>1. PICK l1, l2, l3 : Lies(h, m, l1, l2, l3)
  BY InitInv, ShortLies
<1>2. chunk[h].first = 1 /\ chunk[h].last = 0
  BY DEF Init, ReceiverInit
<1> QED
  BY <1>1, <1>2, WireAssumption DEF Lies, Base

(* Both invariants always hold.                                             *)
LEMMA HandlerAlways ==
  ASSUME LongestTextFits
  PROVE  Spec => [](IInv /\ HandlerInv)
<1>1. Init => IInv /\ HandlerInv
  BY InitInv, HandlerInit
<1>2. (IInv /\ HandlerInv) /\ [Next]_vars => (IInv /\ HandlerInv)'
  <2>1. IInv /\ [Next]_vars => IInv'
    BY NextInv
  <2> QED
    BY <2>1, HandlerKept
<1> QED
  BY <1>1, <1>2, PTL DEF Spec

(* A handler that is not overlapped has what it received: for every size of *)
(* the blocks and keys, any messages and any interleaving of the handlers   *)
(* with each other and with the thread that parses the peers                *)
(* (client_parse_msg, msg_decode_decrypt).                                  *)
THEOREM AlwaysDecodes ==
  ASSUME LongestTextFits
  PROVE  Spec => []AloneDecodes
<1>1. IInv /\ HandlerInv => AloneDecodes
  <2> SUFFICES ASSUME IInv, HandlerInv, NEW h \in Conns, hpc[h] = "recv", h \notin mixed,
                      NEW m \in Whole(h), m.len <= LongestText
               PROVE  outcome[h] = IF m.to = Me THEN m ELSE NoMsg
    BY DEF AloneDecodes
  <2>1. m \in Short(h)
    BY DEF Short
  <2> QED
    BY <2>1 DEF HandlerInv, Decodes
<1> QED
  BY <1>1, HandlerAlways, PTL

(* The one step that can crash the process while it decodes.                *)
LEMMA CrashStep ==
  ASSUME Next, crashed' = "decode"
  PROVE  \E h \in Conns : FirstField(h) \/ NextField(h) \/ UseCleanedUp(h)
BY DEF Next, Running, Main, load_public_keys, load_private_key, init_server,
   connect_to_name_server, update_port, Join, Listen, Accept, name_server_handle, RecvPeers,
   RecvError, RecvEndOfServer, ParseIp, ParsePort, ParseNext, NsEnds, input_handle, Handler,
   client_handle, Recv, RecvEnd, OpenInit, OpenUpdate, OpenFinal

(* Every step keeps CrashInv.                                               *)
LEMMA CrashKept ==
  ASSUME LongestTextFits, IInv, HandlerInv, CrashInv, [Next]_vars
  PROVE  CrashInv'
<1>1. SUFFICES ASSUME crashed' = "decode", mixed' = {}
               PROVE  \E h \in busy' : \A m \in Whole(h)' : m.len > LongestText
  BY DEF CrashInv
<1>2. CASE UNCHANGED vars
  <2>1. UNCHANGED <<crashed, mixed, busy, feed, chunk, peers_msg>>
    BY <1>2 DEF vars, others, uvars, hvars
  <2>2. \A h : Whole(h)' = Whole(h)
    BY <2>1 DEF Whole, Start
  <2> QED
    BY <1>1, <2>1, <2>2 DEF CrashInv
<1>3. CASE Next
  <2>1. PICK h \in Conns : FirstField(h) \/ NextField(h) \/ UseCleanedUp(h)
    BY <1>1, <1>3, CrashStep
  <2>2. crashed = "no" /\ BusyInv /\ TypeOK
    BY <1>3 DEF Next, Running, IInv
  <2>3. chunk' = chunk /\ h \in busy'
    BY <2>1, <2>2 DEF FirstField, NextField, TakeField, UseCleanedUp, Enter, hvars, uvars,
       BusyInv, Using
  <2>4. Whole(h)' = Whole(h)
    <3>1. feed' = feed
      BY FeedKept
    <3> QED
      BY <2>3, <3>1 DEF Whole, Start
  <2>5. ASSUME NEW m \in Short(h) PROVE FALSE
    <3>1. CASE FirstField(h)
      BY <1>1, <2>2, <2>5, <3>1, FirstFieldDecodes
    <3>2. CASE NextField(h)
      <4>1. h \notin mixed
        BY <1>1, <3>2 DEF NextField, uvars
      <4> QED
        BY <1>1, <2>2, <2>5, <3>2, <4>1, NextFieldDecodes
    <3>3. CASE UseCleanedUp(h)
      <4>1. h \notin mixed /\ hpc[h] \in {"update", "final"} /\ ~ ctx.cipher
        BY <1>1, <3>3 DEF UseCleanedUp, uvars
      <4> QED
        BY <2>5, <4>1 DEF HandlerInv, Decodes
    <3> QED
      BY <2>1, <3>1, <3>2, <3>3
  <2>6. \A m \in Whole(h) : m.len > LongestText
    <3> SUFFICES ASSUME NEW m \in Whole(h) PROVE m.len > LongestText
      OBVIOUS
    <3>1. m \in Sent
      BY FeedTypes DEF Whole, IInv, FeedInv
    <3>2. m.len \in Nat
      BY <3>1, SentTypes DEF Message
    <3>3. ~ (m.len <= LongestText)
      BY <2>5 DEF Short
    <3> QED
      BY <3>2, <3>3, WireAssumption
  <2> QED
    BY <2>3, <2>4, <2>6
<1> QED
  BY <1>2, <1>3

(* The process dies of decoding only where two threads decode at a time, or *)
(* a recv did not begin with a whole message that fits: nothing else makes  *)
(* strtok return NULL to parse_str_encrypted_msg, or has a context cleaned  *)
(* up that is in use.                                                       *)
THEOREM AlwaysCrashNeedsCutOrMix ==
  ASSUME LongestTextFits
  PROVE  Spec => []CrashNeedsCutOrMix
<1>1. Init => CrashInv
  BY DEF Init, ReceiverInit, CrashInv
<1>2. (IInv /\ HandlerInv) /\ CrashInv /\ [Next]_vars => CrashInv'
  BY CrashKept
<1>3. CrashInv => CrashNeedsCutOrMix
  BY DEF CrashInv, CrashNeedsCutOrMix
<1> QED
  BY <1>1, <1>2, <1>3, HandlerAlways, PTL DEF Spec
===============================================================================
