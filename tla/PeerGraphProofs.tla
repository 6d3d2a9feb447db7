---------------------------- MODULE PeerGraphProofs ----------------------------
(***************************************************************************)
(* Proofs about PeerGraph, for any clients on the list, any order the      *)
(* shuffle brings them into and any minConnections: the shuffle, the       *)
(* edges, the search and what is sent.                                     *)
(***************************************************************************)
EXTENDS PeerGraph, FiniteSetTheorems, Recursion

-------------------------------------------------------------------------------
(* The inductive invariant. *)

(* The array is the list in another order, and the loop variables are where *)
(* manage_graph and combineNodesToGraph have them.                          *)
ArrayInv ==
  /\ size \in Nat \ {0}
  /\ client_list \in [1..size -> Clients]
  /\ \A j, k \in 1..size : client_list[j] = client_list[k] => j = k
  /\ group \in [1..size -> Clients]
  /\ \A j, k \in 1..size : group[j] = group[k] => j = k
  /\ \A j \in 1..size : \E k \in 1..size : group[j] = client_list[k]
  /\ counter \in 1..size
  /\ pc = "shuffle" => count = 1 /\ sub = 1
  /\ pc = "link" => size > 1 /\ count \in 1..size /\ sub \in 1..Subs

(* The clients that are at positions in S have their places there.          *)
Closed(S) == \A k \in S : \E j \in S : group[k] = client_list[j]

(* The positions that are not fixed yet are each in a cycle of its own, and *)
(* there is no cycle without one of them.                                   *)
CycleInv ==
  /\ \A S \in SUBSET (1..size) : S # {} /\ Closed(S) => \E k \in S : k <= counter
  /\ \A j \in 1..counter :
       \E C \in SUBSET (1..size) :
         Closed(C) /\ j \in C /\ \A k \in C : k <= counter => k = j
  /\ pc # "shuffle" => counter = 1

(* Often, of a node's array.                                                *)
HowOften(array, n) == Cardinality({k \in 1..Len(array) : array[k] = n})

(* Edges have two ends: each node has the other as often.                   *)
EdgeInv ==
  /\ connections \in [Clients -> Seq(Clients)]
  /\ \A c, d \in Clients :
       HowOften(connections[c], d) = HowOften(connections[d], c)

(* The inductive invariant of the shuffle and the edges.                    *)
IInv == ArrayInv /\ CycleInv /\ EdgeInv

-------------------------------------------------------------------------------
(* In the beginning. *)

(* It holds in the beginning.                                               *)
LEMMA InitIInv == Init => IInv
<1> SUFFICES ASSUME NEW list \in Lists, Start(list), pc = "shuffle"
             PROVE  IInv
  BY DEF Init
<1>1. PICK n \in 1..Cardinality(Clients) : list \in [1..n -> Clients]
  BY DEF Lists
<1>2. n \in Nat \ {0} /\ Len(list) = n
  <2>1. n \in Int /\ n >= 1
    BY <1>1
  <2> QED
    BY <1>1, <2>1
<1>3. \A j, k \in 1..n : list[j] = list[k] => j = k
  BY <1>1 DEF Lists
<1>4. /\ client_list = list /\ group = list /\ counter = n /\ count = 1 /\ sub = 1
      /\ connections = [c \in Clients |-> <<>>] /\ size = n
  BY <1>2 DEF Start, size
<1>5. ArrayInv
  BY <1>1, <1>2, <1>3, <1>4 DEF ArrayInv
<1>6. CycleInv
  <2>1. ASSUME NEW S \in SUBSET (1..size), S # {} PROVE \E k \in S : k <= counter
    <3>1. PICK k \in S : TRUE
      BY <2>1
    <3>2. k \in 1..n
      BY <1>4
    <3> QED
      BY <1>2, <1>4, <3>2
  <2>2. ASSUME NEW j \in 1..counter
        PROVE  Closed({j}) /\ {j} \in SUBSET (1..size)
    BY <1>2, <1>4 DEF Closed
  <2> QED
    BY <2>1, <2>2 DEF CycleInv
<1>7. EdgeInv
  BY <1>4 DEF EdgeInv, HowOften
<1> QED
  BY <1>5, <1>6, <1>7 DEF IInv

-------------------------------------------------------------------------------
(* The shuffle. *)

(* What exchanging two places of the array does.                            *)
LEMMA ExchangeResult ==
  ASSUME ArrayInv, NEW num \in 1..size, NEW j \in 1..size, num # j,
         group' = Exchange(group, num, j)
  PROVE  /\ group' \in [1..size -> Clients]
         /\ group'[num] = group[j] /\ group'[j] = group[num]
         /\ \A k \in 1..size : k # num /\ k # j => group'[k] = group[k]
BY DEF ArrayInv, Exchange

(* Two cycles become one when an element of each is exchanged.              *)
LEMMA ShuffleStep ==
  ASSUME ArrayInv, CycleInv, NEW num \in 1..(counter - 1), counter > 1,
         group' = Exchange(group, num, counter), counter' = counter - 1,
         client_list' = client_list, pc = "shuffle", pc' = pc
  PROVE  CycleInv'
<1>1. /\ counter \in 1..size /\ size \in Nat /\ size' = size
      /\ num \in 1..size /\ num < counter
      /\ \A j, k \in 1..size : client_list[j] = client_list[k] => j = k
  BY DEF ArrayInv, size
<1>2. /\ group'[num] = group[counter] /\ group'[counter] = group[num]
      /\ \A k \in 1..size : k # num /\ k # counter => group'[k] = group[k]
  BY <1>1, ExchangeResult
<1>3. \A S : Closed(S)' <=> \A k \in S : \E j \in S : group'[k] = client_list[j]
  BY DEF Closed
<1>4. ASSUME NEW S \in SUBSET (1..size), S # {},
             \A k \in S : \E j \in S : group'[k] = client_list[j]
      PROVE  \E k \in S : k <= counter - 1
  <2>1. CASE num \in S
    BY <1>1, <2>1
  <2>2. CASE num \notin S /\ counter \notin S
    <3>1. Closed(S)
      BY <1>2, <1>4, <2>2 DEF Closed
    <3>2. PICK k \in S : k <= counter
      BY <1>4, <3>1 DEF CycleInv
    <3> QED
      BY <1>1, <2>2, <3>2
  <2>3. CASE num \notin S /\ counter \in S
    <3>1. PICK C \in SUBSET (1..size) :
            Closed(C) /\ num \in C /\ \A k \in C : k <= counter => k = num
      BY <1>1 DEF CycleInv
    <3>2. counter \notin C
      BY <1>1, <3>1
    <3>3. ASSUME NEW k \in S \cap C PROVE \E j \in S \cap C : group[k] = client_list[j]
      <4>1. k # num /\ k # counter /\ group'[k] = group[k]
        BY <1>2, <2>3, <3>2
      <4>2. PICK j \in S : group[k] = client_list[j]
        BY <1>4, <4>1
      <4>3. PICK h \in C : group[k] = client_list[h]
        BY <3>1 DEF Closed
      <4> QED
        BY <1>1, <4>2, <4>3
    <3>4. S \cap C = {}
      <4>1. Closed(S \cap C)
        BY <3>3 DEF Closed
      <4>2. S \cap C # {} => \E k \in S \cap C : k <= counter
        BY <4>1 DEF CycleInv
      <4> QED
        BY <2>3, <3>1, <4>2
    <3>5. PICK j \in S : group[num] = client_list[j]
      BY <1>2, <1>4, <2>3
    <3>6. PICK h \in C : group[num] = client_list[h]
      BY <3>1 DEF Closed
    <3> QED
      BY <1>1, <3>4, <3>5, <3>6
  <2> QED
    BY <2>1, <2>2, <2>3
<1>5. ASSUME NEW j \in 1..(counter - 1)
      PROVE  \E C \in SUBSET (1..size) :
               /\ \A k \in C : \E h \in C : group'[k] = client_list[h]
               /\ j \in C /\ \A k \in C : k <= counter - 1 => k = j
  <2>1. j \in 1..counter /\ counter \in 1..counter /\ j < counter
    BY <1>1
  <2>2. PICK C \in SUBSET (1..size) :
          Closed(C) /\ j \in C /\ \A k \in C : k <= counter => k = j
    BY <2>1 DEF CycleInv
  <2>3. CASE j # num
    <3>1. num \notin C /\ counter \notin C
      BY <1>1, <2>1, <2>2, <2>3
    <3>2. \A k \in C : group'[k] = group[k]
      BY <1>2, <3>1
    <3>3. \A k \in C : \E h \in C : group'[k] = client_list[h]
      BY <2>2, <3>2 DEF Closed
    <3>4. \A k \in C : k <= counter - 1 => k = j
      BY <1>1, <2>2
    <3> WITNESS C \in SUBSET (1..size)
    <3> QED
      BY <2>2, <3>3, <3>4
  <2>4. CASE j = num
    <3>1. PICK D \in SUBSET (1..size) :
            Closed(D) /\ counter \in D /\ \A k \in D : k <= counter => k = counter
      BY <2>1 DEF CycleInv
    <3>2. \A k \in C \union D : \E h \in C \union D : group[k] = client_list[h]
      BY <2>2, <3>1 DEF Closed
    <3>3. \A k \in C \union D : \E h \in C \union D : group'[k] = client_list[h]
      BY <1>2, <2>2, <2>4, <3>1, <3>2
    <3>4. \A k \in C \union D : k <= counter - 1 => k = j
      BY <1>1, <2>2, <3>1
    <3>5. j \in C \union D /\ C \union D \in SUBSET (1..size)
      BY <2>2
    <3> WITNESS C \union D \in SUBSET (1..size)
    <3> QED
      BY <3>3, <3>4, <3>5
  <2> QED
    BY <2>3, <2>4
<1> QED
  BY <1>1, <1>3, <1>4, <1>5 DEF CycleInv

(* After the shuffle the cycles stay.                                       *)
LEMMA SameCycles ==
  ASSUME CycleInv, UNCHANGED <<client_list, group, counter>>,
         pc' = "shuffle" \/ counter = 1
  PROVE  CycleInv'
<1>1. size' = size
  BY DEF size
<1>2. \A S : Closed(S)' <=> Closed(S)
  BY DEF Closed
<1> HIDE DEF Closed
<1> QED
  BY <1>1, <1>2 DEF CycleInv

-------------------------------------------------------------------------------
(* The edges. *)

(* How often a node is in an array is a number.                             *)
LEMMA HowOftenType ==
  ASSUME NEW s \in Seq(Clients), NEW n
  PROVE  /\ IsFiniteSet({k \in 1..Len(s) : s[k] = n})
         /\ HowOften(s, n) \in Nat
<1>1. IsFiniteSet(1..Len(s)) /\ {k \in 1..Len(s) : s[k] = n} \in SUBSET (1..Len(s))
  BY FS_Interval
<1> QED
  BY <1>1, FS_Subset, FS_CardinalityType DEF HowOften

(* Adding a node adds one for this node.                                    *)
LEMMA HowOftenAppend ==
  ASSUME NEW s \in Seq(Clients), NEW d \in Clients, NEW n
  PROVE  HowOften(Append(s, d), n) = IF n = d THEN HowOften(s, n) + 1
                                              ELSE HowOften(s, n)
<1> DEFINE K == {k \in 1..Len(s) : s[k] = n}
           L == {k \in 1..Len(Append(s, d)) : Append(s, d)[k] = n}
<1>1. IsFiniteSet(K) /\ Len(s) + 1 \notin K
  <2>1. IsFiniteSet(K)
    BY HowOftenType, Zenon
  <2>2. Len(s) \in Nat
    OBVIOUS
  <2>3. Len(s) + 1 \notin 1..Len(s)
    BY <2>2
  <2> QED
    BY <2>1, <2>3
<1>2. /\ Len(Append(s, d)) = Len(s) + 1 /\ Len(s) \in Nat
      /\ \A k \in 1..Len(s) : Append(s, d)[k] = s[k]
      /\ Append(s, d)[Len(s) + 1] = d
  OBVIOUS
<1>3. CASE n = d
  <2>1. L = K \union {Len(s) + 1}
    BY <1>2, <1>3
  <2> QED
    BY <1>1, <1>3, <2>1, FS_AddElement DEF HowOften
<1>4. CASE n # d
  <2>1. L = K
    BY <1>2, <1>4
  <2> QED
    BY <1>4, <2>1 DEF HowOften
<1> QED
  BY <1>3, <1>4

(* combineNodesToGraph stays inside the array.                              *)
LEMMA PartnerInArray ==
  ASSUME ArrayInv, pc = "link"
  PROVE  Partner \in 1..size
<1>1. /\ size \in Nat /\ size > 1 /\ count \in 1..size /\ sub \in 1..Subs
      /\ minConnections \in Nat
  BY GraphAssumption DEF ArrayInv
<1>2. CASE Few
  <2>1. Subs = size - 1
    BY <1>1, <1>2 DEF Subs, Few
  <2> QED
    BY <1>1, <1>2, <2>1 DEF Partner
<1>3. CASE ~ Few
  BY <1>1, <1>3 DEF Partner, Subs
<1> QED
  BY <1>2, <1>3

(* Both ends get the edge, or neither.                                      *)
LEMMA EdgeStep ==
  ASSUME EdgeInv, NEW uno \in Clients, NEW dos \in Clients, addConnection(uno, dos)
  PROVE  EdgeInv'
<1>1. CASE uno = dos
  BY <1>1 DEF EdgeInv, addConnection
<1>2. CASE uno # dos
  <2>1. /\ connections' \in [Clients -> Seq(Clients)]
        /\ connections'[uno] = Append(connections[uno], dos)
        /\ connections'[dos] = Append(connections[dos], uno)
        /\ \A c \in Clients : c # uno /\ c # dos => connections'[c] = connections[c]
    <3>1. /\ connections \in [Clients -> Seq(Clients)]
          /\ connections' = [connections EXCEPT ![uno] = Append(connections[uno], dos),
                                                ![dos] = Append(connections[dos], uno)]
      BY <1>2 DEF EdgeInv, addConnection
    <3>2. /\ Append(connections[uno], dos) \in Seq(Clients)
          /\ Append(connections[dos], uno) \in Seq(Clients)
      BY <3>1
    <3> QED
      BY <1>2, <3>1, <3>2
  <2>2. \A c \in Clients : connections[c] \in Seq(Clients)
    BY DEF EdgeInv
  <2>3. ASSUME NEW c \in Clients, NEW d \in Clients
        PROVE  HowOften(connections'[c], d) =
                 IF {c, d} = {uno, dos} THEN HowOften(connections[c], d) + 1
                                        ELSE HowOften(connections[c], d)
    <3>1. CASE c = uno
      <4>1. HowOften(Append(connections[uno], dos), d) =
              IF d = dos THEN HowOften(connections[uno], d) + 1
                         ELSE HowOften(connections[uno], d)
        BY <2>2, HowOftenAppend
      <4>2. {c, d} = {uno, dos} <=> d = dos
        BY <1>2, <3>1
      <4> QED
        BY <2>1, <3>1, <4>1, <4>2
    <3>2. CASE c = dos
      <4>1. HowOften(Append(connections[dos], uno), d) =
              IF d = uno THEN HowOften(connections[dos], d) + 1
                         ELSE HowOften(connections[dos], d)
        BY <2>2, HowOftenAppend
      <4>2. {c, d} = {uno, dos} <=> d = uno
        BY <1>2, <3>2
      <4> QED
        BY <2>1, <3>2, <4>1, <4>2
    <3>3. CASE c # uno /\ c # dos
      BY <2>1, <3>3
    <3> QED
      BY <3>1, <3>2, <3>3
  <2>4. ASSUME NEW c \in Clients, NEW d \in Clients
        PROVE  HowOften(connections'[c], d) = HowOften(connections'[d], c)
    <3>1. HowOften(connections[c], d) = HowOften(connections[d], c)
      BY DEF EdgeInv
    <3>2. {c, d} = {d, c}
      OBVIOUS
    <3>3. /\ HowOften(connections'[c], d) =
               IF {c, d} = {uno, dos} THEN HowOften(connections[c], d) + 1
                                      ELSE HowOften(connections[c], d)
          /\ HowOften(connections'[d], c) =
               IF {d, c} = {uno, dos} THEN HowOften(connections[d], c) + 1
                                      ELSE HowOften(connections[d], c)
      BY <2>3
    <3> QED
      BY <3>1, <3>2, <3>3
  <2> QED
    BY <2>1, <2>4 DEF EdgeInv
<1> QED
  BY <1>1, <1>2

-------------------------------------------------------------------------------
(* The steps. *)

(* Every step keeps the invariant.                                          *)
LEMMA StepIInv ==
  ASSUME IInv, [Next]_vars
  PROVE  IInv'
<1> USE DEF IInv
<1>1. CASE Shuffle
  <2>1. PICK num \in 1..(counter - 1) : group' = Exchange(group, num, counter)
    BY <1>1 DEF Shuffle
  <2>2. /\ counter > 1 /\ counter \in 1..size /\ counter' = counter - 1
        /\ UNCHANGED <<client_list, pc, count, sub, connections>> /\ pc = "shuffle"
        /\ size' = size /\ size \in Nat \ {0}
    BY <1>1 DEF Shuffle, ArrayInv, size
  <2>3. num \in 1..size /\ num # counter
    BY <2>2
  <2>4. /\ group' \in [1..size -> Clients]
        /\ group'[num] = group[counter] /\ group'[counter] = group[num]
        /\ \A k \in 1..size : k # num /\ k # counter => group'[k] = group[k]
    BY <2>1, <2>2, <2>3, ExchangeResult
  <2> DEFINE from(j) == IF j = num THEN counter ELSE IF j = counter THEN num ELSE j
  <2>5. \A j \in 1..size : from(j) \in 1..size /\ group'[j] = group[from(j)]
    BY <2>2, <2>3, <2>4
  <2>6. \A j, k \in 1..size : group'[j] = group'[k] => j = k
    <3>1. \A j, k \in 1..size : group[from(j)] = group[from(k)] => from(j) = from(k)
      BY <2>5 DEF ArrayInv
    <3>2. \A j, k \in 1..size : from(j) = from(k) => j = k
      BY <2>3
    <3> QED
      BY <2>5, <3>1, <3>2
  <2>7. \A j \in 1..size : \E k \in 1..size : group'[j] = client_list[k]
    <3>1. \A j \in 1..size : \E k \in 1..size : group[j] = client_list[k]
      BY DEF ArrayInv
    <3> HIDE DEF from
    <3> QED
      BY <2>5, <3>1
  <2> HIDE DEF from
  <2>9. counter' \in 1..size
    BY <2>2
  <2>10. /\ client_list \in [1..size -> Clients]
         /\ \A j, k \in 1..size : client_list[j] = client_list[k] => j = k
         /\ count = 1 /\ sub = 1
    BY <2>2 DEF ArrayInv
  <2>11. ArrayInv'
    <3>1. /\ size' = size /\ client_list' = client_list
          /\ pc' = pc /\ count' = count /\ sub' = sub
          /\ size' \in Nat \ {0} /\ pc' = "shuffle"
      BY <2>2
    <3>2. /\ client_list' \in [1..size' -> Clients]
          /\ \A j, k \in 1..size' : client_list'[j] = client_list'[k] => j = k
      BY <2>10, <3>1
    <3>3. /\ group' \in [1..size' -> Clients]
          /\ \A j, k \in 1..size' : group'[j] = group'[k] => j = k
          /\ \A j \in 1..size' : \E k \in 1..size' : group'[j] = client_list'[k]
      BY <2>4, <2>6, <2>7, <3>1
    <3>4. counter' \in 1..size'
      BY <2>9, <3>1
    <3> QED
      BY <2>10, <3>1, <3>2, <3>3, <3>4 DEF ArrayInv
  <2>8. CycleInv'
    BY <2>1, <2>2, ShuffleStep
  <2> QED
    BY <2>2, <2>8, <2>11 DEF EdgeInv
<1>2. CASE Shuffled
  <2>1. /\ UNCHANGED <<client_list, group, counter, count, sub, connections>>
        /\ counter = 1 /\ count = 1 /\ sub = 1 /\ size' = size /\ size \in Nat \ {0}
        /\ pc' = IF size = 1 THEN "next" ELSE "link"
    BY <1>2 DEF Shuffled, ArrayInv, size
  <2>2. size > 1 => 1 \in 1..Subs
    BY <2>1, GraphAssumption DEF Subs, Few
  <2>3. Subs' = Subs
    BY <2>1 DEF Subs, Few
  <2>4. ArrayInv'
    BY <2>1, <2>2, <2>3 DEF ArrayInv
  <2>5. CycleInv'
    BY <2>1, SameCycles
  <2> QED
    BY <2>1, <2>4, <2>5 DEF EdgeInv
<1>3. CASE Link
  <2>1. /\ UNCHANGED <<client_list, group, counter>> /\ size' = size
        /\ pc = "link" /\ pc' \in {"link", "next"}
    BY <1>3 DEF Link, size
  <2>2. group[count] \in Clients /\ group[Partner] \in Clients
    BY <2>1, PartnerInArray DEF ArrayInv
  <2>3. EdgeInv'
    BY <1>3, <2>2, EdgeStep DEF Link
  <2>4. Subs' = Subs
    BY <2>1 DEF Subs, Few
  <2>5. Subs \in Nat \ {0}
    BY <2>1, GraphAssumption DEF ArrayInv, Subs, Few
  <2>6. pc' = "link" => count' \in 1..size /\ sub' \in 1..Subs
    <3>1. count \in 1..size /\ sub \in 1..Subs /\ size \in Nat
      BY <2>1 DEF ArrayInv
    <3>2. \/ sub < Subs /\ sub' = sub + 1 /\ count' = count
          \/ ~ (sub < Subs) /\ sub' = 1 /\ count' = count + 1
      BY <1>3 DEF Link
    <3>3. pc' = "link" => ~ (sub = Subs /\ count = size)
      BY <1>3 DEF Link
    <3> QED
      BY <2>5, <3>1, <3>2, <3>3
  <2>7. ArrayInv'
    BY <2>1, <2>4, <2>6 DEF ArrayInv
  <2>8. CycleInv'
    BY <2>1, SameCycles DEF CycleInv
  <2> QED
    BY <2>3, <2>7, <2>8
<1>4. CASE NextClient \/ Search \/ client_send_peers
  <2>1. /\ UNCHANGED <<client_list, group, counter, connections>> /\ size' = size
        /\ pc # "shuffle" /\ pc' \notin {"shuffle", "link"}
    BY <1>4 DEF NextClient, Search, client_send_peers, size
  <2>2. ArrayInv'
    BY <2>1 DEF ArrayInv
  <2>3. CycleInv'
    BY <2>1, SameCycles DEF CycleInv
  <2> QED
    BY <2>1, <2>2, <2>3 DEF EdgeInv
<1>5. CASE UNCHANGED vars
  <2>1. UNCHANGED <<client_list, group, counter, count, sub, connections, pc>> /\ size' = size
    BY <1>5 DEF vars, size
  <2>2. Subs' = Subs
    BY <2>1 DEF Subs, Few
  <2>3. ArrayInv'
    BY <2>1, <2>2 DEF ArrayInv
  <2>4. CycleInv'
    BY <2>1, SameCycles DEF CycleInv
  <2> QED
    BY <2>1, <2>3, <2>4 DEF EdgeInv
<1> QED
  BY <1>1, <1>2, <1>3, <1>4, <1>5 DEF Next

(* The invariant always holds.                                              *)
LEMMA Invariance == Spec => []IInv
BY InitIInv, StepIInv, PTL DEF Spec

-------------------------------------------------------------------------------
(* The theorems. *)

(* For any number of clients the shuffle gives an order in which no set of  *)
(* clients, and no single one, has kept its places: never all orders.       *)
THEOREM AlwaysOneCycle == Spec => []OneCycle
<1>1. ASSUME IInv PROVE OneCycle
  <2> USE <1>1 DEF IInv
  <2> SUFFICES ASSUME pc # "shuffle", NEW S \in (SUBSET (1..size)) \ {{}, 1..size},
                      {group[k] : k \in S} = {client_list[k] : k \in S}
               PROVE  FALSE
    BY DEF OneCycle
  <2> DEFINE T == (1..size) \ S
  <2>1. counter = 1 /\ size \in Nat /\ T # {} /\ T \in SUBSET (1..size) /\ S # {}
    BY DEF CycleInv, ArrayInv
  <2>2. /\ \A k \in S : \E j \in S : group[k] = client_list[j]
        /\ \A j \in S : \E k \in S : client_list[j] = group[k]
    OBVIOUS
  <2>3. 1 \in S
    <3>1. Closed(S)
      BY <2>2 DEF Closed
    <3>2. PICK k \in S : k <= 1
      BY <2>1, <3>1 DEF CycleInv
    <3> QED
      BY <2>1, <3>2
  <2>4. ASSUME NEW k \in T PROVE \E j \in T : group[k] = client_list[j]
    <3>1. PICK j \in 1..size : group[k] = client_list[j]
      BY DEF ArrayInv
    <3>2. j \notin S
      BY <2>2, <3>1 DEF ArrayInv
    <3> QED
      BY <3>1, <3>2
  <2> HIDE DEF T
  <2>5. 1 \in T
    <3>1. Closed(T)
      BY <2>4 DEF Closed
    <3>2. PICK k \in T : k <= 1
      BY <2>1, <3>1 DEF CycleInv
    <3> QED
      BY <2>1, <3>2
  <2> QED
    BY <2>3, <2>5 DEF T
<1> QED
  BY <1>1, Invariance, PTL

(* However often an edge is made, and from whichever end, both of its ends  *)
(* have it equally often.                                                   *)
THEOREM AlwaysTwoWay == Spec => []TwoWay
<1>1. ASSUME IInv PROVE TwoWay
  <2>1. Members \subseteq Clients
    BY <1>1 DEF IInv, ArrayInv, Members
  <2>2. \A c, d \in Clients : Often(c, d) = HowOften(connections[c], d)
    BY DEF Often, HowOften
  <2> QED
    BY <1>1, <2>1, <2>2 DEF IInv, EdgeInv, TwoWay
<1> QED
  BY <1>1, Invariance, PTL

-------------------------------------------------------------------------------
(* What the two loops over a list return. *)

(* Seen, of any list of nodes seen and any edges.                           *)
Collect(nodes, edges) ==
  LET seen[j \in 0..Len(edges)] ==
        IF j = 0 THEN nodes
        ELSE LET before == seen[j - 1]
             IN  IF Contains(before, edges[j]) THEN before ELSE Append(before, edges[j])
  IN  seen[Len(edges)]

(* client_peers_static, of any list.                                        *)
Others(list, c) ==
  LET peers[k \in 0..Len(list)] ==
        IF k = 0 THEN <<>>
        ELSE IF list[k] = c THEN peers[k - 1]
        ELSE Append(peers[k - 1], list[k])
  IN  peers[Len(list)]

(* Appending to an array, and to the set of its nodes.                      *)
LEMMA AppendSet ==
  ASSUME NEW s \in Seq(Clients), NEW d \in Clients
  PROVE  /\ Append(s, d) \in Seq(Clients)
         /\ Len(Append(s, d)) = Len(s) + 1
         /\ \A i \in 1..Len(s) : Append(s, d)[i] = s[i]
         /\ ToSet(Append(s, d)) = ToSet(s) \union {d}
<1>1. /\ Append(s, d) \in Seq(Clients)
      /\ Len(Append(s, d)) = Len(s) + 1 /\ Len(s) \in Nat
      /\ DOMAIN Append(s, d) = 1..(Len(s) + 1) /\ DOMAIN s = 1..Len(s)
      /\ \A i \in 1..Len(s) : Append(s, d)[i] = s[i]
      /\ Append(s, d)[Len(s) + 1] = d
  OBVIOUS
<1>2. 1..(Len(s) + 1) = (1..Len(s)) \union {Len(s) + 1}
  BY <1>1
<1>3. \A x : x \in ToSet(Append(s, d)) <=> x \in ToSet(s) \union {d}
  BY <1>1, <1>2 DEF ToSet
<1> QED
  BY <1>1, <1>3

(* What is in f after round k of the loop over the edges. *)
LEMMA CollectResult ==
  ASSUME NEW nodes \in Seq(Clients), NEW edges \in Seq(Clients)
  PROVE  /\ Collect(nodes, edges) \in Seq(Clients)
         /\ Len(Collect(nodes, edges)) >= Len(nodes)
         /\ \A i \in 1..Len(nodes) : Collect(nodes, edges)[i] = nodes[i]
         /\ ToSet(Collect(nodes, edges)) = ToSet(nodes) \union ToSet(edges)
<1> DEFINE n == Len(edges)
           Step(s, j) == IF Contains(s, edges[j]) THEN s ELSE Append(s, edges[j])
           G == [x \in (1..n) \X Seq(Clients) |-> Step(x[2], x[1])]
           Def(f) == f = [j \in 0..n |-> IF j = 0 THEN nodes ELSE Step(f[j - 1], j)]
           h == CHOOSE f : Def(f)
<1>1. n \in Nat /\ \A j \in 1..n : edges[j] \in Clients
  OBVIOUS
<1>2. \A j \in 1..n : \A s \in Seq(Clients) : Step(s, j) \in Seq(Clients)
  BY <1>1, AppendSet
<1>3. \A j \in 1..n : \A s \in Seq(Clients) : G[<<j, s>>] = Step(s, j)
  OBVIOUS
<1>4. G \in [(1..n) \X Seq(Clients) -> Seq(Clients)]
  <2> HIDE DEF Step
  <2> QED
    BY <1>2
<1>5. Collect(nodes, edges) = h[n]
  BY DEF Collect
<1> HIDE DEF G, Step, n
<1>6. PICK f : Loops(f, n, Seq(Clients), nodes, G)
  BY <1>1, <1>4, LoopExists
<1>7. Def(f)
  <2>1. ASSUME NEW j \in 0..n
        PROVE  f[j] = IF j = 0 THEN nodes ELSE Step(f[j - 1], j)
    <3>1. CASE j = 0
      BY <1>6, <3>1 DEF Loops
    <3>2. CASE j # 0
      <4>1. j \in 1..n /\ j - 1 \in 0..n
        BY <1>1, <3>2
      <4>2. f[j] = G[<<j, f[j - 1]>>] /\ f[j - 1] \in Seq(Clients)
        BY <1>6, <4>1 DEF Loops
      <4> QED
        BY <1>3, <3>2, <4>1, <4>2
    <3> QED
      BY <3>1, <3>2
  <2> QED
    BY <1>6, <2>1 DEF Loops
<1>8. Def(h)
  <2> HIDE DEF Def
  <2> QED
    BY <1>7
<1> HIDE DEF h
<1>9. h[0] = nodes
  BY <1>1, <1>8
<1>10. \A j \in 1..n : h[j] = Step(h[j - 1], j)
  BY <1>1, <1>8
<1> DEFINE Good(j) == /\ h[j] \in Seq(Clients)
                      /\ Len(h[j]) >= Len(nodes)
                      /\ \A i \in 1..Len(nodes) : h[j][i] = nodes[i]
                      /\ ToSet(h[j]) = ToSet(nodes) \union {edges[i] : i \in 1..j}
           N == {j \in 0..n : Good(j)}
<1>11. 0 \in N
  BY <1>1, <1>9
<1>12. ASSUME NEW j \in 1..n, j - 1 \in N PROVE j \in N
  <2>1. Good(j - 1) /\ edges[j] \in Clients
    BY <1>1, <1>12
  <2>2. {edges[i] : i \in 1..j} = {edges[i] : i \in 1..(j - 1)} \union {edges[j]}
    <3>1. 1..j = (1..(j - 1)) \union {j}
      BY <1>1
    <3> QED
      BY <3>1
  <2>3. CASE Contains(h[j - 1], edges[j])
    <3>1. h[j] = h[j - 1]
      BY <1>10, <2>3 DEF Step
    <3>2. edges[j] \in ToSet(h[j - 1])
      BY <2>1, <2>3 DEF Contains, ToSet
    <3>3. ToSet(h[j]) = ToSet(nodes) \union {edges[i] : i \in 1..j}
      BY <2>1, <2>2, <3>1, <3>2
    <3> QED
      BY <1>1, <2>1, <3>1, <3>3
  <2>4. CASE ~ Contains(h[j - 1], edges[j])
    <3>1. h[j] = Append(h[j - 1], edges[j])
      BY <1>10, <2>4 DEF Step
    <3>2. /\ h[j] \in Seq(Clients) /\ Len(h[j]) = Len(h[j - 1]) + 1
          /\ \A i \in 1..Len(h[j - 1]) : h[j][i] = h[j - 1][i]
          /\ ToSet(h[j]) = ToSet(h[j - 1]) \union {edges[j]}
      BY <2>1, <3>1, AppendSet
    <3>3. ToSet(h[j]) = ToSet(nodes) \union {edges[i] : i \in 1..j}
      BY <2>1, <2>2, <3>2
    <3>4. Len(h[j]) >= Len(nodes) /\ \A i \in 1..Len(nodes) : h[j][i] = nodes[i]
      BY <2>1, <3>2
    <3> QED
      BY <1>1, <3>2, <3>3, <3>4
  <2> QED
    BY <2>3, <2>4
<1> HIDE DEF N, Good
<1>13. 0..n \subseteq N
  BY <1>1, <1>11, <1>12, RangeInduction
<1>14. Good(n)
  BY <1>1, <1>13 DEF N
<1>15. ToSet(edges) = {edges[i] : i \in 1..n}
  BY DEF ToSet, n
<1> QED
  BY <1>5, <1>14, <1>15 DEF Good

(* Everyone but c, in a list without repetitions of which c is the m-th.    *)
LEMMA OthersResult ==
  ASSUME NEW list \in Seq(Clients), NEW c, NEW m \in 1..Len(list), list[m] = c,
         \A j, k \in 1..Len(list) : list[j] = list[k] => j = k
  PROVE  /\ Others(list, c) \in Seq(Clients)
         /\ ToSet(Others(list, c)) = ToSet(list) \ {c}
         /\ Len(Others(list, c)) = Len(list) - 1
<1> DEFINE n == Len(list)
           Step(s, k) == IF list[k] = c THEN s ELSE Append(s, list[k])
           G == [x \in (1..n) \X Seq(Clients) |-> Step(x[2], x[1])]
           Def(f) == f = [k \in 0..n |-> IF k = 0 THEN <<>> ELSE Step(f[k - 1], k)]
           h == CHOOSE f : Def(f)
<1>1. n \in Nat /\ \A k \in 1..n : list[k] \in Clients
  OBVIOUS
<1>2. \A k \in 1..n : \A s \in Seq(Clients) : Step(s, k) \in Seq(Clients)
  BY <1>1, AppendSet
<1>3. \A k \in 1..n : \A s \in Seq(Clients) : G[<<k, s>>] = Step(s, k)
  OBVIOUS
<1>4. G \in [(1..n) \X Seq(Clients) -> Seq(Clients)] /\ <<>> \in Seq(Clients)
  <2> HIDE DEF Step
  <2> QED
    BY <1>2
<1>5. Others(list, c) = h[n]
  BY DEF Others
<1> HIDE DEF G, Step, n
<1>6. PICK f : Loops(f, n, Seq(Clients), <<>>, G)
  BY <1>1, <1>4, LoopExists
<1>7. Def(f)
  <2>1. ASSUME NEW k \in 0..n
        PROVE  f[k] = IF k = 0 THEN <<>> ELSE Step(f[k - 1], k)
    <3>1. CASE k = 0
      BY <1>6, <3>1 DEF Loops
    <3>2. CASE k # 0
      <4>1. k \in 1..n /\ k - 1 \in 0..n
        BY <1>1, <3>2
      <4>2. f[k] = G[<<k, f[k - 1]>>] /\ f[k - 1] \in Seq(Clients)
        BY <1>6, <4>1 DEF Loops
      <4> QED
        BY <1>3, <3>2, <4>1, <4>2
    <3> QED
      BY <3>1, <3>2
  <2> QED
    BY <1>6, <2>1 DEF Loops
<1>8. Def(h)
  <2> HIDE DEF Def
  <2> QED
    BY <1>7
<1> HIDE DEF h
<1>9. h[0] = <<>>
  BY <1>1, <1>8
<1>10. \A k \in 1..n : h[k] = Step(h[k - 1], k)
  BY <1>1, <1>8
<1> DEFINE Good(k) == /\ h[k] \in Seq(Clients)
                      /\ ToSet(h[k]) = {list[i] : i \in 1..k} \ {c}
                      /\ Len(h[k]) = IF k < m THEN k ELSE k - 1
           N == {k \in 0..n : Good(k)}
<1>11. 0 \in N
  <2>1. ToSet(<<>>) = {} /\ 0 < m
    BY <1>1 DEF ToSet, n
  <2>2. {list[i] : i \in 1..0} = {}
    OBVIOUS
  <2>3. Good(0)
    BY <1>9, <2>1, <2>2
  <2> QED
    BY <1>1, <2>3
<1>12. ASSUME NEW k \in 1..n, k - 1 \in N PROVE k \in N
  <2>1. Good(k - 1) /\ list[k] \in Clients /\ m \in 1..n
    BY <1>1, <1>12 DEF n
  <2>2. {list[i] : i \in 1..k} = {list[i] : i \in 1..(k - 1)} \union {list[k]}
    <3>1. 1..k = (1..(k - 1)) \union {k}
      BY <1>1
    <3> QED
      BY <3>1
  <2>3. list[k] = c <=> k = m
    BY <2>1 DEF n
  <2>4. CASE k = m
    <3>1. h[k] = h[k - 1]
      BY <1>10, <2>3, <2>4 DEF Step
    <3>2. ToSet(h[k]) = {list[i] : i \in 1..k} \ {c}
      BY <2>1, <2>2, <2>3, <2>4, <3>1
    <3> QED
      BY <1>1, <2>1, <2>4, <3>1, <3>2
  <2>5. CASE k # m
    <3>1. h[k] = Append(h[k - 1], list[k])
      BY <1>10, <2>3, <2>5 DEF Step
    <3>2. /\ h[k] \in Seq(Clients) /\ Len(h[k]) = Len(h[k - 1]) + 1
          /\ ToSet(h[k]) = ToSet(h[k - 1]) \union {list[k]}
      BY <2>1, <3>1, AppendSet
    <3>3. ToSet(h[k]) = {list[i] : i \in 1..k} \ {c}
      BY <2>1, <2>2, <2>3, <2>5, <3>2
    <3> QED
      BY <1>1, <2>1, <2>5, <3>2, <3>3
  <2> QED
    BY <2>4, <2>5
<1> HIDE DEF N, Good
<1>13. 0..n \subseteq N
  BY <1>1, <1>11, <1>12, RangeInduction
<1>14. Good(n)
  BY <1>1, <1>13 DEF N
<1>15. ToSet(list) = {list[i] : i \in 1..n} /\ ~ (n < m)
  BY <1>1 DEF ToSet, n
<1> QED
  BY <1>5, <1>14, <1>15 DEF Good, n

-------------------------------------------------------------------------------
(* What holds of the graph and of the search. *)

(* The pairs i < j of positions that combineNodesToGraph has linked.        *)
Made(i, j) ==
  \/ i < count
  \/ i = count /\ IF Few THEN j - i < sub ELSE j < sub

(* Two positions whose nodes have each other.                               *)
Linked(i, j) ==
  /\ group[j] \in ToSet(connections[group[i]])
  /\ group[i] \in ToSet(connections[group[j]])

(* The array has all clients of the list, the edges are between them, and   *)
(* those that combineNodesToGraph has come to are made.                     *)
LinkInv ==
  /\ \A k \in 1..size : \E j \in 1..size : client_list[k] = group[j]
  /\ \A c \in Clients : ToSet(connections[c]) \subseteq Members \ {c}
  /\ pc = "link" => \A i, j \in 1..size : i < j /\ Made(i, j) => Linked(i, j)
  /\ pc \notin {"shuffle", "link"} => \A i, j \in 1..size : i < j => Linked(i, j)

(* Where the loops of combineNodesToGraph and of manage_graph are.          *)
LoopInv ==
  /\ pc \in {"shuffle", "link", "next", "search", "send", "done"}
  /\ count \in 1..(size + 1)
  /\ sub \in 1..size
  /\ here \in 1..(size + 1)
  /\ pc \in {"shuffle", "link"} => here = 1
  /\ pc \in {"next", "search", "send"} => here <= size
  /\ pc = "done" => here = size + 1
  /\ queue \in Seq(Clients)
  /\ sight \in Seq(Clients)
  /\ target \in Clients
  /\ msg \in [Clients -> Seq(Clients)]

(* Either the search is at its first node, or all nodes are seen and the    *)
(* one that is looked for is still in the queue.                            *)
SearchInv ==
  /\ pc = "search" =>
       \/ queue = <<group[size]>> /\ sight = <<group[size]>>
       \/ /\ Members \subseteq ToSet(sight)
          /\ client_list[here] \in ToSet(queue)
  /\ pc = "send" => target = client_list[here]
  /\ \A k \in 1..size :
       k < here => ToSet(msg[client_list[k]]) = Members \ {client_list[k]}

(* The inductive invariant of the loops and the search.                     *)
GraphInv == LinkInv /\ LoopInv /\ SearchInv

(* The list, as the proofs below use it.                                    *)
LEMMA ListFacts ==
  ASSUME IInv
  PROVE  /\ size \in Nat \ {0} /\ size = Len(client_list)
         /\ client_list \in [1..size -> Clients] /\ client_list \in Seq(Clients)
         /\ \A j, k \in 1..size : client_list[j] = client_list[k] => j = k
         /\ Members \subseteq Clients
         /\ \A k \in 1..size : client_list[k] \in Members /\ group[k] \in Members
<1>1. /\ size \in Nat \ {0} /\ client_list \in [1..size -> Clients]
      /\ \A j, k \in 1..size : client_list[j] = client_list[k] => j = k
      /\ \A j \in 1..size : \E k \in 1..size : group[j] = client_list[k]
  BY DEF IInv, ArrayInv
<1>2. size = Len(client_list)
  BY DEF size
<1>3. client_list \in Seq(Clients)
  BY <1>1
<1>4. /\ Members \subseteq Clients
      /\ \A k \in 1..size : client_list[k] \in Members /\ group[k] \in Members
  BY <1>1 DEF Members
<1> QED
  BY <1>1, <1>2, <1>3, <1>4

(* The loop of manage_graph is at a client of the list.                     *)
LEMMA HereInList ==
  ASSUME IInv, GraphInv, pc \in {"next", "search", "send"}
  PROVE  here \in 1..size
<1>1. size \in Nat /\ here \in 1..(size + 1) /\ here <= size
  BY ListFacts DEF GraphInv, LoopInv
<1> QED
  BY <1>1

(* Once the edges are made, every node is connected with all others.        *)
LEMMA Complete ==
  ASSUME IInv, GraphInv, pc \notin {"shuffle", "link"}, NEW c \in Members
  PROVE  c \in Clients /\ ToSet(connections[c]) = Members \ {c}
<1>1. /\ size \in Nat /\ client_list \in [1..size -> Clients]
      /\ \A j, k \in 1..size : group[j] = group[k] => j = k
  BY DEF IInv, ArrayInv
<1>2. PICK i \in 1..size : c = group[i]
  BY DEF GraphInv, LinkInv, Members
<1>3. c \in Clients
  BY <1>1 DEF Members
<1>4. ASSUME NEW d \in Members, d # c PROVE d \in ToSet(connections[c])
  <2>1. PICK j \in 1..size : d = group[j]
    BY DEF GraphInv, LinkInv, Members
  <2>2. i < j \/ j < i
    BY <1>1, <1>2, <1>4, <2>1
  <2> QED
    BY <1>2, <2>1, <2>2 DEF GraphInv, LinkInv, Linked
<1> QED
  BY <1>3, <1>4 DEF GraphInv, LinkInv

(* It holds in the beginning.                                               *)
LEMMA InitGraphInv == Init => GraphInv
<1> SUFFICES ASSUME NEW list \in Lists, Start(list), pc = "shuffle"
             PROVE  GraphInv
  BY DEF Init
<1>1. PICK n \in 1..Cardinality(Clients) : list \in [1..n -> Clients]
  BY DEF Lists
<1>2. n \in Nat \ {0} /\ Len(list) = n /\ list \in Seq(Clients)
  <2>1. n \in Int /\ n >= 1
    BY <1>1
  <2> QED
    BY <1>1, <2>1
<1>3. /\ client_list = list /\ group = list /\ count = 1 /\ sub = 1 /\ size = n
      /\ connections = [c \in Clients |-> <<>>] /\ here = 1
      /\ queue = <<>> /\ sight = <<>> /\ target = list[1]
      /\ msg = [c \in Clients |-> <<>>]
  BY <1>2 DEF Start, size
<1>4. LinkInv
  BY <1>1, <1>2, <1>3 DEF LinkInv, ToSet
<1>5. LoopInv
  BY <1>1, <1>2, <1>3 DEF LoopInv
<1>6. SearchInv
  BY <1>2, <1>3 DEF SearchInv
<1> QED
  BY <1>4, <1>5, <1>6 DEF GraphInv

(* The shuffle keeps every client in the array.                             *)
LEMMA ShuffleGraph ==
  ASSUME IInv, GraphInv, Shuffle
  PROVE  GraphInv'
<1> USE DEF GraphInv
<1>1. PICK num \in 1..(counter - 1) : group' = Exchange(group, num, counter)
  BY DEF Shuffle
<1>2. /\ counter > 1 /\ counter \in 1..size /\ size \in Nat /\ size' = size
      /\ UNCHANGED <<client_list, pc, count, sub, connections, here, queue,
                     sight, target, msg>>
      /\ pc = "shuffle" /\ Members' = Members
  BY DEF Shuffle, IInv, ArrayInv, size, Members
<1>3. /\ num \in 1..size /\ num # counter
      /\ group'[num] = group[counter] /\ group'[counter] = group[num]
      /\ \A k \in 1..size : k # num /\ k # counter => group'[k] = group[k]
  BY <1>1, <1>2, ExchangeResult DEF IInv
<1>4. \A j \in 1..size : \E k \in 1..size : group[j] = group'[k]
  BY <1>2, <1>3
<1>5. ASSUME NEW k \in 1..size PROVE \E j \in 1..size : client_list[k] = group'[j]
  <2>1. PICK j \in 1..size : client_list[k] = group[j]
    BY DEF LinkInv
  <2> QED
    BY <1>4, <2>1
<1>6. LinkInv'
  BY <1>2, <1>5 DEF LinkInv
<1>7. LoopInv'
  BY <1>2 DEF LoopInv
<1>8. here = 1 /\ here' = 1
  BY <1>2 DEF LoopInv
<1>9. SearchInv'
  BY <1>2, <1>8 DEF SearchInv
<1> QED
  BY <1>6, <1>7, <1>9

(* The end of the shuffle keeps it.                                         *)
LEMMA ShuffledGraph ==
  ASSUME IInv, GraphInv, Shuffled
  PROVE  GraphInv'
<1> USE DEF GraphInv
<1>1. /\ UNCHANGED <<client_list, group, counter, count, sub, connections, here,
                     queue, sight, target, msg>>
      /\ pc = "shuffle" /\ count = 1 /\ sub = 1 /\ size' = size /\ size \in Nat \ {0}
      /\ pc' = IF size = 1 THEN "next" ELSE "link"
      /\ Members' = Members
  BY DEF Shuffled, IInv, ArrayInv, size, Members
<1>2. LinkInv'
  <2>1. ASSUME pc' = "link", NEW i \in 1..size, NEW j \in 1..size, i < j
        PROVE  ~ Made(i, j)'
    <3>1. (count = 1)' /\ (sub = 1)' /\ i \in Int /\ j \in Int /\ i >= 1 /\ size \in Nat
      BY <1>1
    <3> QED
      BY <2>1, <3>1 DEF Made
  <2>2. pc' # "link" => size = 1
    BY <1>1
  <2> QED
    BY <1>1, <2>1, <2>2 DEF LinkInv
<1>3. LoopInv'
  BY <1>1 DEF LoopInv
<1>4. SearchInv'
  BY <1>1 DEF SearchInv
<1> QED
  BY <1>2, <1>3, <1>4

(* The neighbours before, with an edge between two clients that differ.     *)
Joined(after, before, uno, dos) ==
  \A c \in Clients :
    ToSet(after[c]) = ToSet(before[c])
                        \union (IF uno # dos /\ c = uno THEN {dos} ELSE {})
                        \union (IF uno # dos /\ c = dos THEN {uno} ELSE {})

(* What addConnection does to the sets of neighbours.                       *)
LEMMA EdgeSets ==
  ASSUME EdgeInv, NEW uno \in Clients, NEW dos \in Clients, addConnection(uno, dos)
  PROVE  /\ connections' \in [Clients -> Seq(Clients)]
         /\ Joined(connections', connections, uno, dos)
<1>1. CASE uno = dos
  BY <1>1 DEF EdgeInv, addConnection, Joined
<1>2. CASE uno # dos
  <2>1. /\ connections \in [Clients -> Seq(Clients)]
        /\ connections' = [connections EXCEPT ![uno] = Append(connections[uno], dos),
                                              ![dos] = Append(connections[dos], uno)]
    BY <1>2 DEF EdgeInv, addConnection
  <2>2. connections[uno] \in Seq(Clients) /\ connections[dos] \in Seq(Clients)
    BY <2>1
  <2>3. /\ Append(connections[uno], dos) \in Seq(Clients)
        /\ Append(connections[dos], uno) \in Seq(Clients)
        /\ ToSet(Append(connections[uno], dos)) = ToSet(connections[uno]) \union {dos}
        /\ ToSet(Append(connections[dos], uno)) = ToSet(connections[dos]) \union {uno}
    BY <2>2, AppendSet
  <2>4. /\ connections' \in [Clients -> Seq(Clients)]
        /\ connections'[uno] = Append(connections[uno], dos)
        /\ connections'[dos] = Append(connections[dos], uno)
        /\ \A c \in Clients : c # uno /\ c # dos => connections'[c] = connections[c]
    BY <1>2, <2>1, <2>3
  <2>5. ASSUME NEW c \in Clients
        PROVE  ToSet(connections'[c]) =
                 ToSet(connections[c])
                   \union (IF uno # dos /\ c = uno THEN {dos} ELSE {})
                   \union (IF uno # dos /\ c = dos THEN {uno} ELSE {})
    <3>1. CASE c = uno
      BY <1>2, <2>3, <2>4, <3>1
    <3>2. CASE c = dos
      BY <1>2, <2>3, <2>4, <3>2
    <3>3. CASE c # uno /\ c # dos
      BY <2>4, <3>3
    <3> QED
      BY <3>1, <3>2, <3>3
  <2> QED
    BY <2>4, <2>5 DEF Joined
<1> QED
  BY <1>1, <1>2

(* An edge that is made keeps it.                                           *)
LEMMA LinkGraph ==
  ASSUME IInv, GraphInv, Link
  PROVE  GraphInv'
<1> USE DEF GraphInv
<1>1. /\ UNCHANGED <<client_list, group, counter, here, queue, sight, target, msg>>
      /\ size' = size /\ size \in Nat /\ size > 1 /\ Members' = Members
      /\ pc = "link" /\ pc' \in {"link", "next"}
      /\ count \in 1..size /\ sub \in 1..Subs /\ here = 1
      /\ Few' = Few /\ Subs' = Subs
  <2>1. /\ UNCHANGED <<client_list, group, counter, here, queue, sight, target, msg>>
        /\ pc = "link" /\ pc' \in {"link", "next"}
    BY DEF Link
  <2>2. size' = size /\ Members' = Members
    BY <2>1 DEF size, Members
  <2>3. Few' = Few /\ Subs' = Subs
    BY <2>2 DEF Few, Subs
  <2>4. size \in Nat /\ size > 1 /\ count \in 1..size /\ sub \in 1..Subs
    BY <2>1 DEF IInv, ArrayInv
  <2>5. here = 1
    BY <2>1 DEF LoopInv
  <2> QED
    BY <2>1, <2>2, <2>3, <2>4, <2>5
<1>2. /\ \A j \in 1..size : group[j] \in Clients
      /\ \A j, k \in 1..size : group[j] = group[k] => j = k
      /\ \A j \in 1..size : group[j] \in Members
  BY DEF IInv, ArrayInv, Members
<1>3. Partner \in 1..size /\ minConnections \in Nat
  BY <1>1, PartnerInArray, GraphAssumption DEF IInv
<1> DEFINE uno == group[count]
           dos == group[Partner]
<1>4. uno \in Clients /\ dos \in Clients /\ addConnection(uno, dos)
      /\ uno \in Members /\ dos \in Members
  BY <1>1, <1>2, <1>3 DEF Link
<1>5. \A c \in Clients :
        ToSet(connections'[c]) =
          ToSet(connections[c])
            \union (IF uno # dos /\ c = uno THEN {dos} ELSE {})
            \union (IF uno # dos /\ c = dos THEN {uno} ELSE {})
  <2>1. EdgeInv
    BY DEF IInv
  <2>2. uno \in Clients /\ dos \in Clients /\ addConnection(uno, dos)
    BY <1>4
  <2> HIDE DEF uno, dos
  <2>3. Joined(connections', connections, uno, dos)
    BY <2>1, <2>2, EdgeSets
  <2> QED
    BY <2>3 DEF Joined
<1>6. \A c \in Clients : ToSet(connections'[c]) \subseteq Members \ {c}
  <2> HIDE DEF uno, dos
  <2> QED
    BY <1>4, <1>5 DEF LinkInv
<1>7. ASSUME NEW i \in 1..size, NEW j \in 1..size, i < j,
             Linked(i, j) \/ (i = count /\ j = Partner)
      PROVE  Linked(i, j)'
  <2>1. group[i] \in Clients /\ group[j] \in Clients /\ group[i] # group[j]
    BY <1>2, <1>7
  <2>2. /\ group[j] \in ToSet(connections'[group[i]])
        /\ group[i] \in ToSet(connections'[group[j]])
    <3>1. CASE Linked(i, j)
      BY <1>5, <2>1, <3>1 DEF Linked
    <3>2. CASE i = count /\ j = Partner
      BY <1>5, <2>1, <3>2
    <3> QED
      BY <1>7, <3>1, <3>2
  <2> QED
    BY <1>1, <2>2 DEF Linked
<1> HIDE DEF uno, dos
<1>8. Subs = IF Few THEN size - 1 ELSE size
  BY <1>1, <1>3 DEF Subs, Few
<1>9. ASSUME NEW i \in 1..size, NEW j \in 1..size, i < j, i = count,
             ~ Made(i, j), IF Few THEN j - i <= sub ELSE j <= sub
      PROVE  j = Partner
  <2>1. CASE Few
    <3>1. j - i = sub
      BY <1>1, <1>9, <2>1 DEF Made
    <3> QED
      BY <1>1, <1>9, <2>1, <3>1 DEF Partner
  <2>2. CASE ~ Few
    BY <1>1, <1>9, <2>2 DEF Made, Partner
  <2> QED
    BY <2>1, <2>2
<1>10. \/ /\ sub < Subs /\ sub' = sub + 1 /\ count' = count /\ pc' = "link"
       \/ /\ sub = Subs /\ sub' = 1 /\ count' = count + 1
          /\ pc' = IF count = size THEN "next" ELSE "link"
  <2>1. sub \in Int /\ Subs \in Int /\ sub <= Subs
    BY <1>1, <1>8
  <2> QED
    BY <2>1 DEF Link
<1>11. ASSUME NEW i \in 1..size, NEW j \in 1..size, i < j,
              pc' = "link" => Made(i, j)'
       PROVE  Linked(i, j)'
  <2>1. CASE Made(i, j)
    BY <1>1, <1>7, <1>11, <2>1 DEF LinkInv
  <2>2. CASE ~ Made(i, j)
    <3>1. i = count /\ IF Few THEN j - i <= sub ELSE j <= sub
      <4>1. CASE sub < Subs /\ sub' = sub + 1 /\ count' = count /\ pc' = "link"
        BY <1>1, <1>11, <2>2, <4>1 DEF Made
      <4>2. CASE /\ sub = Subs /\ sub' = 1 /\ count' = count + 1
                 /\ pc' = IF count = size THEN "next" ELSE "link"
        <5>1. i <= count
          <6>1. CASE pc' = "next"
            BY <1>1, <4>2, <6>1
          <6>2. CASE pc' = "link"
            BY <1>1, <1>11, <4>2, <6>2 DEF Made
          <6> QED
            BY <1>1, <6>1, <6>2
        <5>2. i = count
          BY <1>1, <2>2, <5>1 DEF Made
        <5> QED
          BY <1>1, <1>8, <4>2, <5>2
      <4> QED
        BY <1>10, <4>1, <4>2
    <3>2. j = Partner
      BY <1>9, <1>11, <2>2, <3>1
    <3> QED
      BY <1>7, <1>11, <3>1, <3>2
  <2> QED
    BY <2>1, <2>2
<1>12. LinkInv'
  <2>1. (\A k \in 1..size : \E j \in 1..size : client_list[k] = group[j])'
    BY <1>1 DEF LinkInv
  <2> QED
    BY <1>1, <1>6, <1>11, <2>1 DEF LinkInv
<1>13. LoopInv'
  <2>1. count' \in 1..(size + 1) /\ sub' \in 1..size
    BY <1>1, <1>8, <1>10
  <2> QED
    BY <1>1, <2>1 DEF LoopInv
<1>14. SearchInv'
  BY <1>1 DEF SearchInv
<1> QED
  BY <1>12, <1>13, <1>14

(* The next client that is looked for keeps it.                             *)
LEMMA NextClientGraph ==
  ASSUME IInv, GraphInv, NextClient
  PROVE  GraphInv'
<1> USE DEF GraphInv
<1>1. /\ UNCHANGED <<client_list, group, counter, count, sub, connections, here,
                     target, msg>>
      /\ pc = "next" /\ here <= size /\ pc' = "search"
      /\ queue' = <<group[size]>> /\ sight' = <<group[size]>>
      /\ size' = size /\ size \in Nat \ {0} /\ Members' = Members
      /\ group[size] \in Clients
  <2>1. /\ UNCHANGED <<client_list, group, counter, count, sub, connections, here,
                       target, msg>>
        /\ pc = "next" /\ here <= size /\ pc' = "search"
        /\ queue' = <<group[size]>> /\ sight' = <<group[size]>>
    BY DEF NextClient
  <2>2. size' = size /\ Members' = Members
    BY <2>1 DEF size, Members
  <2>3. size \in Nat \ {0} /\ group \in [1..size -> Clients]
    BY DEF IInv, ArrayInv
  <2> HIDE DEF GraphInv
  <2> QED
    BY <2>1, <2>2, <2>3
<1>2. LinkInv'
  <2>1. \A i, j \in 1..size : i < j => Linked(i, j)'
    BY <1>1 DEF LinkInv, Linked
  <2> QED
    BY <1>1, <2>1 DEF LinkInv
<1>3. LoopInv'
  BY <1>1 DEF LoopInv
<1>4. SearchInv'
  BY <1>1 DEF SearchInv
<1> QED
  BY <1>2, <1>3, <1>4

(* The links do not change any more.                                        *)
LEMMA LinksStay ==
  ASSUME IInv, GraphInv, pc \notin {"shuffle", "link"}, pc' \notin {"shuffle", "link"},
         UNCHANGED <<client_list, group, connections>>
  PROVE  LinkInv' /\ size' = size /\ Members' = Members
<1>1. size' = size /\ Members' = Members
  BY DEF size, Members
<1>2. \A i, j \in 1..size : i < j => Linked(i, j)'
  BY DEF GraphInv, LinkInv, Linked
<1> QED
  BY <1>1, <1>2 DEF GraphInv, LinkInv

(* All of a queue but its head.                                             *)
LEMMA TailSet ==
  ASSUME NEW q \in Seq(Clients), NEW s \in Seq(Clients), q # <<>>
  PROVE  /\ Head(q) \in Clients /\ Tail(q) \in Seq(Clients)
         /\ Tail(q) \o s \in Seq(Clients)
         /\ \A x \in ToSet(q) : x # Head(q) => x \in ToSet(Tail(q) \o s)
         /\ \A x \in ToSet(s) : x \in ToSet(Tail(q) \o s)
<1>1. /\ Head(q) \in Clients /\ Tail(q) \in Seq(Clients) /\ Head(q) = q[1]
      /\ Len(Tail(q)) = Len(q) - 1 /\ Len(q) \in Nat /\ Len(q) > 0
      /\ \A i \in 1..(Len(q) - 1) : Tail(q)[i] = q[i + 1]
      /\ Tail(q) \o s \in Seq(Clients)
  OBVIOUS
<1> DEFINE t == Tail(q)
<1>2. t \in Seq(Clients) /\ Len(t) \in Nat /\ Len(s) \in Nat
  BY <1>1
<1> HIDE DEF t
<1>3. /\ Len(t \o s) = Len(t) + Len(s)
      /\ \A i \in 1..Len(t) : (t \o s)[i] = t[i]
      /\ \A i \in 1..Len(s) : (t \o s)[Len(t) + i] = s[i]
  BY <1>2
<1>4. DOMAIN (t \o s) = 1..(Len(t) + Len(s)) /\ DOMAIN q = 1..Len(q) /\ DOMAIN s = 1..Len(s)
  BY <1>2, <1>3
<1>5. ASSUME NEW x \in ToSet(q), x # Head(q) PROVE x \in ToSet(t \o s)
  <2>1. PICK i \in 1..Len(q) : q[i] = x
    BY <1>4 DEF ToSet
  <2>2. i - 1 \in 1..(Len(q) - 1) /\ i - 1 + 1 = i
    BY <1>1, <1>5, <2>1
  <2>3. i - 1 \in 1..Len(t) /\ t[i - 1] = x
    BY <1>1, <2>1, <2>2 DEF t
  <2>4. i - 1 \in 1..(Len(t) + Len(s)) /\ (t \o s)[i - 1] = x
    BY <1>2, <1>3, <2>3
  <2> QED
    BY <1>4, <2>4 DEF ToSet
<1>6. ASSUME NEW x \in ToSet(s) PROVE x \in ToSet(t \o s)
  <2>1. PICK i \in 1..Len(s) : s[i] = x
    BY <1>4 DEF ToSet
  <2>2. Len(t) + i \in 1..(Len(t) + Len(s)) /\ (t \o s)[Len(t) + i] = x
    BY <1>2, <1>3, <2>1
  <2> QED
    BY <1>4, <2>2 DEF ToSet
<1> QED
  BY <1>1, <1>5, <1>6 DEF t

(* What is added behind the first m of a sequence.                          *)
LEMMA NewOnes ==
  ASSUME NEW s \in Seq(Clients), NEW m \in Nat, m <= Len(s)
  PROVE  /\ SubSeq(s, m + 1, Len(s)) \in Seq(Clients)
         /\ \A i \in 1..Len(s) : i > m => s[i] \in ToSet(SubSeq(s, m + 1, Len(s)))
<1> DEFINE r == SubSeq(s, m + 1, Len(s))
<1>1. /\ r \in Seq(Clients) /\ Len(r) = Len(s) - m /\ Len(s) \in Nat
      /\ \A i \in 1..(Len(s) - m) : r[i] = s[m + i]
  OBVIOUS
<1> HIDE DEF r
<1>2. ASSUME NEW i \in 1..Len(s), i > m PROVE s[i] \in ToSet(r)
  <2>1. i - m \in 1..(Len(s) - m) /\ m + (i - m) = i
    BY <1>1, <1>2
  <2>2. i - m \in DOMAIN r /\ r[i - m] = s[i]
    BY <1>1, <2>1
  <2> QED
    BY <2>2 DEF ToSet
<1> QED
  BY <1>1, <1>2 DEF r

(* A step of the search keeps it: the first node is joined to all others,   *)
(* so that its neighbours are all there are.                                *)
LEMMA SearchGraph ==
  ASSUME IInv, GraphInv, Search
  PROVE  GraphInv'
<1> USE DEF GraphInv
<1> DEFINE head == Head(queue)
           wanted == client_list[here]
<1>1. /\ UNCHANGED <<client_list, group, counter, count, sub, connections, here, msg>>
      /\ pc = "search" /\ target' = head
      /\ sight' = IF head = wanted THEN sight ELSE Seen(head)
      /\ queue' = Tail(queue) \o SubSeq(sight', Len(sight) + 1, Len(sight'))
      /\ pc' = IF head = wanted \/ queue' = <<>> THEN "send" ELSE "search"
  BY DEF Search
<1>2. LinkInv' /\ size' = size /\ Members' = Members
  BY <1>1, LinksStay
<1>3. /\ queue \in Seq(Clients) /\ sight \in Seq(Clients) /\ here \in 1..size
      /\ size \in Nat \ {0} /\ size \in 1..size
      /\ connections \in [Clients -> Seq(Clients)]
  <2>1. here \in 1..size /\ size \in Nat \ {0}
    BY <1>1, HereInList, ListFacts
  <2> QED
    BY <2>1 DEF LoopInv, IInv, EdgeInv
<1>4. /\ wanted \in Members /\ group[size] \in Members /\ Members \subseteq Clients
  BY <1>3, ListFacts
<1>5. \/ queue = <<group[size]>> /\ sight = <<group[size]>>
      \/ Members \subseteq ToSet(sight) /\ wanted \in ToSet(queue)
  BY <1>1 DEF SearchInv
<1>6. queue # <<>>
  <2>1. ToSet(<<>>) = {}
    BY DEF ToSet
  <2> QED
    BY <1>5, <2>1
<1>7. head \in Clients /\ connections[head] \in Seq(Clients)
  BY <1>3, <1>6, TailSet
<1>8. Seen(head) = Collect(sight, connections[head])
  BY DEF Seen, Collect
<1> DEFINE new == SubSeq(sight', Len(sight) + 1, Len(sight'))
<1>9. sight' \in Seq(Clients) /\ Len(sight') \in Nat /\ Len(sight) \in Nat
      /\ Len(sight') >= Len(sight)
      /\ \A i \in 1..Len(sight) : sight'[i] = sight[i]
  <2>1. CASE head = wanted
    BY <1>1, <1>3, <2>1
  <2>2. CASE head # wanted
    <3>1. sight' = Collect(sight, connections[head])
      BY <1>1, <1>8, <2>2
    <3> HIDE DEF head, wanted
    <3> QED
      BY <1>3, <1>7, <3>1, CollectResult
  <2> QED
    BY <2>1, <2>2
<1>10. /\ new \in Seq(Clients)
       /\ \A i \in 1..Len(sight') : i > Len(sight) => sight'[i] \in ToSet(new)
  BY <1>9, NewOnes
<1> HIDE DEF head, wanted, new
<1>11. /\ queue' = Tail(queue) \o new /\ queue' \in Seq(Clients)
       /\ \A x \in ToSet(queue) : x # head => x \in ToSet(queue')
       /\ \A x \in ToSet(new) : x \in ToSet(queue')
  BY <1>1, <1>3, <1>6, <1>10, TailSet DEF head, new
<1>12. ASSUME head # wanted
       PROVE  Members \subseteq ToSet(sight') /\ wanted \in ToSet(queue')
  <2>1. ToSet(sight') = ToSet(sight) \union ToSet(connections[head])
    <3>1. sight' = Collect(sight, connections[head])
      BY <1>1, <1>8, <1>12
    <3> QED
      BY <1>3, <1>7, <3>1, CollectResult
  <2>2. CASE queue = <<group[size]>> /\ sight = <<group[size]>>
    <3>1. head = group[size] /\ ToSet(sight) = {head} /\ Len(sight) = 1
      BY <2>2 DEF head, ToSet
    <3>2. ToSet(connections[head]) = Members \ {head}
      BY <1>1, <1>4, <3>1, Complete
    <3>3. Members \subseteq ToSet(sight')
      BY <2>1, <3>1, <3>2
    <3>4. PICK i \in 1..Len(sight') : sight'[i] = wanted
      BY <1>4, <1>9, <3>3 DEF ToSet
    <3>5. sight'[1] = head
      BY <1>9, <2>2, <3>1
    <3>6. i > Len(sight)
      BY <1>12, <3>1, <3>4, <3>5
    <3> QED
      BY <1>10, <1>11, <3>3, <3>4, <3>6
  <2>3. CASE Members \subseteq ToSet(sight) /\ wanted \in ToSet(queue)
    BY <1>11, <1>12, <2>1, <2>3
  <2> QED
    BY <1>5, <2>2, <2>3
<1>13. pc' = IF head = wanted THEN "send" ELSE "search"
  <2>1. ToSet(<<>>) = {}
    BY DEF ToSet
  <2>2. head # wanted => queue' # <<>>
    BY <1>12, <2>1
  <2> QED
    BY <1>1, <2>2
<1>14. client_list'[here'] = wanted
  BY <1>1 DEF wanted
<1>15. SearchInv'
  <2>1. \A k \in 1..size' :
          k < here' => ToSet(msg'[client_list'[k]]) = Members' \ {client_list'[k]}
    BY <1>1, <1>2 DEF SearchInv
  <2>2. pc' = "search" => Members' \subseteq ToSet(sight') /\ client_list'[here'] \in ToSet(queue')
    BY <1>2, <1>12, <1>13, <1>14
  <2>3. pc' = "send" => target' = client_list'[here']
    BY <1>1, <1>13, <1>14
  <2> QED
    BY <2>1, <2>2, <2>3 DEF SearchInv
<1>16. LoopInv'
  BY <1>1, <1>2, <1>7, <1>9, <1>11, <1>13 DEF LoopInv
<1> QED
  BY <1>2, <1>15, <1>16

(* The message has all but the client it is sent to, and is at most as long *)
(* as the array of its node or the list.                                    *)
LEMMA Message ==
  ASSUME IInv, GraphInv, client_send_peers
  PROVE  \E c \in Clients, s \in Seq(Clients) :
           /\ c = client_list[here]
           /\ msg' = [msg EXCEPT ![c] = s]
           /\ ToSet(s) = Members \ {c}
           /\ Len(s) = size - 1 \/ s = connections[c]
<1> DEFINE c == client_list[here]
<1>1. /\ pc = "send" /\ here \in 1..size /\ size \in Nat
      /\ client_list \in [1..size -> Clients] /\ client_list \in Seq(Clients)
      /\ size = Len(client_list)
      /\ \A j, k \in 1..size : client_list[j] = client_list[k] => j = k
  <2>1. pc = "send"
    BY DEF client_send_peers
  <2> QED
    BY <2>1, HereInList, ListFacts
<1>2. c \in Members /\ c \in Clients /\ target = c
  <2>1. c \in Members /\ c \in Clients
    BY <1>1, ListFacts
  <2> QED
    BY <1>1, <2>1 DEF GraphInv, SearchInv
<1>3. ToSet(client_list) = Members
  BY <1>1 DEF ToSet, Members
<1>4. client_peers_static(c) = Others(client_list, c)
  BY <1>1 DEF client_peers_static, Others
<1>5. /\ client_peers_static(c) \in Seq(Clients)
      /\ ToSet(client_peers_static(c)) = Members \ {c}
      /\ Len(client_peers_static(c)) = size - 1
  <2>1. here \in 1..Len(client_list)
        /\ \A j, k \in 1..Len(client_list) : client_list[j] = client_list[k] => j = k
    BY <1>1
  <2>2. /\ Others(client_list, c) \in Seq(Clients)
        /\ ToSet(Others(client_list, c)) = ToSet(client_list) \ {c}
        /\ Len(Others(client_list, c)) = Len(client_list) - 1
    <3>1. client_list[here] = c
      OBVIOUS
    <3> HIDE DEF c
    <3> QED
      BY <1>1, <2>1, <3>1, OthersResult
  <2> QED
    BY <1>1, <1>3, <1>4, <2>2
<1>6. /\ connections[c] \in Seq(Clients)
      /\ ToSet(connections[c]) = Members \ {c}
  BY <1>1, <1>2, Complete DEF IInv, EdgeInv
<1>7. msg' = [msg EXCEPT ![c] = IF PEER_POOL_SIZE > size THEN client_peers_static(c)
                                                         ELSE connections[c]]
  BY <1>2 DEF client_send_peers, client_peers_rand
<1> HIDE DEF c
<1> SUFFICES \E s \in Seq(Clients) :
               /\ msg' = [msg EXCEPT ![c] = s]
               /\ ToSet(s) = Members \ {c}
               /\ Len(s) = size - 1 \/ s = connections[c]
  BY <1>2 DEF c
<1>8. CASE PEER_POOL_SIZE > size
  BY <1>5, <1>7, <1>8
<1>9. CASE ~ (PEER_POOL_SIZE > size)
  BY <1>6, <1>7, <1>9
<1> QED
  BY <1>8, <1>9

(* Sending keeps it.                                                        *)
LEMMA SendGraph ==
  ASSUME IInv, GraphInv, client_send_peers
  PROVE  GraphInv'
<1> USE DEF GraphInv
<1>1. PICK c \in Clients, s \in Seq(Clients) :
        c = client_list[here] /\ msg' = [msg EXCEPT ![c] = s] /\ ToSet(s) = Members \ {c}
  BY Message
<1>2. /\ UNCHANGED <<client_list, group, counter, count, sub, connections, queue,
                     sight, target>>
      /\ pc = "send" /\ here' = here + 1
      /\ pc' = IF here = size THEN "done" ELSE "next"
  BY DEF client_send_peers
<1>3. LinkInv' /\ size' = size /\ Members' = Members
  BY <1>2, LinksStay
<1>4. /\ here \in 1..size /\ size \in Nat /\ msg \in [Clients -> Seq(Clients)]
      /\ client_list \in [1..size -> Clients]
      /\ \A j, k \in 1..size : client_list[j] = client_list[k] => j = k
  BY <1>2, HereInList, ListFacts DEF LoopInv
<1>5. msg' \in [Clients -> Seq(Clients)]
  BY <1>1, <1>4
<1>6. ASSUME NEW k \in 1..size, k < here + 1
      PROVE  ToSet(msg'[client_list[k]]) = Members \ {client_list[k]}
  <2>1. CASE k = here
    BY <1>1, <1>4, <2>1
  <2>2. CASE k # here
    <3>1. k < here /\ client_list[k] # c /\ client_list[k] \in Clients
      BY <1>1, <1>4, <1>6, <2>2
    <3>2. msg'[client_list[k]] = msg[client_list[k]]
      BY <1>1, <1>4, <3>1
    <3> QED
      BY <3>1, <3>2 DEF SearchInv
  <2> QED
    BY <2>1, <2>2
<1>7. SearchInv'
  BY <1>2, <1>3, <1>6 DEF SearchInv
<1>8. LoopInv'
  BY <1>2, <1>3, <1>4, <1>5 DEF LoopInv
<1> QED
  BY <1>3, <1>7, <1>8

(* Every step keeps it.                                                     *)
LEMMA StepGraphInv ==
  ASSUME IInv, GraphInv, [Next]_vars
  PROVE  GraphInv'
<1>1. CASE UNCHANGED vars
  <2>1. size' = size /\ Members' = Members
    BY <1>1 DEF size, Members, vars
  <2>2. Few' = Few
    BY <2>1 DEF Few
  <2>3. \A i, j : (Made(i, j)' <=> Made(i, j)) /\ (Linked(i, j)' <=> Linked(i, j))
    BY <1>1, <2>2 DEF Made, Linked, vars
  <2>4. LinkInv'
    BY <1>1, <2>1, <2>3 DEF GraphInv, LinkInv, vars
  <2>5. LoopInv' /\ SearchInv'
    BY <1>1, <2>1 DEF GraphInv, LoopInv, SearchInv, vars
  <2> QED
    BY <2>4, <2>5 DEF GraphInv
<1> QED
  BY <1>1, ShuffleGraph, ShuffledGraph, LinkGraph, NextClientGraph, SearchGraph,
     SendGraph DEF Next

(* Both invariants always hold.                                             *)
LEMMA GraphInvariance == Spec => [](IInv /\ GraphInv)
BY InitIInv, InitGraphInv, StepIInv, StepGraphInv, PTL DEF Spec

-------------------------------------------------------------------------------
(* How long the arrays of the nodes get. *)

(* While all are linked with all: how often position a has been an end, as  *)
(* the one that is linked and as the one that the others are linked with.   *)
Ends(a) ==
  (IF a < count THEN size - 1
   ELSE IF a > count THEN 0
   ELSE IF count < sub THEN sub - 2 ELSE sub - 1)
  + (IF a < count THEN count - 2 ELSE count - 1)
  + (IF a # count /\ a < sub THEN 1 ELSE 0)

(* How long the arrays of the nodes, and so the messages, are: while edges  *)
(* are made, Ends of each position.                                         *)
LengthInv ==
  /\ pc = "shuffle" => \A c \in Clients : connections[c] = <<>>
  /\ pc = "link" =>
       IF Few THEN size = 2 /\ \A a \in 1..size :
                     Len(connections[group[a]]) = IF count = 1 THEN 0 ELSE 1
       ELSE \A a \in 1..size : Len(connections[group[a]]) = Ends(a)
  /\ pc \notin {"shuffle", "link"} =>
       \A a \in 1..size : Len(connections[group[a]]) <= 2 * (size - 1)
  /\ \A c \in Clients : Len(msg[c]) <= 2 * (size - 1)

(* addConnection makes the arrays of both nodes longer by one.              *)
LEMMA EdgeLengths ==
  ASSUME EdgeInv, NEW uno \in Clients, NEW dos \in Clients, addConnection(uno, dos)
  PROVE  \A c \in Clients :
           Len(connections'[c]) =
             Len(connections[c]) + IF uno # dos /\ c \in {uno, dos} THEN 1 ELSE 0
<1>1. \A c \in Clients : connections[c] \in Seq(Clients) /\ Len(connections[c]) \in Nat
  BY DEF EdgeInv
<1>2. CASE uno = dos
  BY <1>1, <1>2 DEF addConnection
<1>3. CASE uno # dos
  <2>1. /\ connections \in [Clients -> Seq(Clients)]
        /\ connections' = [connections EXCEPT ![uno] = Append(connections[uno], dos),
                                              ![dos] = Append(connections[dos], uno)]
    BY <1>3 DEF EdgeInv, addConnection
  <2>2. /\ connections'[uno] = Append(connections[uno], dos)
        /\ connections'[dos] = Append(connections[dos], uno)
        /\ \A c \in Clients : c # uno /\ c # dos => connections'[c] = connections[c]
    BY <1>3, <2>1
  <2>3. /\ Len(connections'[uno]) = Len(connections[uno]) + 1
        /\ Len(connections'[dos]) = Len(connections[dos]) + 1
    BY <1>1, <2>2
  <2>4. ASSUME NEW c \in Clients
        PROVE  Len(connections'[c]) =
                 Len(connections[c]) + IF uno # dos /\ c \in {uno, dos} THEN 1 ELSE 0
    <3>1. CASE c = uno
      BY <1>3, <2>3, <3>1
    <3>2. CASE c = dos
      BY <1>3, <2>3, <3>2
    <3>3. CASE c # uno /\ c # dos
      <4>1. Len(connections'[c]) = Len(connections[c]) /\ Len(connections[c]) \in Nat
        BY <1>1, <2>2, <3>3
      <4>2. c \notin {uno, dos}
        BY <3>3
      <4>3. Len(connections[c]) + 0 = Len(connections[c])
        BY <4>1
      <4> QED
        BY <4>1, <4>2, <4>3
    <3> QED
      BY <3>1, <3>2, <3>3
  <2> QED
    BY <2>4
<1> QED
  BY <1>2, <1>3

(* Linking all with all counts every pair from both sides.                  *)
LEMMA EndsStep ==
  ASSUME IInv, GraphInv, Link, ~ Few, NEW a \in 1..size
  PROVE  LET more == IF count # sub /\ a \in {count, sub} THEN 1 ELSE 0 IN
         /\ pc' = "link" => Ends(a)' = Ends(a) + more
         /\ pc' # "link" => Ends(a) + more = 2 * (size - 1)
<1>1. /\ size' = size /\ size \in Nat /\ size > 1 /\ count \in 1..size /\ sub \in 1..size
      /\ Subs = size
      /\ a \in Int /\ count \in Int /\ sub \in Int
  BY DEF Link, IInv, ArrayInv, Subs, size
<1>2. \/ /\ sub < size /\ sub' = sub + 1 /\ count' = count /\ pc' = "link"
      \/ /\ sub = size /\ sub' = 1 /\ count' = count + 1
         /\ pc' = IF count = size THEN "next" ELSE "link"
  BY <1>1 DEF Link
<1>3. CASE sub < size /\ sub' = sub + 1 /\ count' = count /\ pc' = "link"
  <2>1. CASE a = count
    BY <1>1, <1>3, <2>1 DEF Ends
  <2>2. CASE a < count
    BY <1>1, <1>3, <2>2 DEF Ends
  <2>3. CASE a > count
    BY <1>1, <1>3, <2>3 DEF Ends
  <2> QED
    BY <1>1, <2>1, <2>2, <2>3
<1>4. CASE /\ sub = size /\ sub' = 1 /\ count' = count + 1
           /\ pc' = IF count = size THEN "next" ELSE "link"
  <2>1. CASE a = count
    BY <1>1, <1>4, <2>1 DEF Ends
  <2>2. CASE a < count
    BY <1>1, <1>4, <2>2 DEF Ends
  <2>3. CASE a > count
    BY <1>1, <1>4, <2>3 DEF Ends
  <2> QED
    BY <1>1, <2>1, <2>2, <2>3
<1> QED
  BY <1>2, <1>3, <1>4

(* LengthInv holds in the beginning.                                        *)
LEMMA InitLength == Init => LengthInv
<1> SUFFICES ASSUME NEW list \in Lists, Start(list), pc = "shuffle"
             PROVE  LengthInv
  BY DEF Init
<1>1. IInv
  BY InitIInv DEF Init
<1>2. size \in Nat \ {0}
  BY <1>1, ListFacts
<1>3. \A c \in Clients : connections[c] = <<>> /\ msg[c] = <<>>
  BY DEF Start
<1> QED
  BY <1>2, <1>3 DEF LengthInv

(* An edge that is made keeps it.                                           *)
LEMMA LinkLength ==
  ASSUME minConnections <= 4, IInv, GraphInv, LengthInv, Link
  PROVE  LengthInv'
<1>1. /\ UNCHANGED <<client_list, group, msg>> /\ size' = size
      /\ pc = "link" /\ pc' \in {"link", "next"}
      /\ size \in Nat /\ size > 1 /\ count \in 1..size /\ sub \in 1..Subs
      /\ \A j \in 1..size : group[j] \in Clients
      /\ \A j, k \in 1..size : group[j] = group[k] => j = k
      /\ \A j \in 1..size : connections[group[j]] \in Seq(Clients)
  BY DEF Link, IInv, ArrayInv, EdgeInv, size
<1>2. Partner \in 1..size
  BY <1>1, PartnerInArray DEF IInv
<1>3. addConnection(group[count], group[Partner])
  BY DEF Link
<1>4. \A a \in 1..size :
        Len(connections'[group[a]]) =
          Len(connections[group[a]]) + IF count # Partner /\ a \in {count, Partner}
                                       THEN 1 ELSE 0
  <2> DEFINE uno == group[count]
             dos == group[Partner]
  <2>1. uno \in Clients /\ dos \in Clients
    BY <1>1, <1>2
  <2>2. /\ uno # dos <=> count # Partner
        /\ \A a \in 1..size : group[a] \in {uno, dos} <=> a \in {count, Partner}
    BY <1>1, <1>2
  <2>3. addConnection(uno, dos)
    BY <1>3
  <2> HIDE DEF uno, dos
  <2>4. \A c \in Clients :
           Len(connections'[c]) =
             Len(connections[c]) + IF uno # dos /\ c \in {uno, dos} THEN 1 ELSE 0
    BY <2>1, <2>3, EdgeLengths DEF IInv
  <2> QED
    BY <1>1, <2>2, <2>4
<1>5. \A c \in Clients : Len(msg'[c]) <= 2 * (size' - 1)
  BY <1>1 DEF LengthInv
<1>6. Few' = Few
  BY <1>1 DEF Few
<1>7. CASE Few
  <2>1. size = 2 /\ Subs = 1 /\ sub = 1
    BY <1>1, <1>7, GraphAssumption DEF Few, Subs
  <2>2. \A a \in 1..2 : Len(connections[group[a]]) = IF count = 1 THEN 0 ELSE 1
    BY <1>1, <1>7, <2>1 DEF LengthInv
  <2>3. CASE count = 1
    <3>1. Partner = 2 /\ count' = 2 /\ pc' = "link"
      BY <1>7, <2>1, <2>3 DEF Partner, Link
    <3>2. ASSUME NEW a \in 1..2 PROVE Len(connections'[group[a]]) = 1
      <4>1. Len(connections[group[a]]) = 0 /\ a \in 1..size /\ a \in {1, 2}
        BY <2>1, <2>2, <2>3
      <4>2. Len(connections'[group[a]]) =
              Len(connections[group[a]]) + IF 1 # 2 /\ a \in {1, 2} THEN 1 ELSE 0
        BY <1>4, <2>3, <3>1, <4>1
      <4> QED
        BY <4>1, <4>2
    <3> QED
      BY <1>1, <1>5, <1>6, <1>7, <2>1, <3>1, <3>2 DEF LengthInv
  <2>4. CASE count = 2
    <3>1. Partner = 2 /\ pc' = "next"
      BY <1>7, <2>1, <2>4 DEF Partner, Link
    <3>2. \A a \in 1..2 : Len(connections'[group[a]]) = 1
      BY <1>4, <2>1, <2>2, <2>4, <3>1
    <3>3. size' = 2 /\ group' = group
      BY <1>1, <2>1
    <3>4. \A a \in 1..size' : Len(connections'[group'[a]]) <= 2 * (size' - 1)
      <4>1. 2 * (size' - 1) = 2 /\ 1 <= 2
        BY <3>3
      <4>2. \A a \in 1..size' : Len(connections'[group'[a]]) = 1
        BY <3>2, <3>3
      <4> QED
        BY <4>1, <4>2
    <3> QED
      BY <1>5, <3>1, <3>4 DEF LengthInv
  <2> QED
    BY <1>1, <2>1, <2>3, <2>4
<1>8. CASE ~ Few
  <2>1. Partner = sub
    BY <1>8 DEF Partner
  <2>2. \A a \in 1..size : Len(connections[group[a]]) = Ends(a)
    BY <1>1, <1>8 DEF LengthInv
  <2>3. ASSUME NEW a \in 1..size
        PROVE  /\ pc' = "link" => Len(connections'[group[a]]) = Ends(a)'
               /\ pc' # "link" => Len(connections'[group[a]]) <= 2 * (size - 1)
    <3>1. Len(connections'[group[a]]) =
            Ends(a) + IF count # sub /\ a \in {count, sub} THEN 1 ELSE 0
      BY <1>4, <2>1, <2>2
    <3>2. 2 * (size - 1) <= 2 * (size - 1)
      BY <1>1
    <3> QED
      BY <1>8, <3>1, <3>2, EndsStep
  <2> QED
    BY <1>1, <1>5, <1>6, <1>8, <2>3 DEF LengthInv
<1> QED
  BY <1>7, <1>8

(* Every step keeps it.                                                     *)
LEMMA StepLength ==
  ASSUME minConnections <= 4, IInv, GraphInv, LengthInv, [Next]_vars
  PROVE  LengthInv'
<1>1. CASE Shuffle
  <2>1. UNCHANGED <<client_list, pc, connections, msg>> /\ pc = "shuffle" /\ size' = size
    BY <1>1 DEF Shuffle, size
  <2> QED
    BY <2>1 DEF LengthInv
<1>2. CASE Shuffled
  <2>1. /\ UNCHANGED <<client_list, group, count, sub, connections, msg>>
        /\ pc = "shuffle" /\ size' = size /\ size \in Nat \ {0} /\ count = 1 /\ sub = 1
        /\ pc' = IF size = 1 THEN "next" ELSE "link"
        /\ \A a \in 1..size : group[a] \in Clients
    BY <1>2 DEF Shuffled, size, IInv, ArrayInv
  <2>2. \A a \in 1..size : Len(connections[group[a]]) = 0
    BY <2>1 DEF LengthInv
  <2>3. Few' = Few /\ (size # 1 /\ Few => size = 2)
    BY <2>1, GraphAssumption DEF Few
  <2>4. \A a \in 1..size : Ends(a)' = 0
    BY <2>1 DEF Ends
  <2>5. 0 <= 2 * (size - 1)
    BY <2>1
  <2> QED
    BY <2>1, <2>2, <2>3, <2>4, <2>5 DEF LengthInv
<1>3. CASE Link
  BY <1>3, LinkLength
<1>4. CASE NextClient \/ Search
  <2>1. /\ UNCHANGED <<client_list, group, connections, msg>> /\ size' = size
        /\ pc \notin {"shuffle", "link"} /\ pc' \notin {"shuffle", "link"}
    BY <1>4 DEF NextClient, Search, size
  <2> QED
    BY <2>1 DEF LengthInv
<1>5. CASE client_send_peers
  <2>1. /\ UNCHANGED <<client_list, group, connections>> /\ size' = size
        /\ pc \notin {"shuffle", "link"} /\ pc' \notin {"shuffle", "link"}
        /\ pc \in {"next", "search", "send"} /\ size \in Nat \ {0}
    BY <1>5, ListFacts DEF client_send_peers, size
  <2>2. PICK c \in Clients, s \in Seq(Clients) :
          /\ c = client_list[here]
          /\ msg' = [msg EXCEPT ![c] = s]
          /\ Len(s) = size - 1 \/ s = connections[c]
    BY <1>5, Message
  <2>3. Len(s) <= 2 * (size - 1)
    <3>1. here \in 1..size
      BY <2>1, HereInList
    <3>2. PICK a \in 1..size : c = group[a]
      BY <2>2, <3>1 DEF GraphInv, LinkInv
    <3>3. Len(connections[c]) <= 2 * (size - 1)
      BY <2>1, <3>2 DEF LengthInv
    <3>4. size - 1 <= 2 * (size - 1)
      BY <2>1
    <3> QED
      BY <2>2, <3>3, <3>4
  <2>4. \A d \in Clients : Len(msg'[d]) <= 2 * (size' - 1)
    <3>1. msg \in [Clients -> Seq(Clients)]
      BY DEF GraphInv, LoopInv
    <3> QED
      BY <2>1, <2>2, <2>3, <3>1 DEF LengthInv
  <2> QED
    BY <2>1, <2>4 DEF LengthInv
<1>6. CASE UNCHANGED vars
  <2>1. size' = size
    BY <1>6 DEF size, vars
  <2>2. Few' = Few /\ \A a : Ends(a)' = Ends(a)
    BY <1>6, <2>1 DEF Few, Ends, vars
  <2> QED
    BY <1>6, <2>1, <2>2 DEF LengthInv, vars
<1> QED
  BY <1>1, <1>2, <1>3, <1>4, <1>5, <1>6 DEF Next

-------------------------------------------------------------------------------
(* The theorems about the search and the messages. *)

(* Every variable of manage_graph keeps its type; the loops stay within the *)
(* array and the list.                                                      *)
THEOREM TypeCorrect == Spec => []TypeOK
<1>1. ASSUME IInv, GraphInv PROVE TypeOK
  <2>1. /\ counter \in 1..size /\ group \in [1..size -> Clients] /\ size \in Nat
        /\ connections \in [Clients -> Seq(Clients)]
    BY <1>1 DEF IInv, ArrayInv, EdgeInv
  <2>2. client_list \in Seq(Clients) /\ group \in Seq(Clients)
    BY <1>1, <2>1, ListFacts
  <2> QED
    BY <1>1, <2>1, <2>2 DEF GraphInv, LoopInv, TypeOK, Nodes
<1> QED
  BY <1>1, GraphInvariance, PTL

(* For any number of clients and any graph the shuffle leads to, the search *)
(* for a client ends at its own node and never runs out of nodes before.    *)
THEOREM AlwaysFinds == Spec => []SearchFinds
<1>1. IInv /\ GraphInv => SearchFinds
  BY DEF GraphInv, SearchInv, SearchFinds
<1> QED
  BY <1>1, GraphInvariance, PTL

(* When manage_graph is done every client has been sent all the others and  *)
(* not itself, whatever PEER_POOL_SIZE and minConnections are.              *)
THEOREM AlwaysTold == Spec => []EveryoneTold
<1>1. ASSUME IInv, GraphInv PROVE EveryoneTold
  <2> SUFFICES ASSUME pc = "done", NEW c \in Members
               PROVE  ToSet(msg[c]) = Members \ {c}
    BY DEF EveryoneTold
  <2>1. PICK k \in 1..size : c = client_list[k]
    BY DEF Members
  <2>2. here = size + 1 /\ size \in Nat
    BY <1>1, ListFacts DEF GraphInv, LoopInv
  <2>3. k < here
    BY <2>2
  <2> QED
    BY <1>1, <2>1, <2>3 DEF GraphInv, SearchInv
<1> QED
  BY <1>1, GraphInvariance, PTL

(* No message names a client more than twice on average, with the 4 that    *)
(* manage_graph passes for minConnections or less.                          *)
THEOREM AlwaysShort ==
  ASSUME minConnections <= 4
  PROVE  Spec => []MessageLength
<1>1. IInv /\ GraphInv /\ LengthInv => MessageLength
  BY ListFacts DEF LengthInv, MessageLength
<1>2. IInv /\ GraphInv /\ LengthInv /\ [Next]_vars => LengthInv'
  BY StepLength
<1> QED
  BY <1>1, <1>2, InitLength, GraphInvariance, PTL DEF Spec
===============================================================================
