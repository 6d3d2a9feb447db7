----------------------------- MODULE PtrListProofs ----------------------------
(***************************************************************************)
(* Proofs about PtrList: while values are only added at the end and taken  *)
(* from the front, as manage_graph and the peer list of a client do, the   *)
(* list of ac-lib/list.c is sound and implements ValueList, whatever       *)
(* malloc leaves in the memory it returns.                                 *)
(***************************************************************************)
EXTENDS PtrList, Recursion

(* An element or the end of the list.                                       *)
Places == Cells \union {NULL}

(* Every value on the list is one a caller has added.                       *)
ValuesAreAdded == \A e \in used : val[e] \in Vals

(* The inductive invariant of FifoSpec.                                     *)
FifoInv == TypeOK /\ ChainIsSound /\ ValuesAreAdded

-------------------------------------------------------------------------------
(* The walk of From(e) along any next fields nx.                            *)
Walk(nx, e) ==
  LET at[i \in Nat] ==
        IF i = 0 THEN e
        ELSE IF at[i - 1] = NULL THEN NULL ELSE nx[at[i - 1]]
  IN  at

(* What makes p the walk from e along nx.                                   *)
Walks(p, nx, e) ==
  /\ p \in [Nat -> Places]
  /\ p[0] = e
  /\ \A i \in Nat : p[i + 1] = IF p[i] = NULL THEN NULL ELSE nx[p[i]]

(* There is such a walk, from every place along any next fields.            *)
LEMMA WalkExists ==
  ASSUME NEW nx \in [Cells -> Places], NEW e \in Places
  PROVE  \E p : Walks(p, nx, e)
<1> DEFINE G == [x \in Nat \X Places |-> IF x[2] = NULL THEN NULL ELSE nx[x[2]]]
<1>1. G \in [Nat \X Places -> Places]
  BY DEF Places
<1>2. \A i \in Nat : \A x \in Places : G[<<i, x>>] = IF x = NULL THEN NULL ELSE nx[x]
  OBVIOUS
<1> HIDE DEF G
<1>3. PICK p : Iterates(p, Places, e, G)
  BY <1>1, PrimitiveRecursion
<1>4. Walks(p, nx, e)
  BY <1>2, <1>3 DEF Walks, Iterates
<1> QED
  BY <1>4

(* The recursive function of From is that walk.                             *)
LEMMA WalkWalks ==
  ASSUME NEW nx \in [Cells -> Places], NEW e \in Places
  PROVE  Walks(Walk(nx, e), nx, e)
<1> DEFINE Def(f) ==
             f = [i \in Nat |-> IF i = 0 THEN e
                                ELSE IF f[i - 1] = NULL THEN NULL ELSE nx[f[i - 1]]]
           h == Walk(nx, e)
<1>1. PICK p : Walks(p, nx, e)
  BY WalkExists
<1>2. Def(p)
  <2>1. ASSUME NEW i \in Nat
        PROVE  p[i] = IF i = 0 THEN e
                      ELSE IF p[i - 1] = NULL THEN NULL ELSE nx[p[i - 1]]
    <3>1. CASE i = 0
      BY <1>1, <3>1 DEF Walks
    <3>2. CASE i # 0
      <4>1. i - 1 \in Nat /\ i - 1 + 1 = i
        BY <3>2
      <4> QED
        BY <1>1, <3>2, <4>1 DEF Walks
    <3> QED
      BY <3>1, <3>2
  <2> QED
    BY <1>1, <2>1 DEF Walks
<1>3. h = CHOOSE f : Def(f)
  BY DEF Walk
<1>4. Def(CHOOSE f : Def(f))
  <2> HIDE DEF Def
  <2> QED
    BY <1>2
<1>5. Def(h)
  BY <1>3, <1>4
<1> HIDE DEF h
<1>6. h[0] = e
  BY <1>5
<1>7. \A i \in Nat : h[i + 1] = IF h[i] = NULL THEN NULL ELSE nx[h[i]]
  BY <1>5
<1>8. h \in [Nat -> Places]
  <2> DEFINE N == {i \in Nat : h[i] \in Places}
  <2>1. 0 \in N
    BY <1>6
  <2>2. \A i \in Nat : i \in N => i + 1 \in N
    BY <1>7 DEF Places
  <2> HIDE DEF N
  <2>3. Nat \subseteq N
    BY <2>1, <2>2, SetInduction
  <2> QED
    BY <1>5, <2>3 DEF N
<1> QED
  BY <1>6, <1>7, <1>8 DEF Walks, h

(* From(head) is a walk, before and after a step.                           *)
LEMMA FromWalks ==
  ASSUME TypeOK
  PROVE  Walks(From(head), next, head)
<1>1. From(head) = Walk(next, head)
  BY DEF From, Walk
<1> QED
  BY <1>1, WalkWalks DEF TypeOK, Places

(* The same after a step.                                                   *)
LEMMA FromWalksAfter ==
  ASSUME TypeOK'
  PROVE  Walks(From(head)', next', head')
<1>1. From(head)' = Walk(next', head')
  BY DEF From, Walk
<1> QED
  BY <1>1, WalkWalks DEF TypeOK, Places

-------------------------------------------------------------------------------
(* Taking the first element off shifts the walk by one.                     *)
LEMMA WalkShifts ==
  ASSUME NEW nx \in [Cells -> Places], NEW h \in Cells,
         NEW p, NEW q, Walks(p, nx, h), Walks(q, nx, nx[h])
  PROVE  \A i \in Nat : q[i] = p[i + 1]
<1> DEFINE N == {i \in Nat : q[i] = p[i + 1]}
<1>1. 0 \in N
  <2>1. h # NULL
    BY ListAssumption
  <2> QED
    BY <2>1 DEF Walks
<1>2. ASSUME NEW i \in Nat, i \in N PROVE i + 1 \in N
  BY <1>2 DEF Walks
<1> HIDE DEF N
<1>3. Nat \subseteq N
  BY <1>1, <1>2, SetInduction
<1> QED
  BY <1>3 DEF N

(* The next fields mx are those of nx, but for the new element e and for    *)
(* the last of the n elements of p, which is linked to e.                   *)
Links(mx, nx, p, n, e) ==
  /\ \A i \in 0..(n - 1) : p[i] # NULL /\ p[i] # e
  /\ \A i \in 0..(n - 2) : p[i] # p[n - 1]
  /\ mx[p[n - 1]] = e
  /\ \A c \in Cells : c # e /\ c # p[n - 1] => mx[c] = nx[c]

(* The walk q is the walk p of n elements, with e behind them.              *)
Grown(q, p, n, e) == (\A i \in 0..(n - 1) : q[i] = p[i]) /\ q[n] = e

(* Linking a new element behind the last leaves the walk up to there as it  *)
(* was, whatever the next field of the new element holds.                   *)
LEMMA WalkKeepsPrefix ==
  ASSUME NEW nx \in [Cells -> Places], NEW mx \in [Cells -> Places],
         NEW h \in Cells, NEW e \in Cells, NEW n \in Nat, n > 0,
         NEW p, NEW q, Walks(p, nx, h), Walks(q, mx, h), Links(mx, nx, p, n, e)
  PROVE  Grown(q, p, n, e)
<1> USE DEF Links
<1> DEFINE N == {i \in Nat : i <= n - 1 => q[i] = p[i]}
<1>1. 0 \in N
  BY DEF Walks
<1>2. ASSUME NEW i \in Nat, i \in N PROVE i + 1 \in N
  <2> SUFFICES ASSUME i + 1 <= n - 1 PROVE q[i + 1] = p[i + 1]
    OBVIOUS
  <2>1. q[i] = p[i] /\ i \in 0..(n - 1) /\ i \in 0..(n - 2)
    BY <1>2
  <2>2. p[i] \in Cells /\ p[i] # NULL
    BY <2>1 DEF Walks, Places
  <2>3. mx[p[i]] = nx[p[i]]
    BY <2>1, <2>2
  <2> QED
    BY <2>1, <2>2, <2>3 DEF Walks
<1> HIDE DEF N
<1>3. Nat \subseteq N
  BY <1>1, <1>2, SetInduction
<1>4. \A i \in 0..(n - 1) : q[i] = p[i]
  BY <1>3 DEF N
<1>5. q[n] = e
  <2>1. n - 1 \in Nat /\ n - 1 + 1 = n /\ n - 1 \in 0..(n - 1)
    OBVIOUS
  <2>2. q[n - 1] = p[n - 1] /\ p[n - 1] # NULL
    BY <1>4, <2>1
  <2>3. q[n - 1 + 1] = mx[q[n - 1]]
    BY <2>1, <2>2 DEF Walks
  <2> QED
    BY <2>1, <2>2, <2>3
<1> QED
  BY <1>4, <1>5 DEF Grown

-------------------------------------------------------------------------------
(* ChainIsSound, said of a walk p, a length n, the elements u in use and    *)
(* the last element t.                                                      *)
SoundWalk(p, n, u, t) ==
  /\ \A i \in 0..(n - 1) : p[i] \in u
  /\ \A c \in u : \E i \in 0..(n - 1) : p[i] = c
  /\ \A i, j \in 0..(n - 1) : p[i] = p[j] => i = j
  /\ n > 0 => p[n - 1] = t

(* The same of the chain of the n elements in a sequence.                   *)
SoundChain(c, n, u, t) ==
  /\ {c[i] : i \in 1..n} = u
  /\ \A i, j \in 1..n : c[i] = c[j] => i = j
  /\ n > 0 => c[n] = t

(* Whether the elements are numbered from 0 or from 1 makes no difference.  *)
LEMMA ChainOfWalk ==
  ASSUME NEW p, NEW n \in Nat, NEW u, NEW t
  PROVE  SoundWalk(p, n, u, t)
           <=> SoundChain([i \in 1..n |-> p[i - 1]], n, u, t)
<1> DEFINE c == [i \in 1..n |-> p[i - 1]]
<1>1. \A i \in 0..(n - 1) : i + 1 \in 1..n /\ c[i + 1] = p[i]
  <2> SUFFICES ASSUME NEW i \in 0..(n - 1)
               PROVE  i + 1 \in 1..n /\ c[i + 1] = p[i]
    OBVIOUS
  <2>1. i + 1 \in 1..n /\ i + 1 - 1 = i
    OBVIOUS
  <2> QED
    BY <2>1
<1>2. \A i \in 1..n : i - 1 \in 0..(n - 1) /\ c[i] = p[i - 1]
  OBVIOUS
<1> HIDE DEF c
<1>3. ASSUME SoundWalk(p, n, u, t) PROVE SoundChain(c, n, u, t)
  <2>1. \A x \in u : \E i \in 1..n : c[i] = x
    <3> SUFFICES ASSUME NEW x \in u PROVE \E i \in 1..n : c[i] = x
      OBVIOUS
    <3>1. PICK i \in 0..(n - 1) : p[i] = x
      BY <1>3 DEF SoundWalk
    <3> QED
      BY <1>1, <3>1
  <2>2. \A i \in 1..n : c[i] \in u
    BY <1>2, <1>3 DEF SoundWalk
  <2>3. ASSUME NEW i \in 1..n, NEW j \in 1..n, c[i] = c[j] PROVE i = j
    <3>1. i - 1 = j - 1
      BY <1>2, <1>3, <2>3 DEF SoundWalk
    <3> QED
      BY <3>1
  <2>4. n > 0 => c[n] = t
    BY <1>2, <1>3 DEF SoundWalk
  <2> QED
    BY <2>1, <2>2, <2>3, <2>4 DEF SoundChain
<1>4. ASSUME SoundChain(c, n, u, t) PROVE SoundWalk(p, n, u, t)
  <2>1. \A i \in 0..(n - 1) : p[i] \in u
    BY <1>1, <1>4 DEF SoundChain
  <2>2. \A x \in u : \E i \in 0..(n - 1) : p[i] = x
    <3> SUFFICES ASSUME NEW x \in u PROVE \E i \in 0..(n - 1) : p[i] = x
      OBVIOUS
    <3>1. PICK i \in 1..n : c[i] = x
      BY <1>4 DEF SoundChain
    <3> QED
      BY <1>2, <3>1
  <2>3. ASSUME NEW i \in 0..(n - 1), NEW j \in 0..(n - 1), p[i] = p[j]
        PROVE  i = j
    <3>1. i + 1 \in 1..n /\ j + 1 \in 1..n /\ c[i + 1] = c[j + 1]
      BY <1>1, <2>3
    <3>2. i + 1 = j + 1
      BY <1>4, <3>1 DEF SoundChain
    <3> QED
      BY <3>2
  <2>4. n > 0 => p[n - 1] = t
    BY <1>2, <1>4 DEF SoundChain
  <2> QED
    BY <2>1, <2>2, <2>3, <2>4 DEF SoundWalk
<1> QED
  BY <1>3, <1>4 DEF c

(* ChainIsSound, in terms of the walk.                                      *)
LEMMA ChainBefore ==
  ASSUME TypeOK
  PROVE  ChainIsSound <=> SoundWalk(From(head), size, used, tail)
<1>1. SoundWalk(From(head), size, used, tail)
        <=> SoundChain(Chain, size, used, tail)
  BY ChainOfWalk DEF TypeOK, Chain
<1>2. ChainIsSound <=> SoundChain(Chain, size, used, tail)
  BY DEF ChainIsSound, SoundChain
<1> QED
  BY <1>1, <1>2

(* The same after a step.                                                   *)
LEMMA ChainAfter ==
  ASSUME TypeOK'
  PROVE  ChainIsSound' <=> SoundWalk(From(head)', size', used', tail')
<1>1. SoundWalk(From(head)', size', used', tail')
        <=> SoundChain(Chain', size', used', tail')
  BY ChainOfWalk DEF TypeOK, Chain
<1>2. ChainIsSound' <=> SoundChain(Chain', size', used', tail')
  BY DEF ChainIsSound, SoundChain
<1> QED
  BY <1>1, <1>2

-------------------------------------------------------------------------------
(* What a step does to the walk.  list_add puts one element behind it.      *)
LEMMA AddWalk ==
  ASSUME FifoInv, TypeOK', NEW v \in Vals, NEW e \in Cells \ used,
         NEW residue \in Places,
         tail' = e, size' = size + 1,
         \/ size = 0 /\ head' = e
         \/ /\ size > 0
            /\ next' = [next EXCEPT ![e] = residue, ![tail] = e]
            /\ head' = head,
         NEW p, NEW q, Walks(p, next, head), Walks(q, next', head'),
         SoundWalk(p, size, used, tail)
  PROVE  (\A i \in 0..(size - 1) : q[i] = p[i]) /\ q[size] = e
<1> USE DEF FifoInv, TypeOK
<1>1. CASE size = 0 /\ head' = e
  BY <1>1 DEF Walks
<1>2. CASE size > 0 /\ next' = [next EXCEPT ![e] = residue, ![tail] = e] /\ head' = head
  <2>1. p[size - 1] = tail /\ tail \in used /\ tail \in Cells
    BY <1>2 DEF SoundWalk
  <2>2. head \in Cells
    BY <1>2 DEF SoundWalk, Walks
  <2>3. \A i \in 0..(size - 1) : p[i] # NULL /\ p[i] # e
    BY ListAssumption DEF SoundWalk
  <2>4. \A i \in 0..(size - 2) : p[i] # p[size - 1]
    BY <1>2 DEF SoundWalk
  <2>5. next'[p[size - 1]] = e
    BY <1>2, <2>1
  <2>6. \A c \in Cells : c # e /\ c # p[size - 1] => next'[c] = next[c]
    BY <1>2, <2>1
  <2>7. next \in [Cells -> Places] /\ next' \in [Cells -> Places]
    BY DEF Places
  <2>8. Walks(q, next', head)
    BY <1>2
  <2>9. size \in Nat /\ e \in Cells /\ size > 0
    BY <1>2
  <2>10. Links(next', next, p, size, e)
    BY <2>3, <2>4, <2>5, <2>6 DEF Links
  <2>11. Walks(p, next, head)
    BY DEF SoundWalk
  <2> HIDE DEF FifoInv, TypeOK
  <2> DEFINE nx == next
             mx == next'
  <2>12. /\ nx \in [Cells -> Places] /\ mx \in [Cells -> Places]
         /\ head \in Cells /\ e \in Cells /\ size \in Nat /\ size > 0
         /\ Walks(p, nx, head) /\ Walks(q, mx, head) /\ Links(mx, nx, p, size, e)
    BY <2>2, <2>7, <2>8, <2>9, <2>10, <2>11
  <2> HIDE DEF nx, mx
  <2>13. Grown(q, p, size, e)
    BY <2>12, WalkKeepsPrefix
  <2> QED
    BY <2>13 DEF Grown
<1> QED
  BY <1>1, <1>2

(* An addition: types, and then the chain.                                  *)
LEMMA AddKeepsTypes ==
  ASSUME FifoInv, NEW v \in Vals, list_add(v)
  PROVE  TypeOK'
<1> USE DEF FifoInv, TypeOK
<1>1. PICK e \in Cells \ used :
        /\ used' = used \union {e}
        /\ val' = [val EXCEPT ![e] = v]
        /\ tail' = e
        /\ size' = size + 1
        /\ \/ /\ size = 0
              /\ next' = [next EXCEPT ![e] = NULL]
              /\ prev' = [prev EXCEPT ![e] = NULL]
              /\ head' = e
           \/ /\ size > 0
              /\ \E residue \in IF Reuse THEN {NULL, next[e]} ELSE {NULL} :
                   next' = [next EXCEPT ![e] = residue, ![tail] = e]
              /\ prev' = [prev EXCEPT ![e] = tail]
              /\ UNCHANGED head
  BY DEF list_add
<1>2. next' \in [Cells -> Cells \union {NULL}]
  BY <1>1
<1>3. prev' \in [Cells -> Cells \union {NULL}]
  BY <1>1
<1>4. val' \in [Cells -> Vals \union {NULL}]
  BY <1>1
<1> QED
  BY <1>1, <1>2, <1>3, <1>4

(* list_add walks as before and puts a new element at the end.              *)
LEMMA AddStep ==
  ASSUME FifoInv, NEW v \in Vals, list_add(v)
  PROVE  \E e, p, q :
           /\ e \in Cells \ used
           /\ Walks(p, next, head)
           /\ Walks(q, next', head')
           /\ p = From(head)
           /\ q = From(head)'
           /\ SoundWalk(p, size, used, tail)
           /\ \A i \in 0..(size - 1) : q[i] = p[i]
           /\ q[size] = e
           /\ used' = used \union {e}
           /\ val' = [val EXCEPT ![e] = v]
           /\ tail' = e
           /\ size' = size + 1
<1>1. TypeOK'
  BY AddKeepsTypes
<1>2. PICK e \in Cells \ used :
        /\ used' = used \union {e}
        /\ val' = [val EXCEPT ![e] = v]
        /\ tail' = e
        /\ size' = size + 1
        /\ \/ size = 0 /\ head' = e
           \/ /\ size > 0
              /\ \E residue \in Places :
                   next' = [next EXCEPT ![e] = residue, ![tail] = e]
              /\ head' = head
  BY DEF list_add, Places, FifoInv, TypeOK
<1>3. PICK p : p = From(head)
  OBVIOUS
<1>4. PICK q : q = From(head)'
  OBVIOUS
<1>5. Walks(p, next, head) /\ Walks(q, next', head')
  BY <1>1, <1>3, <1>4, FromWalks, FromWalksAfter DEF FifoInv
<1>6. SoundWalk(p, size, used, tail)
  BY <1>3, ChainBefore DEF FifoInv
<1>7. (\A i \in 0..(size - 1) : q[i] = p[i]) /\ q[size] = e
  <2>1. CASE size = 0 /\ head' = e
    BY <1>1, <1>2, <1>5, <1>6, <2>1, AddWalk DEF Places
  <2>2. CASE /\ size > 0
             /\ \E residue \in Places :
                  next' = [next EXCEPT ![e] = residue, ![tail] = e]
             /\ head' = head
    <3>1. PICK residue \in Places :
            next' = [next EXCEPT ![e] = residue, ![tail] = e]
      BY <2>2
    <3> QED
      BY <1>1, <1>2, <1>5, <1>6, <2>2, <3>1, AddWalk
  <2> QED
    BY <1>2, <2>1, <2>2
<1> QED
  BY <1>2, <1>3, <1>4, <1>5, <1>6, <1>7

(* list_add keeps the invariant.                                            *)
LEMMA AddKeepsInv ==
  ASSUME FifoInv, NEW v \in Vals, list_add(v)
  PROVE  FifoInv'
<1>1. TypeOK'
  BY AddKeepsTypes
<1>2. PICK e, p, q :
        /\ e \in Cells \ used
        /\ q = From(head)'
        /\ SoundWalk(p, size, used, tail)
        /\ \A i \in 0..(size - 1) : q[i] = p[i]
        /\ q[size] = e
        /\ used' = used \union {e}
        /\ val' = [val EXCEPT ![e] = v]
        /\ tail' = e
        /\ size' = size + 1
  BY AddStep
<1>3. size \in Nat
  BY DEF FifoInv, TypeOK
<1>4. SoundWalk(q, size', used', tail')
  <2>1. \A i \in 0..size : i \in 0..(size - 1) \/ i = size
    BY <1>3
  <2>2. \A i \in 0..size : q[i] \in used'
    BY <1>2, <2>1 DEF SoundWalk
  <2>3. \A c \in used' : \E i \in 0..size : q[i] = c
    <3> SUFFICES ASSUME NEW c \in used' PROVE \E i \in 0..size : q[i] = c
      OBVIOUS
    <3>1. CASE c = e
      BY <1>2, <1>3, <3>1
    <3>2. CASE c \in used
      <4>1. PICK i \in 0..(size - 1) : p[i] = c
        BY <1>2, <3>2 DEF SoundWalk
      <4> QED
        BY <1>2, <1>3, <4>1
    <3> QED
      BY <1>2, <3>1, <3>2
  <2>4. ASSUME NEW i \in 0..size, NEW j \in 0..size, q[i] = q[j]
        PROVE  i = j
    <3>1. \A k \in 0..(size - 1) : q[k] \in used /\ q[k] # e
      BY <1>2 DEF SoundWalk
    <3>2. CASE i \in 0..(size - 1) /\ j \in 0..(size - 1)
      BY <1>2, <2>4, <3>2 DEF SoundWalk
    <3> QED
      BY <1>2, <2>1, <2>4, <3>1, <3>2
  <2>5. size' - 1 = size /\ q[size' - 1] = tail'
    BY <1>2, <1>3
  <2> QED
    BY <2>2, <2>3, <2>4, <2>5 DEF SoundWalk
<1>5. ChainIsSound'
  BY <1>1, <1>2, <1>4, ChainAfter
<1>6. ValuesAreAdded'
  BY <1>2 DEF ValuesAreAdded, FifoInv, TypeOK
<1> QED
  BY <1>1, <1>5, <1>6 DEF FifoInv

-------------------------------------------------------------------------------
(* The first element that holds the first value is the first element.       *)
LEMMA RemoveStep ==
  ASSUME FifoInv, RemoveFirst
  PROVE  /\ size > 0
         /\ head \in used
         /\ list_item_at(1) = val[head]
         /\ head' = next[head]
         /\ next' = next
         /\ tail' = tail
         /\ size' = size - 1
         /\ used' = used \ {head}
         /\ val' = val
         /\ prev' = prev
<1>1. PICK p : p = From(head)
  OBVIOUS
<1>2. Walks(p, next, head) /\ SoundWalk(p, size, used, tail)
  BY <1>1, FromWalks, ChainBefore DEF FifoInv
<1>3. size > 0 /\ size \in Nat /\ used \subseteq Cells
  BY DEF RemoveFirst, FifoInv, TypeOK
<1>4. p[0] = head /\ head \in used /\ head # NULL
  BY <1>2, <1>3, ListAssumption DEF Walks, SoundWalk
<1>5. Chain[1] = head
  <2>1. Chain = [i \in 1..size |-> p[i - 1]]
    BY <1>1 DEF Chain
  <2> QED
    BY <1>3, <1>4, <2>1
<1>6. list_item_at(1) = val[head]
  BY <1>4, <1>5 DEF list_item_at
<1>7. list_remove(val[head])
  BY <1>6 DEF RemoveFirst
<1>8. PICK e \in Cells :
        /\ Finds(val[head], e)
        /\ head' = IF e = head THEN next[e] ELSE head
        /\ next' = IF e = head THEN next ELSE [next EXCEPT ![prev[e]] = next[e]]
        /\ tail' = IF e # head /\ next[e] = NULL THEN prev[e] ELSE tail
        /\ size' = size - 1
        /\ used' = used \ {e}
        /\ val' = val
        /\ prev' = prev
  BY <1>7 DEF list_remove
<1>9. e = head
  <2>1. PICK i \in 0..(2 * size) :
          /\ p[i] = e
          /\ \A j \in 0..(i - 1) : p[j] # NULL /\ val[p[j]] # val[head]
    BY <1>1, <1>8 DEF Finds
  <2>2. i = 0
    BY <1>3, <1>4, <2>1
  <2> QED
    BY <1>4, <2>1, <2>2
<1> QED
  BY <1>3, <1>4, <1>6, <1>8, <1>9

(* Taking the first element keeps the types.                                *)
LEMMA RemoveKeepsTypes ==
  ASSUME FifoInv, RemoveFirst
  PROVE  TypeOK'
<1> USE RemoveStep DEF FifoInv, TypeOK
<1>1. size' \in Nat
  OBVIOUS
<1>2. head' \in Cells \union {NULL}
  OBVIOUS
<1> QED
  BY <1>1, <1>2

(* Taking the first element shifts the walk by one.                         *)
LEMMA RemoveWalk ==
  ASSUME FifoInv, RemoveFirst
  PROVE  \E p, q :
           /\ p = From(head)
           /\ q = From(head)'
           /\ Walks(p, next, head)
           /\ SoundWalk(p, size, used, tail)
           /\ \A i \in Nat : q[i] = p[i + 1]
<1>1. TypeOK'
  BY RemoveKeepsTypes
<1>2. PICK p : p = From(head)
  OBVIOUS
<1>3. PICK q : q = From(head)'
  OBVIOUS
<1>4. Walks(p, next, head) /\ Walks(q, next', head')
  BY <1>1, <1>2, <1>3, FromWalks, FromWalksAfter DEF FifoInv
<1>5. SoundWalk(p, size, used, tail)
  BY <1>2, ChainBefore DEF FifoInv
<1>6. Walks(q, next, next[head]) /\ head \in Cells /\ next \in [Cells -> Places]
  BY <1>4, RemoveStep DEF FifoInv, TypeOK, Places
<1>7. \A i \in Nat : q[i] = p[i + 1]
  BY <1>4, <1>6, WalkShifts
<1> QED
  BY <1>2, <1>3, <1>4, <1>5, <1>7

(* Taking the first element keeps the invariant.                            *)
LEMMA RemoveKeepsInv ==
  ASSUME FifoInv, RemoveFirst
  PROVE  FifoInv'
<1>1. TypeOK'
  BY RemoveKeepsTypes
<1>2. PICK p, q :
        /\ q = From(head)'
        /\ Walks(p, next, head)
        /\ SoundWalk(p, size, used, tail)
        /\ \A i \in Nat : q[i] = p[i + 1]
  BY RemoveWalk
<1>3. /\ size \in Nat /\ size > 0
      /\ size' = size - 1 /\ used' = used \ {p[0]} /\ tail' = tail
  BY <1>2, RemoveStep DEF Walks, FifoInv, TypeOK
<1>4. SoundWalk(q, size', used', tail')
  <2>1. ASSUME NEW i \in 0..(size' - 1)
        PROVE  i \in Nat /\ i + 1 \in 0..(size - 1) /\ i + 1 # 0 /\ q[i] = p[i + 1]
    BY <1>2, <1>3
  <2>2. \A i \in 0..(size' - 1) : q[i] \in used'
    <3> SUFFICES ASSUME NEW i \in 0..(size' - 1) PROVE q[i] \in used'
      OBVIOUS
    <3>1. 0 \in 0..(size - 1)
      BY <1>3
    <3>2. p[i + 1] # p[0] /\ p[i + 1] \in used
      BY <1>2, <2>1, <3>1 DEF SoundWalk
    <3> QED
      BY <1>3, <2>1, <3>2
  <2>3. \A c \in used' : \E i \in 0..(size' - 1) : q[i] = c
    <3> SUFFICES ASSUME NEW c \in used' PROVE \E i \in 0..(size' - 1) : q[i] = c
      OBVIOUS
    <3>1. PICK k \in 0..(size - 1) : p[k] = c
      BY <1>2, <1>3 DEF SoundWalk
    <3>2. k # 0 /\ k - 1 \in 0..(size' - 1) /\ k - 1 + 1 = k /\ k - 1 \in Nat
      BY <1>3, <3>1
    <3>3. q[k - 1] = p[k - 1 + 1]
      BY <1>2, <3>2
    <3> QED
      BY <3>1, <3>2, <3>3
  <2>4. ASSUME NEW i \in 0..(size' - 1), NEW j \in 0..(size' - 1), q[i] = q[j]
        PROVE  i = j
    <3>1. i + 1 = j + 1
      BY <1>2, <2>1, <2>4 DEF SoundWalk
    <3> QED
      BY <3>1
  <2>5. ASSUME size' > 0 PROVE q[size' - 1] = tail'
    <3>1. size' - 1 \in Nat /\ size' - 1 + 1 = size - 1
      BY <1>3, <2>5
    <3>2. q[size' - 1] = p[size' - 1 + 1]
      BY <1>2, <3>1
    <3> QED
      BY <1>2, <1>3, <3>1, <3>2 DEF SoundWalk
  <2> QED
    BY <2>2, <2>3, <2>4, <2>5 DEF SoundWalk
<1>5. ChainIsSound'
  BY <1>1, <1>2, <1>4, ChainAfter
<1>6. ValuesAreAdded'
  BY RemoveStep DEF ValuesAreAdded, FifoInv
<1> QED
  BY <1>1, <1>5, <1>6 DEF FifoInv

-------------------------------------------------------------------------------
(* The invariant holds at first, and every step keeps it.                   *)
LEMMA InitInv == Init => FifoInv
<1> SUFFICES ASSUME Init PROVE FifoInv
  OBVIOUS
<1>1. TypeOK
  BY DEF Init, TypeOK
<1>2. size = 0 /\ used = {}
  BY DEF Init
<1>3. SoundWalk(From(head), size, used, tail)
  BY <1>2 DEF SoundWalk
<1>4. ChainIsSound
  BY <1>1, <1>3, ChainBefore
<1> QED
  BY <1>1, <1>2, <1>4 DEF FifoInv, ValuesAreAdded

(* What changes nothing keeps the invariant, and the values on the list.    *)
LEMMA StutterInv ==
  ASSUME FifoInv, UNCHANGED vars
  PROVE  FifoInv' /\ Items' = Items
<1>1. TypeOK'
  BY DEF FifoInv, TypeOK, vars
<1>2. From(head)' = From(head)
  BY DEF From, vars
<1>3. SoundWalk(From(head), size, used, tail)
  BY ChainBefore DEF FifoInv
<1>4. SoundWalk(From(head)', size', used', tail')
  BY <1>2, <1>3 DEF vars
<1>5. ChainIsSound'
  BY <1>1, <1>4, ChainAfter
<1>6. Items' = Items
  BY <1>2 DEF Items, list_item_at, Chain, vars
<1> QED
  BY <1>1, <1>5, <1>6 DEF FifoInv, ValuesAreAdded, vars

(* Every step keeps the invariant.                                          *)
LEMMA NextInv == FifoInv /\ [FifoNext]_vars => FifoInv'
<1> SUFFICES ASSUME FifoInv, [FifoNext]_vars PROVE FifoInv'
  OBVIOUS
<1>1. ASSUME NEW v \in Vals \ OnList, list_add(v) PROVE FifoInv'
  BY <1>1, AddKeepsInv
<1>2. CASE RemoveFirst
  BY <1>2, RemoveKeepsInv
<1>3. CASE UNCHANGED vars
  BY <1>3, StutterInv
<1> QED
  BY <1>1, <1>2, <1>3 DEF FifoNext

(* The invariant always holds.                                              *)
LEMMA AlwaysInv == FifoSpec => []FifoInv
BY InitInv, NextInv, PTL DEF FifoSpec

(* Every field keeps its type: list_add and the removal from the front      *)
(* never store a stray pointer.                                             *)
THEOREM TypeCorrect == FifoSpec => []TypeOK
<1>1. FifoInv => TypeOK
  BY DEF FifoInv
<1> QED
  BY <1>1, AlwaysInv, PTL

(* The elements reached from head in size steps are those list_add has      *)
(* allocated and no removal has freed, each once, and tail is the last one. *)
THEOREM AlwaysSound == FifoSpec => []ChainIsSound
<1>1. FifoInv => ChainIsSound
  BY DEF FifoInv
<1> QED
  BY <1>1, AlwaysInv, PTL

-------------------------------------------------------------------------------
(* The values of the list, along the walk p.                                *)
LEMMA ItemsOfWalk ==
  ASSUME FifoInv, NEW p, p = From(head)
  PROVE  Items = [i \in 1..size |-> val[p[i - 1]]]
<1>1. SoundWalk(p, size, used, tail) /\ size \in Nat /\ used \subseteq Cells
  BY ChainBefore DEF FifoInv, TypeOK
<1>2. Chain = [i \in 1..size |-> p[i - 1]]
  BY DEF Chain
<1>3. ASSUME NEW i \in 1..size PROVE list_item_at(i) = val[p[i - 1]]
  <2>1. i - 1 \in 0..(size - 1)
    BY <1>1
  <2>2. p[i - 1] # NULL
    BY <1>1, <2>1, ListAssumption DEF SoundWalk
  <2> QED
    BY <1>2, <2>2 DEF list_item_at
<1> QED
  BY <1>3 DEF Items

(* The values on the list after a step.                                     *)
LEMMA ItemsOfWalkAfter ==
  ASSUME FifoInv', NEW q, q = From(head)'
  PROVE  Items' = [i \in 1..size' |-> val'[q[i - 1]]]
<1>1. SoundWalk(q, size', used', tail') /\ size' \in Nat /\ used' \subseteq Cells
  BY ChainAfter DEF FifoInv, TypeOK
<1>2. Chain' = [i \in 1..size' |-> q[i - 1]]
  BY DEF Chain
<1>3. ASSUME NEW i \in 1..size' PROVE list_item_at(i)' = val'[q[i - 1]]
  <2>1. \A n \in Nat : i \in 1..n => i - 1 \in 0..(n - 1)
    OBVIOUS
  <2>3. i - 1 \in 0..(size' - 1)
    BY <1>1, <2>1
  <2>2. q[i - 1] # NULL
    BY <1>1, <2>3, ListAssumption DEF SoundWalk
  <2> QED
    BY <1>2, <2>2 DEF list_item_at
<1> QED
  BY <1>3 DEF Items

(* list_add appends its value.                                              *)
LEMMA AddAppends ==
  ASSUME FifoInv, NEW v \in Vals, list_add(v)
  PROVE  Promise!Add(v)
<1>1. FifoInv'
  BY AddKeepsInv
<1>2. PICK e, p, q :
        /\ e \in Cells \ used
        /\ p = From(head)
        /\ q = From(head)'
        /\ SoundWalk(p, size, used, tail)
        /\ \A i \in 0..(size - 1) : q[i] = p[i]
        /\ q[size] = e
        /\ val' = [val EXCEPT ![e] = v]
        /\ size' = size + 1
  BY AddStep
<1>3. size \in Nat /\ val \in [Cells -> Vals \union {NULL}] /\ used \subseteq Cells
  BY DEF FifoInv, TypeOK
<1>4. Items = [i \in 1..size |-> val[p[i - 1]]]
  BY <1>2, ItemsOfWalk
<1>5. Items' = [i \in 1..(size + 1) |-> val'[q[i - 1]]]
  BY <1>1, <1>2, ItemsOfWalkAfter
<1>6. ASSUME NEW i \in 1..size PROVE val'[q[i - 1]] = val[p[i - 1]]
  <2>1. i - 1 \in 0..(size - 1)
    BY <1>3
  <2>2. q[i - 1] = p[i - 1] /\ p[i - 1] \in used
    BY <1>2, <2>1 DEF SoundWalk
  <2> QED
    BY <1>2, <1>3, <2>2
<1>7. val'[q[size + 1 - 1]] = v
  BY <1>2, <1>3
<1>8. Items \in Seq(Vals \union {NULL}) /\ Len(Items) = size
  <2>1. ASSUME NEW i \in 1..size PROVE val[p[i - 1]] \in Vals \union {NULL}
    <3>1. i - 1 \in 0..(size - 1)
      BY <1>3
    <3> QED
      BY <1>2, <1>3, <3>1 DEF SoundWalk
  <2> QED
    BY <1>3, <1>4, <2>1
<1>9. Items' = Append(Items, v)
  BY <1>3, <1>4, <1>5, <1>6, <1>7, <1>8
<1> QED
  BY <1>9 DEF Promise!Add

(* RemoveFirst takes the first value off.                                   *)
LEMMA RemoveTakesFirst ==
  ASSUME FifoInv, RemoveFirst
  PROVE  \E v \in Vals : Promise!Remove(v)
<1>1. FifoInv'
  BY RemoveKeepsInv
<1>2. PICK p, q :
        /\ p = From(head)
        /\ q = From(head)'
        /\ Walks(p, next, head)
        /\ SoundWalk(p, size, used, tail)
        /\ \A i \in Nat : q[i] = p[i + 1]
  BY RemoveWalk
<1>3. /\ size \in Nat /\ size > 0 /\ size' = size - 1
      /\ val' = val /\ val \in [Cells -> Vals \union {NULL}] /\ used \subseteq Cells
      /\ head \in used /\ p[0] = head
  BY <1>2, RemoveStep DEF FifoInv, TypeOK, Walks
<1>4. Items = [i \in 1..size |-> val[p[i - 1]]]
  BY <1>2, ItemsOfWalk
<1>5. Items' = [i \in 1..(size - 1) |-> val[p[i]]]
  <2>1. Items' = [i \in 1..(size - 1) |-> val[q[i - 1]]]
    BY <1>1, <1>2, <1>3, ItemsOfWalkAfter
  <2>2. \A i \in 1..(size - 1) : q[i - 1] = p[i]
    <3> SUFFICES ASSUME NEW i \in 1..(size - 1) PROVE q[i - 1] = p[i]
      OBVIOUS
    <3>1. i - 1 \in Nat /\ i - 1 + 1 = i
      BY <1>3
    <3> QED
      BY <1>2, <3>1
  <2> QED
    BY <2>1, <2>2
<1>6. Items \in Seq(Vals \union {NULL}) /\ Len(Items) = size
  <2>1. ASSUME NEW i \in 1..size PROVE val[p[i - 1]] \in Vals \union {NULL}
    <3>1. i - 1 \in 0..(size - 1)
      BY <1>3
    <3> QED
      BY <1>2, <1>3, <3>1 DEF SoundWalk
  <2> QED
    BY <1>3, <1>4, <2>1
<1>7. Items[1] = val[head] /\ val[head] \in Vals
  BY <1>3, <1>4 DEF FifoInv, ValuesAreAdded
<1>8. Items' = SubSeq(Items, 1, 0) \o SubSeq(Items, 2, Len(Items))
  <2>1. SubSeq(Items, 1, 0) = <<>>
    BY <1>6
  <2>2. Items' = SubSeq(Items, 2, size)
    BY <1>3, <1>4, <1>5, <1>6
  <2>3. SubSeq(Items, 2, size) \in Seq(Vals \union {NULL})
    BY <1>3, <1>6
  <2> QED
    BY <1>6, <2>1, <2>2, <2>3
<1>9. Promise!Remove(val[head])
  <2>1. 1 \in 1..Len(Items) /\ 1 - 1 = 0 /\ 1 + 1 = 2
    BY <1>3, <1>6
  <2>2. \A j \in 1..0 : Items[j] # val[head]
    OBVIOUS
  <2> QED
    BY <1>7, <1>8, <2>1, <2>2 DEF Promise!Remove
<1> QED
  BY <1>7, <1>9

(* The list of pointers is the list of values list.h promises: additions    *)
(* append and removals from the front take the oldest value, in every heap. *)
THEOREM Implements == FifoSpec => ImplementsList
<1>1. Init => Promise!Init
  BY DEF Init, Promise!Init, Items
<1>2. FifoInv /\ [FifoNext]_vars => [Promise!Next]_Items
  <2> SUFFICES ASSUME FifoInv, [FifoNext]_vars PROVE [Promise!Next]_Items
    OBVIOUS
  <2>1. ASSUME NEW v \in Vals \ OnList, list_add(v) PROVE Promise!Next
    BY <2>1, AddAppends DEF Promise!Next
  <2>2. CASE RemoveFirst
    BY <2>2, RemoveTakesFirst DEF Promise!Next
  <2>3. CASE UNCHANGED vars
    BY <2>3, StutterInv
  <2> QED
    BY <2>1, <2>2, <2>3 DEF FifoNext
<1> QED
  BY <1>1, <1>2, AlwaysInv, PTL DEF FifoSpec, ImplementsList, Promise!Spec
===============================================================================
