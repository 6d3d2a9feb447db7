-------------------------------- MODULE PtrList -------------------------------
(***************************************************************************)
(* The doubly linked list of ac-lib/list.c, in a heap of list elements.    *)
(*                                                                         *)
(* malloc returns any element that is free.  Its next field is not         *)
(* initialised by list_add unless the list was empty: it holds NULL, or    *)
(* what the memory held when it was last freed.  A freed element keeps its *)
(* fields, and reads and writes through a dangling pointer reach it.       *)
(*                                                                         *)
(* All calls are made under the mutex of the list, or on a list that only  *)
(* one thread knows, so a call is one step.                                *)
(***************************************************************************)
EXTENDS Naturals, Sequences

CONSTANTS Cells,   \* addresses of list elements
          Vals,    \* the pointers that are put on the list
          NULL,
          Reuse    \* TRUE: malloc may return an element as it was freed;
                   \* FALSE: all memory it returns is zero

ASSUME ListAssumption == NULL \notin Cells /\ Reuse \in BOOLEAN

VARIABLES
  val, next, prev,   \* the fields of every element
  used,              \* the elements that are allocated
  head, tail, size   \* the fields of the list

vars == <<val, next, prev, used, head, tail, size>>

(* list_create. *)
Init ==
  /\ val = [e \in Cells |-> NULL]
  /\ next = [e \in Cells |-> NULL]
  /\ prev = [e \in Cells |-> NULL]
  /\ used = {}
  /\ head = NULL
  /\ tail = NULL
  /\ size = 0

-------------------------------------------------------------------------------
(* The element pos steps behind e, as list_item_at and the loops of the     *)
(* callers reach it; NULL when a NULL is reached before.                    *)
From(e) ==
  LET at[i \in Nat] ==
        IF i = 0 THEN e
        ELSE IF at[i - 1] = NULL THEN NULL ELSE next[at[i - 1]]
  IN  at

(* The elements list_item_at reaches, and their values.                     *)
Chain == [i \in 1..size |-> From(head)[i - 1]]
list_item_at(pos) == IF Chain[pos] = NULL THEN NULL ELSE val[Chain[pos]]
Items == [i \in 1..size |-> list_item_at(i)]

-------------------------------------------------------------------------------
(* Mutation: head and tail are mixed up.                                    *)
AddInFront(v) ==
  \E e \in Cells \ used :
    /\ used' = used \union {e}
    /\ val' = [val EXCEPT ![e] = v]
    /\ next' = [next EXCEPT ![e] = head]
    /\ prev' = [prev EXCEPT ![head] = e]
    /\ head' = e
    /\ tail' = IF size = 0 THEN e ELSE tail
    /\ size' = size + 1

(* Mutation: list_add links the value, a void pointer as well, not the      *)
(* element.                                                                 *)
AddLinksValue(v) ==
  \E e \in Cells \ used :
    /\ used' = used \union {e}
    /\ val' = [val EXCEPT ![e] = v]
    /\ next' = [next EXCEPT ![tail] = v]
    /\ prev' = [prev EXCEPT ![e] = tail]
    /\ head' = IF size = 0 THEN e ELSE head
    /\ tail' = e
    /\ size' = size + 1

(* Mutation: the new element is not linked behind the tail.                 *)
AddUnlinked(v) ==
  \E e \in Cells \ used :
    /\ used' = used \union {e}
    /\ val' = [val EXCEPT ![e] = v]
    /\ next' = next
    /\ prev' = [prev EXCEPT ![e] = IF size = 0 THEN NULL ELSE tail]
    /\ head' = IF size = 0 THEN e ELSE head
    /\ tail' = e
    /\ size' = size + 1

list_add(v) ==
  \E e \in Cells \ used :
    /\ used' = used \union {e}
    /\ val' = [val EXCEPT ![e] = v]
    /\ tail' = e
    /\ size' = size + 1
    /\ \/ /\ size = 0
          /\ next' = [next EXCEPT ![e] = NULL]
          /\ prev' = [prev EXCEPT ![e] = NULL]
          /\ head' = e
       \/ /\ size > 0
          /\ \E residue \in IF Reuse THEN {NULL, next[e]} ELSE {NULL} :
               next' = [next EXCEPT ![e] = residue, ![tail] = e]
          /\ prev' = [prev EXCEPT ![e] = tail]
          /\ UNCHANGED head

(* list_remove of a value its search loop finds: the first element with     *)
(* value v on the way from head to the first NULL.  Where prev is NULL or   *)
(* dangling, list_remove writes through it.                                 *)
Finds(v, e) ==
  \E i \in 0..(2 * size) :
    /\ From(head)[i] = e
    /\ e # NULL
    /\ val[e] = v
    /\ \A j \in 0..(i - 1) : From(head)[j] # NULL /\ val[From(head)[j]] # v

list_remove(v) ==
  \E e \in Cells :
    /\ size > 0
    /\ Finds(v, e)
    /\ head' = IF e = head THEN next[e] ELSE head
    /\ next' = IF e = head THEN next ELSE [next EXCEPT ![prev[e]] = next[e]]
    /\ tail' = IF e # head /\ next[e] = NULL THEN prev[e] ELSE tail
    /\ size' = size - 1
    /\ used' = used \ {e}
    /\ UNCHANGED <<val, prev>>

-------------------------------------------------------------------------------
(* The values callers add are pointers that are not on the list.            *)
OnList == {Items[i] : i \in 1..size}

(* The queue of manage_graph and the peer list of a client are emptied from *)
(* the front, and only while size is positive.                              *)
RemoveFirst == size > 0 /\ list_remove(list_item_at(1))

FifoNext == \/ \E v \in Vals \ OnList : list_add(v)
            \/ RemoveFirst

FifoSpec == Init /\ [][FifoNext]_vars

(* The client list of the name server: any client may leave.                *)
Next == \E v \in Vals : \/ v \notin OnList /\ list_add(v)
                        \/ v \in OnList /\ list_remove(v)

Spec == Init /\ [][Next]_vars

-------------------------------------------------------------------------------
TypeOK ==
  /\ val \in [Cells -> Vals \union {NULL}]
  /\ next \in [Cells -> Cells \union {NULL}]
  /\ prev \in [Cells -> Cells \union {NULL}]
  /\ used \subseteq Cells
  /\ head \in Cells \union {NULL}
  /\ tail \in Cells \union {NULL}
  /\ size \in Nat

(* The elements of the list are the allocated ones, each once, and tail is  *)
(* the last: nothing is lost and no operation follows a dangling pointer,   *)
(* though head removal leaves some and list_add leaves next unset.          *)
ChainIsSound ==
  /\ {Chain[i] : i \in 1..size} = used
  /\ \A i, j \in 1..size : Chain[i] = Chain[j] => i = j
  /\ size > 0 => Chain[size] = tail

(* What list.h promises: the values are those added and not removed, in the *)
(* order they were added.                                                   *)
Promise == INSTANCE ValueList WITH items <- Items
ImplementsList == Promise!Spec

===============================================================================
