------------------------------- MODULE ValueList ------------------------------
(***************************************************************************)
(* What ac-lib/list.h promises: a list of values to which a value is added *)
(* at the end and from which a given value is removed.                     *)
(***************************************************************************)
EXTENDS Naturals, Sequences

CONSTANT Vals      \* the pointers that are put on the list

VARIABLE items     \* the values of the list, in order

Init == items = <<>>

Add(v) == items' = Append(items, v)

(* The first v is taken out; a v that is not there changes nothing.         *)
Remove(v) ==
  \E i \in 1..Len(items) :
    /\ items[i] = v
    /\ \A j \in 1..(i - 1) : items[j] # v
    /\ items' = SubSeq(items, 1, i - 1) \o SubSeq(items, i + 1, Len(items))

Next == \E v \in Vals : Add(v) \/ Remove(v)

Spec == Init /\ [][Next]_items
===============================================================================
