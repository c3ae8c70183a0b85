---------------------------- MODULE BoundedStack ----------------------------
(* What producer.c promises: a stack of at most Size items, to which one    *)
(* thread at a time adds or from which it takes.                            *)
EXTENDS Integers, Sequences, SequencesExt

CONSTANTS Item, Size

VARIABLE items

Init == items = <<>>

Push(x) == Len(items) < Size /\ items' = Append(items, x)

Pop == items # <<>> /\ items' = Front(items)

Next == (\E x \in Item : Push(x)) \/ Pop

Spec == Init /\ [][Next]_items
=============================================================================
