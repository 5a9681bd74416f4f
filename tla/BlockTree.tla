----------------------------- MODULE BlockTree ------------------------------
(***************************************************************************)
(* What the chain engines promise together: a tree of blocks that only     *)
(* grows, and a head for every node that climbs it one block at a time.    *)
(* A node falls back to an ancestor of its head when it restarts without   *)
(* its last blocks.  There is no fork choice: a head never moves from one  *)
(* branch of the tree to another.                                          *)
(*                                                                         *)
(* A block is the sequence of blocks from genesis to it.                   *)
(***************************************************************************)
EXTENDS Integers, Sequences, SequencesExt

CONSTANT Nodes

VARIABLES tree, head

Root == <<>>
Parent(c) == Front(c)
SlotIn(c) == IF c = Root THEN 0 ELSE Last(c).slot

Init == tree = {} /\ head = [n \in Nodes |-> Root]

\* Node n adds a block of its own under its head, in a later slot.
Produce(n) ==
  /\ head'[n] # Root /\ Parent(head'[n]) = head[n]
  /\ Last(head'[n]).proposer = n
  /\ SlotIn(head'[n]) > SlotIn(head[n])
  /\ head' = [head EXCEPT ![n] = head'[n]]
  /\ tree' = tree \cup {head'[n]}

\* Node n accepts a block of the tree that extends its head.
Follow(n) ==
  /\ \E c \in tree : Parent(c) = head[n] /\ head' = [head EXCEPT ![n] = c]
  /\ UNCHANGED tree

\* Node n restarts on an ancestor of its head.
FallBack(n) ==
  /\ \E k \in 0..Len(head[n]) : head' = [head EXCEPT ![n] = SubSeq(head[n], 1, k)]
  /\ UNCHANGED tree

Next == \E n \in Nodes : Produce(n) \/ Follow(n) \/ FallBack(n)

Spec == Init /\ [][Next]_<<tree, head>>
=============================================================================
