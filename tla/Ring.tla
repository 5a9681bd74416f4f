-------------------------------- MODULE Ring --------------------------------
(***************************************************************************)
(* The duplicate filter of a node (internal/dedup/ring.go): the keys of    *)
(* the last Capacity packets, oldest first, and the set Seen looks up.     *)
(* Ring.Add looks before it inserts; nothing locks the ring, so Add here   *)
(* is the insertion alone and a key may come to be inserted twice.         *)
(***************************************************************************)
EXTENDS Naturals, Sequences

CONSTANT Capacity

ASSUME RingAssumption == Capacity \in Nat \ {0}

EmptyRing == [order |-> <<>>, set |-> {}]

Seen(r, k) == k \in r.set

IsFull(r) == Len(r.order) >= Capacity

\* Mutant: the evicted key stays in the set.
AddKeepingEvicted(r, k) ==
  [order |-> Append(IF IsFull(r) THEN Tail(r.order) ELSE r.order, k),
   set   |-> r.set \cup {k}]

\* The oldest key makes room, and leaves the set even when the order holds it
\* a second time.
Add(r, k) ==
  [order |-> Append(IF IsFull(r) THEN Tail(r.order) ELSE r.order, k),
   set   |-> (IF IsFull(r) THEN r.set \ {Head(r.order)} ELSE r.set) \cup {k}]
=============================================================================
