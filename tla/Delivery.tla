------------------------------ MODULE Delivery ------------------------------
(***************************************************************************)
(* What a node promises of messages: only what was sent arrives, only at   *)
(* whom it is for, and not again and again.  There may be a copy for each  *)
(* read loop, since the duplicate filter is shared without a lock.         *)
(***************************************************************************)
EXTENDS Naturals, Sequences, SequencesExt, FiniteSetsExt

CONSTANTS Nodes, Everyone, Chats, Readers   \* how many read loops each node has

VARIABLES sent, inbox

Copies(n, c) == Cardinality({i \in 1..Len(inbox[n]) : inbox[n][i] = c})

Init == sent = {} /\ inbox = [n \in Nodes |-> <<>>]

Send(c) == sent' = sent \cup {c} /\ UNCHANGED inbox

Deliver(n, c) ==
  /\ c \in sent
  /\ Chats[c].to \in {n, Everyone}
  /\ Copies(n, c) < Readers[n]
  /\ inbox' = [inbox EXCEPT ![n] = Append(@, c)]
  /\ UNCHANGED sent

\* The inbox is in memory only.
Forget(n) == inbox' = [inbox EXCEPT ![n] = <<>>] /\ UNCHANGED sent

Next ==
  \/ \E c \in DOMAIN Chats : Send(c) \/ \E n \in Nodes : Deliver(n, c)
  \/ \E n \in Nodes : Forget(n)

Spec == Init /\ [][Next]_<<sent, inbox>>
=============================================================================
