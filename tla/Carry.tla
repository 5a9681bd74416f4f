------------------------------- MODULE Carry --------------------------------
(***************************************************************************)
(* The store of packets for peers out of reach (internal/dtn/store.go), as *)
(* operators on its queue of items: a packet, its expiry and its target.   *)
(***************************************************************************)
EXTENDS Integers, Sequences, SequencesExt

CONSTANT StoreMax   \* Store.max

ASSUME CarryAssumption == StoreMax \in Nat \ {0}

Torn == <<[id |-> "torn"]>>   \* dtn-queue.json cut short: it does not parse

\* pruneLocked.
Unexpired(q, wall) ==
  LET live[i \in 0..Len(q)] ==
        IF i = 0 THEN <<>>
        ELSE IF wall < q[i].exp THEN Append(live[i-1], q[i]) ELSE live[i-1]
  IN  live[Len(q)]

\* Mutant: a full store drops what it is given.
PushIfRoom(q, it, wall) ==
  LET live == Unexpired(q, wall)
  IN  IF Len(live) >= StoreMax - 1 THEN live ELSE Append(live, it)

Push(q, it, wall) ==
  LET live == Unexpired(q, wall)
  IN  Append(IF Len(live) >= StoreMax THEN Tail(live) ELSE live, it)

\* Open: a file that does not parse is an error, and the node goes on with an
\* empty store that it keeps in memory only.
Opened(file, wall) == IF file = Torn THEN <<>> ELSE Unexpired(file, wall)

Ids(q) == {q[i].id : i \in 1..Len(q)}
=============================================================================
