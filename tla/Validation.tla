----------------------------- MODULE Validation -----------------------------
(***************************************************************************)
(* A node that is offered any block at all: acceptLocked (engine.go) with  *)
(* ValidateBlock (consensus.go).  Engine has only the blocks ProposeOnce   *)
(* builds; here proposer, slot and transactions are arbitrary, the block   *)
(* names the node's tip as its parent and its seal and state root are      *)
(* right.                                                                  *)
(***************************************************************************)
EXTENDS Blocks

CONSTANTS
  MaxHeight,   \* bound: blocks of the chain
  MaxSlot,     \* bound: slots a block may name
  MaxTxs,      \* bound: transactions of a block
  Offered,     \* transactions a block may hold
  Draws        \* values of the election hash

ASSUME ValidationAssumption ==
  /\ {MaxHeight, MaxSlot, MaxTxs} \subseteq Nat
  /\ Offered \subseteq Txs \cup Coinbase
  /\ Draws \subseteq Nat

VARIABLES chain, state

Init == chain = Genesis /\ state = NewState

\* Every check of acceptLocked passes.
Accepted(b, draw) ==
  LET h == HeightOf(chain) + 1
  IN  /\ ValidBlock(Append(chain, b), chain, state, draw)
      /\ BlockApplies(state, b, h)

AcceptBlock(b, draw) ==
  /\ HeightOf(chain) < MaxHeight
  /\ Accepted(b, draw)
  /\ state' = ApplyBlock(state, b, HeightOf(chain) + 1)
  /\ chain' = Append(chain, b)

Next ==
  \E p \in Accounts, slot \in 0..MaxSlot, n \in 0..MaxTxs :
    \E txs \in [1..n -> Offered], draw \in Draws :
      AcceptBlock([proposer |-> p, slot |-> slot, txs |-> txs], draw)

Spec == Init /\ [][Next]_<<chain, state>>
-----------------------------------------------------------------------------
Coinbases(b) == {i \in 1..Len(b.txs) : b.txs[i].type = "coinbase"}

\* No accepted block pays its proposer more or less than the schedule and the
\* pool give, or pays anybody else a coinbase: the checks of ValidateBlock
\* (amount at most the reward) and of applyCoinbase (amount as scheduled) leave
\* no gap between them.
PaidAsScheduled ==
  \A h \in 1..Len(chain) :
    LET b == chain[h]
        before == Replay(SubSeq(chain, 1, h - 1))
        due == CoinbaseAmount(before, h)
    IN  /\ due > 0 => Cardinality(Coinbases(b)) = 1
        /\ \A i \in Coinbases(b) : b.txs[i].sender = b.proposer /\ b.txs[i].amount = due

\* "slots must be non-decreasing; allow equal only if height 0"
\* (consensus.go:29): above the first block, every block has a later slot than
\* its parent.
EqualSlotOnlyAtGenesis == \A h \in 2..Len(chain) : chain[h-1].slot < chain[h].slot
=============================================================================
