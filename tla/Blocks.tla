------------------------------- MODULE Blocks -------------------------------
(***************************************************************************)
(* Blocks and the rules a node checks them by: State.ApplyBlock            *)
(* (state.go), ValidateBlock (consensus.go) and the part of ProposeOnce    *)
(* (engine.go) that builds a block.                                        *)
(*                                                                         *)
(* A chain is the sequence of its blocks above genesis.  Hashes are taken  *)
(* as collision free, so a block's hash is the chain that ends in it, and  *)
(* a block on the wire is that chain: its last element is the block, its   *)
(* front is PrevBlock.  The Merkle root, the size limit, the timestamp and *)
(* the seal are left out: a block that a node of this program builds       *)
(* satisfies their checks.                                                 *)
(***************************************************************************)
EXTENDS ChainState, SequencesExt

Genesis == <<>>
HeightOf(c) == Len(c)

\* Slot of the tip; genesis is slot 0.
SlotOf(c) == IF c = Genesis THEN 0 ELSE Last(c).slot

\* What State.Root hashes: the accounts, the pool and the height.
Root(s) == <<s.balance, s.stake, s.nonce, s.burned, s.regHeight, s.active, s.pool, s.height>>

\* States(s, txs, h)[i] is s after the first i transactions.
States(s, txs, h) ==
  LET after[i \in 0..Len(txs)] == IF i = 0 THEN s ELSE ApplyTx(after[i-1], txs[i], h)
  IN  after

AllApply(s, txs, h) ==
  LET after == States(s, txs, h)
  IN  \A i \in 1..Len(txs) : CanApply(after[i-1], txs[i], h)

BlockApplies(s, b, h) == AllApply(OpenBlock(s), b.txs, h)

ApplyBlock(s, b, h) ==
  CloseBlock(States(OpenBlock(s), b.txs, h)[Len(b.txs)], b.proposer, h)

\* OpenEngine: the state after genesis, and then each stored block in turn.
Replay(c) ==
  LET after[h \in 0..Len(c)] == IF h = 0 THEN NewState ELSE ApplyBlock(after[h-1], c[h], h)
  IN  after[Len(c)]

Replays(c) == \A h \in 1..Len(c) : BlockApplies(Replay(SubSeq(c, 1, h-1)), c[h], h)
-----------------------------------------------------------------------------
(* Validation *)

\* consensus.go:28-33.
SlotAccepted(slot, prevSlot) == slot >= prevSlot

\* Mutant: a coinbase anywhere in the block.
CoinbaseAcceptedTwice(b, h) ==
  /\ \A i \in 1..Len(b.txs) : b.txs[i].type = "coinbase" =>
        /\ b.txs[i].amount <= BlockReward(h)
        /\ b.txs[i].sender = b.proposer
  /\ BlockReward(h) > 0 => \E i \in 1..Len(b.txs) : b.txs[i].type = "coinbase"

\* validateCoinbaseInBlock.
CoinbaseAccepted(b, h) ==
  /\ \A i \in 1..Len(b.txs) : b.txs[i].type = "coinbase" =>
        /\ i = 1
        /\ b.txs[i].amount <= BlockReward(h)
        /\ b.txs[i].sender = b.proposer
  /\ BlockReward(h) > 0 => \E i \in 1..Len(b.txs) : b.txs[i].type = "coinbase"

\* ValidateBlock for block c on the chain `tip` whose state is s; `draw` is the
\* election hash of (tip, slot of c).
ValidBlock(c, tip, s, draw) ==
  LET b == Last(c)
  IN  /\ Front(c) = tip
      /\ SlotAccepted(b.slot, SlotOf(tip))
      /\ MayPropose(s, draw, b.proposer)
      /\ CoinbaseAccepted(b, HeightOf(c))
-----------------------------------------------------------------------------
(* Building *)

\* Mutant: a block in its parent's slot.
NextSlotInPlace(clock, tip) == IF clock > SlotOf(tip) THEN clock ELSE SlotOf(tip)

\* The slot of the next block: the wall clock's, or the one after the tip's
\* when the clock has not passed it.
NextSlot(clock, tip) == IF clock > SlotOf(tip) THEN clock ELSE SlotOf(tip) + 1

CoinbaseTxs(s, node, h) ==
  IF BlockReward(h) = 0 THEN <<>>
  ELSE <<[type |-> "coinbase", sender |-> node, amount |-> CoinbaseAmount(s, h)]>>

\* A proposer outside the validator set adds its own activation, if that applies.
ActivationTxs(s, node, h) ==
  LET act == [type |-> "activate", sender |-> node, nonce |-> s.nonce[node], fee |-> 0]
      cb  == CoinbaseTxs(s, node, h)
  IN  IF ~s.active[node] /\ CanActivate(States(s, cb, h)[Len(cb)], act, h)
      THEN <<act>> ELSE <<>>

\* The pending transactions that apply, each after those taken before it.
Pick(s, pending, h) ==
  LET after[i \in 0..Len(pending)] ==
        IF i = 0 THEN [state |-> s, txs |-> <<>>]
        ELSE LET acc == after[i-1]
                 t   == pending[i]
             IN  IF CanApply(acc.state, t, h)
                 THEN [state |-> ApplyTx(acc.state, t, h), txs |-> Append(acc.txs, t)]
                 ELSE acc
  IN  after[Len(pending)].txs

Body(s, node, pending, h) ==
  LET own == CoinbaseTxs(s, node, h) \o ActivationTxs(s, node, h)
  IN  own \o Pick(States(s, own, h)[Len(own)], pending, h)

\* The block ProposeOnce builds, as the chain that ends in it.
NewBlock(tip, s, node, pending, slot) ==
  LET h   == HeightOf(tip) + 1
      txs == Body(s, node, pending, h)
      b   == [proposer |-> node, slot |-> slot, txs |-> txs]
  IN  Append(tip, [proposer |-> node, slot |-> slot, txs |-> txs,
                   root |-> Root(ApplyBlock(s, b, h))])
=============================================================================
