-------------------------- MODULE ValidationProofs --------------------------
(***************************************************************************)
(* The theorem of Validation: whatever blocks a node is offered, the       *)
(* coinbases of its chain are as scheduled.                                *)
(***************************************************************************)
EXTENDS Validation, BlocksProofs

\* The chain is lawful, and each of its blocks passed validateCoinbaseInBlock.
Inv ==
  /\ Lawful(chain)
  /\ state = Replay(chain)
  /\ \A h \in 1..Len(chain) : CoinbaseAccepted(chain[h], h)

LEMMA InitInv == Init => Inv
BY LawfulGenesis, ReplayGenesis, EmptyIs DEF Init, Inv, Genesis

LEMMA NextInv == Inv /\ [Next]_<<chain, state>> => Inv'
<1> SUFFICES ASSUME Inv, Next PROVE Inv'
  BY DEF Inv
<1>1. PICK p \in Accounts, slot \in 0..MaxSlot, n \in 0..MaxTxs :
        \E txs \in [1..n -> Offered], draw \in Draws :
          AcceptBlock([proposer |-> p, slot |-> slot, txs |-> txs], draw)
  BY DEF Next
<1>2. PICK txs \in [1..n -> Offered], draw \in Draws :
        AcceptBlock([proposer |-> p, slot |-> slot, txs |-> txs], draw)
  BY <1>1
<1> DEFINE b == [proposer |-> p, slot |-> slot, txs |-> txs]
           h == Len(chain) + 1
<1>3. IsSeq(chain) /\ Lawful(chain) /\ state = Replay(chain) BY DEF Inv, Lawful
<1>4. TypedBlock(b)
  <2>1. slot \in Nat /\ n \in Nat BY ValidationAssumption
  <2>2. txs \in Seq(Offered) BY <2>1
  <2>3. Len(txs) = n BY <2>1, <2>2
  <2>4. \A i \in 1..Len(txs) : txs[i] \in Txs \cup Coinbase BY <2>3, ValidationAssumption
  <2>5. TypedTxs(txs) BY <2>2, <2>4 DEF TypedTxs, IsSeq
  <2> QED BY <2>1, <2>5 DEF TypedBlock
<1> HIDE DEF b
<1>5. /\ Accepted(b, draw)
      /\ state' = ApplyBlock(state, b, h) /\ chain' = Append(chain, b)
  BY <1>2 DEF AcceptBlock, HeightOf, b
<1>6. /\ Len(chain) \in Nat /\ Len(chain') = h
      /\ \A i \in 1..Len(chain) : chain'[i] = chain[i]
      /\ chain'[h] = b
      /\ Last(chain') = b
  BY <1>3, <1>5, Appended, LastAppended
<1>7. BlockApplies(state, b, h) /\ CoinbaseAccepted(b, h)
  BY <1>5, <1>6 DEF Accepted, ValidBlock, HeightOf
<1>8. Lawful(chain') /\ state' = Replay(chain')
  BY <1>3, <1>4, <1>5, <1>7, LawfulAppended, ReplayAppended
<1>9. \A i \in 1..Len(chain') : CoinbaseAccepted(chain'[i], i)
  <2>1. \A i \in 1..Len(chain') : i \in 1..Len(chain) \/ i = h BY <1>6
  <2> QED BY <1>6, <1>7, <2>1 DEF Inv
<1> QED BY <1>8, <1>9 DEF Inv

\* Every block of the chain has the coinbase that is due, and no other: the check
\* of ValidateBlock on its place, its receiver and the reward as an upper bound,
\* and the one of applyCoinbase on its exact amount, together leave no gap.
THEOREM CoinbasesAsScheduled == Spec => []PaidAsScheduled
<1>1. ASSUME Inv PROVE PaidAsScheduled
  <2> SUFFICES ASSUME NEW h \in 1..Len(chain)
               PROVE  LET b == chain[h]
                          before == Replay(SubSeq(chain, 1, h - 1))
                          due == CoinbaseAmount(before, h)
                      IN  /\ due > 0 => Cardinality(Coinbases(b)) = 1
                          /\ \A i \in Coinbases(b) :
                               b.txs[i].sender = b.proposer /\ b.txs[i].amount = due
    BY DEF PaidAsScheduled
  <2> DEFINE b == chain[h]
             before == Replay(SubSeq(chain, 1, h - 1))
             due == CoinbaseAmount(before, h)
             o == OpenBlock(before)
  <2>1. Lawful(chain) /\ IsSeq(chain) /\ Len(chain) \in Nat
    BY <1>1 DEF Inv, Lawful, IsSeq
  <2>2. h \in Nat /\ h - 1 \in 0..Len(chain) BY <2>1
  <2>3. before \in State BY <2>1, <2>2, LawfulBeginning, LawfulState
  <2>4. /\ TypedBlock(b) /\ BlockApplies(before, b, h)
        /\ CoinbaseAccepted(b, h)
    BY <1>1, <2>1 DEF Inv, Lawful, Replays
  <2>5. o.pool = before.pool BY <2>3 DEF OpenBlock, State
  <2>6. Len(b.txs) \in Nat BY <2>4 DEF TypedBlock, TypedTxs, IsSeq
  <2>7. BlockReward(h) \in Nat /\ before.pool \in Nat BY <2>2, <2>3, RewardType, StateFields
  <2> HIDE DEF b, before, o
  <2>8. ASSUME NEW i \in Coinbases(b)
        PROVE  i = 1 /\ b.txs[i].sender = b.proposer /\ b.txs[i].amount = due
    <3>1. i \in 1..Len(b.txs) /\ b.txs[i].type = "coinbase" BY DEF Coinbases
    <3>2. i = 1 /\ b.txs[i].sender = b.proposer BY <2>4, <3>1 DEF CoinbaseAccepted
    <3>3. CanApply(States(o, b.txs, h)[i-1], b.txs[i], h)
      BY <2>4, <3>1 DEF BlockApplies, AllApply, o
    <3>4. States(o, b.txs, h)[i-1] = o BY <2>6, <3>2, StatesUnfold
    <3>5. CanCoinbase(o, b.txs[i], h) BY <3>1, <3>3, <3>4 DEF CanApply
    <3> QED BY <2>5, <3>2, <3>5 DEF CanCoinbase, CoinbaseAmount
  <2>9. ASSUME due > 0 PROVE Cardinality(Coinbases(b)) = 1
    <3>1. BlockReward(h) > 0 BY <2>7, <2>9 DEF CoinbaseAmount, Smaller
    <3>2. Coinbases(b) # {} BY <2>4, <3>1 DEF CoinbaseAccepted, Coinbases
    <3>3. Coinbases(b) = {1} BY <2>8, <3>2
    <3> QED BY <3>3, FS_Singleton
  <2> QED BY <2>8, <2>9 DEF b, before
<1>2. Init => Inv BY InitInv
<1>3. Inv /\ [Next]_<<chain, state>> => Inv' BY NextInv
<1>4. Inv => PaidAsScheduled BY <1>1
<1> QED BY <1>2, <1>3, <1>4, PTL DEF Spec
=============================================================================
