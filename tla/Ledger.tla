------------------------------- MODULE Ledger -------------------------------
(***************************************************************************)
(* State.ApplyBlock as acceptLocked uses it: a block is applied to a clone *)
(* of the node's state, one transaction after another; the clone becomes   *)
(* the state when every transaction applied and the block closed, and is   *)
(* dropped when one of them failed.                                        *)
(*                                                                         *)
(* The block is any sequence of transactions, by any senders, proposed by  *)
(* any account: who may propose and where blocks come from is the module   *)
(* Engine.                                                                 *)
(***************************************************************************)
EXTENDS ChainState

CONSTANTS
  MaxHeight,   \* bound: blocks applied
  MaxTxs,      \* bound: transactions of a block after its coinbase
  Amounts,     \* amounts a transaction may name
  Fees         \* fees a transaction may name (0: the default)

ASSUME BoundsAssumption ==
  /\ MaxHeight \in Nat
  /\ MaxTxs \in Nat
  /\ Amounts \subseteq Nat
  /\ Fees \subseteq Nat

VARIABLES
  live,        \* e.State
  clone,       \* the clone a block is being applied to; = live between blocks
  block        \* the open block: proposer (Nobody: none), height and progress

vars == <<live, clone, block>>

NoBlock == [proposer |-> Nobody, height |-> 0, coinbase |-> FALSE, txs |-> 0]

Init ==
  /\ live = NewState
  /\ clone = NewState
  /\ block = NoBlock

IsOpen == block.proposer # Nobody

Begin(p) ==
  /\ ~IsOpen
  /\ live.height < MaxHeight
  /\ block' = [proposer |-> p, height |-> live.height + 1, coinbase |-> FALSE, txs |-> 0]
  /\ clone' = OpenBlock(live)
  /\ UNCHANGED live

\* validateCoinbaseInBlock: the coinbase comes first, is the proposer's and is
\* the only one; a height without a reward needs none.
ApplyBlockCoinbase ==
  LET t == [type |-> "coinbase", sender |-> block.proposer,
            amount |-> CoinbaseAmount(clone, block.height)]
  IN  /\ IsOpen
      /\ ~block.coinbase
      /\ block.txs = 0
      /\ CanCoinbase(clone, t, block.height)
      /\ clone' = ApplyCoinbase(clone, t)
      /\ block' = [block EXCEPT !.coinbase = TRUE]
      /\ UNCHANGED live

\* The next transaction of the block may follow the coinbase.
NextTx ==
  /\ IsOpen
  /\ block.coinbase \/ BlockReward(block.height) = 0
  /\ block.txs < MaxTxs
  /\ block' = [block EXCEPT !.txs = @ + 1]
  /\ UNCHANGED live

TransferTx(a) ==
  \E b \in Accounts, x \in Amounts, f \in Fees :
    LET t == [type |-> "transfer", sender |-> a, nonce |-> clone.nonce[a], fee |-> f,
              to |-> b, amount |-> x]
    IN  NextTx /\ CanTransfer(clone, t) /\ clone' = ApplyTransfer(clone, t)

BurnTx(a) ==
  \E k \in DOMAIN BurnPrice, x \in Amounts, f \in Fees :
    LET t == [type |-> "burn", sender |-> a, nonce |-> clone.nonce[a], fee |-> f,
              msg |-> k, amount |-> x, ref |-> 0]
    IN  NextTx /\ CanBurn(clone, t) /\ clone' = ApplyBurn(clone, t)

RegisterTx(a) ==
  \E f \in Fees :
    LET t == [type |-> "register", sender |-> a, nonce |-> clone.nonce[a], fee |-> f]
    IN  /\ NextTx /\ CanRegister(clone, t, block.height)
        /\ clone' = ApplyRegister(clone, t, block.height)

StakeTx(a) ==
  \E x \in Amounts, f \in Fees :
    LET t == [type |-> "stake", sender |-> a, nonce |-> clone.nonce[a], fee |-> f,
              amount |-> x]
    IN  NextTx /\ CanStake(clone, t) /\ clone' = ApplyStake(clone, t)

UnstakeTx(a) ==
  \E x \in Amounts, f \in Fees :
    LET t == [type |-> "unstake", sender |-> a, nonce |-> clone.nonce[a], fee |-> f,
              amount |-> x]
    IN  NextTx /\ CanUnstake(clone, t) /\ clone' = ApplyUnstake(clone, t)

ActivateTx(a) ==
  LET t == [type |-> "activate", sender |-> a, nonce |-> clone.nonce[a], fee |-> 0]
  IN  NextTx /\ CanActivate(clone, t, block.height) /\ clone' = ApplyActivate(clone, t)

\* The block applied to the end: e.State.ApplyBlock repeats it on the state.
End ==
  /\ IsOpen
  /\ block.coinbase \/ BlockReward(block.height) = 0
  /\ clone' = CloseBlock(clone, block.proposer, block.height)
  /\ live' = clone'
  /\ block' = NoBlock

\* A transaction of the block failed, and the clone is dropped.
Fail ==
  /\ IsOpen
  /\ clone' = live
  /\ block' = NoBlock
  /\ UNCHANGED live

ApplyOneTx ==
  \E a \in Accounts :
    \/ TransferTx(a)
    \/ BurnTx(a)
    \/ RegisterTx(a)
    \/ StakeTx(a)
    \/ UnstakeTx(a)
    \/ ActivateTx(a)

Next ==
  \/ \E p \in Accounts : Begin(p)
  \/ ApplyBlockCoinbase
  \/ ApplyOneTx
  \/ End
  \/ Fail

Spec == Init /\ [][Next]_vars
-----------------------------------------------------------------------------
Block == [proposer: Accounts \cup {Nobody}, height: Nat, coinbase: BOOLEAN, txs: Nat]

\* Types of the ledger's state (Account, State).
TypeOK ==
  /\ live \in State
  /\ clone \in State
  /\ block \in Block

\* Every unit of the supply is in the pool, in an account, burned or a fee
\* waiting for the proposer, in the state and in the clone, after every
\* transaction: no transaction type destroys MST, and what one creates is
\* exactly the fees unstakes did not pay (state.go:326-336).
SupplyAccounted ==
  \A s \in {live, clone} : Wealth(s) + s.pool + s.fees = GenesisSupply + s.minted

\* "no inflation beyond genesis allocation" (types.go:42): the total never
\* exceeds what genesis allocated.
NoInflation == Wealth(live) + live.pool <= GenesisSupply

\* Issued(h) is the sum of the rewards of the heights 1..h.
Issued(h) == PrefixSums([i \in 1..h |-> BlockReward(i)], h)[h]

\* The pool follows the emission schedule: after a block of height h it has
\* paid the rewards of all heights up to h, or everything it had. Failed
\* blocks and blocks with many transactions cost it nothing more.
IssuanceOnSchedule ==
  live.pool = IF Issued(live.height) >= GenesisSupply
              THEN 0 ELSE GenesisSupply - Issued(live.height)

\* Every burn the chain reports (burnTxSeen, what HasTxHash and a burn ticket
\* rely on) destroyed value of its own: the burns of an account are distinct
\* used nonces, and it has burned at least one unit for each of them.
BurnsDestroyValue ==
  \A a \in Accounts :
    LET burns == {b \in live.burnTxs : b[1] = a}
    IN  /\ \A b \in burns : b[2] < live.nonce[a]
        /\ live.burned[a] >= Cardinality(burns)

\* What an account holds (liquid and bonded) falls only in a block that
\* consumes one of its nonces, that is, one holding a transaction it signed.
OnlyOwnTxsCost ==
  [][\A a \in Accounts : Held(live)'[a] < Held(live)[a] => live'.nonce[a] > live.nonce[a]]_live

\* The weighted election is fair: over the draws 0..total-1 each validator is
\* picked as often as it has stake, so an idle or unbonded one never is.
ProportionalElection ==
  LET total == TotalActiveStake(live)
  IN  total > 0 =>
        \A a \in Accounts :
          Cardinality({d \in 0..total-1 : SelectProposer(live, d) = a}) = Weight(live)[a]
=============================================================================
