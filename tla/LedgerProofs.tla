---------------------------- MODULE LedgerProofs ----------------------------
(***************************************************************************)
(* Theorems of Ledger, for any number of accounts, any amounts and fees,   *)
(* any reward schedule and blocks of any length.                           *)
(***************************************************************************)
EXTENDS Ledger, BlocksProofs

-----------------------------------------------------------------------------
(* The invariant                                                           *)

\* Between blocks no fee waits; the clone has the supply of genesis and, while
\* a block is open, follows from the state by transactions of its signers.
Inv ==
  /\ TypeOK
  /\ IsOpen => block.height = live.height + 1
  /\ live.fees = 0
  /\ Supply(live) = GenesisSupply
  /\ Supply(clone) = GenesisSupply
  /\ CostsItsSigner(live, clone)

LEMMA InitInv == Init => Inv
<1> SUFFICES ASSUME Init PROVE Inv
  OBVIOUS
<1>1. TypeOK
  BY NewStateSound DEF Init, TypeOK, NoBlock, Block
<1>2. NewState.fees = 0
  BY DEF NewState
<1>3. CostsItsSigner(NewState, NewState)
  BY NewStateSound, StateFields DEF CostsItsSigner
<1> QED
  BY <1>1, <1>2, <1>3, NewStateSound DEF Init, Inv, IsOpen, NoBlock

\* A step that only takes the clone one sound step further keeps the invariant.
LEMMA CloneStepInv ==
  ASSUME Inv, Sound(clone, clone'), live' = live, block' \in Block,
         block'.height = block.height, IsOpen
  PROVE  Inv'
<1>1. live \in State /\ clone \in State /\ clone' \in State
  BY DEF Inv, TypeOK, Sound
<1>2. CostsItsSigner(live, clone')
  BY <1>1, SoundTransitive DEF Inv, Sound
<1>3. TypeOK'
  BY <1>1 DEF TypeOK
<1> QED
  BY <1>2, <1>3 DEF Inv, Sound, IsOpen

\* NextTx is the part of every transaction's action that moves the block on.
LEMMA NextTxBlock ==
  ASSUME TypeOK, NextTx
  PROVE  live' = live /\ IsOpen /\ block' \in Block /\ block'.height = block.height
BY DEF TypeOK, NextTx, Block

\* Each of the six actions applies one signed transaction to the clone.
LEMMA OneTx ==
  ASSUME TypeOK, ApplyOneTx
  PROVE  \E t \in Txs : /\ CanApply(clone, t, block.height)
                        /\ clone' = ApplyTx(clone, t, block.height)
<1>1. PICK a \in Accounts : \/ TransferTx(a) \/ BurnTx(a) \/ RegisterTx(a)
                            \/ StakeTx(a) \/ UnstakeTx(a) \/ ActivateTx(a)
  BY DEF ApplyOneTx
<1> DEFINE h == block.height
           n == clone.nonce[a]
<1>2. n \in Nat /\ Amounts \subseteq Nat /\ Fees \subseteq Nat /\ 0 \in Nat
  BY StateFields, BoundsAssumption DEF TypeOK
<1>3. CASE TransferTx(a)
  <2>1. PICK b \in Accounts, x \in Amounts, f \in Fees :
          LET t == [type |-> "transfer", sender |-> a, nonce |-> n, fee |-> f,
                    to |-> b, amount |-> x]
          IN  NextTx /\ CanTransfer(clone, t) /\ clone' = ApplyTransfer(clone, t)
    BY <1>3 DEF TransferTx
  <2> DEFINE t == [type |-> "transfer", sender |-> a, nonce |-> n, fee |-> f,
                   to |-> b, amount |-> x]
  <2>2. t \in Transfer BY <1>2 DEF Transfer
  <2> HIDE DEF h, n
  <2> QED BY <2>1, <2>2, TxKinds DEF Txs, CanApply, ApplyTx
<1>4. CASE BurnTx(a)
  <2>1. PICK k \in DOMAIN BurnPrice, x \in Amounts, f \in Fees :
          LET t == [type |-> "burn", sender |-> a, nonce |-> n, fee |-> f,
                    msg |-> k, amount |-> x, ref |-> 0]
          IN  NextTx /\ CanBurn(clone, t) /\ clone' = ApplyBurn(clone, t)
    BY <1>4 DEF BurnTx
  <2> DEFINE t == [type |-> "burn", sender |-> a, nonce |-> n, fee |-> f,
                   msg |-> k, amount |-> x, ref |-> 0]
  <2>2. t \in Burn BY <1>2 DEF Burn
  <2> HIDE DEF h, n
  <2> QED BY <2>1, <2>2, TxKinds DEF Txs, CanApply, ApplyTx
<1>5. CASE RegisterTx(a)
  <2>1. PICK f \in Fees :
          LET t == [type |-> "register", sender |-> a, nonce |-> n, fee |-> f]
          IN  NextTx /\ CanRegister(clone, t, h) /\ clone' = ApplyRegister(clone, t, h)
    BY <1>5 DEF RegisterTx
  <2> DEFINE t == [type |-> "register", sender |-> a, nonce |-> n, fee |-> f]
  <2>2. t \in Register BY <1>2 DEF Register
  <2> HIDE DEF h, n
  <2> QED BY <2>1, <2>2, TxKinds DEF Txs, CanApply, ApplyTx, h
<1>6. CASE StakeTx(a)
  <2>1. PICK x \in Amounts, f \in Fees :
          LET t == [type |-> "stake", sender |-> a, nonce |-> n, fee |-> f, amount |-> x]
          IN  NextTx /\ CanStake(clone, t) /\ clone' = ApplyStake(clone, t)
    BY <1>6 DEF StakeTx
  <2> DEFINE t == [type |-> "stake", sender |-> a, nonce |-> n, fee |-> f, amount |-> x]
  <2>2. t \in Stake BY <1>2 DEF Stake
  <2> HIDE DEF h, n
  <2> QED BY <2>1, <2>2, TxKinds DEF Txs, CanApply, ApplyTx
<1>7. CASE UnstakeTx(a)
  <2>1. PICK x \in Amounts, f \in Fees :
          LET t == [type |-> "unstake", sender |-> a, nonce |-> n, fee |-> f, amount |-> x]
          IN  NextTx /\ CanUnstake(clone, t) /\ clone' = ApplyUnstake(clone, t)
    BY <1>7 DEF UnstakeTx
  <2> DEFINE t == [type |-> "unstake", sender |-> a, nonce |-> n, fee |-> f, amount |-> x]
  <2>2. t \in Unstake BY <1>2 DEF Unstake
  <2> HIDE DEF h, n
  <2> QED BY <2>1, <2>2, TxKinds DEF Txs, CanApply, ApplyTx
<1>8. CASE ActivateTx(a)
  <2> DEFINE t == [type |-> "activate", sender |-> a, nonce |-> n, fee |-> 0]
  <2>1. CanActivate(clone, t, h) /\ clone' = ApplyActivate(clone, t)
    BY <1>8 DEF ActivateTx
  <2>2. t \in Activate BY <1>2 DEF Activate
  <2> HIDE DEF h, n
  <2> QED BY <2>1, <2>2, TxKinds DEF Txs, CanApply, ApplyTx, h
<1> QED BY <1>1, <1>3, <1>4, <1>5, <1>6, <1>7, <1>8

LEMMA NextInv == Inv /\ [Next]_vars => Inv'
<1> SUFFICES ASSUME Inv, [Next]_vars PROVE Inv'
  OBVIOUS
<1> USE DEF Inv
<1>0. /\ live \in State /\ clone \in State /\ block \in Block
      /\ Amounts \subseteq Nat /\ Fees \subseteq Nat /\ 0 \in Nat
  BY BoundsAssumption DEF TypeOK
<1>1. ASSUME NEW p \in Accounts, Begin(p) PROVE Inv'
  <2>1. Sound(live, clone')
    BY <1>0, <1>1, OpenSound DEF Begin
  <2>2. block' \in Block /\ block'.height = live.height + 1
    BY <1>0, <1>1, StateFields DEF Begin, Block
  <2> QED
    BY <1>0, <1>1, <2>1, <2>2 DEF Begin, Sound, TypeOK
<1>2. CASE ApplyBlockCoinbase
  <2> DEFINE t == [type |-> "coinbase", sender |-> block.proposer,
                   amount |-> CoinbaseAmount(clone, block.height)]
  <2>1. block.proposer \in Accounts
    BY <1>0, <1>2 DEF ApplyBlockCoinbase, IsOpen, Block
  <2>2. t.amount \in Nat /\ t.amount <= clone.pool
    <3>1. BlockReward(block.height) \in Nat
      BY <1>0, RewardType DEF Block
    <3> QED
      BY <1>0, <3>1, StateFields DEF CoinbaseAmount, Smaller
  <2>3. t \in Coinbase
    BY <2>1, <2>2 DEF Coinbase
  <2>4. clone' = ApplyCoinbase(clone, t)
    BY <1>2 DEF ApplyBlockCoinbase
  <2>5. Sound(clone, clone')
    BY <1>0, <2>2, <2>3, <2>4, CoinbaseSound
  <2>6. block' \in Block /\ block'.height = block.height
    BY <1>0, <1>2 DEF ApplyBlockCoinbase, Block
  <2> QED
    BY <1>2, <2>5, <2>6, CloneStepInv DEF ApplyBlockCoinbase
<1>3. CASE ApplyOneTx
  <2>1. PICK t \in Txs : CanApply(clone, t, block.height) /\ clone' = ApplyTx(clone, t, block.height)
    BY <1>3, OneTx
  <2>2. NextTx
    BY <1>3 DEF ApplyOneTx, TransferTx, BurnTx, RegisterTx, StakeTx, UnstakeTx, ActivateTx
  <2>3. Sound(clone, clone')
    BY <1>0, <2>1, TxSound DEF Block
  <2> QED
    BY <2>2, <2>3, NextTxBlock, CloneStepInv
<1>4. CASE End
  <2>1. block.proposer \in Accounts /\ block.height \in Nat
    BY <1>0, <1>4 DEF End, IsOpen, Block
  <2>2. Sound(clone, clone') /\ clone'.fees = 0 /\ live' = clone' /\ block' = NoBlock
    BY <1>0, <1>4, <2>1, CloseSound DEF End
  <2>3. CostsItsSigner(clone', clone')
    BY <2>2, StateFields DEF CostsItsSigner, Sound
  <2>4. block' \in Block /\ ~IsOpen'
    BY <2>2 DEF NoBlock, Block, IsOpen
  <2> QED
    BY <2>2, <2>3, <2>4 DEF Sound, TypeOK
<1>5. CASE Fail
  <2>1. CostsItsSigner(live, live)
    BY <1>0, StateFields DEF CostsItsSigner
  <2>2. block' \in Block /\ ~IsOpen'
    BY <1>5 DEF Fail, NoBlock, Block, IsOpen
  <2> QED
    BY <1>5, <2>1, <2>2 DEF Fail, TypeOK
<1>6. CASE UNCHANGED vars
  BY <1>6 DEF vars, TypeOK, IsOpen
<1> QED
  BY <1>1, <1>2, <1>3, <1>4, <1>5, <1>6 DEF Next

LEMMA SpecInv == Spec => []Inv
BY InitInv, NextInv, PTL DEF Spec

-----------------------------------------------------------------------------
(* The theorems                                                            *)

\* The ledger's state and the clone keep their types: no balance, stake or
\* pool ever goes below zero, as a uint64 in the code would wrap.
THEOREM TypeCorrect == Spec => []TypeOK
<1>1. Inv => TypeOK
  BY DEF Inv
<1> QED
  BY <1>1, SpecInv, PTL

\* Every unit of the supply is accounted for, whatever the transactions; the
\* fees unstakes did not pay are all that is ever created.
THEOREM SupplyIsAccounted == Spec => []SupplyAccounted
<1>1. Inv => SupplyAccounted
  <2> SUFFICES ASSUME Inv, NEW s \in {live, clone}
               PROVE  Wealth(s) + s.pool + s.fees = GenesisSupply + s.minted
    BY DEF SupplyAccounted
  <2>1. s \in State /\ Supply(s) = GenesisSupply
    BY DEF Inv, TypeOK
  <2> QED
    BY <2>1, StateFields, WealthType, ConstantsAssumption DEF Supply
<1> QED
  BY <1>1, SpecInv, PTL

\* No block makes an account poorer that did not sign one of its transactions.
THEOREM OthersTxsCostNothing == Spec => OnlyOwnTxsCost
<1>1. Inv /\ [Next]_vars =>
        [\A a \in Accounts : Held(live)'[a] < Held(live)[a]
                               => live'.nonce[a] > live.nonce[a]]_live
  <2> SUFFICES ASSUME Inv, [Next]_vars, live' # live, NEW a \in Accounts,
                      Held(live)'[a] < Held(live)[a]
               PROVE  live'.nonce[a] > live.nonce[a]
    OBVIOUS
  <2>1. End
    BY DEF Next, vars, Begin, ApplyBlockCoinbase, ApplyOneTx, Fail, NextTx, TransferTx,
           BurnTx, RegisterTx, StakeTx, UnstakeTx, ActivateTx
  <2>2. live \in State /\ clone \in State /\ block.proposer \in Accounts /\ block.height \in Nat
    BY <2>1 DEF Inv, TypeOK, End, IsOpen, Block
  <2>3. Sound(clone, live')
    BY <2>1, <2>2, CloseSound DEF End
  <2>4. CostsItsSigner(live, live') /\ live' \in State
    BY <2>2, <2>3, SoundTransitive DEF Inv, Sound
  <2>5. live'.balance[a] + live'.stake[a] < live.balance[a] + live.stake[a]
    BY DEF Held
  <2> QED
    BY <2>4, <2>5 DEF CostsItsSigner
<1> QED
  BY <1>1, SpecInv, PTL DEF Spec, OnlyOwnTxsCost

\* The weighted election is fair in every state the ledger reaches: over the
\* draws below the total stake each account is picked as often as it has stake.
THEOREM ElectionIsProportional == Spec => []ProportionalElection
<1>1. Inv => ProportionalElection
  BY DrawsOf DEF Inv, TypeOK, ProportionalElection
<1> QED
  BY <1>1, SpecInv, PTL

\* Every burn the chain reports has a nonce of its own that its account used,
\* and the account burned at least one unit for it: in the state and in the clone.
THEOREM BurnsCost == Spec => []BurnsDestroyValue
<1> DEFINE P == BurnsPaid(live) /\ BurnsPaid(clone)
<1>1. Init => P
  <2>1. ASSUME NEW a \in Accounts
        PROVE  /\ \A b \in BurnsOf(NewState, a) : b[2] < NewState.nonce[a]
               /\ NewState.burned[a] >= Cardinality(BurnsOf(NewState, a))
    <3>1. BurnsOf(NewState, a) = {} /\ NewState.burned[a] = 0 BY DEF BurnsOf, NewState
    <3> QED BY <3>1, FS_EmptySet
  <2>2. IsFiniteSet(NewState.burnTxs) BY FS_EmptySet DEF NewState
  <2> QED BY <2>1, <2>2 DEF Init, BurnsPaid
<1>2. ASSUME Inv, P, [Next]_vars PROVE P'
  <2>1. live \in State /\ clone \in State /\ block \in Block BY <1>2 DEF Inv, TypeOK
  <2>2. ASSUME NEW s \in State, BurnsPaid(s), s.fees = 0 PROVE BurnsPaid(OpenBlock(s))
    BY <2>2 DEF OpenBlock, State, BurnsPaid, BurnsOf
  <2>3. ASSUME NEW p \in Accounts, Begin(p) PROVE P'
    BY <1>2, <2>1, <2>2, <2>3 DEF Begin, Inv
  <2>4. CASE ApplyBlockCoinbase
    <3> DEFINE t == [type |-> "coinbase", sender |-> block.proposer,
                     amount |-> CoinbaseAmount(clone, block.height)]
    <3>1. clone' = ApplyCoinbase(clone, t) /\ live' = live BY <2>4 DEF ApplyBlockCoinbase
    <3> HIDE DEF t
    <3>2. /\ clone'.burnTxs = clone.burnTxs /\ clone'.burned = clone.burned
          /\ clone'.nonce = clone.nonce
      BY <2>1, <3>1 DEF ApplyCoinbase, State
    <3> QED BY <1>2, <3>1, <3>2 DEF BurnsPaid, BurnsOf
  <2>5. CASE ApplyOneTx
    <3>1. PICK t \in Txs :
            CanApply(clone, t, block.height) /\ clone' = ApplyTx(clone, t, block.height)
      BY <1>2, <2>5, OneTx DEF Inv
    <3>2. live' = live
      BY <2>5 DEF ApplyOneTx, NextTx, TransferTx, BurnTx, RegisterTx, StakeTx, UnstakeTx,
                  ActivateTx
    <3> QED BY <1>2, <2>1, <3>1, <3>2, TxBurns DEF Block
  <2>6. CASE End
    <3>1. live' = clone' /\ clone' = CloseBlock(clone, block.proposer, block.height)
      BY <2>6 DEF End
    <3>2. /\ clone'.burnTxs = clone.burnTxs /\ clone'.burned = clone.burned
          /\ clone'.nonce = clone.nonce
      BY <2>1, <3>1 DEF CloseBlock, State
    <3> QED BY <1>2, <3>1, <3>2 DEF BurnsPaid, BurnsOf
  <2>7. CASE Fail BY <1>2, <2>7 DEF Fail
  <2>8. CASE UNCHANGED vars BY <1>2, <2>8 DEF vars
  <2> QED BY <1>2, <2>3, <2>4, <2>5, <2>6, <2>7, <2>8 DEF Next
<1>3. P => BurnsDestroyValue BY DEF BurnsPaid, BurnsOf, BurnsDestroyValue
<1>4. Inv /\ P /\ [Next]_vars => P' BY <1>2
<1> HIDE DEF P
<1> QED BY <1>1, <1>3, <1>4, SpecInv, PTL DEF Spec

\* What the schedule leaves in the pool after a block of height h.
PoolAfter(h) == IF Issued(h) >= GenesisSupply THEN 0 ELSE GenesisSupply - Issued(h)

LEMMA IssuedSteps ==
  /\ Issued(0) = 0
  /\ \A h \in Nat : Issued(h) \in Nat /\ Issued(h + 1) = Issued(h) + BlockReward(h + 1)
<1> DEFINE F(h) == [i \in 1..h |-> BlockReward(i)]
<1>1. \A h \in Nat : F(h) \in [1..h -> Int] /\ F(h) \in [1..h -> Nat] BY RewardType
<1>2. \A h \in Nat : SumsOf(PrefixSums(F(h), h), F(h), h) BY <1>1, PrefixSumsAreSums
<1>3. Issued(0) = 0 BY <1>2 DEF SumsOf, Issued
<1>4. ASSUME NEW h \in Nat
      PROVE  Issued(h) \in Nat /\ Issued(h + 1) = Issued(h) + BlockReward(h + 1)
  <2> DEFINE f == F(h)
             g == F(h + 1)
             k == h + 1
  <2>1. k \in Nat /\ h <= k /\ k \in 1..k /\ k - 1 = h /\ h \in 0..h OBVIOUS
  <2>2. /\ f \in [1..h -> Int] /\ f \in [1..h -> Nat] /\ g \in [1..k -> Int]
        /\ SumsOf(PrefixSums(g, k), g, k)
    BY <1>1, <1>2, <2>1
  <2>3. (\A i \in 1..h : f[i] = g[i]) /\ g[k] = BlockReward(k) BY <2>1
  <2>4. Issued(h) = PrefixSums(f, h)[h] /\ Issued(k) = PrefixSums(g, k)[k] BY DEF Issued
  <2> HIDE DEF f, g, k
  <2>5. PrefixSums(f, h)[h] \in Nat BY <2>1, <2>2, SumsMonotone
  <2>6. PrefixSums(g, k)[k] = PrefixSums(g, k)[h] + g[k] BY <2>1, <2>2 DEF SumsOf
  <2>7. PrefixSums(g, k)[h] = PrefixSums(f, h)[h] BY <2>1, <2>2, <2>3, SumsAgree
  <2> QED BY <2>3, <2>4, <2>5, <2>6, <2>7 DEF k
<1> QED BY <1>3, <1>4

\* Paying what a coinbase may take from the pool of one height gives the next's.
LEMMA PoolSteps ==
  /\ PoolAfter(0) = GenesisSupply
  /\ \A h \in Nat : /\ PoolAfter(h) \in Nat
                    /\ PoolAfter(h + 1) = PoolAfter(h) - Smaller(BlockReward(h + 1), PoolAfter(h))
<1>1. GenesisSupply \in Nat BY ConstantsAssumption
<1>2. PoolAfter(0) = GenesisSupply BY <1>1, IssuedSteps DEF PoolAfter
<1>3. ASSUME NEW h \in Nat
      PROVE  /\ PoolAfter(h) \in Nat
             /\ PoolAfter(h + 1) = PoolAfter(h) - Smaller(BlockReward(h + 1), PoolAfter(h))
  <2>1. Issued(h) \in Nat /\ Issued(h + 1) = Issued(h) + BlockReward(h + 1) BY IssuedSteps
  <2>2. BlockReward(h + 1) \in Nat BY RewardType
  <2> QED BY <1>1, <2>1, <2>2 DEF PoolAfter, Smaller
<1> QED BY <1>2, <1>3

\* The pool follows the emission schedule, whatever blocks hold and however many
\* of them fail: each height takes its reward once, or what is left.
THEOREM PoolFollowsSchedule == Spec => []IssuanceOnSchedule
<1> DEFINE P == /\ live.pool = PoolAfter(live.height)
                /\ IsOpen => clone.pool = IF block.coinbase THEN PoolAfter(block.height)
                                          ELSE PoolAfter(live.height)
<1>1. Init => P
  BY PoolSteps DEF Init, NewState, IsOpen, NoBlock
<1>2. ASSUME Inv, P, [Next]_vars PROVE P'
  <2>1. /\ live \in State /\ clone \in State /\ block \in Block
        /\ live.height \in Nat
        /\ IsOpen => block.height = live.height + 1
    BY <1>2, StateFields DEF Inv, TypeOK
  <2>2. ASSUME NEW p \in Accounts, Begin(p) PROVE P'
    <3>1. /\ live' = live /\ clone'.pool = live.pool
          /\ block'.coinbase = FALSE
      BY <2>1, <2>2 DEF Begin, OpenBlock, State
    <3> QED BY <1>2, <3>1 DEF IsOpen
  <2>3. CASE ApplyBlockCoinbase
    <3> DEFINE t == [type |-> "coinbase", sender |-> block.proposer,
                     amount |-> CoinbaseAmount(clone, block.height)]
    <3>1. /\ clone' = ApplyCoinbase(clone, t) /\ live' = live /\ IsOpen /\ ~block.coinbase
          /\ block' = [block EXCEPT !.coinbase = TRUE]
      BY <2>3 DEF ApplyBlockCoinbase
    <3>2. block'.coinbase = TRUE /\ block'.height = block.height BY <2>1, <3>1 DEF Block
    <3>3. clone.pool = PoolAfter(live.height) BY <1>2, <3>1
    <3>4. clone'.pool = clone.pool - CoinbaseAmount(clone, block.height)
      BY <2>1, <3>1 DEF ApplyCoinbase, State
    <3>5. clone'.pool = PoolAfter(block.height)
      BY <2>1, <3>1, <3>3, <3>4, PoolSteps DEF CoinbaseAmount
    <3> QED BY <1>2, <3>1, <3>2, <3>5
  <2>4. CASE ApplyOneTx
    <3>1. PICK t \in Txs :
            CanApply(clone, t, block.height) /\ clone' = ApplyTx(clone, t, block.height)
      BY <1>2, <2>4, OneTx DEF Inv
    <3>2. live' = live /\ IsOpen /\ block' = [block EXCEPT !.txs = @ + 1]
      BY <2>4 DEF ApplyOneTx, NextTx, TransferTx, BurnTx, RegisterTx, StakeTx, UnstakeTx,
                  ActivateTx
    <3>3. clone'.pool = clone.pool BY <2>1, <3>1, TxEffects DEF Block
    <3>4. block'.coinbase = block.coinbase /\ block'.height = block.height
      BY <2>1, <3>2 DEF Block
    <3> QED BY <1>2, <3>2, <3>3, <3>4
  <2>5. CASE End
    <3>1. /\ IsOpen /\ (block.coinbase \/ BlockReward(block.height) = 0)
          /\ live' = CloseBlock(clone, block.proposer, block.height) /\ ~IsOpen'
      BY <2>5 DEF End, NoBlock, IsOpen
    <3>2. live'.pool = clone.pool /\ live'.height = block.height
      BY <2>1, <3>1 DEF CloseBlock, State
    <3>3. clone.pool = PoolAfter(block.height)
      <4>1. CASE block.coinbase BY <1>2, <3>1, <4>1
      <4>2. CASE ~block.coinbase
        <5>1. BlockReward(block.height) = 0 /\ clone.pool = PoolAfter(live.height)
          BY <1>2, <3>1, <4>2
        <5>2. /\ PoolAfter(live.height) \in Nat
              /\ PoolAfter(block.height)
                   = PoolAfter(live.height) - Smaller(0, PoolAfter(live.height))
          BY <2>1, <3>1, <5>1, PoolSteps
        <5> QED BY <5>1, <5>2 DEF Smaller
      <4> QED BY <4>1, <4>2
    <3> QED BY <3>1, <3>2, <3>3
  <2>6. CASE Fail
    <3>1. live' = live /\ ~IsOpen' BY <2>6 DEF Fail, NoBlock, IsOpen
    <3> QED BY <1>2, <3>1
  <2>7. CASE UNCHANGED vars BY <1>2, <2>7 DEF vars, IsOpen
  <2> QED BY <1>2, <2>2, <2>3, <2>4, <2>5, <2>6, <2>7 DEF Next
<1>3. P => IssuanceOnSchedule BY DEF IssuanceOnSchedule, PoolAfter
<1>4. Inv /\ P /\ [Next]_vars => P' BY <1>2
<1> HIDE DEF P
<1> QED BY <1>1, <1>3, <1>4, SpecInv, PTL DEF Spec
=============================================================================
