----------------------------- MODULE ChainState -----------------------------
(***************************************************************************)
(* The account ledger of the chain (internal/chain/state.go, types.go) and *)
(* the proposer election over it (pos.go), as operators on a state value.  *)
(* The modules Ledger and Engine use them in their actions.                *)
(*                                                                         *)
(* Amounts are uint64 in the code.  Every addition the code does not guard *)
(* with safeAddUint64 adds amounts that already exist in the ledger, so    *)
(* Ledger!SupplyAccounted bounds them far below 2^64 and they are natural  *)
(* numbers here.  Signatures are abstracted: every transaction is signed   *)
(* by its sender.                                                          *)
(***************************************************************************)
EXTENDS Integers, Sequences, FiniteSets, Sums

CONSTANTS
  NAccounts,        \* accounts are 1..NAccounts, in NodeID order
  GenesisSupply,    \* = MinerRewardPool
  BaseReward,       \* block reward before the first halving
  HalvingInterval,
  BootstrapSlots,
  MinStake,
  BaseFee,          \* FeeTransfer = FeeRegister = ... = FeeBurnBase
  BurnPrice         \* BurnAmountForMsgType, by message type

ASSUME ConstantsAssumption ==
  /\ NAccounts \in Nat \ {0}
  /\ GenesisSupply \in Nat
  /\ BaseReward \in Nat
  /\ HalvingInterval \in Nat \ {0}
  /\ BootstrapSlots \in Nat
  /\ MinStake \in Nat
  /\ BaseFee \in Nat \ {0}
  /\ \A k \in DOMAIN BurnPrice : BurnPrice[k] \in Nat \ {0}

Accounts == 1..NAccounts
Nobody   == 0                \* the empty NodeID

State ==
  [balance  : [Accounts -> Nat],
   stake    : [Accounts -> Nat],
   nonce    : [Accounts -> Nat],
   burned   : [Accounts -> Nat],
   regHeight: [Accounts -> Nat],
   active   : [Accounts -> BOOLEAN],
   pool     : Nat,                        \* MinerPoolRemaining
   height   : Nat,
   fees     : Nat,                        \* pendingMinerFees
   burnTxs  : SUBSET (Accounts \X Nat),   \* burnTxSeen, a TxID as <<sender, nonce>>
   minted   : Nat]                        \* history only: see ApplyUnstake

NewState ==
  [balance   |-> [a \in Accounts |-> 0],
   stake     |-> [a \in Accounts |-> 0],
   nonce     |-> [a \in Accounts |-> 0],
   burned    |-> [a \in Accounts |-> 0],
   regHeight |-> [a \in Accounts |-> 0],
   active    |-> [a \in Accounts |-> FALSE],
   pool      |-> GenesisSupply,
   height    |-> 0,
   fees      |-> 0,
   burnTxs   |-> {},
   minted    |-> 0]

-----------------------------------------------------------------------------
(* Transactions *)

Transfer == [type: {"transfer"}, sender: Accounts, nonce: Nat, fee: Nat,
             to: Accounts, amount: Nat]
Burn     == [type: {"burn"}, sender: Accounts, nonce: Nat, fee: Nat,
             msg: DOMAIN BurnPrice, amount: Nat,
             ref: Nat]                     \* RefHash; the hashes are numbered
Register == [type: {"register"}, sender: Accounts, nonce: Nat, fee: Nat]
Stake    == [type: {"stake"}, sender: Accounts, nonce: Nat, fee: Nat, amount: Nat]
Unstake  == [type: {"unstake"}, sender: Accounts, nonce: Nat, fee: Nat, amount: Nat]
Activate == [type: {"activate"}, sender: Accounts, nonce: Nat, fee: Nat]
Coinbase == [type: {"coinbase"}, sender: Accounts, amount: Nat]

\* What accounts sign; a coinbase is the proposer's and has no nonce.
Txs == Transfer \cup Burn \cup Register \cup Stake \cup Unstake \cup Activate

TxID(t) == <<t.sender, t.nonce>>

Smaller(a, b) == IF a < b THEN a ELSE b

\* 50, 25, 12, 6 and then nothing, with the mainnet constants.
BlockReward(height) ==
  LET halvings == (height - 1) \div HalvingInterval
  IN  CASE height = 0   -> 0
        [] height # 0 /\ halvings = 0  -> BaseReward
        [] height # 0 /\ halvings = 1  -> BaseReward \div 2
        [] height # 0 /\ halvings = 2  -> BaseReward \div 4
        [] height # 0 /\ halvings = 3  -> BaseReward \div 8
        [] OTHER        -> 0

\* Mutant: pays the full reward from a pool that cannot.
UncutReward(s, height) == BlockReward(height)

\* Reward the coinbase of a block at this height must carry.
CoinbaseAmount(s, height) == Smaller(BlockReward(height), s.pool)

\* A fee of 0 stands for the default.
FeeOf(t) == IF t.fee = 0 THEN BaseFee ELSE t.fee

\* Mutant: a burn of 0 is free.
AmountAsGiven(t) == t.amount

BurnAmount(t) == IF t.amount = 0 THEN BurnPrice[t.msg] ELSE t.amount

\* An unstake whose sender cannot pay the fee from its liquid balance.
PaysFeeFromAmount(s, t) == s.balance[t.sender] < FeeOf(t)

\* What an unstake moves from stake to balance.
Unbonded(s, t) == IF PaysFeeFromAmount(s, t) THEN t.amount - FeeOf(t) ELSE t.amount

\* A register by a sender who cannot pay, free while the chain is young.
RegistersFree(s, t) == s.balance[t.sender] < FeeOf(t)

-----------------------------------------------------------------------------
(* When the code applies a transaction, and when it returns an error.      *)

CanTransfer(s, t) ==
  /\ t.nonce = s.nonce[t.sender]
  /\ t.amount <= GenesisSupply
  /\ s.balance[t.sender] >= t.amount + FeeOf(t)

CanBurn(s, t) ==
  /\ t.nonce = s.nonce[t.sender]
  /\ BurnAmount(t) <= GenesisSupply
  /\ s.balance[t.sender] >= BurnAmount(t) + FeeOf(t)

CanRegister(s, t, height) ==
  /\ t.nonce = s.nonce[t.sender]
  /\ RegistersFree(s, t) => height <= BootstrapSlots /\ FeeOf(t) = BaseFee

CanStake(s, t) ==
  /\ t.amount > 0
  /\ t.nonce = s.nonce[t.sender]
  /\ t.amount <= GenesisSupply
  /\ s.balance[t.sender] >= t.amount + FeeOf(t)

\* Mutant: unstakes more than is bonded.
CanUnstakeUnbonded(s, t) ==
  /\ t.amount > 0
  /\ t.nonce = s.nonce[t.sender]
  /\ PaysFeeFromAmount(s, t) => t.amount > FeeOf(t)

CanUnstake(s, t) ==
  /\ t.amount > 0
  /\ t.nonce = s.nonce[t.sender]
  /\ s.stake[t.sender] >= t.amount
  /\ PaysFeeFromAmount(s, t) => t.amount > FeeOf(t)

CanActivate(s, t, height) ==
  /\ t.nonce = s.nonce[t.sender]
  /\ height > BootstrapSlots => s.stake[t.sender] >= MinStake

CanCoinbase(s, t, height) == t.amount = CoinbaseAmount(s, height)

-----------------------------------------------------------------------------
(* What the code does to the state when it applies one.                    *)

ApplyTransfer(s, t) ==
  [s EXCEPT !.balance = [[s.balance EXCEPT ![t.sender] = @ - (t.amount + FeeOf(t))]
                            EXCEPT ![t.to] = @ + t.amount],
            !.nonce   = [s.nonce EXCEPT ![t.sender] = @ + 1],
            !.fees    = @ + FeeOf(t)]

\* Mutant: a burn that can be replayed.
ApplyBurnKeepingNonce(s, t) ==
  [s EXCEPT !.balance = [s.balance EXCEPT ![t.sender] = @ - (BurnAmount(t) + FeeOf(t))],
            !.burned  = [s.burned EXCEPT ![t.sender] = @ + BurnAmount(t)],
            !.fees    = @ + FeeOf(t),
            !.burnTxs = @ \cup {TxID(t)}]

ApplyBurn(s, t) ==
  [s EXCEPT !.balance = [s.balance EXCEPT ![t.sender] = @ - (BurnAmount(t) + FeeOf(t))],
            !.burned  = [s.burned EXCEPT ![t.sender] = @ + BurnAmount(t)],
            !.nonce   = [s.nonce EXCEPT ![t.sender] = @ + 1],
            !.fees    = @ + FeeOf(t),
            !.burnTxs = @ \cup {TxID(t)}]

\* Mutant: a free register credits its fee to the proposer; no first height.
ApplyRegisterCollecting(s, t, height) ==
  LET paid == IF RegistersFree(s, t) THEN 0 ELSE FeeOf(t)
  IN  [s EXCEPT !.balance = [s.balance EXCEPT ![t.sender] = @ - paid],
                !.fees    = @ + FeeOf(t),
                !.nonce   = [s.nonce EXCEPT ![t.sender] = @ + 1]]

ApplyRegister(s, t, height) ==
  LET paid == IF RegistersFree(s, t) THEN 0 ELSE FeeOf(t)
  IN  [s EXCEPT !.balance   = [s.balance EXCEPT ![t.sender] = @ - paid],
                !.fees      = @ + paid,
                !.nonce     = [s.nonce EXCEPT ![t.sender] = @ + 1],
                !.regHeight = [s.regHeight EXCEPT ![t.sender] = IF @ = 0 THEN height ELSE @]]

\* Mutant: a stake that can be replayed.
ApplyStakeKeepingNonce(s, t) ==
  [s EXCEPT !.balance = [s.balance EXCEPT ![t.sender] = @ - (t.amount + FeeOf(t))],
            !.stake   = [s.stake EXCEPT ![t.sender] = @ + t.amount],
            !.fees    = @ + FeeOf(t)]

ApplyStake(s, t) ==
  [s EXCEPT !.balance = [s.balance EXCEPT ![t.sender] = @ - (t.amount + FeeOf(t))],
            !.stake   = [s.stake EXCEPT ![t.sender] = @ + t.amount],
            !.nonce   = [s.nonce EXCEPT ![t.sender] = @ + 1],
            !.fees    = @ + FeeOf(t)]

\* A fee that the balance cannot pay only reduces the amount unbonded: it
\* stays in the stake and is credited to the proposer as well.  `minted`
\* records what this adds to the supply; the code keeps no such counter.
ApplyUnstake(s, t) ==
  LET short == PaysFeeFromAmount(s, t)
      liquid == s.balance[t.sender] + Unbonded(s, t) - (IF short THEN 0 ELSE FeeOf(t))
      bonded == s.stake[t.sender] - Unbonded(s, t)
  IN  [s EXCEPT !.balance = [s.balance EXCEPT ![t.sender] = liquid],
                !.stake   = [s.stake EXCEPT ![t.sender] = bonded],
                !.nonce   = [s.nonce EXCEPT ![t.sender] = @ + 1],
                !.fees    = @ + FeeOf(t),
                !.active  = [s.active EXCEPT ![t.sender] = @ /\ bonded # 0],
                !.minted  = @ + (IF short THEN FeeOf(t) ELSE 0)]

ApplyActivate(s, t) ==
  [s EXCEPT !.active = [s.active EXCEPT ![t.sender] = TRUE],
            !.nonce  = [s.nonce EXCEPT ![t.sender] = @ + 1]]

ApplyCoinbase(s, t) ==
  [s EXCEPT !.pool    = @ - t.amount,
            !.balance = [s.balance EXCEPT ![t.sender] = @ + t.amount]]

\* applyTxLocked: the switch on the type.
CanApply(s, t, height) ==
  CASE t.type = "transfer" -> CanTransfer(s, t)
    [] t.type = "burn"     -> CanBurn(s, t)
    [] t.type = "register" -> CanRegister(s, t, height)
    [] t.type = "stake"    -> CanStake(s, t)
    [] t.type = "unstake"  -> CanUnstake(s, t)
    [] t.type = "activate" -> CanActivate(s, t, height)
    [] t.type = "coinbase" -> CanCoinbase(s, t, height)

ApplyTx(s, t, height) ==
  CASE t.type = "transfer" -> ApplyTransfer(s, t)
    [] t.type = "burn"     -> ApplyBurn(s, t)
    [] t.type = "register" -> ApplyRegister(s, t, height)
    [] t.type = "stake"    -> ApplyStake(s, t)
    [] t.type = "unstake"  -> ApplyUnstake(s, t)
    [] t.type = "activate" -> ApplyActivate(s, t)
    [] t.type = "coinbase" -> ApplyCoinbase(s, t)

\* The head of ApplyBlock, before the first transaction.
OpenBlock(s) == [s EXCEPT !.fees = 0]

\* The tail of ApplyBlock: the fees go to the proposer.
CloseBlock(s, proposer, height) ==
  [s EXCEPT !.balance = [s.balance EXCEPT ![proposer] = @ + s.fees],
            !.height  = height,
            !.fees    = 0]

-----------------------------------------------------------------------------
(* Proposer election *)

ActiveValidators(s) == {a \in Accounts : s.active[a]}

Weight(s) == [a \in Accounts |-> IF s.active[a] THEN s.stake[a] ELSE 0]

TotalActiveStake(s) == Total(Weight(s), NAccounts)

\* The validator a draw of the hash picks: round robin while nothing is
\* staked, else the first whose accumulated stake passes the draw.
RoundRobin(s, draw) ==
  LET vals == ActiveValidators(s)
  IN  CHOOSE v \in vals :
        Cardinality({u \in vals : u < v}) = draw % Cardinality(vals)

\* Mutant: the draw is compared with <=.
WeightedPickInclusive(s, draw) ==
  LET r   == draw % TotalActiveStake(s)
      acc == PrefixSums(Weight(s), NAccounts)
  IN  CHOOSE v \in ActiveValidators(s) :
        r <= acc[v] /\ \A u \in ActiveValidators(s) : u < v => r > acc[u]

WeightedPick(s, draw) ==
  LET r   == draw % TotalActiveStake(s)
      acc == PrefixSums(Weight(s), NAccounts)
  IN  CHOOSE v \in ActiveValidators(s) :
        r < acc[v] /\ \A u \in ActiveValidators(s) : u < v => r >= acc[u]

SelectProposer(s, draw) ==
  CASE ActiveValidators(s) = {} -> Nobody
    [] ActiveValidators(s) # {} /\ TotalActiveStake(s) = 0 -> RoundRobin(s, draw)
    [] OTHER -> WeightedPick(s, draw)

\* Mutant: any validator proposes in any slot.
MayProposeAnyActive(s, draw, node) ==
  SelectProposer(s, draw) = Nobody \/ s.active[node]

\* Mutant: nobody proposes while the validator set is empty.
MayProposeNoColdStart(s, draw, node) == SelectProposer(s, draw) = node

MayPropose(s, draw, node) == SelectProposer(s, draw) \in {Nobody, node}
-----------------------------------------------------------------------------
(* What accounts hold, and the worth of everything in them *)

Held(s) == [a \in Accounts |-> s.balance[a] + s.stake[a]]
Wealth(s) == Total([a \in Accounts |-> s.balance[a] + s.stake[a] + s.burned[a]], NAccounts)
=============================================================================
