---------------------------- MODULE BlocksProofs ----------------------------
(***************************************************************************)
(* What each transaction, and the head and the tail of a block, do to any  *)
(* state of the ledger: for any number of accounts, any amounts and fees   *)
(* and any reward schedule.  What applying blocks, replaying a chain and   *)
(* building a block do: the recursive functions of Blocks are shown to     *)
(* exist and to unfold, and a chain whose blocks all apply is shown to     *)
(* keep the ledger sound.                                                  *)
(***************************************************************************)
EXTENDS Blocks, CommonProofs
-----------------------------------------------------------------------------
(* What a state adds up to                                                 *)

Worth(s, a) == s.balance[a] + s.stake[a] + s.burned[a]

Supply(s) == Wealth(s) + s.pool + s.fees - s.minted

\* Going from s to u an account becomes poorer only by using a nonce.
CostsItsSigner(s, u) ==
  \A a \in Accounts :
    /\ u.nonce[a] >= s.nonce[a]
    /\ u.balance[a] + u.stake[a] < s.balance[a] + s.stake[a] => u.nonce[a] > s.nonce[a]

\* What every step of a block does to the state it finds.
Sound(s, u) == u \in State /\ Supply(u) = Supply(s) /\ CostsItsSigner(s, u)

LEMMA AccountsAreInterval == Accounts = 1..NAccounts /\ NAccounts \in Nat
BY ConstantsAssumption DEF Accounts

LEMMA StateFields ==
  ASSUME NEW s \in State
  PROVE  /\ s.balance \in [Accounts -> Nat]
         /\ s.stake \in [Accounts -> Nat]
         /\ s.nonce \in [Accounts -> Nat]
         /\ s.burned \in [Accounts -> Nat]
         /\ s.regHeight \in [Accounts -> Nat]
         /\ s.active \in [Accounts -> BOOLEAN]
         /\ s.pool \in Nat /\ s.height \in Nat /\ s.fees \in Nat /\ s.minted \in Nat
         /\ s.burnTxs \in SUBSET (Accounts \X Nat)
BY DEF State

LEMMA WorthType ==
  ASSUME NEW s \in State, NEW a \in Accounts
  PROVE  Worth(s, a) \in Nat
BY StateFields DEF Worth

LEMMA WealthType ==
  ASSUME NEW s \in State
  PROVE  Wealth(s) \in Int
<1>1. [a \in Accounts |-> s.balance[a] + s.stake[a] + s.burned[a]] \in [1..NAccounts -> Int]
  BY StateFields, AccountsAreInterval
<1> QED
  BY <1>1, AccountsAreInterval, TotalType DEF Wealth

\* A state in which only account a is worth something else.
LEMMA WealthChange ==
  ASSUME NEW s \in State, NEW u \in State, NEW a \in Accounts,
         \A b \in Accounts : b # a => Worth(u, b) = Worth(s, b)
  PROVE  Wealth(u) = Wealth(s) + Worth(u, a) - Worth(s, a)
<1> DEFINE W(x) == [b \in Accounts |-> x.balance[b] + x.stake[b] + x.burned[b]]
<1>1. W(s) \in [1..NAccounts -> Int]
  BY StateFields, AccountsAreInterval
<1>2. W(u) \in [1..NAccounts -> Int]
  BY StateFields, AccountsAreInterval
<1>3. \A b \in Accounts : W(s)[b] = Worth(s, b) /\ W(u)[b] = Worth(u, b)
  BY DEF Worth
<1>4. Wealth(s) = Total(W(s), NAccounts) /\ Wealth(u) = Total(W(u), NAccounts)
  BY DEF Wealth
<1> HIDE DEF W
<1>5. Total(W(u), NAccounts) = Total(W(s), NAccounts) + W(u)[a] - W(s)[a]
  BY <1>1, <1>2, <1>3, AccountsAreInterval, TotalChange
<1> QED
  BY <1>3, <1>4, <1>5

\* Only account a is worth something else, and the rest of the state makes up
\* for it.
LEMMA SupplyChange ==
  ASSUME NEW s \in State, NEW u \in State, NEW a \in Accounts,
         \A b \in Accounts : b # a => Worth(u, b) = Worth(s, b),
         Worth(u, a) + u.pool + u.fees - u.minted
           = Worth(s, a) + s.pool + s.fees - s.minted
  PROVE  Supply(u) = Supply(s)
<1>1. Wealth(u) = Wealth(s) + Worth(u, a) - Worth(s, a)
  BY WealthChange
<1>2. /\ Wealth(u) \in Int /\ Wealth(s) \in Int
      /\ Worth(u, a) \in Nat /\ Worth(s, a) \in Nat
  BY WealthType, WorthType
<1> QED
  BY <1>1, <1>2, StateFields DEF Supply

LEMMA NewStateSound == NewState \in State /\ Supply(NewState) = GenesisSupply
<1>1. NewState \in State
  BY ConstantsAssumption DEF NewState, State
<1>2. Wealth(NewState) = 0
  <2>1. [a \in Accounts |-> NewState.balance[a] + NewState.stake[a] + NewState.burned[a]]
          = [a \in 1..NAccounts |-> 0]
    BY AccountsAreInterval DEF NewState
  <2> QED
    BY <2>1, AccountsAreInterval, TotalOfZeros DEF Wealth
<1> QED
  BY <1>1, <1>2, ConstantsAssumption DEF Supply, NewState

LEMMA SoundTransitive ==
  ASSUME NEW r \in State, NEW s \in State, NEW u \in State,
         CostsItsSigner(r, s), CostsItsSigner(s, u)
  PROVE  CostsItsSigner(r, u)
<1> SUFFICES ASSUME NEW a \in Accounts
             PROVE  /\ u.nonce[a] >= r.nonce[a]
                    /\ u.balance[a] + u.stake[a] < r.balance[a] + r.stake[a]
                         => u.nonce[a] > r.nonce[a]
  BY DEF CostsItsSigner
<1>1. /\ r.nonce[a] \in Nat /\ r.balance[a] \in Nat /\ r.stake[a] \in Nat
      /\ s.nonce[a] \in Nat /\ s.balance[a] \in Nat /\ s.stake[a] \in Nat
      /\ u.nonce[a] \in Nat /\ u.balance[a] \in Nat /\ u.stake[a] \in Nat
  BY StateFields
<1> QED
  BY <1>1 DEF CostsItsSigner

\* The reward of a height is an amount.
LEMMA RewardType == \A h \in Nat : BlockReward(h) \in Nat
BY ConstantsAssumption DEF BlockReward

LEMMA FeeType ==
  ASSUME NEW t, t.fee \in Nat
  PROVE  FeeOf(t) \in Nat /\ FeeOf(t) > 0
BY ConstantsAssumption DEF FeeOf

-----------------------------------------------------------------------------
(* Each transaction                                                        *)

\* A transfer pays the fee and moves its amount.
LEMMA TransferSound ==
  ASSUME NEW s \in State, NEW t \in Transfer, CanTransfer(s, t)
  PROVE  Sound(s, ApplyTransfer(s, t))
<1> DEFINE a == t.sender
           b == t.to
           paid == [s.balance EXCEPT ![a] = @ - (t.amount + FeeOf(t))]
           bal == [paid EXCEPT ![b] = @ + t.amount]
           non == [s.nonce EXCEPT ![a] = @ + 1]
           mid == [s EXCEPT !.balance = paid, !.fees = @ + t.amount + FeeOf(t)]
           u == [s EXCEPT !.balance = bal, !.nonce = non, !.fees = @ + FeeOf(t)]
<1>1. /\ a \in Accounts /\ b \in Accounts /\ t.amount \in Nat /\ FeeOf(t) \in Nat
      /\ s.balance[a] >= t.amount + FeeOf(t)
  BY FeeType DEF Transfer, CanTransfer
<1>2. ApplyTransfer(s, t) = u
  BY DEF ApplyTransfer
<1>3. paid \in [Accounts -> Nat] /\ bal \in [Accounts -> Nat] /\ non \in [Accounts -> Nat]
  BY <1>1, StateFields
<1>4. mid \in State /\ u \in State
  <2>1. s.fees + t.amount + FeeOf(t) \in Nat /\ s.fees + FeeOf(t) \in Nat
    BY <1>1, StateFields
  <2> HIDE DEF paid, bal, non
  <2> QED
    BY <1>3, <2>1 DEF State
<1>5. /\ mid.balance = paid /\ mid.stake = s.stake /\ mid.burned = s.burned
      /\ mid.pool = s.pool /\ mid.minted = s.minted
      /\ mid.fees = s.fees + t.amount + FeeOf(t)
      /\ u.balance = bal /\ u.stake = s.stake /\ u.burned = s.burned /\ u.nonce = non
      /\ u.pool = s.pool /\ u.minted = s.minted /\ u.fees = s.fees + FeeOf(t)
  BY DEF State
<1> HIDE DEF mid, u
<1>6. Supply(mid) = Supply(s)
  <2>1. \A c \in Accounts : c # a => Worth(mid, c) = Worth(s, c)
    BY <1>1, <1>5, StateFields DEF Worth
  <2>2. Worth(mid, a) + mid.pool + mid.fees - mid.minted
          = Worth(s, a) + s.pool + s.fees - s.minted
    BY <1>1, <1>5, StateFields DEF Worth
  <2> QED
    BY <1>1, <1>4, <2>1, <2>2, SupplyChange
<1>7. Supply(u) = Supply(mid)
  <2>1. \A c \in Accounts : c # b => Worth(u, c) = Worth(mid, c)
    BY <1>1, <1>3, <1>5 DEF Worth
  <2>2. Worth(u, b) + u.pool + u.fees - u.minted
          = Worth(mid, b) + mid.pool + mid.fees - mid.minted
    BY <1>1, <1>3, <1>5, StateFields DEF Worth
  <2> QED
    BY <1>1, <1>4, <2>1, <2>2, SupplyChange
<1>8. CostsItsSigner(s, u)
  BY <1>1, <1>5, StateFields DEF CostsItsSigner
<1> QED
  BY <1>2, <1>4, <1>6, <1>7, <1>8 DEF Sound

\* A burn moves its amount from the balance to what the account has burned.
LEMMA BurnSound ==
  ASSUME NEW s \in State, NEW t \in Burn, CanBurn(s, t)
  PROVE  Sound(s, ApplyBurn(s, t))
<1> DEFINE a == t.sender
           bal == [s.balance EXCEPT ![a] = @ - (BurnAmount(t) + FeeOf(t))]
           bur == [s.burned EXCEPT ![a] = @ + BurnAmount(t)]
           non == [s.nonce EXCEPT ![a] = @ + 1]
           ids == s.burnTxs \cup {TxID(t)}
           u == [s EXCEPT !.balance = bal, !.burned = bur, !.nonce = non,
                          !.fees = @ + FeeOf(t), !.burnTxs = ids]
<1>1. /\ a \in Accounts /\ t.nonce \in Nat /\ FeeOf(t) \in Nat
      /\ s.balance[a] >= BurnAmount(t) + FeeOf(t)
  BY FeeType DEF Burn, CanBurn
<1>2. BurnAmount(t) \in Nat
  BY ConstantsAssumption DEF BurnAmount, Burn
<1>3. ApplyBurn(s, t) = u
  BY DEF ApplyBurn
<1>4. /\ bal \in [Accounts -> Nat] /\ bur \in [Accounts -> Nat] /\ non \in [Accounts -> Nat]
      /\ ids \in SUBSET (Accounts \X Nat)
  BY <1>1, <1>2, StateFields DEF TxID
<1>5. u \in State
  <2>1. s.fees + FeeOf(t) \in Nat
    BY <1>1, StateFields
  <2> HIDE DEF bal, bur, non, ids
  <2> QED
    BY <1>4, <2>1 DEF State
<1>6. /\ u.balance = bal /\ u.stake = s.stake /\ u.burned = bur /\ u.nonce = non
      /\ u.pool = s.pool /\ u.minted = s.minted /\ u.fees = s.fees + FeeOf(t)
  BY DEF State
<1> HIDE DEF u
<1>7. \A c \in Accounts : c # a => Worth(u, c) = Worth(s, c)
  BY <1>1, <1>6, StateFields DEF Worth
<1>8. Worth(u, a) + u.pool + u.fees - u.minted = Worth(s, a) + s.pool + s.fees - s.minted
  BY <1>1, <1>2, <1>6, StateFields DEF Worth
<1>9. CostsItsSigner(s, u)
  BY <1>1, <1>2, <1>6, StateFields DEF CostsItsSigner
<1> QED
  BY <1>1, <1>3, <1>5, <1>7, <1>8, <1>9, SupplyChange DEF Sound

\* A register takes the fee from an account that can pay it and from no other.
LEMMA RegisterSound ==
  ASSUME NEW s \in State, NEW t \in Register, NEW h \in Nat, CanRegister(s, t, h)
  PROVE  Sound(s, ApplyRegister(s, t, h))
<1> DEFINE a == t.sender
           paid == IF RegistersFree(s, t) THEN 0 ELSE FeeOf(t)
           bal == [s.balance EXCEPT ![a] = @ - paid]
           non == [s.nonce EXCEPT ![a] = @ + 1]
           reg == [s.regHeight EXCEPT ![a] = IF @ = 0 THEN h ELSE @]
           u == [s EXCEPT !.balance = bal, !.fees = @ + paid, !.nonce = non,
                          !.regHeight = reg]
<1>1. a \in Accounts /\ FeeOf(t) \in Nat
  BY FeeType DEF Register
<1>2. paid \in Nat /\ paid <= s.balance[a]
  BY <1>1, StateFields DEF RegistersFree
<1>3. ApplyRegister(s, t, h) = u
  BY DEF ApplyRegister
<1> HIDE DEF paid
<1>4. bal \in [Accounts -> Nat] /\ non \in [Accounts -> Nat] /\ reg \in [Accounts -> Nat]
  BY <1>1, <1>2, StateFields
<1>5. u \in State
  <2>1. s.fees + paid \in Nat
    BY <1>2, StateFields
  <2> HIDE DEF bal, non, reg
  <2> QED
    BY <1>4, <2>1 DEF State
<1>6. /\ u.balance = bal /\ u.stake = s.stake /\ u.burned = s.burned /\ u.nonce = non
      /\ u.pool = s.pool /\ u.minted = s.minted /\ u.fees = s.fees + paid
  BY DEF State
<1> HIDE DEF u
<1>7. \A c \in Accounts : c # a => Worth(u, c) = Worth(s, c)
  BY <1>1, <1>6, StateFields DEF Worth
<1>8. Worth(u, a) + u.pool + u.fees - u.minted = Worth(s, a) + s.pool + s.fees - s.minted
  BY <1>1, <1>2, <1>6, StateFields DEF Worth
<1>9. CostsItsSigner(s, u)
  BY <1>1, <1>2, <1>6, StateFields DEF CostsItsSigner
<1> QED
  BY <1>1, <1>3, <1>5, <1>7, <1>8, <1>9, SupplyChange DEF Sound

\* A stake moves its amount from the balance to the stake.
LEMMA StakeSound ==
  ASSUME NEW s \in State, NEW t \in Stake, CanStake(s, t)
  PROVE  Sound(s, ApplyStake(s, t))
<1> DEFINE a == t.sender
           bal == [s.balance EXCEPT ![a] = @ - (t.amount + FeeOf(t))]
           stk == [s.stake EXCEPT ![a] = @ + t.amount]
           non == [s.nonce EXCEPT ![a] = @ + 1]
           u == [s EXCEPT !.balance = bal, !.stake = stk, !.nonce = non,
                          !.fees = @ + FeeOf(t)]
<1>1. /\ a \in Accounts /\ t.amount \in Nat /\ FeeOf(t) \in Nat
      /\ s.balance[a] >= t.amount + FeeOf(t)
  BY FeeType DEF Stake, CanStake
<1>2. ApplyStake(s, t) = u
  BY DEF ApplyStake
<1>3. bal \in [Accounts -> Nat] /\ stk \in [Accounts -> Nat] /\ non \in [Accounts -> Nat]
  BY <1>1, StateFields
<1>4. u \in State
  <2>1. s.fees + FeeOf(t) \in Nat
    BY <1>1, StateFields
  <2> HIDE DEF bal, stk, non
  <2> QED
    BY <1>3, <2>1 DEF State
<1>5. /\ u.balance = bal /\ u.stake = stk /\ u.burned = s.burned /\ u.nonce = non
      /\ u.pool = s.pool /\ u.minted = s.minted /\ u.fees = s.fees + FeeOf(t)
  BY DEF State
<1> HIDE DEF u
<1>6. \A c \in Accounts : c # a => Worth(u, c) = Worth(s, c)
  BY <1>1, <1>5, StateFields DEF Worth
<1>7. Worth(u, a) + u.pool + u.fees - u.minted = Worth(s, a) + s.pool + s.fees - s.minted
  BY <1>1, <1>5, StateFields DEF Worth
<1>8. CostsItsSigner(s, u)
  BY <1>1, <1>5, StateFields DEF CostsItsSigner
<1> QED
  BY <1>1, <1>2, <1>4, <1>6, <1>7, <1>8, SupplyChange DEF Sound

\* An unstake moves what it unbonds from the stake to the balance; a fee the
\* balance could not pay is new supply, which `minted` counts.
LEMMA UnstakeSound ==
  ASSUME NEW s \in State, NEW t \in Unstake, CanUnstake(s, t)
  PROVE  Sound(s, ApplyUnstake(s, t))
<1> DEFINE a == t.sender
           short == PaysFeeFromAmount(s, t)
           out == Unbonded(s, t)
           due == IF short THEN 0 ELSE FeeOf(t)
           new == IF short THEN FeeOf(t) ELSE 0
           liquid == s.balance[a] + out - due
           bonded == s.stake[a] - out
           bal == [s.balance EXCEPT ![a] = liquid]
           stk == [s.stake EXCEPT ![a] = bonded]
           non == [s.nonce EXCEPT ![a] = @ + 1]
           act == [s.active EXCEPT ![a] = @ /\ bonded # 0]
           u == [s EXCEPT !.balance = bal, !.stake = stk, !.nonce = non,
                          !.fees = @ + FeeOf(t), !.active = act, !.minted = @ + new]
<1>1. a \in Accounts /\ t.amount \in Nat /\ FeeOf(t) \in Nat /\ s.stake[a] >= t.amount
  BY FeeType DEF Unstake, CanUnstake
<1>2. /\ out \in Nat /\ out <= s.stake[a]
      /\ due \in Nat /\ new \in Nat /\ due <= s.balance[a] /\ due + new = FeeOf(t)
  BY <1>1, StateFields DEF Unbonded, PaysFeeFromAmount, CanUnstake
<1>3. ApplyUnstake(s, t) = u
  BY DEF ApplyUnstake
<1> HIDE DEF out, due, new
<1>4. liquid \in Nat /\ bonded \in Nat
  BY <1>1, <1>2, StateFields
<1>5. /\ bal \in [Accounts -> Nat] /\ stk \in [Accounts -> Nat] /\ non \in [Accounts -> Nat]
      /\ act \in [Accounts -> BOOLEAN]
  <2> HIDE DEF liquid, bonded
  <2>1. bal \in [Accounts -> Nat] /\ stk \in [Accounts -> Nat] /\ non \in [Accounts -> Nat]
    BY <1>1, <1>4, StateFields
  <2>2. act \in [Accounts -> BOOLEAN]
    BY StateFields
  <2> QED
    BY <2>1, <2>2
<1>6. u \in State
  <2>1. s.fees + FeeOf(t) \in Nat /\ s.minted + new \in Nat
    BY <1>1, <1>2, StateFields
  <2> HIDE DEF bal, stk, non, act
  <2> QED
    BY <1>5, <2>1 DEF State
<1>7. /\ u.balance = bal /\ u.stake = stk /\ u.burned = s.burned /\ u.nonce = non
      /\ u.pool = s.pool /\ u.minted = s.minted + new /\ u.fees = s.fees + FeeOf(t)
  BY DEF State
<1> HIDE DEF u
<1>8. \A c \in Accounts : c # a => Worth(u, c) = Worth(s, c)
  BY <1>1, <1>7, StateFields DEF Worth
<1>9. Worth(u, a) + u.pool + u.fees - u.minted = Worth(s, a) + s.pool + s.fees - s.minted
  BY <1>1, <1>2, <1>7, StateFields DEF Worth
<1>10. CostsItsSigner(s, u)
  BY <1>1, <1>2, <1>7, StateFields DEF CostsItsSigner
<1> QED
  BY <1>1, <1>3, <1>6, <1>8, <1>9, <1>10, SupplyChange DEF Sound

\* An activation moves nothing.
LEMMA ActivateSound ==
  ASSUME NEW s \in State, NEW t \in Activate
  PROVE  Sound(s, ApplyActivate(s, t))
<1> DEFINE a == t.sender
           act == [s.active EXCEPT ![a] = TRUE]
           non == [s.nonce EXCEPT ![a] = @ + 1]
           u == [s EXCEPT !.active = act, !.nonce = non]
<1>1. a \in Accounts
  BY DEF Activate
<1>2. ApplyActivate(s, t) = u
  BY DEF ApplyActivate
<1>3. act \in [Accounts -> BOOLEAN] /\ non \in [Accounts -> Nat]
  BY <1>1, StateFields
<1>4. u \in State
  <2> HIDE DEF act, non
  <2> QED
    BY <1>3 DEF State
<1>5. /\ u.balance = s.balance /\ u.stake = s.stake /\ u.burned = s.burned
      /\ u.pool = s.pool /\ u.minted = s.minted /\ u.fees = s.fees /\ u.nonce = non
  BY DEF State
<1> HIDE DEF u
<1>6. \A c \in Accounts : Worth(u, c) = Worth(s, c)
  BY <1>5 DEF Worth
<1>7. CostsItsSigner(s, u)
  BY <1>1, <1>5, StateFields DEF CostsItsSigner
<1> QED
  BY <1>1, <1>2, <1>4, <1>5, <1>6, <1>7, SupplyChange DEF Sound

\* A coinbase moves its amount from the pool to the proposer.
LEMMA CoinbaseSound ==
  ASSUME NEW s \in State, NEW t \in Coinbase, t.amount <= s.pool
  PROVE  Sound(s, ApplyCoinbase(s, t))
<1> DEFINE a == t.sender
           bal == [s.balance EXCEPT ![a] = @ + t.amount]
           u == [s EXCEPT !.pool = @ - t.amount, !.balance = bal]
<1>1. a \in Accounts /\ t.amount \in Nat
  BY DEF Coinbase
<1>2. ApplyCoinbase(s, t) = u
  BY DEF ApplyCoinbase
<1>3. bal \in [Accounts -> Nat]
  BY <1>1, StateFields
<1>4. u \in State
  <2>1. s.pool - t.amount \in Nat
    BY <1>1, StateFields
  <2> HIDE DEF bal
  <2> QED
    BY <1>3, <2>1 DEF State
<1>5. /\ u.balance = bal /\ u.stake = s.stake /\ u.burned = s.burned /\ u.nonce = s.nonce
      /\ u.pool = s.pool - t.amount /\ u.minted = s.minted /\ u.fees = s.fees
  BY DEF State
<1> HIDE DEF u
<1>6. \A c \in Accounts : c # a => Worth(u, c) = Worth(s, c)
  BY <1>1, <1>5, StateFields DEF Worth
<1>7. Worth(u, a) + u.pool + u.fees - u.minted = Worth(s, a) + s.pool + s.fees - s.minted
  BY <1>1, <1>5, StateFields DEF Worth
<1>8. CostsItsSigner(s, u)
  BY <1>1, <1>5, StateFields DEF CostsItsSigner
<1> QED
  BY <1>1, <1>2, <1>4, <1>6, <1>7, <1>8, SupplyChange DEF Sound

-----------------------------------------------------------------------------
(* The head and the tail of a block                                        *)

LEMMA OpenSound ==
  ASSUME NEW s \in State, s.fees = 0
  PROVE  Sound(s, OpenBlock(s))
<1>1. OpenBlock(s) = s
  BY DEF OpenBlock, State
<1>2. CostsItsSigner(s, s)
  BY StateFields DEF CostsItsSigner
<1> QED
  BY <1>1, <1>2 DEF Sound

LEMMA CloseSound ==
  ASSUME NEW s \in State, NEW p \in Accounts, NEW h \in Nat
  PROVE  Sound(s, CloseBlock(s, p, h)) /\ CloseBlock(s, p, h).fees = 0
<1> DEFINE bal == [s.balance EXCEPT ![p] = @ + s.fees]
           u == [s EXCEPT !.balance = bal, !.height = h, !.fees = 0]
<1>1. CloseBlock(s, p, h) = u
  BY DEF CloseBlock
<1>2. bal \in [Accounts -> Nat]
  BY StateFields
<1>3. u \in State
  <2> HIDE DEF bal
  <2> QED
    BY <1>2 DEF State
<1>4. /\ u.balance = bal /\ u.stake = s.stake /\ u.burned = s.burned /\ u.nonce = s.nonce
      /\ u.pool = s.pool /\ u.minted = s.minted /\ u.fees = 0
  BY DEF State
<1> HIDE DEF u
<1>5. \A c \in Accounts : c # p => Worth(u, c) = Worth(s, c)
  BY <1>4, StateFields DEF Worth
<1>6. Worth(u, p) + u.pool + u.fees - u.minted = Worth(s, p) + s.pool + s.fees - s.minted
  BY <1>4, StateFields DEF Worth
<1>7. CostsItsSigner(s, u)
  BY <1>4, StateFields DEF CostsItsSigner
<1> QED
  BY <1>1, <1>3, <1>4, <1>5, <1>6, <1>7, SupplyChange DEF Sound

-----------------------------------------------------------------------------
(* Any transaction                                                         *)

\* Going from s to u by transaction t its signer's nonce moves on by one.
UsesNonce(s, t, u) ==
  IF t \in Coinbase THEN u.nonce = s.nonce
  ELSE /\ t.nonce = s.nonce[t.sender]
       /\ u.nonce = [s.nonce EXCEPT ![t.sender] = @ + 1]

\* The type of a transaction tells which rules it follows.
LEMMA TxKinds ==
  /\ \A t \in Transfer : t.type = "transfer"
  /\ \A t \in Burn : t.type = "burn"
  /\ \A t \in Register : t.type = "register"
  /\ \A t \in Stake : t.type = "stake"
  /\ \A t \in Unstake : t.type = "unstake"
  /\ \A t \in Activate : t.type = "activate"
  /\ \A t \in Coinbase : t.type = "coinbase"
  /\ \A t \in Txs : t.type # "coinbase" /\ t \notin Coinbase
BY DEF Transfer, Burn, Register, Stake, Unstake, Activate, Coinbase, Txs

LEMMA TxSound ==
  ASSUME NEW s \in State, NEW t \in Txs \cup Coinbase, NEW h \in Nat, CanApply(s, t, h)
  PROVE  Sound(s, ApplyTx(s, t, h)) /\ UsesNonce(s, t, ApplyTx(s, t, h))
<1>1. CASE t \in Transfer
  <2>1. CanTransfer(s, t) /\ ApplyTx(s, t, h) = ApplyTransfer(s, t) /\ t \notin Coinbase
    BY <1>1, TxKinds DEF CanApply, ApplyTx, Txs
  <2>2. UsesNonce(s, t, ApplyTransfer(s, t))
    BY <2>1 DEF UsesNonce, CanTransfer, ApplyTransfer, State
  <2> QED BY <1>1, <2>1, <2>2, TransferSound
<1>2. CASE t \in Burn
  <2>1. CanBurn(s, t) /\ ApplyTx(s, t, h) = ApplyBurn(s, t) /\ t \notin Coinbase
    BY <1>2, TxKinds DEF CanApply, ApplyTx, Txs
  <2>2. UsesNonce(s, t, ApplyBurn(s, t))
    BY <2>1 DEF UsesNonce, CanBurn, ApplyBurn, State
  <2> QED BY <1>2, <2>1, <2>2, BurnSound
<1>3. CASE t \in Register
  <2>1. /\ CanRegister(s, t, h) /\ ApplyTx(s, t, h) = ApplyRegister(s, t, h)
        /\ t \notin Coinbase
    BY <1>3, TxKinds DEF CanApply, ApplyTx, Txs
  <2>2. UsesNonce(s, t, ApplyRegister(s, t, h))
    BY <2>1 DEF UsesNonce, CanRegister, ApplyRegister, State
  <2> QED BY <1>3, <2>1, <2>2, RegisterSound
<1>4. CASE t \in Stake
  <2>1. CanStake(s, t) /\ ApplyTx(s, t, h) = ApplyStake(s, t) /\ t \notin Coinbase
    BY <1>4, TxKinds DEF CanApply, ApplyTx, Txs
  <2>2. UsesNonce(s, t, ApplyStake(s, t))
    BY <2>1 DEF UsesNonce, CanStake, ApplyStake, State
  <2> QED BY <1>4, <2>1, <2>2, StakeSound
<1>5. CASE t \in Unstake
  <2>1. CanUnstake(s, t) /\ ApplyTx(s, t, h) = ApplyUnstake(s, t) /\ t \notin Coinbase
    BY <1>5, TxKinds DEF CanApply, ApplyTx, Txs
  <2>2. UsesNonce(s, t, ApplyUnstake(s, t))
    BY <2>1 DEF UsesNonce, CanUnstake, ApplyUnstake, State
  <2> QED BY <1>5, <2>1, <2>2, UnstakeSound
<1>6. CASE t \in Activate
  <2>1. CanActivate(s, t, h) /\ ApplyTx(s, t, h) = ApplyActivate(s, t) /\ t \notin Coinbase
    BY <1>6, TxKinds DEF CanApply, ApplyTx, Txs
  <2>2. UsesNonce(s, t, ApplyActivate(s, t))
    BY <2>1 DEF UsesNonce, CanActivate, ApplyActivate, State
  <2> QED BY <1>6, <2>1, <2>2, ActivateSound
<1>7. CASE t \in Coinbase
  <2>1. CanCoinbase(s, t, h) /\ ApplyTx(s, t, h) = ApplyCoinbase(s, t)
    BY <1>7, TxKinds DEF CanApply, ApplyTx
  <2>2. t.amount <= s.pool
    <3>1. t.amount \in Nat /\ s.pool \in Nat BY <1>7 DEF Coinbase, State
    <3>2. t.amount = Smaller(BlockReward(h), s.pool) BY <2>1 DEF CanCoinbase, CoinbaseAmount
    <3> DEFINE r == BlockReward(h)
    <3>3. r \in Nat BY RewardType
    <3> HIDE DEF r
    <3> QED BY <3>1, <3>2, <3>3 DEF Smaller
  <2>3. UsesNonce(s, t, ApplyCoinbase(s, t))
    BY <1>7 DEF UsesNonce, ApplyCoinbase, State
  <2> QED BY <1>7, <2>1, <2>2, <2>3, CoinbaseSound
<1> QED BY <1>1, <1>2, <1>3, <1>4, <1>5, <1>6, <1>7 DEF Txs

\* Only a coinbase takes from the pool; only a burn counts as one, and it raises
\* what its account has burned.
LEMMA TxEffects ==
  ASSUME NEW s \in State, NEW t \in Txs, NEW h \in Nat, CanApply(s, t, h)
  PROVE  LET u == ApplyTx(s, t, h) IN
         /\ u.pool = s.pool
         /\ \/ u.burnTxs = s.burnTxs /\ u.burned = s.burned
            \/ /\ t \in Burn
               /\ u.burnTxs = s.burnTxs \cup {TxID(t)}
               /\ u.burned = [s.burned EXCEPT ![t.sender] = @ + BurnAmount(t)]
<1>1. CASE t \in Transfer
  <2>1. ApplyTx(s, t, h) = ApplyTransfer(s, t) BY <1>1, TxKinds DEF ApplyTx
  <2> QED BY <2>1 DEF ApplyTransfer, State
<1>2. CASE t \in Burn
  <2>1. ApplyTx(s, t, h) = ApplyBurn(s, t) BY <1>2, TxKinds DEF ApplyTx
  <2> QED BY <1>2, <2>1 DEF ApplyBurn, State
<1>3. CASE t \in Register
  <2>1. ApplyTx(s, t, h) = ApplyRegister(s, t, h) BY <1>3, TxKinds DEF ApplyTx
  <2> QED BY <2>1 DEF ApplyRegister, State
<1>4. CASE t \in Stake
  <2>1. ApplyTx(s, t, h) = ApplyStake(s, t) BY <1>4, TxKinds DEF ApplyTx
  <2> QED BY <2>1 DEF ApplyStake, State
<1>5. CASE t \in Unstake
  <2>1. ApplyTx(s, t, h) = ApplyUnstake(s, t) BY <1>5, TxKinds DEF ApplyTx
  <2> QED BY <2>1 DEF ApplyUnstake, State
<1>6. CASE t \in Activate
  <2>1. ApplyTx(s, t, h) = ApplyActivate(s, t) BY <1>6, TxKinds DEF ApplyTx
  <2> QED BY <2>1 DEF ApplyActivate, State
<1> QED BY <1>1, <1>2, <1>3, <1>4, <1>5, <1>6 DEF Txs

\* The burns of each account are distinct used nonces, no more than it has burned.
BurnsOf(s, a) == {b \in s.burnTxs : b[1] = a}
BurnsPaid(s) ==
  /\ IsFiniteSet(s.burnTxs)
  /\ \A a \in Accounts :
       /\ \A b \in BurnsOf(s, a) : b[2] < s.nonce[a]
       /\ s.burned[a] >= Cardinality(BurnsOf(s, a))

LEMMA BurnsKept ==
  ASSUME NEW s \in State, NEW u \in State, BurnsPaid(s),
         u.burnTxs = s.burnTxs, u.burned = s.burned,
         \A a \in Accounts : u.nonce[a] >= s.nonce[a]
  PROVE  BurnsPaid(u)
<1>1. \A a \in Accounts : BurnsOf(u, a) = BurnsOf(s, a) BY DEF BurnsOf
<1>2. ASSUME NEW a \in Accounts, NEW b \in BurnsOf(s, a) PROVE b[2] < u.nonce[a]
  <2>1. b \in Accounts \X Nat BY StateFields DEF BurnsOf
  <2>2. b[2] \in Nat /\ s.nonce[a] \in Nat /\ u.nonce[a] \in Nat BY <2>1, StateFields
  <2>3. b[2] < s.nonce[a] BY DEF BurnsPaid
  <2> QED BY <2>2, <2>3
<1> QED BY <1>1, <1>2 DEF BurnsPaid

\* A transaction keeps it so: a burn has a nonce that is not used yet, and burns
\* at least one unit.
LEMMA TxBurns ==
  ASSUME NEW s \in State, NEW t \in Txs, NEW h \in Nat, CanApply(s, t, h), BurnsPaid(s)
  PROVE  BurnsPaid(ApplyTx(s, t, h))
<1> DEFINE u == ApplyTx(s, t, h)
           a == t.sender
           e == TxID(t)
<1>1. u \in State /\ \A c \in Accounts : u.nonce[c] >= s.nonce[c]
  BY TxSound DEF Sound, CostsItsSigner
<1>2. t.nonce = s.nonce[a] /\ u.nonce = [s.nonce EXCEPT ![a] = @ + 1]
  BY TxSound, TxKinds DEF UsesNonce
<1>3. \/ u.burnTxs = s.burnTxs /\ u.burned = s.burned
      \/ /\ t \in Burn
         /\ u.burnTxs = s.burnTxs \cup {e}
         /\ u.burned = [s.burned EXCEPT ![a] = @ + BurnAmount(t)]
  BY TxEffects
<1>4. CASE u.burnTxs = s.burnTxs /\ u.burned = s.burned BY <1>1, <1>4, BurnsKept
<1>5. CASE /\ t \in Burn
           /\ u.burnTxs = s.burnTxs \cup {e}
           /\ u.burned = [s.burned EXCEPT ![a] = @ + BurnAmount(t)]
  <2> DEFINE x == BurnAmount(t)
  <2>1. a \in Accounts /\ t.nonce \in Nat /\ x \in Nat \ {0}
    BY <1>5, ConstantsAssumption DEF Burn, BurnAmount
  <2>2. e[1] = a /\ e[2] = t.nonce BY DEF TxID
  <2>3. /\ s.nonce \in [Accounts -> Nat] /\ s.burned \in [Accounts -> Nat]
        /\ s.burnTxs \subseteq Accounts \X Nat
    BY StateFields
  <2> HIDE DEF u, e, x
  <2>4. IsFiniteSet(s.burnTxs) /\ IsFiniteSet(u.burnTxs)
    <3>1. IsFiniteSet(s.burnTxs) BY DEF BurnsPaid
    <3> QED BY <1>5, <3>1, FS_AddElement
  <2>5. e \notin BurnsOf(s, a)
    <3>1. ~(s.nonce[a] < s.nonce[a]) BY <2>1, <2>3
    <3> QED BY <1>2, <2>1, <2>2, <3>1 DEF BurnsPaid
  <2>6. /\ BurnsOf(u, a) = BurnsOf(s, a) \cup {e}
        /\ \A c \in Accounts : c # a => BurnsOf(u, c) = BurnsOf(s, c)
    BY <1>5, <2>2 DEF BurnsOf
  <2>7. \A c \in Accounts : BurnsOf(s, c) \subseteq s.burnTxs BY DEF BurnsOf
  <2>8. IsFiniteSet(BurnsOf(s, a)) BY <2>1, <2>4, <2>7, FS_Subset
  <2>9. /\ Cardinality(BurnsOf(s, a)) \in Nat
        /\ Cardinality(BurnsOf(s, a) \cup {e}) = Cardinality(BurnsOf(s, a)) + 1
    BY <2>5, <2>8, FS_AddElement, FS_CardinalityType
  <2>10. ASSUME NEW c \in Accounts
         PROVE  /\ \A b \in BurnsOf(u, c) : b[2] < u.nonce[c]
                /\ u.burned[c] >= Cardinality(BurnsOf(u, c))
    <3>1. /\ \A b \in BurnsOf(s, c) : b \in Accounts \X Nat /\ b[2] \in Nat
          /\ \A b \in BurnsOf(s, c) : b[2] < s.nonce[c]
          /\ s.burned[c] >= Cardinality(BurnsOf(s, c))
          /\ s.nonce[c] \in Nat /\ s.burned[c] \in Nat
      BY <2>3, <2>7 DEF BurnsPaid
    <3>2. CASE c = a
      <4>1. u.nonce[c] = s.nonce[c] + 1 /\ u.burned[c] = s.burned[c] + x
        BY <1>2, <1>5, <2>1, <2>3, <3>2 DEF x
      <4>2. \A b \in BurnsOf(s, c) : b[2] < u.nonce[c] BY <3>1, <4>1
      <4>3. e[2] < u.nonce[c] BY <1>2, <2>2, <3>1, <3>2, <4>1
      <4>4. u.burned[c] >= Cardinality(BurnsOf(u, c))
        BY <2>1, <2>6, <2>9, <3>1, <3>2, <4>1
      <4> QED BY <2>6, <3>2, <4>2, <4>3, <4>4
    <3>3. CASE c # a
      <4>1. u.nonce[c] = s.nonce[c] /\ u.burned[c] = s.burned[c]
        BY <1>2, <1>5, <2>1, <2>3, <3>3
      <4> QED BY <2>6, <3>1, <3>3, <4>1
    <3> QED BY <3>2, <3>3
  <2> QED BY <2>4, <2>10 DEF BurnsPaid, u
<1> QED BY <1>3, <1>4, <1>5

-----------------------------------------------------------------------------
(* The election                                                            *)

Acc(s) == PrefixSums(Weight(s), NAccounts)

\* The accumulated stakes grow by the stake of each active validator.
LEMMA AccGrows ==
  ASSUME NEW s \in State
  PROVE  /\ Acc(s)[0] = 0 /\ TotalActiveStake(s) = Acc(s)[NAccounts]
         /\ \A a \in Accounts : Acc(s)[a] = Acc(s)[a-1] + Weight(s)[a]
         /\ \A j \in 0..NAccounts : /\ Acc(s)[j] \in Nat
                                    /\ \A i \in 0..j : Acc(s)[i] <= Acc(s)[j]
<1>1. NAccounts \in Nat /\ Accounts = 1..NAccounts BY AccountsAreInterval
<1>2. Weight(s) \in [1..NAccounts -> Nat] BY <1>1, StateFields DEF Weight
<1>3. Weight(s) \in [1..NAccounts -> Int] BY <1>2
<1>4. SumsOf(Acc(s), Weight(s), NAccounts) BY <1>1, <1>3, PrefixSumsAreSums DEF Acc
<1>5. \A j \in 0..NAccounts : /\ Acc(s)[j] \in Nat
                             /\ \A i \in 0..j : Acc(s)[i] <= Acc(s)[j]
  BY <1>1, <1>2, SumsMonotone DEF Acc
<1>6. TotalActiveStake(s) = Acc(s)[NAccounts] BY DEF TotalActiveStake, Total, Acc
<1> QED BY <1>1, <1>4, <1>5, <1>6 DEF SumsOf

\* A draw picks the active validator whose share of the stake it falls into.
LEMMA WeightedPicks ==
  ASSUME NEW s \in State, TotalActiveStake(s) > 0, NEW draw \in Nat
  PROVE  LET v == WeightedPick(s, draw)
             r == draw % TotalActiveStake(s)
         IN  v \in ActiveValidators(s) /\ Acc(s)[v-1] <= r /\ r < Acc(s)[v]
<1> DEFINE r == draw % TotalActiveStake(s)
           acc == Acc(s)
           n == NAccounts
           Picked(v) == r < acc[v] /\ \A u \in ActiveValidators(s) : u < v => r >= acc[u]
           Above == {i \in 0..n : r < acc[i]}
<1>1. n \in Nat /\ Accounts = 1..n BY AccountsAreInterval
<1>2. /\ acc[0] = 0 /\ TotalActiveStake(s) = acc[n]
      /\ \A a \in 1..n : acc[a] = acc[a-1] + Weight(s)[a]
      /\ \A j \in 0..n : acc[j] \in Nat /\ \A i \in 0..j : acc[i] <= acc[j]
  BY <1>1, AccGrows
<1>3. TotalActiveStake(s) \in Nat BY <1>1, <1>2
<1>4. r \in Nat /\ r < TotalActiveStake(s)
  <2> DEFINE total == TotalActiveStake(s)
  <2>1. total \in Nat /\ total > 0 BY <1>3
  <2> HIDE DEF total
  <2> QED BY <2>1 DEF total
<1>5. WeightedPick(s, draw) = CHOOSE v \in ActiveValidators(s) : Picked(v)
  BY DEF WeightedPick, Acc
<1> HIDE DEF r, acc, n
<1>6. PICK m \in Above : \A k \in Above : m <= k
  <2>1. n \in Above BY <1>1, <1>2, <1>4
  <2>2. Above \in SUBSET Nat BY <1>1
  <2> HIDE DEF Above
  <2> QED BY <2>1, <2>2, LeastNat
<1>7. m # 0 BY <1>2, <1>4, <1>6
<1>8. m \in 1..n /\ m - 1 \in 0..n /\ ~(r < acc[m-1])
  <2>1. m \in 1..n /\ m - 1 \in 0..n /\ ~(m <= m - 1) BY <1>1, <1>6, <1>7
  <2> QED BY <1>6, <2>1
<1>9. m \in ActiveValidators(s)
  <2>1. acc[m-1] \in Nat /\ acc[m] \in Nat /\ r < acc[m] BY <1>2, <1>6, <1>8
  <2>2. Weight(s)[m] # 0 BY <1>2, <1>4, <1>8, <2>1
  <2> QED BY <1>1, <1>8, <2>2 DEF Weight, ActiveValidators
<1>10. Picked(m)
  <2>1. ASSUME NEW u \in ActiveValidators(s), u < m PROVE r >= acc[u]
    <3>1. u \in 0..n /\ ~(m <= u) BY <1>1, <1>8, <2>1 DEF ActiveValidators
    <3>2. ~(r < acc[u]) /\ acc[u] \in Nat BY <1>2, <1>6, <3>1
    <3> QED BY <1>4, <3>2
  <2> QED BY <1>6, <2>1
<1> DEFINE v == WeightedPick(s, draw)
<1>11. v \in ActiveValidators(s) /\ Picked(v) BY <1>5, <1>9, <1>10
<1> HIDE DEF v
<1>12. v = m
  <2>1. v \in 1..n /\ v \in Above BY <1>1, <1>11 DEF ActiveValidators
  <2>2. m <= v BY <1>6, <2>1
  <2>3. ASSUME m < v PROVE FALSE
    <3>1. r >= acc[m] BY <1>9, <1>11, <2>3
    <3>2. r < acc[m] /\ acc[m] \in Nat BY <1>2, <1>6
    <3> QED BY <1>4, <3>1, <3>2
  <2> QED BY <1>8, <2>1, <2>2, <2>3
<1>13. acc[m-1] <= r BY <1>2, <1>4, <1>8
<1> QED BY <1>6, <1>9, <1>12, <1>13 DEF v, acc, r

\* The validators of a state are finitely many.
LEMMA ActiveFinite ==
  ASSUME NEW s
  PROVE  /\ ActiveValidators(s) \subseteq 1..NAccounts
         /\ IsFiniteSet(ActiveValidators(s))
         /\ Cardinality(ActiveValidators(s)) \in Nat
<1>1. ActiveValidators(s) \subseteq 1..NAccounts BY DEF ActiveValidators, Accounts
<1>2. IsFiniteSet(1..NAccounts) BY AccountsAreInterval, FS_Interval
<1>3. IsFiniteSet(ActiveValidators(s)) BY <1>1, <1>2, FS_Subset
<1> QED BY <1>1, <1>3, FS_CardinalityType

\* Round robin finds a validator of every rank.
LEMMA RoundRobinPicks ==
  ASSUME NEW s, ActiveValidators(s) # {}, NEW draw \in Nat
  PROVE  RoundRobin(s, draw) \in ActiveValidators(s)
<1> DEFINE vals == ActiveValidators(s)
           n == NAccounts
           k == draw % Cardinality(vals)
           Below(v) == {u \in vals : u < v}
           C == [w \in 1..(n + 1) |-> Cardinality(Below(w))]
           Past == {w \in 1..(n + 1) : C[w] > k}
<1>1. n \in Nat BY AccountsAreInterval
<1>2. vals \subseteq 1..n /\ IsFiniteSet(vals) /\ Cardinality(vals) \in Nat BY ActiveFinite
<1>3. k \in Nat /\ k < Cardinality(vals)
  <2> DEFINE m == Cardinality(vals)
  <2>1. m \in Nat /\ m > 0 BY <1>2, FS_EmptySet
  <2> HIDE DEF m
  <2> QED BY <2>1 DEF m
<1>4. RoundRobin(s, draw) = CHOOSE v \in vals : Cardinality(Below(v)) = k
  BY DEF RoundRobin
<1> HIDE DEF vals, n, k
<1>5. \A v : IsFiniteSet(Below(v)) /\ Cardinality(Below(v)) \in Nat
  <2> SUFFICES ASSUME NEW v PROVE IsFiniteSet(Below(v)) /\ Cardinality(Below(v)) \in Nat
    OBVIOUS
  <2>1. Below(v) \in SUBSET vals OBVIOUS
  <2> HIDE DEF Below
  <2> QED BY <1>2, <2>1, FS_Subset, FS_CardinalityType
<1>6. /\ Below(n + 1) = vals /\ Below(1) = {}
      /\ \A v \in 1..n : /\ Below(v + 1) = IF v \in vals THEN Below(v) \cup {v} ELSE Below(v)
                        /\ v \notin Below(v)
  <2>1. Below(n + 1) = vals
    <3>1. \A u \in vals : u < n + 1 BY <1>1, <1>2
    <3> QED BY <3>1
  <2>2. Below(1) = {}
    <3>1. \A u \in vals : ~(u < 1) BY <1>1, <1>2
    <3> QED BY <3>1
  <2>3. ASSUME NEW v \in 1..n
        PROVE  /\ Below(v + 1) = IF v \in vals THEN Below(v) \cup {v} ELSE Below(v)
               /\ v \notin Below(v)
    <3>1. \A u \in vals : u < v + 1 <=> u < v \/ u = v BY <1>1, <1>2
    <3> QED BY <3>1
  <2> QED BY <2>1, <2>2, <2>3
<1> HIDE DEF Below
<1>61. \A w \in 1..(n + 1) : C[w] = Cardinality(Below(w)) OBVIOUS
<1> HIDE DEF C
<1>7. PICK w \in Past : \A x \in Past : w <= x
  <2>1. n + 1 \in Past
    <3>1. n + 1 \in 1..(n + 1) BY <1>1
    <3> QED BY <1>3, <1>6, <1>61, <3>1
  <2>2. Past \in SUBSET Nat BY <1>1
  <2> HIDE DEF Past
  <2> QED BY <2>1, <2>2, LeastNat
<1>8. w # 1
  <2>1. Cardinality(Below(1)) = 0 BY <1>6, FS_EmptySet
  <2> QED BY <1>3, <1>7, <1>61, <2>1
<1> DEFINE v == w - 1
<1>9. v \in 1..n /\ v \in 1..(n + 1) /\ w = v + 1 /\ ~(w <= v) BY <1>1, <1>7, <1>8
<1>10. Cardinality(Below(v)) <= k
  <2>1. v \notin Past BY <1>7, <1>9
  <2>2. ~(Cardinality(Below(v)) > k) BY <1>9, <1>61, <2>1
  <2> QED BY <1>3, <1>5, <2>2
<1>11. Cardinality(Below(w)) > k BY <1>7, <1>61
<1> HIDE DEF v
<1>12. /\ Below(w) = IF v \in vals THEN Below(v) \cup {v} ELSE Below(v)
       /\ v \notin Below(v)
  BY <1>6, <1>9
<1>13. v \in vals BY <1>3, <1>5, <1>10, <1>11, <1>12
<1>14. Cardinality(Below(w)) = Cardinality(Below(v)) + 1
  BY <1>5, <1>12, <1>13, FS_AddElement
<1>15. Cardinality(Below(v)) = k BY <1>3, <1>5, <1>10, <1>11, <1>14
<1>16. RoundRobin(s, draw) \in vals BY <1>4, <1>13, <1>15
<1> QED BY <1>16 DEF vals

\* Somebody is elected as long as there is a validator.
LEMMA NobodyElected ==
  ASSUME NEW s \in State, NEW draw \in Nat, SelectProposer(s, draw) = Nobody
  PROVE  ActiveValidators(s) = {}
<1> SUFFICES ASSUME ActiveValidators(s) # {} PROVE SelectProposer(s, draw) \in ActiveValidators(s)
  <2>1. Nobody \notin ActiveValidators(s) BY AccountsAreInterval DEF ActiveValidators, Nobody
  <2> QED BY <2>1
<1>1. CASE TotalActiveStake(s) = 0
  <2>1. SelectProposer(s, draw) = RoundRobin(s, draw) BY <1>1 DEF SelectProposer
  <2> QED BY <2>1, RoundRobinPicks
<1>2. CASE TotalActiveStake(s) # 0
  <2>1. SelectProposer(s, draw) = WeightedPick(s, draw) BY <1>2 DEF SelectProposer
  <2>2. NAccounts \in 0..NAccounts BY AccountsAreInterval
  <2>3. TotalActiveStake(s) > 0 BY <1>2, <2>2, AccGrows
  <2> QED BY <2>1, <2>3, WeightedPicks
<1> QED BY <1>1, <1>2

\* The draws that pick an account are as many as its active stake.
LEMMA DrawsOf ==
  ASSUME NEW s \in State, TotalActiveStake(s) > 0, NEW a \in Accounts
  PROVE  Cardinality({d \in 0..TotalActiveStake(s)-1 : SelectProposer(s, d) = a})
           = Weight(s)[a]
<1> DEFINE total == TotalActiveStake(s)
           acc == Acc(s)
           draws == {d \in 0..total-1 : SelectProposer(s, d) = a}
<1>1. NAccounts \in Nat /\ Accounts = 1..NAccounts BY AccountsAreInterval
<1>2. /\ total = acc[NAccounts]
      /\ acc[a] = acc[a-1] + Weight(s)[a]
      /\ \A j \in 0..NAccounts : acc[j] \in Nat /\ \A i \in 0..j : acc[i] <= acc[j]
  BY AccGrows
<1>3. a \in Nat /\ a \in 0..NAccounts /\ a - 1 \in 0..NAccounts BY <1>1
<1>4. total \in Nat /\ total > 0 /\ acc[a] \in Nat /\ acc[a-1] \in Nat /\ acc[a] <= total
  <2>1. NAccounts \in 0..NAccounts /\ a \in 0..NAccounts BY <1>1
  <2> QED BY <1>2, <1>3, <2>1
<1>5. \A d \in 0..total-1 : d % total = d
  <2> HIDE DEF total
  <2> QED BY <1>4
<1>6. \A d \in 0..total-1 :
        LET v == SelectProposer(s, d) IN v \in Accounts /\ acc[v-1] <= d /\ d < acc[v]
  <2> SUFFICES ASSUME NEW d \in 0..total-1
               PROVE  LET v == SelectProposer(s, d)
                      IN v \in Accounts /\ acc[v-1] <= d /\ d < acc[v]
    OBVIOUS
  <2>1. d \in Nat BY <1>4
  <2>2. LET v == WeightedPick(s, d)
        IN  v \in ActiveValidators(s) /\ acc[v-1] <= d /\ d < acc[v]
    BY <1>5, <2>1, WeightedPicks
  <2>3. ActiveValidators(s) # {} BY <2>2
  <2>4. SelectProposer(s, d) = WeightedPick(s, d) BY <2>3 DEF SelectProposer
  <2> QED BY <2>2, <2>4 DEF ActiveValidators
<1> HIDE DEF acc, total
<1>7. ASSUME NEW d \in 0..total-1, acc[a-1] <= d, d < acc[a]
      PROVE  SelectProposer(s, d) = a
  <2> DEFINE v == SelectProposer(s, d)
  <2>1. v \in Accounts /\ acc[v-1] <= d /\ d < acc[v] BY <1>6
  <2> HIDE DEF v
  <2>2. v \in 0..NAccounts /\ v - 1 \in 0..NAccounts /\ v \in Nat BY <1>1, <2>1
  <2>3. acc[v] \in Nat /\ acc[v-1] \in Nat BY <1>2, <2>2
  <2>4. CASE v < a
    <3>1. v \in 0..(a - 1) BY <1>3, <2>2, <2>4
    <3>2. acc[v] <= acc[a-1] BY <1>2, <1>3, <3>1
    <3> QED BY <1>4, <1>7, <2>1, <2>3, <3>2
  <2>5. CASE a < v
    <3>1. a \in 0..(v - 1) BY <1>3, <2>2, <2>5
    <3>2. acc[a] <= acc[v-1] BY <1>2, <2>2, <3>1
    <3> QED BY <1>4, <1>7, <2>1, <2>3, <3>2
  <2>6. CASE v = a BY <2>6 DEF v
  <2> QED BY <1>3, <2>2, <2>4, <2>5, <2>6
<1>8. draws = acc[a-1]..(acc[a]-1)
  <2>1. ASSUME NEW d \in draws PROVE d \in acc[a-1]..(acc[a]-1)
    <3>1. d \in 0..total-1 /\ SelectProposer(s, d) = a OBVIOUS
    <3>2. acc[a-1] <= d /\ d < acc[a] BY <1>6, <3>1
    <3> QED BY <1>4, <3>1, <3>2
  <2>2. ASSUME NEW d \in acc[a-1]..(acc[a]-1) PROVE d \in draws
    <3>1. d \in 0..total-1 /\ acc[a-1] <= d /\ d < acc[a] BY <1>4
    <3> QED BY <1>7, <3>1
  <2> QED BY <2>1, <2>2
<1> HIDE DEF draws
<1>9. Weight(s)[a] \in Nat BY StateFields DEF Weight
<1>10. Cardinality(draws) = Weight(s)[a]
  <2>1. acc[a-1] \in Int /\ acc[a] - 1 \in Int BY <1>4
  <2>2. Cardinality(acc[a-1]..(acc[a]-1))
          = IF acc[a-1] > acc[a]-1 THEN 0 ELSE acc[a]-1 - acc[a-1] + 1
    BY <2>1, FS_Interval
  <2> QED BY <1>2, <1>4, <1>8, <1>9, <2>2
<1> QED BY <1>10 DEF draws, total

-----------------------------------------------------------------------------
(* The recursive functions                                                 *)

\* States applies one transaction after another.
LEMMA StatesUnfold ==
  ASSUME NEW s, NEW txs, Len(txs) \in Nat, NEW h
  PROVE  /\ States(s, txs, h)[0] = s
         /\ \A i \in 1..Len(txs) :
              States(s, txs, h)[i] = ApplyTx(States(s, txs, h)[i-1], txs[i], h)
<1> DEFINE n == Len(txs)
           Rec(g, m) == g = [i \in 0..m |-> IF i = 0 THEN s ELSE ApplyTx(g[i-1], txs[i], h)]
           Bad == {m \in 0..n : ~\E g : Rec(g, m)}
<1>1. ASSUME Bad # {} PROVE FALSE
  <2>1. PICK m \in Bad : \A k \in Bad : m <= k
    <3>1. Bad \in SUBSET Nat OBVIOUS
    <3> HIDE DEF Bad
    <3> QED BY <1>1, <3>1, LeastNat
  <2>2. m # 0
    <3>1. Rec([i \in 0..0 |-> s], 0) OBVIOUS
    <3> QED BY <3>1
  <2>3. m - 1 \in 0..n /\ m - 1 \notin Bad /\ m \in 1..n BY <2>1, <2>2
  <2>4. PICK g : Rec(g, m - 1) BY <2>3
  <2> DEFINE f == [i \in 0..m |-> IF i = m THEN ApplyTx(g[m-1], txs[m], h) ELSE g[i]]
  <2>5. ASSUME NEW i \in 0..m
        PROVE  f[i] = IF i = 0 THEN s ELSE ApplyTx(f[i-1], txs[i], h)
    <3>1. CASE i = 0 BY <2>2, <2>4, <3>1, <2>3
    <3>2. CASE i = m
      <4>1. f[m-1] = g[m-1] /\ f[m] = ApplyTx(g[m-1], txs[m], h) BY <2>3
      <4> QED BY <2>2, <3>2, <4>1
    <3>3. CASE i # 0 /\ i # m
      <4>1. i \in 0..m-1 /\ i - 1 \in 0..m /\ i - 1 # m BY <2>3, <3>3
      <4>2. f[i-1] = g[i-1] /\ f[i] = g[i] BY <3>3, <4>1
      <4>3. g[i] = ApplyTx(g[i-1], txs[i], h) BY <2>4, <3>3, <4>1
      <4> QED BY <3>3, <4>2, <4>3
    <3> QED BY <3>1, <3>2, <3>3
  <2>6. Rec(f, m) BY <2>5
  <2> QED BY <2>1, <2>6
<1>2. \E g : Rec(g, n) BY <1>1
<1>3. States(s, txs, h) = CHOOSE g : Rec(g, n) BY DEF States
<1> DEFINE A == States(s, txs, h)
<1>4. Rec(A, n) BY <1>2, <1>3
<1> HIDE DEF A
<1>5. A[0] = s BY <1>4
<1>6. \A i \in 1..n : A[i] = ApplyTx(A[i-1], txs[i], h) BY <1>4
<1> QED BY <1>5, <1>6 DEF A

\* A holds the state after each block of c.
StatesAlong(A, c) ==
  /\ A[0] = NewState
  /\ \A h \in 1..Len(c) : A[h] = ApplyBlock(A[h-1], c[h], h)

LEMMA ReplayAlong ==
  ASSUME NEW c, Len(c) \in Nat
  PROVE  \E A : StatesAlong(A, c) /\ Replay(c) = A[Len(c)]
<1> DEFINE n == Len(c)
           Rec(g, m) == g = [h \in 0..m |-> IF h = 0 THEN NewState
                                            ELSE ApplyBlock(g[h-1], c[h], h)]
           Bad == {m \in 0..n : ~\E g : Rec(g, m)}
<1>1. ASSUME Bad # {} PROVE FALSE
  <2>1. PICK m \in Bad : \A k \in Bad : m <= k
    <3>1. Bad \in SUBSET Nat OBVIOUS
    <3> HIDE DEF Bad
    <3> QED BY <1>1, <3>1, LeastNat
  <2>2. m # 0
    <3>1. Rec([h \in 0..0 |-> NewState], 0) OBVIOUS
    <3> QED BY <3>1
  <2>3. m - 1 \in 0..n /\ m - 1 \notin Bad /\ m \in 1..n BY <2>1, <2>2
  <2>4. PICK g : Rec(g, m - 1) BY <2>3
  <2> DEFINE f == [h \in 0..m |-> IF h = m THEN ApplyBlock(g[m-1], c[m], m) ELSE g[h]]
  <2>5. ASSUME NEW h \in 0..m
        PROVE  f[h] = IF h = 0 THEN NewState ELSE ApplyBlock(f[h-1], c[h], h)
    <3>1. CASE h = 0 BY <2>2, <2>4, <3>1, <2>3
    <3>2. CASE h = m
      <4>1. f[m-1] = g[m-1] /\ f[m] = ApplyBlock(g[m-1], c[m], m) BY <2>3
      <4> QED BY <2>2, <3>2, <4>1
    <3>3. CASE h # 0 /\ h # m
      <4>1. h \in 0..m-1 /\ h - 1 \in 0..m /\ h - 1 # m BY <2>3, <3>3
      <4>2. f[h-1] = g[h-1] /\ f[h] = g[h] BY <3>3, <4>1
      <4>3. g[h] = ApplyBlock(g[h-1], c[h], h) BY <2>4, <3>3, <4>1
      <4> QED BY <3>3, <4>2, <4>3
    <3> QED BY <3>1, <3>2, <3>3
  <2>6. Rec(f, m) BY <2>5
  <2> QED BY <2>1, <2>6
<1>2. \E g : Rec(g, n) BY <1>1
<1> DEFINE A == CHOOSE g : Rec(g, n)
<1>3. Replay(c) = A[Len(c)] BY DEF Replay
<1>4. Rec(A, n) BY <1>2
<1> HIDE DEF A
<1>5. A[0] = NewState /\ \A h \in 1..n : A[h] = ApplyBlock(A[h-1], c[h], h) BY <1>4
<1>6. StatesAlong(A, c) BY <1>5 DEF StatesAlong
<1> QED BY <1>3, <1>6

\* Chains that begin alike have the same states along the beginning.
LEMMA StatesAgree ==
  ASSUME NEW A, NEW B, NEW c, NEW d, NEW n \in Nat,
         n <= Len(c), n <= Len(d), Len(c) \in Nat, Len(d) \in Nat,
         \A h \in 1..n : c[h] = d[h],
         StatesAlong(A, c), StatesAlong(B, d)
  PROVE  A[n] = B[n]
<1> DEFINE Bad == {m \in 0..n : A[m] # B[m]}
<1>1. ASSUME Bad # {} PROVE FALSE
  <2>1. PICK m \in Bad : \A k \in Bad : m <= k
    <3>1. Bad \in SUBSET Nat OBVIOUS
    <3> HIDE DEF Bad
    <3> QED BY <1>1, <3>1, LeastNat
  <2>2. m # 0 BY <2>1 DEF StatesAlong
  <2>3. m - 1 \in 0..n /\ m - 1 \notin Bad /\ m \in 1..n BY <2>1, <2>2
  <2>4. A[m-1] = B[m-1] /\ c[m] = d[m] BY <2>3
  <2>5. m \in 1..Len(c) /\ m \in 1..Len(d) BY <2>3
  <2>6. A[m] = ApplyBlock(A[m-1], c[m], m) /\ B[m] = ApplyBlock(B[m-1], d[m], m)
    BY <2>5 DEF StatesAlong
  <2> QED BY <2>1, <2>4, <2>6
<1> QED BY <1>1

\* Replay takes the chain one block at a time.
LEMMA ReplayGenesis == Replay(Genesis) = NewState
<1>1. Len(Genesis) = 0 BY EmptyIs DEF Genesis
<1>2. PICK A : StatesAlong(A, Genesis) /\ Replay(Genesis) = A[Len(Genesis)]
  BY <1>1, ReplayAlong
<1> QED BY <1>1, <1>2 DEF StatesAlong

LEMMA ReplayAppended ==
  ASSUME NEW c, IsSeq(c), NEW b
  PROVE  Replay(Append(c, b)) = ApplyBlock(Replay(c), b, Len(c) + 1)
<1> DEFINE d == Append(c, b)
<1>1. /\ IsSeq(d) /\ Len(c) \in Nat /\ Len(d) = Len(c) + 1
      /\ \A i \in 1..Len(c) : d[i] = c[i]
      /\ d[Len(c) + 1] = b
  BY Appended
<1> HIDE DEF d
<1>2. PICK A : StatesAlong(A, c) /\ Replay(c) = A[Len(c)] BY <1>1, ReplayAlong
<1>3. Len(d) \in Nat BY <1>1
<1>4. PICK B : StatesAlong(B, d) /\ Replay(d) = B[Len(d)] BY <1>3, ReplayAlong
<1>5. A[Len(c)] = B[Len(c)]
  <2>1. Len(c) <= Len(c) /\ Len(c) <= Len(d) /\ \A h \in 1..Len(c) : c[h] = d[h] BY <1>1
  <2> QED BY <1>1, <1>2, <1>3, <1>4, <2>1, StatesAgree
<1>6. B[Len(d)] = ApplyBlock(B[Len(c)], b, Len(c) + 1)
  <2>1. Len(c) + 1 \in 1..Len(d) /\ Len(c) + 1 - 1 = Len(c) BY <1>1
  <2>2. B[Len(c) + 1] = ApplyBlock(B[Len(c) + 1 - 1], d[Len(c) + 1], Len(c) + 1)
    BY <1>4, <2>1 DEF StatesAlong
  <2> QED BY <1>1, <2>1, <2>2
<1> QED BY <1>2, <1>4, <1>5, <1>6 DEF d
-----------------------------------------------------------------------------
(* What blocks do                                                          *)

\* The transactions of a block, and the block, have their types.
TypedTxs(txs) == IsSeq(txs) /\ \A i \in 1..Len(txs) : txs[i] \in Txs \cup Coinbase
TypedBlock(b) == b.proposer \in Accounts /\ b.slot \in Nat /\ TypedTxs(b.txs)

LEMMA SoundReflexive ==
  ASSUME NEW s \in State
  PROVE  Sound(s, s)
BY StateFields DEF Sound, CostsItsSigner

LEMMA SoundChain ==
  ASSUME NEW r \in State, NEW s, NEW u, Sound(r, s), Sound(s, u)
  PROVE  Sound(r, u)
BY SoundTransitive DEF Sound

\* Every state inside a block is sound, and nonces only grow.
LEMMA StatesSound ==
  ASSUME NEW s \in State, NEW txs, TypedTxs(txs), NEW h \in Nat, AllApply(s, txs, h)
  PROVE  \A j \in 0..Len(txs) : \A i \in 0..j :
           Sound(States(s, txs, h)[i], States(s, txs, h)[j])
<1> DEFINE A == States(s, txs, h)
           n == Len(txs)
           Good(j) == \A i \in 0..j : Sound(A[i], A[j])
           Bad == {j \in 0..n : ~Good(j)}
<1>1. n \in Nat BY DEF TypedTxs, IsSeq
<1>2. A[0] = s /\ \A i \in 1..n : A[i] = ApplyTx(A[i-1], txs[i], h)
  BY <1>1, StatesUnfold
<1>3. \A i \in 1..n : CanApply(A[i-1], txs[i], h) BY DEF AllApply
<1>4. \A i \in 1..n : txs[i] \in Txs \cup Coinbase BY DEF TypedTxs
<1> HIDE DEF A, n
<1>5. ASSUME Bad # {} PROVE FALSE
  <2>1. PICK m \in Bad : \A k \in Bad : m <= k
    <3>1. Bad \in SUBSET Nat BY <1>1
    <3> HIDE DEF Bad
    <3> QED BY <1>5, <3>1, LeastNat
  <2>2. m \in 0..n /\ ~Good(m) OBVIOUS
  <2>3. m # 0
    <3>1. Good(0) BY <1>2, SoundReflexive
    <3> QED BY <2>2, <3>1
  <2>4. m - 1 \in 0..n /\ m - 1 \notin Bad /\ m \in 1..n BY <1>1, <2>1, <2>2, <2>3
  <2>5. Good(m - 1) BY <2>4
  <2>6. A[m-1] \in State
    <3>1. m - 1 \in 0..(m - 1) BY <2>4, <1>1
    <3> QED BY <2>5, <3>1 DEF Sound
  <2>7. Sound(A[m-1], A[m])
    BY <1>2, <1>3, <1>4, <2>4, <2>6, TxSound
  <2>8. ASSUME NEW i \in 0..m PROVE Sound(A[i], A[m])
    <3>1. CASE i = m BY <2>7, <3>1, SoundReflexive DEF Sound
    <3>2. CASE i # m
      <4>1. i \in 0..(m - 1) BY <1>1, <2>4, <3>2
      <4>2. Sound(A[i], A[m-1]) BY <2>5, <4>1
      <4>3. A[i] \in State
        <5>1. Good(i)
          <6>1. i \in 0..n /\ ~(m <= i) BY <1>1, <2>4, <4>1
          <6> QED BY <2>1, <6>1
        <5>2. i \in 0..i BY <4>1
        <5> QED BY <5>1, <5>2 DEF Sound
      <4> QED BY <2>7, <4>2, <4>3, SoundChain
    <3> QED BY <3>1, <3>2
  <2> QED BY <2>2, <2>8
<1>6. \A j \in 0..n : Good(j) BY <1>5
<1> QED BY <1>6 DEF A, n

\* Applying a block that applies is one sound step.
LEMMA BlockSound ==
  ASSUME NEW s \in State, s.fees = 0, NEW b, TypedBlock(b), NEW h \in Nat,
         BlockApplies(s, b, h)
  PROVE  /\ Sound(s, ApplyBlock(s, b, h))
         /\ ApplyBlock(s, b, h).fees = 0
         /\ ApplyBlock(s, b, h).height = h
<1> DEFINE o == OpenBlock(s)
           A == States(o, b.txs, h)
           n == Len(b.txs)
<1>1. Sound(s, o) /\ o \in State BY OpenSound DEF Sound
<1>2. n \in Nat /\ TypedTxs(b.txs) BY DEF TypedBlock, TypedTxs, IsSeq
<1>3. AllApply(o, b.txs, h) BY DEF BlockApplies
<1>4. A[0] = o BY <1>2, StatesUnfold
<1>5. Sound(A[0], A[n])
  <2>1. n \in 0..n /\ 0 \in 0..n BY <1>2
  <2> HIDE DEF o, n
  <2> QED BY <1>1, <1>2, <1>3, <2>1, StatesSound DEF n
<1>6. b.proposer \in Accounts BY DEF TypedBlock
<1>7. ApplyBlock(s, b, h) = CloseBlock(A[n], b.proposer, h) BY DEF ApplyBlock
<1> HIDE DEF A, o, n
<1>8. A[n] \in State BY <1>5 DEF Sound
<1>9. Sound(A[n], CloseBlock(A[n], b.proposer, h)) /\ CloseBlock(A[n], b.proposer, h).fees = 0
  BY <1>6, <1>8, CloseSound
<1>10. CloseBlock(A[n], b.proposer, h).height = h BY <1>8 DEF CloseBlock, State
<1>11. Sound(s, A[n]) BY <1>1, <1>4, <1>5, SoundChain
<1> QED BY <1>7, <1>9, <1>10, <1>11, SoundChain
-----------------------------------------------------------------------------
(* Chains                                                                  *)

\* A chain OpenEngine can replay, of blocks of the right types.
Lawful(c) ==
  /\ IsSeq(c)
  /\ \A h \in 1..Len(c) : TypedBlock(c[h])
  /\ Replays(c)

\* The state after the first k blocks of c.
After(c, k) == Replay(SubSeq(c, 1, k))

LEMMA LawfulGenesis == Lawful(Genesis)
BY EmptyIs DEF Lawful, Replays, Genesis

LEMMA LawfulBeginning ==
  ASSUME NEW c, Lawful(c), NEW k \in 0..Len(c)
  PROVE  Lawful(SubSeq(c, 1, k))
<1> DEFINE d == SubSeq(c, 1, k)
<1>1. IsSeq(c) /\ Len(c) \in Nat BY DEF Lawful, IsSeq
<1>2. /\ IsSeq(d) /\ Len(d) = k
      /\ \A i \in 1..k : d[i] = c[i]
      /\ \A j \in 0..k : SubSeq(d, 1, j) = SubSeq(c, 1, j)
  BY <1>1, Beginning
<1> HIDE DEF d
<1>3. ASSUME NEW h \in 1..Len(d)
      PROVE  TypedBlock(d[h]) /\ BlockApplies(Replay(SubSeq(d, 1, h - 1)), d[h], h)
  <2>1. h \in 1..Len(c) /\ h \in 1..k /\ h - 1 \in 0..k BY <1>1, <1>2
  <2>2. d[h] = c[h] /\ SubSeq(d, 1, h - 1) = SubSeq(c, 1, h - 1) BY <1>2, <2>1
  <2>3. TypedBlock(c[h]) /\ BlockApplies(Replay(SubSeq(c, 1, h - 1)), c[h], h)
    BY <2>1 DEF Lawful, Replays
  <2> QED BY <2>2, <2>3
<1>4. Lawful(d) BY <1>2, <1>3 DEF Lawful, Replays
<1> QED BY <1>4 DEF d

LEMMA LawfulAppended ==
  ASSUME NEW c, Lawful(c), NEW b, TypedBlock(b), BlockApplies(Replay(c), b, Len(c) + 1)
  PROVE  Lawful(Append(c, b))
<1> DEFINE d == Append(c, b)
<1>1. /\ IsSeq(c) /\ IsSeq(d) /\ Len(c) \in Nat /\ Len(d) = Len(c) + 1
      /\ \A i \in 1..Len(c) : d[i] = c[i]
      /\ d[Len(c) + 1] = b
  BY Appended DEF Lawful
<1>2. IsPrefix(c, d) BY <1>1, PrefixFacts
<1> HIDE DEF d
<1>3. SubSeq(d, 1, Len(c)) = c
  <2>1. Len(c) \in 0..Len(d) BY <1>1
  <2>2. /\ IsSeq(SubSeq(d, 1, Len(c))) /\ Len(SubSeq(d, 1, Len(c))) = Len(c)
        /\ \A i \in 1..Len(c) : SubSeq(d, 1, Len(c))[i] = d[i]
    BY <1>1, <2>1, Beginning
  <2>3. \A i \in 1..Len(c) : c[i] = SubSeq(d, 1, Len(c))[i] BY <1>1, <2>2
  <2> QED BY <1>1, <2>2, <2>3, SeqsEqual
<1>4. \A j \in 0..Len(c) : SubSeq(d, 1, j) = SubSeq(c, 1, j)
  <2>1. Len(c) \in 0..Len(d) BY <1>1
  <2>2. \A j \in 0..Len(c) : SubSeq(SubSeq(d, 1, Len(c)), 1, j) = SubSeq(d, 1, j)
    BY <1>1, <2>1, Beginning
  <2> QED BY <1>3, <2>2
<1>5. ASSUME NEW h \in 1..Len(d)
      PROVE  TypedBlock(d[h]) /\ BlockApplies(Replay(SubSeq(d, 1, h - 1)), d[h], h)
  <2>1. CASE h = Len(c) + 1
    <3>1. d[h] = b /\ h - 1 = Len(c) BY <1>1, <2>1
    <3>2. SubSeq(d, 1, h - 1) = c BY <1>3, <3>1
    <3>3. BlockApplies(Replay(c), b, h) BY <2>1
    <3> QED BY <3>1, <3>2, <3>3
  <2>2. CASE h # Len(c) + 1
    <3>1. h \in 1..Len(c) /\ h - 1 \in 0..Len(c) BY <1>1, <2>2
    <3>2. d[h] = c[h] /\ SubSeq(d, 1, h - 1) = SubSeq(c, 1, h - 1) BY <1>1, <1>4, <3>1
    <3>3. TypedBlock(c[h]) /\ BlockApplies(Replay(SubSeq(c, 1, h - 1)), c[h], h)
      BY <3>1 DEF Lawful, Replays
    <3> QED BY <3>2, <3>3
  <2> QED BY <2>1, <2>2
<1>6. Lawful(d) BY <1>1, <1>5 DEF Lawful, Replays
<1> QED BY <1>6 DEF d

\* One block of a chain takes the state of its parent to its own.
LEMMA AfterUnfold ==
  ASSUME NEW c, IsSeq(c), NEW k \in 1..Len(c)
  PROVE  /\ After(c, 0) = NewState
         /\ After(c, k) = ApplyBlock(After(c, k - 1), c[k], k)
         /\ After(c, Len(c)) = Replay(c)
<1>1. Len(c) \in Nat BY DEF IsSeq
<1> DEFINE p == SubSeq(c, 1, k - 1)
           q == SubSeq(c, 1, k)
<1>2. k - 1 \in 0..Len(c) /\ k \in 0..Len(c) /\ 0 \in 0..Len(c) /\ k - 1 + 1 = k BY <1>1
<1>3. IsSeq(p) /\ Len(p) = k - 1 /\ \A i \in 1..k - 1 : p[i] = c[i] BY <1>2, Beginning
<1>4. IsSeq(q) /\ Len(q) = k /\ \A i \in 1..k : q[i] = c[i] BY <1>2, Beginning
<1>5. SubSeq(c, 1, Len(c)) = c BY <1>2, Beginning
<1>6. SubSeq(c, 1, 0) = Genesis
  <2>1. IsSeq(SubSeq(c, 1, 0)) /\ Len(SubSeq(c, 1, 0)) = 0 BY <1>2, Beginning
  <2>2. IsSeq(Genesis) /\ Len(Genesis) = 0 BY EmptyIs DEF Genesis
  <2> QED BY <2>1, <2>2, SeqsEqual
<1> HIDE DEF p, q
<1>7. q = Append(p, c[k])
  <2>1. /\ IsSeq(Append(p, c[k])) /\ Len(Append(p, c[k])) = k
        /\ \A i \in 1..k - 1 : Append(p, c[k])[i] = p[i]
        /\ Append(p, c[k])[k] = c[k]
    <3>1. /\ IsSeq(Append(p, c[k])) /\ Len(Append(p, c[k])) = Len(p) + 1
          /\ \A i \in 1..Len(p) : Append(p, c[k])[i] = p[i]
          /\ Append(p, c[k])[Len(p) + 1] = c[k]
      BY <1>3, Appended
    <3>2. Len(p) + 1 = k BY <1>2, <1>3
    <3> QED BY <1>3, <3>1, <3>2
  <2>2. \A i \in 1..k : q[i] = Append(p, c[k])[i] BY <1>2, <1>3, <1>4, <2>1
  <2> QED BY <1>4, <2>1, <2>2, SeqsEqual
<1>8. Replay(q) = ApplyBlock(Replay(p), c[k], k) BY <1>2, <1>3, <1>7, ReplayAppended
<1> QED BY <1>5, <1>6, <1>8, ReplayGenesis DEF After, p, q

\* The states along a lawful chain are sound, each after the ones before it.
LEMMA LawfulStates ==
  ASSUME NEW c, Lawful(c)
  PROVE  \A k \in 0..Len(c) :
           /\ After(c, k) \in State
           /\ After(c, k).fees = 0 /\ After(c, k).height = k
           /\ Supply(After(c, k)) = GenesisSupply
           /\ \A i \in 0..k : Sound(After(c, i), After(c, k))
<1> DEFINE R(k) == After(c, k)
           n == Len(c)
           Typed(k) == R(k) \in State /\ R(k).fees = 0 /\ R(k).height = k
           Good(k) == /\ Typed(k)
                      /\ Supply(R(k)) = GenesisSupply
                      /\ \A i \in 0..k : Sound(R(i), R(k))
           Bad == {k \in 0..n : ~Good(k)}
<1>1. IsSeq(c) /\ n \in Nat BY DEF Lawful, IsSeq
<1>2. \A k \in 1..n : R(k) = ApplyBlock(R(k - 1), c[k], k)
  BY <1>1, AfterUnfold
<1>3. \A k \in 1..n : TypedBlock(c[k]) /\ BlockApplies(R(k - 1), c[k], k)
  BY DEF Lawful, Replays, After
<1>4. R(0) = NewState
  <2>1. CASE n = 0
    <3>1. 0 \in 0..n BY <1>1
    <3>2. IsSeq(SubSeq(c, 1, 0)) /\ Len(SubSeq(c, 1, 0)) = 0 BY <1>1, <3>1, Beginning
    <3>3. SubSeq(c, 1, 0) = Genesis
      <4>1. IsSeq(Genesis) /\ Len(Genesis) = 0 BY EmptyIs DEF Genesis
      <4> QED BY <3>2, <4>1, SeqsEqual
    <3> QED BY <3>3, ReplayGenesis DEF After
  <2>2. CASE n # 0
    <3>1. 1 \in 1..n BY <1>1, <2>2
    <3> QED BY <1>1, <3>1, AfterUnfold
  <2> QED BY <2>1, <2>2
<1> HIDE DEF R, n
<1>5. Good(0)
  <2>1. NewState.fees = 0 /\ NewState.height = 0 BY DEF NewState
  <2>2. Sound(NewState, NewState) BY NewStateSound, SoundReflexive
  <2> QED BY <1>4, <2>1, <2>2, NewStateSound
<1>6. ASSUME NEW m \in 1..n, \A k \in 0..(m - 1) : Good(k) PROVE Good(m)
  <2>1. m \in Nat /\ m - 1 \in 0..(m - 1) BY <1>1
  <2>2. Good(m - 1) BY <1>6, <2>1
  <2>3. /\ Sound(R(m - 1), R(m)) /\ R(m).fees = 0 /\ R(m).height = m
    BY <1>2, <1>3, <2>1, <2>2, BlockSound
  <2>4. R(m) \in State /\ Supply(R(m)) = GenesisSupply BY <2>2, <2>3 DEF Sound
  <2>5. ASSUME NEW i \in 0..m PROVE Sound(R(i), R(m))
    <3>1. CASE i = m BY <2>4, <3>1, SoundReflexive
    <3>2. CASE i # m
      <4>1. i \in 0..(m - 1) BY <2>1, <3>2
      <4>2. R(i) \in State /\ Sound(R(i), R(m - 1)) BY <1>6, <2>2, <4>1
      <4> QED BY <2>3, <4>2, SoundChain
    <3> QED BY <3>1, <3>2
  <2> QED BY <2>3, <2>4, <2>5
<1>7. ASSUME Bad # {} PROVE FALSE
  <2>1. PICK m \in Bad : \A k \in Bad : m <= k
    <3>1. Bad \in SUBSET Nat BY <1>1
    <3> HIDE DEF Bad
    <3> QED BY <1>7, <3>1, LeastNat
  <2> HIDE DEF Good
  <2>2. m # 0 BY <1>5, <2>1
  <2>3. m \in 1..n BY <1>1, <2>1, <2>2
  <2>4. \A k \in 0..(m - 1) : Good(k)
    <3> SUFFICES ASSUME NEW k \in 0..(m - 1) PROVE Good(k)
      OBVIOUS
    <3>1. k \in 0..n /\ ~(m <= k) BY <1>1, <2>3
    <3> QED BY <2>1, <3>1
  <2> QED BY <1>6, <2>1, <2>3, <2>4
<1> HIDE DEF Good
<1>8. \A k \in 0..n : Good(k) BY <1>7
<1> USE DEF Good
<1> QED BY <1>8 DEF R, n

\* So is the state a lawful chain ends in.
LEMMA LawfulState ==
  ASSUME NEW c, Lawful(c)
  PROVE  /\ Replay(c) \in State
         /\ Replay(c).fees = 0 /\ Replay(c).height = Len(c)
         /\ Supply(Replay(c)) = GenesisSupply
<1>1. IsSeq(c) /\ Len(c) \in Nat BY DEF Lawful, IsSeq
<1>2. Len(c) \in 0..Len(c) BY <1>1
<1>3. After(c, Len(c)) = Replay(c) BY <1>1, <1>2, Beginning DEF After
<1> QED BY <1>2, <1>3, LawfulStates

-----------------------------------------------------------------------------
(* No transaction twice                                                    *)

\* A transaction of a block has its signer's nonce, which grows past it.
LEMMA BlockNonces ==
  ASSUME NEW s \in State, s.fees = 0, NEW b, TypedBlock(b), NEW h \in Nat,
         BlockApplies(s, b, h), NEW i \in 1..Len(b.txs), b.txs[i] \in Txs
  PROVE  LET t == b.txs[i] IN
         /\ t.sender \in Accounts /\ t.nonce \in Nat
         /\ s.nonce[t.sender] <= t.nonce
         /\ t.nonce < ApplyBlock(s, b, h).nonce[t.sender]
         /\ \A j \in 1..Len(b.txs) : b.txs[j] = t => j = i
<1> DEFINE t == b.txs[i]
           a == t.sender
           o == OpenBlock(s)
           A == States(o, b.txs, h)
           n == Len(b.txs)
           N(k) == A[k].nonce[a]
<1>1. t.sender \in Accounts /\ t.nonce \in Nat
  BY DEF Txs, Transfer, Burn, Register, Stake, Unstake, Activate
<1>2. Sound(s, o) /\ o \in State /\ o = s
  BY OpenSound DEF Sound, OpenBlock, State
<1>3. n \in Nat /\ TypedTxs(b.txs) /\ b.proposer \in Accounts
  BY DEF TypedBlock, TypedTxs, IsSeq
<1>4. AllApply(o, b.txs, h) BY DEF BlockApplies
<1>5. A[0] = o /\ \A k \in 1..n : A[k] = ApplyTx(A[k-1], b.txs[k], h)
  BY <1>3, StatesUnfold
<1>6. \A k \in 1..n : CanApply(A[k-1], b.txs[k], h) BY <1>4 DEF AllApply
<1>7. \A k \in 0..n : \A m \in 0..k : Sound(A[m], A[k])
  BY <1>2, <1>3, <1>4, StatesSound
<1>8. ApplyBlock(s, b, h) = CloseBlock(A[n], b.proposer, h) BY DEF ApplyBlock
<1> HIDE DEF A, n, o
<1>9. \A k \in 0..n : A[k] \in State BY <1>3, <1>7 DEF Sound
<1>10. \A k \in 0..n : \A m \in 0..k : N(k) >= N(m)
  BY <1>1, <1>7 DEF Sound, CostsItsSigner
<1>11. ASSUME NEW k \in 1..n, b.txs[k] = t
       PROVE  N(k - 1) = t.nonce /\ N(k) = t.nonce + 1
  <2>1. k - 1 \in 0..n /\ A[k-1] \in State BY <1>3, <1>9
  <2>2. UsesNonce(A[k-1], t, A[k])
    BY <1>5, <1>6, <1>11, <2>1, TxSound
  <2>3. t \notin Coinbase BY TxKinds
  <2>4. t.nonce = A[k-1].nonce[a] /\ A[k].nonce = [A[k-1].nonce EXCEPT ![a] = @ + 1]
    BY <2>2, <2>3 DEF UsesNonce
  <2>5. A[k-1].nonce \in [Accounts -> Nat] BY <2>1, StateFields
  <2> QED BY <1>1, <2>4, <2>5
<1>12. i \in 1..n /\ i - 1 \in 0..n /\ i \in 0..n /\ 0 \in 0..(i - 1) BY <1>3 DEF n
<1>13. s.nonce[a] <= t.nonce
  <2>1. N(i - 1) >= N(0) BY <1>10, <1>12
  <2> QED BY <1>2, <1>5, <1>11, <1>12, <2>1
<1>14. t.nonce < ApplyBlock(s, b, h).nonce[a]
  <2>1. N(n) >= N(i) BY <1>3, <1>10, <1>12
  <2>2. N(n) \in Nat /\ N(i) = t.nonce + 1
    BY <1>1, <1>3, <1>9, <1>11, <1>12, StateFields
  <2>3. ApplyBlock(s, b, h).nonce = A[n].nonce
    BY <1>3, <1>8, <1>9 DEF CloseBlock, State
  <2> QED BY <1>1, <2>1, <2>2, <2>3
<1>15. ASSUME NEW j \in 1..n, b.txs[j] = t PROVE j = i
  <2>1. N(j - 1) = t.nonce /\ N(j) = t.nonce + 1 BY <1>11, <1>15
  <2>2. N(i - 1) = t.nonce /\ N(i) = t.nonce + 1 BY <1>11, <1>12
  <2>3. CASE j < i
    <3>1. i - 1 \in 0..n /\ j \in 0..(i - 1) BY <1>3, <1>12, <2>3
    <3>2. N(i - 1) >= N(j) BY <1>10, <3>1
    <3> QED BY <1>1, <2>1, <2>2, <3>2
  <2>4. CASE i < j
    <3>1. j - 1 \in 0..n /\ i \in 0..(j - 1) BY <1>3, <1>12, <2>4
    <3>2. N(j - 1) >= N(i) BY <1>10, <3>1
    <3> QED BY <1>1, <2>1, <2>2, <3>2
  <2> QED BY <1>3, <1>12, <2>3, <2>4
<1> HIDE DEF t
<1> QED BY <1>1, <1>13, <1>14, <1>15 DEF t, n

\* Along a chain: t, in block h, has a nonce between the signer's before h and after it.
LEMMA ChainNonces ==
  ASSUME NEW c, Lawful(c), NEW h \in 1..Len(c), NEW i \in 1..Len(c[h].txs),
         c[h].txs[i] \in Txs
  PROVE  LET t == c[h].txs[i] IN
         /\ t.sender \in Accounts /\ t.nonce \in Nat
         /\ After(c, h - 1).nonce[t.sender] <= t.nonce
         /\ t.nonce < After(c, h).nonce[t.sender]
         /\ \A j \in 1..Len(c[h].txs) : c[h].txs[j] = t => j = i
<1>1. IsSeq(c) /\ Len(c) \in Nat BY DEF Lawful, IsSeq
<1>2. h \in Nat /\ h - 1 \in 0..Len(c) BY <1>1
<1>3. TypedBlock(c[h]) /\ BlockApplies(After(c, h - 1), c[h], h)
  BY DEF Lawful, Replays, After
<1>4. After(c, h) = ApplyBlock(After(c, h - 1), c[h], h) BY <1>1, AfterUnfold
<1>5. After(c, h - 1) \in State /\ After(c, h - 1).fees = 0 BY <1>2, LawfulStates
<1> QED BY <1>2, <1>3, <1>4, <1>5, BlockNonces

\* Every transaction in a chain has a nonce its signer has used.
LEMMA NoncesSpent ==
  ASSUME NEW c, Lawful(c), NEW h \in 1..Len(c), NEW i \in 1..Len(c[h].txs),
         c[h].txs[i] \in Txs
  PROVE  c[h].txs[i].nonce < Replay(c).nonce[c[h].txs[i].sender]
<1> DEFINE t == c[h].txs[i]
<1>1. IsSeq(c) /\ Len(c) \in Nat BY DEF Lawful, IsSeq
<1>2. h \in 0..Len(c) /\ Len(c) \in 0..Len(c) BY <1>1
<1>3. After(c, Len(c)) = Replay(c) BY <1>1, <1>2, Beginning DEF After
<1>4. Sound(After(c, h), Replay(c)) /\ After(c, h) \in State /\ Replay(c) \in State
  BY <1>2, <1>3, LawfulStates
<1>5. t.sender \in Accounts /\ t.nonce \in Nat /\ t.nonce < After(c, h).nonce[t.sender]
  BY ChainNonces
<1> HIDE DEF t
<1>6. Replay(c).nonce[t.sender] >= After(c, h).nonce[t.sender]
  BY <1>4, <1>5 DEF Sound, CostsItsSigner
<1>7. Replay(c).nonce[t.sender] \in Nat /\ After(c, h).nonce[t.sender] \in Nat
  BY <1>4, <1>5, StateFields
<1>8. t.nonce < Replay(c).nonce[t.sender] BY <1>5, <1>6, <1>7
<1> QED BY <1>8 DEF t

\* No transaction but a coinbase is in a chain twice.
LEMMA LawfulOnce ==
  ASSUME NEW c, Lawful(c), NEW g \in 1..Len(c), NEW h \in 1..Len(c),
         NEW i \in 1..Len(c[g].txs), NEW j \in 1..Len(c[h].txs),
         c[g].txs[i] \in Txs, c[g].txs[i] = c[h].txs[j]
  PROVE  g = h /\ i = j
<1> DEFINE t == c[g].txs[i]
           N(k) == After(c, k).nonce[t.sender]
<1>1. Len(c) \in Nat BY DEF Lawful, IsSeq
<1>2. /\ t.sender \in Accounts /\ t.nonce \in Nat
      /\ N(g - 1) <= t.nonce /\ t.nonce < N(g)
      /\ \A k \in 1..Len(c[g].txs) : c[g].txs[k] = t => k = i
  BY ChainNonces
<1>3. N(h - 1) <= t.nonce /\ t.nonce < N(h)
  <2>1. c[h].txs[j] \in Txs OBVIOUS
  <2> QED BY <2>1, ChainNonces
<1>4. ASSUME NEW k \in 0..Len(c), NEW m \in 0..k PROVE N(m) <= N(k) /\ N(m) \in Nat /\ N(k) \in Nat
  <2>1. Sound(After(c, m), After(c, k)) /\ After(c, k) \in State BY LawfulStates
  <2>2. m \in 0..Len(c) BY <1>1
  <2>3. After(c, m) \in State BY <2>2, LawfulStates
  <2> HIDE DEF t
  <2>4. N(k) >= N(m) BY <1>2, <2>1 DEF Sound, CostsItsSigner
  <2>5. N(k) \in Nat /\ N(m) \in Nat BY <1>2, <2>1, <2>3, StateFields
  <2> QED BY <2>4, <2>5
<1> HIDE DEF t, N
<1>5. CASE g < h
  <2>1. h - 1 \in 0..Len(c) /\ g \in 0..(h - 1) BY <1>1, <1>5
  <2>2. N(g) <= N(h - 1) /\ N(g) \in Nat /\ N(h - 1) \in Nat BY <1>4, <2>1
  <2> QED BY <1>2, <1>3, <2>2
<1>6. CASE h < g
  <2>1. g - 1 \in 0..Len(c) /\ h \in 0..(g - 1) BY <1>1, <1>6
  <2>2. N(h) <= N(g - 1) /\ N(h) \in Nat /\ N(g - 1) \in Nat BY <1>4, <2>1
  <2> QED BY <1>2, <1>3, <2>2
<1>7. CASE g = h BY <1>2, <1>7 DEF t
<1> QED BY <1>1, <1>5, <1>6, <1>7

-----------------------------------------------------------------------------
(* Building                                                                *)

\* Pick takes transactions from the pending ones only.
LEMMA PickFromPending ==
  ASSUME NEW s, NEW S, NEW pending \in Seq(S), NEW h
  PROVE  Pick(s, pending, h) \in Seq(S)
<1> DEFINE n == Len(pending)
           Start == [state |-> s, txs |-> <<>>]
           Taken(acc, t) == IF CanApply(acc.state, t, h)
                            THEN [state |-> ApplyTx(acc.state, t, h), txs |-> Append(acc.txs, t)]
                            ELSE acc
           Rec(g, m) == g = [i \in 0..m |-> IF i = 0 THEN Start ELSE Taken(g[i-1], pending[i])]
           Bad == {m \in 0..n : ~\E g : Rec(g, m)}
<1>0. n \in Nat OBVIOUS
<1> HIDE DEF n, Start, Taken
<1>1. ASSUME Bad # {} PROVE FALSE
  <2>1. PICK m \in Bad : \A k \in Bad : m <= k
    <3>1. Bad \in SUBSET Nat BY <1>0
    <3> HIDE DEF Bad
    <3> QED BY <1>1, <3>1, LeastNat
  <2>2. m # 0
    <3>1. Rec([i \in 0..0 |-> Start], 0) OBVIOUS
    <3> QED BY <3>1
  <2>3. m - 1 \in 0..n /\ m - 1 \notin Bad /\ m \in 1..n BY <1>0, <2>1, <2>2
  <2>4. PICK g : Rec(g, m - 1) BY <2>3
  <2> DEFINE f == [i \in 0..m |-> IF i = m THEN Taken(g[m-1], pending[m]) ELSE g[i]]
  <2>5. ASSUME NEW i \in 0..m
        PROVE  f[i] = IF i = 0 THEN Start ELSE Taken(f[i-1], pending[i])
    <3>1. CASE i = 0 BY <2>2, <2>4, <3>1, <2>3
    <3>2. CASE i = m
      <4>1. f[m-1] = g[m-1] /\ f[m] = Taken(g[m-1], pending[m]) BY <2>3
      <4> QED BY <2>2, <3>2, <4>1
    <3>3. CASE i # 0 /\ i # m
      <4>1. i \in 0..m-1 /\ i - 1 \in 0..m /\ i - 1 # m BY <2>3, <3>3
      <4>2. f[i-1] = g[i-1] /\ f[i] = g[i] BY <3>3, <4>1
      <4>3. g[i] = Taken(g[i-1], pending[i]) BY <2>4, <3>3, <4>1
      <4> QED BY <3>3, <4>2, <4>3
    <3> QED BY <3>1, <3>2, <3>3
  <2>6. Rec(f, m) BY <2>5
  <2> QED BY <2>1, <2>6
<1>2. \E g : Rec(g, n)
  <2>1. n \in 0..n BY <1>0
  <2> QED BY <1>1, <2>1
<1> DEFINE A == CHOOSE g : Rec(g, n)
<1>3. Pick(s, pending, h) = A[n].txs BY DEF Pick, Start, Taken, n
<1>4. Rec(A, n) BY <1>2
<1> HIDE DEF A
<1>5. A[0] = Start /\ \A i \in 1..n : A[i] = Taken(A[i-1], pending[i]) BY <1>0, <1>4
<1> DEFINE Wrong == {i \in 0..n : A[i].txs \notin Seq(S)}
<1>6. ASSUME Wrong # {} PROVE FALSE
  <2>1. PICK m \in Wrong : \A k \in Wrong : m <= k
    <3>1. Wrong \in SUBSET Nat BY <1>0
    <3> HIDE DEF Wrong
    <3> QED BY <1>6, <3>1, LeastNat
  <2>2. m # 0
    <3>1. Start.txs = <<>> /\ <<>> \in Seq(S) BY DEF Start
    <3>2. A[0].txs \in Seq(S) BY <1>5, <3>1
    <3> QED BY <2>1, <3>2
  <2>3. m - 1 \in 0..n /\ m - 1 \notin Wrong /\ m \in 1..n BY <1>0, <2>1, <2>2
  <2>4. A[m-1].txs \in Seq(S) /\ pending[m] \in S BY <2>3 DEF n
  <2>5. Append(A[m-1].txs, pending[m]) \in Seq(S) BY <2>4
  <2>6. A[m].txs \in {A[m-1].txs, Append(A[m-1].txs, pending[m])}
    <3> DEFINE acc == A[m-1]
               t == pending[m]
    <3>1. A[m] = Taken(acc, t) BY <1>5, <2>3
    <3> HIDE DEF acc, t
    <3>2. Taken(acc, t).txs \in {acc.txs, Append(acc.txs, t)} BY DEF Taken
    <3> QED BY <3>1, <3>2 DEF acc, t
  <2> QED BY <2>1, <2>4, <2>5, <2>6
<1>7. A[n].txs \in Seq(S) BY <1>0, <1>6
<1> QED BY <1>3, <1>7

\* A block is built of the proposer's own transactions and pending ones.
LEMMA BodyTyped ==
  ASSUME NEW s \in State, NEW node \in Accounts, NEW h \in Nat, NEW pending \in Seq(Txs)
  PROVE  TypedTxs(Body(s, node, pending, h))
<1> DEFINE T == Txs \cup Coinbase
           cb == CoinbaseTxs(s, node, h)
           act == ActivationTxs(s, node, h)
           own == cb \o act
           rest == Pick(States(s, own, h)[Len(own)], pending, h)
<1>1. cb \in Seq(T)
  <2> DEFINE t == [type |-> "coinbase", sender |-> node, amount |-> CoinbaseAmount(s, h)]
  <2>1. BlockReward(h) \in Nat /\ s.pool \in Nat BY RewardType, StateFields
  <2>2. CoinbaseAmount(s, h) \in Nat BY <2>1 DEF CoinbaseAmount, Smaller
  <2>3. t \in T BY <2>2 DEF Coinbase
  <2> HIDE DEF t, T
  <2>4. <<t>> \in Seq(T) /\ <<>> \in Seq(T) BY <2>3
  <2> QED BY <2>4 DEF CoinbaseTxs, t
<1>2. act \in Seq(T)
  <2> DEFINE t == [type |-> "activate", sender |-> node, nonce |-> s.nonce[node], fee |-> 0]
  <2>1. s.nonce[node] \in Nat BY StateFields
  <2>2. t \in T BY <2>1 DEF Txs, Activate
  <2> HIDE DEF t, T
  <2>3. <<t>> \in Seq(T) /\ <<>> \in Seq(T) BY <2>2
  <2> QED BY <2>3 DEF ActivationTxs, t
<1> HIDE DEF cb, act
<1>3. own \in Seq(T) BY <1>1, <1>2
<1> HIDE DEF own
<1>4. rest \in Seq(T)
  <2>1. pending \in Seq(T) OBVIOUS
  <2> HIDE DEF T
  <2> QED BY <2>1, PickFromPending
<1> HIDE DEF rest, T
<1>5. own \o rest \in Seq(T) BY <1>3, <1>4
<1>6. Body(s, node, pending, h) = own \o rest BY DEF Body, own, rest, cb, act
<1>7. TypedTxs(own \o rest) BY <1>5 DEF TypedTxs, IsSeq, T
<1> QED BY <1>6, <1>7

LEMMA NewBlockTyped ==
  ASSUME NEW s \in State, NEW tip, IsSeq(tip), NEW node \in Accounts,
         NEW pending \in Seq(Txs), NEW slot \in Nat
  PROVE  LET c == NewBlock(tip, s, node, pending, slot) IN
         /\ IsSeq(c) /\ c # Genesis /\ Front(c) = tip
         /\ TypedBlock(Last(c)) /\ Last(c).proposer = node /\ Last(c).slot = slot
<1> DEFINE h == HeightOf(tip) + 1
           txs == Body(s, node, pending, h)
           b == [proposer |-> node, slot |-> slot, txs |-> txs,
                 root |-> Root(ApplyBlock(s, [proposer |-> node, slot |-> slot, txs |-> txs], h))]
<1>1. NewBlock(tip, s, node, pending, slot) = Append(tip, b) BY DEF NewBlock
<1>2. h \in Nat BY DEF HeightOf, IsSeq
<1>3. TypedTxs(txs) BY <1>2, BodyTyped
<1>4. b.proposer = node /\ b.slot = slot /\ b.txs = txs OBVIOUS
<1> HIDE DEF b, txs
<1>5. TypedBlock(b) BY <1>3, <1>4 DEF TypedBlock
<1> QED BY <1>1, <1>4, <1>5, LastAppended DEF Genesis

-----------------------------------------------------------------------------
(* What a nonce and a balance say about a chain                            *)

\* The nonces a block moves its signer past are those of its transactions.
LEMMA BlockFills ==
  ASSUME NEW s \in State, s.fees = 0, NEW b, TypedBlock(b), NEW h \in Nat,
         BlockApplies(s, b, h), NEW a \in Accounts, NEW k \in Nat,
         s.nonce[a] <= k, k < ApplyBlock(s, b, h).nonce[a]
  PROVE  \E i \in 1..Len(b.txs) :
           b.txs[i] \in Txs /\ b.txs[i].sender = a /\ b.txs[i].nonce = k
<1> DEFINE o == OpenBlock(s)
           A == States(o, b.txs, h)
           n == Len(b.txs)
           N(i) == A[i].nonce[a]
           Past == {i \in 0..n : k < N(i)}
<1>1. Sound(s, o) /\ o \in State /\ o = s
  BY OpenSound DEF Sound, OpenBlock, State
<1>2. n \in Nat /\ TypedTxs(b.txs) /\ b.proposer \in Accounts
  BY DEF TypedBlock, TypedTxs, IsSeq
<1>3. AllApply(o, b.txs, h) BY DEF BlockApplies
<1>4. A[0] = o /\ \A i \in 1..n : A[i] = ApplyTx(A[i-1], b.txs[i], h)
  BY <1>2, StatesUnfold
<1>5. \A i \in 1..n : CanApply(A[i-1], b.txs[i], h) /\ b.txs[i] \in Txs \cup Coinbase
  BY <1>2, <1>3 DEF AllApply, TypedTxs
<1>6. \A j \in 0..n : \A i \in 0..j : Sound(A[i], A[j])
  BY <1>1, <1>2, <1>3, StatesSound
<1>7. ApplyBlock(s, b, h) = CloseBlock(A[n], b.proposer, h) BY DEF ApplyBlock
<1> HIDE DEF A, n, o
<1>8. \A i \in 0..n : A[i] \in State BY <1>2, <1>6 DEF Sound
<1>9. n \in Past
  <2>1. n \in 0..n BY <1>2
  <2>2. ApplyBlock(s, b, h).nonce = A[n].nonce BY <1>7, <1>8, <2>1 DEF CloseBlock, State
  <2> QED BY <2>1, <2>2
<1>10. PICK m \in Past : \A i \in Past : m <= i
  <2>1. Past \in SUBSET Nat BY <1>2
  <2> HIDE DEF Past
  <2> QED BY <1>9, <2>1, LeastNat
<1>11. \A i \in 0..n : N(i) \in Nat BY <1>8, StateFields
<1>12. m \in 0..n /\ k < N(m) OBVIOUS
<1>13. m # 0 BY <1>1, <1>4, <1>11, <1>12
<1>14. m - 1 \in 0..n /\ m \in 1..n /\ m - 1 \notin Past
  <2>1. m - 1 \in 0..n /\ m \in 1..n /\ ~(m <= m - 1) BY <1>2, <1>12, <1>13
  <2> HIDE DEF Past
  <2> QED BY <1>10, <2>1
<1>15. N(m - 1) <= k BY <1>11, <1>14
<1> DEFINE t == b.txs[m]
<1>16. UsesNonce(A[m-1], t, A[m])
  BY <1>4, <1>5, <1>8, <1>14, TxSound
<1>17. t \in Txs \cup Coinbase BY <1>5, <1>14
<1> HIDE DEF t, Past
<1>18. t \notin Coinbase
  <2> SUFFICES ASSUME t \in Coinbase PROVE FALSE OBVIOUS
  <2>1. N(m) = N(m - 1) BY <1>16 DEF UsesNonce
  <2> QED BY <1>11, <1>12, <1>14, <1>15, <2>1
<1>19. t \in Txs /\ t.nonce = A[m-1].nonce[t.sender]
       /\ A[m].nonce = [A[m-1].nonce EXCEPT ![t.sender] = @ + 1]
  BY <1>16, <1>17, <1>18 DEF UsesNonce
<1>20. A[m-1].nonce \in [Accounts -> Nat] BY <1>8, <1>14, StateFields
<1>21. t.sender = a
  <2> SUFFICES ASSUME t.sender # a PROVE FALSE OBVIOUS
  <2>1. N(m) = N(m - 1) BY <1>19, <1>20
  <2> QED BY <1>11, <1>12, <1>14, <1>15, <2>1
<1>22. N(m) = N(m - 1) + 1 BY <1>19, <1>20, <1>21
<1>23. N(m - 1) = k BY <1>11, <1>12, <1>14, <1>15, <1>22
<1>24. t.nonce = k BY <1>19, <1>21, <1>23
<1> QED BY <1>14, <1>19, <1>21, <1>24 DEF t, n

\* Every nonce an account has used is that of a transaction in the chain.
LEMMA NoncesFilled ==
  ASSUME NEW c, Lawful(c), NEW a \in Accounts, NEW k \in Nat, k < Replay(c).nonce[a]
  PROVE  \E h \in 1..Len(c) : \E i \in 1..Len(c[h].txs) :
           c[h].txs[i] \in Txs /\ c[h].txs[i].sender = a /\ c[h].txs[i].nonce = k
<1> DEFINE n == Len(c)
           R(h) == After(c, h)
           Past == {h \in 0..n : k < R(h).nonce[a]}
<1>1. IsSeq(c) /\ n \in Nat BY DEF Lawful, IsSeq
<1>2. R(n) = Replay(c)
  <2>1. n \in 0..n BY <1>1
  <2> QED BY <1>1, <2>1, Beginning DEF After
<1>3. \A h \in 0..n : R(h) \in State /\ R(h).fees = 0 BY LawfulStates
<1>4. \A h \in 1..n : /\ R(0) = NewState /\ R(h) = ApplyBlock(R(h - 1), c[h], h)
                      /\ TypedBlock(c[h]) /\ BlockApplies(R(h - 1), c[h], h)
  BY <1>1, AfterUnfold DEF Lawful, Replays, After
<1> HIDE DEF R, n
<1>5. n \in Past BY <1>1, <1>2
<1>6. PICK m \in Past : \A h \in Past : m <= h
  <2>1. Past \in SUBSET Nat BY <1>1
  <2> HIDE DEF Past
  <2> QED BY <1>5, <2>1, LeastNat
<1>7. m \in 0..n /\ k < R(m).nonce[a] OBVIOUS
<1>8. m # 0
  <2> SUFFICES ASSUME m = 0 PROVE FALSE OBVIOUS
  <2>1. SubSeq(c, 1, 0) = Genesis
    <3>1. 0 \in 0..Len(c) BY <1>1 DEF n
    <3>2. IsSeq(SubSeq(c, 1, 0)) /\ Len(SubSeq(c, 1, 0)) = 0 BY <1>1, <3>1, Beginning
    <3>3. IsSeq(Genesis) /\ Len(Genesis) = 0 BY EmptyIs DEF Genesis
    <3> QED BY <3>2, <3>3, SeqsEqual
  <2>2. R(0) = NewState BY <2>1, ReplayGenesis DEF R, After
  <2>3. NewState.nonce[a] = 0 BY DEF NewState
  <2> QED BY <1>7, <2>2, <2>3
<1>9. m - 1 \in 0..n /\ m \in 1..n /\ m \in Nat /\ m - 1 \notin Past
  <2>1. m - 1 \in 0..n /\ m \in 1..n /\ m \in Nat /\ ~(m <= m - 1) BY <1>1, <1>7, <1>8
  <2> HIDE DEF Past
  <2> QED BY <1>6, <2>1
<1>10. R(m - 1).nonce[a] <= k
  <2>1. R(m - 1).nonce[a] \in Nat BY <1>3, <1>9, StateFields
  <2> QED BY <1>9, <2>1
<1>11. \E i \in 1..Len(c[m].txs) :
         c[m].txs[i] \in Txs /\ c[m].txs[i].sender = a /\ c[m].txs[i].nonce = k
  BY <1>3, <1>4, <1>7, <1>9, <1>10, BlockFills
<1> QED BY <1>9, <1>11 DEF n

\* What a transaction of another account gives to a.
Gift(t, a) == IF t.type = "transfer" /\ t.to = a THEN t.amount ELSE 0

LEMMA TxGives ==
  ASSUME NEW s \in State, NEW t \in Txs \cup Coinbase, NEW h \in Nat, CanApply(s, t, h),
         NEW a \in Accounts, t.sender # a
  PROVE  /\ ApplyTx(s, t, h).balance[a] = s.balance[a] + Gift(t, a)
         /\ Gift(t, a) \in 0..GenesisSupply
<1>0. s.balance \in [Accounts -> Nat] /\ GenesisSupply \in Nat
  BY StateFields, ConstantsAssumption
<1>1. CASE t \in Transfer
  <2>1. CanTransfer(s, t) /\ ApplyTx(s, t, h) = ApplyTransfer(s, t)
    BY <1>1, TxKinds DEF CanApply, ApplyTx, Txs
  <2>2. t.sender \in Accounts /\ t.to \in Accounts /\ t.amount \in Nat /\ t.type = "transfer"
    BY <1>1 DEF Transfer
  <2>3. t.amount <= GenesisSupply BY <2>1 DEF CanTransfer
  <2> DEFINE less == [s.balance EXCEPT ![t.sender] = @ - (t.amount + FeeOf(t))]
  <2>4. less[a] = s.balance[a] /\ DOMAIN less = Accounts BY <1>0
  <2>5. ApplyTransfer(s, t).balance = [less EXCEPT ![t.to] = @ + t.amount]
    BY DEF ApplyTransfer, State
  <2> HIDE DEF less
  <2>6. ApplyTransfer(s, t).balance[a] = IF t.to = a THEN less[a] + t.amount ELSE less[a]
    BY <2>4, <2>5
  <2>7. CASE t.to = a
    <3>1. Gift(t, a) = t.amount BY <2>2, <2>7 DEF Gift
    <3> QED BY <1>0, <2>1, <2>2, <2>3, <2>4, <2>6, <2>7, <3>1
  <2>8. CASE t.to # a
    <3>1. Gift(t, a) = 0 BY <2>8 DEF Gift
    <3> QED BY <1>0, <2>1, <2>4, <2>6, <2>8, <3>1
  <2> QED BY <2>7, <2>8
<1>2. ASSUME ~(t \in Transfer) PROVE Gift(t, a) = 0
  <2>1. t.type # "transfer" BY <1>2, TxKinds DEF Txs
  <2> QED BY <2>1 DEF Gift
<1>3. ASSUME ~(t \in Transfer), ApplyTx(s, t, h).balance[a] = s.balance[a]
      PROVE  /\ ApplyTx(s, t, h).balance[a] = s.balance[a] + Gift(t, a)
             /\ Gift(t, a) \in 0..GenesisSupply
  BY <1>0, <1>2, <1>3
<1>4. CASE t \in Burn
  <2>1. ApplyTx(s, t, h) = ApplyBurn(s, t) /\ ~(t \in Transfer)
    BY <1>4, TxKinds DEF ApplyTx, Txs
  <2>2. ApplyBurn(s, t).balance[a] = s.balance[a] BY <1>0 DEF ApplyBurn, State
  <2> QED BY <1>3, <2>1, <2>2
<1>5. CASE t \in Register
  <2>1. ApplyTx(s, t, h) = ApplyRegister(s, t, h) /\ ~(t \in Transfer)
    BY <1>5, TxKinds DEF ApplyTx, Txs
  <2>2. ApplyRegister(s, t, h).balance[a] = s.balance[a] BY <1>0 DEF ApplyRegister, State
  <2> QED BY <1>3, <2>1, <2>2
<1>6. CASE t \in Stake
  <2>1. ApplyTx(s, t, h) = ApplyStake(s, t) /\ ~(t \in Transfer)
    BY <1>6, TxKinds DEF ApplyTx, Txs
  <2>2. ApplyStake(s, t).balance[a] = s.balance[a] BY <1>0 DEF ApplyStake, State
  <2> QED BY <1>3, <2>1, <2>2
<1>7. CASE t \in Unstake
  <2>1. ApplyTx(s, t, h) = ApplyUnstake(s, t) /\ ~(t \in Transfer)
    BY <1>7, TxKinds DEF ApplyTx, Txs
  <2>2. ApplyUnstake(s, t).balance[a] = s.balance[a] BY <1>0 DEF ApplyUnstake, State
  <2> QED BY <1>3, <2>1, <2>2
<1>8. CASE t \in Activate
  <2>1. ApplyTx(s, t, h) = ApplyActivate(s, t) /\ ~(t \in Transfer)
    BY <1>8, TxKinds DEF ApplyTx, Txs
  <2>2. ApplyActivate(s, t).balance[a] = s.balance[a] BY <1>0 DEF ApplyActivate, State
  <2> QED BY <1>3, <2>1, <2>2
<1>9. CASE t \in Coinbase
  <2>1. ApplyTx(s, t, h) = ApplyCoinbase(s, t) /\ ~(t \in Transfer)
    BY <1>9, TxKinds DEF ApplyTx, Txs
  <2>2. ApplyCoinbase(s, t).balance[a] = s.balance[a] BY <1>0 DEF ApplyCoinbase, State
  <2> QED BY <1>3, <2>1, <2>2
<1> QED BY <1>1, <1>4, <1>5, <1>6, <1>7, <1>8, <1>9 DEF Txs

\* A function that never falls from one number to the next is monotone.
LEMMA Climbs ==
  ASSUME NEW n \in Nat, NEW f \in [0..n -> Nat], \A i \in 1..n : f[i-1] <= f[i]
  PROVE  \A i \in 0..n : \A j \in i..n : f[i] <= f[j]
<1> SUFFICES ASSUME NEW i \in 0..n PROVE \A j \in i..n : f[i] <= f[j] OBVIOUS
<1> DEFINE Bad == {j \in i..n : ~(f[i] <= f[j])}
<1>1. ASSUME Bad # {} PROVE FALSE
  <2>1. PICK m \in Bad : \A k \in Bad : m <= k
    <3>1. Bad \in SUBSET Nat OBVIOUS
    <3> HIDE DEF Bad
    <3> QED BY <1>1, <3>1, LeastNat
  <2>2. m \in i..n /\ ~(f[i] <= f[m]) OBVIOUS
  <2>3. m # i
    <3>1. f[i] \in Nat OBVIOUS
    <3> QED BY <2>2, <3>1
  <2>4. m - 1 \in i..n /\ m \in 1..n /\ m \in 0..n /\ m - 1 \in 0..n /\ m - 1 \notin Bad
    <3>1. m - 1 \in i..n /\ m \in 1..n /\ m \in 0..n /\ m - 1 \in 0..n /\ ~(m <= m - 1)
      BY <2>2, <2>3
    <3> HIDE DEF Bad
    <3> QED BY <2>1, <3>1
  <2>5. f[i] <= f[m-1] /\ f[m-1] <= f[m] BY <2>4
  <2>6. f[i] \in Nat /\ f[m-1] \in Nat /\ f[m] \in Nat BY <2>4
  <2> QED BY <2>2, <2>5, <2>6
<1> QED BY <1>1

\* One that never moves ends where it began.
LEMMA Stays ==
  ASSUME NEW n \in Nat, NEW f, \A i \in 1..n : f[i] = f[i-1]
  PROVE  f[n] = f[0]
<1> DEFINE Bad == {j \in 0..n : f[j] # f[0]}
<1>1. ASSUME Bad # {} PROVE FALSE
  <2>1. PICK m \in Bad : \A k \in Bad : m <= k
    <3>1. Bad \in SUBSET Nat OBVIOUS
    <3> HIDE DEF Bad
    <3> QED BY <1>1, <3>1, LeastNat
  <2>2. m \in 0..n /\ f[m] # f[0] /\ m # 0 OBVIOUS
  <2>3. m - 1 \in 0..n /\ m \in 1..n /\ m - 1 \notin Bad
    <3>1. m - 1 \in 0..n /\ m \in 1..n /\ ~(m <= m - 1) BY <2>2
    <3> HIDE DEF Bad
    <3> QED BY <2>1, <3>1
  <2> QED BY <2>2, <2>3
<1>2. n \in 0..n OBVIOUS
<1> QED BY <1>1, <1>2

\* A block of others gives an account what its transfers say, and takes nothing.
LEMMA BlockGives ==
  ASSUME NEW s \in State, s.fees = 0, NEW b, TypedBlock(b), NEW h \in Nat,
         BlockApplies(s, b, h), NEW a \in Accounts, b.proposer # a,
         \A i \in 1..Len(b.txs) : b.txs[i].sender # a
  PROVE  /\ s.balance[a] <= ApplyBlock(s, b, h).balance[a]
         /\ (\A i \in 1..Len(b.txs) : Gift(b.txs[i], a) = 0)
              => ApplyBlock(s, b, h).balance[a] = s.balance[a]
         /\ \A i \in 1..Len(b.txs) :
              /\ Gift(b.txs[i], a) \in 0..GenesisSupply
              /\ Gift(b.txs[i], a) <= ApplyBlock(s, b, h).balance[a]
<1> DEFINE o == OpenBlock(s)
           A == States(o, b.txs, h)
           n == Len(b.txs)
           f == [i \in 0..n |-> A[i].balance[a]]
           G(i) == Gift(b.txs[i], a)
<1>1. Sound(s, o) /\ o \in State /\ o = s
  BY OpenSound DEF Sound, OpenBlock, State
<1>2. n \in Nat /\ TypedTxs(b.txs) /\ b.proposer \in Accounts
  BY DEF TypedBlock, TypedTxs, IsSeq
<1>3. AllApply(o, b.txs, h) BY DEF BlockApplies
<1>4. A[0] = o /\ \A i \in 1..n : A[i] = ApplyTx(A[i-1], b.txs[i], h)
  BY <1>2, StatesUnfold
<1>5. \A i \in 1..n : CanApply(A[i-1], b.txs[i], h) /\ b.txs[i] \in Txs \cup Coinbase
  BY <1>2, <1>3 DEF AllApply, TypedTxs
<1>6. \A j \in 0..n : \A i \in 0..j : Sound(A[i], A[j])
  BY <1>1, <1>2, <1>3, StatesSound
<1>7. ApplyBlock(s, b, h) = CloseBlock(A[n], b.proposer, h) BY DEF ApplyBlock
<1>8. \A i \in 1..n : b.txs[i].sender # a OBVIOUS
<1> HIDE DEF A, n, o
<1>9. \A i \in 0..n : A[i] \in State BY <1>2, <1>6 DEF Sound
<1>10. ApplyBlock(s, b, h).balance[a] = f[n] /\ f[0] = s.balance[a]
  <2>1. n \in 0..n /\ 0 \in 0..n BY <1>2
  <2>2. A[n].balance \in [Accounts -> Nat] BY <1>9, <2>1, StateFields
  <2>3. CloseBlock(A[n], b.proposer, h).balance
          = [A[n].balance EXCEPT ![b.proposer] = @ + A[n].fees]
    BY <1>9, <2>1 DEF CloseBlock, State
  <2>4. CloseBlock(A[n], b.proposer, h).balance[a] = A[n].balance[a] BY <2>2, <2>3
  <2> QED BY <1>1, <1>4, <1>7, <2>1, <2>4
<1>11. ASSUME NEW i \in 1..n PROVE f[i] = f[i-1] + G(i) /\ G(i) \in 0..GenesisSupply
  <2>1. i - 1 \in 0..n /\ i \in 0..n BY <1>2
  <2> QED BY <1>4, <1>5, <1>8, <1>9, <2>1, TxGives
<1>12. f \in [0..n -> Nat]
  <2>1. \A i \in 0..n : A[i].balance[a] \in Nat BY <1>9, StateFields
  <2> QED BY <2>1
<1> HIDE DEF f, G
<1>13. \A i \in 1..n : f[i-1] <= f[i] /\ G(i) <= f[i]
  <2> SUFFICES ASSUME NEW i \in 1..n PROVE f[i-1] <= f[i] /\ G(i) <= f[i] OBVIOUS
  <2>1. i - 1 \in 0..n /\ i \in 0..n BY <1>2
  <2>2. f[i-1] \in Nat /\ f[i] \in Nat BY <1>12, <2>1
  <2>3. G(i) \in Nat BY <1>11, ConstantsAssumption
  <2> QED BY <1>11, <2>2, <2>3
<1>14. \A i \in 0..n : \A j \in i..n : f[i] <= f[j] BY <1>2, <1>12, <1>13, Climbs
<1>15. f[0] <= f[n]
  <2>1. 0 \in 0..n /\ n \in 0..n BY <1>2
  <2> QED BY <1>14, <2>1
<1>16. (\A i \in 1..n : G(i) = 0) => f[n] = f[0]
  <2> SUFFICES ASSUME \A i \in 1..n : G(i) = 0 PROVE f[n] = f[0] OBVIOUS
  <2>1. \A i \in 1..n : f[i] = f[i-1]
    <3> SUFFICES ASSUME NEW i \in 1..n PROVE f[i] = f[i-1] OBVIOUS
    <3>1. i - 1 \in 0..n BY <1>2
    <3>2. f[i-1] \in Nat BY <1>12, <3>1
    <3> QED BY <1>11, <3>2
  <2> QED BY <1>2, <2>1, Stays
<1>17. ASSUME NEW i \in 1..n PROVE G(i) <= f[n]
  <2>1. i \in 0..n /\ n \in i..n /\ n \in 0..n BY <1>2
  <2>2. f[i] <= f[n] /\ f[i] \in Nat /\ f[n] \in Nat BY <1>12, <1>14, <2>1
  <2>3. G(i) \in Nat BY <1>11, ConstantsAssumption
  <2> QED BY <1>13, <2>2, <2>3
<1> QED BY <1>10, <1>11, <1>15, <1>16, <1>17 DEF G, n

\* Nothing in c is signed, mined or collected by a.
Strange(c, a) ==
  \A h \in 1..Len(c) : /\ c[h].proposer # a
                       /\ \A i \in 1..Len(c[h].txs) : c[h].txs[i].sender # a

\* Such an account has what was transferred to it, and has used no nonce.
LEMMA StrangeAccount ==
  ASSUME NEW c, Lawful(c), NEW a \in Accounts, Strange(c, a)
  PROVE  /\ Replay(c).nonce[a] = 0
         /\ (\A h \in 1..Len(c) : \A i \in 1..Len(c[h].txs) : Gift(c[h].txs[i], a) = 0)
              => Replay(c).balance[a] = 0
         /\ \A h \in 1..Len(c) : \A i \in 1..Len(c[h].txs) :
              /\ Gift(c[h].txs[i], a) \in 0..GenesisSupply
              /\ Gift(c[h].txs[i], a) <= Replay(c).balance[a]
<1> DEFINE n == Len(c)
           R(h) == After(c, h)
           f == [h \in 0..n |-> R(h).balance[a]]
<1>1. IsSeq(c) /\ n \in Nat BY DEF Lawful, IsSeq
<1>2. R(n) = Replay(c)
  <2>1. n \in 0..n BY <1>1
  <2> QED BY <1>1, <2>1, Beginning DEF After
<1>3. \A h \in 0..n : R(h) \in State /\ R(h).fees = 0 BY LawfulStates
<1>4. \A h \in 1..n : /\ R(h) = ApplyBlock(R(h - 1), c[h], h)
                      /\ TypedBlock(c[h]) /\ BlockApplies(R(h - 1), c[h], h)
  BY <1>1, AfterUnfold DEF Lawful, Replays, After
<1>5. R(0) = NewState
  <2>1. 0 \in 0..Len(c) BY <1>1
  <2>2. IsSeq(SubSeq(c, 1, 0)) /\ Len(SubSeq(c, 1, 0)) = 0 BY <1>1, <2>1, Beginning
  <2>3. IsSeq(Genesis) /\ Len(Genesis) = 0 BY EmptyIs DEF Genesis
  <2>4. SubSeq(c, 1, 0) = Genesis BY <2>2, <2>3, SeqsEqual
  <2> QED BY <2>4, ReplayGenesis DEF After
<1>6. Replay(c).nonce[a] = 0
  <2> SUFFICES ASSUME Replay(c).nonce[a] # 0 PROVE FALSE OBVIOUS
  <2>1. Replay(c) \in State BY LawfulState
  <2>2. Replay(c).nonce[a] \in Nat BY <2>1, StateFields
  <2>3. 0 \in Nat /\ 0 < Replay(c).nonce[a] BY <2>2
  <2>4. \E h \in 1..Len(c) : \E i \in 1..Len(c[h].txs) :
          c[h].txs[i] \in Txs /\ c[h].txs[i].sender = a /\ c[h].txs[i].nonce = 0
    BY <2>3, NoncesFilled
  <2> QED BY <2>4 DEF Strange
<1> HIDE DEF R
<1>7. ASSUME NEW h \in 1..n
      PROVE  /\ f[h-1] <= f[h]
             /\ (\A i \in 1..Len(c[h].txs) : Gift(c[h].txs[i], a) = 0) => f[h] = f[h-1]
             /\ \A i \in 1..Len(c[h].txs) :
                  /\ Gift(c[h].txs[i], a) \in 0..GenesisSupply
                  /\ Gift(c[h].txs[i], a) <= f[h]
  <2>1. h - 1 \in 0..n /\ h \in 0..n /\ h \in Nat BY <1>1
  <2>2. f[h-1] = R(h-1).balance[a] /\ f[h] = R(h).balance[a] BY <2>1
  <2>3. c[h].proposer # a /\ \A i \in 1..Len(c[h].txs) : c[h].txs[i].sender # a
    BY DEF Strange
  <2>4. R(h - 1) \in State /\ R(h - 1).fees = 0 BY <1>3, <2>1
  <2> DEFINE b == c[h]
             r == R(h - 1)
  <2>5. TypedBlock(b) /\ BlockApplies(r, b, h) /\ R(h) = ApplyBlock(r, b, h) BY <1>4
  <2>6. b.proposer # a /\ \A i \in 1..Len(b.txs) : b.txs[i].sender # a BY <2>3
  <2>7. r \in State /\ r.fees = 0 BY <2>4
  <2> HIDE DEF n, f, b, r
  <2>8. /\ r.balance[a] <= R(h).balance[a]
        /\ (\A i \in 1..Len(b.txs) : Gift(b.txs[i], a) = 0) => R(h).balance[a] = r.balance[a]
        /\ \A i \in 1..Len(b.txs) :
             /\ Gift(b.txs[i], a) \in 0..GenesisSupply
             /\ Gift(b.txs[i], a) <= R(h).balance[a]
    BY <2>1, <2>5, <2>6, <2>7, BlockGives
  <2> QED BY <2>2, <2>8 DEF b, r
<1>8. f \in [0..n -> Nat]
  <2>1. \A h \in 0..n : R(h).balance[a] \in Nat BY <1>3, StateFields
  <2> DEFINE B(h) == R(h).balance[a]
  <2>2. f = [h \in 0..n |-> B(h)] /\ \A h \in 0..n : B(h) \in Nat BY <2>1
  <2> HIDE DEF B, f
  <2> QED BY <2>2
<1>9. f[n] = Replay(c).balance[a] /\ f[0] = 0
  <2>1. n \in 0..n /\ 0 \in 0..n BY <1>1
  <2>2. NewState.balance[a] = 0 BY DEF NewState
  <2> QED BY <1>2, <1>5, <2>1, <2>2
<1> HIDE DEF f
<1>10. \A h \in 0..n : \A j \in h..n : f[h] <= f[j]
  <2>1. \A h \in 1..n : f[h-1] <= f[h] BY <1>7
  <2> HIDE DEF n
  <2> QED BY <1>1, <1>8, <2>1, Climbs
<1>11. (\A h \in 1..n : \A i \in 1..Len(c[h].txs) : Gift(c[h].txs[i], a) = 0) => f[n] = f[0]
  <2> SUFFICES ASSUME \A h \in 1..n : \A i \in 1..Len(c[h].txs) : Gift(c[h].txs[i], a) = 0
               PROVE  f[n] = f[0]
    OBVIOUS
  <2>1. \A h \in 1..n : f[h] = f[h-1] BY <1>7
  <2> HIDE DEF n
  <2> QED BY <1>1, <2>1, Stays
<1>12. ASSUME NEW h \in 1..n, NEW i \in 1..Len(c[h].txs)
       PROVE  Gift(c[h].txs[i], a) <= f[n] /\ Gift(c[h].txs[i], a) \in 0..GenesisSupply
  <2> DEFINE g == Gift(c[h].txs[i], a)
  <2>1. g \in 0..GenesisSupply /\ g <= f[h] BY <1>7
  <2>2. h \in 0..n /\ n \in h..n /\ n \in 0..n BY <1>1
  <2>3. f[h] <= f[n] /\ f[h] \in Nat /\ f[n] \in Nat BY <1>8, <1>10, <2>2
  <2>4. g \in Nat BY <2>1, ConstantsAssumption
  <2> HIDE DEF g
  <2>5. g <= f[n] BY <2>1, <2>3, <2>4
  <2> QED BY <2>1, <2>5 DEF g
<1> QED BY <1>6, <1>9, <1>11, <1>12 DEF n
=============================================================================
