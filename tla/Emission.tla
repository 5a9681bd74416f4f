------------------------------ MODULE Emission ------------------------------
(***************************************************************************)
(* The emission of the chain alone: heights, and the pool the coinbases    *)
(* drain (State.applyCoinbase), with the constants of types.go.            *)
(***************************************************************************)
EXTENDS ChainState

VARIABLES height, pool, paid

Init == height = 0 /\ pool = GenesisSupply /\ paid = 0

\* The coinbase of the next block.
NextBlock ==
  /\ pool > 0
  /\ height' = height + 1
  /\ paid' = CoinbaseAmount([pool |-> pool], height')
  /\ pool' = pool - paid'

Spec == Init /\ [][NextBlock]_<<height, pool, paid>>
-----------------------------------------------------------------------------
\* "~50 MST/block, ~halving every 210240 blocks" (Guide/guide.md:53): the pool
\* lasts until the reward is halved for the first time.
PoolLastsToHalving == pool = 0 => height > HalvingInterval
=============================================================================
