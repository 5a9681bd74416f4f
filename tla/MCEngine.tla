------------------------------ MODULE MCEngine ------------------------------
(***************************************************************************)
(* Engine for TLC: the values of its constants that a cfg cannot write.    *)
(***************************************************************************)
EXTENDS Engine

MCBurnPrice == [direct |-> 1]

StakeOp(n)    == [type |-> "stake", sender |-> n, nonce |-> 0, fee |-> 0, amount |-> 2]
ActivateOp(n) == [type |-> "activate", sender |-> n, nonce |-> 0, fee |-> 0]
BurnOp(n)     == [type |-> "burn", sender |-> n, nonce |-> 0, fee |-> 0,
                  msg |-> "direct", amount |-> 1, ref |-> 0]

\* One node: stakes, and burns that displace them in the mempool.
NodeOps == <<{StakeOp(1), BurnOp(1)}>>

\* Two nodes: activation and bonding change who is elected.
NetOps == <<{StakeOp(1)}, {ActivateOp(2)}>>
=============================================================================
