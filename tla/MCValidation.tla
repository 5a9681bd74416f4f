---------------------------- MODULE MCValidation ----------------------------
(***************************************************************************)
(* Validation for TLC.  The rewards are 3, 1 and nothing, from a pool of   *)
(* 5; coinbases name any account and amount, and activations add           *)
(* validators.                                                             *)
(***************************************************************************)
EXTENDS Validation

MCBurnPrice == [direct |-> 1]

MCOffered ==
  [type: {"coinbase"}, sender: Accounts, amount: 0..BaseReward]
    \cup [type: {"activate"}, sender: Accounts, nonce: {0}, fee: {0}]
=============================================================================
