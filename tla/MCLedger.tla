------------------------------ MODULE MCLedger ------------------------------
(***************************************************************************)
(* Ledger for TLC.  Two accounts, three blocks of at most two transactions *)
(* after the coinbase.  The rewards are 4, 4, 2 from a pool of 9, so the   *)
(* last coinbase is cut to what the pool has left.                         *)
(***************************************************************************)
EXTENDS Ledger

MCBurnPrice == [direct |-> 2]
=============================================================================
