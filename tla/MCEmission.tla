----------------------------- MODULE MCEmission -----------------------------
(***************************************************************************)
(* Emission for TLC, with the constants of types.go.                       *)
(***************************************************************************)
EXTENDS Emission

MainnetBurnPrice == [direct |-> 2, broadcast |-> 5, dtn |-> 10, alert |-> 20]
=============================================================================
