------------------------------ MODULE MCTickets ------------------------------
(***************************************************************************)
(* Tickets for TLC: the values of its constants that a cfg cannot write.   *)
(***************************************************************************)
EXTENDS Tickets

MCBurnPrice == [direct |-> 1]

\* Two messages of node 1, paid from the accounts 3 and 4.
Writers  == <<1, 1>>
Burners  == <<3, 4>>

\* Node 2 joins the validators, so that node 1 is not always elected.
Activating == <<{}, {[type |-> "activate", sender |-> 2, nonce |-> 0, fee |-> 0]}>>
=============================================================================
