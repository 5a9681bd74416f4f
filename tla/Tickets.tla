------------------------------- MODULE Tickets -------------------------------
(***************************************************************************)
(* Paying for a message (internal/chain/engine.go AnonymousBurn and        *)
(* IssueTicketForBurn, ticket.go, internal/app/service.go                  *)
(* anonymousBurnTicket) while the miner of the same engine works.          *)
(*                                                                         *)
(* The sender funds a fresh account, the burner, burns from it and signs a *)
(* ticket; when any step fails it burns from its main account.  Each call  *)
(* locks Engine.mu for itself, so what StartMiner and the peers' frames do *)
(* comes between any two of them.                                          *)
(***************************************************************************)
EXTENDS Engine

CONSTANTS
  Messages,   \* messages that are paid for; each stands for its RefHash
  WriterOf,   \* the node that sends a message
  BurnerOf,   \* the one-time account it draws for it
  Miners      \* nodes that run StartMiner

\* A burner's key is drawn for the message: no other operation pays it, and none
\* but the message's own payment refers to the message.
ASSUME TicketsAssumption ==
  /\ Messages \subseteq Nat
  /\ \A r \in Messages : WriterOf[r] \in Nodes
  /\ \A r \in Messages : BurnerOf[r] \in Accounts \ Nodes
  /\ \A r, s \in Messages : BurnerOf[r] = BurnerOf[s] => r = s
  /\ \A n \in Nodes : \A op \in UserOps[n] : \A r \in Messages :
       /\ op.type = "transfer" => op.to # BurnerOf[r]
       /\ op.type = "burn" => op.ref # r
  /\ Miners \subseteq Nodes
  /\ "user" \in Callers
  /\ "direct" \in DOMAIN BurnPrice

VARIABLES
  step,       \* where each node is in anonymousBurnTicket, and for which message
  posted,     \* the messages on the wire: RefHash, and the burn of the ticket
  accepted,   \* the messages whose ticket each node found valid
  seen,       \* the messages each node received: its dedup ring
  doomed      \* history: messages given up when a payment for them could still be mined

payVars == <<step, posted, accepted, seen, doomed>>
allVars == <<vars, payVars>>

Resting == [at |-> "resting"]

TicketsInit ==
  /\ Init
  /\ step = [n \in Nodes |-> Resting]
  /\ posted = {}
  /\ accepted = [n \in Nodes |-> {}]
  /\ seen = [n \in Nodes |-> {}]
  /\ doomed = {}

Price  == BurnPrice["direct"]
Fund   == Price + BaseFee

Funding(n, r) ==
  [type |-> "transfer", sender |-> n, nonce |-> state[n].nonce[n], fee |-> BaseFee,
   to |-> BurnerOf[r], amount |-> Fund]

BurnBy(n, account, nonce, r) ==
  [type |-> "burn", sender |-> account, nonce |-> nonce, fee |-> BaseFee,
   msg |-> "direct", amount |-> Price, ref |-> r]

\* Mutant: confirmed burns are not looked up.
HasPendingTx(n, t) == t \in ToSet(mempool[n])

\* HasTxHash. State.burnTxSeen holds the burns of the chain.
HasTx(n, t) == t \in ToSet(mempool[n]) \cup TxsOf(chain[n])

Paying(n, at)  == up[n] /\ step[n].at = at
Advance(n, at) == step' = [step EXCEPT ![n].at = at]
-----------------------------------------------------------------------------
(* AnonymousBurn *)

\* The balance check, and BuildAndSignTx of the transfer to the burner.
StartBurn(n, r) ==
  /\ Paying(n, "resting")
  /\ wallet[n] = NoTx
  /\ WriterOf[r] = n
  /\ r \notin doomed
  /\ \A m \in posted : m.ref # r
  /\ IF state[n].balance[n] >= Fund + BaseFee
     THEN /\ wallet' = [wallet EXCEPT ![n] = Funding(n, r)]
          /\ step' = [step EXCEPT ![n] = [at |-> "funding", ref |-> r]]
     ELSE /\ step' = [step EXCEPT ![n] = [at |-> "fallback", ref |-> r]]
          /\ UNCHANGED wallet
  /\ UNCHANGED <<up, local, pc, cand, net, clock, draw, crashes, made>>
  /\ UNCHANGED <<posted, accepted, seen, doomed>>

\* SubmitTx of the transfer, which is sent to nobody, and the call of
\* ProposeOnce. When the transfer is refused the burner's account is dropped.
SubmitFunding(n) ==
  /\ Paying(n, "funding")
  /\ IF Submittable(n, wallet[n])
     THEN /\ mempool' = [mempool EXCEPT ![n] = Admit(@, wallet[n])]
          /\ Go(n, "user", "called")
          /\ Advance(n, "funded")
          /\ UNCHANGED wallet
     ELSE /\ wallet' = [wallet EXCEPT ![n] = NoTx]
          /\ Advance(n, "fallback")
          /\ UNCHANGED <<mempool, pc>>
  /\ UNCHANGED <<up, chain, disk, state, cand, net, clock, draw, crashes, made>>
  /\ UNCHANGED <<posted, accepted, seen, doomed>>

\* A block of this node that holds t is built and not yet accepted or dropped.
InCandidate(n, t) ==
  \E p \in Callers : pc[n][p] = "built" /\ t \in ToSet(Last(cand[n][p]).txs)

\* Mutant: the transfer of a burner that is given up stays pending.
CheckFundedLeaving(n) ==
  LET t == wallet[n]
      r == step[n].ref
  IN  /\ Paying(n, "funded")
      /\ pc[n]["user"] = "idle"
      /\ wallet' = [wallet EXCEPT ![n] = NoTx]
      /\ IF state[n].balance[BurnerOf[r]] >= Fund
         THEN Advance(n, "burning") /\ UNCHANGED <<mempool, doomed>>
         ELSE /\ UNCHANGED mempool
              /\ doomed' = doomed \cup (IF InCandidate(n, t) THEN {r} ELSE {})
              /\ Advance(n, "fallback")
      /\ UNCHANGED <<up, chain, disk, state, pc, cand, net, clock, draw, crashes, made>>
      /\ UNCHANGED <<posted, accepted, seen>>

\* After ProposeOnce. The transfer is taken back when the burner is not funded
\* yet; the key of the burner is lost with it.
CheckFunded(n) ==
  LET t == wallet[n]
      r == step[n].ref
  IN  /\ Paying(n, "funded")
      /\ pc[n]["user"] = "idle"
      /\ wallet' = [wallet EXCEPT ![n] = NoTx]
      /\ IF state[n].balance[BurnerOf[r]] >= Fund
         THEN Advance(n, "burning") /\ UNCHANGED <<mempool, doomed>>
         ELSE /\ mempool' = [mempool EXCEPT ![n] = Without(@, <<t>>)]
              /\ doomed' = doomed \cup (IF InCandidate(n, t) THEN {r} ELSE {})
              /\ Advance(n, "fallback")
      /\ UNCHANGED <<up, chain, disk, state, pc, cand, net, clock, draw, crashes, made>>
      /\ UNCHANGED <<posted, accepted, seen>>

\* SubmitTx of the burner's burn.
SubmitBurn(n) ==
  LET t == BurnBy(n, BurnerOf[step[n].ref], 0, step[n].ref)
  IN  /\ Paying(n, "burning")
      /\ IF Submittable(n, t)
         THEN /\ mempool' = [mempool EXCEPT ![n] = Admit(@, t)]
              /\ wallet' = [wallet EXCEPT ![n] = t]
              /\ Advance(n, "ticket")
         ELSE Advance(n, "fallback") /\ UNCHANGED <<mempool, wallet>>
      /\ UNCHANGED <<up, chain, disk, state, pc, cand, net, clock, draw, crashes, made>>
      /\ UNCHANGED <<posted, accepted, seen, doomed>>

\* IssueTicketForBurn, the chain_tx frame of the burn and the message.
Post(n) ==
  LET t == wallet[n]
  IN  /\ HasTx(n, t)
      /\ posted' = posted \cup {[ref |-> step[n].ref, burn |-> t]}
      /\ net' = net \cup {TxFrame(t)}
      /\ wallet' = [wallet EXCEPT ![n] = NoTx]
      /\ step' = [step EXCEPT ![n] = Resting]

IssueTicket(n) ==
  /\ Paying(n, "ticket")
  /\ \/ Post(n) /\ UNCHANGED doomed
     \/ /\ ~HasTx(n, wallet[n])
        /\ wallet' = [wallet EXCEPT ![n] = NoTx]
        /\ Advance(n, "fallback")
        /\ doomed' = doomed \cup {step[n].ref}
        /\ UNCHANGED <<posted, net>>
  /\ UNCHANGED <<up, local, pc, cand, clock, draw, crashes, made>>
  /\ UNCHANGED <<accepted, seen>>
-----------------------------------------------------------------------------
(* The fallback of anonymousBurnTicket *)

\* BurnForMessage: a burn of the main account, with the nonce of the state.
StartFallback(n) ==
  /\ Paying(n, "fallback")
  /\ wallet' = [wallet EXCEPT ![n] = BurnBy(n, n, state[n].nonce[n], step[n].ref)]
  /\ Advance(n, "paying")
  /\ UNCHANGED <<up, local, pc, cand, net, clock, draw, crashes, made>>
  /\ UNCHANGED <<posted, accepted, seen, doomed>>

\* The message is not sent when the burn is refused.
GiveUp(n) ==
  /\ wallet' = [wallet EXCEPT ![n] = NoTx]
  /\ step' = [step EXCEPT ![n] = Resting]
  /\ UNCHANGED <<mempool, net>>

SubmitFallback(n) ==
  /\ Paying(n, "paying")
  /\ \/ /\ Submittable(n, wallet[n])
        /\ mempool' = [mempool EXCEPT ![n] = Admit(@, wallet[n])]
        /\ net' = net \cup {TxFrame(wallet[n])}
        /\ Advance(n, "signing")
        /\ UNCHANGED wallet
     \/ ~Submittable(n, wallet[n]) /\ GiveUp(n)
  /\ UNCHANGED <<up, chain, disk, state, pc, cand, clock, draw, crashes, made>>
  /\ UNCHANGED <<posted, accepted, seen, doomed>>

IssueFallback(n) ==
  /\ Paying(n, "signing")
  /\ \/ Post(n) /\ UNCHANGED <<mempool, doomed>>
     \/ /\ ~HasTx(n, wallet[n])
        /\ GiveUp(n)
        /\ doomed' = doomed \cup {step[n].ref}
        /\ UNCHANGED posted
  /\ UNCHANGED <<up, chain, disk, state, pc, cand, clock, draw, crashes, made>>
  /\ UNCHANGED <<accepted, seen>>
-----------------------------------------------------------------------------
(* The receivers, the miners and the rest of the engine *)

\* ValidateBurnTicket of a message that arrives for the first time; a message
\* refused here is not looked at again.
ReceiveMessage(n, m) ==
  /\ up[n]
  /\ WriterOf[m.ref] # n
  /\ m \notin seen[n]
  /\ seen' = [seen EXCEPT ![n] = @ \cup {m}]
  /\ accepted' = IF HasTx(n, m.burn) THEN [accepted EXCEPT ![n] = @ \cup {m}] ELSE accepted
  /\ UNCHANGED <<vars, step, posted, doomed>>

\* A crash takes what is in memory: the call, the burner's key, the dedup ring
\* and the inbox. Crashes of a node that is not paying are in the runs of Engine.
StopPaying(n) ==
  /\ step[n] # Resting
  /\ Crash(n)
  /\ doomed' = doomed \cup {step[n].ref}
  /\ step' = [step EXCEPT ![n] = Resting]
  /\ seen' = [seen EXCEPT ![n] = {}]
  /\ accepted' = [accepted EXCEPT ![n] = {}]
  /\ UNCHANGED posted

Pay(n) ==
  \/ \E r \in Messages : StartBurn(n, r)
  \/ SubmitFunding(n)
  \/ CheckFunded(n)
  \/ SubmitBurn(n)
  \/ IssueTicket(n)
  \/ StartFallback(n)
  \/ SubmitFallback(n)
  \/ IssueFallback(n)

\* The other operations of the user come between messages.
Chain(n) ==
  \/ step[n] = Resting /\ \E op \in UserOps[n] : BuildTx(n, op)
  \/ step[n] = Resting /\ SubmitTx(n)
  \/ n \in Miners /\ MinerLooks(n)
  \/ \E p \in Callers : BuildBlock(n, p) \/ ProposeBlock(n, p)
  \/ \E f \in net : f.kind = "tx" /\ ReceiveTx(n, f.tx)
  \/ \E f \in net : f.kind = "block" /\ ReceiveBlock(n, f.block)
  \/ Restart(n)

TicketsNext ==
  \/ Tick /\ UNCHANGED payVars
  \/ \E n \in Nodes :
       \/ Pay(n)
       \/ Chain(n) /\ UNCHANGED payVars
       \/ \E m \in posted : ReceiveMessage(n, m)
       \/ StopPaying(n)

TicketsSpec == TicketsInit /\ [][TicketsNext]_allVars
-----------------------------------------------------------------------------
Tickets == [ref : Messages, burn : [type : {"burn"}, sender : Accounts, nonce : Nat, fee : Nat,
                                    msg : {"direct"}, amount : Nat, ref : Messages]]

\* Types of a call of anonymousBurnTicket, and its own invariants: ProposeOnce
\* runs for a user only inside AnonymousBurn, after the transfer was submitted,
\* and what is being sent has not been sent.
TicketsTypeOK ==
  /\ posted \subseteq Tickets
  /\ \A n \in Nodes :
       /\ accepted[n] \subseteq seen[n] /\ seen[n] \subseteq posted
       /\ Len(mempool[n]) <= PoolMax
       /\ pc[n]["user"] # "idle" => step[n].at = "funded"
       /\ step[n] # Resting =>
            (wallet[n] # NoTx) =
              (step[n].at \in {"funding", "funded", "ticket", "paying", "signing"})
       /\ step[n] # Resting => \A m \in posted : m.ref # step[n].ref

\* "do not leave orphan funding txs that mine into a discarded burner key"
\* (engine.go:267): what an account funded stays with a burner nobody has the
\* key of only when the block with the transfer had been built before the
\* sender took the transfer back, when the burn was pushed out of a full mempool
\* before its ticket was signed, or when the sender stopped.
FundingNotOrphaned ==
  \A n \in Nodes : \A r \in Messages :
    /\ state[n].balance[BurnerOf[r]] > 0
    /\ \A m \in posted : m.ref = r => m.burn.sender # BurnerOf[r]
    /\ step[WriterOf[r]].at \in {"funding", "funded", "burning", "ticket"}
          => step[WriterOf[r]].ref # r
    => r \in doomed

\* The sender pays for a message once: a chain that holds the burner's burn or
\* its funding and a burn of the main account for the same message exists only
\* in the cases of FundingNotOrphaned.
PaidOnce ==
  \A n \in Nodes : \A r \in Messages \ doomed :
    LET txs == TxsOf(chain[n])
    IN  ~ /\ \E t \in txs : t.type = "transfer" /\ t.to = BurnerOf[r]
          /\ \E t \in txs : t.type = "burn" /\ t.ref = r /\ t.sender = WriterOf[r]

\* A pending transaction that can never apply again (it lost its nonce) has a
\* rival: another transaction of its account with that nonce is in the chain.
\* When both are burns both may have a ticket, and one message was never paid
\* for (ProposeOnce keeps such transactions pending, engine.go:356).
StaleTxHasRival ==
  \A n \in Nodes : \A t \in ToSet(mempool[n]) :
    up[n] /\ t.nonce < state[n].nonce[t.sender] =>
      \E u \in TxsOf(chain[n]) :
        u.type # "coinbase" /\ u.sender = t.sender /\ u.nonce = t.nonce /\ u # t

\* A ticket a node accepted stays valid there: its burn moves from the mempool
\* to the chain without a gap, and is lost only when it is the oldest of a full
\* mempool and another transaction arrives, or with the process (ticket.go:178).
AcceptedStaysKnown ==
  [][\A n \in Nodes : \A m \in accepted[n] :
       HasTx(n, m.burn) /\ ~HasTx(n, m.burn)' /\ up'[n] =>
         /\ Len(mempool[n]) = PoolMax
         /\ m.burn = Head(mempool[n])
         /\ chain'[n] = chain[n]]_allVars
=============================================================================
