------------------------------- MODULE Engine -------------------------------
(***************************************************************************)
(* The chain engines of the nodes (internal/chain/engine.go, mempool.go,   *)
(* store.go) and the frames they exchange (internal/app/service.go,        *)
(* onChainP2P and onChainBlock).                                           *)
(*                                                                         *)
(* Every handler that holds Engine.mu throughout is one action.  Those     *)
(* that release it are split where they do: the slot loop of StartMiner    *)
(* looks, then calls ProposeOnce; ProposeOnce builds a block, unlocks,     *)
(* locks and accepts it.  BuildAndSignTx and SubmitTx lock separately.     *)
(*                                                                         *)
(* Frames travel over UDP.  The network is the set of frames ever sent, and *)
(* a frame stays in it: one never received is lost, one received twice is  *)
(* duplicated, and they arrive in any order.  No handler asks for a frame  *)
(* again.                                                                  *)
(***************************************************************************)
EXTENDS Blocks

CONSTANTS
  Nodes,        \* the accounts that run an engine
  Callers,      \* who runs ProposeOnce: the slot loop "miner", a "user"
  UserOps,      \* what the user of a node asks for: transactions of nonce 0
  PoolMax,      \* Mempool.max
  PeekMax,      \* transactions ProposeOnce looks at
  Draws,        \* bound: hash functions the election may draw with
  DiskFaults,   \* may a write of blocks.json fail
  MaxCrashes,   \* bound: crashes of each node
  MaxHeight,    \* bound: blocks of a chain
  MaxSlot,      \* bound: slots of the wall clock
  MaxNonce      \* bound: transactions an account builds

ASSUME EngineAssumption ==
  /\ Nodes \subseteq Accounts
  /\ Callers \subseteq {"miner", "user"}
  /\ DOMAIN UserOps = Nodes
  /\ \A n \in Nodes : \A op \in UserOps[n] : op \in Txs /\ op.sender = n
  /\ PoolMax \in Nat \ {0} /\ PeekMax \in Nat \ {0}
  /\ Draws \subseteq Nat
  /\ DiskFaults \in BOOLEAN
  /\ {MaxCrashes, MaxHeight, MaxSlot, MaxNonce} \subseteq Nat

Torn    == <<[proposer |-> Nobody]>>   \* blocks.json cut short: it does not parse
NoTx    == [type |-> "none"]

VARIABLES
  up,        \* is the node's process running
  chain,     \* Store: the blocks in memory
  disk,      \* Store: blocks.json
  state,     \* Engine.State
  mempool,   \* Mempool.order and byID
  wallet,    \* a transaction built and signed and not yet submitted
  pc,        \* where each caller is in ProposeOnce
  cand,      \* the block it has built
  net,       \* the frames sent so far
  clock,     \* slot of the wall clock
  draw,      \* which hash function the election draws with
  crashes,   \* history: crashes of each node
  made       \* history: the blocks their proposer accepted

local == <<chain, disk, state, mempool>>
vars  == <<up, chain, disk, state, mempool, wallet, pc, cand, net, clock, draw, crashes, made>>

Init ==
  /\ up = [n \in Nodes |-> TRUE]
  /\ chain = [n \in Nodes |-> Genesis]
  /\ disk = [n \in Nodes |-> Genesis]
  /\ state = [n \in Nodes |-> NewState]
  /\ mempool = [n \in Nodes |-> <<>>]
  /\ wallet = [n \in Nodes |-> NoTx]
  /\ pc = [n \in Nodes |-> [p \in Callers |-> "idle"]]
  /\ cand = [n \in Nodes |-> [p \in Callers |-> Genesis]]
  /\ net = {}
  /\ clock = 0
  /\ draw \in Draws
  /\ crashes = [n \in Nodes |-> 0]
  /\ made = {}

BlockFrame(c) == [kind |-> "block", block |-> c]
TxFrame(t)    == [kind |-> "tx", tx |-> t]

\* The hash of a parent block and a slot that the election draws from. Any
\* function of the two would do; these tell apart the slots, and the blocks of
\* a slot by their proposers and transactions.
proposerSeed(tip, slot) ==
  draw + slot + IF tip = Genesis THEN 0 ELSE Last(tip).proposer + Len(Last(tip).txs)

-----------------------------------------------------------------------------
(* Mempool *)

\* Mutant: the mempool is not bounded.
AdmitAlways(q, t) == Append(q, t)

\* Mempool.Add of a transaction that is not yet in it.
Admit(q, t) == Append(IF Len(q) >= PoolMax THEN Tail(q) ELSE q, t)

\* Mutant: included transactions stay pending.
Kept(q, txs) == q

\* Mempool.Remove.
Without(q, txs) ==
  LET left[i \in 0..Len(q)] ==
        IF i = 0 THEN <<>>
        ELSE IF q[i] \in ToSet(txs) THEN left[i-1] ELSE Append(left[i-1], q[i])
  IN  left[Len(q)]

Peek(q) == SubSeq(q, 1, Smaller(Len(q), PeekMax))

\* SubmitTx accepts t: it applies to a clone of the state, and is new.
Submittable(n, t) ==
  /\ CanApply(state[n], t, HeightOf(chain[n]) + 1)
  /\ t \notin ToSet(mempool[n])

-----------------------------------------------------------------------------
(* Transactions *)

BuildTx(n, op) ==
  /\ up[n]
  /\ wallet[n] = NoTx
  /\ state[n].nonce[n] < MaxNonce
  /\ wallet' = [wallet EXCEPT ![n] = [op EXCEPT !.nonce = state[n].nonce[n]]]
  /\ UNCHANGED <<up, chain, disk, state, mempool, pc, cand, net, clock, draw, crashes, made>>

\* Mutant: the dry run is made on the state itself.
SubmitTxToState(n) ==
  LET t == wallet[n]
  IN  /\ up[n]
      /\ t # NoTx
      /\ wallet' = [wallet EXCEPT ![n] = NoTx]
      /\ IF Submittable(n, t)
         THEN /\ mempool' = [mempool EXCEPT ![n] = Admit(@, t)]
              /\ net' = net \cup {TxFrame(t)}
              /\ state' = [state EXCEPT ![n] = ApplyTx(@, t, HeightOf(chain[n]) + 1)]
         ELSE UNCHANGED <<mempool, net, state>>
      /\ UNCHANGED <<up, chain, disk, pc, cand, clock, draw, crashes, made>>

\* SubmitTx, and a chain_tx frame to the peers when it succeeds.
SubmitTx(n) ==
  LET t == wallet[n]
  IN  /\ up[n]
      /\ t # NoTx
      /\ wallet' = [wallet EXCEPT ![n] = NoTx]
      /\ IF Submittable(n, t)
         THEN /\ mempool' = [mempool EXCEPT ![n] = Admit(@, t)]
              /\ net' = net \cup {TxFrame(t)}
         ELSE UNCHANGED <<mempool, net>>
      /\ UNCHANGED <<up, chain, disk, state, pc, cand, clock, draw, crashes, made>>

\* A chain_tx frame is not sent on, so only the others receive a node's own.
ReceiveTx(n, t) ==
  /\ up[n]
  /\ TxFrame(t) \in net
  /\ t.sender # n
  /\ Submittable(n, t)
  /\ mempool' = [mempool EXCEPT ![n] = Admit(@, t)]
  /\ UNCHANGED <<up, chain, disk, state, wallet, pc, cand, net, clock, draw, crashes, made>>

-----------------------------------------------------------------------------
(* Accepting a block *)

\* Mutant: a higher block replaces the chain.
AcceptableWhenHigher(n, c) == HeightOf(c) > HeightOf(chain[n])

\* Every check of acceptLocked passes: the block extends this node's tip. Blocks
\* at or below the tip's height are ignored or rejected, whatever they hold.
Acceptable(n, c) ==
  LET h == HeightOf(c)
  IN  /\ h > HeightOf(chain[n])
      /\ ValidBlock(c, chain[n], state[n], proposerSeed(chain[n], SlotOf(c)))
      /\ BlockApplies(state[n], Last(c), h)
      /\ Root(ApplyBlock(state[n], Last(c), h)) = Last(c).root

\* The state and the blocks in memory change before the file is written.
Extend(n, c) ==
  /\ state' = [state EXCEPT ![n] = ApplyBlock(@, Last(c), HeightOf(c))]
  /\ chain' = [chain EXCEPT ![n] = c]

\* The write succeeds: the block's transactions leave the mempool and OnBlock
\* sends it on.
Saved(n, c) ==
  /\ Extend(n, c)
  /\ disk' = [disk EXCEPT ![n] = c]
  /\ mempool' = [mempool EXCEPT ![n] = Without(@, Last(c).txs)]
  /\ net' = net \cup {BlockFrame(c)}

\* Mutant: the block is sent on before it is saved.
SaveFailsAfterSending(n, c) ==
  /\ DiskFaults
  /\ Extend(n, c)
  /\ \E left \in {disk[n], Torn} : disk' = [disk EXCEPT ![n] = left]
  /\ net' = net \cup {BlockFrame(c)}
  /\ UNCHANGED mempool

\* Mutant: the block is saved before memory follows, and saving reports an error.
SaveFailsAfterWrite(n, c) ==
  /\ DiskFaults
  /\ disk' = [disk EXCEPT ![n] = c]
  /\ UNCHANGED <<chain, state, mempool, net>>

\* The write fails, before or after the old content is gone, and acceptLocked
\* returns its error.
SaveFails(n, c) ==
  /\ DiskFaults
  /\ Extend(n, c)
  /\ \E left \in {disk[n], Torn} : disk' = [disk EXCEPT ![n] = left]
  /\ UNCHANGED <<mempool, net>>

Accept(n, c) == Acceptable(n, c) /\ (Saved(n, c) \/ SaveFails(n, c))

\* Blocks are sent on, so a node may receive its own from a peer.
ReceiveBlock(n, c) ==
  /\ up[n]
  /\ BlockFrame(c) \in net
  /\ Accept(n, c)
  /\ UNCHANGED <<up, wallet, pc, cand, clock, draw, crashes, made>>

-----------------------------------------------------------------------------
(* Proposing *)

At(n, p, label) == up[n] /\ pc[n][p] = label
Go(n, p, label) == pc' = [pc EXCEPT ![n] = [@ EXCEPT ![p] = label]]

Elected(n, slot) == MayPropose(state[n], proposerSeed(chain[n], slot), n)

\* The tick of StartMiner: the wall clock has passed the tip's slot and this
\* node is elected for it.
MayLook(n) ==
  /\ "miner" \in Callers
  /\ At(n, "miner", "idle")
  /\ clock > SlotOf(chain[n])
  /\ Elected(n, clock)

MinerLooks(n) ==
  /\ MayLook(n)
  /\ Go(n, "miner", "called")
  /\ UNCHANGED <<up, chain, disk, state, mempool, wallet, cand, net, clock, draw, crashes, made>>

\* chain-mine and AnonymousBurn call ProposeOnce(true) at any time.
UserCalls(n) ==
  /\ "user" \in Callers
  /\ At(n, "user", "idle")
  /\ Go(n, "user", "called")
  /\ UNCHANGED <<up, chain, disk, state, mempool, wallet, cand, net, clock, draw, crashes, made>>

\* The first locked section of ProposeOnce. `force` changes nothing: it fails
\* as well when another node is elected.
MayBuild(n, p) ==
  /\ At(n, p, "called")
  /\ HeightOf(chain[n]) < MaxHeight

BuildBlock(n, p) ==
  LET slot == NextSlot(clock, chain[n])
      new  == NewBlock(chain[n], state[n], n, Peek(mempool[n]), slot)
      built == Elected(n, slot) /\ Last(new).txs # <<>>
  IN  /\ MayBuild(n, p)
      /\ Go(n, p, IF built THEN "built" ELSE "idle")
      /\ cand' = IF built THEN [cand EXCEPT ![n] = [@ EXCEPT ![p] = new]] ELSE cand
      /\ UNCHANGED <<up, chain, disk, state, mempool, wallet, net, clock, draw, crashes, made>>

\* The second one: the node accepts its own block, unless its chain has moved.
ProposeBlock(n, p) ==
  LET c == cand[n][p]
  IN  /\ At(n, p, "built")
      /\ \/ Accept(n, c) /\ made' = made \cup {c}
         \/ ~Acceptable(n, c) /\ UNCHANGED <<local, net, made>>
      /\ Go(n, p, "idle")
      /\ cand' = [cand EXCEPT ![n] = [@ EXCEPT ![p] = Genesis]]
      /\ UNCHANGED <<up, wallet, clock, draw, crashes>>

-----------------------------------------------------------------------------
(* Time, crashes and restarts *)

Tick ==
  /\ clock < MaxSlot
  /\ clock' = clock + 1
  /\ UNCHANGED <<up, chain, disk, state, mempool, wallet, pc, cand, net, draw, crashes, made>>

\* The process stops; it may do so in the middle of a write of blocks.json, of
\* a block it received or built.
Stop(n, left) ==
  /\ up[n]
  /\ crashes[n] < MaxCrashes
  /\ crashes' = [crashes EXCEPT ![n] = @ + 1]
  /\ up' = [up EXCEPT ![n] = FALSE]
  /\ disk' = [disk EXCEPT ![n] = left]
  /\ mempool' = [mempool EXCEPT ![n] = <<>>]
  /\ wallet' = [wallet EXCEPT ![n] = NoTx]
  /\ pc' = [pc EXCEPT ![n] = [p \in Callers |-> "idle"]]
  /\ cand' = [cand EXCEPT ![n] = [p \in Callers |-> Genesis]]
  /\ UNCHANGED <<chain, state, net, clock, draw, made>>

Crash(n) == Stop(n, disk[n])

CrashInWrite(n) ==
  /\ \/ \E c \in made : BlockFrame(c) \in net /\ Acceptable(n, c)
     \/ \E p \in Callers : At(n, p, "built") /\ Acceptable(n, cand[n][p])
  /\ Stop(n, Torn)

\* OpenEngine replays blocks.json; it fails, and the node has no chain, when the
\* file does not parse.
MayRestart(n) == ~up[n] /\ disk[n] # Torn

Restart(n) ==
  /\ MayRestart(n)
  /\ up' = [up EXCEPT ![n] = TRUE]
  /\ chain' = [chain EXCEPT ![n] = disk[n]]
  /\ state' = [state EXCEPT ![n] = Replay(disk[n])]
  /\ UNCHANGED <<disk, mempool, wallet, pc, cand, net, clock, draw, crashes, made>>

-----------------------------------------------------------------------------
Propose(n) ==
  \/ MinerLooks(n)
  \/ UserCalls(n)
  \/ \E p \in Callers : BuildBlock(n, p) \/ ProposeBlock(n, p)

Next ==
  \/ Tick
  \/ \E n \in Nodes :
       \/ \E op \in UserOps[n] : BuildTx(n, op)
       \/ SubmitTx(n)
       \/ \E f \in net : f.kind = "tx" /\ ReceiveTx(n, f.tx)
       \/ \E f \in net : f.kind = "block" /\ ReceiveBlock(n, f.block)
       \/ Propose(n)
       \/ Crash(n)
       \/ CrashInWrite(n)
       \/ Restart(n)

Spec == Init /\ [][Next]_vars

\* The slot loop runs on its ticker, a caller inside ProposeOnce goes on, time
\* passes, and an operator restarts a node that is down. Nothing makes users
\* act or frames arrive. Each conjunct is WF_vars of its action with the
\* action's guard written for ENABLED, which TLC is slow to evaluate here.
Fairness ==
  /\ <>[](clock < MaxSlot) => []<><<Tick>>_vars
  /\ \A n \in Nodes :
       /\ <>[]MayLook(n) => []<><<MinerLooks(n)>>_vars
       /\ <>[]MayRestart(n) => []<><<Restart(n)>>_vars
       /\ \A p \in Callers :
            /\ <>[]MayBuild(n, p) => []<><<BuildBlock(n, p)>>_vars
            /\ <>[]At(n, p, "built") => []<><<ProposeBlock(n, p)>>_vars

FairSpec == Spec /\ Fairness
-----------------------------------------------------------------------------
IsBlock(b) ==
  /\ b.proposer \in Nodes
  /\ b.slot \in Nat
  /\ \A t \in ToSet(b.txs) : t \in Txs \cup Coinbase

IsChain(c) == \A i \in 1..Len(c) : IsBlock(c[i])

\* Types of an engine, and the mempool's own invariant: a bounded queue with
\* no transaction twice, so that order and byID agree.
TypeOK ==
  /\ up \in [Nodes -> BOOLEAN]
  /\ clock \in 0..MaxSlot
  /\ \A n \in Nodes :
       /\ IsChain(chain[n])
       /\ disk[n] = Torn \/ IsChain(disk[n])
       /\ state[n] \in State
       /\ ToSet(mempool[n]) \subseteq Txs
       /\ Len(mempool[n]) <= PoolMax
       /\ Cardinality(ToSet(mempool[n])) = Len(mempool[n])
       /\ wallet[n] \in Txs \cup {NoTx}
       /\ \A p \in Callers : (pc[n][p] = "built") = (cand[n][p] # Genesis)

\* The state a node keeps is the one its blocks give: blocks refused halfway,
\* dry runs, failed writes and restarts leave no trace in it (Engine.State
\* against Store.byH).
StateIsReplay == \A n \in Nodes : up[n] => state[n] = Replay(chain[n])

\* Whatever a crash leaves in blocks.json, as long as it parses OpenEngine can
\* replay it, and it holds a beginning of the chain the node had.
RestartRecovers ==
  \A n \in Nodes : disk[n] # Torn => Replays(disk[n]) /\ IsPrefix(disk[n], chain[n])

\* Slots strictly increase along every chain, although ValidateBlock accepts a
\* block in its parent's slot (consensus.go:28): it rests on every proposer
\* taking a slot after its tip's, by NextSlot, when clocks stand still too.
SlotsIncrease ==
  \A n \in Nodes : \A i \in 2..Len(chain[n]) : chain[n][i-1].slot < chain[n][i].slot

\* A proposer never sends two different blocks for one slot on one parent, with
\* two callers inside ProposeOnce and with crashes between its two halves.
NoEquivocation ==
  \A x, y \in made :
    /\ {BlockFrame(x), BlockFrame(y)} \subseteq net
    /\ Front(x) = Front(y)
    /\ Last(x).slot = Last(y).slot
    /\ Last(x).proposer = Last(y).proposer
    => x = y

\* Two nodes make different blocks for one slot on one parent only while the
\* parent's validator set is empty (the cold start of MayPropose).
OneProposerPerSlot ==
  \A x, y \in made :
    /\ Front(x) = Front(y)
    /\ Last(x).slot = Last(y).slot
    /\ Last(x).proposer # Last(y).proposer
    => ActiveValidators(Replay(Front(x))) = {}

\* The transactions of a chain.
TxsOf(c) == UNION {ToSet(c[h].txs) : h \in 1..Len(c)}

\* No transaction is in a chain twice: one that was pending twice, received
\* again or left in the mempool is not applied again.
TxOnce ==
  \A n \in Nodes : \A g, h \in 1..Len(chain[n]) :
    \A i \in 1..Len(chain[n][g].txs), j \in 1..Len(chain[n][h].txs) :
      /\ chain[n][g].txs[i].type # "coinbase"
      /\ chain[n][g].txs[i] = chain[n][h].txs[j]
      => g = h /\ i = j

\* A transaction in the chain is not pending any more, whichever of SubmitTx,
\* the peers' frame and the block came first.
PendingNotIncluded ==
  \A n \in Nodes : up[n] => ToSet(mempool[n]) \cap TxsOf(chain[n]) = {}

\* Nodes implement the block tree of BlockTree.
Tree == INSTANCE BlockTree WITH tree <- made, head <- chain
TreeSpec == Tree!Spec

\* "First 32 slots: activate/propose with 0 stake" (README.md:46): no block of
\* a later slot activates an account with less than MinStake.
BootstrapEndsWithItsSlots ==
  \A n \in Nodes : \A i \in 1..Len(chain[n]) :
    \A t \in ToSet(chain[n][i].txs) :
      /\ t.type = "activate"
      /\ chain[n][i].slot > BootstrapSlots
      => Replay(SubSeq(chain[n], 1, i-1)).stake[t.sender] >= MinStake

\* A node that mines alone fills the last slot, unless blocks.json is lost: the
\* miner is not stuck between two callers of ProposeOnce, behind blocks made
\* ahead of the wall clock, or after a crash.
MinerReachesSlot ==
  \A n \in Nodes :
    (clock = MaxSlot) ~> (SlotOf(chain[n]) >= MaxSlot \/ (~up[n] /\ disk[n] = Torn))
=============================================================================
