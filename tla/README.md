# MSP: TLA+ models, checks and proofs

MSP is a peer-to-peer messenger over UDP. Its nodes find one another through a
seed, flood signed packets, keep those for absent peers, and pay for each message
by burning coins of a small proof-of-stake chain. This directory holds a model of
the chain, of the payments and of the message node, what TLC checks about them on
small instances, and what TLAPS proves for all constants.

## 1. The system

| Part | Code (`src/internal` unless given) | State it keeps | Operations | Talks to |
|---|---|---|---|---|
| account ledger | `chain/state.go`, `types.go` | accounts (balance, stake, nonce, burned, active), reward pool, height, pending fees, burns seen | apply a transaction, apply a block, clone, root | engine |
| proposer election | `chain/pos.go` | none: a function of the ledger, a parent hash and a slot | select, may-propose, sign, verify | engine, validation |
| block validation | `chain/consensus.go` | none | validate a block against tip and state | engine |
| chain engine | `chain/engine.go`, `mempool.go`, `store.go` | ledger, mempool, blocks in memory and in `blocks.json` | build and submit a transaction, accept a block, propose (user or slot loop), replay at start | service |
| chain gossip | `app/service.go`, `p2p/udp.go` | neighbours | send `chain_tx` and `chain_block` frames to punched neighbours, deliver them to the engine | engine, mesh |
| burn tickets | `chain/ticket.go`, `Engine.AnonymousBurn`, `app/service.go` | a one-time key and two transactions in flight | fund, burn, issue, fall back, validate | engine, message node |
| message node | `node/node.go`, `protocol/packet.go` | inbox, block list, cached bundles | send, receive, forward, flood keys and time | mesh, store, clock |
| dedup ring | `dedup/ring.go` | the keys of the last 65536 packets | seen, add | message node |
| delay tolerant store | `dtn/store.go` | a bounded queue, in memory and in `dtn-queue.json` | push, pop all, prune, open | message node |
| UDP mesh | `p2p/udp.go` | neighbour table, candidates to punch | punch, touch, keep alive, send, forward | message node, service |
| prekeys and sessions | `crypto/x3dh.go`, `e2e.go` | signed and one-time prekey | generate, publish, derive, consume, rotate | message node |
| network clock | `clocksync/clock.go` | a window of samples | observe, now | message node |
| seed service | `src/_worker.js`, `src/cmd/msp-seed`, `seedclient` | peer directory, signal queue | hello, peers, peer, signal, signals | message node |
| trust, PoW, facade, UIs, config, identity, alert | `trust`, `pow`, `app`, `gui`, `src/cmd`, `config`, `identity`, `alert` | files, pinned keys, difficulty | start, stop, configure | all |

How they interact: the user's calls build a transaction (lock, read the nonce,
unlock), submit it (lock, dry run on a clone, mempool), broadcast it and call
`ProposeOnce`, while the slot loop calls `ProposeOnce` from its own goroutine and
frames from peers arrive on the mesh's goroutines. `ProposeOnce` itself locks
twice. An accepted block is sent on from a goroutine of its own, over UDP; a frame
that is lost is never asked for again and there is no fork choice.

A message is sealed, then paid: the sender funds a fresh account, has a block
made, burns from that account and signs a ticket, or burns from its own account
when a step fails; each step locks the engine for itself. The packet is mined,
signed, entered in the sender's own filter and flooded to the punched neighbours,
or stored when there are none. A receiver looks in its filter, verifies hops,
clock and expiry, takes the packet's clock sample, enters it in the filter,
forwards it, validates the ticket against its own chain, and opens it. A node has
a read loop for each socket (udp4, udp6); nothing locks the filter, and the
one-time prekey is read, consumed and replaced in separate sections.

What is hard: two callers inside `ProposeOnce`; a peer's block between its two
halves; files written in place, one after memory has changed; frames lost,
repeated and reordered; an election read from a state that moves; arithmetic
where an amount meets a fee, a reward an empty pool, a draw the boundary between
two stakes; a payment of several steps, each of which may fail or be overtaken;
two read loops on one filter; peers that move and come back with new keys; clocks
that differ and packets that are late. `PROJECT.json` lists each hazard at its
line.

What makes each part correct:

* ledger: value is conserved, the pool follows the schedule, a burn destroys
  value, only its owner's transactions cost an account anything;
* election: proportional to stake; one proposer per slot and parent;
* validation: no block pays a coinbase other than the scheduled one;
* engine: state, blocks in memory and file agree; a node never sends two blocks
  for one slot; no transaction is applied twice; included ones are not pending;
* engines together: a tree of blocks that only grows and heads that climb it;
* payments: a message is paid for once, nothing is left with an account whose key
  is gone, an accepted ticket stays valid, outside a named list of races;
* messages: what arrives was sent and is for the receiver, one copy per read loop
  at most, never at its sender; what is stored stays until it expires or is sent;
* sessions: a one-time prekey opens one message; bundles converge;
* clock: a node that is right stays right;
* mesh: nodes that stay up come to reach one another.

## 2. Modules

| Module | Models | Notes |
|---|---|---|
| `Sums` | totals over the accounts in NodeID order, and of a window | recursive functions, so that it can be proved about |
| `ChainState` | `State`, every transaction type, block open/close, election | pure operators; extended by all others |
| `Ledger` | `ApplyBlock` on a clone, one transaction per step | state machine for the ledger properties and the proofs |
| `Blocks` | blocks and chains, replay, `ValidateBlock`, building a block | pure operators |
| `Validation` | a node offered any block | composes `Blocks` with arbitrary blocks |
| `BlockTree` | the abstract promise of the engines together | refined by `Engine` |
| `Engine` | engines of several nodes and the frames between them | one action per locked section |
| `Emission` | heights and the pool alone | with the real constants |
| `Tickets` | `anonymousBurnTicket`, `AnonymousBurn`, tickets | extends `Engine`: the same miner, mempool, frames |
| `Ring`, `Carry`, `NetClock`, `Prekeys` | dedup ring, store, clock, bundles | pure operators on one node's data |
| `Mesh` | the seed's directory and the UDP mesh | variables and actions, composed into `Node` |
| `Node` | the message node | composes `Mesh`, `Ring`, `Carry`, `NetClock`, `Prekeys` |
| `Delivery` | what a node promises of messages | refined by `Node` |
| `CommonProofs`, `BlocksProofs` | lemmas on sequences and sums; on transactions, the election, blocks and chains | checked by `tlapm` |
| `LedgerProofs`, `EngineProofs`, `ValidationProofs` | theorems of the chain | extend the two above |
| `TicketsProofs` | theorems of the payments | extends `EngineProofs` |
| `NodeProofs`, `ChatProofs` | theorems of the message node | types, filter, prekeys, clock; what becomes of a chat |
| `MCLedger`, `MCEngine`, `MCValidation`, `MCEmission`, `MCTickets`, `MCNode` | instances for TLC | |

Definitions headed *Mutant* are plausible bugs of the definition below them. They
are used by no specification; put in its place, each one makes the property named
in `PROJECT.json` fail, which shows that the property can fail.

### Code and model

* `ChainState!CanX` is the conditions and error returns of `applyX`, `ApplyX` its
  assignments. Amounts are naturals: the only unguarded `uint64` additions are of
  amounts the ledger holds, bounded by `SupplyAccounted`. A TxID is the pair of
  sender and nonce where it identifies an applied transaction, the transaction
  itself in the mempool. Signatures are valid. `minted` is a history field.
* `Ledger!Begin` clones the state, one action applies each transaction, `End`
  is `e.State.ApplyBlock` on the real state, `Fail` drops the clone.
* In `Blocks` a hash is the chain that ends in the block. Hashes do not collide,
  so the previous hash is that chain's front, and the Merkle root needs no check.
  `root` is the accounts, pool and height that `State.Root` hashes. The seal, size and
  timestamp checks are satisfied by every block a node of this program builds.
* In `Engine` each action is one section under `Engine.mu`:
  `BuildTx` = `BuildAndSignTx`, `SubmitTx`, `ReceiveTx` and `ReceiveBlock` =
  `onChainP2P`, `MinerLooks` = the tick of `StartMiner`, `UserCalls` = the forced
  or unforced call after a chain command, `BuildBlock` and `ProposeBlock` = the two locked halves of
  `ProposeOnce`. `Saved`/`SaveFails` are the end of `acceptLocked` with and
  without an error of `os.WriteFile`. `Crash`, `CrashInWrite` and `Restart` are
  the end of the process and `OpenEngine`; a torn `blocks.json` does not parse, and
  the node stays down.
* The network is the set of frames sent so far. A frame that is never received
  is lost; it can be received again, and in any order. A block comes back to its
  own proposer too, from a peer that sent it on. Sending happens with the
  step that produces it: the goroutine of `OnBlock` only delays it, which the
  network does too.
* `proposerSeed` is a hash: the election is checked for several functions of
  parent and slot (`Draws`).
* In `Tickets` each action is one call that locks the engine: `StartBurn` (the
  balance check and the build of the transfer, which nothing of the sender's can
  come between), `SubmitFunding`, `CheckFunded`, `SubmitBurn`, `IssueTicket`, and the
  three of the fallback. `ProposeOnce` runs between them in the two halves of
  `Engine`. A ticket's signature, age and amount always pass for honest senders, so
  `ReceiveMessage` asks whether the receiver has the burn. Sending a message again
  is a new message.
* `doomed` in `Tickets` is a history variable: the messages given up when a payment
  for them could still be mined.
* `Mesh` gives an address a number, new in each run of a process unless ports are
  configured. A datagram to an address nobody listens at is never put on the wire,
  and neither is one that is lost: the sets `heard` and `answered` of an action are
  those that are not. One candidate address is kept for each peer.
* `Mesh!Hello` and `DiscoverOnce` are the calls of `discoverLoop` (and of the
  user), `KeepAlive` one tick of `keepAliveLoop`, `ReadPunch` and `ReadGreeting`
  the handlers, which take the source address of the datagram.
* `joined` says whether `Join` reached the seed when the process started: only
  then does it start `discoverLoop` and `dtnLoop`.
* In `Node`, `Read`, `Look`, `Handle`, `Consume`, `Open` are the parts of
  `onP2PPacket` for a chat, cut where another read loop or a send can come between:
  before `Ring.Add`, between its look and its insertion (it has no lock; the
  outcome where the Go runtime stops the program is `Crash`), and around
  `ConsumeOPK` and `RotateOPK`. `Send` is `sessionKeyFor` and `buildAndSend` up
  to mining, `Finish` the rest. `PopReady` and `SendCarried` are `dtnLoop`.
  Key floods and time syncs are one action each (`ReadFlood`); they are not
  entered in the filter, since each is a new packet and none is looked up again:
  what they push out of a filter is shown with a filter of one.
* `forwardDelay` delays as the network does. `LearnBurn` stands for the chain.
* `Prekeys`: a session key is written as the prekeys that go into it. `useOPK` of the
  responder is true whenever it has a one-time prekey (`node.go:796`), whatever
  `OPKUsed` says, so only `has` is kept.
* Stopping and starting the mesh within one process is taken as a restart, though
  the service would keep its bundle.

## 3. Runs

| Run | Instance | Shows |
|---|---|---|
| `Ledger` | 2 accounts, 3 blocks of up to 2 transactions after the coinbase, pool 9, rewards 4, 4, 2; amounts 0 and 2, fees 0 (default 1) and 2 | conservation, schedule with a cut last coinbase, burns, proportional election, `OnlyOwnTxsCost` |
| `LedgerInflation` | the same | finding: an unstake can mint its fee |
| `EngineNode` | 1 node, miner and user, 3 blocks, slots 0..2, mempool of 1, failing writes, 1 crash | state = replay of blocks, the file is a replayable prefix, no equivocation, no replay of a transaction, refinement of `BlockTree` |
| `EngineNet` | 2 nodes whose users propose, 3 blocks, slots 0..2, one stakes and one activates, 2 hash functions | one proposer per slot, growing slots, refinement, pending against included |
| `EngineLive` | 1 node, 4 blocks, slots 0..3, 2 crashes, failing writes, fairness | the miner fills the last slot |
| `EngineBootstrap` | as `EngineNode` | finding: bootstrap counts blocks |
| `Validation` | any blocks of up to 2 transactions over any coinbase and activation, pool 5, rewards 3, 1, 0 | coinbase exactly as scheduled |
| `ValidationSlots` | the same | finding: equal slots accepted |
| `Emission` | the constants of the main network | finding: the pool is empty before the first halving |
| `Tickets` | 2 nodes, 4 accounts, 1 message, mempool of 1, heights and slots up to 4, 1 crash | where the money of a payment goes, payment once, tickets stay valid |
| `NodeRelay` | 3 nodes, one with two sockets, 5 scenes, clocks 0, +1, -1 with a skew of 1, store of 1, filter of 4 | no echo, durable store, single use of prekeys, clock, refinement of `Delivery` |
| `NodeJoin` | 2 nodes and the seed, new addresses at restart, 3 scenes, store of 2, filter of 1, 1 crash, fairness | the mesh forms, bundles converge, the store empties; the filter evicts soundly |

Why the bounds are enough. Three blocks let a coinbase be cut, a stake be made,
elect, and (in `Ledger`) be undone, and two branches diverge and each grow; two transactions in a
block depend on one another; a mempool of one makes every second submission evict;
three slots let the clock stand behind the tip, at it and ahead of it; one crash
with a failing write before it reaches every combination of memory and file. The
reward is halved after two blocks, so the heights before and after a halving both occur,
and bootstrap ends within the run. In `Tickets` four heights let a funding
transfer, a burn and two foreign blocks be mined, and the second validator makes the
sender miss a slot, which is what makes a call fall back.

A *scene* of `MCNode` bounds what happens in a behaviour of `Node`: who knows whom
at the start (`linked`), who reaches the seed (`reach`), who may crash (`mortal`),
whose `Join` may have failed (`late`), which chats are sent, whether tickets are required,
who blocks whom, who floods keys and times, how many ticks and floods there are. A
run explores all its scenes. A single scene with everything in it is out of
TLC's reach; each scene keeps together what interacts:

* `NodeRelay`: (1) a sender and a relay, either of which restarts, with a broadcast and
  a chat, a store of one, and a tick that makes stored items expire; (2) a sender that
  learns of its peer from the seed, stores a packet for it and hears from the relay first;
  (3) two initiators that may have cached the same one-time prekey of a third; (4) tickets,
  with a block list that changes at the node with two read loops; (5) time syncs
  between nodes whose clocks differ by two, over three ticks.
* `NodeJoin`: (1) a chat that needs the peer's prekey, sent before or after the nodes
  meet; (2) a crash of either node or of the seed, with a `Join` that fails; (3) two
  broadcasts through a filter of one.

Deadlock is checked in `NodeRelay` and `NodeJoin`: read loops, keep-alive and the
store's loop never leave everyone waiting. The other runs stop at their
bounds of height and slot, or at a torn file, so it is not checked there.

Fairness. `EngineLive`: the slot loop's ticker, the goroutine that is inside
`ProposeOnce`, the clock, and an operator who restarts a node; each conjunct is
weak fairness with the guard of the action written in place of `ENABLED`.
`NodeJoin` (`Node!Fairness`): WF for the hello and the store's loop of a joined
node, for a handler that has begun and for a packet that is being mined (tickers and
running goroutines); SF for the discovery and the key flood of a joined node that
reaches its peer, and for reading a greeting or a flood. These stand for a datagram
that is sent again and again and arrives in the end; they must be strong because a busy
read loop and the bounds on what is on the wire interrupt them. Nothing is assumed of
users, clocks, crashes, restarts, the disk, or of any single datagram.
The properties suppose `StaysJoined`: from some time on the nodes that reach the seed run,
with the loops `Join` starts.

## 4. Findings

1. `state.go:329`: an unstake whose fee comes from the amount creates the fee
   (`types.go:32` "no inflation beyond genesis allocation").
2. `state.go:353`: bootstrap is measured in heights; `README.md:46` says slots.
3. `consensus.go:30`: equal slots are accepted at all heights; the comment above
   it says only at height 0. No block that `ProposeOnce` builds uses this.
4. `types.go:42`: the pool lasts 84,000 blocks and the first halving is at 210,240
   (`Guide/guide.md:53`).

What the models showed besides, without a run of its own. Each is an exception in a property
(named in brackets), and dropping the exception makes TLC find the case:

* When the seed does not answer at start, `Join` (`node.go:198`) returns before it
  starts its loops; `StartMesh` goes on (`service.go:242` "still run local mesh +
  chain"), and the node finds no peer and sends nothing it stored for as long as
  it runs (`joined` in `StaysJoined`).
* "Do not leave orphan funding txs" (`engine.go:267`) fails when the miner's
  candidate already holds the transfer, when the burn is evicted before its
  ticket is issued, or when the process ends: the key is in memory only (`doomed`).
* With sockets for udp4 and udp6 at the receiver, both read loops can derive from one
  one-time prekey (`OPKSingleUse` is stated of receivers with one).
* Items `dtnLoop` has taken out are lost when the target is not a neighbour: nothing
  pushes them again, as `dtn/store.go:91` asks (`BroadcastKept` speaks of broadcasts).
* Neighbours are never removed from the table: a packet sent to dead ones only is
  lost instead of stored (`crashes = 0` in `BroadcastKept`).
* The first clock sample of a process is not compared with anything; a bad one
  makes it refuse fresh packets (`Near` in `TimeStaysRight`).

And what is plain from the code, without a model: the responder never uses three
exchanges while it has a one-time prekey, so a second message from an initiator that
has not heard the new bundle is not opened; a one-time prekey is consumed before the
message has opened; the key flood that falls between `ConsumeOPK` and
`RotateOPK` carries no one-time prekey; a packet is stamped before its proof of
work is mined; the worker's cursor skips signals beyond the first hundred.

## 5. Proofs

`tlapm M.tla` checks each module named `...Proofs`; all theorems are for every value
of the constants that the named assumptions of the modules allow (`ConstantsAssumption`,
`BoundsAssumption`, `EngineAssumption`, `RingAssumption`, `NodeAssumption`, ...: any number of
accounts, nodes, sockets and chats, any supply, reward, fee, clock, skew and capacity) and
for behaviours of any length. Three theorems need more, and say so in their statement:
`PrekeysUsedOnce` (one read loop per node), and `PendingLeaves` and `LostNoncesHaveRivals`
(no failing writes).

| Theorem | States | Module |
|---|---|---|
| `TypeCorrect`, `SupplyIsAccounted`, `OthersTxsCostNothing` | `TypeOK`, `SupplyAccounted`, `OnlyOwnTxsCost` | `LedgerProofs` |
| `PoolFollowsSchedule`, `BurnsCost`, `ElectionIsProportional` | `IssuanceOnSchedule`, `BurnsDestroyValue`, `ProportionalElection` | `LedgerProofs` |
| `CoinbasesAsScheduled` | `PaidAsScheduled` | `ValidationProofs` |
| `StateFollowsChain`, `FileRecovers`, `ChainsHaveTxOnce`, `SlotsGrow` | `StateIsReplay`, `RestartRecovers`, `TxOnce`, `SlotsIncrease` | `EngineProofs` |
| `NobodyEquivocates`, `OneProposerElected`, `PendingLeaves`, `EngineTypes` | `NoEquivocation`, `OneProposerPerSlot`, `PendingNotIncluded`, `TypeOK` | `EngineProofs` |
| `ImplementsTree` | `TreeSpec`: `Engine` implements `BlockTree` | `EngineProofs` |
| `BurnersNotOrphaned`, `MessagesPaidOnce`, `AcceptedTicketsKept` | `FundingNotOrphaned`, `PaidOnce`, `AcceptedStaysKnown` | `TicketsProofs` |
| `LostNoncesHaveRivals`, `TicketsTypes` | `StaleTxHasRival`, `TicketsTypeOK` | `TicketsProofs` |
| `FilterSound`, `PrekeysUsedOnce`, `NodeTypes`, `ClockStaysRight` | `RingSound`, `OPKSingleUse`, `TypeOK`, `TimeStaysRight` | `NodeProofs` |
| `OwnChatsStayOut`, `CarriedIsDurable`, `BroadcastsAreKept` | `NoEcho`, `CarryDurable`, `BroadcastKept` | `ChatProofs` |
| `NodesDeliver` | `DeliverySpec`: `Node` implements `Delivery` while no filter is full | `ChatProofs` |

**Ledger.** No balance, stake or pool ever goes below zero, which in the code would wrap
around. The properties speak about the state between blocks, but a block reaches it through
the clone, so `LedgerProofs!Inv` relates the two while a block is open: the clone is typed,
accounts for the supply, and compared with the live state each account either holds at least
as much or has used a nonce. Every transaction type has one lemma (`TransferSound`,
`BurnSound`, ...) saying that it keeps such a state sound. Conservation needs `TotalChange`,
that a sum over accounts changes by what the changed account changes, which `CommonProofs`
derives from the existence of prefix sums by well-founded recursion. The schedule needs to
know what of its reward an open block has taken; the burns, that each one on record has used a
nonce, so that none is counted twice. `DrawsOf` shows that the draws that elect a validator are
an interval as long as its weight.

**Validation.** Every block of a chain has the coinbase its height asks for: the check of
`ValidateBlock` on place, receiver and upper bound and that of `applyCoinbase` on the exact
amount leave no gap together.

**Engine.** `EngineProofs!Inv` has a conjunct for each thing a node keeps. The chain is
*lawful* (`BlocksProofs`: every block is typed, its proposer elected, and the replay of
the blocks goes through), the state is its replay, the file is torn or a beginning of the
chain, a candidate is a block the node built, and what is on the wire was made. None of the
properties is inductive by itself. `TxOnce` rests on the nonces a replay has spent
(`LawfulOnce`). `NoEquivocation` has to survive a crash, which may take the end of the chain
away: `SentOK` says that a block that was *sent* is still in the memory of its proposer and
in its file unless that is torn, because `ProposeOnce` sends only after the write has
succeeded and a node with a torn file does not come back. Two blocks of one height in one
chain are one block. `OneProposerPerSlot` follows because the election is a function of the
parent's state and the slot.

The refinement: `BlockTree` keeps the tree of blocks and the head of each node. A successful
`ProposeBlock` grows the tree and climbs, `ReceiveBlock` climbs or stutters, a crash falls
back to an ancestor, and every other action stutters (`TreeStep`, from `Inv`).

`PendingLeaves` is stated for `DiskFaults = FALSE`: `acceptLocked` returns the error of a
failed write before it clears the mempool, so with failing writes the property is false, and
the run that checks it has none.

**Payments.** `TicketsProofs!PayInv` is `EngineProofs!Inv`, which the steps of a payment keep
(`PaymentInv`), with `Calls` (what the local variables of a call hold at each step, and that
no message is posted twice) and, for each message that is not `doomed`, `PayOK`. A transaction is
*around* when it is in a mempool, an unfinished block, a chain (the file is a beginning of
it) or any block made so far, or on the wire. `PayOK` says at which steps of the call the
transfer to the burner, the burner's burn and the main account's burn may be around
(`FundsOK`, `BurnsOK`, `PaysOK`), and that after the call a ticket was posted for what is;
that the transfer, while `AnonymousBurn` waits for its block, has left its sender
only inside a block of the sender's chain (`HomeOK`); and that it is in that chain when the
burner is to burn (`PaidOK`). `HomeOK` is what the rest turns on: the transfer is broadcast to
nobody, so when the burner is not funded and no unfinished block holds the transfer, taking it out
of the one mempool leaves nothing of it anywhere, and the main account may burn. What the
miner, the users and the peers do to a payment is one lemma, `ChainMoves`: it moves no
transaction of a payment except from a mempool through an unfinished block of that node into its
chain. Then:

* `MessagesPaidOnce`: the two ways to pay are around at steps of one call that exclude one
  another, or under two tickets for one message, of which there is one.
* `BurnersNotOrphaned`: while nothing of a burner's is in a chain that replays, the replay
  gives it nothing (`BurnerHolds`); `BurnerMayBurn` shows that a burner that was paid is
  never refused, so a call reaches the fallback from there only by eviction.
* `LostNoncesHaveRivals`: the replay of a chain skips no nonce (`NoncesFilled`), so what
  spent a lost nonce is in the chain, and `PendingNotIncluded`, kept by payments too
  (`PendingPays`), makes it another transaction.
* `AcceptedTicketsKept`: of each action, that it takes out of a mempool only what it puts into
  the chain, a transfer, or the oldest of a full mempool (`AdmitDrops`).

What the proof adds to the run: two payments of one node cannot mix, for any number of
messages, and neither frames received again nor writes that fail lead to a loss beyond the
three cases that `doomed` records. It needs of the constants (`TicketsAssumption`) that a
burner is drawn for one message and that no other operation pays it or refers to the message,
as the key is fresh and the reference is the hash of the message.

**Node.** `NodeInv` is the common ground: the types of the mesh, of the clocks, stamps and
bundles (`Stamped`), where chats are (`Spread`: datagrams, read loops, inboxes, stores, files
and carried queues hold only chats that were sent, stamped like their packets), and the filter
(`Local`). On it rest:

* `FilterSound`. The order may hold a key twice, when two read loops insert it; the
  invariant is that each key of the set is somewhere in the order. Eviction keeps it: the
  filter may forget early and never remembers what it has dropped.
* `PrekeysUsedOnce`. `PrekeyInv` orders things in time: the keys in an inbox are of prekeys
  before that of the bundle, and what the read loop has derived and not yet used is of the
  prekey the bundle has now. With two read loops the second part is false.
* `ClockStaysRight`. What `Verify` accepts is within the skew of the network time, which is
  within the skew of the wall clock; the halved average of samples within twice the skew is
  within the skew (`OffsetBound`: truncating division, a sum over a window of any length).
* `OwnChatsStayOut`. `EchoInv`: what a process has sent is in its filter, and neither in the
  hands of a read loop nor in the inbox. The stamp says which process sent it.
* `CarriedIsDurable`. `DurableInv` compares store and file with the history of pushes by
  position from the end (`Kept`): what expires in between can only move an item towards the end,
  so the bound of the store never drops one of the last `StoreMax`.
* `BroadcastsAreKept`. `QuietInv`, for as long as nothing has crashed: every process has its
  first address, so what is sent to a link arrives; `dtnLoop` holds items only while there is
  a link, and links do not go away; the store holds chats of its own node, once each, so a
  sender that has begun no more than `StoreMax` never overfills it.
* `NodesDeliver`. `OnceInv` counts: the copies of a chat in an inbox and the read loops that
  are past the filter's first look with it are together no more than the read loops of the
  node, and while the filter lacks the chat there is no copy yet. Each action that appends to
  an inbox is `Delivery!Deliver`, a crash is `Forget`, `Finish` is `Send`, the rest stutters.
  The theorem supposes that no filter is full: one that has evicted a key takes the chat
  again, and the code promises nothing then.

**Only model-checked.** The liveness properties (`MinerReachesSlot`, `MeshForms`,
`KeysConverge`, `CarriedOut`): the prover handles no `ENABLED`, so no fairness. And the
four findings, which are counterexamples. That the pruning of `Carry`, `Pick` and `Without` of the
engine, and totals compute what they should is proved as far as the theorems need
(`UnexpiredKeeps`, `PushKeeps`, `OffsetBound`, ...), by least counterexample over the length,
since the induction theorems of the library cannot be used. For this these operators are
recursive functions over indices (`Pick`, `Without`, `Unexpired`, `Total`) and not RECURSIVE
operators or folds.

## 6. Not modelled

* Ledger: the public keys an account publishes, timestamps within a slot's window, block
  size, signatures and hashing (assumed right); `network_params` and `init_alert`
  (no effect on the ledger). A crash while genesis is first written leaves an
  unreadable file, as `CrashInWrite` does.
* Messages: alerts, the difficulty of the proof of work, `RequireVerified`, padding,
  sizes, write errors of a socket; the text of a message and its cryptography.
* Trust store: it pins the first keys seen of a node. An identity's keys never
  change, so no two observations conflict among the nodes modelled.
* Signals of the seed: no node posts or pulls them.
* `RequireTicket` and `TicketValidator` being set after the mesh reads already:
  both settings are explored, the switch between them is not.
* The legacy burn ledger (nothing spends from it), identity, configuration, secrets, alert
  key and user interfaces: files, pure functions and calls of the facade.

## 7. Plan

1. Done: ledger, election, blocks, validation, engine and its refinement, emission;
   payments; mesh, message node and its refinement; the theorems of section 5, which cover
   every safety property of the runs.
2. Proofs next: an abstract specification of a payment (one message, one of two payers, or
   doomed) that `Tickets` implements, from `PayInv`; `PendingNotIncluded` with failing writes,
   up to the transactions of the block whose write failed.
3. Models next: validation with the timestamp window; a block sent over the
   neighbour table of `Mesh` instead of to all; time-outs of tickets by age.
