-------------------------------- MODULE Node --------------------------------
(***************************************************************************)
(* The message node (internal/node/node.go) on the mesh: chats and their   *)
(* relay, prekey bundles and time synchronisation, with the duplicate      *)
(* filter, the carry store, the network clock and the sessions of Ring,    *)
(* Carry, NetClock and Prekeys.                                            *)
(*                                                                         *)
(* Each socket (udp4, udp6) has a read loop, which handles one datagram at *)
(* a time.  onP2PPacket holds no lock across the handling of a chat, so    *)
(* it is split where the two loops, a send or a loop of the node can come  *)
(* between: before Ring.Add, inside it (it looks, then inserts), and       *)
(* around ConsumeOPK and RotateOPK.  Control packets (key floods, time     *)
(* syncs) are new packets each time and touch each part once: one action.  *)
(***************************************************************************)
EXTENDS Mesh, Ring, NetClock, Prekeys, Carry

CONSTANTS
  Sockets,        \* the read loops of each node: udp4, and udp6 where there is one
  Chats,          \* chat -> [from, to, ttl]: what users send, once each
  Everyone,       \* the target of a broadcast
  MaxHops,        \* protocol.MaxHops
  Skew,           \* protocol.TimeSkewMax
  Drift,          \* how far the wall clock of a node is off
  MaxInbox,       \* bound: messages of an inbox
  MaxOPK          \* bound: one-time prekeys that a process uses up

ASSUME NodeAssumption ==
  /\ Everyone \notin Nodes
  /\ \A c \in DOMAIN Chats :
       Chats[c].from \in Nodes /\ Chats[c].to \in Nodes \cup {Everyone} /\ Chats[c].ttl \in Nat
  /\ DOMAIN Sockets = Nodes /\ \A n \in Nodes : IsFiniteSet(Sockets[n])
  /\ \A c \in Scenes :
       /\ c.chats \subseteq DOMAIN Chats    \* bound: which are sent
       /\ c.tickets \in BOOLEAN             \* Node.RequireTicket
       /\ c.blocks \subseteq Nodes \X Nodes  \* bound: who may block whom
       /\ c.keys \subseteq Nodes            \* bound: who floods its bundle
       /\ c.times \subseteq Nodes           \* bound: who floods its time
       /\ c.horizon \in Nat                 \* bound: ticks of time
       /\ c.floods \in Nat                  \* bound: control packets on the wire
  /\ Drift \in [Nodes -> Int]
  /\ {MaxHops, Skew, MaxInbox, MaxOPK} \subseteq Nat

VARIABLES
  now,      \* time
  ring,     \* Node.Dedup
  blocked,  \* Node.blocked
  samples,  \* Node.Clock
  bundle,   \* Node.Bundle
  remote,   \* Node.bundles: of each peer, or NoBundle
  hand,     \* what each read loop is doing
  inbox,    \* Node.inbox: chats, and the keys that opened them
  store,    \* Node.DTN
  file,     \* dtn-queue.json
  carried,  \* what dtnLoop has taken out of the store and not yet sent
  burns,    \* the chats whose burn the chain of the node has, or its mempool
  stage,    \* of each chat: unsent, mining, sent, or lost with its process
  pkts,     \* its packet
  net,      \* datagrams with chats
  floods,   \* datagrams with key floods and time syncs
  pushed    \* history: the chats put in the store since it was last emptied

chatVars == <<ring, blocked, samples, bundle, remote, hand, inbox, store, file,
              carried, burns, stage, pkts, net, floods, pushed>>
vars == <<meshVars, now, chatVars>>

Idle     == [phase |-> "idle"]
NoPacket == [ts |-> 0, exp |-> 0, key |-> NoBundle, life |-> 0]
StaticKey == NoBundle   \* of a broadcast, or derived from the long-term keys

Init ==
  /\ MeshInit
  /\ now = 0
  /\ ring = [n \in Nodes |-> EmptyRing]
  /\ blocked = [n \in Nodes |-> {}]
  /\ samples = [n \in Nodes |-> <<>>]
  /\ bundle = [n \in Nodes |-> GenerateBundle(1)]
  /\ remote = [n \in Nodes |-> [m \in Nodes |-> NoBundle]]
  /\ hand = [n \in Nodes |-> [s \in Sockets[n] |-> Idle]]
  /\ inbox = [n \in Nodes |-> <<>>]
  /\ store = [n \in Nodes |-> <<>>]
  /\ file = [n \in Nodes |-> <<>>]
  /\ carried = [n \in Nodes |-> <<>>]
  /\ burns = [n \in Nodes |-> {}]
  /\ stage = [c \in DOMAIN Chats |-> "unsent"]
  /\ pkts = [c \in DOMAIN Chats |-> NoPacket]
  /\ net = {}
  /\ floods = {}
  /\ pushed = [n \in Nodes |-> <<>>]

Wall(n)    == now + Drift[n]
NetTime(n) == Wall(n) + Offset(samples[n])

Datagram(c, n, m, hops) == [chat |-> c, from |-> n, to |-> m, src |-> Addr(n), hops |-> hops]

\* SendPacket, ForwardPacket and SendToNode of a chat to some of the links.
Sent(c, n, targets, hops) ==
  {Datagram(c, n, m, hops) : m \in {x \in Links(n) \cap targets : Arrives(x, table[n][x])}}

Distance(a, b) == IF a > b THEN a - b ELSE b - a

\* Packet.Verify, of what honest nodes send: hops and clock skew. A node
\* without a sample yet does not look at the clock. (A chat also expires.)
Verifies(n, hops, ts) ==
  /\ hops <= MaxHops
  /\ samples[n] # <<>> => Distance(NetTime(n), ts) <= Skew

Free(n) == {s \in Sockets[n] : hand[n][s] = Idle}

-----------------------------------------------------------------------------
(* Control packets *)

Flood(n, kind, heard) ==
  /\ up[n]
  /\ Cardinality(floods) + Cardinality(heard) <= scene.floods
  /\ floods' = floods \cup
       {[kind |-> kind, origin |-> n, body |-> Public(bundle[n]), ts |-> NetTime(n),
         from |-> n, to |-> m, src |-> Addr(n), hops |-> 0] :
           m \in {x \in heard \cap Links(n) : Arrives(x, table[n][x])}}
  /\ UNCHANGED <<meshVars, now, ring, blocked, samples, bundle, remote, hand, inbox, store,
                 file, carried, burns, stage, pkts, net, pushed>>

\* Each is sent by discoverLoop; a new bundle by the handler that made it, too.
FloodKeyBundle(n, heard) ==
  /\ n \in scene.keys /\ (joined[n] \/ bundle[n].opk > 1)
  /\ Flood(n, "keys", heard)
FloodTimeSync(n, heard) == n \in scene.times /\ joined[n] /\ Flood(n, "time", heard)

\* Mutant: a cached bundle is kept.
KeepFirstBundle(n, f) ==
  IF f.kind = "keys" /\ remote[n][f.origin] = NoBundle
  THEN [remote EXCEPT ![n][f.origin] = f.body] ELSE remote

\* A key flood replaces the cached bundle of its sender.
CacheBundle(n, f) ==
  IF f.kind = "keys" THEN [remote EXCEPT ![n][f.origin] = f.body] ELSE remote

\* handleDatagram and onP2PPacket for a key flood or a time sync. The sample
\* is observed before the sender is looked up among the blocked ones.
ReadFlood(n, m) ==
  \E f \in floods :
    /\ f.to = n /\ f.from = m
    /\ Free(n) # {}
    /\ table' = Touch(n, m, f.src)
    /\ IF Verifies(n, f.hops + 1, f.ts)
       THEN /\ samples' = [samples EXCEPT ![n] = Observe(@, f.ts - Wall(n))]
            /\ remote' = IF f.origin \in blocked[n] THEN remote ELSE CacheBundle(n, f)
            /\ floods' = (floods \ {f}) \cup
                 (IF f.origin \notin blocked[n] /\ f.kind = "keys" /\ f.hops + 1 < MaxHops
                  THEN {[f EXCEPT !.from = n, !.to = x, !.src = Addr(n), !.hops = @ + 1] :
                          x \in {y \in Links(n) \ {m} : Arrives(y, table[n][y])}}
                  ELSE {})
       ELSE /\ floods' = floods \ {f}
            /\ UNCHANGED <<samples, remote>>
    /\ UNCHANGED <<scene, up, life, joined, directory, pending, known, wire, crashes, now, ring, blocked,
                   bundle, hand, inbox, store, file, carried, burns, stage, pkts, net, pushed>>

-----------------------------------------------------------------------------
(* Sending a chat *)

\* The one-time prekey of a cached bundle is used once.
Stripped(n, m) == [remote EXCEPT ![n][m] = StripRemoteOPK(@)]

\* sessionKeyFor takes the key from the cached bundle, or the long-term key of
\* a peer it knows, or of one the seed lists, which it then ingests.
\* buildAndSend stamps the packet and begins to mine; when no ticket can be
\* had it gives up, and what the session key took is not put back.
Send(c, ticketed, heard) ==
  LET n == Chats[c].from
      m == Chats[c].to
      cached == m # Everyone /\ remote[n][m] # NoBundle
      looksUp == m # Everyone /\ ~cached /\ m \notin known[n]
  IN  /\ up[n] /\ stage[c] = "unsent"
      /\ remote' = IF cached THEN Stripped(n, m) ELSE remote
      /\ IF looksUp
         THEN /\ n \in scene.reach /\ Listed(m) # {}
              /\ Cardinality(wire) < MaxWire
              /\ Ingest(n, {directory[i] : i \in Listed(m)}, heard)
         ELSE heard = {} /\ UNCHANGED <<known, pending, wire>>
      /\ IF ticketed
         THEN /\ stage' = [stage EXCEPT ![c] = "mining"]
              /\ pkts' = [pkts EXCEPT ![c] =
                   [ts |-> NetTime(n), exp |-> NetTime(n) + Chats[c].ttl, life |-> life[n],
                    key |-> IF cached THEN InitiatorSecret(remote[n][m]) ELSE StaticKey]]
              /\ burns' = IF scene.tickets THEN [burns EXCEPT ![n] = @ \cup {c}] ELSE burns
         ELSE /\ scene.tickets
              /\ UNCHANGED <<stage, pkts, burns>>
      /\ UNCHANGED <<scene, up, life, joined, directory, table, crashes, now, ring, blocked, samples, bundle,
                     hand, inbox, store, file, carried, net, floods, pushed>>

\* Store.saveLocked; after a file that did not parse the store has no path.
Saved(n, q) == IF file[n] = Torn THEN file ELSE [file EXCEPT ![n] = q]

\* Mutant: the sender does not enter its packet in its own filter.
FinishUnseen(c) ==
  LET n == Chats[c].from
      it == [id |-> c, exp |-> pkts[c].exp, target |-> Chats[c].to]
  IN  /\ up[n] /\ stage[c] = "mining"
      /\ stage' = [stage EXCEPT ![c] = "sent"]
      /\ IF Links(n) = {}
         THEN /\ store' = [store EXCEPT ![n] = Push(@, it, Wall(n))]
              /\ file' = Saved(n, store'[n])
              /\ pushed' = [pushed EXCEPT ![n] = Append(@, it)]
              /\ UNCHANGED net
         ELSE /\ net' = net \cup Sent(c, n, Nodes, 0)
              /\ UNCHANGED <<store, file, pushed>>
      /\ UNCHANGED <<meshVars, now, ring, blocked, samples, bundle, remote, hand, inbox,
                     carried, burns, pkts, floods>>

\* The packet is mined and signed: it goes to the links, or into the store.
Finish(c) ==
  LET n == Chats[c].from
      it == [id |-> c, exp |-> pkts[c].exp, target |-> Chats[c].to]
  IN  /\ up[n] /\ stage[c] = "mining"
      /\ stage' = [stage EXCEPT ![c] = "sent"]
      /\ ring' = [ring EXCEPT ![n] = Add(@, c)]
      /\ IF Links(n) = {}
         THEN /\ store' = [store EXCEPT ![n] = Push(@, it, Wall(n))]
              /\ file' = Saved(n, store'[n])
              /\ pushed' = [pushed EXCEPT ![n] = Append(@, it)]
              /\ UNCHANGED net
         ELSE /\ net' = net \cup Sent(c, n, Nodes, 0)
              /\ UNCHANGED <<store, file, pushed>>
      /\ UNCHANGED <<meshVars, now, blocked, samples, bundle, remote, hand, inbox,
                     carried, burns, pkts, floods>>

-----------------------------------------------------------------------------
(* The store: dtnLoop *)

\* Mutant: the items are taken out although there is no link.
PopUnlinked(n) ==
  /\ up[n] /\ joined[n] /\ carried[n] = <<>>
  /\ carried' = [carried EXCEPT ![n] = Unexpired(store[n], Wall(n))]
  /\ store' = [store EXCEPT ![n] = <<>>]
  /\ file' = Saved(n, <<>>)
  /\ pushed' = [pushed EXCEPT ![n] = <<>>]
  /\ UNCHANGED <<meshVars, now, ring, blocked, samples, bundle, remote, hand, inbox, burns,
                 stage, pkts, net, floods>>

\* Mutant: the items stay in the store.
PopKeeping(n) ==
  /\ up[n] /\ joined[n] /\ Links(n) # {} /\ carried[n] = <<>>
  /\ carried' = [carried EXCEPT ![n] = Unexpired(store[n], Wall(n))]
  /\ UNCHANGED <<meshVars, now, ring, blocked, samples, bundle, remote, hand, inbox, store, file,
                 burns, stage, pkts, net, floods, pushed>>

\* Takes all items that have not expired.
PopReady(n) ==
  /\ up[n] /\ joined[n] /\ Links(n) # {} /\ carried[n] = <<>>
  /\ carried' = [carried EXCEPT ![n] = Unexpired(store[n], Wall(n))]
  /\ store' = [store EXCEPT ![n] = <<>>]
  /\ file' = Saved(n, <<>>)
  /\ pushed' = [pushed EXCEPT ![n] = <<>>]
  /\ UNCHANGED <<meshVars, now, ring, blocked, samples, bundle, remote, hand, inbox, burns,
                 stage, pkts, net, floods>>

\* A broadcast goes to the links, and a packet for one peer to that peer alone;
\* what cannot be sent is not put back.
SendCarried(n) ==
  /\ up[n] /\ carried[n] # <<>>
  /\ LET it == Head(carried[n])
     IN  net' = net \cup Sent(it.id, n, IF it.target = Everyone THEN Nodes ELSE {it.target}, 0)
  /\ carried' = [carried EXCEPT ![n] = Tail(@)]
  /\ UNCHANGED <<meshVars, now, ring, blocked, samples, bundle, remote, hand, inbox, store,
                 file, burns, stage, pkts, floods, pushed>>

-----------------------------------------------------------------------------
(* Receiving a chat: a read loop s of n *)

InPhase(n, s, phase) == hand[n][s].phase = phase

\* handleDatagram, and onP2PPacket until Dedup.Add.
Read(n, s) ==
  \E d \in net :
    LET p == pkts[d.chat]
        hops == d.hops + 1
    IN  /\ d.to = n /\ up[n] /\ Len(inbox[n]) < MaxInbox /\ bundle[n].opk <= MaxOPK
        /\ hand[n][s] = Idle
        /\ table' = Touch(n, d.from, d.src)
        /\ IF ~Seen(ring[n], d.chat) /\ Verifies(n, hops, p.ts) /\ NetTime(n) <= p.exp
           THEN /\ samples' = [samples EXCEPT ![n] = Observe(@, p.ts - Wall(n))]
                /\ hand' = [hand EXCEPT ![n][s] =
                     [phase |-> "fresh", chat |-> d.chat, from |-> d.from, hops |-> hops]]
           ELSE UNCHANGED <<samples, hand>>
        /\ UNCHANGED <<scene, up, life, joined, directory, pending, known, wire, crashes, now, ring, blocked,
                       bundle, remote, inbox, store, file, carried, burns, stage, pkts, net,
                       floods, pushed>>

\* Ring.Add looks once more.
Look(n, s) ==
  /\ InPhase(n, s, "fresh")
  /\ hand' = [hand EXCEPT ![n][s] =
                IF Seen(ring[n], hand[n][s].chat) THEN Idle
                ELSE [hand[n][s] EXCEPT !.phase = "new"]]
  /\ UNCHANGED <<meshVars, now, ring, blocked, samples, bundle, remote, inbox, store, file,
                 carried, burns, stage, pkts, net, floods, pushed>>

Addressed(n, c)  == Chats[c].to \in {n, Everyone}
TicketHolds(n, c) == scene.tickets => c \in burns[n]
Message(c, key)  == [chat |-> c, key |-> key]

\* Mutant: the packet is not entered in the filter.
HandleUnentered(n, s) ==
  LET h == hand[n][s]
      c == h.chat
      mine == Chats[c].from \notin blocked[n] /\ TicketHolds(n, c) /\ Addressed(n, c)
  IN  /\ h.phase = "new"
      /\ inbox' = IF mine THEN [inbox EXCEPT ![n] = Append(@, Message(c, StaticKey))] ELSE inbox
      /\ hand' = [hand EXCEPT ![n][s] = Idle]
      /\ UNCHANGED <<meshVars, now, ring, blocked, samples, bundle, remote, store, file, carried,
                     burns, stage, pkts, net, floods, pushed>>

\* Ring.Add inserts, and onP2PPacket goes on: a blocked sender is dropped; the
\* packet is forwarded, then its ticket validated; then it is decrypted if it
\* is for this node. A session key is derived from the bundle as it is now.
Handle(n, s) ==
  LET h == hand[n][s]
      c == h.chat
      welcome == Chats[c].from \notin blocked[n]
      mine    == welcome /\ TicketHolds(n, c) /\ Addressed(n, c)
      static  == pkts[c].key = StaticKey
  IN  /\ h.phase = "new"
      /\ ring' = [ring EXCEPT ![n] = Add(@, c)]
      /\ net' = IF welcome /\ h.hops < MaxHops
                THEN net \cup Sent(c, n, Nodes \ {h.from}, h.hops) ELSE net
      /\ inbox' = IF mine /\ static
                  THEN [inbox EXCEPT ![n] = Append(@, Message(c, StaticKey))] ELSE inbox
      /\ hand' = [hand EXCEPT ![n][s] =
           IF mine /\ ~static
           THEN [phase |-> "derived", chat |-> c, secret |-> ResponderSecret(bundle[n])]
           ELSE Idle]
      /\ UNCHANGED <<meshVars, now, blocked, samples, bundle, remote, store, file, carried,
                     burns, stage, pkts, floods, pushed>>

\* A key that took the one-time prekey uses it up, whoever has it by now; and
\* before the key has opened anything.
Consume(n, s) ==
  LET h == hand[n][s]
  IN  /\ h.phase = "derived" /\ h.secret.opk # NoOPK
      /\ bundle' = [bundle EXCEPT ![n] = ConsumeOPK(@)]
      /\ hand' = [hand EXCEPT ![n][s] =
           [h EXCEPT !.phase = IF bundle[n].has THEN "consumed" ELSE "opening"]]
      /\ UNCHANGED <<meshVars, now, ring, blocked, samples, remote, inbox, store, file, carried,
                     burns, stage, pkts, net, floods, pushed>>

\* A new one-time prekey, which FloodKeyBundle publishes in its own time; and
\* the message, if the key is the one the sender had.
Open(n, s) ==
  LET h == hand[n][s]
  IN  /\ \/ h.phase \in {"consumed", "opening"}
         \/ h.phase = "derived" /\ h.secret.opk = NoOPK
      /\ bundle' = IF h.phase = "consumed" THEN [bundle EXCEPT ![n] = RotateOPK(@)] ELSE bundle
      /\ inbox' = IF h.secret = pkts[h.chat].key
                  THEN [inbox EXCEPT ![n] = Append(@, Message(h.chat, h.secret))] ELSE inbox
      /\ hand' = [hand EXCEPT ![n][s] = Idle]
      /\ UNCHANGED <<meshVars, now, ring, blocked, samples, remote, store, file, carried, burns,
                     stage, pkts, net, floods, pushed>>

-----------------------------------------------------------------------------
(* The rest *)

\* The chain of n comes to have a burn that the chain of a neighbour has.
LearnBurn(n, m) ==
  /\ up[n] /\ up[m] /\ n \in Links(m)
  /\ \E c \in burns[m] \ burns[n] : burns' = [burns EXCEPT ![n] = @ \cup {c}]
  /\ UNCHANGED <<meshVars, now, ring, blocked, samples, bundle, remote, hand, inbox, store,
                 file, carried, stage, pkts, net, floods, pushed>>

Block(n, m) ==
  /\ up[n] /\ <<n, m>> \in scene.blocks
  /\ \/ blocked' = [blocked EXCEPT ![n] = @ \cup {m}]
     \/ blocked' = [blocked EXCEPT ![n] = @ \ {m}]
  /\ UNCHANGED <<meshVars, now, ring, samples, bundle, remote, hand, inbox, store, file,
                 carried, burns, stage, pkts, net, floods, pushed>>

Tick ==
  /\ now < scene.horizon
  /\ now' = now + 1
  /\ UNCHANGED <<meshVars, chatVars>>

\* May the process be inside Store.saveLocked?
Writing(n) ==
  \/ Links(n) = {} /\ \E c \in DOMAIN Chats : Chats[c].from = n /\ stage[c] = "mining"
  \/ joined[n] /\ Links(n) # {} /\ carried[n] = <<>>

\* The file may be left torn, and the chain without the last of the mempool.
Crash(n) ==
  /\ MeshCrash(n)
  /\ file' \in {file} \cup IF Writing(n) THEN {[file EXCEPT ![n] = Torn]} ELSE {}
  /\ burns' \in {burns, [burns EXCEPT ![n] = {}]}
  /\ ring' = [ring EXCEPT ![n] = EmptyRing]
  /\ blocked' = [blocked EXCEPT ![n] = {}]
  /\ samples' = [samples EXCEPT ![n] = <<>>]
  /\ bundle' = [bundle EXCEPT ![n] = GenerateBundle(life[n] + 1)]
  /\ remote' = [remote EXCEPT ![n] = [m \in Nodes |-> NoBundle]]
  /\ hand' = [hand EXCEPT ![n] = [s \in Sockets[n] |-> Idle]]
  /\ inbox' = [inbox EXCEPT ![n] = <<>>]
  /\ store' = [store EXCEPT ![n] = <<>>]
  /\ carried' = [carried EXCEPT ![n] = <<>>]
  /\ stage' = [c \in DOMAIN Chats |->
                 IF Chats[c].from = n /\ stage[c] = "mining" THEN "lost" ELSE stage[c]]
  /\ net' = IF FixedPort THEN net ELSE {d \in net : d.to # n}
  /\ floods' = {f \in floods : f.to # n}
  /\ UNCHANGED <<now, pkts, pushed>>

\* Start: the store is read back from its file.
Restart(n) ==
  /\ MeshRestart(n)
  /\ store' = [store EXCEPT ![n] = Opened(file[n], Wall(n))]
  /\ UNCHANGED <<now, ring, blocked, samples, bundle, remote, hand, inbox, file, carried, burns,
                 stage, pkts, net, floods, pushed>>

\* A read loop handles a greeting.
Greeted(n, m) ==
  /\ Free(n) # {}
  /\ (\E answered \in BOOLEAN : ReadPunch(n, m, answered)) \/ ReadGreeting(n, m)
  /\ UNCHANGED <<now, chatVars>>

ReadLoop(n) ==
  \E s \in Sockets[n] :
    Read(n, s) \/ Look(n, s) \/ Handle(n, s) \/ Consume(n, s) \/ Open(n, s)

Next ==
  \/ MeshStep /\ UNCHANGED <<now, chatVars>>
  \/ Tick
  \/ \E c \in scene.chats :
       \/ Finish(c)
       \/ \E ticketed \in BOOLEAN, heard \in SUBSET {Chats[c].to} : Send(c, ticketed, heard)
  \/ \E n \in Nodes :
       \/ ReadLoop(n)
       \/ PopReady(n)
       \/ SendCarried(n)
       \/ Crash(n)
       \/ Restart(n)
       \/ \E heard \in SUBSET (Nodes \ {n}) : FloodKeyBundle(n, heard) \/ FloodTimeSync(n, heard)
       \/ \E m \in Nodes \ {n} :
            Greeted(n, m) \/ ReadFlood(n, m) \/ LearnBurn(n, m) \/ Block(n, m)

Spec == Init /\ [][Next]_vars

\* A datagram sent again and again arrives in the end, and a read loop does not
\* stop: both need SF where a bound, or a busy loop, interrupts them.
Fairness ==
  /\ \A n \in Nodes :
       /\ WF_vars(Hello(n) /\ UNCHANGED <<now, chatVars>>)
       /\ WF_vars(PopReady(n) \/ SendCarried(n))
       /\ \A s \in Sockets[n] :
            WF_vars(Look(n, s) \/ Handle(n, s) \/ Consume(n, s) \/ Open(n, s))
       /\ \A m \in Nodes \ {n} :
            /\ SF_vars(joined[n] /\ DiscoverOnce(n, {m}) /\ UNCHANGED <<now, chatVars>>)
            /\ SF_vars(joined[n] /\ FloodKeyBundle(n, {m}))
            /\ SF_vars(Greeted(n, m))
            /\ SF_vars(ReadFlood(n, m))
  /\ \A c \in DOMAIN Chats : WF_vars(Finish(c))

FairSpec == Spec /\ Fairness

-----------------------------------------------------------------------------
(* Properties *)

TypeOK ==
  /\ MeshTypeOK
  /\ now \in 0..scene.horizon
  /\ \A n \in Nodes :
       /\ ring[n] \in [order : Seq(DOMAIN Chats), set : SUBSET DOMAIN Chats]
       /\ blocked[n] \subseteq Nodes
       /\ samples[n] \in Seq(-Clamp..Clamp) /\ Len(samples[n]) <= MaxSamples
       /\ bundle[n] \in [spk : Nat, opk : Nat, has : BOOLEAN]
       /\ remote[n] \in [Nodes -> [spk : Nat, opk : Nat]]
       /\ Ids(store[n]) \cup Ids(carried[n]) \subseteq DOMAIN Chats
       /\ Len(store[n]) <= StoreMax
       /\ burns[n] \subseteq DOMAIN Chats
  /\ stage \in [DOMAIN Chats -> {"unsent", "mining", "sent", "lost"}]

InboxChats(n) == [i \in 1..Len(inbox[n]) |-> inbox[n][i].chat]

D == INSTANCE Delivery WITH
  sent    <- {c \in DOMAIN Chats : stage[c] = "sent"},
  inbox   <- [n \in Nodes |-> InboxChats(n)],
  Readers <- [n \in Nodes |-> Cardinality(Sockets[n])]

\* The nodes implement Delivery.
DeliverySpec == D!Spec

\* A process never receives its own packet, on whatever way it comes back: it
\* is in the filter before any neighbour has it, until the filter is full.
NoEcho ==
  \A c \in DOMAIN Chats :
    LET n == Chats[c].from
    IN  pkts[c].life = life[n] /\ ~IsFull(ring[n]) =>
          \A i \in 1..Len(inbox[n]) : inbox[n][i].chat # c

\* Each of the last StoreMax packets put in the store is there until it expires
\* or dtnLoop takes all, across restarts too, unless the file was torn.
CarryDurable ==
  \A n \in Nodes : up[n] /\ file[n] # Torn =>
    \A i \in 1..Len(pushed[n]) :
      i > Len(pushed[n]) - StoreMax /\ Wall(n) < pushed[n][i].exp =>
        pushed[n][i].id \in Ids(store[n])

\* As long as no process has crashed, and its sender has sent no more than the
\* store holds, a broadcast is in the store or in the hands of dtnLoop until it
\* has been sent to a link or has expired.
BroadcastKept ==
  \A c \in DOMAIN Chats :
    LET n == Chats[c].from
        begun == {d \in DOMAIN Chats : Chats[d].from = n /\ stage[d] # "unsent"}
    IN  /\ crashes = 0 /\ Cardinality(begun) <= StoreMax
        /\ stage[c] = "sent" /\ Chats[c].to = Everyone /\ Wall(n) < pkts[c].exp
        => c \in Ids(store[n]) \cup Ids(carried[n]) \/ \E d \in net : d.chat = c

Near(s) == \A i \in 1..Len(s) : s[i] \in -(2 * Skew)..(2 * Skew)

\* A node whose clock begins right stays right: whatever is delayed or carried,
\* and whatever clocks the others have, its network time never comes to differ
\* from its wall clock by more than the skew it allows.
TimeStaysRight ==
  [][\A n \in Nodes :
       samples[n] # <<>> /\ Near(samples[n]) =>
         Near(samples'[n]) /\ Offset(samples'[n]) \in -Skew..Skew]_vars

\* The filter stays within its capacity, and forgets each key that it evicts.
RingSound ==
  \A n \in Nodes :
    /\ Len(ring[n].order) <= Capacity
    /\ ring[n].set \subseteq ToSet(ring[n].order)

\* No two messages of an inbox were opened by keys of one one-time prekey, though
\* initiators cache the same bundle and datagrams are duplicated. (With one
\* read loop: two may derive from the same prekey before either consumes it.)
OPKSingleUse ==
  \A n \in Nodes : \A i, j \in 1..Len(inbox[n]) :
    i # j /\ inbox[n][i].key.opk # NoOPK => inbox[n][i].key # inbox[n][j].key

\* Liveness. Nodes that stay up come to hold the current bundle of one another
\* for good, whatever prekeys were used and whatever processes restarted.
KeysConverge ==
  StaysJoined =>
    <>[](\A n \in scene.reach, m \in scene.keys : n # m => remote[n][m] = Public(bundle[m]))

\* Liveness. What is in the store of a node leaves it when the nodes stay up.
CarriedOut ==
  StaysJoined =>
    \A n \in Nodes : []<>(n \in scene.reach => store[n] = <<>> /\ carried[n] = <<>>)
=============================================================================
