-------------------------------- MODULE Mesh --------------------------------
(***************************************************************************)
(* How nodes find and reach one another: the directory of the seed         *)
(* (_worker.js, cmd/msp-seed) and the UDP mesh (internal/p2p/udp.go, and   *)
(* the discovery of internal/node/node.go).                                *)
(*                                                                         *)
(* An address is a number, new in every run of a process unless its port   *)
(* is fixed.  A datagram to an address where nobody listens is gone, so    *)
(* the wire holds those that a running process can still read.  It is a    *)
(* set: they arrive in any order, and late.  A lost one is never put in.   *)
(* Envelope.src is the address the reader sees the datagram come from.     *)
(***************************************************************************)
EXTENDS Integers, FiniteSets, Sequences, SequencesExt

CONSTANTS
  Nodes,
  FixedPort,   \* do processes listen on a configured port
  SeedMax,     \* MAX_PEERS
  Seed,        \* the seed, as one that may crash
  Scenes,      \* bounds: what a behaviour begins with, and who does what in it
  MaxWire,     \* bound: greetings on the wire
  MaxCrashes   \* bound: crashes of the nodes and the seed together

ASSUME MeshAssumption ==
  /\ IsFiniteSet(Nodes) /\ Seed \notin Nodes
  /\ FixedPort \in BOOLEAN
  /\ SeedMax \in Nat \ {0}
  /\ \A c \in Scenes : /\ c.linked \subseteq Nodes \X Nodes
                       /\ c.reach \subseteq Nodes
                       /\ c.mortal \subseteq Nodes \cup {Seed}
                       /\ c.late \subseteq Nodes
  /\ {MaxWire, MaxCrashes} \subseteq Nat

VARIABLES
  scene,      \* the scene of this behaviour: linked (pairs of nodes: the first
              \* begins with the address of the second), reach (who can reach
              \* the seed), mortal (who may crash), late (who may have started
              \* when the seed did not answer)
  up,         \* is the process of the node running
  life,       \* which run of it this is, or the next one when it is down
  joined,     \* did its Join reach the seed: do discoverLoop and dtnLoop run
  directory,  \* the peers the seed lists, the first that said hello first
  table,      \* Mesh.neighbors: the address of a punched neighbour, or Nowhere
  pending,    \* Mesh.pending: the candidate to punch, or Nowhere
  known,      \* whose X25519 key the node knows: Neighbor.XPub and Node.peerX
  wire,       \* punch, punch_ok and keepalive datagrams
  crashes     \* history: how many crashes there were

meshVars == <<scene, up, life, joined, directory, table, pending, known, wire, crashes>>

Nowhere == 0

Addr(n) == IF FixedPort THEN 1 ELSE life[n]

MeshInit ==
  /\ scene \in Scenes
  /\ up = [n \in Nodes |-> TRUE]
  /\ life = [n \in Nodes |-> 1]
  /\ \E alone \in SUBSET scene.late : joined = [n \in Nodes |-> n \notin alone]
  /\ directory = <<>>
  /\ table = [n \in Nodes |-> [m \in Nodes |-> IF <<n, m>> \in scene.linked THEN 1 ELSE Nowhere]]
  /\ pending = [n \in Nodes |-> [m \in Nodes |-> Nowhere]]
  /\ known = [n \in Nodes |-> {m \in Nodes : <<n, m>> \in scene.linked}]
  /\ wire = {}
  /\ crashes = 0

\* The punched neighbours.
Links(n) == {m \in Nodes : table[n][m] # Nowhere}

\* Would a datagram of n to the address a of m reach a process?
Arrives(m, a) == up[m] /\ a = Addr(m)

Envelope(type, n, m) == [type |-> type, from |-> n, to |-> m, src |-> Addr(n)]

\* Mutant: a neighbour keeps the address it was first seen at.
TouchFirst(n, m, a) ==
  IF table[n][m] # Nowhere THEN table ELSE [table EXCEPT ![n][m] = a]

\* touch: the neighbour is at the address its datagram came from.
Touch(n, m, a) == [table EXCEPT ![n][m] = a]

-----------------------------------------------------------------------------
(* The seed *)

Listed(m) == {i \in 1..Len(directory) : directory[i].node = m}

\* POST /v1/hello: Map.set keeps the place of an entry it replaces, and prune
\* removes the first entries of a list that is too long.
Register(e) ==
  IF Listed(e.node) # {}
  THEN [i \in 1..Len(directory) |-> IF i \in Listed(e.node) THEN e ELSE directory[i]]
  ELSE Append(IF Len(directory) >= SeedMax THEN Tail(directory) ELSE directory, e)

Hello(n) ==
  /\ up[n] /\ joined[n] /\ n \in scene.reach
  /\ directory' = Register([node |-> n, addr |-> Addr(n)])
  /\ UNCHANGED <<scene, up, life, joined, table, pending, known, wire, crashes>>

\* A peer that has not said hello for PEER_TTL_MS is no longer listed; a
\* running one says it every five seconds.
PeerExpires(m) ==
  /\ ~up[m]
  /\ \E i \in Listed(m) : directory' = RemoveAt(directory, i)
  /\ UNCHANGED <<scene, up, life, joined, table, pending, known, wire, crashes>>

\* msp-seed keeps the list in memory only, and so does the worker where no
\* durable object is bound.
SeedRestarts ==
  /\ Seed \in scene.mortal /\ crashes < MaxCrashes
  /\ directory # <<>>
  /\ directory' = <<>>
  /\ crashes' = crashes + 1
  /\ UNCHANGED <<scene, up, life, joined, table, pending, known, wire>>

-----------------------------------------------------------------------------
(* The mesh *)

\* ingestPeer of directory entries, and the first datagrams of punchBurst, of
\* which those to "heard" are not lost.
Ingest(n, entries, heard) ==
  /\ known' = [known EXCEPT ![n] = @ \cup {e.node : e \in entries}]
  /\ pending' = [pending EXCEPT ![n] =
       [m \in Nodes |-> IF \E e \in entries : e.node = m
                        THEN (CHOOSE e \in entries : e.node = m).addr ELSE @[m]]]
  /\ wire' = wire \cup {Envelope("punch", n, e.node) :
                          e \in {x \in entries : x.node \in heard /\ Arrives(x.node, x.addr)}}

\* By discoverLoop, or when the user asks.
DiscoverOnce(n, heard) ==
  /\ up[n] /\ n \in scene.reach
  /\ Cardinality(wire) + Cardinality(heard) <= MaxWire
  /\ Ingest(n, {e \in ToSet(directory) : e.node # n}, heard)
  /\ UNCHANGED <<scene, up, life, joined, directory, table, crashes>>

\* One tick of keepAliveLoop.
KeepAlive(n, heard) ==
  /\ up[n]
  /\ Cardinality(wire) + Cardinality(heard) <= MaxWire
  /\ wire' = wire
       \cup {Envelope("greet", n, m) :
               m \in {x \in heard \cap Links(n) : Arrives(x, table[n][x])}}
       \cup {Envelope("punch", n, m) :
               m \in {x \in heard \ Links(n) : Arrives(x, pending[n][x])}}
  /\ UNCHANGED <<scene, up, life, joined, directory, table, pending, known, crashes>>

\* onPunch: the answer goes to where the punch came from.
ReadPunch(n, m, answered) ==
  \E f \in wire :
    /\ f.type = "punch" /\ f.to = n /\ f.from = m
    /\ table' = Touch(n, m, f.src)
    /\ known' = [known EXCEPT ![n] = @ \cup {m}]
    /\ wire' = (wire \ {f}) \cup
         (IF answered /\ Arrives(m, f.src) THEN {Envelope("greet", n, m)} ELSE {})
    /\ UNCHANGED <<scene, up, life, joined, directory, pending, crashes>>

\* onPunchOK, and a keepalive.
ReadGreeting(n, m) ==
  \E f \in wire :
    /\ f.type = "greet" /\ f.to = n /\ f.from = m
    /\ table' = Touch(n, m, f.src)
    /\ known' = [known EXCEPT ![n] = @ \cup {m}]
    /\ wire' = wire \ {f}
    /\ UNCHANGED <<scene, up, life, joined, directory, pending, crashes>>

-----------------------------------------------------------------------------

\* The process ends, and all it had in memory; the socket is closed.
MeshCrash(n) ==
  /\ up[n] /\ n \in scene.mortal /\ crashes < MaxCrashes
  /\ crashes' = crashes + 1
  /\ up' = [up EXCEPT ![n] = FALSE]
  /\ life' = [life EXCEPT ![n] = @ + 1]
  /\ table' = [table EXCEPT ![n] = [m \in Nodes |-> Nowhere]]
  /\ pending' = [pending EXCEPT ![n] = [m \in Nodes |-> Nowhere]]
  /\ known' = [known EXCEPT ![n] = {}]
  /\ wire' = {f \in wire : f.to # n}
  /\ UNCHANGED <<scene, joined, directory>>

\* StartMesh goes on when Join fails, and Join begins its loops only after the
\* seed has answered; nothing calls it again.
MeshRestart(n) ==
  /\ ~up[n]
  /\ up' = [up EXCEPT ![n] = TRUE]
  /\ joined' \in {[joined EXCEPT ![n] = j] : j \in {TRUE} \cup IF n \in scene.late THEN {FALSE} ELSE {}}
  /\ UNCHANGED <<scene, life, directory, table, pending, known, wire, crashes>>

MeshStep ==
  \/ SeedRestarts
  \/ \E n \in Nodes :
       \/ Hello(n)
       \/ PeerExpires(n)
       \/ \E heard \in SUBSET (Nodes \ {n}) : DiscoverOnce(n, heard) \/ KeepAlive(n, heard)

MeshTypeOK ==
  /\ scene \in Scenes
  /\ up \in [Nodes -> BOOLEAN]
  /\ life \in [Nodes -> Nat \ {0}]
  /\ joined \in [Nodes -> BOOLEAN]
  /\ directory \in Seq([node : Nodes, addr : Nat])
  /\ table \in [Nodes -> [Nodes -> Nat]]
  /\ pending \in [Nodes -> [Nodes -> Nat]]
  /\ known \in [Nodes -> SUBSET Nodes]
  /\ wire \subseteq [type : {"punch", "greet"}, from : Nodes, to : Nodes, src : Nat]
  /\ crashes \in Nat

-----------------------------------------------------------------------------

\* What the liveness properties suppose of the nodes that reach the seed: from
\* some time on they run, with the loops that Join begins.
StaysJoined == \A n \in Nodes : <>[](n \in scene.reach => up[n] /\ joined[n])

\* Liveness. Nodes that stay up and reach the seed come to hold the right address of one another
\* for good, whatever crashed, moved and was lost before: DiscoverOnce punches
\* every listed peer again, and touch takes the address a datagram came from.
\* (One whose Join failed is not listed and looks for nobody.)
MeshForms ==
  StaysJoined => <>[](\A n, m \in scene.reach : n # m => table[n][m] = Addr(m))
=============================================================================
