---------------------------- MODULE TicketsProofs ---------------------------
(***************************************************************************)
(* Theorems of Tickets, for any nodes, messages and miners, any frames in  *)
(* any order and any crashes: what is around of a payment is told by the   *)
(* step it is in, so a burner's money is not lost, a message is not paid   *)
(* for twice and an accepted ticket stays valid, but for the cases that    *)
(* the properties name.                                                    *)
(***************************************************************************)
EXTENDS Tickets, EngineProofs

\* Admit drops at most the oldest of a full mempool.
LEMMA AdmitDrops ==
  ASSUME NEW q \in Seq(Txs), Len(q) <= PoolMax, NEW t \in Txs
  PROVE  /\ t \in ToSet(Admit(q, t))
         /\ \A u \in ToSet(q) : u \in ToSet(Admit(q, t)) \/ (Len(q) = PoolMax /\ u = Head(q))
<1>1. PoolMax \in Nat \ {0} BY EngineAssumption
<1>2. ASSUME NEW r \in Seq(Txs)
      PROVE  t \in ToSet(Append(r, t)) /\ ToSet(r) \subseteq ToSet(Append(r, t))
  <2>1. IsSeq(r) BY DEF IsSeq
  <2>2. /\ IsSeq(Append(r, t)) /\ Len(r) \in Nat /\ Len(Append(r, t)) = Len(r) + 1
        /\ \A i \in 1..Len(r) : Append(r, t)[i] = r[i]
        /\ Append(r, t)[Len(r) + 1] = t
    BY <2>1, Appended
  <2> DEFINE w == Append(r, t)
  <2> HIDE DEF w
  <2>3. Len(r) + 1 \in 1..Len(w) /\ \A i \in 1..Len(r) : i \in 1..Len(w) BY <2>2 DEF w
  <2>4. t \in ToSet(w) BY <2>2, <2>3, InSet DEF w
  <2>5. ASSUME NEW u \in ToSet(r) PROVE u \in ToSet(w)
    <3>1. PICK i \in 1..Len(r) : r[i] = u BY <2>1, InSet
    <3>2. w[i] = u BY <2>2, <3>1 DEF w
    <3> QED BY <2>2, <2>3, <3>2, InSet DEF w
  <2> QED BY <2>4, <2>5 DEF w
<1>3. CASE Len(q) >= PoolMax
  <2>1. q # <<>> /\ Len(q) = PoolMax BY <1>1, <1>3
  <2>2. Admit(q, t) = Append(Tail(q), t) BY <1>3 DEF Admit
  <2>3. Tail(q) \in Seq(Txs) BY <2>1
  <2>4. ASSUME NEW u \in ToSet(q) PROVE u \in ToSet(Tail(q)) \/ u = Head(q)
    <3>1. PICK i \in 1..Len(q) : q[i] = u BY DEF ToSet
    <3>2. CASE i = 1 BY <2>1, <3>1, <3>2
    <3>3. CASE i # 1
      <4>1. i - 1 \in 1..Len(Tail(q)) /\ Tail(q)[i-1] = q[i] BY <2>1, <3>1, <3>3
      <4>2. IsSeq(Tail(q)) BY <2>3 DEF IsSeq
      <4> QED BY <3>1, <4>1, <4>2, InSet
    <3> QED BY <3>2, <3>3
  <2> QED BY <1>2, <2>1, <2>2, <2>3, <2>4
<1>4. CASE ~(Len(q) >= PoolMax)
  <2>1. Admit(q, t) = Append(q, t) BY <1>4 DEF Admit
  <2> QED BY <1>2, <2>1
<1> QED BY <1>3, <1>4

-----------------------------------------------------------------------------
(* The transactions of chains                                              *)

\* The transactions of a beginning of a chain are the chain's.
LEMMA TxsOfPrefix ==
  ASSUME NEW c, NEW d, IsSeq(c), IsSeq(d), IsPrefix(c, d)
  PROVE  TxsOf(c) \subseteq TxsOf(d)
<1>1. Len(c) \in 0..Len(d) /\ \A i \in 1..Len(c) : c[i] = d[i] BY PrefixMeans
<1>2. \A h \in 1..Len(c) : h \in 1..Len(d) BY <1>1 DEF IsSeq
<1> QED BY <1>1, <1>2 DEF TxsOf

LEMMA TxsOfBlock ==
  ASSUME NEW c, IsSeq(c), c # <<>>
  PROVE  TxsOf(c) = TxsOf(Front(c)) \cup ToSet(Last(c).txs)
<1> DEFINE d == Front(c)
<1>1. /\ Len(c) \in Nat \ {0} /\ Len(d) = Len(c) - 1 /\ Last(c) = c[Len(c)]
      /\ \A i \in 1..Len(d) : d[i] = c[i]
  BY FrontLast
<1> HIDE DEF d
<1>2. ASSUME NEW h \in 1..Len(c) PROVE h = Len(c) \/ h \in 1..Len(d) BY <1>1
<1>3. Len(c) \in 1..Len(c) /\ \A h \in 1..Len(d) : h \in 1..Len(c) BY <1>1
<1>4. TxsOf(c) \subseteq TxsOf(d) \cup ToSet(Last(c).txs)
  <2> SUFFICES ASSUME NEW h \in 1..Len(c), NEW t \in ToSet(c[h].txs)
               PROVE  t \in TxsOf(d) \cup ToSet(Last(c).txs)
    BY DEF TxsOf
  <2>1. CASE h = Len(c) BY <1>1, <2>1
  <2>2. CASE h \in 1..Len(d)
    <3>1. c[h] = d[h] BY <1>1, <2>2
    <3> QED BY <2>2, <3>1 DEF TxsOf
  <2> QED BY <1>2, <2>1, <2>2
<1>5. TxsOf(d) \cup ToSet(Last(c).txs) \subseteq TxsOf(c)
  <2>1. TxsOf(d) \subseteq TxsOf(c)
    <3> SUFFICES ASSUME NEW h \in 1..Len(d), NEW t \in ToSet(d[h].txs) PROVE t \in TxsOf(c)
      BY DEF TxsOf
    <3> QED BY <1>1, <1>3 DEF TxsOf
  <2>2. ToSet(Last(c).txs) \subseteq TxsOf(c) BY <1>1, <1>3 DEF TxsOf
  <2> QED BY <2>1, <2>2
<1> QED BY <1>4, <1>5 DEF d

LEMMA TxsOfGenesis == TxsOf(Genesis) = {}
<1>1. Len(Genesis) = 0 BY EmptyIs DEF Genesis
<1> QED BY <1>1 DEF TxsOf

\* Where a transaction of a lawful chain is.
LEMMA TxsOfPlace ==
  ASSUME NEW c, Lawful(c), NEW t
  PROVE  t \in TxsOf(c) <=> (\E h \in 1..Len(c) : \E i \in 1..Len(c[h].txs) : c[h].txs[i] = t)
<1>1. \A h \in 1..Len(c) : IsSeq(c[h].txs) BY DEF Lawful, TypedBlock, TypedTxs
<1>2. \A h \in 1..Len(c) : t \in ToSet(c[h].txs) <=> \E i \in 1..Len(c[h].txs) : c[h].txs[i] = t
  BY <1>1, InSet
<1>3. t \in TxsOf(c) <=> \E h \in 1..Len(c) : t \in ToSet(c[h].txs) BY DEF TxsOf
<1>4. (\E h \in 1..Len(c) : t \in ToSet(c[h].txs)) <=>
      (\E h \in 1..Len(c) : \E i \in 1..Len(c[h].txs) : c[h].txs[i] = t)
  BY <1>2
<1> QED BY <1>3, <1>4

\* What a proposer adds of its own.
OwnTxs(s, node, h) ==
  {[type |-> "coinbase", sender |-> node, amount |-> CoinbaseAmount(s, h)],
   [type |-> "activate", sender |-> node, nonce |-> s.nonce[node], fee |-> 0]}

LEMMA BodyFrom ==
  ASSUME NEW s, NEW node, NEW h, NEW S, NEW pending \in Seq(S)
  PROVE  Body(s, node, pending, h) \in Seq(S \cup OwnTxs(s, node, h))
<1> DEFINE T == S \cup OwnTxs(s, node, h)
           cb == CoinbaseTxs(s, node, h)
           act == ActivationTxs(s, node, h)
           own == cb \o act
           rest == Pick(States(s, own, h)[Len(own)], pending, h)
<1>1. cb \in Seq(T)
  <2> DEFINE t == [type |-> "coinbase", sender |-> node, amount |-> CoinbaseAmount(s, h)]
  <2>1. t \in T BY DEF OwnTxs
  <2> HIDE DEF t, T
  <2>2. <<t>> \in Seq(T) /\ <<>> \in Seq(T) BY <2>1
  <2> QED BY <2>2 DEF CoinbaseTxs, t
<1>2. act \in Seq(T)
  <2> DEFINE t == [type |-> "activate", sender |-> node, nonce |-> s.nonce[node], fee |-> 0]
  <2>1. t \in T BY DEF OwnTxs
  <2> HIDE DEF t, T
  <2>2. <<t>> \in Seq(T) /\ <<>> \in Seq(T) BY <2>1
  <2> QED BY <2>2 DEF ActivationTxs, t
<1> HIDE DEF cb, act
<1>3. own \in Seq(T)
  <2> HIDE DEF T
  <2> QED BY <1>1, <1>2
<1> HIDE DEF own
<1>4. rest \in Seq(T)
  <2>1. pending \in Seq(T) OBVIOUS
  <2> HIDE DEF T
  <2> QED BY <2>1, PickFromPending
<1> HIDE DEF rest, T
<1>5. own \o rest \in Seq(T) BY <1>3, <1>4
<1>6. Body(s, node, pending, h) = own \o rest BY DEF Body, own, rest, cb, act
<1> QED BY <1>5, <1>6 DEF T

\* A new block holds pending transactions, and its proposer's own.
LEMMA NewBlockTxs ==
  ASSUME NEW tip, IsSeq(tip), NEW s, NEW node, NEW slot, NEW S, NEW pending \in Seq(S)
  PROVE  LET c == NewBlock(tip, s, node, pending, slot) IN
         TxsOf(c) \subseteq TxsOf(tip) \cup S \cup OwnTxs(s, node, HeightOf(tip) + 1)
<1> DEFINE h == HeightOf(tip) + 1
           txs == Body(s, node, pending, h)
           b == [proposer |-> node, slot |-> slot, txs |-> txs,
                 root |-> Root(ApplyBlock(s, [proposer |-> node, slot |-> slot, txs |-> txs], h))]
           c == NewBlock(tip, s, node, pending, slot)
<1>1. c = Append(tip, b) BY DEF NewBlock
<1>2. b.txs = txs OBVIOUS
<1> HIDE DEF b, c
<1>3. IsSeq(c) /\ c # <<>> /\ Front(c) = tip /\ Last(c) = b BY <1>1, LastAppended
<1>4. TxsOf(c) = TxsOf(tip) \cup ToSet(txs) BY <1>2, <1>3, TxsOfBlock
<1>5. txs \in Seq(S \cup OwnTxs(s, node, h)) BY BodyFrom
<1> DEFINE U == S \cup OwnTxs(s, node, h)
<1> HIDE DEF txs, U
<1>6. ToSet(txs) \subseteq U
  <2>1. txs \in Seq(U) BY <1>5 DEF U
  <2> QED BY <2>1 DEF ToSet
<1> QED BY <1>4, <1>6 DEF U, c

-----------------------------------------------------------------------------
(* Where transactions are                                                  *)

InPool(t, n)  == t \in ToSet(mempool[n])
InCand(t, n)  == \E p \in Callers : t \in TxsOf(cand[n][p])
InBlocks(t)   == (\E n \in Nodes : t \in TxsOf(chain[n])) \/ (\E x \in made : t \in TxsOf(x))
Sent(t)       == TxFrame(t) \in net

\* Anywhere; and anywhere but in the mempool and the unfinished blocks of n.
Around(t) == Sent(t) \/ InBlocks(t) \/ \E n \in Nodes : InPool(t, n) \/ InCand(t, n)
Abroad(t, n) ==
  Sent(t) \/ InBlocks(t) \/ \E m \in Nodes \ {n} : InPool(t, m) \/ InCand(t, m)

\* t has left n only in a block of its chain.
AtHome(t, n) ==
  /\ Abroad(t, n) => t \in TxsOf(chain[n])
  /\ \A p \in Callers : t \in TxsOf(cand[n][p]) =>
       t \in ToSet(Last(cand[n][p]).txs) \/ t \in TxsOf(chain[n])

\* The transactions that a payment for r is made of.
Funds(t, r)    == t.type = "transfer" /\ t.to = BurnerOf[r]
Refers(t, r)   == t.type = "burn" /\ t.ref = r
Concerns(t, r) == Funds(t, r) \/ Refers(t, r) \/ t.sender = BurnerOf[r]

\* A node that is paying is up.
PayersUp == \A n \in Nodes : step[n] # Resting => up[n]

\* No transaction that concerns r turns up, none leaves the chain of a node that
\* is paying, and none leaves home.
Moves(r) ==
  \A t : Concerns(t, r) =>
    /\ Around(t)' => Around(t)
    /\ \A n \in Nodes : step[n] # Resting =>
         /\ t \in TxsOf(chain[n]) => t \in TxsOf(chain'[n])
         /\ AtHome(t, n) => AtHome(t, n)'

\* Mempools and unfinished blocks lose transactions; what is new in the chains
\* and among the made blocks comes from an unfinished block of the node n, and is
\* in its chain now.
LEMMA BlocksMove ==
  ASSUME NEW r, NEW n \in Nodes,
         \A t : Sent(t)' => Sent(t),
         \A m \in Nodes : ToSet(mempool'[m]) \subseteq ToSet(mempool[m]),
         \A m \in Nodes : \A p \in Callers :
           cand'[m][p] = cand[m][p] \/ TxsOf(cand'[m][p]) = {},
         \A m \in Nodes : step[m] # Resting => TxsOf(chain[m]) \subseteq TxsOf(chain'[m]),
         \A t : InBlocks(t)' => InBlocks(t) \/ (InCand(t, n) /\ t \in TxsOf(chain'[n]))
  PROVE  Moves(r)
<1> SUFFICES ASSUME NEW t
             PROVE  /\ Around(t)' => Around(t)
                    /\ \A m \in Nodes : step[m] # Resting =>
                         /\ t \in TxsOf(chain[m]) => t \in TxsOf(chain'[m])
                         /\ AtHome(t, m) => AtHome(t, m)'
  BY DEF Moves
<1>1. Sent(t)' => Sent(t) OBVIOUS
<1>2. \A m \in Nodes : InPool(t, m)' => InPool(t, m) BY DEF InPool
<1>3. \A m \in Nodes : InCand(t, m)' => InCand(t, m) BY DEF InCand
<1>4. InBlocks(t)' => InBlocks(t) \/ (InCand(t, n) /\ t \in TxsOf(chain'[n])) OBVIOUS
<1>5. Around(t)' => Around(t) BY <1>1, <1>2, <1>3, <1>4 DEF Around
<1>6. ASSUME NEW m \in Nodes, step[m] # Resting, AtHome(t, m) PROVE AtHome(t, m)'
  <2>1. t \in TxsOf(chain[m]) => t \in TxsOf(chain'[m]) BY <1>6
  <2>2. Abroad(t, m)' => Abroad(t, m) \/ t \in TxsOf(chain'[m])
    <3>1. CASE m = n BY <1>1, <1>2, <1>3, <1>4, <3>1 DEF Abroad
    <3>2. CASE m # n BY <1>1, <1>2, <1>3, <1>4, <3>2 DEF Abroad
    <3> QED BY <3>1, <3>2
  <2>3. ASSUME NEW p \in Callers, t \in TxsOf(cand'[m][p])
        PROVE  t \in ToSet(Last(cand'[m][p]).txs) \/ t \in TxsOf(chain'[m])
    <3>1. cand'[m][p] = cand[m][p] BY <2>3
    <3> QED BY <1>6, <2>1, <2>3, <3>1 DEF AtHome
  <2> QED BY <1>6, <2>1, <2>2, <2>3 DEF AtHome
<1> QED BY <1>5, <1>6

\* Only mempools change, and lose transactions.
LEMMA PoolsShrink ==
  ASSUME NEW r, NEW n \in Nodes, UNCHANGED <<cand, chain, made, net>>,
         \A m \in Nodes : ToSet(mempool'[m]) \subseteq ToSet(mempool[m])
  PROVE  Moves(r)
<1>1. \A t : (InBlocks(t)' <=> InBlocks(t)) /\ (Sent(t)' <=> Sent(t)) BY DEF InBlocks, Sent
<1> QED BY <1>1, BlocksMove

LEMMA NothingMoves ==
  ASSUME NEW r, NEW n \in Nodes, UNCHANGED <<mempool, cand, net, chain, made>>
  PROVE  Moves(r)
BY PoolsShrink

\* A transaction comes into a mempool.
LEMMA PoolGains ==
  ASSUME NEW r, NEW n \in Nodes, NEW u, ~Concerns(u, r) \/ Sent(u),
         UNCHANGED <<cand, chain, made>>,
         net' = net \/ net' = net \cup {TxFrame(u)},
         DOMAIN mempool = Nodes,
         ToSet(mempool'[n]) \subseteq ToSet(mempool[n]) \cup {u},
         \A m \in Nodes \ {n} : mempool'[m] = mempool[m]
  PROVE  Moves(r)
<1> SUFFICES ASSUME NEW t, Concerns(t, r)
             PROVE  /\ Around(t)' => Around(t)
                    /\ \A m \in Nodes :
                         /\ t \in TxsOf(chain[m]) => t \in TxsOf(chain'[m])
                         /\ AtHome(t, m) => AtHome(t, m)'
  BY DEF Moves
<1>1. t = u => Sent(t) OBVIOUS
<1>2. (InBlocks(t)' <=> InBlocks(t)) /\ \A m \in Nodes : InCand(t, m)' <=> InCand(t, m)
  BY DEF InBlocks, InCand
<1>3. Sent(t)' => Sent(t) BY <1>1, FramesDiffer DEF Sent
<1>4. \A m \in Nodes : InPool(t, m)' => InPool(t, m) \/ Sent(t)
  <2> SUFFICES ASSUME NEW m \in Nodes, InPool(t, m)' PROVE InPool(t, m) \/ Sent(t) OBVIOUS
  <2>1. CASE m = n BY <1>1, <2>1 DEF InPool
  <2>2. CASE m # n BY <2>2 DEF InPool
  <2> QED BY <2>1, <2>2
<1>5. Around(t)' => Around(t) BY <1>2, <1>3, <1>4 DEF Around
<1>6. \A m \in Nodes : Abroad(t, m)' => Abroad(t, m) BY <1>2, <1>3, <1>4 DEF Abroad
<1> QED BY <1>5, <1>6 DEF AtHome

\* The node stops.
LEMMA CrashMoves ==
  ASSUME Inv, NEW r, NEW n \in Nodes, Crash(n)
  PROVE  Moves(r)
<1>1. /\ mempool' = [mempool EXCEPT ![n] = <<>>]
      /\ cand' = [cand EXCEPT ![n] = [p \in Callers |-> Genesis]]
      /\ UNCHANGED <<chain, net, made>>
  BY DEF Crash, Stop
<1>2. DOMAIN mempool = Nodes /\ DOMAIN cand = Nodes BY DEF Inv, Shape
<1>3. \A m \in Nodes : \A p \in Callers :
        cand'[m][p] = cand[m][p] \/ TxsOf(cand'[m][p]) = {}
  <2>1. \A m \in Nodes : \A p \in Callers :
          cand'[m][p] = cand[m][p] \/ cand'[m][p] = Genesis
    BY <1>1, <1>2
  <2> QED BY <2>1, TxsOfGenesis
<1>4. \A m \in Nodes : ToSet(mempool'[m]) \subseteq ToSet(mempool[m])
  <2>1. \A m \in Nodes : mempool'[m] = mempool[m] \/ mempool'[m] = <<>> BY <1>1, <1>2
  <2> QED BY <2>1, EmptyPending
<1>5. \A t : (InBlocks(t)' <=> InBlocks(t)) /\ (Sent(t)' <=> Sent(t))
  BY <1>1 DEF InBlocks, Sent
<1> QED BY <1>1, <1>3, <1>4, <1>5, BlocksMove

\* What accepting a block moves, besides the candidates.
LEMMA AcceptMoves ==
  ASSUME Inv, NEW n \in Nodes, NEW c, Built(c), Accept(n, c)
  PROVE  /\ \A t : Sent(t)' => Sent(t)
         /\ \A m \in Nodes : ToSet(mempool'[m]) \subseteq ToSet(mempool[m])
         /\ \A m \in Nodes : TxsOf(chain[m]) \subseteq TxsOf(chain'[m])
         /\ \A m \in Nodes \ {n} : chain'[m] = chain[m]
         /\ chain'[n] = c
<1>1. /\ chain' = [chain EXCEPT ![n] = c]
      /\ \A m \in Nodes : IsPrefix(chain[m], chain'[m]) /\ IsSeq(chain[m]) /\ IsSeq(chain'[m])
      /\ net' = net \/ net' = net \cup {BlockFrame(c)}
  BY AcceptStep
<1>2. DOMAIN chain = Nodes /\ DOMAIN mempool = Nodes BY DEF Inv, Shape
<1>3. \A m \in Nodes : TxsOf(chain[m]) \subseteq TxsOf(chain'[m]) BY <1>1, TxsOfPrefix
<1>4. \A t : Sent(t)' => Sent(t) BY <1>1, FramesDiffer DEF Sent
<1>5. \A m \in Nodes : ToSet(mempool'[m]) \subseteq ToSet(mempool[m])
  <2> DEFINE q == Without(mempool[n], Last(c).txs)
  <2>1. mempool' = mempool \/ mempool' = [mempool EXCEPT ![n] = q]
    BY DEF Accept, Saved, SaveFails
  <2>2. mempool[n] \in Seq(Txs) /\ Distinct(mempool[n]) BY DEF Inv, PoolOK
  <2>3. ToSet(q) \subseteq ToSet(mempool[n]) BY <2>2, WithoutKeeps
  <2> HIDE DEF q
  <2>4. \A m \in Nodes : mempool'[m] = mempool[m] \/ (m = n /\ mempool'[m] = q) BY <1>2, <2>1
  <2> QED BY <2>3, <2>4
<1> QED BY <1>1, <1>2, <1>3, <1>4, <1>5

LEMMA ReceiveBlockMoves ==
  ASSUME Inv, NEW r, NEW n \in Nodes, NEW c, ReceiveBlock(n, c)
  PROVE  Moves(r)
<1>1. BlockFrame(c) \in net /\ Accept(n, c) /\ UNCHANGED <<cand, made>> BY DEF ReceiveBlock
<1>2. c \in made /\ Built(c) BY <1>1, FramesOf
<1>3. /\ \A t : Sent(t)' => Sent(t)
      /\ \A m \in Nodes : ToSet(mempool'[m]) \subseteq ToSet(mempool[m])
      /\ \A m \in Nodes : TxsOf(chain[m]) \subseteq TxsOf(chain'[m])
      /\ \A m \in Nodes \ {n} : chain'[m] = chain[m]
      /\ chain'[n] = c
  BY <1>1, <1>2, AcceptMoves
<1>4. \A t : InBlocks(t)' => InBlocks(t)
  <2> SUFFICES ASSUME NEW t, InBlocks(t)' PROVE InBlocks(t) OBVIOUS
  <2>1. CASE \E x \in made' : t \in TxsOf(x) BY <1>1, <2>1 DEF InBlocks
  <2>2. CASE \E m \in Nodes : t \in TxsOf(chain'[m])
    <3>1. PICK m \in Nodes : t \in TxsOf(chain'[m]) BY <2>2
    <3>2. CASE m = n BY <1>2, <1>3, <3>1, <3>2 DEF InBlocks
    <3>3. CASE m # n BY <1>3, <3>1, <3>3 DEF InBlocks
    <3> QED BY <3>2, <3>3
  <2> QED BY <2>1, <2>2 DEF InBlocks
<1> QED BY <1>1, <1>3, <1>4, BlocksMove

LEMMA ProposeBlockMoves ==
  ASSUME Inv, NEW r, NEW n \in Nodes, NEW p \in Callers, ProposeBlock(n, p)
  PROVE  Moves(r)
<1> DEFINE c == cand[n][p]
<1>1. /\ cand' = [cand EXCEPT ![n] = [@ EXCEPT ![p] = Genesis]]
      /\ \/ Accept(n, c) /\ made' = made \cup {c}
         \/ UNCHANGED <<chain, mempool, net, made>>
  BY DEF ProposeBlock, local
<1>2. Built(c) BY DEF Inv, CandOK, ProposeBlock, At
<1>3. DOMAIN cand = Nodes /\ \A m \in Nodes : DOMAIN cand[m] = Callers BY DEF Inv, Shape
<1>4. \A m \in Nodes : \A q \in Callers :
        cand'[m][q] = cand[m][q] \/ TxsOf(cand'[m][q]) = {}
  <2>1. \A m \in Nodes : \A q \in Callers :
          cand'[m][q] = cand[m][q] \/ cand'[m][q] = Genesis
    BY <1>1, <1>3
  <2> QED BY <2>1, TxsOfGenesis
<1>5. \A t : t \in TxsOf(c) => InCand(t, n) BY DEF InCand
<1> HIDE DEF c
<1>6. CASE Accept(n, c) /\ made' = made \cup {c}
  <2>1. /\ \A t : Sent(t)' => Sent(t)
        /\ \A m \in Nodes : ToSet(mempool'[m]) \subseteq ToSet(mempool[m])
        /\ \A m \in Nodes : TxsOf(chain[m]) \subseteq TxsOf(chain'[m])
        /\ \A m \in Nodes \ {n} : chain'[m] = chain[m]
        /\ chain'[n] = c
    BY <1>2, <1>6, AcceptMoves
  <2>2. ASSUME NEW t, InBlocks(t)'
        PROVE  InBlocks(t) \/ (InCand(t, n) /\ t \in TxsOf(chain'[n]))
    <3>1. CASE \E x \in made' : t \in TxsOf(x)
      BY <1>5, <1>6, <2>1, <3>1 DEF InBlocks
    <3>2. CASE \E m \in Nodes : t \in TxsOf(chain'[m])
      <4>1. PICK m \in Nodes : t \in TxsOf(chain'[m]) BY <3>2
      <4>2. CASE m = n BY <1>5, <2>1, <4>1, <4>2
      <4>3. CASE m # n BY <2>1, <4>1, <4>3 DEF InBlocks
      <4> QED BY <4>2, <4>3
    <3> QED BY <2>2, <3>1, <3>2 DEF InBlocks
  <2> QED BY <1>4, <2>1, <2>2, BlocksMove
<1>7. CASE UNCHANGED <<chain, mempool, net, made>>
  <2>1. \A t : (InBlocks(t)' <=> InBlocks(t)) /\ (Sent(t)' <=> Sent(t))
    BY <1>7 DEF InBlocks, Sent
  <2> QED BY <1>4, <1>7, <2>1, BlocksMove
<1> QED BY <1>1, <1>6, <1>7

\* A node that comes back is not paying.
LEMMA RestartMoves ==
  ASSUME Inv, PayersUp, NEW r, NEW n \in Nodes, Restart(n)
  PROVE  Moves(r)
<1>1. /\ ~up[n] /\ disk[n] # Torn /\ chain' = [chain EXCEPT ![n] = disk[n]]
      /\ UNCHANGED <<mempool, cand, net, made>>
  BY DEF Restart, MayRestart
<1>2. TxsOf(disk[n]) \subseteq TxsOf(chain[n]) BY <1>1, OnDisk, TxsOfPrefix
<1>3. \A m \in Nodes : chain'[m] = chain[m] \/ (m = n /\ chain'[m] = disk[m])
  BY <1>1 DEF Inv, Shape
<1>4. \A m \in Nodes : step[m] # Resting => chain'[m] = chain[m]
  BY <1>1, <1>3 DEF PayersUp
<1>5. \A t : (InBlocks(t)' => InBlocks(t)) /\ (Sent(t)' <=> Sent(t))
  BY <1>1, <1>2, <1>3 DEF InBlocks, Sent
<1> QED BY <1>1, <1>4, <1>5, BlocksMove

\* A node builds a block of what is pending and of its own transactions.
LEMMA BuildBlockMoves ==
  ASSUME Inv, NEW r \in Messages, NEW n \in Nodes, NEW p \in Callers, BuildBlock(n, p)
  PROVE  Moves(r)
<1> DEFINE slot == NextSlot(clock, chain[n])
           pending == Peek(mempool[n])
           new == NewBlock(chain[n], state[n], n, pending, slot)
<1>1. UNCHANGED <<mempool, net, chain, made>> BY DEF BuildBlock
<1>2. cand' = cand \/ cand' = [cand EXCEPT ![n] = [@ EXCEPT ![p] = new]]
  BY DEF BuildBlock
<1>3. /\ DOMAIN cand = Nodes /\ \A m \in Nodes : DOMAIN cand[m] = Callers
      /\ IsSeq(chain[n])
  BY DEF Inv, Shape, ChainOK, Lawful
<1>4. Built(new) /\ Front(new) = chain[n] /\ IsSeq(new) /\ new # <<>>
  <2>1. Built(new) BY NewBuilt
  <2>2. Front(new) = chain[n]
    <3> DEFINE h == HeightOf(chain[n]) + 1
               body == [proposer |-> n, slot |-> slot, txs |-> Body(state[n], n, pending, h)]
               b == [proposer |-> n, slot |-> slot, txs |-> Body(state[n], n, pending, h),
                     root |-> Root(ApplyBlock(state[n], body, h))]
    <3>1. new = Append(chain[n], b) BY DEF NewBlock
    <3> HIDE DEF new, b
    <3> QED BY <1>3, <3>1, LastAppended
  <2> QED BY <2>1, <2>2 DEF Built, Genesis
<1> DEFINE own == OwnTxs(state[n], n, HeightOf(chain[n]) + 1)
<1>5. TxsOf(new) \subseteq TxsOf(chain[n]) \cup ToSet(mempool[n]) \cup own
  <2>1. mempool[n] \in Seq(Txs) /\ PeekMax \in Nat BY EngineAssumption DEF Inv, PoolOK
  <2> DEFINE q == mempool[n]
             k == Smaller(Len(q), PeekMax)
  <2>2. q \in Seq(ToSet(q)) BY <2>1 DEF ToSet
  <2>3. q \in Seq(Txs) /\ Len(q) \in Nat BY <2>1
  <2> HIDE DEF q
  <2>4. k \in 0..Len(q) BY <2>1, <2>3 DEF Smaller
  <2> HIDE DEF k
  <2>5. SubSeq(q, 1, k) \in Seq(ToSet(q)) BY <2>2, <2>4
  <2>6. pending \in Seq(ToSet(q)) BY <2>5 DEF Peek, q, k
  <2> HIDE DEF pending, slot, own
  <2>7. TxsOf(new) \subseteq TxsOf(chain[n]) \cup ToSet(q) \cup own
    BY <1>3, <2>6, NewBlockTxs DEF own
  <2> QED BY <2>7 DEF q
<1>6. TxsOf(new) = TxsOf(chain[n]) \cup ToSet(Last(new).txs) BY <1>4, TxsOfBlock
<1>7. \A t \in own : ~Concerns(t, r)
  <2>1. BurnerOf[r] # n BY TicketsAssumption
  <2> QED BY <2>1 DEF OwnTxs, Concerns, Funds, Refers
<1> HIDE DEF new, own
<1> SUFFICES ASSUME NEW t, Concerns(t, r)
             PROVE  /\ Around(t)' => Around(t)
                    /\ \A m \in Nodes :
                         /\ t \in TxsOf(chain[m]) => t \in TxsOf(chain'[m])
                         /\ AtHome(t, m) => AtHome(t, m)'
  BY DEF Moves
<1>8. \A m \in Nodes : \A q \in Callers :
        cand'[m][q] = cand[m][q] \/ (m = n /\ cand'[m][q] = new)
  BY <1>2, <1>3
<1>9. t \in TxsOf(new) => InPool(t, n) \/ t \in TxsOf(chain[n])
  BY <1>5, <1>7 DEF InPool
<1>10. \A m \in Nodes : InCand(t, m)' =>
         InCand(t, m) \/ (m = n /\ (InPool(t, n) \/ t \in TxsOf(chain[n])))
  BY <1>8, <1>9 DEF InCand
<1>11. /\ InBlocks(t)' <=> InBlocks(t)
       /\ Sent(t)' <=> Sent(t)
       /\ \A m \in Nodes : InPool(t, m)' <=> InPool(t, m)
       /\ \A m \in Nodes : t \in TxsOf(chain[m]) => InBlocks(t)
  BY <1>1 DEF InBlocks, Sent, InPool
<1>12. Around(t)' => Around(t) BY <1>10, <1>11 DEF Around
<1>13. \A m \in Nodes : Abroad(t, m)' => Abroad(t, m) BY <1>10, <1>11 DEF Abroad
<1>14. \A m \in Nodes : AtHome(t, m) => AtHome(t, m)'
  <2> SUFFICES ASSUME NEW m \in Nodes, AtHome(t, m) PROVE AtHome(t, m)' OBVIOUS
  <2>1. (Abroad(t, m) => t \in TxsOf(chain[m]))' BY <1>1, <1>13 DEF AtHome
  <2>2. ASSUME NEW q \in Callers, t \in TxsOf(cand'[m][q])
        PROVE  t \in ToSet(Last(cand'[m][q]).txs) \/ t \in TxsOf(chain'[m])
    <3>1. CASE cand'[m][q] = cand[m][q] BY <1>1, <2>2, <3>1 DEF AtHome
    <3>2. CASE m = n /\ cand'[m][q] = new BY <1>1, <1>6, <2>2, <3>2
    <3> QED BY <1>8, <3>1, <3>2
  <2> QED BY <2>1, <2>2 DEF AtHome
<1> QED BY <1>1, <1>12, <1>14

-----------------------------------------------------------------------------
(* The inductive invariant *)

\* Where the payment for r is.
Stage(r) ==
  IF step[WriterOf[r]] # Resting /\ step[WriterOf[r]].ref = r
  THEN step[WriterOf[r]].at
  ELSE "resting"

PostedBy(r, a) == \E m \in posted : m.ref = r /\ m.burn.sender = a

\* A payment's transactions are around only from the step that submits them on;
\* it burns from one account; while the transfer waits for a block it has not
\* left the sender, and when the burner is to burn the transfer is in the chain.
FundsOK(r) == \A t : Around(t) /\ Funds(t, r) =>
  Stage(r) \in {"funded", "burning", "ticket"} \/ PostedBy(r, BurnerOf[r])
BurnsOK(r) == \A t : Around(t) /\ t.sender = BurnerOf[r] =>
  Stage(r) = "ticket" \/ PostedBy(r, BurnerOf[r])
PaysOK(r) == \A t : Around(t) /\ Refers(t, r) /\ t.sender = WriterOf[r] =>
  Stage(r) = "signing" \/ PostedBy(r, WriterOf[r])
HomeOK(r) == Stage(r) = "funded" =>
  \A t : Around(t) /\ Funds(t, r) => t = wallet[WriterOf[r]] /\ AtHome(t, WriterOf[r])
PaidOK(r) == Stage(r) = "burning" =>
  \E t \in TxsOf(chain[WriterOf[r]]) : Funds(t, r) /\ t.amount = Fund

PayOK(r) == FundsOK(r) /\ BurnsOK(r) /\ PaysOK(r) /\ HomeOK(r) /\ PaidOK(r)

\* Nothing of the payment for r is around.
Clear(r) ==
  \A t : Around(t) => /\ ~Funds(t, r) /\ t.sender # BurnerOf[r]
                      /\ ~(Refers(t, r) /\ t.sender = WriterOf[r])

\* A payment that does not do a step stays in order.
LEMMA PayKept ==
  ASSUME NEW r \in Messages, PayOK(r), Moves(r), Stage(r)' = Stage(r), posted \subseteq posted',
         Stage(r) = "funded" => wallet'[WriterOf[r]] = wallet[WriterOf[r]]
  PROVE  PayOK(r)'
<1> DEFINE n == WriterOf[r]
           b == BurnerOf[r]
<1>1. n \in Nodes BY TicketsAssumption
<1>2. \A t : Concerns(t, r) /\ Around(t)' => Around(t) BY DEF Moves
<1>3. \A a : PostedBy(r, a) => PostedBy(r, a)' BY DEF PostedBy
<1>4. FundsOK(r)' BY <1>2, <1>3 DEF PayOK, FundsOK, Concerns, Funds
<1>5. BurnsOK(r)' BY <1>2, <1>3 DEF PayOK, BurnsOK, Concerns
<1>6. PaysOK(r)' BY <1>2, <1>3 DEF PayOK, PaysOK, Concerns, Refers
<1>7. Stage(r) \in {"funded", "burning"} => step[n] # Resting BY DEF Stage
<1>8. HomeOK(r)'
  <2> SUFFICES ASSUME Stage(r) = "funded", NEW t, Around(t)', Funds(t, r)
               PROVE  t = wallet'[n] /\ AtHome(t, n)'
    BY DEF HomeOK, Funds
  <2>1. Concerns(t, r) /\ Around(t) BY <1>2 DEF Concerns
  <2>2. t = wallet[n] /\ AtHome(t, n) BY <2>1 DEF PayOK, HomeOK
  <2>3. AtHome(t, n)' BY <1>1, <1>7, <2>1, <2>2 DEF Moves
  <2> QED BY <2>2, <2>3
<1>9. PaidOK(r)'
  <2> SUFFICES ASSUME Stage(r) = "burning"
               PROVE  \E t \in TxsOf(chain'[n]) : Funds(t, r) /\ t.amount = Fund
    BY DEF PaidOK, Funds, Fund, Price
  <2>1. PICK t \in TxsOf(chain[n]) : Funds(t, r) /\ t.amount = Fund BY DEF PayOK, PaidOK
  <2>2. t \in TxsOf(chain'[n]) BY <1>1, <1>7, <2>1 DEF Moves, Concerns
  <2> QED BY <2>1, <2>2
<1> QED BY <1>4, <1>5, <1>6, <1>8, <1>9 DEF PayOK

\* Before a transaction of the payment was submitted, none is around.
LEMMA ClearWhen ==
  ASSUME NEW r \in Messages, PayOK(r), \A m \in posted : m.ref # r,
         Stage(r) \in {"resting", "funding", "fallback", "paying"}
  PROVE  Clear(r)
<1>1. \A a : ~PostedBy(r, a) BY DEF PostedBy
<1>2. Stage(r) \notin {"funded", "burning", "ticket", "signing"} OBVIOUS
<1> QED BY <1>1, <1>2 DEF PayOK, FundsOK, BurnsOK, PaysOK, Clear

\* With none around, the payment is in order, whatever comes next.
LEMMA ClearNow ==
  ASSUME NEW r, Stage(r)' # "burning",
         \A t : Around(t)' => /\ ~Funds(t, r) /\ t.sender # BurnerOf[r]
                              /\ ~(Refers(t, r) /\ t.sender = WriterOf[r])
  PROVE  PayOK(r)'
<1>1. FundsOK(r)' /\ HomeOK(r)' BY DEF FundsOK, HomeOK, Funds
<1>2. BurnsOK(r)' /\ PaysOK(r)' BY DEF BurnsOK, PaysOK, Refers
<1>3. PaidOK(r)' BY DEF PaidOK
<1> QED BY <1>1, <1>2, <1>3 DEF PayOK

LEMMA ClearStays ==
  ASSUME NEW r \in Messages, Clear(r), Moves(r), Stage(r)' # "burning"
  PROVE  PayOK(r)'
<1>1. \A t : Concerns(t, r) /\ Around(t)' => Around(t) BY DEF Moves
<1>2. \A t : Around(t)' => /\ ~Funds(t, r) /\ t.sender # BurnerOf[r]
                           /\ ~(Refers(t, r) /\ t.sender = WriterOf[r])
  BY <1>1 DEF Clear, Concerns
<1> QED BY <1>2, ClearNow

-----------------------------------------------------------------------------
(* The calls *)

Labels == {"funding", "funded", "burning", "ticket", "fallback", "paying", "signing"}

\* A transaction that concerns no message.
Plain(t) == t = NoTx \/ (t.sender \in Nodes /\ \A r \in Messages : ~Funds(t, r) /\ ~Refers(t, r))

\* n is paying for r: what it holds is what the step it is in works on.
WalletFor(n, r) ==
  LET t == wallet[n]
      at == step[n].at
  IN  /\ at \in {"funding", "funded"} => Funds(t, r) /\ t.amount = Fund /\ t.sender = n
      /\ at \in {"burning", "fallback"} => t = NoTx
      /\ at = "ticket" => t = BurnBy(n, BurnerOf[r], 0, r)
      /\ at \in {"paying", "signing"} => \E k \in Nat : t = BurnBy(n, n, k, r)

PayingFor(n, r) ==
  /\ WriterOf[r] = n /\ up[n]
  /\ step[n].at \in Labels /\ step[n] = [at |-> step[n].at, ref |-> r]
  /\ \A m \in posted : m.ref # r
  /\ WalletFor(n, r)

StepOK(n) == (step[n] = Resting /\ Plain(wallet[n])) \/ \E r \in Messages : PayingFor(n, r)

\* AnonymousBurn waits for ProposeOnce.
CallOK(n) == pc[n]["user"] # "idle" => step[n].at = "funded"

PostedOK ==
  /\ posted \subseteq Tickets
  /\ \A m, k \in posted : m.ref = k.ref => m = k

SeenOK(n) ==
  /\ accepted[n] \subseteq seen[n] /\ seen[n] \subseteq posted
  /\ ~up[n] => accepted[n] = {}

Calls ==
  /\ DOMAIN step = Nodes /\ DOMAIN seen = Nodes /\ DOMAIN accepted = Nodes
  /\ \A n \in Nodes : StepOK(n) /\ CallOK(n) /\ SeenOK(n)
  /\ PostedOK

PayInv == Inv /\ Calls /\ \A r \in Messages \ doomed : PayOK(r)

LEMMA LabelsPay == \A n : step[n].at \in Labels => step[n] # Resting
BY DEF Labels, Resting

LEMMA NodePays ==
  ASSUME Calls, NEW n \in Nodes, step[n] # Resting
  PROVE  \E r \in Messages : PayingFor(n, r)
BY DEF Calls, StepOK

LEMMA CallsPayersUp == Calls => PayersUp
BY NodePays DEF PayersUp, PayingFor

\* Only the node n does something, and posts nothing of the others.
LEMMA OthersKept ==
  ASSUME Calls, NEW n \in Nodes, NEW m \in Nodes, m # n,
         step'[m] = step[m], wallet'[m] = wallet[m], pc'[m] = pc[m], up'[m] = up[m],
         \A k \in posted' : k \in posted \/ WriterOf[k.ref] = n
  PROVE  StepOK(m)' /\ CallOK(m)'
<1>1. StepOK(m) /\ CallOK(m) BY DEF Calls
<1>2. CallOK(m)' BY <1>1 DEF CallOK
<1>3. CASE step[m] = Resting /\ Plain(wallet[m])
  <2>1. (step[m] = Resting)' /\ Plain(wallet[m])' BY <1>3 DEF Plain, Resting, Funds, Refers, NoTx
  <2> QED BY <1>2, <2>1 DEF StepOK
<1>4. ASSUME NEW r \in Messages, PayingFor(m, r) PROVE StepOK(m)'
  <2>1. \A k \in posted' : k.ref # r BY <1>4 DEF PayingFor
  <2>2. WalletFor(m, r)' BY <1>4 DEF PayingFor, WalletFor, Funds, Fund, Price, BurnBy, NoTx
  <2>3. PayingFor(m, r)' BY <1>4, <2>1, <2>2 DEF PayingFor
  <2> QED BY <2>3 DEF StepOK
<1> QED BY <1>1, <1>2, <1>3, <1>4 DEF StepOK

\* No payment does a step.
LEMMA CallsKept ==
  ASSUME Calls, UNCHANGED payVars,
         \A m \in Nodes : up[m] => up'[m],
         \A m \in Nodes : step[m] # Resting => wallet'[m] = wallet[m],
         \A m \in Nodes : step[m] = Resting => Plain(wallet'[m]),
         \A m \in Nodes : pc'[m]["user"] # "idle" => pc[m]["user"] # "idle"
  PROVE  Calls'
<1>1. UNCHANGED <<step, posted, accepted, seen, doomed>> BY DEF payVars
<1>2. ASSUME NEW m \in Nodes PROVE StepOK(m)' /\ CallOK(m)' /\ SeenOK(m)'
  <2>1. StepOK(m) /\ CallOK(m) /\ SeenOK(m) BY DEF Calls
  <2>2. CallOK(m)' BY <1>1, <2>1 DEF CallOK
  <2>3. SeenOK(m)' BY <1>1, <2>1 DEF SeenOK
  <2>4. CASE step[m] = Resting
    <3>1. (step[m] = Resting)' /\ Plain(wallet[m])'
      BY <1>1, <2>4 DEF Plain, Resting, Funds, Refers, NoTx
    <3> QED BY <2>2, <2>3, <3>1 DEF StepOK
  <2>5. CASE step[m] # Resting
    <3>1. PICK r \in Messages : PayingFor(m, r) BY <2>5, NodePays
    <3>2. wallet'[m] = wallet[m] BY <2>5
    <3>3. WalletFor(m, r)'
      BY <1>1, <3>1, <3>2 DEF PayingFor, WalletFor, Funds, Fund, Price, BurnBy, NoTx
    <3>4. PayingFor(m, r)' BY <1>1, <3>1, <3>3 DEF PayingFor
    <3> QED BY <2>2, <2>3, <3>4 DEF StepOK
  <2> QED BY <2>4, <2>5
<1>3. PostedOK' BY <1>1 DEF Calls, PostedOK, Tickets
<1> QED BY <1>1, <1>2, <1>3 DEF Calls

-----------------------------------------------------------------------------
(* The engine works *)

LEMMA PlainConcernsNone ==
  ASSUME NEW t, Plain(t), t # NoTx, NEW r \in Messages
  PROVE  ~Concerns(t, r)
<1>1. BurnerOf[r] \notin Nodes BY TicketsAssumption
<1> QED BY <1>1 DEF Plain, Concerns

\* What a user asks for concerns no message.
LEMMA BuiltPlain ==
  ASSUME NEW n \in Nodes, NEW op \in UserOps[n], NEW k
  PROVE  Plain([op EXCEPT !.nonce = k])
<1> DEFINE t == [op EXCEPT !.nonce = k]
<1>1. op \in Txs /\ op.sender = n BY EngineAssumption
<1>2. \A r \in Messages : /\ op.type = "transfer" => op.to # BurnerOf[r]
                          /\ op.type = "burn" => op.ref # r
  BY TicketsAssumption
<1>3. /\ op.type = t.type /\ op.sender = t.sender
      /\ op.type = "transfer" => t.to = op.to
      /\ op.type = "burn" => t.ref = op.ref
  <2> HIDE DEF t
  <2>0. t = [op EXCEPT !.nonce = k] BY DEF t
  <2>1. CASE op \in Transfer BY <2>0, <2>1 DEF Transfer
  <2>2. CASE op \in Burn BY <2>0, <2>2 DEF Burn
  <2>3. CASE op \in Register BY <2>0, <2>3 DEF Register
  <2>4. CASE op \in Stake BY <2>0, <2>4 DEF Stake
  <2>5. CASE op \in Unstake BY <2>0, <2>5 DEF Unstake
  <2>6. CASE op \in Activate BY <2>0, <2>6 DEF Activate
  <2> QED BY <1>1, <2>1, <2>2, <2>3, <2>4, <2>5, <2>6 DEF Txs
<1> HIDE DEF t
<1>4. Plain(t) BY <1>1, <1>2, <1>3 DEF Plain, Funds, Refers
<1> QED BY <1>4 DEF t

LEMMA SubmitTxMoves ==
  ASSUME Inv, Calls, NEW n \in Nodes, step[n] = Resting, SubmitTx(n), NEW r \in Messages
  PROVE  Moves(r)
<1> DEFINE t == wallet[n]
<1>1. t # NoTx /\ UNCHANGED <<cand, chain, made>> BY DEF SubmitTx
<1>2. Plain(t) \/ \E s \in Messages : PayingFor(n, s) BY DEF Calls, StepOK
<1>3. ~ \E s \in Messages : PayingFor(n, s) BY LabelsPay DEF PayingFor
<1>4. t \in Txs BY <1>1 DEF Inv, WalletOK
<1>5. DOMAIN mempool = Nodes BY DEF Inv, Shape
<1> HIDE DEF t
<1>6. ~Concerns(t, r) BY <1>1, <1>2, <1>3, PlainConcernsNone
<1>7. CASE Submittable(n, t)
  <2>1. mempool' = [mempool EXCEPT ![n] = Admit(@, t)] /\ net' = net \cup {TxFrame(t)}
    BY <1>7 DEF SubmitTx, t
  <2>2. ToSet(Admit(mempool[n], t)) \subseteq ToSet(mempool[n]) \cup {t}
    BY <1>4, <1>7, AdmitKeeps DEF Inv, PoolOK, Submittable
  <2>3. mempool'[n] = Admit(mempool[n], t) /\ \A m \in Nodes \ {n} : mempool'[m] = mempool[m]
    BY <1>5, <2>1
  <2> QED BY <1>1, <1>5, <1>6, <2>1, <2>2, <2>3, PoolGains
<1>8. CASE ~Submittable(n, t)
  <2>1. UNCHANGED <<mempool, net>> BY <1>8 DEF SubmitTx, t
  <2> QED BY <1>1, <2>1, NothingMoves
<1> QED BY <1>7, <1>8

LEMMA ReceiveTxMoves ==
  ASSUME Inv, NEW n \in Nodes, NEW t, ReceiveTx(n, t), NEW r \in Messages
  PROVE  Moves(r)
<1>1. /\ TxFrame(t) \in net /\ UNCHANGED <<cand, chain, net, made>> /\ Submittable(n, t)
      /\ mempool' = [mempool EXCEPT ![n] = Admit(@, t)]
  BY DEF ReceiveTx
<1>2. t \in Txs /\ Sent(t) BY <1>1, FramesOf DEF Sent
<1>3. ToSet(Admit(mempool[n], t)) \subseteq ToSet(mempool[n]) \cup {t}
  BY <1>1, <1>2, AdmitKeeps DEF Inv, PoolOK, Submittable
<1>4. DOMAIN mempool = Nodes BY DEF Inv, Shape
<1>5. mempool'[n] = Admit(mempool[n], t) /\ \A m \in Nodes \ {n} : mempool'[m] = mempool[m]
  BY <1>1, <1>4
<1> QED BY <1>1, <1>2, <1>3, <1>4, <1>5, PoolGains

\* A step of the engine moves no payment's transactions but from its sender's mempool,
\* through its unfinished block, into its chain.
LEMMA ChainMoves ==
  ASSUME Inv, Calls, NEW n \in Nodes, Chain(n), NEW r \in Messages
  PROVE  Moves(r)
<1>1. ASSUME NEW op \in UserOps[n], BuildTx(n, op) PROVE Moves(r)
  BY <1>1, NothingMoves DEF BuildTx
<1>2. ASSUME step[n] = Resting, SubmitTx(n) PROVE Moves(r) BY <1>2, SubmitTxMoves
<1>3. ASSUME MinerLooks(n) PROVE Moves(r) BY <1>3, NothingMoves DEF MinerLooks
<1>4. ASSUME NEW p \in Callers, BuildBlock(n, p) PROVE Moves(r) BY <1>4, BuildBlockMoves
<1>5. ASSUME NEW p \in Callers, ProposeBlock(n, p) PROVE Moves(r) BY <1>5, ProposeBlockMoves
<1>6. ASSUME NEW t, ReceiveTx(n, t) PROVE Moves(r) BY <1>6, ReceiveTxMoves
<1>7. ASSUME NEW c, ReceiveBlock(n, c) PROVE Moves(r) BY <1>7, ReceiveBlockMoves
<1>8. ASSUME Restart(n) PROVE Moves(r) BY <1>8, CallsPayersUp, RestartMoves
<1> QED BY <1>1, <1>2, <1>3, <1>4, <1>5, <1>6, <1>7, <1>8 DEF Chain

\* Its operations leave the calls alone.
LEMMA ChainCalls ==
  ASSUME Inv, Calls, NEW n \in Nodes, Chain(n), UNCHANGED payVars
  PROVE  Calls' /\ \A m \in Nodes : step[m] # Resting => wallet'[m] = wallet[m]
<1>1. /\ DOMAIN wallet = Nodes /\ DOMAIN pc = Nodes /\ DOMAIN up = Nodes
      /\ \A m \in Nodes : DOMAIN pc[m] = Callers
      /\ "user" \in Callers
  BY TicketsAssumption DEF Inv, Shape
<1>2. \A m \in Nodes : step[m] = Resting => Plain(wallet[m])
  <2>1. \A m \in Nodes : \A r \in Messages : PayingFor(m, r) => step[m] # Resting
    BY LabelsPay DEF PayingFor
  <2> QED BY <2>1 DEF Calls, StepOK
<1>3. \A m \in Nodes : up[m] => up'[m]
  <2>1. up' = up \/ up' = [up EXCEPT ![n] = TRUE]
    BY DEF Chain, BuildTx, SubmitTx, MinerLooks, BuildBlock, ProposeBlock, ReceiveTx,
           ReceiveBlock, Restart
  <2> QED BY <1>1, <2>1
<1>4. \/ wallet' = wallet
      \/ step[n] = Resting /\ \E t : Plain(t) /\ wallet' = [wallet EXCEPT ![n] = t]
  <2>1. ASSUME NEW op \in UserOps[n], step[n] = Resting, BuildTx(n, op)
        PROVE  \E t : Plain(t) /\ wallet' = [wallet EXCEPT ![n] = t]
    BY <2>1, BuiltPlain DEF BuildTx
  <2>2. ASSUME step[n] = Resting, SubmitTx(n)
        PROVE  \E t : Plain(t) /\ wallet' = [wallet EXCEPT ![n] = t]
    <3>1. Plain(NoTx) BY DEF Plain
    <3> QED BY <2>2, <3>1 DEF SubmitTx
  <2> QED BY <2>1, <2>2 DEF Chain, MinerLooks, BuildBlock, ProposeBlock, ReceiveTx,
             ReceiveBlock, Restart
<1>5. \A m \in Nodes : step[m] # Resting => wallet'[m] = wallet[m] BY <1>1, <1>4
<1>6. \A m \in Nodes : step[m] = Resting => Plain(wallet'[m]) BY <1>1, <1>2, <1>4
<1>7. \A m \in Nodes : pc'[m]["user"] # "idle" => pc[m]["user"] # "idle"
  <2>1. \/ pc' = pc
        \/ Go(n, "miner", "called")
        \/ \E p \in Callers, l \in {"idle", "built"} : pc[n][p] # "idle" /\ Go(n, p, l)
    BY DEF Chain, BuildTx, SubmitTx, MinerLooks, BuildBlock, MayBuild, At, ProposeBlock,
           ReceiveTx, ReceiveBlock, Restart
  <2>2. CASE pc' = pc BY <2>2
  <2>3. ASSUME NEW p \in Callers, NEW l, Go(n, p, l), p = "user" => pc[n]["user"] # "idle"
        PROVE  \A m \in Nodes : pc'[m]["user"] # "idle" => pc[m]["user"] # "idle"
    BY <1>1, <2>3 DEF Go
  <2>4. CASE Go(n, "miner", "called")
    <3>1. pc' = [pc EXCEPT ![n] = [pc[n] EXCEPT !["miner"] = "called"]] BY <2>4 DEF Go
    <3> QED BY <1>1, <3>1
  <2> QED BY <2>1, <2>2, <2>3, <2>4
<1>8. Calls' BY <1>3, <1>5, <1>6, <1>7, CallsKept
<1> QED BY <1>5, <1>8

LEMMA StageKept == ASSUME UNCHANGED step, NEW r PROVE Stage(r)' = Stage(r)
BY DEF Stage, Resting

\* Any step of the miners, the users and the peers keeps the invariant.
LEMMA ChainPays ==
  ASSUME PayInv, NEW n \in Nodes, Chain(n), UNCHANGED payVars
  PROVE  PayInv'
<1>0. Inv /\ Calls BY DEF PayInv
<1>1. [Next]_vars BY DEF Chain, Next, Propose
<1>2. Inv' BY <1>0, <1>1, NextInv
<1>3. Calls' /\ \A m \in Nodes : step[m] # Resting => wallet'[m] = wallet[m]
  BY <1>0, ChainCalls
<1>4. UNCHANGED <<step, posted, doomed>> BY DEF payVars
<1>5. ASSUME NEW r \in Messages \ doomed' PROVE PayOK(r)'
  <2>1. PayOK(r) BY <1>4 DEF PayInv
  <2>2. Moves(r) BY <1>0, ChainMoves
  <2>3. Stage(r)' = Stage(r) BY <1>4, StageKept
  <2>4. Stage(r) = "funded" => wallet'[WriterOf[r]] = wallet[WriterOf[r]]
    BY <1>3, TicketsAssumption DEF Stage
  <2> QED BY <1>4, <2>1, <2>2, <2>3, <2>4, PayKept
<1> QED BY <1>2, <1>3, <1>5 DEF PayInv

LEMMA TickPays == ASSUME PayInv, Tick, UNCHANGED payVars PROVE PayInv'
<1>0. Inv /\ Calls BY DEF PayInv
<1>1. Inv' BY <1>0, TickInv
<1>2. /\ UNCHANGED <<step, posted, doomed>>
      /\ UNCHANGED <<up, chain, mempool, wallet, pc, cand, net, made>>
  BY DEF payVars, Tick
<1>3. \A m \in Nodes : step[m] = Resting => Plain(wallet[m])
  <2>1. \A m \in Nodes : \A r \in Messages : PayingFor(m, r) => step[m] # Resting
    BY LabelsPay DEF PayingFor
  <2> QED BY <1>0, <2>1 DEF Calls, StepOK
<1>4. Calls' BY <1>0, <1>2, <1>3, CallsKept
<1>5. ASSUME NEW r \in Messages \ doomed' PROVE PayOK(r)'
  <2>1. PayOK(r) BY <1>2 DEF PayInv
  <2>2. Moves(r) BY <1>2, TicketsAssumption, NothingMoves
  <2>3. Stage(r)' = Stage(r) BY <1>2, StageKept
  <2> QED BY <1>2, <2>1, <2>2, <2>3, PayKept
<1> QED BY <1>1, <1>4, <1>5 DEF PayInv

-----------------------------------------------------------------------------
(* A payment goes on *)

\* The stage of a payment is the step of its sender.
LEMMA StageOf ==
  ASSUME NEW n, NEW r, PayingFor(n, r)
  PROVE  /\ Stage(r) = step[n].at /\ WriterOf[r] = n /\ up[n]
         /\ step[n] # Resting /\ step[n].ref = r
         /\ \A m \in posted : m.ref # r
<1>1. step[n] # Resting BY LabelsPay DEF PayingFor
<1>2. step[n].ref = r
  <2>1. step[n] = [at |-> step[n].at, ref |-> r] BY DEF PayingFor
  <2> DEFINE x == step[n].at
  <2> HIDE DEF x
  <2>2. step[n] = [at |-> x, ref |-> r] BY <2>1 DEF x
  <2> QED BY <2>2
<1> QED BY <1>1, <1>2 DEF Stage, PayingFor

LEMMA StageAfter ==
  ASSUME NEW r, NEW at \in Labels, step'[WriterOf[r]] = [at |-> at, ref |-> r]
  PROVE  Stage(r)' = at
BY DEF Stage, Labels, Resting

LEMMA StageRests == ASSUME NEW r, step'[WriterOf[r]] = Resting PROVE Stage(r)' = "resting"
BY DEF Stage, Resting

LEMMA StepChanges ==
  ASSUME Calls, NEW n \in Nodes, NEW s, step' = [step EXCEPT ![n] = s]
  PROVE  step'[n] = s
BY DEF Calls

\* Advance changes the step, and not the message.
LEMMA AdvanceTo ==
  ASSUME Calls, NEW n \in Nodes, NEW r \in Messages, PayingFor(n, r),
         NEW at \in Labels, Advance(n, at)
  PROVE  /\ \E s : s.ref = r /\ step' = [step EXCEPT ![n] = s]
         /\ step'[n] = [at |-> at, ref |-> r]
         /\ Stage(r)' = at
<1> DEFINE x == step[n].at
           s == [at |-> at, ref |-> r]
<1>1. step[n] = [at |-> x, ref |-> r] BY DEF PayingFor
<1> HIDE DEF x
<1>2. [step[n] EXCEPT !.at = at] = s BY <1>1
<1>3. step' = [step EXCEPT ![n] = [step[n] EXCEPT !.at = at]] BY DEF Advance
<1>4. s.ref = r OBVIOUS
<1>5. s = [at |-> at, ref |-> r] OBVIOUS
<1> HIDE DEF s
<1>6. step' = [step EXCEPT ![n] = s] BY <1>2, <1>3
<1>7. step'[n] = s BY <1>6, StepChanges
<1>8. Stage(r)' = at BY <1>5, <1>7, StageAfter DEF PayingFor
<1> QED BY <1>4, <1>5, <1>6, <1>7, <1>8

\* A node is paying for the message its step names.
LEMMA PayerOf ==
  ASSUME Calls, NEW n \in Nodes, NEW at \in Labels, Paying(n, at)
  PROVE  step[n].ref \in Messages /\ PayingFor(n, step[n].ref) /\ step[n].at = at /\ up[n]
<1>1. step[n].at = at /\ up[n] BY DEF Paying
<1>2. step[n] # Resting BY <1>1, LabelsPay
<1>3. PICK r \in Messages : PayingFor(n, r) BY <1>2, NodePays
<1>4. step[n].ref = r BY <1>3, StageOf
<1> QED BY <1>1, <1>3, <1>4

\* The invariant holds again once the payment that goes on is in order.
LEMMA Proceeds ==
  ASSUME PayInv, NEW r \in Messages, NEW n, WriterOf[r] = n, NEW s,
         step[n] = Resting \/ PayingFor(n, r),
         s = Resting \/ s.ref = r,
         step' = [step EXCEPT ![n] = s],
         UNCHANGED <<up, accepted, seen>>,
         \A m \in Nodes \ {n} : wallet'[m] = wallet[m] /\ pc'[m] = pc[m],
         posted \subseteq posted', PostedOK', \A k \in posted' : k \in posted \/ k.ref = r,
         doomed \subseteq doomed',
         Inv', StepOK(n)', CallOK(n)',
         \A q \in Messages : q # r => Moves(q),
         r \notin doomed' => PayOK(r)'
  PROVE  PayInv'
<1>1. n \in Nodes /\ Calls BY TicketsAssumption DEF PayInv
<1>2. DOMAIN step = Nodes BY <1>1 DEF Calls
<1>3. step'[n] = s /\ \A m \in Nodes : m # n => step'[m] = step[m] BY <1>1, <1>2
<1>4. ASSUME NEW m \in Nodes PROVE StepOK(m)' /\ CallOK(m)'
  <2>1. CASE m = n BY <2>1
  <2>2. CASE m # n BY <1>1, <1>3, <2>2, OthersKept
  <2> QED BY <2>1, <2>2
<1>5. \A m \in Nodes : SeenOK(m)' BY <1>1 DEF Calls, SeenOK
<1>6. Calls' BY <1>1, <1>2, <1>4, <1>5 DEF Calls
<1>7. step[n] = Resting \/ (step[n] # Resting /\ step[n].ref = r) BY StageOf
<1>8. ASSUME NEW q \in Messages \ doomed', q # r PROVE PayOK(q)'
  <2>1. PayOK(q) /\ Moves(q) BY <1>8 DEF PayInv
  <2>2. CASE WriterOf[q] = n
    <3>1. Stage(q) = "resting" BY <1>7, <1>8, <2>2 DEF Stage
    <3>2. Stage(q)' = "resting"
      <4>1. step'[n] = Resting \/ step'[n].ref = r BY <1>3
      <4> QED BY <1>8, <2>2, <4>1 DEF Stage, Resting
    <3> QED BY <2>1, <3>1, <3>2, PayKept
  <2>3. CASE WriterOf[q] # n
    <3>1. WriterOf[q] \in Nodes BY TicketsAssumption
    <3>2. step'[WriterOf[q]] = step[WriterOf[q]] /\ wallet'[WriterOf[q]] = wallet[WriterOf[q]]
      BY <1>3, <2>3, <3>1
    <3>3. Stage(q)' = Stage(q) BY <3>2 DEF Stage, Resting
    <3> QED BY <2>1, <3>2, <3>3, PayKept
  <2> QED BY <2>2, <2>3
<1>9. \A q \in Messages \ doomed' : PayOK(q)' BY <1>8
<1> QED BY <1>6, <1>9 DEF PayInv

\* A step of a payment keeps the engine's invariant.
LEMMA PaymentInv ==
  ASSUME Inv, NEW n \in Nodes,
         UNCHANGED <<up, chain, disk, state, cand, clock, draw, made>>,
         NEW u \in Txs, net' = net \/ net' = net \cup {TxFrame(u)},
         NEW q \in Seq(Txs), Len(q) <= PoolMax, Distinct(q),
         mempool' = mempool \/ mempool' = [mempool EXCEPT ![n] = q],
         NEW w \in Txs \cup {NoTx}, wallet' = wallet \/ wallet' = [wallet EXCEPT ![n] = w],
         pc' = pc \/ ("user" \in Callers /\ pc[n]["user"] = "idle" /\ Go(n, "user", "called"))
  PROVE  Inv'
<1>1. /\ DOMAIN mempool = Nodes /\ DOMAIN wallet = Nodes /\ Shape
      /\ \A m \in Nodes : PoolOK(m) /\ WalletOK(m) /\ CandOK(m)
  BY DEF Inv, Shape
<1>2. /\ \A m \in Nodes : CandOK(m)'
      /\ DOMAIN pc' = Nodes /\ DOMAIN cand' = Nodes
      /\ \A m \in Nodes : DOMAIN pc'[m] = Callers /\ DOMAIN cand'[m] = Callers
  <2>1. CASE pc' = pc BY <1>1, <2>1 DEF Shape, CandOK
  <2>2. CASE "user" \in Callers /\ pc[n]["user"] = "idle" /\ Go(n, "user", "called")
    <3>1. cand[n]["user"] = Genesis BY <1>1, <2>2 DEF CandOK
    <3> QED BY <2>2, <3>1, CallerInv
  <2> QED BY <2>1, <2>2
<1>3. Shape' BY <1>1, <1>2 DEF Shape
<1>4. \A m \in Nodes : ChainOK(m)' /\ DiskOK(m)' BY ChainsKept
<1>5. MadeOK' BY MadeKept
<1>6. NetOK' /\ SentOK' BY OnlyTxsSent
<1>7. ASSUME NEW m \in Nodes PROVE PoolOK(m)'
  <2>1. mempool'[m] = mempool[m] \/ mempool'[m] = q BY <1>1
  <2> QED BY <1>1, <2>1 DEF PoolOK
<1>8. ASSUME NEW m \in Nodes PROVE WalletOK(m)'
  <2>1. wallet'[m] = wallet[m] \/ wallet'[m] = w BY <1>1
  <2> QED BY <1>1, <2>1 DEF WalletOK
<1> QED BY <1>2, <1>3, <1>4, <1>5, <1>6, <1>7, <1>8 DEF Inv

\* What a step of a payment brings around is its transaction.
LEMMA Enters ==
  ASSUME NEW n \in Nodes, NEW u, UNCHANGED <<cand, chain, made>>,
         net' = net \/ net' = net \cup {TxFrame(u)},
         ToSet(mempool'[n]) \subseteq ToSet(mempool[n]) \cup {u},
         \A m \in Nodes \ {n} : mempool'[m] = mempool[m]
  PROVE  \A t : Around(t)' => Around(t) \/ t = u
<1> SUFFICES ASSUME NEW t, t # u, Around(t)' PROVE Around(t) OBVIOUS
<1>1. Sent(t)' => Sent(t) BY FramesDiffer DEF Sent
<1>2. InBlocks(t)' => InBlocks(t) BY DEF InBlocks
<1>3. \A m \in Nodes : InCand(t, m)' => InCand(t, m) BY DEF InCand
<1>4. \A m \in Nodes : InPool(t, m)' => InPool(t, m)
  <2> SUFFICES ASSUME NEW m \in Nodes, InPool(t, m)' PROVE InPool(t, m) OBVIOUS
  <2>1. CASE m = n BY <2>1 DEF InPool
  <2>2. CASE m # n BY <2>2 DEF InPool
  <2> QED BY <2>1, <2>2
<1> QED BY <1>1, <1>2, <1>3, <1>4 DEF Around

\* The transactions of a payment.
LEMMA FundingIs ==
  ASSUME Inv, NEW r \in Messages, NEW n, WriterOf[r] = n
  PROVE  /\ Funding(n, r) \in Txs /\ Funds(Funding(n, r), r)
         /\ Funding(n, r).amount = Fund /\ Funding(n, r).sender = n /\ Fund \in Nat
<1>1. n \in Nodes /\ n \in Accounts /\ BurnerOf[r] \in Accounts
  BY TicketsAssumption, EngineAssumption
<1>2. state[n].nonce[n] \in Nat
  <2>1. state[n] \in State BY <1>1, LawfulState DEF Inv, ChainOK
  <2> QED BY <1>1, <2>1, StateFields
<1>3. BaseFee \in Nat /\ Price \in Nat /\ Fund \in Nat
  BY ConstantsAssumption, TicketsAssumption DEF Price, Fund
<1> DEFINE k == state[n].nonce[n]
<1>4. Funding(n, r) = [type |-> "transfer", sender |-> n, nonce |-> k, fee |-> BaseFee,
                       to |-> BurnerOf[r], amount |-> Fund]
  BY DEF Funding
<1>5. k \in Nat BY <1>2
<1> HIDE DEF k
<1>6. Funding(n, r) \in Transfer BY <1>1, <1>3, <1>4, <1>5 DEF Transfer
<1> QED BY <1>3, <1>4, <1>6 DEF Txs, Funds

\* A burn of the account a for the message r.
BurnOf(t, a, r) == t \in Txs /\ t.type = "burn" /\ t.sender = a /\ t.ref = r

LEMMA BurnIs ==
  ASSUME NEW r \in Messages, NEW n, NEW a \in Accounts, NEW k \in Nat
  PROVE  BurnOf(BurnBy(n, a, k, r), a, r)
<1>1. /\ BaseFee \in Nat /\ Price \in Nat /\ "direct" \in DOMAIN BurnPrice /\ r \in Nat
  BY ConstantsAssumption, TicketsAssumption DEF Price
<1>2. BurnBy(n, a, k, r) \in Burn BY <1>1 DEF Burn, BurnBy
<1> QED BY <1>2 DEF Txs, BurnBy, BurnOf

LEMMA TicketIs ==
  ASSUME NEW r \in Messages, NEW n, NEW a \in Accounts, NEW k \in Nat
  PROVE  [ref |-> r, burn |-> BurnBy(n, a, k, r)] \in Tickets
<1>1. BaseFee \in Nat /\ Price \in Nat
  BY ConstantsAssumption, TicketsAssumption DEF Price
<1> QED BY <1>1 DEF Tickets, BurnBy

\* What a step has to bring about for its node to go on paying, and to rest.
LEMMA PayingAfter ==
  ASSUME NEW n, NEW r \in Messages, WriterOf[r] = n, up'[n],
         NEW at \in Labels, step'[n] = [at |-> at, ref |-> r],
         \A m \in posted' : m.ref # r,
         NEW w, wallet'[n] = w,
         at \in {"funding", "funded"} => Funds(w, r) /\ w.amount = Fund /\ w.sender = n,
         at \in {"burning", "fallback"} => w = NoTx,
         at = "ticket" => w = BurnBy(n, BurnerOf[r], 0, r),
         at \in {"paying", "signing"} => \E k \in Nat : w = BurnBy(n, n, k, r),
         pc'[n]["user"] # "idle" => at = "funded"
  PROVE  StepOK(n)' /\ CallOK(n)'
<1>1. step'[n].at = at BY DEF Labels
<1>2. CallOK(n)' BY <1>1 DEF CallOK
<1>3. WalletFor(n, r)' BY <1>1 DEF WalletFor, Funds, Fund, Price, BurnBy, NoTx
<1>4. PayingFor(n, r)' BY <1>1, <1>3 DEF PayingFor
<1> QED BY <1>2, <1>4 DEF StepOK

LEMMA RestsAfter ==
  ASSUME NEW n, step'[n] = Resting, wallet'[n] = NoTx, pc'[n]["user"] = "idle"
  PROVE  StepOK(n)' /\ CallOK(n)'
<1>1. (step[n] = Resting)' /\ Plain(wallet[n])' BY DEF Resting, Plain, NoTx
<1> QED BY <1>1 DEF StepOK, CallOK

\* ProposeOnce runs for the user at one step only.
LEMMA UserIdle ==
  ASSUME Calls, NEW n \in Nodes, step[n].at # "funded"
  PROVE  pc[n]["user"] = "idle"
BY DEF Calls, CallOK

LEMMA PostedKept == ASSUME Calls, posted' = posted PROVE PostedOK'
BY DEF Calls, PostedOK, Tickets

\* One lemma per step of a payment: it keeps the invariant.  Drawing the burner and signing
\* its transfer brings nothing around yet.
LEMMA StartBurnPays ==
  ASSUME PayInv, NEW n \in Nodes, NEW r \in Messages, StartBurn(n, r)
  PROVE  PayInv'
<1>0. Inv /\ Calls BY DEF PayInv
<1>1. /\ WriterOf[r] = n /\ up[n] /\ step[n].at = "resting" /\ wallet[n] = NoTx
      /\ r \notin doomed /\ \A m \in posted : m.ref # r
      /\ UNCHANGED <<up, chain, disk, state, mempool, pc, cand, net, clock, draw, made>>
      /\ UNCHANGED <<posted, accepted, seen, doomed>>
  BY DEF StartBurn, Paying, local
<1> DEFINE t == Funding(n, r)
           rich == state[n].balance[n] >= Fund + BaseFee
           w == IF rich THEN t ELSE NoTx
           at == IF rich THEN "funding" ELSE "fallback"
           s == [at |-> at, ref |-> r]
<1>2. /\ step' = [step EXCEPT ![n] = s]
      /\ wallet' = wallet \/ wallet' = [wallet EXCEPT ![n] = w]
      /\ wallet' = IF rich THEN [wallet EXCEPT ![n] = t] ELSE wallet
  BY DEF StartBurn
<1>3. t \in Txs /\ Funds(t, r) /\ t.amount = Fund /\ t.sender = n BY <1>0, <1>1, FundingIs
<1>4. /\ at \in Labels /\ at # "burning" /\ at # "funded"
      /\ (at = "funding" /\ w = t) \/ (at = "fallback" /\ w = NoTx)
      /\ at \notin {"burning", "ticket", "paying", "signing"}
  BY DEF Labels
<1>5. DOMAIN wallet = Nodes BY <1>0 DEF Inv, Shape
<1>6. wallet'[n] = w /\ \A m \in Nodes \ {n} : wallet'[m] = wallet[m] BY <1>1, <1>2, <1>5
<1> HIDE DEF t, w, at, rich
<1>7. step[n] = Resting
  <2>1. \A q \in Messages : ~PayingFor(n, q) BY <1>1 DEF PayingFor, Labels
  <2> QED BY <1>0, <2>1 DEF Calls, StepOK
<1>8. pc[n]["user"] = "idle" BY <1>0, <1>1, UserIdle
<1>9. s = [at |-> at, ref |-> r] OBVIOUS
<1> HIDE DEF s
<1>10. Stage(r)' = at /\ step'[n] = s /\ s.ref = r
  <2>1. step'[n] = s BY <1>0, <1>2, StepChanges
  <2>2. step'[WriterOf[r]] = [at |-> at, ref |-> r] BY <1>1, <1>9, <2>1
  <2> QED BY <1>4, <1>9, <2>1, <2>2, StageAfter
<1>11. StepOK(n)' /\ CallOK(n)'
  <2>1. up'[n] /\ \A m \in posted' : m.ref # r BY <1>1
  <2>2. pc'[n]["user"] = "idle" BY <1>1, <1>8
  <2>3. /\ at \in {"funding", "funded"} => Funds(w, r) /\ w.amount = Fund /\ w.sender = n
        /\ at \in {"burning", "fallback"} => w = NoTx
    BY <1>3, <1>4
  <2> QED BY <1>1, <1>4, <1>6, <1>9, <1>10, <2>1, <2>2, <2>3, PayingAfter
<1>12. Inv'
  <2>1. PoolOK(n) BY <1>0 DEF Inv
  <2>2. w \in Txs \cup {NoTx} BY <1>3, <1>4
  <2> QED BY <1>0, <1>1, <1>2, <1>3, <2>1, <2>2, PaymentInv DEF PoolOK
<1>13. \A q \in Messages : Moves(q) BY <1>1, NothingMoves
<1>14. PayOK(r)'
  <2>1. PayOK(r) /\ Stage(r) = "resting" BY <1>1, <1>7 DEF PayInv, Stage
  <2>2. Clear(r) BY <1>1, <2>1, ClearWhen
  <2> QED BY <1>4, <1>10, <1>13, <2>2, ClearStays
<1>15. PostedOK' BY <1>0, <1>1, PostedKept
<1> QED BY <1>1, <1>2, <1>6, <1>7, <1>10, <1>11, <1>12, <1>13, <1>14, <1>15, Proceeds

\* The transfer comes around, in the mempool of the sender only, or the burner is given up.
LEMMA SubmitFundingPays ==
  ASSUME PayInv, NEW n \in Nodes, NEW r \in Messages, PayingFor(n, r),
         step[n].at = "funding", NEW t, t = wallet[n], SubmitFunding(n)
  PROVE  PayInv'
<1>0. Inv /\ Calls BY DEF PayInv
<1>1. /\ UNCHANGED <<up, chain, disk, state, cand, net, clock, draw, made>>
      /\ UNCHANGED <<posted, accepted, seen, doomed>>
  BY DEF SubmitFunding
<1>2. up[n] BY DEF PayingFor
<1>3. /\ Stage(r) = "funding" /\ WriterOf[r] = n
      /\ \A m \in posted : m.ref # r
  BY <1>2, StageOf
<1>4. Funds(t, r) /\ t.amount = Fund /\ t.sender = n BY <1>2 DEF PayingFor, WalletFor
<1>5. t \in Txs
  <2>1. t # NoTx BY <1>4 DEF Funds, NoTx
  <2> QED BY <1>0, <2>1 DEF Inv, WalletOK
<1>6. \/ /\ Submittable(n, t) /\ mempool' = [mempool EXCEPT ![n] = Admit(@, t)]
         /\ Go(n, "user", "called") /\ Advance(n, "funded") /\ wallet' = wallet
      \/ /\ wallet' = [wallet EXCEPT ![n] = NoTx] /\ Advance(n, "fallback")
         /\ UNCHANGED <<mempool, pc>>
  <2>1. CASE Submittable(n, t) BY <2>1 DEF SubmitFunding
  <2>2. CASE ~Submittable(n, t) BY <2>2 DEF SubmitFunding
  <2> QED BY <2>1, <2>2
<1>7. /\ DOMAIN wallet = Nodes /\ DOMAIN mempool = Nodes /\ DOMAIN pc = Nodes
      /\ DOMAIN pc[n] = Callers /\ "user" \in Callers
      /\ PoolOK(n)
  BY <1>0, TicketsAssumption DEF Inv, Shape
<1>8. pc[n]["user"] = "idle" BY <1>0, <1>2, UserIdle
<1>10. PostedOK' BY <1>0, <1>1, PostedKept
<1>11. r \notin doomed => Clear(r) BY <1>2, <1>3, ClearWhen DEF PayInv
<1>12. CASE /\ Submittable(n, t) /\ mempool' = [mempool EXCEPT ![n] = Admit(@, t)]
            /\ Go(n, "user", "called") /\ Advance(n, "funded") /\ wallet' = wallet
  <2>1. PICK s : s.ref = r /\ step' = [step EXCEPT ![n] = s]
    BY <1>0, <1>12, AdvanceTo DEF Labels
  <2>2. Stage(r)' = "funded" /\ step'[n] = [at |-> "funded", ref |-> r]
    BY <1>0, <1>12, AdvanceTo DEF Labels
  <2> DEFINE q == Admit(mempool[n], t)
  <2>3. /\ q \in Seq(Txs) /\ Len(q) <= PoolMax /\ Distinct(q)
        /\ ToSet(q) \subseteq ToSet(mempool[n]) \cup {t}
    BY <1>5, <1>7, <1>12, AdmitKeeps DEF PoolOK, Submittable
  <2>4. mempool' = [mempool EXCEPT ![n] = q] BY <1>12
  <2> HIDE DEF q
  <2>5. mempool'[n] = q /\ \A m \in Nodes \ {n} : mempool'[m] = mempool[m] BY <1>7, <2>4
  <2>6. Inv' BY <1>0, <1>1, <1>5, <1>7, <1>8, <1>12, <2>3, <2>4, PaymentInv
  <2>7. \A m \in Nodes \ {n} : wallet'[m] = wallet[m] /\ pc'[m] = pc[m]
    BY <1>7, <1>12 DEF Go
  <2>8. StepOK(n)' /\ CallOK(n)'
    <3>1. up'[n] /\ \A m \in posted' : m.ref # r BY <1>1, <1>2, <1>3
    <3>2. wallet'[n] = t BY <1>12
    <3> QED BY <1>2, <1>3, <1>4, <2>2, <3>1, <3>2, PayingAfter DEF Labels
  <2>9. ASSUME NEW p \in Messages, p # r PROVE Moves(p)
    <3>1. ~Concerns(t, p)
      <4>1. BurnerOf[p] # BurnerOf[r] /\ BurnerOf[p] # n BY <1>2, <2>9, TicketsAssumption
      <4> QED BY <1>4, <4>1 DEF Concerns, Funds, Refers
    <3> QED BY <1>1, <1>7, <2>3, <2>5, <3>1, PoolGains
  <2>10. ASSUME r \notin doomed' PROVE PayOK(r)'
    <3>1. Clear(r) BY <1>1, <1>11, <2>10
    <3>2. \A u : Around(u)' => Around(u) \/ u = t BY <1>1, <2>3, <2>5, Enters
    <3>3. BurnerOf[r] # n BY <1>2, TicketsAssumption
    <3>4. FundsOK(r)' BY <2>2 DEF FundsOK
    <3>5. BurnsOK(r)' BY <1>4, <3>1, <3>2, <3>3 DEF BurnsOK, Clear
    <3>6. PaysOK(r)' BY <1>4, <3>1, <3>2 DEF PaysOK, Clear, Refers, Funds
    <3>7. PaidOK(r)' BY <2>2 DEF PaidOK
    <3>8. HomeOK(r)'
      <4> SUFFICES ASSUME NEW u, Around(u)', Funds(u, r) PROVE u = wallet'[n] /\ AtHome(u, n)'
        BY <1>3 DEF HomeOK, Funds
      <4>1. u = t /\ ~Around(t) BY <1>4, <3>1, <3>2 DEF Clear
      <4>2. Sent(t)' <=> Sent(t) BY <1>1 DEF Sent
      <4>3. InBlocks(t)' <=> InBlocks(t) BY <1>1 DEF InBlocks
      <4>4. \A m \in Nodes : InCand(t, m)' <=> InCand(t, m) BY <1>1 DEF InCand
      <4>5. \A m \in Nodes \ {n} : InPool(t, m)' <=> InPool(t, m) BY <2>5 DEF InPool
      <4>6. ~Abroad(t, n)' /\ ~InCand(t, n)'
        BY <4>1, <4>2, <4>3, <4>4, <4>5 DEF Abroad, Around
      <4>7. AtHome(t, n)' BY <4>6 DEF AtHome, InCand
      <4> QED BY <1>12, <4>1, <4>7
    <3> QED BY <3>4, <3>5, <3>6, <3>7, <3>8 DEF PayOK
  <2> QED BY <1>1, <1>2, <1>3, <1>10, <2>6, <2>7, <2>8, <2>1, <2>2, <2>9, <2>10, Proceeds
<1>13. CASE /\ wallet' = [wallet EXCEPT ![n] = NoTx] /\ Advance(n, "fallback")
            /\ UNCHANGED <<mempool, pc>>
  <2>1. PICK s : s.ref = r /\ step' = [step EXCEPT ![n] = s]
    BY <1>0, <1>13, AdvanceTo DEF Labels
  <2>2. Stage(r)' = "fallback" /\ step'[n] = [at |-> "fallback", ref |-> r]
    BY <1>0, <1>13, AdvanceTo DEF Labels
  <2>3. Inv' BY <1>0, <1>1, <1>5, <1>7, <1>13, PaymentInv DEF PoolOK
  <2>4. wallet'[n] = NoTx /\ \A m \in Nodes \ {n} : wallet'[m] = wallet[m] /\ pc'[m] = pc[m]
    BY <1>7, <1>13
  <2>5. StepOK(n)' /\ CallOK(n)'
    <3>1. up'[n] /\ \A m \in posted' : m.ref # r BY <1>1, <1>2, <1>3
    <3>2. pc'[n]["user"] = "idle" BY <1>8, <1>13
    <3> QED BY <1>2, <1>3, <2>2, <2>4, <3>1, <3>2, PayingAfter DEF Labels
  <2>6. \A p \in Messages : Moves(p) BY <1>1, <1>13, NothingMoves
  <2>7. r \notin doomed' => PayOK(r)' BY <1>1, <1>2, <1>11, <2>2, <2>6, ClearStays
  <2> QED BY <1>1, <1>2, <1>3, <1>10, <2>3, <2>4, <2>5, <2>1, <2>2, <2>6, <2>7, Proceeds
<1> QED BY <1>6, <1>12, <1>13

\* While nothing of a burner's own is around, it has what it was sent.
LEMMA BurnerHolds ==
  ASSUME Inv, NEW r \in Messages, NEW n \in Nodes,
         \A t \in TxsOf(chain[n]) : t.sender # BurnerOf[r]
  PROVE  /\ state[n].nonce[BurnerOf[r]] = 0
         /\ state[n].balance[BurnerOf[r]] \in Nat
         /\ state[n].balance[BurnerOf[r]] # 0 => \E t \in TxsOf(chain[n]) : Funds(t, r)
         /\ \A t \in TxsOf(chain[n]) : Funds(t, r) =>
              t.amount \in 0..GenesisSupply /\ t.amount <= state[n].balance[BurnerOf[r]]
<1> DEFINE c == chain[n]
           b == BurnerOf[r]
<1>1. /\ Lawful(c) /\ OfNodes(c) /\ state[n] = Replay(c) /\ state[n] \in State
  BY LawfulState DEF Inv, ChainOK
<1>2. b \in Accounts /\ b \notin Nodes BY TicketsAssumption
<1>3. \A t \in TxsOf(c) : t.sender # b OBVIOUS
<1>4. \A t : Gift(t, b) = IF Funds(t, r) THEN t.amount ELSE 0 BY DEF Gift, Funds
<1> HIDE DEF c, b
<1>5. \A h \in 1..Len(c) : \A i \in 1..Len(c[h].txs) : c[h].txs[i] \in TxsOf(c)
  BY <1>1, TxsOfPlace
<1>6. \A h \in 1..Len(c) : c[h].proposer # b BY <1>1, <1>2 DEF OfNodes
<1>7. Strange(c, b) BY <1>3, <1>5, <1>6 DEF Strange
<1>8. /\ Replay(c).nonce[b] = 0
      /\ (\A h \in 1..Len(c) : \A i \in 1..Len(c[h].txs) : Gift(c[h].txs[i], b) = 0)
           => Replay(c).balance[b] = 0
      /\ \A h \in 1..Len(c) : \A i \in 1..Len(c[h].txs) :
           /\ Gift(c[h].txs[i], b) \in 0..GenesisSupply
           /\ Gift(c[h].txs[i], b) <= Replay(c).balance[b]
  BY <1>1, <1>2, <1>7, StrangeAccount
<1>9. state[n].balance[b] \in Nat BY <1>1, <1>2, StateFields
<1>10. state[n].balance[b] # 0 => \E t \in TxsOf(c) : Funds(t, r)
  <2> SUFFICES ASSUME \A t \in TxsOf(c) : ~Funds(t, r) PROVE state[n].balance[b] = 0
    OBVIOUS
  <2>1. \A h \in 1..Len(c) : \A i \in 1..Len(c[h].txs) : Gift(c[h].txs[i], b) = 0
    BY <1>4, <1>5
  <2> QED BY <1>1, <1>8, <2>1
<1>11. ASSUME NEW t \in TxsOf(c), Funds(t, r)
       PROVE  t.amount \in 0..GenesisSupply /\ t.amount <= state[n].balance[b]
  <2>0. PICK h \in 1..Len(c) : \E i \in 1..Len(c[h].txs) : c[h].txs[i] = t BY <1>1, TxsOfPlace
  <2>1. PICK i \in 1..Len(c[h].txs) : c[h].txs[i] = t BY <2>0
  <2>2. Gift(t, b) = t.amount BY <1>4, <1>11
  <2> QED BY <1>1, <1>8, <2>1, <2>2
<1> QED BY <1>1, <1>8, <1>9, <1>10, <1>11 DEF c, b

\* The block that a caller has built holds the transaction.
LEMMA CandidateHolds ==
  ASSUME Inv, NEW n \in Nodes, NEW p \in Callers, NEW t, t \in ToSet(Last(cand[n][p]).txs),
         t \in TxsOf(cand[n][p])
  PROVE  InCandidate(n, t)
<1>1. cand[n][p] # Genesis BY TxsOfGenesis
<1>2. pc[n][p] = "built" BY <1>1 DEF Inv, CandOK
<1> QED BY <1>2 DEF InCandidate

LEMMA CheckFundedPays ==
  ASSUME PayInv, NEW n \in Nodes, NEW r \in Messages, PayingFor(n, r),
         step[n].at = "funded", NEW t, t = wallet[n], CheckFunded(n)
  PROVE  PayInv'
<1>0. Inv /\ Calls BY DEF PayInv
<1>1. /\ UNCHANGED <<up, chain, disk, state, pc, cand, net, clock, draw, made>>
      /\ UNCHANGED <<posted, accepted, seen>>
      /\ pc[n]["user"] = "idle" /\ wallet' = [wallet EXCEPT ![n] = NoTx]
  BY DEF CheckFunded
<1>2. up[n] BY DEF PayingFor
<1>3. /\ Stage(r) = "funded" /\ WriterOf[r] = n /\ step[n].ref = r
      /\ \A m \in posted : m.ref # r
      /\ \A a : ~PostedBy(r, a)
  BY StageOf DEF PostedBy
<1>4. Funds(t, r) /\ t.amount = Fund /\ t.sender = n BY <1>2 DEF PayingFor, WalletFor
<1>5. t \in Txs
  <2>1. t # NoTx BY <1>4 DEF Funds, NoTx
  <2> QED BY <1>0, <2>1 DEF Inv, WalletOK
<1> DEFINE enough == state[n].balance[BurnerOf[r]] >= Fund
<1>6. /\ enough => Advance(n, "burning") /\ UNCHANGED <<mempool, doomed>>
      /\ ~enough => /\ mempool' = [mempool EXCEPT ![n] = Without(@, <<t>>)]
                    /\ doomed' = doomed \cup (IF InCandidate(n, t) THEN {r} ELSE {})
                    /\ Advance(n, "fallback")
  <2>1. CASE enough BY <1>3, <2>1 DEF CheckFunded
  <2>2. CASE ~enough BY <1>3, <2>2 DEF CheckFunded
  <2> QED BY <2>1, <2>2
<1>7. DOMAIN wallet = Nodes /\ DOMAIN mempool = Nodes /\ PoolOK(n) BY <1>0 DEF Inv, Shape
<1>8. wallet'[n] = NoTx /\ \A m \in Nodes \ {n} : wallet'[m] = wallet[m] /\ pc'[m] = pc[m]
  BY <1>1, <1>7
<1>9. PostedOK' BY <1>0, <1>1, PostedKept
<1>10. up'[n] /\ pc'[n]["user"] = "idle" /\ \A m \in posted' : m.ref # r BY <1>1, <1>2, <1>3
<1>11. \A u \in TxsOf(chain[n]) : Around(u) BY DEF Around, InBlocks
<1>12. ASSUME r \notin doomed
       PROVE  /\ \A u : Around(u) => /\ u.sender # BurnerOf[r]
                                     /\ ~(Refers(u, r) /\ u.sender = WriterOf[r])
                                     /\ Funds(u, r) => u = t /\ AtHome(t, n)
              /\ state[n].balance[BurnerOf[r]] \in Nat
              /\ state[n].balance[BurnerOf[r]] # 0 => t \in TxsOf(chain[n])
              /\ t \in TxsOf(chain[n]) => enough
  <2>1. PayOK(r) BY <1>12 DEF PayInv
  <2>2. \A u : Around(u) => /\ u.sender # BurnerOf[r]
                            /\ ~(Refers(u, r) /\ u.sender = WriterOf[r])
                            /\ Funds(u, r) => u = t /\ AtHome(t, n)
    <3>1. BurnsOK(r) /\ PaysOK(r) /\ HomeOK(r) BY <2>1 DEF PayOK
    <3>5. Stage(r) # "ticket" /\ Stage(r) # "signing"
      <4>1. Stage(r) = "funded" BY <1>3
      <4> QED BY <4>1
    <3>6. ~PostedBy(r, BurnerOf[r]) /\ ~PostedBy(r, WriterOf[r]) BY <1>3
    <3>2. \A u : Around(u) => u.sender # BurnerOf[r]
      <4> SUFFICES ASSUME NEW u, Around(u), u.sender = BurnerOf[r] PROVE FALSE OBVIOUS
      <4>1. Stage(r) = "ticket" \/ PostedBy(r, BurnerOf[r]) BY <3>1 DEF BurnsOK
      <4> QED BY <3>5, <3>6, <4>1
    <3>3. \A u : Around(u) => ~(Refers(u, r) /\ u.sender = WriterOf[r])
      <4> SUFFICES ASSUME NEW u, Around(u), Refers(u, r), u.sender = WriterOf[r] PROVE FALSE
        OBVIOUS
      <4>1. Stage(r) = "signing" \/ PostedBy(r, WriterOf[r]) BY <3>1 DEF PaysOK
      <4> QED BY <3>5, <3>6, <4>1
    <3>4. \A u : Around(u) /\ Funds(u, r) => u = t /\ AtHome(u, n)
      BY <1>3, <3>1 DEF HomeOK
    <3> QED BY <3>2, <3>3, <3>4
  <2>3. /\ state[n].balance[BurnerOf[r]] \in Nat
        /\ state[n].balance[BurnerOf[r]] # 0 => \E u \in TxsOf(chain[n]) : Funds(u, r)
        /\ \A u \in TxsOf(chain[n]) : Funds(u, r) =>
             u.amount \in 0..GenesisSupply /\ u.amount <= state[n].balance[BurnerOf[r]]
    BY <1>0, <1>11, <2>2, BurnerHolds
  <2>4. state[n].balance[BurnerOf[r]] # 0 => t \in TxsOf(chain[n]) BY <1>11, <2>2, <2>3
  <2>5. t \in TxsOf(chain[n]) => enough
    <3>1. Fund \in Nat BY <1>0, <1>3, FundingIs
    <3> QED BY <1>4, <2>3, <3>1
  <2> QED BY <2>2, <2>3, <2>4, <2>5
<1>13. CASE enough
  <2>1. Advance(n, "burning") /\ UNCHANGED <<mempool, doomed>> BY <1>6, <1>13
  <2>2. PICK s : s.ref = r /\ step' = [step EXCEPT ![n] = s]
    BY <1>0, <2>1, AdvanceTo DEF Labels
  <2>3. Stage(r)' = "burning" /\ step'[n] = [at |-> "burning", ref |-> r]
    BY <1>0, <2>1, AdvanceTo DEF Labels
  <2>4. Inv' BY <1>0, <1>1, <1>5, <1>7, <2>1, PaymentInv DEF PoolOK
  <2>5. StepOK(n)' /\ CallOK(n)' BY <1>3, <1>8, <1>10, <2>3, PayingAfter DEF Labels
  <2>6. \A p \in Messages : Moves(p) BY <1>1, <2>1, NothingMoves
  <2>7. ASSUME r \notin doomed' PROVE PayOK(r)'
    <3>1. r \notin doomed BY <2>1, <2>7
    <3>2. \A u : Concerns(u, r) /\ Around(u)' => Around(u) BY <2>6 DEF Moves
    <3>3. FundsOK(r)' BY <2>3 DEF FundsOK
    <3>4. BurnsOK(r)' /\ PaysOK(r)'
      BY <1>12, <3>1, <3>2 DEF BurnsOK, PaysOK, Concerns, Refers
    <3>5. HomeOK(r)' BY <2>3 DEF HomeOK
    <3>6. Fund \in Nat \ {0}
      <4>1. BaseFee \in Nat \ {0} /\ Price \in Nat
        BY ConstantsAssumption, TicketsAssumption DEF Price
      <4> QED BY <4>1 DEF Fund
    <3>7. t \in TxsOf(chain[n]) BY <1>12, <1>13, <3>1, <3>6
    <3>8. PaidOK(r)' BY <1>1, <1>3, <1>4, <3>7 DEF PaidOK, Funds, Fund, Price
    <3> QED BY <3>3, <3>4, <3>5, <3>8 DEF PayOK
  <2> QED BY <1>1, <1>3, <1>8, <1>9, <2>1, <2>2, <2>4, <2>5, <2>6, <2>7, Proceeds
<1>14. CASE ~enough
  <2>1. /\ mempool' = [mempool EXCEPT ![n] = Without(@, <<t>>)]
        /\ doomed' = doomed \cup (IF InCandidate(n, t) THEN {r} ELSE {})
        /\ Advance(n, "fallback")
    BY <1>6, <1>14
  <2>2. PICK s : s.ref = r /\ step' = [step EXCEPT ![n] = s]
    BY <1>0, <2>1, AdvanceTo DEF Labels
  <2>3. Stage(r)' = "fallback" /\ step'[n] = [at |-> "fallback", ref |-> r]
    BY <1>0, <2>1, AdvanceTo DEF Labels
  <2> DEFINE q == Without(mempool[n], <<t>>)
  <2>4. /\ q \in Seq(Txs) /\ Len(q) <= Len(mempool[n]) /\ Distinct(q)
        /\ ToSet(q) = ToSet(mempool[n]) \ ToSet(<<t>>)
    BY <1>7, WithoutKeeps DEF PoolOK
  <2>5. mempool' = [mempool EXCEPT ![n] = q] BY <2>1
  <2>6. ToSet(<<t>>) = {t} BY DEF ToSet
  <2> HIDE DEF q
  <2>7. Len(q) <= PoolMax
    <3>1. Len(q) \in Nat /\ Len(mempool[n]) \in Nat /\ PoolMax \in Nat
      BY <1>7, <2>4, EngineAssumption DEF PoolOK
    <3> QED BY <1>7, <2>4, <3>1 DEF PoolOK
  <2>8. mempool'[n] = q /\ \A m \in Nodes \ {n} : mempool'[m] = mempool[m] BY <1>7, <2>5
  <2>9. \A m \in Nodes : ToSet(mempool'[m]) \subseteq ToSet(mempool[m]) BY <2>4, <2>8
  <2>10. Inv' BY <1>0, <1>1, <1>5, <2>4, <2>5, <2>7, PaymentInv
  <2>11. StepOK(n)' /\ CallOK(n)' BY <1>3, <1>8, <1>10, <2>3, PayingAfter DEF Labels
  <2>12. \A p \in Messages : Moves(p) BY <1>1, <2>9, PoolsShrink
  <2>13. ASSUME r \notin doomed' PROVE PayOK(r)'
    <3>1. r \notin doomed /\ ~InCandidate(n, t) BY <2>1, <2>13
    <3>2. t \notin TxsOf(chain[n]) BY <1>12, <1>14, <3>1
    <3>3. ASSUME Around(t)' PROVE FALSE
      <4>1. Around(t) BY <2>12, <3>3, <1>4 DEF Moves, Concerns
      <4>2. AtHome(t, n) BY <1>4, <1>12, <3>1, <4>1
      <4>3. ~Abroad(t, n) BY <3>2, <4>2 DEF AtHome
      <4>4. ~InCand(t, n)
        <5> SUFFICES ASSUME NEW p \in Callers, t \in TxsOf(cand[n][p]) PROVE FALSE
          BY DEF InCand
        <5>1. t \in ToSet(Last(cand[n][p]).txs) BY <3>2, <4>2 DEF AtHome
        <5> QED BY <1>0, <3>1, <5>1, CandidateHolds
      <4>5. ~InPool(t, n)' BY <2>4, <2>6, <2>8 DEF InPool
      <4>6. (Sent(t)' <=> Sent(t)) /\ (InBlocks(t)' <=> InBlocks(t)) BY <1>1 DEF Sent, InBlocks
      <4>7. \A m \in Nodes : InCand(t, m)' <=> InCand(t, m) BY <1>1 DEF InCand
      <4>8. \A m \in Nodes \ {n} : InPool(t, m)' <=> InPool(t, m) BY <2>8 DEF InPool
      <4> QED BY <3>3, <4>3, <4>4, <4>5, <4>6, <4>7, <4>8 DEF Around, Abroad
    <3>4. \A u : Concerns(u, r) /\ Around(u)' => Around(u) BY <2>12 DEF Moves
    <3>5. \A u : Around(u)' => /\ ~Funds(u, r) /\ u.sender # BurnerOf[r]
                               /\ ~(Refers(u, r) /\ u.sender = WriterOf[r])
      BY <1>12, <3>1, <3>3, <3>4 DEF Concerns
    <3> QED BY <2>3, <3>5, ClearNow
  <2> QED BY <1>1, <1>3, <1>8, <1>9, <2>1, <2>2, <2>10, <2>11, <2>12, <2>13, Proceeds
<1> QED BY <1>13, <1>14

\* The burn of a burner that was paid is accepted.
LEMMA BurnerMayBurn ==
  ASSUME Inv, NEW n \in Nodes, NEW r \in Messages, PayingFor(n, r), PayOK(r),
         step[n].at = "burning"
  PROVE  Submittable(n, BurnBy(n, BurnerOf[r], 0, r))
<1> DEFINE t == BurnBy(n, BurnerOf[r], 0, r)
<1>1. Stage(r) = "burning" /\ WriterOf[r] = n /\ \A m \in posted : m.ref # r BY StageOf
<1>2. ~PostedBy(r, BurnerOf[r]) BY <1>1 DEF PostedBy
<1>3. \A u : Around(u) => u.sender # BurnerOf[r]
  <2>1. BurnsOK(r) BY DEF PayOK
  <2>2. Stage(r) # "ticket" BY <1>1
  <2> QED BY <1>2, <2>1, <2>2 DEF BurnsOK
<1>4. \A u \in TxsOf(chain[n]) : u.sender # BurnerOf[r] BY <1>3 DEF Around, InBlocks
<1>5. /\ state[n].nonce[BurnerOf[r]] = 0
      /\ state[n].balance[BurnerOf[r]] \in Nat
      /\ \A u \in TxsOf(chain[n]) : Funds(u, r) =>
           u.amount \in 0..GenesisSupply /\ u.amount <= state[n].balance[BurnerOf[r]]
  BY <1>4, BurnerHolds
<1>6. \E u \in TxsOf(chain[n]) : Funds(u, r) /\ u.amount = Fund
  BY <1>1 DEF PayOK, PaidOK
<1>7. Fund \in 0..GenesisSupply /\ Fund <= state[n].balance[BurnerOf[r]] BY <1>5, <1>6
<1>8. BaseFee \in Nat \ {0} /\ Price \in Nat \ {0} /\ GenesisSupply \in Nat
  BY ConstantsAssumption, TicketsAssumption DEF Price
<1>9. /\ t.type = "burn" /\ t.sender = BurnerOf[r] /\ t.nonce = 0
      /\ t.fee = BaseFee /\ t.amount = Price
  BY DEF BurnBy
<1>10. t \notin ToSet(mempool[n]) BY <1>3, <1>9 DEF Around, InPool
<1> HIDE DEF t
<1>11. BurnAmount(t) = Price /\ FeeOf(t) = BaseFee BY <1>8, <1>9 DEF BurnAmount, FeeOf
<1>12. Price <= GenesisSupply /\ state[n].balance[t.sender] >= Price + BaseFee
  BY <1>5, <1>7, <1>8, <1>9 DEF Fund
<1>13. CanBurn(state[n], t) BY <1>5, <1>9, <1>11, <1>12 DEF CanBurn
<1>14. CanApply(state[n], t, HeightOf(chain[n]) + 1) BY <1>9, <1>13 DEF CanApply
<1> QED BY <1>10, <1>14 DEF Submittable, t

\* The burn comes around while the transfer stays in the chain.  It is not refused, unless
\* the message is doomed (BurnerMayBurn).
LEMMA SubmitBurnPays ==
  ASSUME PayInv, NEW n \in Nodes, NEW r \in Messages, PayingFor(n, r),
         step[n].at = "burning", NEW t, t = BurnBy(n, BurnerOf[r], 0, r), SubmitBurn(n)
  PROVE  PayInv'
<1>0. Inv /\ Calls BY DEF PayInv
<1>1. /\ UNCHANGED <<up, chain, disk, state, pc, cand, net, clock, draw, made>>
      /\ UNCHANGED <<posted, accepted, seen, doomed>>
  BY DEF SubmitBurn
<1>2. up[n] BY DEF PayingFor
<1>3. /\ Stage(r) = "burning" /\ WriterOf[r] = n /\ step[n].ref = r
      /\ \A m \in posted : m.ref # r
      /\ \A a : ~PostedBy(r, a)
  BY StageOf DEF PostedBy
<1>4. BurnerOf[r] \in Accounts /\ BurnerOf[r] # n BY TicketsAssumption
<1>5. t \in Txs /\ t.type = "burn" /\ t.sender = BurnerOf[r] /\ t.ref = r
  <2>1. 0 \in Nat OBVIOUS
  <2>2. BurnOf(t, BurnerOf[r], r) BY <1>4, <2>1, BurnIs
  <2> QED BY <2>2 DEF BurnOf
<1>6. wallet[n] = NoTx BY DEF PayingFor, WalletFor
<1>7. \/ /\ Submittable(n, t) /\ mempool' = [mempool EXCEPT ![n] = Admit(@, t)]
         /\ wallet' = [wallet EXCEPT ![n] = t] /\ Advance(n, "ticket")
      \/ /\ ~Submittable(n, t) /\ Advance(n, "fallback") /\ UNCHANGED <<mempool, wallet>>
  <2>1. CASE Submittable(n, t) BY <1>3, <2>1 DEF SubmitBurn
  <2>2. CASE ~Submittable(n, t) BY <1>3, <2>2 DEF SubmitBurn
  <2> QED BY <2>1, <2>2
<1>8. DOMAIN wallet = Nodes /\ DOMAIN mempool = Nodes /\ PoolOK(n) BY <1>0 DEF Inv, Shape
<1>9. pc'[n]["user"] = "idle" BY <1>0, <1>1, UserIdle
<1>10. PostedOK' BY <1>0, <1>1, PostedKept
<1>11. up'[n] /\ \A m \in posted' : m.ref # r BY <1>1, <1>2, <1>3
<1>12. CASE /\ Submittable(n, t) /\ mempool' = [mempool EXCEPT ![n] = Admit(@, t)]
            /\ wallet' = [wallet EXCEPT ![n] = t] /\ Advance(n, "ticket")
  <2>1. PICK s : s.ref = r /\ step' = [step EXCEPT ![n] = s]
    BY <1>0, <1>12, AdvanceTo DEF Labels
  <2>2. Stage(r)' = "ticket" /\ step'[n] = [at |-> "ticket", ref |-> r]
    BY <1>0, <1>12, AdvanceTo DEF Labels
  <2> DEFINE q == Admit(mempool[n], t)
  <2>3. /\ q \in Seq(Txs) /\ Len(q) <= PoolMax /\ Distinct(q)
        /\ ToSet(q) \subseteq ToSet(mempool[n]) \cup {t}
    BY <1>5, <1>8, <1>12, AdmitKeeps DEF PoolOK, Submittable
  <2>4. mempool' = [mempool EXCEPT ![n] = q] BY <1>12
  <2> HIDE DEF q
  <2>5. mempool'[n] = q /\ \A m \in Nodes \ {n} : mempool'[m] = mempool[m] BY <1>8, <2>4
  <2>6. Inv' BY <1>0, <1>1, <1>5, <1>12, <2>3, <2>4, PaymentInv
  <2>7. wallet'[n] = t /\ \A m \in Nodes \ {n} : wallet'[m] = wallet[m] /\ pc'[m] = pc[m]
    BY <1>1, <1>8, <1>12
  <2>8. StepOK(n)' /\ CallOK(n)' BY <1>3, <1>9, <1>11, <2>2, <2>7, PayingAfter DEF Labels
  <2>9. ASSUME NEW p \in Messages, p # r PROVE Moves(p)
    <3>1. ~Concerns(t, p)
      <4>1. BurnerOf[p] # BurnerOf[r] BY <2>9, TicketsAssumption
      <4> QED BY <1>5, <2>9, <4>1 DEF Concerns, Funds, Refers
    <3> QED BY <1>1, <1>8, <2>3, <2>5, <3>1, PoolGains
  <2>10. ASSUME r \notin doomed' PROVE PayOK(r)'
    <3>1. PaysOK(r) BY <1>1, <2>10 DEF PayInv, PayOK
    <3>2. \A u : Around(u)' => Around(u) \/ u = t BY <1>1, <2>3, <2>5, Enters
    <3>3. PaysOK(r)'
      <4> SUFFICES ASSUME NEW u, Around(u)', Refers(u, r), u.sender = n PROVE FALSE
        BY <1>3 DEF PaysOK, Refers
      <4>1. Around(u) BY <1>4, <1>5, <3>2
      <4>2. Stage(r) = "signing" \/ PostedBy(r, WriterOf[r]) BY <1>3, <3>1, <4>1 DEF PaysOK
      <4> QED BY <1>3, <4>2
    <3>4. FundsOK(r)' BY <2>2 DEF FundsOK
    <3>5. BurnsOK(r)' BY <2>2 DEF BurnsOK
    <3>6. HomeOK(r)' /\ PaidOK(r)' BY <2>2 DEF HomeOK, PaidOK
    <3> QED BY <3>3, <3>4, <3>5, <3>6 DEF PayOK
  <2> QED BY <1>1, <1>3, <1>10, <2>6, <2>7, <2>8, <2>1, <2>2, <2>9, <2>10, Proceeds
<1>13. CASE ~Submittable(n, t) /\ Advance(n, "fallback") /\ UNCHANGED <<mempool, wallet>>
  <2>1. PICK s : s.ref = r /\ step' = [step EXCEPT ![n] = s]
    BY <1>0, <1>13, AdvanceTo DEF Labels
  <2>2. Stage(r)' = "fallback" /\ step'[n] = [at |-> "fallback", ref |-> r]
    BY <1>0, <1>13, AdvanceTo DEF Labels
  <2>3. Inv' BY <1>0, <1>1, <1>5, <1>8, <1>13, PaymentInv DEF PoolOK
  <2>4. wallet'[n] = NoTx /\ \A m \in Nodes \ {n} : wallet'[m] = wallet[m] /\ pc'[m] = pc[m]
    BY <1>1, <1>6, <1>13
  <2>5. StepOK(n)' /\ CallOK(n)' BY <1>3, <1>9, <1>11, <2>2, <2>4, PayingAfter DEF Labels
  <2>6. \A p \in Messages : Moves(p) BY <1>1, <1>13, NothingMoves
  <2>7. r \in doomed'
    <3> SUFFICES ASSUME r \notin doomed PROVE FALSE BY <1>1
    <3>1. PayOK(r) BY DEF PayInv
    <3> QED BY <1>0, <1>13, <3>1, BurnerMayBurn
  <2> QED BY <1>1, <1>3, <1>10, <2>3, <2>4, <2>5, <2>1, <2>2, <2>6, <2>7, Proceeds
<1> QED BY <1>7, <1>12, <1>13

\* The ticket is signed, and the message sent.
LEMMA PostPays ==
  ASSUME PayInv, NEW n \in Nodes, NEW r \in Messages, PayingFor(n, r),
         NEW a \in Accounts, NEW k \in Nat, NEW t, t = BurnBy(n, a, k, r), t = wallet[n],
         \/ a = n /\ step[n].at = "signing"
         \/ a = BurnerOf[r] /\ step[n].at = "ticket",
         Post(n),
         UNCHANGED <<up, chain, disk, state, mempool, pc, cand, clock, draw, made>>,
         UNCHANGED <<accepted, seen, doomed>>
  PROVE  PayInv'
<1> DEFINE m == [ref |-> r, burn |-> t]
<1>0. Inv /\ Calls BY DEF PayInv
<1>1. /\ WriterOf[r] = n /\ step[n].ref = r /\ Stage(r) = step[n].at
      /\ \A x \in posted : x.ref # r
      /\ \A x : ~PostedBy(r, x)
  BY StageOf DEF PostedBy
<1>2. /\ t \in Txs /\ t.type = "burn" /\ t.sender = a /\ t.ref = r /\ m \in Tickets
  <2>1. BurnOf(t, a, r) BY BurnIs
  <2>2. m \in Tickets BY TicketIs
  <2> QED BY <2>1, <2>2 DEF BurnOf
<1>3. /\ posted' = posted \cup {m} /\ net' = net \cup {TxFrame(t)}
      /\ wallet' = [wallet EXCEPT ![n] = NoTx] /\ step' = [step EXCEPT ![n] = Resting]
  BY <1>1 DEF Post
<1>4. DOMAIN wallet = Nodes /\ DOMAIN mempool = Nodes /\ PoolOK(n) BY <1>0 DEF Inv, Shape
<1>5. m.ref = r /\ m.burn.sender = a BY <1>2
<1> HIDE DEF m
<1>6. PostedOK'
  <2>1. posted \subseteq Tickets /\ \A x, y \in posted : x.ref = y.ref => x = y
    BY <1>0 DEF Calls, PostedOK
  <2>2. posted' \subseteq Tickets BY <1>2, <1>3, <2>1
  <2>3. \A x, y \in posted' : x.ref = y.ref => x = y BY <1>1, <1>3, <1>5, <2>1
  <2> QED BY <2>2, <2>3 DEF PostedOK, Tickets
<1>7. Inv' BY <1>0, <1>2, <1>3, <1>4, PaymentInv DEF PoolOK
<1>8. wallet'[n] = NoTx /\ \A x \in Nodes \ {n} : wallet'[x] = wallet[x] /\ pc'[x] = pc[x]
  BY <1>3, <1>4
<1>9. step'[n] = Resting /\ Stage(r)' = "resting"
  <2>1. step'[n] = Resting BY <1>0, <1>3, StepChanges
  <2> QED BY <1>1, <2>1, StageRests
<1>10. StepOK(n)' /\ CallOK(n)'
  <2>1. pc'[n]["user"] = "idle" BY <1>0, UserIdle
  <2> QED BY <1>8, <1>9, <2>1, RestsAfter
<1>11. ASSUME NEW p \in Messages, p # r PROVE Moves(p)
  <2>1. BurnerOf[p] # BurnerOf[r] /\ BurnerOf[p] # n BY <1>11, TicketsAssumption
  <2>2. ~Concerns(t, p) BY <1>2, <1>11, <2>1 DEF Concerns, Funds, Refers
  <2> QED BY <1>3, <1>4, <2>2, PoolGains
<1>12. \A u : Around(u)' => Around(u) \/ u = t BY <1>3, Enters
<1>13. PostedBy(r, a)' BY <1>3, <1>5 DEF PostedBy
<1>14. BurnerOf[r] # n BY TicketsAssumption
<1>15. ASSUME r \notin doomed' PROVE PayOK(r)'
  <2>1. FundsOK(r) /\ BurnsOK(r) /\ PaysOK(r) BY <1>15 DEF PayInv, PayOK
  <2>2. HomeOK(r)' /\ PaidOK(r)' BY <1>9 DEF HomeOK, PaidOK
  <2>3. CASE a = n /\ step[n].at = "signing"
    <3>1. Stage(r) = "signing" BY <1>1, <2>3
    <3>2. \A u : Around(u) => ~Funds(u, r) BY <1>1, <2>1, <3>1 DEF FundsOK
    <3>3. \A u : Around(u) => u.sender # BurnerOf[r] BY <1>1, <2>1, <3>1 DEF BurnsOK
    <3>4. FundsOK(r)' BY <1>2, <1>12, <3>2 DEF FundsOK, Funds
    <3>5. BurnsOK(r)' BY <1>2, <1>12, <1>14, <2>3, <3>3 DEF BurnsOK
    <3>6. PaysOK(r)' BY <1>1, <1>13, <2>3 DEF PaysOK
    <3> QED BY <2>2, <3>4, <3>5, <3>6 DEF PayOK
  <2>4. CASE a = BurnerOf[r] /\ step[n].at = "ticket"
    <3>1. Stage(r) = "ticket" BY <1>1, <2>4
    <3>2. \A u : Around(u) => ~(Refers(u, r) /\ u.sender = n)
      BY <1>1, <2>1, <3>1 DEF PaysOK
    <3>3. FundsOK(r)' BY <1>13, <2>4 DEF FundsOK
    <3>4. BurnsOK(r)' BY <1>13, <2>4 DEF BurnsOK
    <3>5. PaysOK(r)' BY <1>1, <1>2, <1>12, <1>14, <2>4, <3>2 DEF PaysOK, Refers
    <3> QED BY <2>2, <3>3, <3>4, <3>5 DEF PayOK
  <2> QED BY <2>3, <2>4
<1>16. /\ posted \subseteq posted' /\ \A x \in posted' : x \in posted \/ x.ref = r
  BY <1>3, <1>5
<1> QED BY <1>1, <1>3, <1>6, <1>7, <1>8, <1>10, <1>11, <1>15, <1>16, Proceeds

\* A payment is given up, or goes on, and no transaction moves.
LEMMA GivesUpPays ==
  ASSUME PayInv, NEW n \in Nodes, NEW r \in Messages, PayingFor(n, r),
         step[n].at # "funded", r \notin doomed' => Clear(r),
         wallet' = [wallet EXCEPT ![n] = NoTx], step' = [step EXCEPT ![n] = Resting],
         UNCHANGED <<up, chain, disk, state, mempool, pc, cand, net, clock, draw, made>>,
         UNCHANGED <<posted, accepted, seen>>, doomed \subseteq doomed'
  PROVE  PayInv'
<1>0. Inv /\ Calls BY DEF PayInv
<1>1. WriterOf[r] = n BY StageOf
<1>2. DOMAIN wallet = Nodes /\ PoolOK(n) BY <1>0 DEF Inv, Shape
<1>3. wallet'[n] = NoTx /\ \A x \in Nodes \ {n} : wallet'[x] = wallet[x] /\ pc'[x] = pc[x]
  BY <1>2
<1>4. step'[n] = Resting /\ Stage(r)' = "resting"
  <2>1. step'[n] = Resting BY <1>0, StepChanges
  <2> QED BY <1>1, <2>1, StageRests
<1>5. StepOK(n)' /\ CallOK(n)'
  <2>1. pc'[n]["user"] = "idle" BY <1>0, UserIdle
  <2> QED BY <1>3, <1>4, <2>1, RestsAfter
<1>6. Inv'
  <2>1. Txs # {} BY <1>0, <1>1, FundingIs
  <2>2. PICK u : u \in Txs BY <2>1
  <2> QED BY <1>0, <1>2, <2>2, PaymentInv DEF PoolOK
<1>7. PostedOK' BY <1>0, PostedKept
<1>8. \A p \in Messages : Moves(p) BY NothingMoves
<1>9. r \notin doomed' => PayOK(r)' BY <1>4, <1>8, ClearStays
<1> QED BY <1>1, <1>3, <1>5, <1>6, <1>7, <1>8, <1>9, Proceeds

LEMMA GoesOnPays ==
  ASSUME PayInv, NEW n \in Nodes, NEW r \in Messages, PayingFor(n, r),
         step[n].at # "funded", r \notin doomed' => Clear(r),
         NEW at \in {"fallback", "paying"}, Advance(n, at),
         NEW w \in Txs \cup {NoTx}, wallet' = [wallet EXCEPT ![n] = w],
         at = "fallback" => w = NoTx,
         at = "paying" => \E k \in Nat : w = BurnBy(n, n, k, r),
         UNCHANGED <<up, chain, disk, state, mempool, pc, cand, net, clock, draw, made>>,
         UNCHANGED <<posted, accepted, seen>>, doomed \subseteq doomed'
  PROVE  PayInv'
<1>0. Inv /\ Calls BY DEF PayInv
<1>1. WriterOf[r] = n /\ up[n] /\ \A m \in posted : m.ref # r BY StageOf
<1>2. DOMAIN wallet = Nodes /\ PoolOK(n) BY <1>0 DEF Inv, Shape
<1>3. wallet'[n] = w /\ \A x \in Nodes \ {n} : wallet'[x] = wallet[x] /\ pc'[x] = pc[x]
  BY <1>2
<1>4. at \in Labels /\ at \notin {"burning", "funding", "funded", "ticket", "signing"} BY DEF Labels
<1>5. PICK s : s.ref = r /\ step' = [step EXCEPT ![n] = s] BY <1>0, <1>4, AdvanceTo
<1>6. Stage(r)' = at /\ step'[n] = [at |-> at, ref |-> r] BY <1>0, <1>4, AdvanceTo
<1>7. StepOK(n)' /\ CallOK(n)'
  <2>1. pc'[n]["user"] = "idle" BY <1>0, UserIdle
  <2>2. up'[n] /\ \A m \in posted' : m.ref # r BY <1>1
  <2>3. at \in {"burning", "fallback"} => w = NoTx BY <1>4
  <2>4. at \in {"paying", "signing"} => \E k \in Nat : w = BurnBy(n, n, k, r) BY <1>4
  <2> QED BY <1>1, <1>3, <1>4, <1>6, <2>1, <2>2, <2>3, <2>4, PayingAfter
<1>8. Inv'
  <2>1. Txs # {} BY <1>0, <1>1, FundingIs
  <2>2. PICK u : u \in Txs BY <2>1
  <2> QED BY <1>0, <1>2, <2>2, PaymentInv DEF PoolOK
<1>9. PostedOK' BY <1>0, PostedKept
<1>10. \A p \in Messages : Moves(p) BY NothingMoves
<1>11. r \notin doomed' => PayOK(r)' BY <1>4, <1>6, <1>10, ClearStays
<1> QED BY <1>1, <1>3, <1>5, <1>7, <1>8, <1>9, <1>10, <1>11, Proceeds

\* The ticket is posted, or the message is doomed: the burn was pushed out.
LEMMA IssueTicketPays ==
  ASSUME PayInv, NEW n \in Nodes, NEW r \in Messages, PayingFor(n, r),
         step[n].at = "ticket", NEW t, t = wallet[n], IssueTicket(n)
  PROVE  PayInv'
<1>0. Inv /\ Calls BY DEF PayInv
<1>1. step[n].ref = r BY StageOf
<1>2. t = BurnBy(n, BurnerOf[r], 0, r) BY DEF PayingFor, WalletFor
<1>3. UNCHANGED <<up, chain, disk, state, mempool, pc, cand, clock, draw, made, accepted, seen>>
  BY DEF IssueTicket, local
<1>4. CASE Post(n) /\ UNCHANGED doomed
  <2>1. BurnerOf[r] \in Accounts /\ 0 \in Nat BY TicketsAssumption
  <2> QED BY <1>2, <1>3, <1>4, <2>1, PostPays
<1>5. CASE /\ wallet' = [wallet EXCEPT ![n] = NoTx] /\ Advance(n, "fallback")
           /\ doomed' = doomed \cup {r} /\ UNCHANGED <<posted, net>>
  BY <1>3, <1>5, GoesOnPays
<1> QED BY <1>1, <1>4, <1>5 DEF IssueTicket

\* The main account burns only when nothing of the burner's is around.
LEMMA StartFallbackPays ==
  ASSUME PayInv, NEW n \in Nodes, NEW r \in Messages, PayingFor(n, r),
         step[n].at = "fallback", StartFallback(n)
  PROVE  PayInv'
<1> DEFINE k == state[n].nonce[n]
           w == BurnBy(n, n, k, r)
<1>0. Inv /\ Calls BY DEF PayInv
<1>1. step[n].ref = r /\ Stage(r) = "fallback" /\ \A m \in posted : m.ref # r BY StageOf
<1>2. /\ UNCHANGED <<up, chain, disk, state, mempool, pc, cand, net, clock, draw, made>>
      /\ UNCHANGED <<posted, accepted, seen, doomed>>
  BY DEF StartFallback, local
<1>3. Advance(n, "paying") /\ wallet' = [wallet EXCEPT ![n] = w]
  BY <1>1 DEF StartFallback
<1>4. n \in Accounts BY EngineAssumption
<1>5. k \in Nat
  <2>1. state[n] \in State BY <1>0, <1>4, LawfulState DEF Inv, ChainOK
  <2> QED BY <1>4, <2>1, StateFields
<1> HIDE DEF k
<1>6. w \in Txs
  <2>1. BurnOf(w, n, r) BY <1>4, <1>5, BurnIs
  <2> QED BY <2>1 DEF BurnOf
<1>7. r \notin doomed' => Clear(r) BY <1>1, <1>2, ClearWhen DEF PayInv
<1>8. \E j \in Nat : w = BurnBy(n, n, j, r) BY <1>5
<1> HIDE DEF w
<1> QED BY <1>2, <1>3, <1>6, <1>7, <1>8, GoesOnPays

\* The burn of the main account comes around, or the payment is given up.
LEMMA SubmitFallbackPays ==
  ASSUME PayInv, NEW n \in Nodes, NEW r \in Messages, PayingFor(n, r),
         step[n].at = "paying", NEW t, t = wallet[n], SubmitFallback(n)
  PROVE  PayInv'
<1>0. Inv /\ Calls BY DEF PayInv
<1>1. /\ WriterOf[r] = n /\ up[n] /\ Stage(r) = "paying"
      /\ \A m \in posted : m.ref # r
  BY StageOf
<1>2. /\ UNCHANGED <<up, chain, disk, state, pc, cand, clock, draw, made>>
      /\ UNCHANGED <<posted, accepted, seen, doomed>>
  BY DEF SubmitFallback
<1>3. PICK k \in Nat : t = BurnBy(n, n, k, r) BY DEF PayingFor, WalletFor
<1>4. t \in Txs /\ t.type = "burn" /\ t.sender = n /\ t.ref = r
  <2>1. n \in Accounts BY EngineAssumption
  <2>2. BurnOf(t, n, r) BY <1>3, <2>1, BurnIs
  <2> QED BY <2>2 DEF BurnOf
<1>5. r \notin doomed => Clear(r) BY <1>1, ClearWhen DEF PayInv
<1>6. CASE /\ Submittable(n, t) /\ mempool' = [mempool EXCEPT ![n] = Admit(@, t)]
           /\ net' = net \cup {TxFrame(t)} /\ Advance(n, "signing") /\ wallet' = wallet
  <2>1. PICK s : s.ref = r /\ step' = [step EXCEPT ![n] = s]
    BY <1>0, <1>6, AdvanceTo DEF Labels
  <2>2. Stage(r)' = "signing" /\ step'[n] = [at |-> "signing", ref |-> r]
    BY <1>0, <1>6, AdvanceTo DEF Labels
  <2>3. DOMAIN mempool = Nodes /\ PoolOK(n) BY <1>0 DEF Inv, Shape
  <2> DEFINE q == Admit(mempool[n], t)
  <2>4. /\ q \in Seq(Txs) /\ Len(q) <= PoolMax /\ Distinct(q)
        /\ ToSet(q) \subseteq ToSet(mempool[n]) \cup {t}
    BY <1>4, <1>6, <2>3, AdmitKeeps DEF PoolOK, Submittable
  <2>5. mempool' = [mempool EXCEPT ![n] = q] BY <1>6
  <2> HIDE DEF q
  <2>6. mempool'[n] = q /\ \A m \in Nodes \ {n} : mempool'[m] = mempool[m] BY <2>3, <2>5
  <2>7. t \in Txs \cup {NoTx} /\ wallet' = wallet BY <1>4, <1>6
  <2>8. Inv' BY <1>0, <1>2, <1>4, <1>6, <2>4, <2>5, <2>7, PaymentInv
  <2>9. StepOK(n)' /\ CallOK(n)'
    <3>1. up'[n] /\ \A m \in posted' : m.ref # r BY <1>1, <1>2
    <3>2. wallet'[n] = t BY <1>6
    <3>3. pc'[n]["user"] = "idle" BY <1>0, <1>2, UserIdle
    <3>4. \E j \in Nat : t = BurnBy(n, n, j, r) BY <1>3
    <3> QED BY <1>1, <2>2, <3>1, <3>2, <3>3, <3>4, PayingAfter DEF Labels
  <2>10. ASSUME NEW p \in Messages, p # r PROVE Moves(p)
    <3>1. BurnerOf[p] # n BY TicketsAssumption
    <3>2. ~Concerns(t, p) BY <1>4, <2>10, <3>1 DEF Concerns, Funds, Refers
    <3> QED BY <1>2, <1>6, <2>3, <2>4, <2>6, <3>2, PoolGains
  <2>11. ASSUME r \notin doomed' PROVE PayOK(r)'
    <3>1. Clear(r) BY <1>2, <1>5, <2>11
    <3>2. \A u : Around(u)' => Around(u) \/ u = t BY <1>2, <1>6, <2>4, <2>6, Enters
    <3>3. BurnerOf[r] # n BY TicketsAssumption
    <3>4. FundsOK(r)' BY <1>4, <3>1, <3>2 DEF FundsOK, Funds, Clear
    <3>5. BurnsOK(r)' BY <1>4, <3>1, <3>2, <3>3 DEF BurnsOK, Clear
    <3>6. PaysOK(r)' BY <2>2 DEF PaysOK
    <3>7. HomeOK(r)' /\ PaidOK(r)' BY <2>2 DEF HomeOK, PaidOK
    <3> QED BY <3>4, <3>5, <3>6, <3>7 DEF PayOK
  <2>12. PostedOK' BY <1>0, <1>2, PostedKept
  <2> QED BY <1>1, <1>2, <1>6, <2>1, <2>8, <2>9, <2>10, <2>11, <2>12, Proceeds
<1>7. CASE GiveUp(n)
  <2>1. /\ wallet' = [wallet EXCEPT ![n] = NoTx] /\ step' = [step EXCEPT ![n] = Resting]
        /\ UNCHANGED <<mempool, net>>
    BY <1>7 DEF GiveUp
  <2> QED BY <1>2, <1>5, <2>1, GivesUpPays
<1> QED BY <1>6, <1>7 DEF SubmitFallback

\* As IssueTicketPays.
LEMMA IssueFallbackPays ==
  ASSUME PayInv, NEW n \in Nodes, NEW r \in Messages, PayingFor(n, r),
         step[n].at = "signing", NEW t, t = wallet[n], IssueFallback(n)
  PROVE  PayInv'
<1>1. step[n].ref = r BY StageOf
<1>2. PICK k \in Nat : t = BurnBy(n, n, k, r) BY DEF PayingFor, WalletFor
<1>3. UNCHANGED <<up, chain, disk, state, pc, cand, clock, draw, made, accepted, seen>>
  BY DEF IssueFallback
<1>4. n \in Accounts BY EngineAssumption
<1>5. CASE Post(n) /\ UNCHANGED <<mempool, doomed>> BY <1>2, <1>3, <1>4, <1>5, PostPays
<1>6. CASE GiveUp(n) /\ doomed' = doomed \cup {r} /\ UNCHANGED posted
  <2>1. /\ wallet' = [wallet EXCEPT ![n] = NoTx] /\ step' = [step EXCEPT ![n] = Resting]
        /\ UNCHANGED <<mempool, net>>
    BY <1>6 DEF GiveUp
  <2> QED BY <1>3, <1>6, <2>1, GivesUpPays
<1> QED BY <1>1, <1>5, <1>6 DEF IssueFallback

\* A message that arrives changes only what its receiver has seen.
LEMMA ReceiveMessagePays ==
  ASSUME PayInv, NEW n \in Nodes, NEW m \in posted, ReceiveMessage(n, m)
  PROVE  PayInv'
<1>0. Inv /\ Calls BY DEF PayInv
<1>1. /\ up[n] /\ seen' = [seen EXCEPT ![n] = @ \cup {m}]
      /\ accepted' = accepted \/ accepted' = [accepted EXCEPT ![n] = @ \cup {m}]
      /\ UNCHANGED vars /\ UNCHANGED <<step, posted, doomed>>
  BY DEF ReceiveMessage
<1>2. UNCHANGED <<up, mempool, wallet, pc, cand, net, chain, made>> BY <1>1 DEF vars
<1>3. Inv' BY <1>0, <1>1, NextInv
<1>4. ASSUME NEW x \in Nodes PROVE StepOK(x)' /\ CallOK(x)' /\ SeenOK(x)'
  <2>1. StepOK(x) /\ CallOK(x) /\ SeenOK(x) BY <1>0 DEF Calls
  <2>2. CallOK(x)' BY <1>1, <1>2, <2>1 DEF CallOK
  <2>3. SeenOK(x)'
    <3>1. DOMAIN seen = Nodes /\ DOMAIN accepted = Nodes BY <1>0 DEF Calls
    <3>2. CASE x = n
      <4>1. /\ seen'[n] = seen[n] \cup {m}
            /\ accepted'[n] = accepted[n] \/ accepted'[n] = accepted[n] \cup {m}
        BY <1>1, <3>1
      <4> QED BY <1>1, <1>2, <2>1, <3>2, <4>1 DEF SeenOK
    <3>3. CASE x # n
      <4>1. seen'[x] = seen[x] /\ accepted'[x] = accepted[x] BY <1>1, <3>1, <3>3
      <4> QED BY <1>1, <1>2, <2>1, <4>1 DEF SeenOK
    <3> QED BY <3>2, <3>3
  <2>4. StepOK(x)'
    <3>1. CASE step[x] = Resting /\ Plain(wallet[x])
      <4>1. (step[x] = Resting)' /\ Plain(wallet[x])'
        BY <1>1, <1>2, <3>1 DEF Plain, Resting, Funds, Refers, NoTx
      <4> QED BY <4>1 DEF StepOK
    <3>2. ASSUME NEW r \in Messages, PayingFor(x, r) PROVE StepOK(x)'
      <4>1. WalletFor(x, r)'
        BY <1>1, <1>2, <3>2 DEF PayingFor, WalletFor, Funds, Fund, Price, BurnBy, NoTx
      <4>2. PayingFor(x, r)' BY <1>1, <1>2, <3>2, <4>1 DEF PayingFor
      <4> QED BY <4>2 DEF StepOK
    <3> QED BY <2>1, <3>1, <3>2 DEF StepOK
  <2> QED BY <2>2, <2>3, <2>4
<1>5. PostedOK' BY <1>0, <1>1, PostedKept
<1>6. DOMAIN step' = Nodes /\ DOMAIN seen' = Nodes /\ DOMAIN accepted' = Nodes
  BY <1>0, <1>1 DEF Calls
<1>7. Calls' BY <1>4, <1>5, <1>6 DEF Calls
<1>8. ASSUME NEW r \in Messages \ doomed' PROVE PayOK(r)'
  <2>1. PayOK(r) BY <1>1 DEF PayInv
  <2>2. Moves(r) BY <1>2, NothingMoves
  <2>3. Stage(r)' = Stage(r) BY <1>1, StageKept
  <2> QED BY <1>1, <1>2, <2>1, <2>2, <2>3, PayKept
<1> QED BY <1>3, <1>7, <1>8 DEF PayInv

\* A payer that stops dooms the message; its mempool and unfinished blocks are gone.
LEMMA StopPayingPays ==
  ASSUME PayInv, NEW n \in Nodes, StopPaying(n)
  PROVE  PayInv'
<1>0. Inv /\ Calls BY DEF PayInv
<1>1. PICK r \in Messages : PayingFor(n, r) BY <1>0, NodePays DEF StopPaying
<1>2. step[n].ref = r /\ WriterOf[r] = n BY <1>1, StageOf
<1>3. /\ Crash(n) /\ doomed' = doomed \cup {r}
      /\ step' = [step EXCEPT ![n] = Resting] /\ posted' = posted
      /\ seen' = [seen EXCEPT ![n] = {}] /\ accepted' = [accepted EXCEPT ![n] = {}]
  BY <1>2 DEF StopPaying
<1>4. /\ up' = [up EXCEPT ![n] = FALSE] /\ wallet' = [wallet EXCEPT ![n] = NoTx]
      /\ pc' = [pc EXCEPT ![n] = [p \in Callers |-> "idle"]]
  BY <1>3 DEF Crash, Stop
<1>5. /\ DOMAIN up = Nodes /\ DOMAIN wallet = Nodes /\ DOMAIN pc = Nodes
      /\ DOMAIN step = Nodes /\ DOMAIN seen = Nodes /\ DOMAIN accepted = Nodes
  BY <1>0 DEF Inv, Shape, Calls
<1>6. Inv' BY <1>0, <1>3, StopInv DEF Crash
<1>7. step'[n] = Resting /\ \A x \in Nodes \ {n} : step'[x] = step[x] BY <1>3, <1>5
<1>8. ASSUME NEW x \in Nodes PROVE StepOK(x)' /\ CallOK(x)' /\ SeenOK(x)'
  <2>1. CASE x = n
    <3>1. wallet'[n] = NoTx /\ pc'[n]["user"] = "idle" BY <1>4, <1>5, TicketsAssumption
    <3>2. StepOK(n)' /\ CallOK(n)' BY <1>7, <3>1, RestsAfter
    <3>3. seen'[n] = {} /\ accepted'[n] = {} BY <1>3, <1>5
    <3> QED BY <2>1, <3>2, <3>3 DEF SeenOK
  <2>2. CASE x # n
    <3>1. /\ step'[x] = step[x] /\ wallet'[x] = wallet[x] /\ pc'[x] = pc[x]
          /\ up'[x] = up[x] /\ seen'[x] = seen[x] /\ accepted'[x] = accepted[x]
      BY <1>3, <1>4, <1>5, <2>2
    <3>2. StepOK(x)' /\ CallOK(x)' BY <1>0, <1>3, <2>2, <3>1, OthersKept
    <3>3. SeenOK(x)' BY <1>0, <1>3, <3>1 DEF Calls, SeenOK
    <3> QED BY <3>2, <3>3
  <2> QED BY <2>1, <2>2
<1>9. PostedOK' BY <1>0, <1>3, PostedKept
<1>10. DOMAIN step' = Nodes /\ DOMAIN seen' = Nodes /\ DOMAIN accepted' = Nodes
  BY <1>3, <1>5
<1>11. Calls' BY <1>8, <1>9, <1>10 DEF Calls
<1>12. ASSUME NEW q \in Messages \ doomed' PROVE PayOK(q)'
  <2>1. PayOK(q) /\ q # r BY <1>3, <1>12 DEF PayInv
  <2>2. Moves(q) BY <1>0, <1>3, CrashMoves
  <2>3. CASE WriterOf[q] = n
    <3>1. Stage(q) = "resting" BY <1>2, <2>1, <2>3 DEF Stage
    <3>2. Stage(q)' = "resting" BY <1>7, <2>3, StageRests
    <3> QED BY <1>3, <2>1, <2>2, <3>1, <3>2, PayKept
  <2>4. CASE WriterOf[q] # n
    <3>1. WriterOf[q] \in Nodes BY TicketsAssumption
    <3>2. step'[WriterOf[q]] = step[WriterOf[q]] /\ wallet'[WriterOf[q]] = wallet[WriterOf[q]]
      BY <1>4, <1>5, <1>7, <2>4, <3>1
    <3>3. Stage(q)' = Stage(q) BY <3>2 DEF Stage, Resting
    <3> QED BY <1>3, <2>1, <2>2, <3>2, <3>3, PayKept
  <2> QED BY <2>3, <2>4
<1>13. \A q \in Messages \ doomed' : PayOK(q)' BY <1>12
<1> QED BY <1>6, <1>11, <1>13 DEF PayInv

\* At the start nothing is around.
LEMMA TicketsInitPays == TicketsInit => PayInv
<1> SUFFICES ASSUME TicketsInit PROVE PayInv OBVIOUS
<1>1. Init /\ Inv BY InitInv DEF TicketsInit
<1>2. \A n \in Nodes : step[n] = Resting /\ accepted[n] = {} /\ seen[n] = {} BY DEF TicketsInit
<1>3. \A n \in Nodes : wallet[n] = NoTx /\ pc[n]["user"] = "idle"
  BY <1>1, TicketsAssumption DEF Init
<1>4. posted = {} BY DEF TicketsInit
<1>5. \A n \in Nodes : StepOK(n) /\ CallOK(n) /\ SeenOK(n)
  BY <1>2, <1>3, <1>4 DEF StepOK, Plain, CallOK, SeenOK
<1>6. PostedOK BY <1>4 DEF PostedOK
<1>7. Calls BY <1>5, <1>6 DEF Calls, TicketsInit
<1>8. \A t : ~Around(t)
  <2>1. \A n \in Nodes : \A p \in Callers :
          mempool[n] = <<>> /\ cand[n][p] = Genesis /\ chain[n] = Genesis
    BY <1>1 DEF Init
  <2>2. net = {} /\ made = {} BY <1>1 DEF Init
  <2>3. \A n \in Nodes : \A p \in Callers :
          ToSet(mempool[n]) = {} /\ TxsOf(cand[n][p]) = {}
    BY <2>1, TxsOfGenesis, EmptyPending
  <2>4. \A n \in Nodes : TxsOf(chain[n]) = {}
    <3>1. \A n \in Nodes : chain[n] = Genesis BY <1>1 DEF Init
    <3> QED BY <3>1, TxsOfGenesis
  <2> SUFFICES ASSUME NEW t PROVE ~Around(t) OBVIOUS
  <2>5. ~Sent(t) /\ ~InBlocks(t) BY <2>2, <2>4 DEF Sent, InBlocks
  <2>6. \A n \in Nodes : ~InPool(t, n)
    <3>1. \A n \in Nodes : mempool[n] = <<>> BY <1>1 DEF Init
    <3> QED BY <3>1, EmptyPending DEF InPool
  <2>7. \A n \in Nodes : ~InCand(t, n) BY <2>3 DEF InCand
  <2> QED BY <2>5, <2>6, <2>7 DEF Around
<1>9. ASSUME NEW r \in Messages PROVE PayOK(r)
  <2>1. Stage(r) = "resting" BY <1>2, TicketsAssumption DEF Stage
  <2> QED BY <1>8, <2>1 DEF PayOK, FundsOK, BurnsOK, PaysOK, HomeOK, PaidOK
<1> QED BY <1>1, <1>7, <1>9 DEF PayInv

\* Any step of a payment keeps the invariant.
LEMMA PayKeeps ==
  ASSUME PayInv, NEW n \in Nodes, Pay(n)
  PROVE  PayInv'
<1>0. Calls BY DEF PayInv
<1> DEFINE r == step[n].ref
<1>1. \A at \in Labels : Paying(n, at) => r \in Messages /\ PayingFor(n, r) /\ step[n].at = at
  BY <1>0, PayerOf
<1> HIDE DEF r
<1>2. ASSUME NEW q \in Messages, StartBurn(n, q) PROVE PayInv' BY <1>2, StartBurnPays
<1>3. CASE SubmitFunding(n)
  <2>1. Paying(n, "funding") BY <1>3 DEF SubmitFunding
  <2> QED BY <1>1, <1>3, <2>1, SubmitFundingPays DEF Labels
<1>4. CASE CheckFunded(n)
  <2>1. Paying(n, "funded") BY <1>4 DEF CheckFunded
  <2> QED BY <1>1, <1>4, <2>1, CheckFundedPays DEF Labels
<1>5. CASE SubmitBurn(n)
  <2>1. Paying(n, "burning") BY <1>5 DEF SubmitBurn
  <2> QED BY <1>1, <1>5, <2>1, SubmitBurnPays DEF Labels
<1>6. CASE IssueTicket(n)
  <2>1. Paying(n, "ticket") BY <1>6 DEF IssueTicket
  <2> QED BY <1>1, <1>6, <2>1, IssueTicketPays DEF Labels
<1>7. CASE StartFallback(n)
  <2>1. Paying(n, "fallback") BY <1>7 DEF StartFallback
  <2> QED BY <1>1, <1>7, <2>1, StartFallbackPays DEF Labels
<1>8. CASE SubmitFallback(n)
  <2>1. Paying(n, "paying") BY <1>8 DEF SubmitFallback
  <2> QED BY <1>1, <1>8, <2>1, SubmitFallbackPays DEF Labels
<1>9. CASE IssueFallback(n)
  <2>1. Paying(n, "signing") BY <1>9 DEF IssueFallback
  <2> QED BY <1>1, <1>9, <2>1, IssueFallbackPays DEF Labels
<1> QED BY <1>2, <1>3, <1>4, <1>5, <1>6, <1>7, <1>8, <1>9 DEF Pay

LEMMA IdlePays == ASSUME PayInv, UNCHANGED allVars PROVE PayInv'
<1>0. Inv /\ Calls BY DEF PayInv
<1>1. UNCHANGED vars /\ UNCHANGED payVars BY DEF allVars
<1>2. Inv' BY <1>0, <1>1, NextInv
<1>3. UNCHANGED <<up, chain, mempool, wallet, pc, cand, net, made>>
      /\ UNCHANGED <<step, posted, doomed>>
  BY <1>1 DEF vars, payVars
<1>4. \A m \in Nodes : step[m] = Resting => Plain(wallet[m])
  <2>1. \A m \in Nodes : \A r \in Messages : PayingFor(m, r) => step[m] # Resting
    BY LabelsPay DEF PayingFor
  <2> QED BY <1>0, <2>1 DEF Calls, StepOK
<1>5. Calls' BY <1>0, <1>1, <1>3, <1>4, CallsKept
<1>6. ASSUME NEW r \in Messages \ doomed' PROVE PayOK(r)'
  <2>1. PayOK(r) BY <1>3 DEF PayInv
  <2>2. Moves(r) BY <1>3, TicketsAssumption, NothingMoves
  <2>3. Stage(r)' = Stage(r) BY <1>3, StageKept
  <2> QED BY <1>3, <2>1, <2>2, <2>3, PayKept
<1> QED BY <1>2, <1>5, <1>6 DEF PayInv

\* The inductive invariant of the payments: the engine's, that of the calls, and for
\* each message that is not doomed where its transfer and burns may be.  AnonymousBurn and
\* anonymousBurnTicket keep it between any frames, miners' steps and crashes.
THEOREM PayInvHolds == TicketsSpec => []PayInv
<1>1. TicketsInit => PayInv BY TicketsInitPays
<1>2. PayInv /\ [TicketsNext]_allVars => PayInv'
  <2> SUFFICES ASSUME PayInv, [TicketsNext]_allVars PROVE PayInv' OBVIOUS
  <2>1. CASE Tick /\ UNCHANGED payVars BY <2>1, TickPays
  <2>2. ASSUME NEW n \in Nodes, Pay(n) PROVE PayInv' BY <2>2, PayKeeps
  <2>3. ASSUME NEW n \in Nodes, Chain(n), UNCHANGED payVars PROVE PayInv' BY <2>3, ChainPays
  <2>4. ASSUME NEW n \in Nodes, NEW m \in posted, ReceiveMessage(n, m) PROVE PayInv'
    BY <2>4, ReceiveMessagePays
  <2>5. ASSUME NEW n \in Nodes, StopPaying(n) PROVE PayInv' BY <2>5, StopPayingPays
  <2>6. CASE UNCHANGED allVars BY <2>6, IdlePays
  <2> QED BY <2>1, <2>2, <2>3, <2>4, <2>5, <2>6 DEF TicketsNext
<1> QED BY <1>1, <1>2, PTL DEF TicketsSpec

\* A burner nobody is working with, and without a ticket, holds nothing.
LEMMA NoBurnerHeld ==
  ASSUME PayInv, NEW n \in Nodes, NEW r \in Messages \ doomed,
         ~PostedBy(r, BurnerOf[r]), Stage(r) \notin {"funded", "burning", "ticket"}
  PROVE  state[n].balance[BurnerOf[r]] = 0
<1>1. FundsOK(r) /\ BurnsOK(r) /\ Inv BY DEF PayInv, PayOK
<1>2. \A t \in TxsOf(chain[n]) : Around(t) BY DEF Around, InBlocks
<1>3. Stage(r) # "ticket" OBVIOUS
<1>4. \A t \in TxsOf(chain[n]) : t.sender # BurnerOf[r] BY <1>1, <1>2, <1>3 DEF BurnsOK
<1>5. \A t \in TxsOf(chain[n]) : ~Funds(t, r) BY <1>1, <1>2 DEF FundsOK
<1> QED BY <1>1, <1>4, <1>5, BurnerHolds

\* Types of the calls; ProposeOnce runs for a user only inside AnonymousBurn, a payment
\* holds a transaction at exactly the steps that use one, and is for a message not sent yet.
THEOREM TicketsTypes == TicketsSpec => []TicketsTypeOK
<1>1. PayInv => TicketsTypeOK
  <2> SUFFICES ASSUME PayInv PROVE TicketsTypeOK OBVIOUS
  <2>0. Inv /\ Calls BY DEF PayInv
  <2>1. posted \subseteq Tickets BY <2>0 DEF Calls, PostedOK
  <2>2. ASSUME NEW n \in Nodes
        PROVE  /\ accepted[n] \subseteq seen[n] /\ seen[n] \subseteq posted
               /\ Len(mempool[n]) <= PoolMax
               /\ pc[n]["user"] # "idle" => step[n].at = "funded"
    BY <2>0 DEF Calls, SeenOK, CallOK, Inv, PoolOK
  <2>3. ASSUME NEW n \in Nodes, step[n] # Resting
        PROVE  /\ (wallet[n] # NoTx) =
                    (step[n].at \in {"funding", "funded", "ticket", "paying", "signing"})
               /\ \A m \in posted : m.ref # step[n].ref
    <3>1. PICK r \in Messages : PayingFor(n, r) BY <2>0, <2>3, NodePays
    <3>2. step[n].ref = r /\ \A m \in posted : m.ref # r BY <3>1, StageOf
    <3>3. step[n].at \in Labels /\ WalletFor(n, r) BY <3>1 DEF PayingFor
    <3>4. step[n].at \in {"funding", "funded"} => wallet[n] # NoTx
      BY <3>3 DEF WalletFor, Funds, NoTx
    <3>5. \A a, k : BurnBy(n, a, k, r) # NoTx
      <4> SUFFICES ASSUME NEW a, NEW k PROVE BurnBy(n, a, k, r) # NoTx OBVIOUS
      <4>1. BurnBy(n, a, k, r).type = "burn" BY DEF BurnBy
      <4>2. NoTx.type = "none" BY DEF NoTx
      <4> QED BY <4>1, <4>2
    <3>6. step[n].at \in {"ticket", "paying", "signing"} => wallet[n] # NoTx
      BY <3>3, <3>5 DEF WalletFor
    <3>7. step[n].at \in {"burning", "fallback"} => wallet[n] = NoTx BY <3>3 DEF WalletFor
    <3>8. (wallet[n] # NoTx) <=>
            (step[n].at \in {"funding", "funded", "ticket", "paying", "signing"})
      BY <3>3, <3>4, <3>6, <3>7 DEF Labels
    <3> QED BY <3>2, <3>8
  <2> QED BY <2>1, <2>2, <2>3 DEF TicketsTypeOK
<1> QED BY <1>1, PayInvHolds, PTL

\* AnonymousBurn leaves no money with a burner whose key is gone (engine.go:267), but for
\* the messages in doomed: the transfer was in a block already built, the burn was pushed out
\* of a full mempool before its ticket, or the sender stopped.
THEOREM BurnersNotOrphaned == TicketsSpec => []FundingNotOrphaned
<1>1. PayInv => FundingNotOrphaned
  <2> SUFFICES ASSUME PayInv, NEW n \in Nodes, NEW r \in Messages,
                      state[n].balance[BurnerOf[r]] > 0,
                      \A m \in posted : m.ref = r => m.burn.sender # BurnerOf[r],
                      step[WriterOf[r]].at \in {"funding", "funded", "burning", "ticket"}
                        => step[WriterOf[r]].ref # r,
                      r \notin doomed
               PROVE  FALSE
    BY DEF FundingNotOrphaned
  <2>1. ~PostedBy(r, BurnerOf[r]) BY DEF PostedBy
  <2>2. Stage(r) \notin {"funded", "burning", "ticket"} BY DEF Stage
  <2>3. state[n].balance[BurnerOf[r]] = 0 BY <2>1, <2>2, NoBurnerHeld
  <2> QED BY <2>3
<1> QED BY <1>1, PayInvHolds, PTL

\* No chain has both the burner's transfer and the main account's burn for one message,
\* but for those same cases: the fallback burns only after the transfer was taken back.
THEOREM MessagesPaidOnce == TicketsSpec => []PaidOnce
<1>1. PayInv => PaidOnce
  <2> SUFFICES ASSUME PayInv, NEW n \in Nodes, NEW r \in Messages \ doomed,
                      NEW t \in TxsOf(chain[n]), t.type = "transfer", t.to = BurnerOf[r],
                      NEW u \in TxsOf(chain[n]), u.type = "burn", u.ref = r,
                      u.sender = WriterOf[r]
               PROVE  FALSE
    BY DEF PaidOnce
  <2>1. FundsOK(r) /\ PaysOK(r) /\ Calls BY DEF PayInv, PayOK
  <2>2. Around(t) /\ Funds(t, r) BY DEF Around, InBlocks, Funds
  <2>3. Around(u) /\ Refers(u, r) BY DEF Around, InBlocks, Refers
  <2>4. Stage(r) \in {"funded", "burning", "ticket"} \/ PostedBy(r, BurnerOf[r])
    BY <2>1, <2>2 DEF FundsOK
  <2>5. Stage(r) = "signing" \/ PostedBy(r, WriterOf[r]) BY <2>1, <2>3 DEF PaysOK
  <2>6. WriterOf[r] \in Nodes /\ WriterOf[r] # BurnerOf[r] BY TicketsAssumption
  <2>7. ASSUME Stage(r) # "resting", NEW a, PostedBy(r, a) PROVE FALSE
    <3>1. step[WriterOf[r]] # Resting /\ step[WriterOf[r]].ref = r BY <2>7 DEF Stage
    <3>2. PICK q \in Messages : PayingFor(WriterOf[r], q) BY <2>1, <2>6, <3>1, NodePays
    <3>3. q = r /\ \A m \in posted : m.ref # q BY <3>1, <3>2, StageOf
    <3> QED BY <2>7, <3>3 DEF PostedBy
  <2>8. ~(PostedBy(r, WriterOf[r]) /\ PostedBy(r, BurnerOf[r]))
    BY <2>1, <2>6 DEF PostedBy, Calls, PostedOK
  <2>9. CASE Stage(r) = "signing"
    <3>1. PostedBy(r, BurnerOf[r]) BY <2>4, <2>9
    <3> QED BY <2>7, <2>9, <3>1
  <2>10. CASE Stage(r) # "signing"
    <3>1. PostedBy(r, WriterOf[r]) BY <2>5, <2>10
    <3>2. Stage(r) \in {"funded", "burning", "ticket"} BY <2>4, <2>8, <3>1
    <3> QED BY <2>7, <3>1, <3>2
  <2> QED BY <2>9, <2>10
<1> QED BY <1>1, PayInvHolds, PTL

\* What a step of a payment may submit.
LEMMA WalletTyped ==
  ASSUME PayInv, NEW n \in Nodes, NEW r \in Messages, PayingFor(n, r),
         step[n].at \in {"funding", "funded", "ticket", "paying", "signing"}
  PROVE  /\ wallet[n] \in Txs
         /\ step[n].at \in {"funding", "funded"} => wallet[n].type = "transfer"
<1>0. Inv BY DEF PayInv
<1>1. WalletFor(n, r) BY DEF PayingFor
<1>2. wallet[n] # NoTx
  <2>1. CASE step[n].at \in {"funding", "funded"} BY <1>1, <2>1 DEF WalletFor, Funds, NoTx
  <2>2. CASE step[n].at \in {"ticket", "paying", "signing"}
    <3>1. PICK a, k : wallet[n] = BurnBy(n, a, k, r) BY <1>1, <2>2 DEF WalletFor
    <3>2. wallet[n].type = "burn" BY <3>1 DEF BurnBy
    <3>3. NoTx.type = "none" BY DEF NoTx
    <3> QED BY <3>2, <3>3
  <2> QED BY <2>1, <2>2
<1>3. step[n].at \in {"funding", "funded"} => wallet[n].type = "transfer"
  BY <1>1 DEF WalletFor, Funds
<1> QED BY <1>0, <1>2, <1>3 DEF Inv, WalletOK

\* What a step of a payment does to the mempools: nothing, or it submits a
\* transaction, or takes its own transfer back.
PoolStep(n) ==
  \/ UNCHANGED mempool
  \/ \E t \in Txs : Submittable(n, t) /\ mempool' = [mempool EXCEPT ![n] = Admit(@, t)]
  \/ \E t \in Txs : t.type = "transfer" /\ mempool' = [mempool EXCEPT ![n] = Without(@, <<t>>)]

LEMMA PayPools ==
  ASSUME PayInv, NEW n \in Nodes, Pay(n)
  PROVE  up[n] /\ UNCHANGED <<up, chain>> /\ PoolStep(n)
<1>0. Calls BY DEF PayInv
<1> DEFINE r == step[n].ref
<1>1. \A at \in Labels : Paying(n, at) => r \in Messages /\ PayingFor(n, r) /\ step[n].at = at
  BY <1>0, PayerOf
<1>2. UNCHANGED <<up, chain>>
  BY DEF Pay, StartBurn, SubmitFunding, CheckFunded, SubmitBurn, IssueTicket, StartFallback,
         SubmitFallback, IssueFallback, local
<1>3. up[n]
  BY DEF Pay, StartBurn, SubmitFunding, CheckFunded, SubmitBurn, IssueTicket, StartFallback,
         SubmitFallback, IssueFallback, Paying
<1>4. ASSUME NEW t \in Txs, Submittable(n, t), mempool' = [mempool EXCEPT ![n] = Admit(@, t)]
      PROVE  PoolStep(n)
  BY <1>4 DEF PoolStep
<1>5. ASSUME UNCHANGED mempool PROVE PoolStep(n) BY <1>5 DEF PoolStep
<1>6. ASSUME SubmitFunding(n) PROVE PoolStep(n)
  <2>1. wallet[n] \in Txs BY <1>1, <1>6, WalletTyped DEF SubmitFunding, Paying, Labels
  <2> QED BY <1>4, <1>5, <1>6, <2>1 DEF SubmitFunding
<1>7. ASSUME CheckFunded(n) PROVE PoolStep(n)
  <2>1. wallet[n] \in Txs /\ wallet[n].type = "transfer"
    BY <1>1, <1>7, WalletTyped DEF CheckFunded, Paying, Labels
  <2>2. UNCHANGED mempool \/ mempool' = [mempool EXCEPT ![n] = Without(@, <<wallet[n]>>)]
    BY <1>7 DEF CheckFunded
  <2> QED BY <1>5, <2>1, <2>2 DEF PoolStep
<1>8. ASSUME SubmitBurn(n) PROVE PoolStep(n)
  <2>1. r \in Messages BY <1>1, <1>8 DEF SubmitBurn, Paying, Labels
  <2> DEFINE t == BurnBy(n, BurnerOf[r], 0, r)
  <2>2. t \in Txs
    <3>1. BurnerOf[r] \in Accounts /\ 0 \in Nat BY <2>1, TicketsAssumption
    <3>2. BurnOf(t, BurnerOf[r], r) BY <2>1, <3>1, BurnIs
    <3> QED BY <3>2 DEF BurnOf
  <2>3. \/ Submittable(n, t) /\ mempool' = [mempool EXCEPT ![n] = Admit(@, t)]
        \/ UNCHANGED mempool
    BY <1>8 DEF SubmitBurn
  <2> HIDE DEF t
  <2> QED BY <1>4, <1>5, <2>2, <2>3
<1>9. ASSUME SubmitFallback(n) PROVE PoolStep(n)
  <2>1. wallet[n] \in Txs BY <1>1, <1>9, WalletTyped DEF SubmitFallback, Paying, Labels
  <2> QED BY <1>4, <1>5, <1>9, <2>1 DEF SubmitFallback, GiveUp
<1>10. ASSUME (\E q \in Messages : StartBurn(n, q)) \/ IssueTicket(n) \/ StartFallback(n)
       PROVE  PoolStep(n)
  BY <1>5, <1>10 DEF StartBurn, IssueTicket, StartFallback, local
<1>11. ASSUME IssueFallback(n) PROVE PoolStep(n) BY <1>5, <1>11 DEF IssueFallback, GiveUp
<1> QED BY <1>2, <1>3, <1>6, <1>7, <1>8, <1>9, <1>10, <1>11 DEF Pay

\* A payment submits only what the chain does not have, so PendingNotIncluded goes on.
LEMMA PendingPays ==
  ASSUME DiskFaults = FALSE, PayInv, \A m \in Nodes : Pending(m), [TicketsNext]_allVars
  PROVE  \A m \in Nodes : Pending(m)'
<1>0. Inv BY DEF PayInv
<1>1. CASE [Next]_vars BY <1>0, <1>1, PendingStep
<1>2. ASSUME NEW n \in Nodes, Pay(n) PROVE \A m \in Nodes : Pending(m)'
  <2>1. up[n] /\ UNCHANGED <<up, chain>> /\ PoolStep(n) BY <1>2, PayPools
  <2>2. CASE UNCHANGED mempool BY <2>1, <2>2 DEF Pending
  <2>3. ASSUME NEW t \in Txs, Submittable(n, t), mempool' = [mempool EXCEPT ![n] = Admit(@, t)]
        PROVE  \A m \in Nodes : Pending(m)'
    BY <1>0, <2>1, <2>3, AdmitPending
  <2>4. ASSUME NEW t, mempool' = [mempool EXCEPT ![n] = Without(@, <<t>>)]
        PROVE  \A m \in Nodes : Pending(m)'
    <3> DEFINE q == Without(mempool[n], <<t>>)
    <3>1. ToSet(q) \subseteq ToSet(mempool[n]) BY <1>0, WithoutKeeps DEF Inv, PoolOK
    <3>2. mempool' = [mempool EXCEPT ![n] = q] BY <2>4
    <3> HIDE DEF q
    <3>3. \A m \in Nodes : mempool'[m] = mempool[m] \/ (m = n /\ mempool'[m] = q)
      BY <1>0, <3>2 DEF Inv, Shape
    <3> SUFFICES ASSUME NEW m \in Nodes PROVE Pending(m)' OBVIOUS
    <3>4. Pending(m) /\ (m = n => up[m]) BY <2>1
    <3> QED BY <2>1, <3>1, <3>3, <3>4 DEF Pending
  <2> QED BY <2>1, <2>2, <2>3, <2>4 DEF PoolStep
<1>3. CASE UNCHANGED allVars BY <1>1, <1>3 DEF allVars
<1>4. ASSUME NEW n \in Nodes, Chain(n) PROVE [Next]_vars BY <1>4 DEF Chain, Next, Propose
<1>5. ASSUME NEW n \in Nodes, StopPaying(n) PROVE [Next]_vars BY <1>5 DEF StopPaying, Next
<1>6. ASSUME NEW n \in Nodes, NEW m \in posted, ReceiveMessage(n, m) PROVE [Next]_vars
  BY <1>6 DEF ReceiveMessage
<1>7. CASE Tick BY <1>1, <1>7 DEF Next
<1> QED BY <1>1, <1>2, <1>3, <1>4, <1>5, <1>6, <1>7 DEF TicketsNext

\* A pending transaction whose nonce is below the account's lost it to another transaction
\* of that account, which is in the chain: no nonce is skipped, and what is in the chain is
\* not pending.  The latter needs that no write fails: acceptLocked returns the error of a
\* failed write before it takes the block's transactions out of the mempool.
THEOREM LostNoncesHaveRivals ==
  ASSUME DiskFaults = FALSE
  PROVE  TicketsSpec => []StaleTxHasRival
<1> DEFINE P == \A m \in Nodes : Pending(m)
<1>1. TicketsInit => P BY EmptyPending DEF TicketsInit, Init, Pending
<1>2. PayInv /\ P /\ [TicketsNext]_allVars => P' BY PendingPays
<1>3. PayInv /\ P => StaleTxHasRival
  <2> SUFFICES ASSUME PayInv, P, NEW n \in Nodes, NEW t \in ToSet(mempool[n]), up[n],
                      t.nonce < state[n].nonce[t.sender]
               PROVE  \E u \in TxsOf(chain[n]) :
                        u.type # "coinbase" /\ u.sender = t.sender /\ u.nonce = t.nonce /\ u # t
    BY DEF StaleTxHasRival
  <2>0. Inv /\ Lawful(chain[n]) /\ state[n] = Replay(chain[n]) BY DEF PayInv, Inv, ChainOK
  <2>1. t \in Txs
    <3>1. mempool[n] \in Seq(Txs) BY <2>0 DEF Inv, PoolOK
    <3> QED BY <3>1 DEF ToSet
  <2>2. t.sender \in Accounts /\ t.nonce \in Nat
    BY <2>1 DEF Txs, Transfer, Burn, Register, Stake, Unstake, Activate
  <2>3. ASSUME NEW a \in Accounts, NEW k \in Nat, k < Replay(chain[n]).nonce[a]
        PROVE  \E u \in TxsOf(chain[n]) : u \in Txs /\ u.sender = a /\ u.nonce = k
    <3> DEFINE c == chain[n]
    <3>1. Lawful(c) /\ k < Replay(c).nonce[a] BY <2>0, <2>3
    <3> HIDE DEF c
    <3>2. PICK h \in 1..Len(c) : \E i \in 1..Len(c[h].txs) :
            c[h].txs[i] \in Txs /\ c[h].txs[i].sender = a /\ c[h].txs[i].nonce = k
      BY <3>1, NoncesFilled
    <3>3. PICK i \in 1..Len(c[h].txs) :
            c[h].txs[i] \in Txs /\ c[h].txs[i].sender = a /\ c[h].txs[i].nonce = k
      BY <3>2
    <3>4. c[h].txs[i] \in TxsOf(c) BY <3>1, TxsOfPlace
    <3> QED BY <3>3, <3>4 DEF c
  <2>4. PICK u \in TxsOf(chain[n]) : u \in Txs /\ u.sender = t.sender /\ u.nonce = t.nonce
    <3> DEFINE a == t.sender
               k == t.nonce
    <3>1. a \in Accounts /\ k \in Nat /\ k < Replay(chain[n]).nonce[a] BY <2>0, <2>2
    <3> HIDE DEF a, k
    <3>2. \E u \in TxsOf(chain[n]) : u \in Txs /\ u.sender = a /\ u.nonce = k BY <2>3, <3>1
    <3> QED BY <3>2 DEF a, k
  <2>5. u.type # "coinbase"
    BY <2>4 DEF Txs, Transfer, Burn, Register, Stake, Unstake, Activate
  <2>6. u # t BY <2>4 DEF Pending
  <2> QED BY <2>4, <2>5, <2>6
<1> HIDE DEF P
<1> QED BY <1>1, <1>2, <1>3, PayInvHolds, PTL DEF TicketsSpec

\* t leaves what the node n knows only as the oldest of a full mempool.
OnlyPushedOut(n, t) ==
  HasTx(n, t) /\ ~HasTx(n, t)' =>
    /\ Len(mempool[n]) = PoolMax
    /\ t = Head(mempool[n])
    /\ chain'[n] = chain[n]

LEMMA KnownStill ==
  ASSUME NEW n \in Nodes, NEW t, TxsOf(chain[n]) \subseteq TxsOf(chain'[n]),
         t \in ToSet(mempool[n]) => t \in ToSet(mempool'[n]) \cup TxsOf(chain'[n])
  PROVE  OnlyPushedOut(n, t)
BY DEF OnlyPushedOut, HasTx

\* A transaction that arrives pushes out at most the oldest of a full mempool.
LEMMA KnownWhenAdmitting ==
  ASSUME Inv, NEW n \in Nodes, NEW x \in Nodes, NEW t, NEW u \in Txs, UNCHANGED chain,
         mempool' = [mempool EXCEPT ![x] = Admit(@, u)]
  PROVE  OnlyPushedOut(n, t)
<1> DEFINE q == mempool[n]
<1>1. q \in Seq(Txs) /\ Len(q) <= PoolMax /\ DOMAIN mempool = Nodes BY DEF Inv, Shape, PoolOK
<1>2. CASE x = n
  <2>1. mempool'[n] = Admit(q, u) BY <1>1, <1>2
  <2> HIDE DEF q
  <2>2. \A v \in ToSet(q) : v \in ToSet(Admit(q, u)) \/ (Len(q) = PoolMax /\ v = Head(q))
    BY <1>1, AdmitDrops
  <2> QED BY <2>1, <2>2 DEF OnlyPushedOut, HasTx, q
<1>3. CASE x # n
  <2>1. mempool'[n] = mempool[n] BY <1>1, <1>3
  <2> QED BY <2>1, KnownStill
<1> QED BY <1>2, <1>3

\* Accepting takes out of the mempool only what it puts into the chain.
LEMMA KnownWhenAccepting ==
  ASSUME Inv, NEW n \in Nodes, NEW x \in Nodes, NEW t, NEW c, Built(c), Accept(x, c)
  PROVE  OnlyPushedOut(n, t)
<1>1. /\ \A m \in Nodes : TxsOf(chain[m]) \subseteq TxsOf(chain'[m])
      /\ chain'[x] = c
  BY AcceptMoves
<1> DEFINE q == Without(mempool[x], Last(c).txs)
<1>2. mempool' = mempool \/ mempool' = [mempool EXCEPT ![x] = q]
  BY DEF Accept, Saved, SaveFails
<1>3. mempool[x] \in Seq(Txs) /\ Distinct(mempool[x]) /\ DOMAIN mempool = Nodes
  BY DEF Inv, Shape, PoolOK
<1>4. ToSet(q) = ToSet(mempool[x]) \ ToSet(Last(c).txs) BY <1>3, WithoutKeeps
<1>5. ToSet(Last(c).txs) \subseteq TxsOf(c)
  <2>1. IsSeq(c) /\ c # <<>> BY DEF Built, Genesis
  <2> QED BY <2>1, TxsOfBlock
<1> HIDE DEF q
<1>6. mempool'[n] = mempool[n] \/ (n = x /\ mempool'[n] = q) BY <1>2, <1>3
<1>7. t \in ToSet(mempool[n]) => t \in ToSet(mempool'[n]) \cup TxsOf(chain'[n])
  <2>1. CASE mempool'[n] = mempool[n] BY <2>1
  <2>2. CASE n = x /\ mempool'[n] = q BY <1>1, <1>4, <1>5, <2>2
  <2> QED BY <1>6, <2>1, <2>2
<1> QED BY <1>1, <1>7, KnownStill

\* So any step of the engine, of any node, but a crash.
LEMMA KnownWhenChainWorks ==
  ASSUME Inv, NEW n \in Nodes, up[n], NEW x \in Nodes, Chain(x), NEW t
  PROVE  OnlyPushedOut(n, t)
<1>1. ASSUME UNCHANGED <<mempool, chain>> PROVE OnlyPushedOut(n, t) BY <1>1, KnownStill
<1>2. ASSUME NEW op \in UserOps[x], BuildTx(x, op) PROVE OnlyPushedOut(n, t)
  BY <1>1, <1>2 DEF BuildTx
<1>3. ASSUME SubmitTx(x) PROVE OnlyPushedOut(n, t)
  <2>1. wallet[x] \in Txs BY <1>3 DEF SubmitTx, Inv, WalletOK
  <2>2. /\ UNCHANGED chain
        /\ mempool' = [mempool EXCEPT ![x] = Admit(@, wallet[x])] \/ UNCHANGED mempool
    BY <1>3 DEF SubmitTx
  <2>3. CASE UNCHANGED mempool BY <1>1, <2>2, <2>3
  <2>4. CASE mempool' = [mempool EXCEPT ![x] = Admit(@, wallet[x])]
    BY <2>1, <2>2, <2>4, KnownWhenAdmitting
  <2> QED BY <2>2, <2>3, <2>4
<1>4. ASSUME MinerLooks(x) \/ \E p \in Callers : BuildBlock(x, p) PROVE OnlyPushedOut(n, t)
  BY <1>1, <1>4 DEF MinerLooks, BuildBlock
<1>5. ASSUME NEW p \in Callers, ProposeBlock(x, p) PROVE OnlyPushedOut(n, t)
  <2> DEFINE c == cand[x][p]
  <2>1. Built(c) BY <1>5 DEF Inv, CandOK, ProposeBlock, At
  <2>2. Accept(x, c) \/ UNCHANGED <<mempool, chain>> BY <1>5 DEF ProposeBlock, local
  <2> HIDE DEF c
  <2>3. CASE Accept(x, c) BY <2>1, <2>3, KnownWhenAccepting
  <2>4. CASE UNCHANGED <<mempool, chain>> BY <1>1, <2>4
  <2> QED BY <2>2, <2>3, <2>4
<1>6. ASSUME NEW u, ReceiveTx(x, u) PROVE OnlyPushedOut(n, t)
  <2>1. u \in Txs BY <1>6, FramesOf DEF ReceiveTx
  <2> QED BY <1>6, <2>1, KnownWhenAdmitting DEF ReceiveTx
<1>7. ASSUME NEW c, ReceiveBlock(x, c) PROVE OnlyPushedOut(n, t)
  <2>1. Built(c) /\ Accept(x, c) BY <1>7, FramesOf DEF ReceiveBlock
  <2> QED BY <2>1, KnownWhenAccepting
<1>8. ASSUME Restart(x) PROVE OnlyPushedOut(n, t)
  <2>1. ~up[x] /\ chain' = [chain EXCEPT ![x] = disk[x]] /\ UNCHANGED mempool
    BY <1>8 DEF Restart, MayRestart
  <2>2. chain'[n] = chain[n] BY <2>1 DEF Inv, Shape
  <2> QED BY <2>1, <2>2, KnownStill
<1> QED BY <1>2, <1>3, <1>4, <1>5, <1>6, <1>7, <1>8 DEF Chain

\* And a step of a payment: what it takes back is a transfer, and no burn.
LEMMA KnownWhenPaying ==
  ASSUME PayInv, NEW n \in Nodes, NEW x \in Nodes, Pay(x), NEW t, t.type = "burn"
  PROVE  OnlyPushedOut(n, t)
<1>0. Inv BY DEF PayInv
<1>1. UNCHANGED chain /\ PoolStep(x) BY PayPools
<1>2. CASE UNCHANGED mempool BY <1>1, <1>2, KnownStill
<1>3. ASSUME NEW u \in Txs, mempool' = [mempool EXCEPT ![x] = Admit(@, u)]
      PROVE  OnlyPushedOut(n, t)
  BY <1>0, <1>1, <1>3, KnownWhenAdmitting
<1>4. ASSUME NEW u \in Txs, u.type = "transfer",
             mempool' = [mempool EXCEPT ![x] = Without(@, <<u>>)]
      PROVE  OnlyPushedOut(n, t)
  <2> DEFINE q == Without(mempool[x], <<u>>)
  <2>1. mempool[x] \in Seq(Txs) /\ Distinct(mempool[x]) /\ DOMAIN mempool = Nodes
    BY <1>0 DEF Inv, Shape, PoolOK
  <2>2. ToSet(q) = ToSet(mempool[x]) \ ToSet(<<u>>) BY <2>1, WithoutKeeps
  <2>3. t \notin ToSet(<<u>>)
    <3>1. ToSet(<<u>>) = {u} BY DEF ToSet
    <3> QED BY <1>4, <3>1
  <2>4. mempool' = [mempool EXCEPT ![x] = q] BY <1>4
  <2> HIDE DEF q
  <2>5. mempool'[n] = mempool[n] \/ (n = x /\ mempool'[n] = q) BY <2>1, <2>4
  <2>6. t \in ToSet(mempool[n]) => t \in ToSet(mempool'[n]) BY <2>2, <2>3, <2>5
  <2> QED BY <1>1, <2>6, KnownStill
<1> QED BY <1>1, <1>2, <1>3, <1>4 DEF PoolStep

\* ValidateBurnTicket's answer does not turn from yes to no: a burn with an accepted ticket
\* goes from the mempool to the chain without a gap, and is lost only as the oldest of a full
\* mempool, or with the process.
THEOREM AcceptedTicketsKept == TicketsSpec => AcceptedStaysKnown
<1> DEFINE A == \A n \in Nodes : \A m \in accepted[n] :
                  HasTx(n, m.burn) /\ ~HasTx(n, m.burn)' /\ up'[n] =>
                    /\ Len(mempool[n]) = PoolMax
                    /\ m.burn = Head(mempool[n])
                    /\ chain'[n] = chain[n]
<1>1. ASSUME PayInv, [TicketsNext]_allVars PROVE A
  <2> SUFFICES ASSUME NEW n \in Nodes, NEW m \in accepted[n], NEW t, t = m.burn,
                      up'[n], HasTx(n, t), ~HasTx(n, t)'
               PROVE  Len(mempool[n]) = PoolMax /\ t = Head(mempool[n]) /\ chain'[n] = chain[n]
    BY DEF HasTx
  <2>0. Inv /\ Calls BY <1>1 DEF PayInv
  <2>1. up[n] /\ m \in posted BY <2>0 DEF Calls, SeenOK
  <2>2. t.type = "burn" BY <2>0, <2>1 DEF Calls, PostedOK, Tickets
  <2>3. OnlyPushedOut(n, t)
    <3>1. ASSUME UNCHANGED <<mempool, chain>> PROVE OnlyPushedOut(n, t) BY <3>1, KnownStill
    <3>2. CASE Tick BY <3>1, <3>2 DEF Tick
    <3>3. ASSUME NEW x \in Nodes, Pay(x) PROVE OnlyPushedOut(n, t)
      BY <1>1, <2>2, <3>3, KnownWhenPaying
    <3>4. ASSUME NEW x \in Nodes, Chain(x) PROVE OnlyPushedOut(n, t)
      BY <2>0, <2>1, <3>4, KnownWhenChainWorks
    <3>5. ASSUME NEW x \in Nodes, NEW k \in posted, ReceiveMessage(x, k)
          PROVE  OnlyPushedOut(n, t)
      BY <3>1, <3>5 DEF ReceiveMessage, vars
    <3>6. ASSUME NEW x \in Nodes, StopPaying(x) PROVE OnlyPushedOut(n, t)
      <4>1. /\ up' = [up EXCEPT ![x] = FALSE] /\ mempool' = [mempool EXCEPT ![x] = <<>>]
            /\ UNCHANGED chain
        BY <3>6 DEF StopPaying, Crash, Stop
      <4>2. DOMAIN up = Nodes /\ DOMAIN mempool = Nodes BY <2>0 DEF Inv, Shape
      <4>3. mempool'[n] = mempool[n] BY <4>1, <4>2
      <4> QED BY <4>1, <4>3, KnownStill
    <3>7. CASE UNCHANGED allVars BY <3>1, <3>7 DEF allVars, vars
    <3> QED BY <1>1, <3>2, <3>3, <3>4, <3>5, <3>6, <3>7 DEF TicketsNext
  <2> QED BY <2>3 DEF OnlyPushedOut
<1>2. PayInv /\ [TicketsNext]_allVars => [A]_allVars BY <1>1
<1> HIDE DEF A
<1>3. TicketsSpec => [][A]_allVars BY <1>2, PayInvHolds, PTL DEF TicketsSpec
<1> QED BY <1>3 DEF AcceptedStaysKnown, A
=============================================================================
