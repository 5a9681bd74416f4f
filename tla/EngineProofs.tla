---------------------------- MODULE EngineProofs ----------------------------
(***************************************************************************)
(* Theorems of Engine, for any nodes, transactions, faults, crashes and    *)
(* orders of frames: what every node keeps is the replay of its chain, and *)
(* the nodes together implement BlockTree.                                 *)
(***************************************************************************)
EXTENDS Engine, BlocksProofs

-----------------------------------------------------------------------------
(* The mempool's queue                                                     *)

Distinct(q) == \A i, j \in 1..Len(q) : q[i] = q[j] => i = j

\* A transaction that is not in a queue is put behind it.
LEMMA AppendedDistinct ==
  ASSUME NEW S, NEW q \in Seq(S), Distinct(q), NEW t \in S, t \notin ToSet(q)
  PROVE  Append(q, t) \in Seq(S) /\ Distinct(Append(q, t)) /\ Len(Append(q, t)) = Len(q) + 1
<1>1. /\ Append(q, t) \in Seq(S) /\ Len(q) \in Nat /\ Len(Append(q, t)) = Len(q) + 1
      /\ \A i \in 1..Len(q) : Append(q, t)[i] = q[i]
      /\ Append(q, t)[Len(q) + 1] = t
  OBVIOUS
<1>2. \A i \in 1..Len(q) : q[i] # t BY DEF ToSet
<1> DEFINE r == Append(q, t)
<1>3. ASSUME NEW i \in 1..Len(r), NEW j \in 1..Len(r), r[i] = r[j] PROVE i = j
  <2> HIDE DEF r
  <2>1. CASE i \in 1..Len(q) /\ j \in 1..Len(q) BY <1>1, <1>3, <2>1 DEF Distinct, r
  <2>2. CASE i \in 1..Len(q) /\ j = Len(q) + 1 BY <1>1, <1>2, <1>3, <2>2 DEF r
  <2>3. CASE i = Len(q) + 1 /\ j \in 1..Len(q) BY <1>1, <1>2, <1>3, <2>3 DEF r
  <2>4. CASE i = Len(q) + 1 /\ j = Len(q) + 1 BY <2>4
  <2>5. /\ i \in 1..Len(q) \/ i = Len(q) + 1
        /\ j \in 1..Len(q) \/ j = Len(q) + 1
    BY <1>1 DEF r
  <2> QED BY <2>1, <2>2, <2>3, <2>4, <2>5
<1> QED BY <1>1, <1>3 DEF Distinct

\* Admit keeps a queue bounded and without duplicates.
LEMMA AdmitKeeps ==
  ASSUME NEW q \in Seq(Txs), Len(q) <= PoolMax, Distinct(q),
         NEW t \in Txs, t \notin ToSet(q)
  PROVE  /\ Admit(q, t) \in Seq(Txs) /\ Len(Admit(q, t)) <= PoolMax
         /\ Distinct(Admit(q, t))
         /\ ToSet(Admit(q, t)) \subseteq ToSet(q) \cup {t}
<1>1. PoolMax \in Nat \ {0} BY EngineAssumption
<1> DEFINE r == IF Len(q) >= PoolMax THEN Tail(q) ELSE q
<1>2. r \in Seq(Txs) /\ Len(r) < PoolMax /\ Distinct(r) /\ ToSet(r) \subseteq ToSet(q)
  <2>1. CASE Len(q) >= PoolMax
    <3>1. q # <<>> BY <1>1, <2>1
    <3>2. /\ Tail(q) \in Seq(Txs) /\ Len(q) \in Nat /\ Len(Tail(q)) = Len(q) - 1
          /\ \A i \in 1..Len(Tail(q)) : Tail(q)[i] = q[i + 1]
      BY <3>1
    <3>3. \A i \in 1..Len(Tail(q)) : i + 1 \in 1..Len(q) BY <3>2
    <3>4. Distinct(Tail(q)) BY <3>2, <3>3 DEF Distinct
    <3>5. ToSet(Tail(q)) \subseteq ToSet(q) BY <3>2, <3>3 DEF ToSet
    <3> QED BY <1>1, <2>1, <3>2, <3>4, <3>5
  <2>2. CASE ~(Len(q) >= PoolMax) BY <1>1, <2>2
  <2> QED BY <2>1, <2>2
<1>3. Admit(q, t) = Append(r, t) BY DEF Admit
<1> HIDE DEF r
<1>4. t \notin ToSet(r) BY <1>2
<1>5. Append(r, t) \in Seq(Txs) /\ Distinct(Append(r, t)) /\ Len(Append(r, t)) = Len(r) + 1
  BY <1>2, <1>4, AppendedDistinct
<1>6. ToSet(Append(r, t)) \subseteq ToSet(r) \cup {t}
  BY <1>2 DEF ToSet
<1>7. Len(Append(r, t)) <= PoolMax BY <1>1, <1>2, <1>5
<1> QED BY <1>2, <1>3, <1>5, <1>6, <1>7

\* Without keeps the transactions that are not in txs, and no others.
LEMMA WithoutKeeps ==
  ASSUME NEW q \in Seq(Txs), Distinct(q), NEW txs
  PROVE  /\ Without(q, txs) \in Seq(Txs) /\ Len(Without(q, txs)) <= Len(q)
         /\ Distinct(Without(q, txs))
         /\ ToSet(Without(q, txs)) = ToSet(q) \ ToSet(txs)
<1> DEFINE n == Len(q)
           Left(r, t) == IF t \in ToSet(txs) THEN r ELSE Append(r, t)
           Rec(g, m) == g = [i \in 0..m |-> IF i = 0 THEN <<>> ELSE Left(g[i-1], q[i])]
           Bad == {m \in 0..n : ~\E g : Rec(g, m)}
<1>1. n \in Nat OBVIOUS
<1> HIDE DEF n, Left
<1>2. ASSUME Bad # {} PROVE FALSE
  <2>1. PICK m \in Bad : \A k \in Bad : m <= k
    <3>1. Bad \in SUBSET Nat BY <1>1
    <3> HIDE DEF Bad
    <3> QED BY <1>2, <3>1, LeastNat
  <2>2. m # 0
    <3>1. Rec([i \in 0..0 |-> <<>>], 0) OBVIOUS
    <3> QED BY <3>1
  <2>3. m - 1 \in 0..n /\ m - 1 \notin Bad /\ m \in 1..n
    <3>1. m \in 0..n OBVIOUS
    <3>2. m - 1 \in 0..n /\ m \in 1..n /\ ~(m <= m - 1) BY <1>1, <2>2, <3>1
    <3> HIDE DEF Bad
    <3> QED BY <2>1, <3>2
  <2>4. PICK g : Rec(g, m - 1) BY <2>3
  <2> DEFINE f == [i \in 0..m |-> IF i = m THEN Left(g[m-1], q[m]) ELSE g[i]]
  <2>5. ASSUME NEW i \in 0..m
        PROVE  f[i] = IF i = 0 THEN <<>> ELSE Left(f[i-1], q[i])
    <3>1. CASE i = 0 BY <2>2, <2>4, <3>1, <2>3
    <3>2. CASE i = m
      <4>1. f[m-1] = g[m-1] /\ f[m] = Left(g[m-1], q[m]) BY <2>3
      <4> QED BY <2>2, <3>2, <4>1
    <3>3. CASE i # 0 /\ i # m
      <4>1. i \in 0..m-1 /\ i - 1 \in 0..m /\ i - 1 # m BY <2>3, <3>3
      <4>2. f[i-1] = g[i-1] /\ f[i] = g[i] BY <3>3, <4>1
      <4>3. g[i] = Left(g[i-1], q[i]) BY <2>4, <3>3, <4>1
      <4> QED BY <3>3, <4>2, <4>3
    <3> QED BY <3>1, <3>2, <3>3
  <2>6. Rec(f, m) BY <2>5
  <2> QED BY <2>1, <2>6
<1>3. \E g : Rec(g, n)
  <2>1. n \in 0..n BY <1>1
  <2> QED BY <1>2, <2>1
<1> DEFINE A == CHOOSE g : Rec(g, n)
<1>4. Without(q, txs) = A[n] BY DEF Without, n, Left
<1>5. Rec(A, n) BY <1>3
<1> HIDE DEF A
<1>6. A[0] = <<>> /\ \A i \in 1..n : A[i] = Left(A[i-1], q[i]) BY <1>1, <1>5
<1> DEFINE Good(i) == /\ A[i] \in Seq(Txs) /\ Len(A[i]) <= i
                      /\ Distinct(A[i])
                      /\ \A t \in ToSet(A[i]) : t \notin ToSet(txs) /\ \E k \in 1..i : q[k] = t
                      /\ \A k \in 1..i : q[k] \in ToSet(txs) \/ q[k] \in ToSet(A[i])
           Wrong == {i \in 0..n : ~Good(i)}
<1>7. Good(0)
  <2>1. <<>> \in Seq(Txs) /\ Len(<<>>) = 0 /\ ToSet(<<>>) = {} BY DEF ToSet
  <2> QED BY <1>6, <2>1 DEF Distinct
<1>8. ASSUME NEW i \in 1..n, Good(i - 1) PROVE Good(i)
  <2>1. A[i] = Left(A[i-1], q[i]) BY <1>6
  <2>2. i \in Nat /\ i - 1 \in Nat /\ q[i] \in Txs BY <1>1 DEF n
  <2> DEFINE r == A[i-1]
             t == q[i]
  <2>3. /\ r \in Seq(Txs) /\ Len(r) <= i - 1 /\ Distinct(r)
        /\ \A u \in ToSet(r) : u \notin ToSet(txs) /\ \E k \in 1..(i-1) : q[k] = u
        /\ \A k \in 1..(i-1) : q[k] \in ToSet(txs) \/ q[k] \in ToSet(r)
    BY <1>8
  <2> HIDE DEF r
  <2>4. \A u \in ToSet(r) : u \notin ToSet(txs) /\ \E k \in 1..i : q[k] = u
    <3>1. \A k \in 1..(i-1) : k \in 1..i BY <2>2
    <3> QED BY <2>3, <3>1
  <2>5. CASE t \in ToSet(txs)
    <3>1. A[i] = r BY <2>1, <2>5 DEF Left, r
    <3>2. Len(r) <= i BY <2>2, <2>3
    <3>3. \A k \in 1..i : q[k] \in ToSet(txs) \/ q[k] \in ToSet(r)
      <4>1. \A k \in 1..i : k = i \/ k \in 1..(i-1) BY <2>2
      <4> QED BY <2>3, <2>5, <4>1
    <3> HIDE DEF t
    <3> QED BY <2>3, <2>4, <3>1, <3>2, <3>3
  <2>6. CASE t \notin ToSet(txs)
    <3>1. A[i] = Append(r, t) BY <2>1, <2>6 DEF Left, r
    <3>2. t \notin ToSet(r)
      <4>1. ASSUME NEW k \in 1..(i-1), q[k] = t PROVE FALSE
        <5>1. k \in 1..Len(q) /\ i \in 1..Len(q) /\ k # i BY <1>1, <2>2, <4>1 DEF n
        <5> QED BY <4>1, <5>1 DEF Distinct
      <4> QED BY <2>3, <4>1
    <3> HIDE DEF t
    <3>3. Append(r, t) \in Seq(Txs) /\ Distinct(Append(r, t)) /\ Len(Append(r, t)) = Len(r) + 1
      BY <2>2, <2>3, <3>2, AppendedDistinct DEF t
    <3>4. ToSet(Append(r, t)) \subseteq ToSet(r) \cup {t}
      <4>1. t \in Txs BY <2>2 DEF t
      <4> QED BY <2>3, <4>1 DEF ToSet
    <3>5. Len(Append(r, t)) <= i BY <2>2, <2>3, <3>3
    <3>6. \E k \in 1..i : q[k] = t BY <2>2 DEF t
    <3>7. t \notin ToSet(txs) BY <2>6
    <3>8. \A u \in ToSet(Append(r, t)) : u \notin ToSet(txs) /\ \E k \in 1..i : q[k] = u
      BY <2>4, <3>4, <3>6, <3>7
    <3>9. ToSet(r) \subseteq ToSet(Append(r, t)) /\ t \in ToSet(Append(r, t))
      <4>1. t \in Txs BY <2>2 DEF t
      <4> QED BY <2>3, <4>1 DEF ToSet
    <3>10. \A k \in 1..i : q[k] \in ToSet(txs) \/ q[k] \in ToSet(Append(r, t))
      <4>1. \A k \in 1..i : k = i \/ k \in 1..(i-1) BY <2>2
      <4>2. q[i] = t BY DEF t
      <4> QED BY <2>3, <3>9, <4>1, <4>2
    <3> QED BY <3>1, <3>3, <3>5, <3>8, <3>10
  <2> QED BY <2>5, <2>6
<1> HIDE DEF Good
<1>9. ASSUME Wrong # {} PROVE FALSE
  <2>1. PICK m \in Wrong : \A k \in Wrong : m <= k
    <3>1. Wrong \in SUBSET Nat BY <1>1
    <3> HIDE DEF Wrong
    <3> QED BY <1>9, <3>1, LeastNat
  <2>2. m # 0 BY <1>7, <2>1
  <2>3. m - 1 \in 0..n /\ m \in 1..n /\ ~(m <= m - 1) BY <1>1, <2>1, <2>2
  <2>4. Good(m - 1) BY <2>1, <2>3
  <2> QED BY <1>8, <2>1, <2>3, <2>4
<1>10. Good(n)
  <2>1. n \in 0..n BY <1>1
  <2> QED BY <1>9, <2>1
<1> USE DEF Good
<1>11. ToSet(A[n]) = ToSet(q) \ ToSet(txs)
  <2>1. \A k \in 1..n : q[k] \in ToSet(q) BY DEF ToSet, n
  <2>2. \A u \in ToSet(q) : \E k \in 1..n : q[k] = u BY DEF ToSet, n
  <2> QED BY <1>10, <2>1, <2>2
<1> QED BY <1>4, <1>10, <1>11 DEF n

-----------------------------------------------------------------------------
(* The invariant                                                           *)

SlotsUp(c) == \A i \in 2..Len(c) : c[i-1].slot < c[i].slot
OfNodes(c) == \A i \in 1..Len(c) : c[i].proposer \in Nodes

\* What ProposeOnce builds and frames carry: a block of a node, in a later slot
\* than its parent's.
Built(c) ==
  /\ IsSeq(c) /\ c # Genesis
  /\ TypedBlock(Last(c)) /\ Last(c).proposer \in Nodes
  /\ SlotOf(c) > SlotOf(Front(c))

\* Its proposer was the one elected on the parent.
Proposed(c) ==
  MayPropose(Replay(Front(c)), proposerSeed(Front(c), SlotOf(c)), Last(c).proposer)

Shape ==
  /\ up \in [Nodes -> BOOLEAN]
  /\ DOMAIN chain = Nodes /\ DOMAIN disk = Nodes /\ DOMAIN state = Nodes
  /\ DOMAIN mempool = Nodes /\ DOMAIN wallet = Nodes
  /\ DOMAIN pc = Nodes /\ DOMAIN cand = Nodes
  /\ \A n \in Nodes : DOMAIN pc[n] = Callers /\ DOMAIN cand[n] = Callers
  /\ clock \in 0..MaxSlot /\ draw \in Nat

\* The state of a node is the replay of its chain, in memory ...
ChainOK(n) ==
  /\ Lawful(chain[n])
  /\ state[n] = Replay(chain[n])
  /\ SlotsUp(chain[n]) /\ OfNodes(chain[n])

\* ... and its file holds a beginning of the chain, unless it is torn.
DiskOK(n) == disk[n] = Torn \/ (IsSeq(disk[n]) /\ IsPrefix(disk[n], chain[n]))

PoolOK(n) == mempool[n] \in Seq(Txs) /\ Len(mempool[n]) <= PoolMax /\ Distinct(mempool[n])

WalletOK(n) == wallet[n] \in Txs \cup {NoTx}

CandOK(n) ==
  \A p \in Callers :
    /\ (pc[n][p] = "built") = (cand[n][p] # Genesis)
    /\ cand[n][p] # Genesis => Built(cand[n][p]) /\ Last(cand[n][p]).proposer = n

MadeOK == \A x \in made : Built(x) /\ Lawful(x) /\ Proposed(x)

NetOK == net \subseteq {BlockFrame(c) : c \in made} \cup {TxFrame(t) : t \in Txs}

\* A node that sent a block keeps it, in memory and, unless its file is torn, on
\* disk: what it may have lost, nobody has.
SentOK ==
  \A x \in made : BlockFrame(x) \in net =>
    /\ IsPrefix(x, chain[Last(x).proposer])
    /\ \/ disk[Last(x).proposer] = Torn
       \/ IsPrefix(x, disk[Last(x).proposer])

Inv ==
  /\ Shape
  /\ \A n \in Nodes : ChainOK(n)
  /\ \A n \in Nodes : DiskOK(n)
  /\ \A n \in Nodes : PoolOK(n)
  /\ \A n \in Nodes : WalletOK(n)
  /\ \A n \in Nodes : CandOK(n)
  /\ MadeOK
  /\ NetOK
  /\ SentOK

LEMMA FramesDiffer ==
  /\ \A c, d : BlockFrame(c) = BlockFrame(d) => c = d
  /\ \A s, t : TxFrame(s) = TxFrame(t) => s = t
  /\ \A c, t : BlockFrame(c) # TxFrame(t)
<1>1. \A c : BlockFrame(c).kind = "block" /\ BlockFrame(c).block = c BY DEF BlockFrame
<1>2. \A t : TxFrame(t).kind = "tx" /\ TxFrame(t).tx = t BY DEF TxFrame
<1> QED BY <1>1, <1>2

LEMMA InitInv == Init => Inv
<1> SUFFICES ASSUME Init PROVE Inv OBVIOUS
<1> USE DEF Init
<1>1. Shape
  <2>1. 0 \in 0..MaxSlot BY EngineAssumption
  <2>2. draw \in Nat BY EngineAssumption
  <2> QED BY <2>1, <2>2 DEF Shape
<1>2. SlotsUp(Genesis) /\ OfNodes(Genesis)
  BY EmptyIs DEF SlotsUp, OfNodes, Genesis
<1>3. \A n \in Nodes : ChainOK(n)
  BY <1>2, LawfulGenesis, ReplayGenesis DEF ChainOK
<1>4. \A n \in Nodes : DiskOK(n)
  BY EmptyIs, PrefixFacts DEF DiskOK, Genesis
<1>5. \A n \in Nodes : PoolOK(n)
  <2>1. <<>> \in Seq(Txs) /\ Len(<<>>) = 0 /\ Distinct(<<>>) BY DEF Distinct
  <2> QED BY <2>1, EngineAssumption DEF PoolOK
<1>6. \A n \in Nodes : WalletOK(n) BY DEF WalletOK
<1>7. \A n \in Nodes : CandOK(n) BY DEF CandOK
<1> QED BY <1>1, <1>3, <1>4, <1>5, <1>6, <1>7 DEF Inv, MadeOK, NetOK, SentOK

\* A block a node accepts makes its chain one lawful block longer.
LEMMA AcceptedChain ==
  ASSUME NEW n \in Nodes, ChainOK(n), NEW c, Built(c), Acceptable(n, c)
  PROVE  /\ Front(c) = chain[n] /\ IsPrefix(chain[n], c)
         /\ IsSeq(chain[n]) /\ IsSeq(c)
         /\ Lawful(c) /\ Replay(c) = ApplyBlock(state[n], Last(c), HeightOf(c))
         /\ SlotsUp(c) /\ OfNodes(c) /\ Proposed(c)
<1> DEFINE d == chain[n]
           b == Last(c)
<1>1. Lawful(d) /\ IsSeq(d) /\ state[n] = Replay(d) BY DEF ChainOK, Lawful
<1>2. /\ Front(c) = d
      /\ MayPropose(state[n], proposerSeed(d, SlotOf(c)), b.proposer)
      /\ BlockApplies(state[n], b, HeightOf(c))
  BY DEF Acceptable, ValidBlock
<1>3. IsSeq(c) /\ c = Append(d, b) BY <1>2, FrontLast DEF Built, Genesis
<1>4. TypedBlock(b) /\ b.proposer \in Nodes /\ SlotOf(c) = b.slot /\ SlotOf(c) > SlotOf(d)
  BY <1>2 DEF Built, SlotOf
<1>5. SlotsUp(d) /\ OfNodes(d) BY DEF ChainOK
<1> HIDE DEF d, b
<1>6. /\ Len(d) \in Nat /\ Len(c) = Len(d) + 1
      /\ \A i \in 1..Len(d) : c[i] = d[i]
      /\ c[Len(d) + 1] = b
  BY <1>1, <1>3, Appended
<1>7. HeightOf(c) = Len(d) + 1 BY <1>6 DEF HeightOf
<1>8. Lawful(c) BY <1>1, <1>2, <1>3, <1>4, <1>7, LawfulAppended
<1>9. Replay(c) = ApplyBlock(state[n], b, HeightOf(c))
  BY <1>1, <1>3, <1>7, ReplayAppended
<1>10. SlotsUp(c)
  <2> SUFFICES ASSUME NEW i \in 2..Len(c) PROVE c[i-1].slot < c[i].slot
    BY DEF SlotsUp
  <2>1. CASE i = Len(d) + 1
    <3>1. c[i] = b /\ c[i-1] = d[Len(d)] /\ d # <<>>
      <4>1. Len(d) \in 1..Len(d) /\ i - 1 = Len(d) BY <1>6, <2>1
      <4>2. d # <<>> BY <4>1, EmptyIs
      <4> QED BY <1>6, <2>1, <4>1, <4>2
    <3>2. SlotOf(d) = d[Len(d)].slot BY <1>1, <3>1, FrontLast DEF SlotOf, Genesis
    <3> QED BY <1>4, <3>1, <3>2
  <2>2. CASE i # Len(d) + 1
    <3>1. i \in 2..Len(d) /\ i \in 1..Len(d) /\ i - 1 \in 1..Len(d) BY <1>6, <2>2
    <3> QED BY <1>5, <1>6, <3>1 DEF SlotsUp
  <2> QED BY <2>1, <2>2
<1>11. OfNodes(c)
  <2> SUFFICES ASSUME NEW i \in 1..Len(c) PROVE c[i].proposer \in Nodes
    BY DEF OfNodes
  <2>1. i = Len(d) + 1 \/ i \in 1..Len(d) BY <1>6
  <2> QED BY <1>4, <1>5, <1>6, <2>1 DEF OfNodes
<1>12. IsPrefix(d, c) BY <1>1, <1>3, PrefixFacts
<1>13. Proposed(c) BY <1>1, <1>2 DEF Proposed, b
<1> QED BY <1>1, <1>2, <1>3, <1>8, <1>9, <1>10, <1>11, <1>12, <1>13 DEF d, b

\* Accepting a block, whether its write succeeds or fails, keeps memory, file and
\* mempool in order, and takes nothing from any chain.
LEMMA AcceptStep ==
  ASSUME Inv, NEW n \in Nodes, NEW c, Built(c), Accept(n, c)
  PROVE  /\ DOMAIN chain' = Nodes /\ DOMAIN disk' = Nodes /\ DOMAIN state' = Nodes
         /\ DOMAIN mempool' = Nodes
         /\ \A m \in Nodes : ChainOK(m)' /\ DiskOK(m)' /\ PoolOK(m)'
         /\ Lawful(c) /\ Proposed(c) /\ Front(c) = chain[n]
         /\ chain' = [chain EXCEPT ![n] = c]
         /\ \A m \in Nodes : IsPrefix(chain[m], chain'[m]) /\ IsSeq(chain[m]) /\ IsSeq(chain'[m])
         /\ \A m \in Nodes : disk'[m] = Torn \/ disk'[m] = disk[m] \/ disk'[m] = chain'[m]
         /\ \/ net' = net
            \/ net' = net \cup {BlockFrame(c)} /\ disk'[n] = c
<1> DEFINE new == ApplyBlock(state[n], Last(c), HeightOf(c))
<1>1. ChainOK(n) /\ Acceptable(n, c) BY DEF Inv, Accept
<1>2. /\ Front(c) = chain[n] /\ IsPrefix(chain[n], c)
      /\ IsSeq(chain[n]) /\ IsSeq(c)
      /\ Lawful(c) /\ Replay(c) = new
      /\ SlotsUp(c) /\ OfNodes(c) /\ Proposed(c)
  BY <1>1, AcceptedChain
<1>3. /\ DOMAIN chain = Nodes /\ DOMAIN disk = Nodes /\ DOMAIN state = Nodes
      /\ DOMAIN mempool = Nodes
  BY DEF Inv, Shape
<1>4. \A m \in Nodes : ChainOK(m) /\ DiskOK(m) /\ PoolOK(m) BY DEF Inv
<1>5. Saved(n, c) \/ SaveFails(n, c) BY DEF Accept
<1>6. chain' = [chain EXCEPT ![n] = c] /\ state' = [state EXCEPT ![n] = new]
  BY <1>5 DEF Saved, SaveFails, Extend
<1> HIDE DEF new
<1>7. /\ chain'[n] = c /\ state'[n] = new
      /\ \A m \in Nodes : m # n => chain'[m] = chain[m] /\ state'[m] = state[m]
      /\ DOMAIN chain' = Nodes /\ DOMAIN state' = Nodes
  BY <1>3, <1>6
<1>8. ASSUME NEW m \in Nodes PROVE ChainOK(m)'
  <2>1. CASE m = n BY <1>2, <1>7, <2>1 DEF ChainOK
  <2>2. CASE m # n BY <1>4, <1>7, <2>2 DEF ChainOK
  <2> QED BY <2>1, <2>2
<1>9. ASSUME NEW m \in Nodes
      PROVE  IsPrefix(chain[m], chain'[m]) /\ IsSeq(chain[m]) /\ IsSeq(chain'[m])
  <2>1. IsSeq(chain[m]) BY <1>4 DEF ChainOK, Lawful
  <2>2. CASE m = n BY <1>2, <1>7, <2>2
  <2>3. CASE m # n BY <1>7, <2>1, <2>3, PrefixFacts
  <2> QED BY <2>1, <2>2, <2>3
<1>10. /\ DOMAIN disk' = Nodes
       /\ \A m \in Nodes : disk'[m] = Torn \/ disk'[m] = disk[m] \/ disk'[m] = chain'[m]
       /\ \/ net' = net
          \/ net' = net \cup {BlockFrame(c)} /\ disk'[n] = c
  <2>1. CASE Saved(n, c)
    <3>1. disk' = [disk EXCEPT ![n] = c] /\ net' = net \cup {BlockFrame(c)}
      BY <2>1 DEF Saved
    <3> QED BY <1>3, <1>7, <3>1
  <2>2. CASE SaveFails(n, c)
    <3>1. net' = net /\ \E left \in {disk[n], Torn} : disk' = [disk EXCEPT ![n] = left]
      BY <2>2 DEF SaveFails
    <3> QED BY <1>3, <3>1
  <2> QED BY <1>5, <2>1, <2>2
<1>11. ASSUME NEW m \in Nodes PROVE DiskOK(m)'
  <2>1. IsPrefix(chain[m], chain'[m]) /\ IsSeq(chain[m]) /\ IsSeq(chain'[m]) BY <1>9
  <2>2. CASE disk'[m] = Torn BY <2>2 DEF DiskOK
  <2>3. CASE disk'[m] = disk[m] BY <1>4, <2>1, <2>3, PrefixFacts DEF DiskOK
  <2>4. CASE disk'[m] = chain'[m] BY <2>1, <2>4, PrefixFacts DEF DiskOK
  <2> QED BY <1>10, <2>2, <2>3, <2>4
<1>12. DOMAIN mempool' = Nodes /\ \A m \in Nodes : PoolOK(m)'
  <2> DEFINE q == Without(mempool[n], Last(c).txs)
  <2>1. CASE Saved(n, c)
    <3>1. mempool' = [mempool EXCEPT ![n] = q] BY <2>1 DEF Saved
    <3>2. mempool[n] \in Seq(Txs) /\ Len(mempool[n]) <= PoolMax /\ Distinct(mempool[n])
      BY <1>4 DEF PoolOK
    <3>3. q \in Seq(Txs) /\ Len(q) <= Len(mempool[n]) /\ Distinct(q)
      BY <3>2, WithoutKeeps
    <3>4. PoolMax \in Nat /\ Len(q) \in Nat /\ Len(mempool[n]) \in Nat
      BY <3>2, <3>3, EngineAssumption
    <3> HIDE DEF q
    <3>5. Len(q) <= PoolMax BY <3>2, <3>3, <3>4
    <3>6. mempool'[n] = q /\ \A m \in Nodes : m # n => mempool'[m] = mempool[m]
      BY <1>3, <3>1
    <3>7. ASSUME NEW m \in Nodes PROVE PoolOK(m)'
      <4>1. CASE m = n BY <3>3, <3>5, <3>6, <4>1 DEF PoolOK
      <4>2. CASE m # n BY <1>4, <3>6, <4>2 DEF PoolOK
      <4> QED BY <4>1, <4>2
    <3> QED BY <1>3, <3>1, <3>7
  <2>2. CASE SaveFails(n, c)
    <3>1. mempool' = mempool BY <2>2 DEF SaveFails
    <3> QED BY <1>3, <1>4, <3>1 DEF PoolOK
  <2> QED BY <1>5, <2>1, <2>2
<1> QED BY <1>2, <1>6, <1>7, <1>8, <1>9, <1>10, <1>11, <1>12

\* What a node sent stays in its chain and on its disk.
LEMMA SentKept ==
  ASSUME Inv, NEW x \in made, BlockFrame(x) \in net,
         \A m \in Nodes : IsPrefix(chain[m], chain'[m]) /\ IsSeq(chain[m]) /\ IsSeq(chain'[m]),
         \A m \in Nodes : disk'[m] = Torn \/ disk'[m] = disk[m] \/ disk'[m] = chain'[m]
  PROVE  /\ IsPrefix(x, chain'[Last(x).proposer])
         /\ \/ disk'[Last(x).proposer] = Torn
            \/ IsPrefix(x, disk'[Last(x).proposer])
<1> DEFINE m == Last(x).proposer
<1>1. m \in Nodes /\ IsSeq(x) BY DEF Inv, MadeOK, Built
<1>2. IsPrefix(x, chain[m]) /\ (disk[m] = Torn \/ IsPrefix(x, disk[m])) BY DEF Inv, SentOK
<1> HIDE DEF m
<1>3. IsPrefix(x, chain'[m]) BY <1>1, <1>2, PrefixFacts
<1>4. disk'[m] = Torn \/ IsPrefix(x, disk'[m]) BY <1>1, <1>2, <1>3
<1> QED BY <1>3, <1>4 DEF m

-----------------------------------------------------------------------------
(* Every step keeps the invariant                                          *)

LEMMA FramesOf ==
  ASSUME Inv
  PROVE  /\ \A c : BlockFrame(c) \in net => c \in made /\ Built(c)
         /\ \A t : TxFrame(t) \in net => t \in Txs
BY FramesDiffer DEF Inv, NetOK, MadeOK

\* Frames with transactions promise nothing about blocks.
LEMMA OnlyTxsSent ==
  ASSUME Inv, NEW t, t \in Txs, net' = net \/ net' = net \cup {TxFrame(t)},
         UNCHANGED <<chain, disk, made>>
  PROVE  NetOK' /\ SentOK'
<1>1. NetOK /\ SentOK BY DEF Inv
<1>2. NetOK' BY <1>1 DEF NetOK
<1>3. \A x : BlockFrame(x) \in net' => BlockFrame(x) \in net BY FramesDiffer
<1>4. SentOK' BY <1>1, <1>3 DEF SentOK
<1> QED BY <1>2, <1>4

\* Steps that touch no chain, file or state.
LEMMA ChainsKept ==
  ASSUME Inv, UNCHANGED <<chain, disk, state>>
  PROVE  \A n \in Nodes : ChainOK(n)' /\ DiskOK(n)'
BY DEF Inv, ChainOK, DiskOK

LEMMA MadeKept ==
  ASSUME Inv, UNCHANGED <<made, draw>>
  PROVE  MadeOK'
BY DEF Inv, MadeOK, Proposed, proposerSeed

LEMMA QuietInv ==
  ASSUME Inv,
         UNCHANGED <<up, chain, disk, state, mempool, wallet, pc, cand, net, draw, made>>,
         clock' \in 0..MaxSlot
  PROVE  Inv'
<1>1. Shape' BY DEF Inv, Shape
<1>2. \A n \in Nodes : ChainOK(n)' /\ DiskOK(n)' BY ChainsKept
<1>3. MadeOK' BY MadeKept
<1>4. \A n \in Nodes : PoolOK(n)' BY DEF Inv, PoolOK
<1>5. \A n \in Nodes : WalletOK(n)' BY DEF Inv, WalletOK
<1>6. \A n \in Nodes : CandOK(n)' BY DEF Inv, CandOK
<1>7. NetOK' /\ SentOK' BY DEF Inv, NetOK, SentOK
<1> QED BY <1>1, <1>2, <1>3, <1>4, <1>5, <1>6, <1>7 DEF Inv

LEMMA TickInv == ASSUME Inv, Tick PROVE Inv'
<1>1. clock \in 0..MaxSlot /\ clock < MaxSlot /\ clock' = clock + 1 /\ MaxSlot \in Nat
  BY EngineAssumption DEF Tick, Inv, Shape
<1>2. clock' \in 0..MaxSlot BY <1>1
<1> QED BY <1>2, QuietInv DEF Tick

LEMMA BuildTxInv ==
  ASSUME Inv, NEW n \in Nodes, NEW op \in UserOps[n], BuildTx(n, op)
  PROVE  Inv'
<1> DEFINE t == [op EXCEPT !.nonce = state[n].nonce[n]]
<1>1. wallet' = [wallet EXCEPT ![n] = t] BY DEF BuildTx
<1>2. UNCHANGED <<up, chain, disk, state, mempool, pc, cand, net, clock, draw, made>>
  BY DEF BuildTx
<1>3. t \in Txs
  <2>1. op \in Txs BY EngineAssumption
  <2>2. state[n].nonce[n] \in Nat
    <3>1. state[n] \in State BY LawfulState DEF Inv, ChainOK
    <3>2. n \in Accounts BY EngineAssumption
    <3> QED BY <3>1, <3>2, StateFields
  <2> DEFINE k == state[n].nonce[n]
  <2> HIDE DEF k
  <2>3. k \in Nat /\ t = [op EXCEPT !.nonce = k] BY <2>2 DEF k
  <2> HIDE DEF t
  <2>4. CASE op \in Transfer BY <2>3, <2>4 DEF Transfer, Txs
  <2>5. CASE op \in Burn BY <2>3, <2>5 DEF Burn, Txs
  <2>6. CASE op \in Register BY <2>3, <2>6 DEF Register, Txs
  <2>7. CASE op \in Stake BY <2>3, <2>7 DEF Stake, Txs
  <2>8. CASE op \in Unstake BY <2>3, <2>8 DEF Unstake, Txs
  <2>9. CASE op \in Activate BY <2>3, <2>9 DEF Activate, Txs
  <2> QED BY <2>1, <2>4, <2>5, <2>6, <2>7, <2>8, <2>9 DEF Txs
<1> HIDE DEF t
<1>4. Shape' BY <1>1, <1>2 DEF Inv, Shape
<1>5. \A m \in Nodes : ChainOK(m)' /\ DiskOK(m)' BY <1>2, ChainsKept
<1>6. MadeOK' BY <1>2, MadeKept
<1>7. \A m \in Nodes : PoolOK(m)' BY <1>2 DEF Inv, PoolOK
<1>8. ASSUME NEW m \in Nodes PROVE WalletOK(m)'
  <2>1. WalletOK(m) /\ DOMAIN wallet = Nodes BY DEF Inv, Shape
  <2>2. wallet'[m] = IF m = n THEN t ELSE wallet[m] BY <1>1, <2>1
  <2> QED BY <1>3, <2>1, <2>2 DEF WalletOK
<1>9. \A m \in Nodes : CandOK(m)' BY <1>2 DEF Inv, CandOK
<1>10. NetOK' /\ SentOK' BY <1>2 DEF Inv, NetOK, SentOK
<1> QED BY <1>4, <1>5, <1>6, <1>7, <1>8, <1>9, <1>10 DEF Inv

\* A transaction goes into a mempool.
LEMMA AdmitInv ==
  ASSUME Inv, NEW n \in Nodes, NEW t \in Txs, Submittable(n, t),
         mempool' = [mempool EXCEPT ![n] = Admit(@, t)],
         wallet' = wallet \/ wallet' = [wallet EXCEPT ![n] = NoTx],
         net' = net \/ net' = net \cup {TxFrame(t)},
         UNCHANGED <<up, chain, disk, state, pc, cand, clock, draw, made>>
  PROVE  Inv'
<1>1. Shape' BY DEF Inv, Shape
<1>2. \A m \in Nodes : ChainOK(m)' /\ DiskOK(m)' BY ChainsKept
<1>3. MadeOK' BY MadeKept
<1>4. NetOK' /\ SentOK' BY OnlyTxsSent
<1>5. ASSUME NEW m \in Nodes PROVE PoolOK(m)'
  <2>1. PoolOK(m) /\ PoolOK(n) /\ DOMAIN mempool = Nodes BY DEF Inv, Shape
  <2>2. mempool'[m] = IF m = n THEN Admit(mempool[n], t) ELSE mempool[m] BY <2>1
  <2>3. t \notin ToSet(mempool[n]) BY DEF Submittable
  <2>4. /\ Admit(mempool[n], t) \in Seq(Txs) /\ Len(Admit(mempool[n], t)) <= PoolMax
        /\ Distinct(Admit(mempool[n], t))
    BY <2>1, <2>3, AdmitKeeps DEF PoolOK
  <2> QED BY <2>1, <2>2, <2>4 DEF PoolOK
<1>6. ASSUME NEW m \in Nodes PROVE WalletOK(m)'
  <2>1. WalletOK(m) /\ DOMAIN wallet = Nodes BY DEF Inv, Shape
  <2>2. wallet'[m] = wallet[m] \/ wallet'[m] = NoTx BY <2>1
  <2> QED BY <2>1, <2>2 DEF WalletOK
<1>7. \A m \in Nodes : CandOK(m)' BY DEF Inv, CandOK
<1> QED BY <1>1, <1>2, <1>3, <1>4, <1>5, <1>6, <1>7 DEF Inv

LEMMA SubmitTxInv == ASSUME Inv, NEW n \in Nodes, SubmitTx(n) PROVE Inv'
<1> DEFINE t == wallet[n]
<1>1. t \in Txs BY DEF Inv, WalletOK, SubmitTx
<1>2. wallet' = [wallet EXCEPT ![n] = NoTx] BY DEF SubmitTx
<1>3. UNCHANGED <<up, chain, disk, state, pc, cand, clock, draw, made>> BY DEF SubmitTx
<1>4. CASE Submittable(n, t)
  <2>1. /\ mempool' = [mempool EXCEPT ![n] = Admit(@, t)]
        /\ net' = net \cup {TxFrame(t)}
    BY <1>4 DEF SubmitTx
  <2> HIDE DEF t
  <2> QED BY <1>1, <1>2, <1>3, <1>4, <2>1, AdmitInv
<1>5. CASE ~Submittable(n, t)
  <2>1. UNCHANGED <<mempool, net>> BY <1>5 DEF SubmitTx
  <2>2. Shape' BY <1>2, <1>3, <2>1 DEF Inv, Shape
  <2>3. \A m \in Nodes : ChainOK(m)' /\ DiskOK(m)' BY <1>3, ChainsKept
  <2>4. MadeOK' BY <1>3, MadeKept
  <2>5. \A m \in Nodes : PoolOK(m)' BY <2>1 DEF Inv, PoolOK
  <2>6. ASSUME NEW m \in Nodes PROVE WalletOK(m)'
    <3>1. WalletOK(m) /\ DOMAIN wallet = Nodes BY DEF Inv, Shape
    <3>2. wallet'[m] = wallet[m] \/ wallet'[m] = NoTx BY <1>2, <3>1
    <3> QED BY <3>1, <3>2 DEF WalletOK
  <2>7. \A m \in Nodes : CandOK(m)' BY <1>3 DEF Inv, CandOK
  <2>8. NetOK' /\ SentOK' BY <1>3, <2>1 DEF Inv, NetOK, SentOK
  <2> QED BY <2>2, <2>3, <2>4, <2>5, <2>6, <2>7, <2>8 DEF Inv
<1> QED BY <1>4, <1>5

LEMMA ReceiveTxInv ==
  ASSUME Inv, NEW n \in Nodes, NEW t, ReceiveTx(n, t)
  PROVE  Inv'
<1>1. TxFrame(t) \in net /\ Submittable(n, t) BY DEF ReceiveTx
<1>2. t \in Txs BY <1>1, FramesOf
<1> QED BY <1>1, <1>2, AdmitInv DEF ReceiveTx

LEMMA ReceiveBlockInv ==
  ASSUME Inv, NEW n \in Nodes, NEW c, ReceiveBlock(n, c)
  PROVE  Inv'
<1>1. BlockFrame(c) \in net /\ Accept(n, c) BY DEF ReceiveBlock
<1>2. UNCHANGED <<up, wallet, pc, cand, clock, draw, made>> BY DEF ReceiveBlock
<1>3. c \in made /\ Built(c) BY <1>1, FramesOf
<1>4. /\ DOMAIN chain' = Nodes /\ DOMAIN disk' = Nodes /\ DOMAIN state' = Nodes
      /\ DOMAIN mempool' = Nodes
      /\ \A m \in Nodes : ChainOK(m)' /\ DiskOK(m)' /\ PoolOK(m)'
      /\ \A m \in Nodes : IsPrefix(chain[m], chain'[m]) /\ IsSeq(chain[m]) /\ IsSeq(chain'[m])
      /\ \A m \in Nodes : disk'[m] = Torn \/ disk'[m] = disk[m] \/ disk'[m] = chain'[m]
      /\ net' = net
  BY <1>1, <1>3, AcceptStep
<1>5. Shape' BY <1>2, <1>4 DEF Inv, Shape
<1>6. MadeOK' BY <1>2, MadeKept
<1>7. \A m \in Nodes : WalletOK(m)' BY <1>2 DEF Inv, WalletOK
<1>8. \A m \in Nodes : CandOK(m)' BY <1>2 DEF Inv, CandOK
<1>9. NetOK' BY <1>2, <1>4 DEF Inv, NetOK
<1>10. SentOK'
  <2>1. ASSUME NEW x \in made, BlockFrame(x) \in net
        PROVE  /\ IsPrefix(x, chain'[Last(x).proposer])
               /\ \/ disk'[Last(x).proposer] = Torn
                  \/ IsPrefix(x, disk'[Last(x).proposer])
    BY <1>4, <2>1, SentKept
  <2> QED BY <1>2, <1>4, <2>1 DEF SentOK
<1> QED BY <1>4, <1>5, <1>6, <1>7, <1>8, <1>9, <1>10 DEF Inv

\* A step of one caller: it moves to `label`, and has the block `new` or keeps
\* what it has.
LEMMA CallerInv ==
  ASSUME Inv, NEW n \in Nodes, NEW p \in Callers, NEW label, NEW new, Go(n, p, label),
         \/ cand' = [cand EXCEPT ![n] = [@ EXCEPT ![p] = new]]
         \/ cand' = cand /\ cand[n][p] = new,
         (label = "built") = (new # Genesis),
         new # Genesis => Built(new) /\ Last(new).proposer = n
  PROVE  /\ \A m \in Nodes : CandOK(m)'
         /\ DOMAIN pc' = Nodes /\ DOMAIN cand' = Nodes
         /\ \A m \in Nodes : DOMAIN pc'[m] = Callers /\ DOMAIN cand'[m] = Callers
<1>1. /\ DOMAIN pc = Nodes /\ DOMAIN cand = Nodes
      /\ \A m \in Nodes : DOMAIN pc[m] = Callers /\ DOMAIN cand[m] = Callers
  BY DEF Inv, Shape
<1>2. pc' = [pc EXCEPT ![n] = [pc[n] EXCEPT ![p] = label]] BY DEF Go
<1>3. /\ DOMAIN pc' = Nodes /\ DOMAIN cand' = Nodes
      /\ \A m \in Nodes : DOMAIN pc'[m] = Callers /\ DOMAIN cand'[m] = Callers
  BY <1>1, <1>2
<1>4. ASSUME NEW m \in Nodes PROVE CandOK(m)'
  <2>1. CandOK(m) BY DEF Inv
  <2>2. CASE m = n
    <3>1. ASSUME NEW q \in Callers
          PROVE  /\ (pc'[n][q] = "built") = (cand'[n][q] # Genesis)
                 /\ cand'[n][q] # Genesis => Built(cand'[n][q]) /\ Last(cand'[n][q]).proposer = n
      <4>1. CASE q = p
        <5>1. pc'[n][q] = label /\ cand'[n][q] = new BY <1>1, <1>2, <4>1
        <5> QED BY <5>1
      <4>2. CASE q # p
        <5>1. pc'[n][q] = pc[n][q] /\ cand'[n][q] = cand[n][q] BY <1>1, <1>2, <4>2
        <5> QED BY <2>1, <2>2, <5>1 DEF CandOK
      <4> QED BY <4>1, <4>2
    <3> QED BY <2>2, <3>1 DEF CandOK
  <2>3. CASE m # n
    <3>1. pc'[m] = pc[m] /\ cand'[m] = cand[m] BY <1>1, <1>2, <2>3
    <3> QED BY <2>1, <3>1 DEF CandOK
  <2> QED BY <2>2, <2>3
<1> QED BY <1>3, <1>4

LEMMA MinerLooksInv == ASSUME Inv, NEW n \in Nodes, MinerLooks(n) PROVE Inv'
<1>1. /\ "miner" \in Callers /\ pc[n]["miner"] = "idle" /\ Go(n, "miner", "called")
      /\ UNCHANGED <<up, chain, disk, state, mempool, wallet, cand, net, clock, draw, made>>
  BY DEF MinerLooks, MayLook, At
<1>2. CandOK(n) BY DEF Inv
<1>3. cand[n]["miner"] = Genesis BY <1>1, <1>2 DEF CandOK
<1>4. /\ \A m \in Nodes : CandOK(m)'
      /\ DOMAIN pc' = Nodes /\ DOMAIN cand' = Nodes
      /\ \A m \in Nodes : DOMAIN pc'[m] = Callers /\ DOMAIN cand'[m] = Callers
  BY <1>1, <1>3, CallerInv
<1>5. Shape' BY <1>1, <1>4 DEF Inv, Shape
<1>6. \A m \in Nodes : ChainOK(m)' /\ DiskOK(m)' BY <1>1, ChainsKept
<1>7. MadeOK' BY <1>1, MadeKept
<1>8. \A m \in Nodes : PoolOK(m)' BY <1>1 DEF Inv, PoolOK
<1>9. \A m \in Nodes : WalletOK(m)' BY <1>1 DEF Inv, WalletOK
<1>10. NetOK' /\ SentOK' BY <1>1 DEF Inv, NetOK, SentOK
<1> QED BY <1>4, <1>5, <1>6, <1>7, <1>8, <1>9, <1>10 DEF Inv

LEMMA UserCallsInv == ASSUME Inv, NEW n \in Nodes, UserCalls(n) PROVE Inv'
<1>1. /\ "user" \in Callers /\ pc[n]["user"] = "idle" /\ Go(n, "user", "called")
      /\ UNCHANGED <<up, chain, disk, state, mempool, wallet, cand, net, clock, draw, made>>
  BY DEF UserCalls, At
<1>2. CandOK(n) BY DEF Inv
<1>3. cand[n]["user"] = Genesis BY <1>1, <1>2 DEF CandOK
<1>4. /\ \A m \in Nodes : CandOK(m)'
      /\ DOMAIN pc' = Nodes /\ DOMAIN cand' = Nodes
      /\ \A m \in Nodes : DOMAIN pc'[m] = Callers /\ DOMAIN cand'[m] = Callers
  BY <1>1, <1>3, CallerInv
<1>5. Shape' BY <1>1, <1>4 DEF Inv, Shape
<1>6. \A m \in Nodes : ChainOK(m)' /\ DiskOK(m)' BY <1>1, ChainsKept
<1>7. MadeOK' BY <1>1, MadeKept
<1>8. \A m \in Nodes : PoolOK(m)' BY <1>1 DEF Inv, PoolOK
<1>9. \A m \in Nodes : WalletOK(m)' BY <1>1 DEF Inv, WalletOK
<1>10. NetOK' /\ SentOK' BY <1>1 DEF Inv, NetOK, SentOK
<1> QED BY <1>4, <1>5, <1>6, <1>7, <1>8, <1>9, <1>10 DEF Inv

LEMMA SlotsTyped ==
  ASSUME Inv, NEW n \in Nodes
  PROVE  /\ SlotOf(chain[n]) \in Nat
         /\ NextSlot(clock, chain[n]) \in Nat
         /\ NextSlot(clock, chain[n]) > SlotOf(chain[n])
<1> DEFINE d == chain[n]
<1>1. clock \in Nat BY EngineAssumption DEF Inv, Shape
<1>2. Lawful(d) /\ IsSeq(d) BY DEF Inv, ChainOK, Lawful
<1> HIDE DEF d
<1>3. SlotOf(d) \in Nat
  <2>1. CASE d = Genesis BY <2>1 DEF SlotOf
  <2>2. CASE d # Genesis
    <3>1. Len(d) \in 1..Len(d) /\ Last(d) = d[Len(d)] BY <1>2, <2>2, FrontLast DEF Genesis
    <3>2. TypedBlock(Last(d)) BY <1>2, <3>1 DEF Lawful
    <3> QED BY <2>2, <3>2 DEF SlotOf, TypedBlock
  <2> QED BY <2>1, <2>2
<1> QED BY <1>1, <1>3 DEF NextSlot, d

\* What ProposeOnce builds is a block of the node, in a later slot than its tip's.
LEMMA NewBuilt ==
  ASSUME Inv, NEW n \in Nodes
  PROVE  LET c == NewBlock(chain[n], state[n], n, Peek(mempool[n]), NextSlot(clock, chain[n]))
         IN  Built(c) /\ Last(c).proposer = n /\ c # Genesis
<1> DEFINE slot == NextSlot(clock, chain[n])
           pending == Peek(mempool[n])
           c == NewBlock(chain[n], state[n], n, pending, slot)
<1>1. slot \in Nat /\ slot > SlotOf(chain[n]) BY SlotsTyped
<1>2. Lawful(chain[n]) /\ IsSeq(chain[n]) /\ state[n] \in State
  BY LawfulState DEF Inv, ChainOK, Lawful
<1>3. n \in Accounts BY EngineAssumption
<1>4. pending \in Seq(Txs)
  <2>1. mempool[n] \in Seq(Txs) BY DEF Inv, PoolOK
  <2>2. PeekMax \in Nat BY EngineAssumption
  <2> DEFINE q == mempool[n]
             k == Smaller(Len(q), PeekMax)
  <2>3. q \in Seq(Txs) /\ Len(q) \in Nat BY <2>1
  <2> HIDE DEF q
  <2>4. k \in 0..Len(q) BY <2>2, <2>3 DEF Smaller
  <2> HIDE DEF k
  <2>5. SubSeq(q, 1, k) \in Seq(Txs) BY <2>3, <2>4
  <2> QED BY <2>5 DEF Peek, q, k
<1> HIDE DEF slot, pending
<1>5. /\ IsSeq(c) /\ c # Genesis /\ Front(c) = chain[n]
      /\ TypedBlock(Last(c)) /\ Last(c).proposer = n /\ Last(c).slot = slot
  BY <1>1, <1>2, <1>3, <1>4, NewBlockTyped
<1> HIDE DEF c
<1>6. SlotOf(c) = slot BY <1>5 DEF SlotOf
<1>7. Built(c) BY <1>1, <1>5, <1>6 DEF Built
<1> QED BY <1>5, <1>7 DEF c, slot, pending

LEMMA BuildBlockInv ==
  ASSUME Inv, NEW n \in Nodes, NEW p \in Callers, BuildBlock(n, p)
  PROVE  Inv'
<1> DEFINE slot == NextSlot(clock, chain[n])
           new == NewBlock(chain[n], state[n], n, Peek(mempool[n]), slot)
           built == Elected(n, slot) /\ Last(new).txs # <<>>
<1>1. /\ pc[n][p] = "called"
      /\ Go(n, p, IF built THEN "built" ELSE "idle")
      /\ cand' = IF built THEN [cand EXCEPT ![n] = [@ EXCEPT ![p] = new]] ELSE cand
      /\ UNCHANGED <<up, chain, disk, state, mempool, wallet, net, clock, draw, made>>
  BY DEF BuildBlock, MayBuild, At
<1>2. Built(new) /\ Last(new).proposer = n /\ new # Genesis BY NewBuilt
<1>3. CandOK(n) BY DEF Inv
<1>4. cand[n][p] = Genesis BY <1>1, <1>3 DEF CandOK
<1> HIDE DEF slot, new, built
<1>5. /\ \A m \in Nodes : CandOK(m)'
      /\ DOMAIN pc' = Nodes /\ DOMAIN cand' = Nodes
      /\ \A m \in Nodes : DOMAIN pc'[m] = Callers /\ DOMAIN cand'[m] = Callers
  <2>1. CASE built BY <1>1, <1>2, <2>1, CallerInv
  <2>2. CASE ~built
    <3>1. Go(n, p, "idle") /\ cand' = cand BY <1>1, <2>2
    <3> QED BY <1>4, <3>1, CallerInv
  <2> QED BY <2>1, <2>2
<1>6. Shape' BY <1>1, <1>5 DEF Inv, Shape
<1>7. \A m \in Nodes : ChainOK(m)' /\ DiskOK(m)' BY <1>1, ChainsKept
<1>8. MadeOK' BY <1>1, MadeKept
<1>9. \A m \in Nodes : PoolOK(m)' BY <1>1 DEF Inv, PoolOK
<1>10. \A m \in Nodes : WalletOK(m)' BY <1>1 DEF Inv, WalletOK
<1>11. NetOK' /\ SentOK' BY <1>1 DEF Inv, NetOK, SentOK
<1> QED BY <1>5, <1>6, <1>7, <1>8, <1>9, <1>10, <1>11 DEF Inv

LEMMA ProposeBlockInv ==
  ASSUME Inv, NEW n \in Nodes, NEW p \in Callers, ProposeBlock(n, p)
  PROVE  Inv'
<1> DEFINE c == cand[n][p]
<1>1. /\ pc[n][p] = "built" /\ Go(n, p, "idle")
      /\ cand' = [cand EXCEPT ![n] = [@ EXCEPT ![p] = Genesis]]
      /\ UNCHANGED <<up, wallet, clock, draw>>
  BY DEF ProposeBlock, At
<1>2. \/ Accept(n, c) /\ made' = made \cup {c}
      \/ UNCHANGED <<chain, disk, state, mempool, net, made>>
  BY DEF ProposeBlock, local
<1>3. CandOK(n) BY DEF Inv
<1>4. Built(c) /\ Last(c).proposer = n BY <1>1, <1>3 DEF CandOK
<1>5. /\ \A m \in Nodes : CandOK(m)'
      /\ DOMAIN pc' = Nodes /\ DOMAIN cand' = Nodes
      /\ \A m \in Nodes : DOMAIN pc'[m] = Callers /\ DOMAIN cand'[m] = Callers
  BY <1>1, CallerInv
<1>6. \A m \in Nodes : WalletOK(m)' BY <1>1 DEF Inv, WalletOK
<1> HIDE DEF c
<1>7. CASE Accept(n, c) /\ made' = made \cup {c}
  <2>1. /\ DOMAIN chain' = Nodes /\ DOMAIN disk' = Nodes /\ DOMAIN state' = Nodes
        /\ DOMAIN mempool' = Nodes
        /\ \A m \in Nodes : ChainOK(m)' /\ DiskOK(m)' /\ PoolOK(m)'
        /\ Lawful(c) /\ Proposed(c)
        /\ chain' = [chain EXCEPT ![n] = c]
        /\ \A m \in Nodes : IsPrefix(chain[m], chain'[m]) /\ IsSeq(chain[m]) /\ IsSeq(chain'[m])
        /\ \A m \in Nodes : disk'[m] = Torn \/ disk'[m] = disk[m] \/ disk'[m] = chain'[m]
        /\ \/ net' = net
           \/ net' = net \cup {BlockFrame(c)} /\ disk'[n] = c
    BY <1>4, <1>7, AcceptStep
  <2>2. Shape' BY <1>1, <1>5, <2>1 DEF Inv, Shape
  <2>3. MadeOK'
    <3>1. \A x : Proposed(x)' = Proposed(x) BY <1>1 DEF Proposed, proposerSeed
    <3> QED BY <1>4, <1>7, <2>1, <3>1 DEF Inv, MadeOK
  <2>4. NetOK' BY <1>7, <2>1 DEF Inv, NetOK
  <2>5. SentOK'
    <3> SUFFICES ASSUME NEW x \in made', BlockFrame(x) \in net'
                 PROVE  /\ IsPrefix(x, chain'[Last(x).proposer])
                        /\ \/ disk'[Last(x).proposer] = Torn
                           \/ IsPrefix(x, disk'[Last(x).proposer])
      BY DEF SentOK
    <3>1. CASE BlockFrame(x) \in net
      <4>1. x \in made BY <3>1, FramesOf
      <4> QED BY <2>1, <3>1, <4>1, SentKept
    <3>2. CASE BlockFrame(x) \notin net
      <4>1. x = c /\ disk'[n] = c BY <2>1, <3>2, FramesDiffer
      <4>2. chain'[n] = c BY <2>1 DEF Inv, Shape
      <4>3. IsPrefix(c, c) BY <1>4, PrefixFacts DEF Built
      <4> QED BY <1>4, <4>1, <4>2, <4>3
    <3> QED BY <3>1, <3>2
  <2> QED BY <1>5, <1>6, <2>1, <2>2, <2>3, <2>4, <2>5 DEF Inv
<1>8. CASE UNCHANGED <<chain, disk, state, mempool, net, made>>
  <2>1. Shape' BY <1>1, <1>5, <1>8 DEF Inv, Shape
  <2>2. \A m \in Nodes : ChainOK(m)' /\ DiskOK(m)' BY <1>8, ChainsKept
  <2>3. MadeOK' BY <1>1, <1>8, MadeKept
  <2>4. \A m \in Nodes : PoolOK(m)' BY <1>8 DEF Inv, PoolOK
  <2>5. NetOK' /\ SentOK' BY <1>8 DEF Inv, NetOK, SentOK
  <2> QED BY <1>5, <1>6, <2>1, <2>2, <2>3, <2>4, <2>5 DEF Inv
<1> QED BY <1>2, <1>7, <1>8

LEMMA StopInv ==
  ASSUME Inv, NEW n \in Nodes, NEW left \in {disk[n], Torn}, Stop(n, left)
  PROVE  Inv'
<1>1. /\ up' = [up EXCEPT ![n] = FALSE]
      /\ disk' = [disk EXCEPT ![n] = left]
      /\ mempool' = [mempool EXCEPT ![n] = <<>>]
      /\ wallet' = [wallet EXCEPT ![n] = NoTx]
      /\ pc' = [pc EXCEPT ![n] = [p \in Callers |-> "idle"]]
      /\ cand' = [cand EXCEPT ![n] = [p \in Callers |-> Genesis]]
      /\ UNCHANGED <<chain, state, net, clock, draw, made>>
  BY DEF Stop
<1>2. Shape /\ \A m \in Nodes : ChainOK(m) /\ DiskOK(m) /\ PoolOK(m) /\ WalletOK(m) /\ CandOK(m)
  BY DEF Inv
<1>3. Shape' BY <1>1, <1>2 DEF Shape
<1>4. \A m \in Nodes : disk'[m] = disk[m] \/ disk'[m] = Torn BY <1>1, <1>2 DEF Shape
<1>5. \A m \in Nodes : ChainOK(m)' BY <1>1, <1>2 DEF ChainOK
<1>6. \A m \in Nodes : DiskOK(m)' BY <1>1, <1>2, <1>4 DEF DiskOK
<1>7. ASSUME NEW m \in Nodes PROVE PoolOK(m)'
  <2>1. <<>> \in Seq(Txs) /\ Len(<<>>) = 0 /\ Distinct(<<>>) BY DEF Distinct
  <2>2. mempool'[m] = mempool[m] \/ mempool'[m] = <<>> BY <1>1, <1>2 DEF Shape
  <2>3. Len(<<>>) <= PoolMax BY <2>1, EngineAssumption
  <2>4. CASE mempool'[m] = mempool[m] BY <1>2, <2>4 DEF PoolOK
  <2>5. CASE mempool'[m] = <<>> BY <2>1, <2>3, <2>5 DEF PoolOK
  <2> QED BY <2>2, <2>4, <2>5
<1>8. ASSUME NEW m \in Nodes PROVE WalletOK(m)'
  <2>1. wallet'[m] = wallet[m] \/ wallet'[m] = NoTx BY <1>1, <1>2 DEF Shape
  <2> QED BY <1>2, <2>1 DEF WalletOK
<1>9. ASSUME NEW m \in Nodes PROVE CandOK(m)'
  <2>1. CASE m = n
    <3>1. \A p \in Callers : pc'[m][p] = "idle" /\ cand'[m][p] = Genesis
      BY <1>1, <1>2, <2>1 DEF Shape
    <3> QED BY <3>1 DEF CandOK
  <2>2. CASE m # n
    <3>1. pc'[m] = pc[m] /\ cand'[m] = cand[m] BY <1>1, <1>2, <2>2 DEF Shape
    <3> QED BY <1>2, <3>1 DEF CandOK
  <2> QED BY <2>1, <2>2
<1>10. MadeOK' BY <1>1, MadeKept
<1>11. NetOK' BY <1>1 DEF Inv, NetOK
<1>12. SentOK'
  <2>1. \A x \in made : Last(x).proposer \in Nodes BY DEF Inv, MadeOK, Built
  <2> QED BY <1>1, <1>4, <2>1 DEF Inv, SentOK
<1> QED BY <1>3, <1>5, <1>6, <1>7, <1>8, <1>9, <1>10, <1>11, <1>12 DEF Inv

\* What a file holds, when it parses, is a beginning of the chain, and lawful.
LEMMA OnDisk ==
  ASSUME Inv, NEW n \in Nodes, disk[n] # Torn
  PROVE  /\ IsSeq(disk[n]) /\ IsPrefix(disk[n], chain[n]) /\ IsSeq(chain[n])
         /\ Len(disk[n]) \in 0..Len(chain[n])
         /\ disk[n] = SubSeq(chain[n], 1, Len(disk[n]))
         /\ Lawful(disk[n]) /\ SlotsUp(disk[n]) /\ OfNodes(disk[n])
<1> DEFINE c == chain[n]
           d == disk[n]
<1>1. Lawful(c) /\ IsSeq(c) /\ SlotsUp(c) /\ OfNodes(c) BY DEF Inv, ChainOK, Lawful
<1>2. IsSeq(d) /\ IsPrefix(d, c) BY DEF Inv, DiskOK
<1> HIDE DEF c, d
<1>3. /\ Len(d) \in Nat /\ Len(c) \in Nat
      /\ Len(d) <= Len(c) /\ \A i \in 1..Len(d) : d[i] = c[i]
  BY <1>1, <1>2, PrefixMeans
<1>4. Len(d) \in 0..Len(c) BY <1>3
<1>5. d = SubSeq(c, 1, Len(d))
  <2>1. /\ IsSeq(SubSeq(c, 1, Len(d))) /\ Len(SubSeq(c, 1, Len(d))) = Len(d)
        /\ \A i \in 1..Len(d) : SubSeq(c, 1, Len(d))[i] = c[i]
    BY <1>1, <1>4, Beginning
  <2> QED BY <1>2, <1>3, <2>1, SeqsEqual
<1>6. Lawful(d) BY <1>1, <1>4, <1>5, LawfulBeginning
<1>7. SlotsUp(d)
  <2>1. \A i \in 2..Len(d) : i \in 2..Len(c) /\ i \in 1..Len(d) /\ i - 1 \in 1..Len(d) BY <1>3
  <2> QED BY <1>1, <1>3, <2>1 DEF SlotsUp
<1>8. OfNodes(d)
  <2>1. \A i \in 1..Len(d) : i \in 1..Len(c) BY <1>3
  <2> QED BY <1>1, <1>3, <2>1 DEF OfNodes
<1> QED BY <1>1, <1>2, <1>4, <1>5, <1>6, <1>7, <1>8 DEF c, d

LEMMA RestartInv == ASSUME Inv, NEW n \in Nodes, Restart(n) PROVE Inv'
<1>1. /\ disk[n] # Torn
      /\ up' = [up EXCEPT ![n] = TRUE]
      /\ chain' = [chain EXCEPT ![n] = disk[n]]
      /\ state' = [state EXCEPT ![n] = Replay(disk[n])]
      /\ UNCHANGED <<disk, mempool, wallet, pc, cand, net, clock, draw, made>>
  BY DEF Restart, MayRestart
<1>2. /\ IsSeq(disk[n]) /\ Lawful(disk[n]) /\ SlotsUp(disk[n]) /\ OfNodes(disk[n])
  BY <1>1, OnDisk
<1>3. Shape /\ \A m \in Nodes : ChainOK(m) /\ DiskOK(m) BY DEF Inv
<1>4. /\ chain'[n] = disk[n] /\ state'[n] = Replay(disk[n])
      /\ \A m \in Nodes : m # n => chain'[m] = chain[m] /\ state'[m] = state[m]
  BY <1>1, <1>3 DEF Shape
<1>5. Shape' BY <1>1, <1>3 DEF Shape
<1>6. \A m \in Nodes : ChainOK(m)' BY <1>2, <1>3, <1>4 DEF ChainOK
<1>7. IsPrefix(disk[n], disk[n]) BY <1>2, PrefixFacts
<1>8. \A m \in Nodes : DiskOK(m)' BY <1>1, <1>2, <1>3, <1>4, <1>7 DEF DiskOK
<1>9. MadeOK' BY <1>1, MadeKept
<1>10. \A m \in Nodes : PoolOK(m)' BY <1>1 DEF Inv, PoolOK
<1>11. \A m \in Nodes : WalletOK(m)' BY <1>1 DEF Inv, WalletOK
<1>12. \A m \in Nodes : CandOK(m)' BY <1>1 DEF Inv, CandOK
<1>13. NetOK' BY <1>1 DEF Inv, NetOK
<1>14. SentOK'
  <2>1. ASSUME NEW x \in made, BlockFrame(x) \in net
        PROVE  /\ IsPrefix(x, chain'[Last(x).proposer])
               /\ disk[Last(x).proposer] = Torn \/ IsPrefix(x, disk[Last(x).proposer])
    <3> DEFINE m == Last(x).proposer
    <3>1. m \in Nodes BY DEF Inv, MadeOK, Built
    <3>2. IsPrefix(x, chain[m]) /\ (disk[m] = Torn \/ IsPrefix(x, disk[m]))
      BY <2>1 DEF Inv, SentOK
    <3> HIDE DEF m
    <3>3. IsPrefix(x, chain'[m]) BY <1>1, <1>4, <3>1, <3>2
    <3> QED BY <3>2, <3>3 DEF m
  <2> QED BY <1>1, <2>1 DEF SentOK
<1> QED BY <1>5, <1>6, <1>8, <1>9, <1>10, <1>11, <1>12, <1>13, <1>14 DEF Inv

LEMMA NextInv == Inv /\ [Next]_vars => Inv'
<1> SUFFICES ASSUME Inv, [Next]_vars PROVE Inv' OBVIOUS
<1>1. CASE Tick BY <1>1, TickInv
<1>2. ASSUME NEW n \in Nodes, NEW op \in UserOps[n], BuildTx(n, op) PROVE Inv'
  BY <1>2, BuildTxInv
<1>3. ASSUME NEW n \in Nodes, SubmitTx(n) PROVE Inv' BY <1>3, SubmitTxInv
<1>4. ASSUME NEW n \in Nodes, NEW f \in net, ReceiveTx(n, f.tx) PROVE Inv'
  BY <1>4, ReceiveTxInv
<1>5. ASSUME NEW n \in Nodes, NEW f \in net, ReceiveBlock(n, f.block) PROVE Inv'
  BY <1>5, ReceiveBlockInv
<1>6. ASSUME NEW n \in Nodes, Propose(n) PROVE Inv'
  BY <1>6, MinerLooksInv, UserCallsInv, BuildBlockInv, ProposeBlockInv DEF Propose
<1>7. ASSUME NEW n \in Nodes, Crash(n) PROVE Inv' BY <1>7, StopInv DEF Crash
<1>8. ASSUME NEW n \in Nodes, CrashInWrite(n) PROVE Inv' BY <1>8, StopInv DEF CrashInWrite
<1>9. ASSUME NEW n \in Nodes, Restart(n) PROVE Inv' BY <1>9, RestartInv
<1>10. CASE UNCHANGED vars
  <2>1. clock' \in 0..MaxSlot BY <1>10 DEF Inv, Shape, vars
  <2> QED BY <1>10, <2>1, QuietInv DEF vars
<1> QED BY <1>1, <1>2, <1>3, <1>4, <1>5, <1>6, <1>7, <1>8, <1>9, <1>10 DEF Next

\* The inductive invariant of the engines.
THEOREM SpecInv == Spec => []Inv
<1>1. Init => Inv BY InitInv
<1>2. Inv /\ [Next]_vars => Inv' BY NextInv
<1> QED BY <1>1, <1>2, PTL DEF Spec

-----------------------------------------------------------------------------
(* What follows from the invariant *)

\* The state a node holds in memory is always the replay of the chain it holds:
\* no dry run, block refused halfway, failed write or restart leaves a trace in it.
THEOREM StateFollowsChain == Spec => []StateIsReplay
<1>1. Inv => StateIsReplay BY DEF Inv, ChainOK, StateIsReplay
<1> QED BY <1>1, SpecInv, PTL

\* Whatever crashes and failed writes leave in blocks.json, if it parses then
\* OpenEngine can replay it, and it is a beginning of the chain the node had.
THEOREM FileRecovers == Spec => []RestartRecovers
<1>1. Inv => RestartRecovers BY OnDisk DEF RestartRecovers, Lawful
<1> QED BY <1>1, SpecInv, PTL

\* Slots strictly increase along every chain, although ValidateBlock accepts a
\* block in its parent's slot.
THEOREM SlotsGrow == Spec => []SlotsIncrease
<1>1. Inv => SlotsIncrease BY DEF Inv, ChainOK, SlotsUp, SlotsIncrease
<1> QED BY <1>1, SpecInv, PTL

\* No signed transaction is in a chain twice, whatever was pending twice, sent
\* twice or built into two blocks: its nonce is spent by the first.
THEOREM ChainsHaveTxOnce == Spec => []TxOnce
<1>1. ASSUME Inv PROVE TxOnce
  <2> SUFFICES ASSUME NEW n \in Nodes, NEW g \in 1..Len(chain[n]), NEW h \in 1..Len(chain[n]),
                      NEW i \in 1..Len(chain[n][g].txs), NEW j \in 1..Len(chain[n][h].txs),
                      chain[n][g].txs[i].type # "coinbase",
                      chain[n][g].txs[i] = chain[n][h].txs[j]
               PROVE  g = h /\ i = j
    BY DEF TxOnce
  <2>1. Lawful(chain[n]) BY <1>1 DEF Inv, ChainOK
  <2>2. TypedTxs(chain[n][g].txs) BY <2>1 DEF Lawful, TypedBlock
  <2>3. chain[n][g].txs[i] \in Txs BY <2>2, TxKinds DEF TypedTxs
  <2> QED BY <2>1, <2>3, LawfulOnce
<1>2. Inv => TxOnce BY <1>1
<1> QED BY <1>2, SpecInv, PTL

\* A proposer never sends two blocks for one slot on one parent: it keeps what
\* it sent, in memory and on disk, and a chain has one block after a parent.
THEOREM NobodyEquivocates == Spec => []NoEquivocation
<1>1. ASSUME Inv PROVE NoEquivocation
  <2> SUFFICES ASSUME NEW x \in made, NEW y \in made,
                      BlockFrame(x) \in net, BlockFrame(y) \in net, Front(x) = Front(y),
                      Last(x).proposer = Last(y).proposer
               PROVE  x = y
    BY DEF NoEquivocation
  <2> DEFINE n == Last(x).proposer
  <2>1. /\ IsSeq(x) /\ IsSeq(y) /\ x # <<>> /\ y # <<>> /\ n \in Nodes
    BY <1>1 DEF Inv, MadeOK, Built, Genesis
  <2>2. IsPrefix(x, chain[n]) /\ IsPrefix(y, chain[n]) BY <1>1 DEF Inv, SentOK
  <2>3. IsSeq(chain[n]) BY <1>1, <2>1 DEF Inv, ChainOK, Lawful
  <2>4. Len(x) = Len(y) BY <2>1, FrontLast
  <2> QED BY <2>1, <2>2, <2>3, <2>4, PrefixesEqual
<1>2. Inv => NoEquivocation BY <1>1
<1> QED BY <1>2, SpecInv, PTL

\* The blocks of two proposers for one slot on one parent were both made in the
\* cold start, when nobody is elected: the election is a function of the two.
THEOREM OneProposerElected == Spec => []OneProposerPerSlot
<1>1. ASSUME Inv PROVE OneProposerPerSlot
  <2> SUFFICES ASSUME NEW x \in made, NEW y \in made, Front(x) = Front(y),
                      Last(x).slot = Last(y).slot,
                      Last(x).proposer # Last(y).proposer
               PROVE  ActiveValidators(Replay(Front(x))) = {}
    BY DEF OneProposerPerSlot
  <2>1. /\ Lawful(x) /\ Built(x) /\ Built(y) /\ Proposed(x) /\ Proposed(y) /\ draw \in Nat
    BY <1>1 DEF Inv, MadeOK, Shape
  <2> DEFINE d == Front(x)
             slot == Last(x).slot
             seed == proposerSeed(d, slot)
  <2>2. slot \in Nat /\ SlotOf(x) = slot /\ SlotOf(y) = slot
    BY <2>1 DEF Built, SlotOf, TypedBlock
  <2>3. /\ Len(x) \in Nat \ {0} /\ Len(d) = Len(x) - 1 /\ d = SubSeq(x, 1, Len(x) - 1)
    BY <2>1, FrontLast DEF Built, Genesis, Front
  <2>4. Lawful(d)
    <3>1. Len(x) - 1 \in 0..Len(x) BY <2>3
    <3> QED BY <2>1, <2>3, <3>1, LawfulBeginning
  <2>5. MayPropose(Replay(d), seed, Last(x).proposer) /\ MayPropose(Replay(d), seed, Last(y).proposer)
    BY <2>1, <2>2 DEF Proposed
  <2> HIDE DEF d, slot
  <2>6. seed \in Nat
    <3>1. CASE d = Genesis BY <2>1, <2>2, <3>1 DEF proposerSeed
    <3>2. CASE d # Genesis
      <4>1. Len(d) \in 1..Len(d) /\ Last(d) = d[Len(d)]
        BY <2>4, <3>2, FrontLast DEF Lawful, Genesis
      <4>2. TypedBlock(Last(d)) BY <2>4, <4>1 DEF Lawful
      <4>3. Last(d).proposer \in Nat /\ Len(Last(d).txs) \in Nat
        BY <4>2, AccountsAreInterval DEF TypedBlock, TypedTxs, IsSeq
      <4> QED BY <2>1, <2>2, <3>2, <4>3 DEF proposerSeed
    <3> QED BY <3>1, <3>2
  <2> HIDE DEF seed
  <2>7. SelectProposer(Replay(d), seed) = Nobody BY <2>5 DEF MayPropose
  <2>8. Replay(d) \in State BY <2>4, LawfulState
  <2> QED BY <2>6, <2>7, <2>8, NobodyElected DEF d
<1>2. Inv => OneProposerPerSlot BY <1>1
<1> QED BY <1>2, SpecInv, PTL

LEMMA DistinctCount ==
  ASSUME NEW S, NEW q \in Seq(S), Distinct(q)
  PROVE  Cardinality(ToSet(q)) = Len(q)
<1> DEFINE k == Len(q)
           T == ToSet(q)
           f == [i \in 1..k |-> q[i]]
<1>1. k \in Nat OBVIOUS
<1>2. f \in [1..k -> T] BY DEF ToSet
<1>3. \A i, j \in 1..k : f[i] = f[j] => i = j BY DEF Distinct
<1>4. \A t \in T : \E i \in 1..k : f[i] = t BY DEF ToSet
<1> HIDE DEF f, k, T
<1>5. f \in Bijection(1..k, T)
  BY <1>2, <1>3, <1>4 DEF Bijection, Injection, Surjection, IsInjective
<1>6. ExistsBijection(1..k, T) BY <1>5 DEF ExistsBijection
<1>7. Cardinality(T) = k BY <1>1, <1>6, FS_CountingElements
<1> QED BY <1>7 DEF k, T

\* Every engine keeps its types: in particular its mempool stays within its bound
\* and never holds a transaction twice, so that its order and its index agree.
THEOREM EngineTypes == Spec => []TypeOK
<1>1. ASSUME Inv PROVE TypeOK
  <2>1. ASSUME NEW c, Lawful(c), OfNodes(c) PROVE IsChain(c)
    <3> SUFFICES ASSUME NEW i \in 1..Len(c) PROVE IsBlock(c[i]) BY DEF IsChain
    <3>1. TypedBlock(c[i]) /\ c[i].proposer \in Nodes BY <2>1 DEF Lawful, OfNodes
    <3>2. \A t \in ToSet(c[i].txs) : t \in Txs \cup Coinbase
      BY <3>1, InSet DEF TypedBlock, TypedTxs
    <3> QED BY <3>1, <3>2 DEF IsBlock, TypedBlock
  <2>2. up \in [Nodes -> BOOLEAN] /\ clock \in 0..MaxSlot BY <1>1 DEF Inv, Shape
  <2>3. ASSUME NEW n \in Nodes
        PROVE  /\ IsChain(chain[n])
               /\ disk[n] = Torn \/ IsChain(disk[n])
               /\ state[n] \in State
    <3>1. IsChain(chain[n]) BY <1>1, <2>1 DEF Inv, ChainOK
    <3>2. disk[n] # Torn => IsChain(disk[n]) BY <1>1, <2>1, OnDisk
    <3>3. state[n] \in State BY <1>1, LawfulState DEF Inv, ChainOK
    <3> QED BY <3>1, <3>2, <3>3
  <2>4. ASSUME NEW n \in Nodes
        PROVE  /\ ToSet(mempool[n]) \subseteq Txs
               /\ Len(mempool[n]) <= PoolMax
               /\ Cardinality(ToSet(mempool[n])) = Len(mempool[n])
    <3>1. mempool[n] \in Seq(Txs) /\ Len(mempool[n]) <= PoolMax /\ Distinct(mempool[n])
      BY <1>1 DEF Inv, PoolOK
    <3>2. ToSet(mempool[n]) \subseteq Txs BY <3>1 DEF ToSet
    <3> QED BY <3>1, <3>2, DistinctCount
  <2>5. ASSUME NEW n \in Nodes
        PROVE  /\ wallet[n] \in Txs \cup {NoTx}
               /\ \A p \in Callers : (pc[n][p] = "built") = (cand[n][p] # Genesis)
    BY <1>1 DEF Inv, WalletOK, CandOK
  <2> QED BY <2>2, <2>3, <2>4, <2>5 DEF TypeOK
<1>2. Inv => TypeOK BY <1>1
<1> QED BY <1>2, SpecInv, PTL

-----------------------------------------------------------------------------
(* The nodes implement BlockTree *)

LEMMA TreeStep ==
  ASSUME Inv, [Next]_vars
  PROVE  [Tree!Next]_<<made, chain>>
<1>1. ASSUME NEW n \in Nodes, NEW c, ReceiveBlock(n, c) PROVE Tree!Follow(n)
  <2>1. BlockFrame(c) \in net /\ Accept(n, c) /\ made' = made BY <1>1 DEF ReceiveBlock
  <2>2. c \in made /\ Built(c) BY <2>1, FramesOf
  <2>3. Front(c) = chain[n] /\ chain' = [chain EXCEPT ![n] = c] BY <2>1, <2>2, AcceptStep
  <2> QED BY <2>1, <2>2, <2>3 DEF Tree!Follow, Tree!Parent, Tree!Front, Front
<1>2. ASSUME NEW n \in Nodes, NEW p \in Callers, ProposeBlock(n, p)
      PROVE  Tree!Produce(n) \/ UNCHANGED <<made, chain>>
  <2> DEFINE c == cand[n][p]
  <2>1. \/ Accept(n, c) /\ made' = made \cup {c}
        \/ UNCHANGED <<made, chain>>
    BY <1>2 DEF ProposeBlock, local
  <2>2. Built(c) /\ Last(c).proposer = n
    BY <1>2 DEF Inv, CandOK, ProposeBlock, At
  <2> HIDE DEF c
  <2>3. CASE Accept(n, c) /\ made' = made \cup {c}
    <3>1. Front(c) = chain[n] /\ chain' = [chain EXCEPT ![n] = c] BY <2>2, <2>3, AcceptStep
    <3>2. chain'[n] = c BY <3>1 DEF Inv, Shape
    <3>3. c # Genesis /\ SlotOf(c) > SlotOf(chain[n]) BY <2>2, <3>1 DEF Built
    <3>4. Tree!Produce(n)
      BY <2>2, <2>3, <3>1, <3>2, <3>3
      DEF Tree!Produce, Tree!Root, Tree!Parent, Tree!SlotIn, Tree!Front, Tree!Last,
          SlotOf, Genesis, Front, Last
    <3> QED BY <3>4
  <2> QED BY <2>1, <2>3
<1>3. ASSUME NEW n \in Nodes, Restart(n) PROVE Tree!FallBack(n)
  <2>1. disk[n] # Torn /\ chain' = [chain EXCEPT ![n] = disk[n]] /\ made' = made
    BY <1>3 DEF Restart, MayRestart
  <2>2. Len(disk[n]) \in 0..Len(chain[n]) /\ disk[n] = SubSeq(chain[n], 1, Len(disk[n]))
    BY <2>1, OnDisk
  <2>3. \E k \in 0..Len(chain[n]) : disk[n] = SubSeq(chain[n], 1, k) BY <2>2
  <2> QED BY <2>1, <2>3 DEF Tree!FallBack
<1>4. CASE Tick BY <1>4 DEF Tick
<1>5. ASSUME NEW n \in Nodes, NEW op \in UserOps[n], BuildTx(n, op)
      PROVE  UNCHANGED <<made, chain>>
  BY <1>5 DEF BuildTx
<1>6. ASSUME NEW n \in Nodes, SubmitTx(n) PROVE UNCHANGED <<made, chain>>
  BY <1>6 DEF SubmitTx
<1>7. ASSUME NEW n \in Nodes, NEW t, ReceiveTx(n, t) PROVE UNCHANGED <<made, chain>>
  BY <1>7 DEF ReceiveTx
<1>8. ASSUME NEW n \in Nodes, Propose(n), ~\E p \in Callers : ProposeBlock(n, p)
      PROVE  UNCHANGED <<made, chain>>
  BY <1>8 DEF Propose, MinerLooks, UserCalls, BuildBlock
<1>9. ASSUME NEW n \in Nodes, Crash(n) \/ CrashInWrite(n) PROVE UNCHANGED <<made, chain>>
  BY <1>9 DEF Crash, CrashInWrite, Stop
<1>10. CASE UNCHANGED vars BY <1>10 DEF vars
<1> QED
  BY <1>1, <1>2, <1>3, <1>4, <1>5, <1>6, <1>7, <1>8, <1>9, <1>10 DEF Next, Tree!Next

\* The engines implement BlockTree: the blocks their proposers accepted are a
\* tree that only grows, and a chain climbs it block by block, or falls back to
\* an ancestor when its node restarts; it never changes branch.
THEOREM ImplementsTree == Spec => TreeSpec
<1>1. Init => Tree!Init BY DEF Init, Tree!Init, Tree!Root, Genesis
<1>2. Inv /\ [Next]_vars => [Tree!Next]_<<made, chain>> BY TreeStep
<1> QED BY <1>1, <1>2, SpecInv, PTL DEF Spec, TreeSpec, Tree!Spec

-----------------------------------------------------------------------------
(* Pending transactions, when no write of blocks.json fails *)

\* What is pending is not in the chain, and a node that is down has lost it.
Pending(n) ==
  /\ ToSet(mempool[n]) \cap TxsOf(chain[n]) = {}
  /\ ~up[n] => mempool[n] = <<>>

LEMMA EmptyPending == ToSet(<<>>) = {}
BY EmptyIs, InSet

\* A transaction that applies to a node's state is not in its chain.
LEMMA NotYetIncluded ==
  ASSUME Inv, NEW n \in Nodes, NEW t \in Txs, Submittable(n, t)
  PROVE  t \notin TxsOf(chain[n])
<1> DEFINE c == chain[n]
           s == state[n]
           h == HeightOf(c) + 1
<1>1. Lawful(c) /\ IsSeq(c) /\ s = Replay(c) /\ s \in State
  BY LawfulState DEF Inv, ChainOK, Lawful
<1>2. h \in Nat BY <1>1 DEF HeightOf, IsSeq
<1>3. CanApply(s, t, h) BY DEF Submittable
<1> HIDE DEF h, c, s
<1>4. t.nonce = s.nonce[t.sender]
  <2>1. UsesNonce(s, t, ApplyTx(s, t, h)) BY <1>1, <1>2, <1>3, TxSound
  <2> QED BY <2>1, TxKinds DEF UsesNonce
<1>5. t.sender \in Accounts
  BY DEF Txs, Transfer, Burn, Register, Stake, Unstake, Activate
<1>6. s.nonce[t.sender] \in Nat BY <1>1, <1>5, StateFields
<1>7. ASSUME NEW g \in 1..Len(c), t \in ToSet(c[g].txs) PROVE FALSE
  <2>1. IsSeq(c[g].txs) BY <1>1 DEF Lawful, TypedBlock, TypedTxs
  <2>2. PICK i \in 1..Len(c[g].txs) : c[g].txs[i] = t BY <1>7, <2>1, InSet
  <2>3. t.nonce < s.nonce[t.sender] BY <1>1, <2>2, NoncesSpent
  <2> QED BY <1>4, <1>6, <2>3
<1> QED BY <1>7 DEF TxsOf, c

\* Admitting it keeps what is pending out of the chain.
LEMMA AdmitPending ==
  ASSUME Inv, NEW n \in Nodes, NEW t \in Txs, Submittable(n, t),
         mempool' = [mempool EXCEPT ![n] = Admit(@, t)],
         UNCHANGED <<up, chain>>, up[n],
         \A m \in Nodes : Pending(m)
  PROVE  \A m \in Nodes : Pending(m)'
<1> SUFFICES ASSUME NEW m \in Nodes PROVE Pending(m)' OBVIOUS
<1>1. mempool'[m] = IF m = n THEN Admit(mempool[n], t) ELSE mempool[m] BY DEF Inv, Shape
<1>2. CASE m = n
  <2>1. PoolOK(n) /\ t \notin ToSet(mempool[n]) BY DEF Inv, Submittable
  <2>2. ToSet(Admit(mempool[n], t)) \subseteq ToSet(mempool[n]) \cup {t}
    BY <2>1, AdmitKeeps DEF PoolOK
  <2>3. t \notin TxsOf(chain[n]) BY NotYetIncluded
  <2>4. ToSet(mempool[n]) \cap TxsOf(chain[n]) = {} BY DEF Pending
  <2> QED BY <1>1, <1>2, <2>2, <2>3, <2>4 DEF Pending
<1>3. CASE m # n BY <1>1, <1>3 DEF Pending
<1> QED BY <1>2, <1>3

\* A block that is accepted takes its transactions out of the mempool.
LEMMA SavedPending ==
  ASSUME Inv, NEW n \in Nodes, NEW c, Built(c), Accept(n, c), Saved(n, c), UNCHANGED up, up[n],
         \A m \in Nodes : Pending(m)
  PROVE  \A m \in Nodes : Pending(m)'
<1> DEFINE q == Without(mempool[n], Last(c).txs)
<1>1. mempool' = [mempool EXCEPT ![n] = q] BY DEF Saved
<1>2. chain' = [chain EXCEPT ![n] = c] /\ Front(c) = chain[n] BY AcceptStep
<1>3. IsSeq(c) /\ c # <<>> BY DEF Built, Genesis
<1>4. ToSet(q) \subseteq ToSet(mempool[n]) \ ToSet(Last(c).txs)
  <2>1. mempool[n] \in Seq(Txs) /\ Distinct(mempool[n]) BY DEF Inv, PoolOK
  <2> QED BY <2>1, WithoutKeeps
<1> HIDE DEF q
<1>5. TxsOf(c) \subseteq TxsOf(chain[n]) \cup ToSet(Last(c).txs)
  <2> SUFFICES ASSUME NEW h \in 1..Len(c), NEW t \in ToSet(c[h].txs)
               PROVE  t \in TxsOf(chain[n]) \cup ToSet(Last(c).txs)
    BY DEF TxsOf
  <2>1. /\ Len(c) \in Nat \ {0} /\ Len(chain[n]) = Len(c) - 1 /\ Last(c) = c[Len(c)]
        /\ \A i \in 1..Len(chain[n]) : chain[n][i] = c[i]
    BY <1>2, <1>3, FrontLast
  <2>2. CASE h = Len(c) BY <2>1, <2>2
  <2>3. CASE h # Len(c)
    <3>1. h \in 1..Len(chain[n]) BY <2>1, <2>3
    <3>2. chain[n][h] = c[h] BY <2>1, <3>1
    <3> QED BY <3>1, <3>2 DEF TxsOf
  <2> QED BY <2>2, <2>3
<1> SUFFICES ASSUME NEW m \in Nodes PROVE Pending(m)' OBVIOUS
<1>6. CASE m = n
  <2>1. mempool'[m] = q /\ chain'[m] = c /\ up'[m] BY <1>1, <1>2, <1>6 DEF Inv, Shape
  <2>2. ToSet(mempool[n]) \cap TxsOf(chain[n]) = {} BY DEF Pending
  <2>3. ToSet(q) \cap TxsOf(c) = {} BY <1>4, <1>5, <2>2
  <2> QED BY <2>1, <2>3 DEF Pending
<1>7. CASE m # n
  <2>1. mempool'[m] = mempool[m] /\ chain'[m] = chain[m] BY <1>1, <1>2, <1>7 DEF Inv, Shape
  <2> QED BY <2>1 DEF Pending
<1> QED BY <1>6, <1>7

LEMMA PendingStep ==
  ASSUME DiskFaults = FALSE, Inv, \A m \in Nodes : Pending(m), [Next]_vars
  PROVE  \A m \in Nodes : Pending(m)'
<1>1. ASSUME UNCHANGED <<up, chain, mempool>> PROVE \A m \in Nodes : Pending(m)'
  BY <1>1 DEF Pending
<1>2. ASSUME NEW n \in Nodes, SubmitTx(n) PROVE \A m \in Nodes : Pending(m)'
  <2> DEFINE t == wallet[n]
  <2>1. t \in Txs /\ up[n] /\ UNCHANGED <<up, chain>> BY <1>2 DEF Inv, WalletOK, SubmitTx
  <2>2. CASE Submittable(n, t)
    <3>1. mempool' = [mempool EXCEPT ![n] = Admit(@, t)] BY <1>2, <2>2 DEF SubmitTx
    <3> HIDE DEF t
    <3> QED BY <2>1, <2>2, <3>1, AdmitPending
  <2>3. CASE ~Submittable(n, t)
    <3>1. mempool' = mempool BY <1>2, <2>3 DEF SubmitTx
    <3> QED BY <1>1, <2>1, <3>1
  <2> QED BY <2>2, <2>3
<1>3. ASSUME NEW n \in Nodes, NEW t, ReceiveTx(n, t) PROVE \A m \in Nodes : Pending(m)'
  <2>1. t \in Txs BY <1>3, FramesOf DEF ReceiveTx
  <2> QED BY <1>3, <2>1, AdmitPending DEF ReceiveTx
<1>4. ASSUME NEW n \in Nodes, NEW c, Accept(n, c) PROVE Saved(n, c)
  BY <1>4 DEF Accept, SaveFails
<1>5. ASSUME NEW n \in Nodes, NEW c, ReceiveBlock(n, c) PROVE \A m \in Nodes : Pending(m)'
  <2>1. Accept(n, c) /\ BlockFrame(c) \in net /\ up[n] /\ up' = up BY <1>5 DEF ReceiveBlock
  <2>2. Built(c) BY <2>1, FramesOf
  <2> QED BY <1>4, <2>1, <2>2, SavedPending
<1>6. ASSUME NEW n \in Nodes, NEW p \in Callers, ProposeBlock(n, p)
      PROVE  \A m \in Nodes : Pending(m)'
  <2> DEFINE c == cand[n][p]
  <2>1. up[n] /\ up' = up /\ Built(c) BY <1>6 DEF ProposeBlock, At, Inv, CandOK
  <2>2. Accept(n, c) \/ UNCHANGED <<chain, mempool>> BY <1>6 DEF ProposeBlock, local
  <2> HIDE DEF c
  <2>3. CASE Accept(n, c) BY <1>4, <2>1, <2>3, SavedPending
  <2>4. CASE UNCHANGED <<chain, mempool>> BY <1>1, <2>1, <2>4
  <2> QED BY <2>2, <2>3, <2>4
<1>7. ASSUME NEW n \in Nodes, Crash(n) \/ CrashInWrite(n)
      PROVE  \A m \in Nodes : Pending(m)'
  <2>1. /\ up' = [up EXCEPT ![n] = FALSE] /\ mempool' = [mempool EXCEPT ![n] = <<>>]
        /\ chain' = chain
    BY <1>7 DEF Crash, CrashInWrite, Stop
  <2> SUFFICES ASSUME NEW m \in Nodes PROVE Pending(m)' OBVIOUS
  <2>2. CASE m = n
    <3>1. mempool'[m] = <<>> BY <2>1, <2>2 DEF Inv, Shape
    <3> QED BY <3>1, EmptyPending DEF Pending
  <2>3. CASE m # n
    <3>1. mempool'[m] = mempool[m] /\ up'[m] = up[m] BY <2>1, <2>3 DEF Inv, Shape
    <3> QED BY <2>1, <3>1 DEF Pending
  <2> QED BY <2>2, <2>3
<1>8. ASSUME NEW n \in Nodes, Restart(n) PROVE \A m \in Nodes : Pending(m)'
  <2>1. /\ ~up[n] /\ up' = [up EXCEPT ![n] = TRUE] /\ mempool' = mempool
        /\ chain' = [chain EXCEPT ![n] = disk[n]]
    BY <1>8 DEF Restart, MayRestart
  <2>2. mempool[n] = <<>> BY <2>1 DEF Pending
  <2> SUFFICES ASSUME NEW m \in Nodes PROVE Pending(m)' OBVIOUS
  <2>3. CASE m = n BY <2>1, <2>2, <2>3, EmptyPending DEF Pending
  <2>4. CASE m # n
    <3>1. chain'[m] = chain[m] /\ up'[m] = up[m] BY <2>1, <2>4 DEF Inv, Shape
    <3> QED BY <2>1, <3>1 DEF Pending
  <2> QED BY <2>3, <2>4
<1>9. CASE Tick BY <1>1, <1>9 DEF Tick
<1>10. ASSUME NEW n \in Nodes, NEW op \in UserOps[n], BuildTx(n, op)
       PROVE  UNCHANGED <<up, chain, mempool>>
  BY <1>10 DEF BuildTx
<1>11. ASSUME NEW n \in Nodes, Propose(n), ~\E p \in Callers : ProposeBlock(n, p)
       PROVE  UNCHANGED <<up, chain, mempool>>
  BY <1>11 DEF Propose, MinerLooks, UserCalls, BuildBlock
<1>12. CASE UNCHANGED vars BY <1>1, <1>12 DEF vars
<1> QED
  BY <1>1, <1>2, <1>3, <1>5, <1>6, <1>7, <1>8, <1>9, <1>10, <1>11, <1>12 DEF Next

\* A transaction of a node's chain is not pending there any more, whichever of
\* SubmitTx, a peer's frame and the block came first. It needs writes to succeed:
\* acceptLocked returns a failed write's error before it clears the mempool.
THEOREM PendingLeaves ==
  ASSUME DiskFaults = FALSE
  PROVE  Spec => []PendingNotIncluded
<1> DEFINE P == \A m \in Nodes : Pending(m)
<1>1. Init => P BY EmptyPending DEF Init, Pending
<1>2. Inv /\ P /\ [Next]_vars => P' BY PendingStep
<1>3. P => PendingNotIncluded BY DEF Pending, PendingNotIncluded
<1> HIDE DEF P
<1> QED BY <1>1, <1>2, <1>3, SpecInv, PTL DEF Spec
=============================================================================
