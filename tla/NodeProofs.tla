----------------------------- MODULE NodeProofs -----------------------------
(***************************************************************************)
(* Theorems of Node, for any nodes, chats, sockets, clocks and scenes: the *)
(* types of a node (NodeInv), and its network time.  The filter stays      *)
(* sound under two unlocked insertions, and with one read loop a one-time  *)
(* prekey opens one message.                                               *)
(***************************************************************************)
EXTENDS Node, CommonProofs

-----------------------------------------------------------------------------
(* The filter *)

SoundRing(r) ==
  /\ r = [order |-> r.order, set |-> r.set]
  /\ IsSeq(r.order) /\ Len(r.order) <= Capacity
  /\ r.set \subseteq ToSet(r.order)

\* A key is appended to the order and put into the set.
LEMMA InsertSound ==
  ASSUME NEW q, IsSeq(q), Len(q) < Capacity, NEW kept, kept \subseteq ToSet(q), NEW k
  PROVE  SoundRing([order |-> Append(q, k), set |-> kept \cup {k}])
<1>1. /\ IsSeq(Append(q, k)) /\ Len(q) \in Nat /\ Len(Append(q, k)) = Len(q) + 1
      /\ \A i \in 1..Len(q) : Append(q, k)[i] = q[i]
      /\ Append(q, k)[Len(q) + 1] = k
  BY Appended
<1>2. ASSUME NEW x \in kept \cup {k} PROVE x \in ToSet(Append(q, k))
  <2>1. PICK i \in 1..Len(Append(q, k)) : Append(q, k)[i] = x
    <3>1. CASE x = k BY <3>1, <1>1
    <3>2. CASE x \in kept
      <4>1. PICK i \in 1..Len(q) : q[i] = x BY <3>2, InSet
      <4>2. i \in 1..Len(Append(q, k)) /\ Append(q, k)[i] = x BY <4>1, <1>1
      <4> QED BY <4>2
    <3> QED BY <3>1, <3>2
  <2> QED BY <2>1, <1>1, InSet
<1> QED BY <1>1, <1>2, RingAssumption DEF SoundRing

\* Add keeps a filter sound, whether or not it holds the key already.
LEMMA AddSound ==
  ASSUME NEW r, SoundRing(r), NEW k
  PROVE  SoundRing(Add(r, k))
<1>1. CASE IsFull(r)
  <2>1. Len(r.order) = Capacity /\ Len(r.order) > 0
    BY <1>1, RingAssumption DEF IsFull, SoundRing
  <2>2. /\ IsSeq(Tail(r.order)) /\ Len(Tail(r.order)) = Capacity - 1
        /\ \A i \in 1..Len(Tail(r.order)) : Tail(r.order)[i] = r.order[i + 1]
    BY <2>1, WithoutFirst, RingAssumption DEF SoundRing
  <2>3. ASSUME NEW x \in r.set \ {Head(r.order)} PROVE x \in ToSet(Tail(r.order))
    <3>1. PICK i \in 1..Len(r.order) : r.order[i] = x BY InSet DEF SoundRing
    <3>2. i # 1 BY <2>1, <3>1
    <3>3. i - 1 \in 1..Len(Tail(r.order)) /\ Tail(r.order)[i - 1] = x
      BY <2>1, <2>2, <3>1, <3>2, RingAssumption
    <3> QED BY <3>3, <2>2, InSet
  <2>4. Len(Tail(r.order)) < Capacity BY <2>2, RingAssumption
  <2>5. r.set \ {Head(r.order)} \subseteq ToSet(Tail(r.order)) BY <2>3
  <2>6. SoundRing([order |-> Append(Tail(r.order), k), set |-> (r.set \ {Head(r.order)}) \cup {k}])
    BY <2>2, <2>4, <2>5, InsertSound
  <2> QED BY <1>1, <2>6 DEF Add
<1>2. CASE ~IsFull(r)
  <2>1. Len(r.order) < Capacity
    <3>1. PICK S : r.order \in Seq(S) BY DEF SoundRing, IsSeq
    <3> QED BY <1>2, <3>1, RingAssumption DEF IsFull
  <2> QED BY <1>2, <2>1, InsertSound DEF Add, SoundRing
<1> QED BY <1>1, <1>2

RingInv == ring = [n \in Nodes |-> ring[n]] /\ \A n \in Nodes : SoundRing(ring[n])

LEMMA RingInit == Init => RingInv
<1> SUFFICES ASSUME Init PROVE RingInv OBVIOUS
<1>1. SoundRing(EmptyRing)
  BY EmptyIs, RingAssumption DEF EmptyRing, SoundRing
<1> QED BY <1>1 DEF Init, RingInv

\* Only a send, a read loop that enters a packet, and a crash change a filter.
LEMMA RingStep == RingInv /\ [Next]_vars => RingInv'
<1> SUFFICES ASSUME RingInv, [Next]_vars PROVE RingInv' OBVIOUS
<1>1. CASE UNCHANGED ring BY <1>1 DEF RingInv
<1>2. ASSUME NEW n, NEW k, ring' = [ring EXCEPT ![n] = Add(@, k)] PROVE RingInv'
  <2>1. CASE n \in Nodes
    <3>1. SoundRing(Add(ring[n], k)) BY <2>1, AddSound DEF RingInv
    <3>2. \A m \in Nodes : ring'[m] = IF m = n THEN Add(ring[n], k) ELSE ring[m]
      BY <1>2, <2>1 DEF RingInv
    <3> QED BY <1>2, <3>1, <3>2 DEF RingInv
  <2>2. CASE n \notin Nodes
    <3>1. ring' = ring BY <1>2, <2>2 DEF RingInv
    <3> QED BY <3>1, <1>1
  <2> QED BY <2>1, <2>2
<1>3. ASSUME NEW n \in Nodes, Crash(n) PROVE RingInv'
  <2>1. SoundRing(EmptyRing)
    BY EmptyIs, RingAssumption DEF EmptyRing, SoundRing
  <2>2. ring' = [ring EXCEPT ![n] = EmptyRing] BY <1>3 DEF Crash
  <2>3. \A m \in Nodes : ring'[m] = IF m = n THEN EmptyRing ELSE ring[m]
    BY <2>2 DEF RingInv
  <2> QED BY <2>1, <2>2, <2>3 DEF RingInv
<1>4. ASSUME NEW n \in Nodes, ReadLoop(n) PROVE RingInv'
  <2>1. PICK s \in Sockets[n] :
          Read(n, s) \/ Look(n, s) \/ Handle(n, s) \/ Consume(n, s) \/ Open(n, s)
    BY <1>4 DEF ReadLoop
  <2>2. CASE Read(n, s) BY <2>2, <1>1 DEF Read
  <2>3. CASE Look(n, s) BY <2>3, <1>1 DEF Look
  <2>4. CASE Handle(n, s)
    <3>1. ring' = [ring EXCEPT ![n] = Add(@, hand[n][s].chat)] BY <2>4 DEF Handle
    <3> QED BY <3>1, <1>2
  <2>5. CASE Consume(n, s) BY <2>5, <1>1 DEF Consume
  <2>6. CASE Open(n, s) BY <2>6, <1>1 DEF Open
  <2> QED BY <2>1, <2>2, <2>3, <2>4, <2>5, <2>6
<1>5. ASSUME NEW c, Finish(c) PROVE RingInv'
  <2>1. ring' = [ring EXCEPT ![Chats[c].from] = Add(@, c)] BY <1>5 DEF Finish
  <2> QED BY <2>1, <1>2
<1>6. ASSUME NEW n \in Nodes, NEW m, Greeted(n, m) \/ ReadFlood(n, m) \/ LearnBurn(n, m) \/ Block(n, m)
      PROVE  RingInv'
  <2>1. UNCHANGED ring BY <1>6 DEF Greeted, ReadFlood, LearnBurn, Block, chatVars
  <2> QED BY <2>1, <1>1
<1>7. ASSUME NEW n \in Nodes, NEW h, FloodKeyBundle(n, h) \/ FloodTimeSync(n, h) PROVE RingInv'
  BY <1>7, <1>1 DEF FloodKeyBundle, FloodTimeSync, Flood
<1>8. ASSUME NEW n \in Nodes, PopReady(n) \/ SendCarried(n) \/ Restart(n) PROVE RingInv'
  BY <1>8, <1>1 DEF PopReady, SendCarried, Restart
<1>9. ASSUME NEW c, NEW t, NEW h, Send(c, t, h) PROVE RingInv'
  BY <1>9, <1>1 DEF Send
<1>10. CASE (MeshStep /\ UNCHANGED <<now, chatVars>>) \/ Tick \/ UNCHANGED vars
  BY <1>10, <1>1 DEF Tick, vars, chatVars
<1> QED
  BY <1>3, <1>4, <1>5, <1>6, <1>7, <1>8, <1>9, <1>10 DEF Next

\* The filter stays within its capacity and forgets what it evicts, though two
\* read loops may insert the same key: for any capacity, nodes and behaviour.
THEOREM FilterSound == Spec => []RingSound
<1>1. RingInv => RingSound BY DEF RingInv, SoundRing, RingSound
<1> QED BY <1>1, RingInit, RingStep, PTL DEF Spec

-----------------------------------------------------------------------------
(* One-time prekeys *)

\* The record a read loop keeps while it handles a chat.
HandTyped(h) ==
  \/ h = Idle
  \/ h = [phase |-> h.phase, chat |-> h.chat, from |-> h.from, hops |-> h.hops]
     /\ h.phase \in {"fresh", "new"}
  \/ h = [phase |-> h.phase, chat |-> h.chat, secret |-> h.secret]
     /\ h.phase \in {"derived", "consumed"}

\* The keys of the messages of an inbox are of one-time prekeys before k, each
\* of another one.
KeysBefore(q, k) ==
  /\ IsSeq(q)
  /\ \A i \in 1..Len(q) : q[i].key.opk \in Nat /\ q[i].key.opk < k
  /\ \A i, j \in 1..Len(q) : i # j /\ q[i].key.opk # NoOPK => q[i].key.opk # q[j].key.opk

\* What a read loop has derived is of the one-time prekey the bundle has now.
Derived(h, b) ==
  /\ h.phase = "derived" =>
       h.secret.opk = NoOPK \/ (h.secret.opk = b.opk /\ b.has)
  /\ h.phase = "consumed" => h.secret.opk = b.opk

Bundled(b) == b \in [spk : {b.spk}, opk : Nat \ {0}, has : BOOLEAN]

Prekeyed(b, h, q) ==
  /\ Bundled(b)
  /\ HandTyped(h) /\ Derived(h, b)
  /\ KeysBefore(q, b.opk)

Shaped ==
  /\ bundle = [n \in Nodes |-> bundle[n]]
  /\ inbox = [n \in Nodes |-> inbox[n]]
  /\ hand = [n \in Nodes |-> [s \in Sockets[n] |-> hand[n][s]]]

PrekeyInv ==
  /\ Shaped
  /\ \A n \in Nodes : \A s : Sockets[n] = {s} => Prekeyed(bundle[n], hand[n][s], inbox[n])

\* A message joins an inbox whose other keys are older.
LEMMA AppendedKey ==
  ASSUME NEW q, NEW k \in Nat, KeysBefore(q, k), NEW m, m.key.opk \in Nat,
         m.key.opk = NoOPK \/ m.key.opk = k
  PROVE  /\ m.key.opk = NoOPK /\ k # 0 => KeysBefore(Append(q, m), k)
         /\ KeysBefore(Append(q, m), k + 1)
<1>1. /\ IsSeq(Append(q, m)) /\ Len(q) \in Nat /\ Len(Append(q, m)) = Len(q) + 1
      /\ \A i \in 1..Len(q) : Append(q, m)[i] = q[i]
      /\ Append(q, m)[Len(q) + 1] = m
  BY Appended DEF KeysBefore
<1>2. \A i \in 1..Len(q) : q[i].key.opk \in Nat /\ q[i].key.opk < k BY DEF KeysBefore
<1>3. \A i, j \in 1..Len(q) : i # j /\ q[i].key.opk # NoOPK => q[i].key.opk # q[j].key.opk
  BY DEF KeysBefore
<1>4. \A i \in 1..(Len(q) + 1) :
        \/ i \in 1..Len(q) /\ Append(q, m)[i] = q[i]
        \/ i = Len(q) + 1 /\ Append(q, m)[i] = m
  BY <1>1
<1>5. \A i \in 1..Len(Append(q, m)) :
        Append(q, m)[i].key.opk \in Nat /\ Append(q, m)[i].key.opk < k + 1
  <2> SUFFICES ASSUME NEW i \in 1..(Len(q) + 1)
               PROVE  Append(q, m)[i].key.opk \in Nat /\ Append(q, m)[i].key.opk < k + 1
    BY <1>1
  <2>1. CASE i \in 1..Len(q)
    <3>1. Append(q, m)[i] = q[i] BY <1>1, <2>1
    <3>2. q[i].key.opk \in Nat /\ q[i].key.opk < k BY <1>2, <2>1
    <3> QED BY <3>1, <3>2
  <2>2. CASE i = Len(q) + 1
    <3>1. Append(q, m)[i] = m BY <1>1, <2>2
    <3>2. m.key.opk < k + 1 BY DEF NoOPK
    <3> QED BY <3>1, <3>2
  <2> QED BY <1>1, <2>1, <2>2
<1>6. \A i, j \in 1..Len(Append(q, m)) :
        i # j /\ Append(q, m)[i].key.opk # NoOPK
          => Append(q, m)[i].key.opk # Append(q, m)[j].key.opk
  <2> SUFFICES ASSUME NEW i \in 1..(Len(q) + 1), NEW j \in 1..(Len(q) + 1), i # j,
                      Append(q, m)[i].key.opk # NoOPK
               PROVE  Append(q, m)[i].key.opk # Append(q, m)[j].key.opk
    BY <1>1
  <2>1. CASE i \in 1..Len(q) /\ j \in 1..Len(q) BY <1>1, <1>3, <2>1
  <2>2. CASE i \in 1..Len(q) /\ j = Len(q) + 1 BY <1>1, <1>2, <2>2 DEF NoOPK
  <2>3. CASE i = Len(q) + 1 /\ j \in 1..Len(q) BY <1>1, <1>2, <2>3 DEF NoOPK
  <2> QED BY <1>1, <2>1, <2>2, <2>3
<1>7. ASSUME m.key.opk = NoOPK, k # 0
      PROVE  \A i \in 1..Len(Append(q, m)) : Append(q, m)[i].key.opk < k
  BY <1>1, <1>2, <1>4, <1>7 DEF NoOPK
<1> QED BY <1>1, <1>5, <1>6, <1>7 DEF KeysBefore

LEMMA EmptyKeys == \A k \in Nat : KeysBefore(<<>>, k)
<1>1. 1..Len(<<>>) = {} BY EmptyIs
<1> QED BY <1>1, EmptyIs DEF KeysBefore

\* What consuming and rotating make of a bundle.
LEMMA BundleSteps ==
  ASSUME NEW b, Bundled(b)
  PROVE  /\ Bundled(ConsumeOPK(b)) /\ ConsumeOPK(b).opk = b.opk
         /\ Bundled(RotateOPK(b)) /\ RotateOPK(b).opk = b.opk + 1
<1> DEFINE B == [spk : {b.spk}, opk : Nat \ {0}, has : BOOLEAN]
<1>1. b \in B BY DEF Bundled
<1>2. \A c \in B : Bundled(c) BY DEF Bundled
<1>3. ConsumeOPK(b) \in B /\ ConsumeOPK(b).opk = b.opk BY <1>1 DEF ConsumeOPK
<1>4. RotateOPK(b) \in B /\ RotateOPK(b).opk = b.opk + 1
  <2> DEFINE c == [b EXCEPT !.opk = b.opk + 1]
  <2>1. c \in B /\ c.opk = b.opk + 1 BY <1>1
  <2>2. RotateOPK(b) = [c EXCEPT !.has = TRUE] BY DEF RotateOPK
  <2> HIDE DEF c
  <2> QED BY <2>1, <2>2
<1> HIDE DEF B
<1> QED BY <1>2, <1>3, <1>4

LEMMA NewProcess ==
  ASSUME NEW life0
  PROVE  Prekeyed(GenerateBundle(life0), Idle, <<>>)
<1>1. Bundled(GenerateBundle(life0)) /\ GenerateBundle(life0).opk \in Nat
  BY DEF GenerateBundle, Bundled
<1> QED BY <1>1, EmptyKeys DEF Prekeyed, HandTyped, Derived, Idle

LEMMA PrekeyInit == Init => PrekeyInv
<1> SUFFICES ASSUME Init PROVE PrekeyInv OBVIOUS
<1>1. Shaped BY DEF Init, Shaped
<1>2. ASSUME NEW n \in Nodes, NEW s, Sockets[n] = {s}
      PROVE  Prekeyed(bundle[n], hand[n][s], inbox[n])
  BY <1>2, NewProcess DEF Init
<1> QED BY <1>1, <1>2 DEF PrekeyInv

\* A step of one node leaves the others as they are.
LEMMA OneNode ==
  ASSUME PrekeyInv, NEW n \in Nodes, NEW b, NEW q, NEW h,
         bundle' = [bundle EXCEPT ![n] = b],
         inbox' = [inbox EXCEPT ![n] = q],
         hand' = [hand EXCEPT ![n] = [s \in Sockets[n] |-> h[s]]],
         \A s : Sockets[n] = {s} => Prekeyed(b, h[s], q)
  PROVE  PrekeyInv'
<1>1. /\ bundle'[n] = b /\ inbox'[n] = q
      /\ \A s \in Sockets[n] : hand'[n][s] = h[s]
  BY DEF PrekeyInv, Shaped
<1>2. \A m \in Nodes : m # n =>
        bundle'[m] = bundle[m] /\ inbox'[m] = inbox[m] /\ hand'[m] = hand[m]
  BY DEF PrekeyInv, Shaped
<1>3. Shaped' BY <1>1, <1>2 DEF PrekeyInv, Shaped
<1>4. ASSUME NEW m \in Nodes, NEW s, Sockets[m] = {s}
      PROVE  Prekeyed(bundle'[m], hand'[m][s], inbox'[m])
  <2>1. CASE m = n BY <1>1, <1>4, <2>1
  <2>2. CASE m # n BY <1>2, <1>4, <2>2 DEF PrekeyInv
  <2> QED BY <2>1, <2>2
<1> QED BY <1>3, <1>4 DEF PrekeyInv

\* So does a step of one read loop s.
LEMMA OneLoop ==
  ASSUME PrekeyInv, NEW n \in Nodes, NEW s \in Sockets[n], NEW b, NEW q, NEW h,
         bundle' = [bundle EXCEPT ![n] = b],
         inbox' = [inbox EXCEPT ![n] = q],
         hand' = [hand EXCEPT ![n][s] = h],
         Sockets[n] = {s} => Prekeyed(b, h, q)
  PROVE  PrekeyInv'
<1> DEFINE g == [t \in Sockets[n] |-> IF t = s THEN h ELSE hand[n][t]]
<1>1. hand' = [hand EXCEPT ![n] = [t \in Sockets[n] |-> g[t]]]
  BY DEF PrekeyInv, Shaped
<1>2. \A t : Sockets[n] = {t} => Prekeyed(b, g[t], q)
  OBVIOUS
<1> HIDE DEF g
<1> QED BY <1>1, <1>2, OneNode

LEMMA PrekeysKept ==
  ASSUME PrekeyInv, UNCHANGED <<bundle, inbox, hand>>
  PROVE  PrekeyInv'
BY DEF PrekeyInv, Shaped

LEMMA ReadPrekeys ==
  ASSUME PrekeyInv, NEW n \in Nodes, NEW s \in Sockets[n], Read(n, s)
  PROVE  PrekeyInv'
<1>1. CASE UNCHANGED hand BY <1>1, PrekeysKept DEF Read
<1>2. ASSUME NEW c, NEW f, NEW hops,
             hand' = [hand EXCEPT ![n][s] =
                       [phase |-> "fresh", chat |-> c, from |-> f, hops |-> hops]]
      PROVE  PrekeyInv'
  <2> DEFINE h == [phase |-> "fresh", chat |-> c, from |-> f, hops |-> hops]
  <2>1. Sockets[n] = {s} => Prekeyed(bundle[n], h, inbox[n])
    BY DEF PrekeyInv, Prekeyed, HandTyped, Derived
  <2>2. bundle' = [bundle EXCEPT ![n] = bundle[n]] /\ inbox' = [inbox EXCEPT ![n] = inbox[n]]
    BY DEF Read, PrekeyInv, Shaped
  <2> QED BY <1>2, <2>1, <2>2, OneLoop
<1> QED BY <1>1, <1>2 DEF Read

LEMMA LookPrekeys ==
  ASSUME PrekeyInv, NEW n \in Nodes, NEW s \in Sockets[n], Look(n, s)
  PROVE  PrekeyInv'
<1> DEFINE h == IF Seen(ring[n], hand[n][s].chat) THEN Idle
                ELSE [hand[n][s] EXCEPT !.phase = "new"]
<1>1. Sockets[n] = {s} => Prekeyed(bundle[n], h, inbox[n])
  <2> SUFFICES ASSUME Sockets[n] = {s} PROVE Prekeyed(bundle[n], h, inbox[n]) OBVIOUS
  <2>1. Prekeyed(bundle[n], hand[n][s], inbox[n]) BY DEF PrekeyInv
  <2>2. CASE h = Idle BY <2>1, <2>2 DEF Prekeyed, HandTyped, Derived, Idle
  <2>3. CASE h = [hand[n][s] EXCEPT !.phase = "new"]
    <3>1. hand[n][s] = [phase |-> hand[n][s].phase, chat |-> hand[n][s].chat,
                        from |-> hand[n][s].from, hops |-> hand[n][s].hops]
      BY <2>1 DEF Look, InPhase, Prekeyed, HandTyped, Idle
    <3>2. h = [phase |-> "new", chat |-> hand[n][s].chat,
               from |-> hand[n][s].from, hops |-> hand[n][s].hops]
      BY <2>3, <3>1
    <3> HIDE DEF h
    <3> QED BY <2>1, <3>2 DEF Prekeyed, HandTyped, Derived
  <2> QED BY <2>2, <2>3
<1>2. /\ bundle' = [bundle EXCEPT ![n] = bundle[n]] /\ inbox' = [inbox EXCEPT ![n] = inbox[n]]
      /\ hand' = [hand EXCEPT ![n][s] = h]
  BY DEF Look, PrekeyInv, Shaped
<1> HIDE DEF h
<1> QED BY <1>1, <1>2, OneLoop

\* A session key is derived from the bundle as it is.
LEMMA HandlePrekeys ==
  ASSUME PrekeyInv, NEW n \in Nodes, NEW s \in Sockets[n], Handle(n, s)
  PROVE  PrekeyInv'
<1> DEFINE c == hand[n][s].chat
           d == [phase |-> "derived", chat |-> c, secret |-> ResponderSecret(bundle[n])]
           more == Append(inbox[n], Message(c, StaticKey))
<1>1. PICK q \in {inbox[n], more}, h \in {Idle, d} :
        /\ bundle' = [bundle EXCEPT ![n] = bundle[n]]
        /\ inbox' = [inbox EXCEPT ![n] = q]
        /\ hand' = [hand EXCEPT ![n][s] = h]
  <2>1. bundle' = [bundle EXCEPT ![n] = bundle[n]] BY DEF Handle, PrekeyInv, Shaped
  <2>2. \E q \in {inbox[n], more} : inbox' = [inbox EXCEPT ![n] = q]
    <3>1. inbox' = inbox \/ inbox' = [inbox EXCEPT ![n] = more] BY DEF Handle
    <3>2. inbox = [inbox EXCEPT ![n] = inbox[n]] BY DEF PrekeyInv, Shaped
    <3> QED BY <3>1, <3>2
  <2>3. \E h \in {Idle, d} : hand' = [hand EXCEPT ![n][s] = h] BY DEF Handle
  <2> HIDE DEF c, d, more
  <2> QED BY <2>1, <2>2, <2>3
<1>2. ASSUME Sockets[n] = {s} PROVE Prekeyed(bundle[n], h, q)
  <2>1. Prekeyed(bundle[n], hand[n][s], inbox[n]) BY <1>2 DEF PrekeyInv
  <2>2. KeysBefore(q, bundle[n].opk)
    <3>1. CASE q = inbox[n] BY <2>1, <3>1 DEF Prekeyed
    <3>2. CASE q = more
      <4> DEFINE m == Message(c, StaticKey)
      <4>1. m.key.opk = NoOPK BY DEF Message, StaticKey, NoBundle
      <4>2. NoOPK \in Nat BY DEF NoOPK
      <4> HIDE DEF m
      <4>3. KeysBefore(Append(inbox[n], m), bundle[n].opk)
        BY <2>1, <4>1, <4>2, AppendedKey DEF Prekeyed, Bundled
      <4> QED BY <3>2, <4>3 DEF m
    <3> HIDE DEF more
    <3> QED BY <1>1, <3>1, <3>2
  <2>3. HandTyped(h) /\ Derived(h, bundle[n])
    <3>1. CASE h = Idle BY <3>1 DEF HandTyped, Derived, Idle
    <3>2. CASE h = d BY <3>2 DEF HandTyped, Derived, ResponderSecret
    <3> HIDE DEF d
    <3> QED BY <1>1, <3>1, <3>2
  <2> QED BY <2>1, <2>2, <2>3 DEF Prekeyed
<1> QED BY <1>1, <1>2, OneLoop

\* With one read loop the prekey a key was derived from is the one consumed.
LEMMA ConsumePrekeys ==
  ASSUME PrekeyInv, NEW n \in Nodes, NEW s \in Sockets[n], Consume(n, s)
  PROVE  PrekeyInv'
<1> DEFINE b == ConsumeOPK(bundle[n])
           h == [hand[n][s] EXCEPT !.phase = IF bundle[n].has THEN "consumed" ELSE "opening"]
<1>1. ASSUME Sockets[n] = {s} PROVE Prekeyed(b, h, inbox[n])
  <2>1. Prekeyed(bundle[n], hand[n][s], inbox[n]) BY <1>1 DEF PrekeyInv
  <2>2. Bundled(b) /\ b.opk = bundle[n].opk
    BY <2>1, BundleSteps DEF Prekeyed
  <2>3. hand[n][s] = [phase |-> "derived", chat |-> hand[n][s].chat, secret |-> hand[n][s].secret]
    BY <2>1 DEF Consume, Prekeyed, HandTyped, Idle
  <2>4. hand[n][s].secret.opk = bundle[n].opk /\ bundle[n].has
    BY <2>1 DEF Consume, Prekeyed, Derived
  <2>5. h = [phase |-> "consumed", chat |-> hand[n][s].chat, secret |-> hand[n][s].secret]
    BY <2>3, <2>4
  <2> HIDE DEF b, h
  <2>6. HandTyped(h) BY <2>5 DEF HandTyped
  <2>7. Derived(h, b) BY <2>2, <2>4, <2>5 DEF Derived
  <2> QED BY <2>1, <2>2, <2>6, <2>7 DEF Prekeyed
<1>2. /\ bundle' = [bundle EXCEPT ![n] = b] /\ inbox' = [inbox EXCEPT ![n] = inbox[n]]
      /\ hand' = [hand EXCEPT ![n][s] = h]
  BY DEF Consume, PrekeyInv, Shaped
<1> HIDE DEF b, h
<1> QED BY <1>1, <1>2, OneLoop

\* The message of a consumed prekey joins the inbox as a new prekey is made.
LEMMA OpenPrekeys ==
  ASSUME PrekeyInv, NEW n \in Nodes, NEW s \in Sockets[n], Open(n, s)
  PROVE  PrekeyInv'
<1> DEFINE c == hand[n][s].chat
           m == Message(c, hand[n][s].secret)
           b == IF hand[n][s].phase = "consumed" THEN RotateOPK(bundle[n]) ELSE bundle[n]
           more == Append(inbox[n], m)
<1>1. bundle' = [bundle EXCEPT ![n] = b]
  BY DEF Open, PrekeyInv, Shaped
<1>2. PICK q \in {inbox[n], more} : inbox' = [inbox EXCEPT ![n] = q]
  <2>1. inbox' = inbox \/ inbox' = [inbox EXCEPT ![n] = more] BY DEF Open
  <2>2. inbox = [inbox EXCEPT ![n] = inbox[n]] BY DEF PrekeyInv, Shaped
  <2> QED BY <2>1, <2>2
<1>3. hand' = [hand EXCEPT ![n][s] = Idle] BY DEF Open
<1>4. ASSUME Sockets[n] = {s} PROVE Prekeyed(b, Idle, q)
  <2>1. Prekeyed(bundle[n], hand[n][s], inbox[n]) BY <1>4 DEF PrekeyInv
  <2>2. bundle[n].opk \in Nat \ {0} /\ KeysBefore(inbox[n], bundle[n].opk)
    BY <2>1 DEF Prekeyed, Bundled
  <2>3. HandTyped(Idle) /\ Derived(Idle, b) BY DEF HandTyped, Derived, Idle
  <2>4. m.key = hand[n][s].secret BY DEF Message
  <2>5. CASE hand[n][s].phase = "consumed"
    <3>1. Bundled(b) /\ b.opk = bundle[n].opk + 1
      BY <2>1, <2>5, BundleSteps DEF Prekeyed
    <3>2. m.key.opk = bundle[n].opk BY <2>1, <2>4, <2>5 DEF Prekeyed, Derived
    <3> HIDE DEF b, m
    <3>3. KeysBefore(more, bundle[n].opk + 1) BY <2>2, <3>2, AppendedKey
    <3>4. KeysBefore(inbox[n], bundle[n].opk + 1) BY <2>2 DEF KeysBefore
    <3>5. KeysBefore(q, b.opk) BY <1>2, <3>1, <3>3, <3>4
    <3> QED BY <2>3, <3>1, <3>5 DEF Prekeyed
  <2>6. CASE hand[n][s].phase # "consumed"
    <3>1. b = bundle[n] BY <2>6
    <3>2. m.key.opk = NoOPK
      BY <2>1, <2>4, <2>6 DEF Open, Prekeyed, HandTyped, Idle
    <3>3. NoOPK \in Nat BY DEF NoOPK
    <3> HIDE DEF b, m
    <3>4. KeysBefore(more, bundle[n].opk) BY <2>2, <3>2, <3>3, AppendedKey
    <3> QED BY <1>2, <2>1, <2>2, <2>3, <3>1, <3>4 DEF Prekeyed
  <2> QED BY <2>5, <2>6
<1> HIDE DEF b, more, m
<1> QED BY <1>1, <1>2, <1>3, <1>4, OneLoop

LEMMA CrashPrekeys ==
  ASSUME PrekeyInv, NEW n \in Nodes, Crash(n)
  PROVE  PrekeyInv'
<1> DEFINE h == [s \in Sockets[n] |-> Idle]
<1>1. /\ bundle' = [bundle EXCEPT ![n] = GenerateBundle(life[n] + 1)]
      /\ inbox' = [inbox EXCEPT ![n] = <<>>]
      /\ hand' = [hand EXCEPT ![n] = [s \in Sockets[n] |-> h[s]]]
  BY DEF Crash
<1>2. \A s : Sockets[n] = {s} => Prekeyed(GenerateBundle(life[n] + 1), h[s], <<>>)
  BY NewProcess
<1> HIDE DEF h
<1> QED BY <1>1, <1>2, OneNode

LEMMA PrekeyStep == PrekeyInv /\ [Next]_vars => PrekeyInv'
<1> SUFFICES ASSUME PrekeyInv, [Next]_vars PROVE PrekeyInv' OBVIOUS
<1>1. ASSUME NEW n \in Nodes, ReadLoop(n) PROVE PrekeyInv'
  BY <1>1, ReadPrekeys, LookPrekeys, HandlePrekeys, ConsumePrekeys, OpenPrekeys DEF ReadLoop
<1>2. ASSUME NEW n \in Nodes, Crash(n) PROVE PrekeyInv'
  BY <1>2, CrashPrekeys
<1>3. ASSUME NEW n \in Nodes, NEW m, Greeted(n, m) \/ ReadFlood(n, m) \/ LearnBurn(n, m) \/ Block(n, m)
      PROVE  PrekeyInv'
  BY <1>3, PrekeysKept DEF Greeted, ReadFlood, LearnBurn, Block, chatVars
<1>4. ASSUME NEW n \in Nodes, NEW h, FloodKeyBundle(n, h) \/ FloodTimeSync(n, h) PROVE PrekeyInv'
  BY <1>4, PrekeysKept DEF FloodKeyBundle, FloodTimeSync, Flood
<1>5. ASSUME NEW n \in Nodes, PopReady(n) \/ SendCarried(n) \/ Restart(n) PROVE PrekeyInv'
  BY <1>5, PrekeysKept DEF PopReady, SendCarried, Restart
<1>6. ASSUME NEW c, NEW t, NEW h, Finish(c) \/ Send(c, t, h) PROVE PrekeyInv'
  BY <1>6, PrekeysKept DEF Finish, Send
<1>7. CASE (MeshStep /\ UNCHANGED <<now, chatVars>>) \/ Tick \/ UNCHANGED vars
  BY <1>7, PrekeysKept DEF Tick, vars, chatVars
<1> QED
  BY <1>1, <1>2, <1>3, <1>4, <1>5, <1>6, <1>7 DEF Next

\* A one-time prekey opens one message, whoever cached it, however datagrams are
\* repeated and processes restarted, where each node has one read loop.
THEOREM PrekeysUsedOnce ==
  ASSUME \A n \in Nodes : \E s : Sockets[n] = {s}
  PROVE  Spec => []OPKSingleUse
<1>1. PrekeyInv => OPKSingleUse
  <2> SUFFICES ASSUME PrekeyInv, NEW n \in Nodes,
                      NEW i \in 1..Len(inbox[n]), NEW j \in 1..Len(inbox[n]),
                      i # j, inbox[n][i].key.opk # NoOPK
               PROVE  inbox[n][i].key # inbox[n][j].key
    BY DEF OPKSingleUse
  <2>1. PICK s : Sockets[n] = {s} OBVIOUS
  <2>2. KeysBefore(inbox[n], bundle[n].opk) BY <2>1 DEF PrekeyInv, Prekeyed
  <2>3. inbox[n][i].key.opk # inbox[n][j].key.opk BY <2>2 DEF KeysBefore
  <2> QED BY <2>3
<1> QED BY <1>1, PrekeyInit, PrekeyStep, PTL DEF Spec

-----------------------------------------------------------------------------
(* The mesh *)

Peers == [node : Nodes, addr : Nat]

\* The address of a process is a number.
LEMMA AddrTyped ==
  ASSUME MeshTypeOK, NEW n \in Nodes
  PROVE  Addr(n) \in Nat
BY DEF MeshTypeOK, Addr

\* An entry registered with the seed stays one of a node and an address.
LEMMA RegisterTyped ==
  ASSUME MeshTypeOK, NEW e \in Peers
  PROVE  Register(e) \in Seq(Peers)
<1>1. directory \in Seq(Peers) BY DEF MeshTypeOK, Peers
<1>2. CASE Listed(e.node) # {}
  <2> DEFINE q == [i \in 1..Len(directory) |-> IF i \in Listed(e.node) THEN e ELSE directory[i]]
  <2>1. \A i \in 1..Len(directory) : q[i] \in Peers BY <1>1
  <2>2. q \in Seq(Peers) BY <1>1, <2>1
  <2> QED BY <1>2, <2>2 DEF Register
<1>3. CASE Listed(e.node) = {}
  <2>1. CASE Len(directory) >= SeedMax
    <3>1. directory # <<>> BY <1>1, <2>1, MeshAssumption
    <3>2. Tail(directory) \in Seq(Peers) BY <1>1, <3>1
    <3> QED BY <1>3, <2>1, <3>2 DEF Register
  <2>2. CASE ~(Len(directory) >= SeedMax)
    BY <1>1, <1>3, <2>2 DEF Register
  <2> QED BY <2>1, <2>2
<1> QED BY <1>2, <1>3

Greetings == [type : {"punch", "greet"}, from : Nodes, to : Nodes, src : Nat]

\* A punch or a greeting.
LEMMA EnvelopeTyped ==
  ASSUME MeshTypeOK, NEW n \in Nodes, NEW m \in Nodes, NEW t \in {"punch", "greet"}
  PROVE  Envelope(t, n, m) \in Greetings
BY AddrTyped DEF Envelope, Greetings

\* What a node makes of entries of the seed's list.
LEMMA IngestTyped ==
  ASSUME MeshTypeOK, NEW n \in Nodes, NEW entries \in SUBSET Peers, NEW heard, Ingest(n, entries, heard)
  PROVE  /\ pending' \in [Nodes -> [Nodes -> Nat]]
         /\ known' \in [Nodes -> SUBSET Nodes]
         /\ wire' \subseteq Greetings
<1>1. wire' \subseteq Greetings
  <2>1. \A e \in entries : Envelope("punch", n, e.node) \in Greetings
    BY EnvelopeTyped DEF Peers
  <2>2. wire \subseteq Greetings BY DEF MeshTypeOK, Greetings
  <2> QED BY <2>1, <2>2 DEF Ingest
<1>2. known' \in [Nodes -> SUBSET Nodes]
  <2>1. {e.node : e \in entries} \subseteq Nodes BY DEF Peers
  <2> QED BY <2>1 DEF Ingest, MeshTypeOK
<1>3. pending' \in [Nodes -> [Nodes -> Nat]]
  <2> DEFINE p == [m \in Nodes |-> IF \E e \in entries : e.node = m
                        THEN (CHOOSE e \in entries : e.node = m).addr ELSE pending[n][m]]
  <2>1. ASSUME NEW m \in Nodes PROVE p[m] \in Nat
    <3>1. CASE \E e \in entries : e.node = m
      <4>1. (CHOOSE e \in entries : e.node = m) \in entries BY <3>1
      <4>2. (CHOOSE e \in entries : e.node = m).addr \in Nat BY <4>1 DEF Peers
      <4> QED BY <3>1, <4>2
    <3>2. CASE ~\E e \in entries : e.node = m BY <3>2 DEF MeshTypeOK
    <3> QED BY <3>1, <3>2
  <2>2. p \in [Nodes -> Nat] BY <2>1
  <2>3. pending' = [pending EXCEPT ![n] = p] BY DEF Ingest, MeshTypeOK
  <2> HIDE DEF p
  <2> QED BY <2>2, <2>3 DEF MeshTypeOK
<1> QED BY <1>1, <1>2, <1>3

\* A datagram heard changes one address of one table.
LEMMA TouchTyped ==
  ASSUME MeshTypeOK, NEW n \in Nodes, NEW m \in Nodes, NEW a \in Nat
  PROVE  Touch(n, m, a) \in [Nodes -> [Nodes -> Nat]]
BY DEF Touch, MeshTypeOK

\* The types of the mesh, at the start and in every step of it.
LEMMA MeshInitTyped == MeshInit => MeshTypeOK
<1> SUFFICES ASSUME MeshInit PROVE MeshTypeOK OBVIOUS
<1>1. scene \in Scenes /\ scene.linked \subseteq Nodes \X Nodes BY MeshAssumption DEF MeshInit
<1>2. joined \in [Nodes -> BOOLEAN] BY DEF MeshInit
<1>3. known \in [Nodes -> SUBSET Nodes] BY DEF MeshInit
<1>4. directory \in Seq([node : Nodes, addr : Nat]) BY DEF MeshInit
<1>5. table \in [Nodes -> [Nodes -> Nat]] /\ pending \in [Nodes -> [Nodes -> Nat]]
  BY DEF MeshInit, Nowhere
<1> QED BY <1>1, <1>2, <1>3, <1>4, <1>5 DEF MeshInit, MeshTypeOK

LEMMA MeshStepTyped == MeshTypeOK /\ MeshStep => MeshTypeOK'
<1> SUFFICES ASSUME MeshTypeOK, MeshStep PROVE MeshTypeOK' OBVIOUS
<1>1. CASE SeedRestarts
  <2>1. directory' \in Seq([node : Nodes, addr : Nat]) /\ crashes' \in Nat
    BY <1>1 DEF SeedRestarts, MeshTypeOK
  <2> QED BY <1>1, <2>1 DEF SeedRestarts, MeshTypeOK
<1>2. ASSUME NEW n \in Nodes, Hello(n) PROVE MeshTypeOK'
  <2>1. [node |-> n, addr |-> Addr(n)] \in Peers BY AddrTyped DEF Peers
  <2>2. directory' \in Seq(Peers) BY <1>2, <2>1, RegisterTyped DEF Hello
  <2> QED BY <1>2, <2>2 DEF Hello, MeshTypeOK, Peers
<1>3. ASSUME NEW n \in Nodes, PeerExpires(n) PROVE MeshTypeOK'
  <2>1. PICK i \in Listed(n) : directory' = RemoveAt(directory, i) BY <1>3 DEF PeerExpires
  <2>2. directory \in Seq(Peers) /\ i \in 1..Len(directory) BY DEF MeshTypeOK, Peers, Listed
  <2>3. SubSeq(directory, 1, i-1) \in Seq(Peers) BY <2>2
  <2>4. SubSeq(directory, i+1, Len(directory)) \in Seq(Peers) BY <2>2
  <2>5. directory' \in Seq(Peers) BY <2>1, <2>3, <2>4 DEF RemoveAt
  <2> QED BY <1>3, <2>5 DEF PeerExpires, MeshTypeOK, Peers
<1>4. ASSUME NEW n \in Nodes, NEW heard, DiscoverOnce(n, heard) PROVE MeshTypeOK'
  <2> DEFINE E == {e \in ToSet(directory) : e.node # n}
  <2>1. E \subseteq Peers
    <3>1. directory \in Seq(Peers) BY DEF MeshTypeOK, Peers
    <3>2. ToSet(directory) \subseteq Peers BY <3>1 DEF ToSet
    <3> QED BY <3>2
  <2>2. Ingest(n, E, heard) BY <1>4 DEF DiscoverOnce
  <2> HIDE DEF E
  <2>3. /\ pending' \in [Nodes -> [Nodes -> Nat]]
        /\ known' \in [Nodes -> SUBSET Nodes]
        /\ wire' \subseteq Greetings
    BY <2>1, <2>2, IngestTyped
  <2> QED BY <1>4, <2>3 DEF DiscoverOnce, MeshTypeOK, Greetings
<1>5. ASSUME NEW n \in Nodes, NEW heard \in SUBSET (Nodes \ {n}), KeepAlive(n, heard) PROVE MeshTypeOK'
  <2>1. wire \subseteq Greetings BY DEF MeshTypeOK, Greetings
  <2>2. \A m \in Nodes : Envelope("greet", n, m) \in Greetings BY EnvelopeTyped
  <2>3. \A m \in Nodes : Envelope("punch", n, m) \in Greetings BY EnvelopeTyped
  <2>4. wire' \subseteq Greetings
    BY <1>5, <2>1, <2>2, <2>3 DEF KeepAlive, Links
  <2> QED BY <1>5, <2>4 DEF KeepAlive, MeshTypeOK, Greetings
<1> QED BY <1>1, <1>2, <1>3, <1>4, <1>5 DEF MeshStep

-----------------------------------------------------------------------------
(* The network clock *)

\* An upper bound on the parts is one on their quotient.
LEMMA DivBound ==
  ASSUME NEW a \in Nat, NEW b \in Nat \ {0}, NEW k \in Nat, a <= k * b
  PROVE  a \div b \in 0..k
<1>1. a \div b \in Nat
  OBVIOUS
<1>2. (a \div b) * b <= a
  OBVIOUS
<1>3. ~(a \div b > k)
  <2> SUFFICES ASSUME a \div b >= k + 1 PROVE FALSE
    BY <1>1
  <2> DEFINE q == a \div b
  <2>1. q \in Nat /\ q * b <= k * b /\ q >= k + 1
    <3>1. q * b \in Nat /\ k * b \in Nat BY <1>1
    <3> QED BY <1>1, <1>2, <3>1
  <2> HIDE DEF q
  <2>2. q * b >= (k + 1) * b BY <2>1
  <2>3. (k + 1) * b = k * b + b OBVIOUS
  <2>4. k * b \in Nat /\ q * b \in Nat BY <2>1
  <2> QED BY <2>1, <2>2, <2>3, <2>4
<1> QED BY <1>1, <1>3

\* Go's division, which truncates, stays within the bound of its parts.
LEMMA QuotientBound ==
  ASSUME NEW a \in Int, NEW b \in Nat \ {0}
  PROVE  /\ Quotient(a, b) \in Int
         /\ \A k \in Nat : a \in -(k * b)..(k * b) => Quotient(a, b) \in -k..k
<1>1. CASE a >= 0
  <2>1. Quotient(a, b) = a \div b BY <1>1 DEF Quotient
  <2>2. a \div b \in Int BY <1>1
  <2>3. ASSUME NEW k \in Nat, a \in -(k * b)..(k * b) PROVE a \div b \in -k..k
    <3>1. a \in Nat /\ a <= k * b BY <1>1, <2>3
    <3>2. a \div b \in 0..k BY <3>1, DivBound
    <3> QED BY <3>2
  <2> QED BY <2>1, <2>2, <2>3
<1>2. CASE ~(a >= 0)
  <2>1. Quotient(a, b) = -((-a) \div b) BY <1>2 DEF Quotient
  <2>2. -a \in Nat BY <1>2
  <2>3. (-a) \div b \in Int BY <2>2
  <2>4. ASSUME NEW k \in Nat, a \in -(k * b)..(k * b) PROVE -((-a) \div b) \in -k..k
    <3>1. -a <= k * b
      <4>1. k * b \in Int OBVIOUS
      <4> QED BY <2>4, <4>1
    <3>2. (-a) \div b \in 0..k BY <2>2, <3>1, DivBound
    <3> QED BY <3>2
  <2> QED BY <2>1, <2>3, <2>4
<1> QED BY <1>1, <1>2

\* A sum of n numbers is within n times their bound.
LEMMA TotalBound ==
  ASSUME NEW n \in Nat, NEW f \in [1..n -> Int], NEW k \in Nat,
         \A i \in 1..n : f[i] \in -k..k
  PROVE  Total(f, n) \in -(k * n)..(k * n)
<1> DEFINE P == PrefixSums(f, n)
           Bad == {m \in 0..n : ~(P[m] \in -(k * m)..(k * m))}
<1>1. SumsOf(P, f, n) BY PrefixSumsAreSums
<1>2. n \in 0..n OBVIOUS
<1> HIDE DEF P
<1>3. ASSUME Bad # {} PROVE FALSE
  <2>1. PICK m \in Bad : \A j \in Bad : m <= j
    <3>1. Bad \in SUBSET Nat OBVIOUS
    <3> HIDE DEF Bad
    <3> QED BY <1>3, <3>1, LeastNat
  <2>2. m # 0 BY <1>1, <2>1 DEF SumsOf
  <2>3. m \in 1..n /\ m - 1 \in 0..n /\ ~(m <= m - 1) BY <2>1, <2>2
  <2>4. P[m-1] \in -(k * (m-1))..(k * (m-1)) BY <2>1, <2>3
  <2>5. P[m] = P[m-1] + f[m] /\ f[m] \in -k..k BY <1>1, <2>3 DEF SumsOf
  <2>6. k * m = k * (m-1) + k /\ k * m \in Int /\ k * (m-1) \in Int BY <2>3
  <2>7. P[m] \in -(k * m)..(k * m) BY <2>4, <2>5, <2>6
  <2> QED BY <2>1, <2>7
<1> QED BY <1>2, <1>3 DEF P, Total

\* The mean of two is within their bound.
LEMMA HalfBound ==
  ASSUME NEW a \in Int, NEW k \in Nat, a \in -(2 * k)..(2 * k)
  PROVE  Quotient(a, 2) \in -k..k
BY DEF Quotient

\* The offset of a window is within half the bound of its samples: what
\* NetClock halves or averages, it bounds.
LEMMA OffsetBound ==
  ASSUME NEW s \in Seq(Int)
  PROVE  /\ Offset(s) \in Int
         /\ \A k \in Nat : (\A i \in 1..Len(s) : s[i] \in -(2 * k)..(2 * k)) => Offset(s) \in -k..k
<1>1. CASE s = <<>> BY <1>1 DEF Offset
<1>2. CASE s # <<>>
  <2>1. Len(s) \in Nat \ {0} /\ s \in [1..Len(s) -> Int] BY <1>2
  <2>2. Total(s, Len(s)) \in Int BY <2>1, TotalType
  <2>3. Average(s) \in Int BY <2>1, <2>2, QuotientBound DEF Average
  <2>4. Offset(s) = Quotient(Average(s), 2) BY <1>2 DEF Offset
  <2>5. Offset(s) \in Int BY <2>3, <2>4, QuotientBound
  <2>6. ASSUME NEW k \in Nat, \A i \in 1..Len(s) : s[i] \in -(2 * k)..(2 * k)
        PROVE  Offset(s) \in -k..k
    <3> DEFINE d == 2 * k
    <3>1. d \in Nat /\ \A i \in 1..Len(s) : s[i] \in -d..d BY <2>6
    <3> HIDE DEF d
    <3>3. Total(s, Len(s)) \in -(d * Len(s))..(d * Len(s)) BY <2>1, <3>1, TotalBound
    <3>4. Average(s) \in -d..d BY <2>1, <2>2, <3>1, <3>3, QuotientBound DEF Average
    <3>5. Average(s) \in -(2 * k)..(2 * k) BY <3>4 DEF d
    <3> QED BY <2>3, <2>4, <3>5, HalfBound
  <2> QED BY <2>5, <2>6
<1> QED BY <1>1, <1>2

-----------------------------------------------------------------------------
(* Stamps, bundles and samples *)

Keys     == [spk : Nat, opk : Nat]
Packets  == [ts : Int, exp : Int, key : Keys, life : Nat]
Controls == [kind : {"keys", "time"}, origin : Nodes, body : Keys, ts : Int,
             from : Nodes, to : Nodes, src : Nat, hops : Nat]

\* Time, clocks, stamps and prekeys.
Stamped ==
  /\ now \in 0..scene.horizon
  /\ samples \in [Nodes -> Seq(-Clamp..Clamp)]
  /\ \A n \in Nodes : Len(samples[n]) <= MaxSamples
  /\ pkts \in [DOMAIN Chats -> Packets]
  /\ floods \subseteq Controls
  /\ bundle \in [Nodes -> [spk : Nat, opk : Nat, has : BOOLEAN]]
  /\ remote \in [Nodes -> [Nodes -> Keys]]

\* Clocks are numbers.
LEMMA NetTimeTyped ==
  ASSUME MeshTypeOK, Stamped, NEW n \in Nodes
  PROVE  /\ samples[n] \in Seq(Int)
         /\ now \in Int /\ Wall(n) \in Int /\ NetTime(n) \in Int
<1>1. scene.horizon \in Nat BY NodeAssumption DEF MeshTypeOK
<1>2. now \in Int BY <1>1 DEF Stamped
<1>3. Wall(n) \in Int BY <1>2, NodeAssumption DEF Wall
<1>4. samples[n] \in Seq(Int)
  <2>1. samples[n] \in Seq(-Clamp..Clamp) BY DEF Stamped
  <2>2. \A i \in 1..Len(samples[n]) : samples[n][i] \in Int BY <2>1, NetClockAssumption
  <2>3. samples[n] = [i \in 1..Len(samples[n]) |-> samples[n][i]] /\ Len(samples[n]) \in Nat BY <2>1
  <2> QED BY <2>2, <2>3
<1>5. Offset(samples[n]) \in Int BY <1>4, OffsetBound
<1> QED BY <1>2, <1>3, <1>4, <1>5 DEF NetTime

\* A window takes a sample.
LEMMA ObserveTyped ==
  ASSUME NEW s \in Seq(-Clamp..Clamp), Len(s) <= MaxSamples, NEW x \in Int
  PROVE  Observe(s, x) \in Seq(-Clamp..Clamp) /\ Len(Observe(s, x)) <= MaxSamples
<1>1. CASE x \notin -Clamp..Clamp BY <1>1 DEF Observe
<1>2. CASE x \in -Clamp..Clamp /\ Len(s) < MaxSamples
  <2> DEFINE C == -Clamp..Clamp
  <2>1. x \in C /\ s \in Seq(C) BY <1>2
  <2>2. Observe(s, x) = Append(s, x) BY <1>2 DEF Observe
  <2> HIDE DEF C
  <2>3. Append(s, x) \in Seq(C) /\ Len(Append(s, x)) = Len(s) + 1 /\ Len(s) \in Nat BY <2>1
  <2> QED BY <1>2, <2>2, <2>3, NetClockAssumption DEF C
<1>3. CASE x \in -Clamp..Clamp /\ ~(Len(s) < MaxSamples)
  <2> DEFINE C == -Clamp..Clamp
  <2>1. x \in C /\ s \in Seq(C) BY <1>3
  <2>2. Observe(s, x) = Append(Tail(s), x) BY <1>3 DEF Observe
  <2> HIDE DEF C
  <2>3. s # <<>> /\ Len(s) \in Nat BY <1>3, <2>1, NetClockAssumption
  <2>4. Tail(s) \in Seq(C) /\ Len(Tail(s)) = Len(s) - 1 BY <2>1, <2>3
  <2>5. Append(Tail(s), x) \in Seq(C) /\ Len(Append(Tail(s), x)) = Len(s) BY <2>1, <2>3, <2>4
  <2> QED BY <2>2, <2>5 DEF C
<1> QED BY <1>1, <1>2, <1>3

\* A sample observed by one node.
LEMMA ObservedTyped ==
  ASSUME MeshTypeOK, Stamped, NEW n \in Nodes, NEW ts \in Int,
         samples' = [samples EXCEPT ![n] = Observe(@, ts - Wall(n))]
  PROVE  /\ samples' \in [Nodes -> Seq(-Clamp..Clamp)]
         /\ \A m \in Nodes : Len(samples'[m]) <= MaxSamples
<1>1. ts - Wall(n) \in Int BY NetTimeTyped
<1>2. /\ Observe(samples[n], ts - Wall(n)) \in Seq(-Clamp..Clamp)
      /\ Len(Observe(samples[n], ts - Wall(n))) <= MaxSamples
  BY <1>1, ObserveTyped DEF Stamped
<1> QED BY <1>2 DEF Stamped

\* What consuming, rotating, stripping and deriving make of bundles and keys.
LEMMA BundleTyped ==
  /\ \A b \in [spk : Nat, opk : Nat, has : BOOLEAN] :
       /\ Public(b) \in Keys /\ ResponderSecret(b) \in Keys
       /\ ConsumeOPK(b) \in [spk : Nat, opk : Nat, has : BOOLEAN]
       /\ RotateOPK(b) \in [spk : Nat, opk : Nat, has : BOOLEAN]
  /\ \A r \in Keys : StripRemoteOPK(r) \in Keys /\ InitiatorSecret(r) \in Keys
  /\ NoBundle \in Keys /\ StaticKey \in Keys
  /\ \A k \in Nat : GenerateBundle(k) \in [spk : Nat, opk : Nat, has : BOOLEAN]
<1>1. ASSUME NEW b \in [spk : Nat, opk : Nat, has : BOOLEAN]
      PROVE  /\ Public(b) \in Keys /\ ResponderSecret(b) \in Keys
             /\ ConsumeOPK(b) \in [spk : Nat, opk : Nat, has : BOOLEAN]
  BY <1>1 DEF Public, ResponderSecret, ConsumeOPK, Keys, NoOPK
<1>2. ASSUME NEW b \in [spk : Nat, opk : Nat, has : BOOLEAN]
      PROVE  RotateOPK(b) \in [spk : Nat, opk : Nat, has : BOOLEAN]
  <2>1. [b EXCEPT !.opk = b.opk + 1] \in [spk : Nat, opk : Nat, has : BOOLEAN] BY <1>2
  <2> QED BY <2>1 DEF RotateOPK
<1>3. \A r \in Keys : StripRemoteOPK(r) \in Keys /\ InitiatorSecret(r) \in Keys
  BY DEF StripRemoteOPK, InitiatorSecret, Keys, NoOPK
<1>4. NoBundle \in Keys /\ StaticKey \in Keys BY DEF NoBundle, StaticKey, Keys, NoOPK
<1>5. \A k \in Nat : GenerateBundle(k) \in [spk : Nat, opk : Nat, has : BOOLEAN]
  BY DEF GenerateBundle
<1> QED BY <1>1, <1>2, <1>3, <1>4, <1>5

\* Stamped, at the start and in each step that can disturb it.
LEMMA StampedInit == Init => Stamped
<1> SUFFICES ASSUME Init PROVE Stamped OBVIOUS
<1>1. MeshTypeOK BY MeshInitTyped DEF Init
<1>2. now \in 0..scene.horizon
  <2>1. scene.horizon \in Nat BY <1>1, NodeAssumption DEF MeshTypeOK
  <2> QED BY <2>1 DEF Init
<1>3. \A n \in Nodes : samples[n] = <<>> BY DEF Init
<1>4. samples \in [Nodes -> Seq(-Clamp..Clamp)] BY DEF Init
<1>5. \A n \in Nodes : Len(samples[n]) <= MaxSamples BY <1>3, NetClockAssumption
<1>6. NoPacket \in Packets BY BundleTyped DEF NoPacket, Packets
<1>7. pkts \in [DOMAIN Chats -> Packets] BY <1>6 DEF Init
<1>8. bundle \in [Nodes -> [spk : Nat, opk : Nat, has : BOOLEAN]] BY BundleTyped DEF Init
<1>9. remote \in [Nodes -> [Nodes -> Keys]] BY BundleTyped DEF Init
<1> QED BY <1>2, <1>4, <1>5, <1>7, <1>8, <1>9 DEF Init, Stamped

LEMMA StampedKept ==
  ASSUME Stamped, UNCHANGED <<scene, now, samples, pkts, floods, bundle, remote>>
  PROVE  Stamped'
BY DEF Stamped

LEMMA FloodStamped ==
  ASSUME MeshTypeOK, Stamped, NEW n \in Nodes, NEW kind \in {"keys", "time"},
         NEW heard, Flood(n, kind, heard)
  PROVE  Stamped'
<1> DEFINE f(m) == [kind |-> kind, origin |-> n, body |-> Public(bundle[n]), ts |-> NetTime(n),
                    from |-> n, to |-> m, src |-> Addr(n), hops |-> 0]
<1>1. Public(bundle[n]) \in Keys /\ NetTime(n) \in Int /\ Addr(n) \in Nat
  BY BundleTyped, NetTimeTyped, AddrTyped DEF Stamped
<1>2. \A m \in Nodes : f(m) \in Controls BY <1>1 DEF Controls
<1>3. floods' \subseteq Controls
  BY <1>2 DEF Flood, Links, Stamped
<1> QED BY <1>3 DEF Flood, Stamped, meshVars

LEMMA ReadFloodStamped ==
  ASSUME MeshTypeOK, Stamped, NEW n \in Nodes, NEW m \in Nodes, ReadFlood(n, m)
  PROVE  Stamped'
<1>1. PICK f \in floods :
         /\ IF Verifies(n, f.hops + 1, f.ts)
            THEN /\ samples' = [samples EXCEPT ![n] = Observe(@, f.ts - Wall(n))]
                 /\ remote' = IF f.origin \in blocked[n] THEN remote ELSE CacheBundle(n, f)
                 /\ floods' = (floods \ {f}) \cup
                      (IF f.origin \notin blocked[n] /\ f.kind = "keys" /\ f.hops + 1 < MaxHops
                       THEN {[f EXCEPT !.from = n, !.to = x, !.src = Addr(n), !.hops = @ + 1] :
                               x \in {y \in Links(n) \ {m} : Arrives(y, table[n][y])}}
                       ELSE {})
            ELSE /\ floods' = floods \ {f}
                 /\ UNCHANGED <<samples, remote>>
  BY DEF ReadFlood
<1>2. f \in Controls BY DEF Stamped
<1>3. UNCHANGED <<scene, now, pkts, bundle>> BY DEF ReadFlood
<1>4. CASE Verifies(n, f.hops + 1, f.ts)
  <2>1. /\ samples' \in [Nodes -> Seq(-Clamp..Clamp)]
        /\ \A k \in Nodes : Len(samples'[k]) <= MaxSamples
    BY <1>1, <1>2, <1>4, ObservedTyped DEF Controls
  <2>2. remote' \in [Nodes -> [Nodes -> Keys]]
    <3>1. f.origin \in Nodes /\ f.body \in Keys BY <1>2 DEF Controls
    <3>2. [remote EXCEPT ![n][f.origin] = f.body] \in [Nodes -> [Nodes -> Keys]]
      BY <3>1 DEF Stamped
    <3>3. remote' = remote \/ remote' = [remote EXCEPT ![n][f.origin] = f.body]
      BY <1>1, <1>4 DEF CacheBundle
    <3> QED BY <3>2, <3>3 DEF Stamped
  <2> DEFINE g(x) == [f EXCEPT !.from = n, !.to = x, !.src = Addr(n), !.hops = @ + 1]
  <2>3. \A x \in Nodes : g(x) \in Controls
    <3>1. Addr(n) \in Nat /\ f.hops + 1 \in Nat BY <1>2, AddrTyped DEF Controls
    <3>2. PICK k \in {"keys", "time"}, o \in Nodes, b \in Keys, t \in Int,
               fr \in Nodes, to \in Nodes, src \in Nat, hops \in Nat :
            f = [kind |-> k, origin |-> o, body |-> b, ts |-> t,
                 from |-> fr, to |-> to, src |-> src, hops |-> hops]
      BY <1>2 DEF Controls
    <3>3. \A x : g(x) = [kind |-> k, origin |-> o, body |-> b, ts |-> t,
                        from |-> n, to |-> x, src |-> Addr(n), hops |-> hops + 1]
      <4> SUFFICES ASSUME NEW x
                   PROVE  g(x) = [kind |-> k, origin |-> o, body |-> b, ts |-> t,
                        from |-> n, to |-> x, src |-> Addr(n), hops |-> hops + 1]
        OBVIOUS
      <4> DEFINE f1 == [f EXCEPT !.from = n]
                 f2 == [f1 EXCEPT !.to = x]
                 f3 == [f2 EXCEPT !.src = Addr(n)]
      <4>1. g(x) = [f3 EXCEPT !.hops = f.hops + 1] OBVIOUS
      <4>2. f.hops = hops BY <3>2
      <4>3. f1 = [kind |-> k, origin |-> o, body |-> b, ts |-> t,
                  from |-> n, to |-> to, src |-> src, hops |-> hops] BY <3>2
      <4> HIDE DEF f1
      <4>4. f2 = [kind |-> k, origin |-> o, body |-> b, ts |-> t,
                  from |-> n, to |-> x, src |-> src, hops |-> hops] BY <4>3
      <4> HIDE DEF f2
      <4>5. f3 = [kind |-> k, origin |-> o, body |-> b, ts |-> t,
                  from |-> n, to |-> x, src |-> Addr(n), hops |-> hops] BY <4>4
      <4> HIDE DEF f3, g
      <4> QED BY <4>1, <4>2, <4>5
    <3> HIDE DEF g
    <3> QED BY <3>1, <3>2, <3>3 DEF Controls
  <2>4. floods' \subseteq Controls
    <3> DEFINE X == {y \in Links(n) \ {m} : Arrives(y, table[n][y])}
               more == f.origin \notin blocked[n] /\ f.kind = "keys" /\ f.hops + 1 < MaxHops
    <3>1. floods' = (floods \ {f}) \cup (IF more THEN {g(x) : x \in X} ELSE {})
      BY <1>1, <1>4
    <3>2. X \subseteq Nodes BY DEF Links
    <3> HIDE DEF g, X, more
    <3> QED BY <2>3, <3>1, <3>2 DEF Stamped
  <2> QED BY <1>3, <2>1, <2>2, <2>4 DEF Stamped
<1>5. CASE ~Verifies(n, f.hops + 1, f.ts)
  BY <1>1, <1>3, <1>5 DEF Stamped
<1> QED BY <1>4, <1>5

LEMMA SendStamped ==
  ASSUME MeshTypeOK, Stamped, NEW c \in DOMAIN Chats, NEW t \in BOOLEAN, NEW heard, Send(c, t, heard)
  PROVE  Stamped'
<1> DEFINE n == Chats[c].from
           m == Chats[c].to
           cached == m # Everyone /\ remote[n][m] # NoBundle
           p == [ts |-> NetTime(n), exp |-> NetTime(n) + Chats[c].ttl, life |-> life[n],
                 key |-> IF cached THEN InitiatorSecret(remote[n][m]) ELSE StaticKey]
<1>1. n \in Nodes /\ (m # Everyone => m \in Nodes) /\ Chats[c].ttl \in Nat BY NodeAssumption
<1>2. UNCHANGED <<scene, now, samples, floods, bundle>> BY DEF Send
<1>3. remote' \in [Nodes -> [Nodes -> Keys]]
  <2>1. remote' = remote \/ (cached /\ remote' = Stripped(n, m)) BY DEF Send
  <2>2. ASSUME cached PROVE Stripped(n, m) \in [Nodes -> [Nodes -> Keys]]
    BY <1>1, <2>2, BundleTyped DEF Stripped, Stamped
  <2> QED BY <2>1, <2>2 DEF Stamped
<1>4. p \in Packets
  <2>1. NetTime(n) \in Int /\ life[n] \in Nat BY <1>1, NetTimeTyped DEF MeshTypeOK
  <2>2. (IF cached THEN InitiatorSecret(remote[n][m]) ELSE StaticKey) \in Keys
    <3>1. ASSUME cached PROVE remote[n][m] \in Keys BY <1>1, <3>1 DEF Stamped
    <3>2. ASSUME cached PROVE InitiatorSecret(remote[n][m]) \in Keys BY <3>1, <3>2, BundleTyped
    <3>3. StaticKey \in Keys BY BundleTyped
    <3> HIDE DEF cached
    <3> QED BY <3>2, <3>3
  <2>3. NetTime(n) + Chats[c].ttl \in Int BY <1>1, <2>1
  <2> QED BY <2>1, <2>2, <2>3 DEF Packets
<1>5. pkts' = pkts \/ pkts' = [pkts EXCEPT ![c] = p] BY DEF Send
<1> HIDE DEF p
<1>6. pkts' \in [DOMAIN Chats -> Packets] BY <1>4, <1>5 DEF Stamped
<1> QED BY <1>2, <1>3, <1>6 DEF Stamped

LEMMA CrashStamped ==
  ASSUME MeshTypeOK, Stamped, NEW n \in Nodes, Crash(n)
  PROVE  Stamped'
<1>1. UNCHANGED <<scene, now, pkts>> BY DEF Crash, MeshCrash
<1>2. floods' \subseteq Controls BY DEF Crash, Stamped
<1>3. samples' = [samples EXCEPT ![n] = <<>>] BY DEF Crash
<1>4. samples' \in [Nodes -> Seq(-Clamp..Clamp)] BY <1>3 DEF Stamped
<1>5. \A m \in Nodes : samples'[m] = IF m = n THEN <<>> ELSE samples[m] BY <1>3 DEF Stamped
<1>6. \A m \in Nodes : Len(samples'[m]) <= MaxSamples BY <1>5, NetClockAssumption DEF Stamped
<1>7. life[n] + 1 \in Nat BY DEF MeshTypeOK
<1>8. bundle' \in [Nodes -> [spk : Nat, opk : Nat, has : BOOLEAN]]
  BY <1>7, BundleTyped DEF Crash, Stamped
<1>9. remote' \in [Nodes -> [Nodes -> Keys]] BY BundleTyped DEF Crash, Stamped
<1> QED BY <1>1, <1>2, <1>4, <1>6, <1>8, <1>9 DEF Stamped

-----------------------------------------------------------------------------
(* The carry store *)

\* No two items of a queue are of one packet.
Single(q) == \A i, j \in 1..Len(q) : i # j => q[i].id # q[j].id

\* One more item, of a packet the queue does not hold.
LEMMA AppendedSingle ==
  ASSUME NEW S, NEW q \in Seq(S), Single(q), NEW it \in S,
         \A i \in 1..Len(q) : q[i].id # it.id
  PROVE  Single(Append(q, it))
<1>1. /\ Len(q) \in Nat /\ Len(Append(q, it)) = Len(q) + 1
      /\ \A i \in 1..Len(q) : Append(q, it)[i] = q[i]
      /\ Append(q, it)[Len(q) + 1] = it
  OBVIOUS
<1> DEFINE r == Append(q, it)
<1> HIDE DEF r
<1>2. ASSUME NEW i \in 1..Len(r), NEW j \in 1..Len(r), i # j PROVE r[i].id # r[j].id
  <2>1. CASE i \in 1..Len(q) /\ j \in 1..Len(q) BY <1>1, <1>2, <2>1 DEF Single, r
  <2>2. CASE i \in 1..Len(q) /\ j = Len(q) + 1 BY <1>1, <2>2 DEF r
  <2>3. CASE i = Len(q) + 1 /\ j \in 1..Len(q) BY <1>1, <2>3 DEF r
  <2>4. /\ i \in 1..Len(q) \/ i = Len(q) + 1
        /\ j \in 1..Len(q) \/ j = Len(q) + 1
    BY <1>1 DEF r
  <2> QED BY <1>2, <2>1, <2>2, <2>3, <2>4
<1> QED BY <1>2 DEF Single, r

\* What has not expired stays, in its order and no further from the end.
LEMMA UnexpiredKeeps ==
  ASSUME NEW S, NEW q \in Seq(S), NEW wall
  PROVE  LET u == Unexpired(q, wall)
         IN  /\ u \in Seq(S) /\ Len(u) <= Len(q)
             /\ \A i \in 1..Len(q) : wall < q[i].exp =>
                  \E j \in 1..Len(u) : u[j] = q[i] /\ Len(u) - j <= Len(q) - i
             /\ \A j \in 1..Len(u) : \E i \in 1..Len(q) : u[j] = q[i]
             /\ Single(q) => Single(u)
<1> DEFINE n == Len(q)
           Live(r, t) == IF wall < t.exp THEN Append(r, t) ELSE r
           Rec(g, m) == g = [i \in 0..m |-> IF i = 0 THEN <<>> ELSE Live(g[i-1], q[i])]
           Bad == {m \in 0..n : ~\E g : Rec(g, m)}
<1>1. n \in Nat OBVIOUS
<1> HIDE DEF n, Live
<1>2. ASSUME Bad # {} PROVE FALSE
  <2>1. PICK m \in Bad : \A k \in Bad : m <= k
    <3>1. Bad \in SUBSET Nat BY <1>1
    <3> HIDE DEF Bad
    <3> QED BY <1>2, <3>1, LeastNat
  <2>2. m # 0
    <3>1. Rec([i \in 0..0 |-> <<>>], 0) OBVIOUS
    <3> QED BY <3>1
  <2>3. m - 1 \in 0..n /\ m - 1 \notin Bad /\ m \in 1..n
    <3>1. m \in 0..n OBVIOUS
    <3>2. m - 1 \in 0..n /\ m \in 1..n /\ ~(m <= m - 1) BY <1>1, <2>2, <3>1
    <3> HIDE DEF Bad
    <3> QED BY <2>1, <3>2
  <2>4. PICK g : Rec(g, m - 1) BY <2>3
  <2> DEFINE f == [i \in 0..m |-> IF i = m THEN Live(g[m-1], q[m]) ELSE g[i]]
  <2>5. ASSUME NEW i \in 0..m
        PROVE  f[i] = IF i = 0 THEN <<>> ELSE Live(f[i-1], q[i])
    <3>1. CASE i = 0 BY <2>2, <2>4, <3>1, <2>3
    <3>2. CASE i = m
      <4>1. f[m-1] = g[m-1] /\ f[m] = Live(g[m-1], q[m]) BY <2>3
      <4> QED BY <2>2, <3>2, <4>1
    <3>3. CASE i # 0 /\ i # m
      <4>1. i \in 0..m-1 /\ i - 1 \in 0..m /\ i - 1 # m BY <2>3, <3>3
      <4>2. f[i-1] = g[i-1] /\ f[i] = g[i] BY <3>3, <4>1
      <4>3. g[i] = Live(g[i-1], q[i]) BY <2>4, <3>3, <4>1
      <4> QED BY <3>3, <4>2, <4>3
    <3> QED BY <3>1, <3>2, <3>3
  <2>6. Rec(f, m) BY <2>5
  <2> QED BY <2>1, <2>6
<1>3. \E g : Rec(g, n)
  <2>1. n \in 0..n BY <1>1
  <2> QED BY <1>2, <2>1
<1> DEFINE A == CHOOSE g : Rec(g, n)
<1>4. Unexpired(q, wall) = A[n] BY DEF Unexpired, n, Live
<1>5. Rec(A, n) BY <1>3
<1> HIDE DEF A
<1>6. A[0] = <<>> /\ \A i \in 1..n : A[i] = Live(A[i-1], q[i]) BY <1>1, <1>5
<1> DEFINE Kept(u, i) == \A k \in 1..i : wall < q[k].exp =>
                           \E j \in 1..Len(u) : u[j] = q[k] /\ Len(u) - j <= i - k
           From(u, i) == \A j \in 1..Len(u) : \E k \in 1..i : u[j] = q[k]
           Good(i) == /\ A[i] \in Seq(S) /\ Len(A[i]) <= i
                      /\ Kept(A[i], i) /\ From(A[i], i)
                      /\ Single(q) => Single(A[i])
           Wrong == {i \in 0..n : ~Good(i)}
<1>7. Good(0)
  <2>1. <<>> \in Seq(S) /\ Len(<<>>) = 0 /\ 1..Len(<<>>) = {} OBVIOUS
  <2>2. A[0] = <<>> BY <1>6
  <2>3. 1..0 = {} OBVIOUS
  <2> QED BY <2>1, <2>2, <2>3 DEF Single
<1>8. ASSUME NEW i \in 1..n, Good(i - 1) PROVE Good(i)
  <2>1. A[i] = Live(A[i-1], q[i]) BY <1>6
  <2>2. i \in Nat /\ i - 1 \in Nat /\ q[i] \in S BY <1>1 DEF n
  <2> DEFINE r == A[i-1]
             t == q[i]
  <2>3. /\ r \in Seq(S) /\ Len(r) <= i - 1 /\ Len(r) \in Nat
        /\ Kept(r, i - 1) /\ From(r, i - 1)
        /\ Single(q) => Single(r)
    BY <1>8
  <2> HIDE DEF r
  <2>4. CASE wall < t.exp
    <3>1. A[i] = Append(r, t) BY <2>1, <2>4 DEF Live, r
    <3> HIDE DEF Kept, From
    <3>2. /\ Append(r, t) \in Seq(S) /\ Len(Append(r, t)) = Len(r) + 1
          /\ \A j \in 1..Len(r) : Append(r, t)[j] = r[j]
          /\ Append(r, t)[Len(r) + 1] = t
      BY <2>2, <2>3
    <3>3. Kept(Append(r, t), i)
      <4> SUFFICES ASSUME NEW k \in 1..i, wall < q[k].exp
                   PROVE  \E j \in 1..(Len(r) + 1) :
                             Append(r, t)[j] = q[k] /\ Len(r) + 1 - j <= i - k
        BY <3>2 DEF Kept
      <4>1. CASE k = i
        <5>1. Len(r) + 1 \in 1..(Len(r) + 1) /\ Len(r) + 1 - (Len(r) + 1) <= i - k BY <2>2, <2>3, <4>1
        <5> QED BY <3>2, <4>1, <5>1
      <4>2. CASE k # i
        <5>1. k \in 1..(i - 1) BY <2>2, <4>2
        <5>2. PICK j \in 1..Len(r) : r[j] = q[k] /\ Len(r) - j <= (i - 1) - k
          BY <2>3, <5>1 DEF Kept
        <5>3. j \in 1..(Len(r) + 1) /\ Len(r) + 1 - j <= i - k BY <2>2, <2>3, <5>2
        <5> QED BY <3>2, <5>2, <5>3
      <4> QED BY <4>1, <4>2
    <3>4. From(Append(r, t), i)
      <4> SUFFICES ASSUME NEW j \in 1..(Len(r) + 1)
                   PROVE  \E k \in 1..i : Append(r, t)[j] = q[k]
        BY <3>2 DEF From
      <4>1. CASE j = Len(r) + 1
        <5>1. i \in 1..i BY <2>2
        <5> QED BY <3>2, <4>1, <5>1
      <4>2. CASE j # Len(r) + 1
        <5>1. j \in 1..Len(r) BY <2>3, <4>2
        <5>2. PICK k \in 1..(i - 1) : r[j] = q[k] BY <2>3, <5>1 DEF From
        <5>3. k \in 1..i BY <2>2
        <5> QED BY <3>2, <5>1, <5>2, <5>3
      <4> QED BY <4>1, <4>2
    <3>5. ASSUME Single(q) PROVE Single(Append(r, t))
      <4>1. \A j \in 1..Len(r) : r[j].id # t.id
        <5> SUFFICES ASSUME NEW j \in 1..Len(r) PROVE r[j].id # t.id OBVIOUS
        <5>1. PICK k \in 1..(i - 1) : r[j] = q[k] BY <2>3 DEF From
        <5>2. k \in 1..Len(q) /\ i \in 1..Len(q) /\ k # i BY <1>1, <2>2 DEF n
        <5> QED BY <3>5, <5>1, <5>2 DEF Single
      <4> HIDE DEF t
      <4> QED BY <2>2, <2>3, <3>5, <4>1, AppendedSingle DEF t
    <3>6. Len(Append(r, t)) <= i BY <2>2, <2>3, <3>2
    <3> HIDE DEF t
    <3> QED BY <3>1, <3>2, <3>3, <3>4, <3>5, <3>6
  <2>5. CASE ~(wall < t.exp)
    <3>1. A[i] = r BY <2>1, <2>5 DEF Live, r
    <3>2. Len(r) <= i BY <2>2, <2>3
    <3>3. Kept(r, i)
      <4> SUFFICES ASSUME NEW k \in 1..i, wall < q[k].exp
                   PROVE  \E j \in 1..Len(r) : r[j] = q[k] /\ Len(r) - j <= i - k
        OBVIOUS
      <4>1. k \in 1..(i - 1) BY <2>2, <2>5
      <4>2. PICK j \in 1..Len(r) : r[j] = q[k] /\ Len(r) - j <= (i - 1) - k
        BY <2>3, <4>1
      <4>3. Len(r) - j <= i - k BY <2>2, <2>3, <4>2
      <4> QED BY <4>2, <4>3
    <3>4. From(r, i)
      <4>1. \A k \in 1..(i - 1) : k \in 1..i BY <2>2
      <4> QED BY <2>3, <4>1
    <3> HIDE DEF Kept, From
    <3> QED BY <2>3, <3>1, <3>2, <3>3, <3>4
  <2> QED BY <2>4, <2>5
<1> HIDE DEF Good
<1>9. ASSUME Wrong # {} PROVE FALSE
  <2>1. PICK m \in Wrong : \A k \in Wrong : m <= k
    <3>1. Wrong \in SUBSET Nat BY <1>1
    <3> HIDE DEF Wrong
    <3> QED BY <1>9, <3>1, LeastNat
  <2>2. m # 0 BY <1>7, <2>1
  <2>3. m - 1 \in 0..n /\ m \in 1..n /\ ~(m <= m - 1) BY <1>1, <2>1, <2>2
  <2>4. Good(m - 1) BY <2>1, <2>3
  <2> QED BY <1>8, <2>1, <2>3, <2>4
<1>10. Good(n)
  <2>1. n \in 0..n BY <1>1
  <2> QED BY <1>9, <2>1
<1> QED BY <1>4, <1>10 DEF Good, n

\* Of a queue that loses its first item when it is full, and takes another.
LEMMA MakeRoom ==
  ASSUME NEW S, NEW u \in Seq(S), NEW it \in S
  PROVE  LET v == Append(IF Len(u) >= StoreMax THEN Tail(u) ELSE u, it)
         IN  /\ v \in Seq(S)
             /\ Len(u) <= StoreMax => Len(v) <= StoreMax
             /\ \E j \in 1..Len(v) : v[j] = it /\ Len(v) - j = 0
             /\ \A i \in 1..Len(u) : Len(u) - i < StoreMax - 1 =>
                  \E j \in 1..Len(v) : v[j] = u[i] /\ Len(v) - j = Len(u) - i + 1
             /\ \A j \in 1..Len(v) : v[j] = it \/ \E i \in 1..Len(u) : v[j] = u[i]
             /\ Single(u) /\ (\A i \in 1..Len(u) : u[i].id # it.id) => Single(v)
<1> DEFINE r == IF Len(u) >= StoreMax THEN Tail(u) ELSE u
<1>0. StoreMax \in Nat \ {0} /\ Len(u) \in Nat BY CarryAssumption
<1>1. PICK d \in {0, 1} : /\ r \in Seq(S) /\ Len(r) = Len(u) - d
                          /\ \A i \in 1..Len(r) : r[i] = u[i + d] /\ i + d \in 1..Len(u)
                          /\ d = 1 <=> Len(u) >= StoreMax
  <2>1. CASE Len(u) >= StoreMax
    <3>1. u # <<>> BY <1>0, <2>1
    <3>2. /\ Tail(u) \in Seq(S) /\ Len(Tail(u)) = Len(u) - 1
          /\ \A i \in 1..Len(Tail(u)) : Tail(u)[i] = u[i + 1] /\ i + 1 \in 1..Len(u)
      BY <1>0, <3>1
    <3>3. r = Tail(u) BY <2>1
    <3> HIDE DEF r
    <3>4. /\ r \in Seq(S) /\ Len(r) = Len(u) - 1
          /\ \A i \in 1..Len(r) : r[i] = u[i + 1] /\ i + 1 \in 1..Len(u)
      BY <3>2, <3>3
    <3> QED BY <2>1, <3>4
  <2>2. CASE ~(Len(u) >= StoreMax)
    <3>1. r = u BY <2>2
    <3> HIDE DEF r
    <3>2. r \in Seq(S) /\ Len(r) = Len(u) - 0 BY <1>0, <3>1
    <3>3. \A i \in 1..Len(r) : r[i] = u[i + 0] /\ i + 0 \in 1..Len(u) BY <1>0, <3>1
    <3>4. 0 = 1 <=> Len(u) >= StoreMax BY <2>2
    <3> QED BY <3>2, <3>3, <3>4
  <2> QED BY <2>1, <2>2
<1> HIDE DEF r
<1> DEFINE v == Append(r, it)
<1>2. /\ v \in Seq(S) /\ Len(v) = Len(r) + 1 /\ Len(r) \in Nat
      /\ \A i \in 1..Len(r) : v[i] = r[i]
      /\ v[Len(r) + 1] = it
  BY <1>1
<1> HIDE DEF v
<1>3. Len(u) <= StoreMax => Len(v) <= StoreMax
  BY <1>0, <1>1, <1>2
<1>4. \E j \in 1..Len(v) : v[j] = it /\ Len(v) - j = 0
  <2>1. Len(r) + 1 \in 1..Len(v) /\ Len(v) - (Len(r) + 1) = 0 BY <1>2
  <2> QED BY <1>2, <2>1
<1>5. ASSUME NEW i \in 1..Len(u), Len(u) - i < StoreMax - 1
      PROVE  \E j \in 1..Len(v) : v[j] = u[i] /\ Len(v) - j = Len(u) - i + 1
  <2> DEFINE j == i - d
  <2>1. j \in 1..Len(r) BY <1>0, <1>1, <1>5
  <2>2. r[j] = u[j + d] /\ j + d = i
    <3>1. j + d = i BY <1>0
    <3> HIDE DEF j
    <3> QED BY <1>1, <2>1, <3>1
  <2>3. j \in 1..Len(v) /\ Len(v) - j = Len(u) - i + 1 BY <1>0, <1>1, <1>2, <2>1
  <2>4. v[j] = r[j] BY <1>2, <2>1
  <2> HIDE DEF j
  <2> QED BY <2>2, <2>3, <2>4
<1>6. ASSUME NEW j \in 1..Len(v) PROVE v[j] = it \/ \E i \in 1..Len(u) : v[j] = u[i]
  <2>1. CASE j = Len(r) + 1 BY <1>2, <2>1
  <2>2. CASE j # Len(r) + 1
    <3>1. j \in 1..Len(r) BY <1>2, <2>2
    <3> QED BY <1>1, <1>2, <3>1
  <2> QED BY <2>1, <2>2
<1>7. ASSUME Single(u), \A i \in 1..Len(u) : u[i].id # it.id PROVE Single(v)
  <2>1. Single(r)
    <3> SUFFICES ASSUME NEW i \in 1..Len(r), NEW j \in 1..Len(r), i # j
                 PROVE  r[i].id # r[j].id
      BY DEF Single
    <3>1. i + d # j + d BY <1>0, <1>1
    <3>2. r[i] = u[i + d] /\ i + d \in 1..Len(u) /\ r[j] = u[j + d] /\ j + d \in 1..Len(u) BY <1>1
    <3> QED BY <1>7, <3>1, <3>2 DEF Single
  <2>2. \A i \in 1..Len(r) : r[i].id # it.id BY <1>1, <1>7
  <2> QED BY <1>1, <2>1, <2>2, AppendedSingle DEF v
<1> QED BY <1>2, <1>3, <1>4, <1>5, <1>6, <1>7 DEF v, r

\* What a push makes of a queue: the new item is the last; what has not expired
\* stays unless the store was full of newer ones.
IsPushed(S, q, it, wall, v) ==
  /\ v \in Seq(S)
  /\ Len(q) <= StoreMax => Len(v) <= StoreMax
  /\ \E j \in 1..Len(v) : v[j] = it /\ Len(v) - j = 0
  /\ \A i \in 1..Len(q) : wall < q[i].exp /\ Len(q) - i < StoreMax - 1 =>
       \E j \in 1..Len(v) : v[j] = q[i] /\ Len(v) - j <= Len(q) - i + 1
  /\ \A j \in 1..Len(v) : v[j] = it \/ \E i \in 1..Len(q) : v[j] = q[i]
  /\ Single(q) /\ (\A i \in 1..Len(q) : q[i].id # it.id) => Single(v)

\* Push does.
LEMMA PushKeeps ==
  ASSUME NEW S, NEW q \in Seq(S), NEW it \in S, NEW wall
  PROVE  IsPushed(S, q, it, wall, Push(q, it, wall))
<1> DEFINE u == Unexpired(q, wall)
           v == Push(q, it, wall)
<1>0. StoreMax \in Nat \ {0} /\ Len(q) \in Nat BY CarryAssumption
<1>1. /\ u \in Seq(S) /\ Len(u) <= Len(q)
      /\ \A i \in 1..Len(q) : wall < q[i].exp =>
           \E j \in 1..Len(u) : u[j] = q[i] /\ Len(u) - j <= Len(q) - i
      /\ \A j \in 1..Len(u) : \E i \in 1..Len(q) : u[j] = q[i]
      /\ Single(q) => Single(u)
  BY UnexpiredKeeps
<1>2. v = Append(IF Len(u) >= StoreMax THEN Tail(u) ELSE u, it) BY DEF Push
<1> HIDE DEF u, v
<1>3. Len(u) \in Nat BY <1>1
<1> DEFINE Room(w) ==
      /\ w \in Seq(S)
      /\ Len(u) <= StoreMax => Len(w) <= StoreMax
      /\ \E j \in 1..Len(w) : w[j] = it /\ Len(w) - j = 0
      /\ \A i \in 1..Len(u) : Len(u) - i < StoreMax - 1 =>
           \E j \in 1..Len(w) : w[j] = u[i] /\ Len(w) - j = Len(u) - i + 1
      /\ \A j \in 1..Len(w) : w[j] = it \/ \E i \in 1..Len(u) : w[j] = u[i]
      /\ Single(u) /\ (\A i \in 1..Len(u) : u[i].id # it.id) => Single(w)
<1>4. Room(v)
  <2>1. Room(Append(IF Len(u) >= StoreMax THEN Tail(u) ELSE u, it)) BY <1>1, MakeRoom
  <2> HIDE DEF Room
  <2> QED BY <1>2, <2>1
<1>5. Len(q) <= StoreMax => Len(v) <= StoreMax BY <1>0, <1>1, <1>3, <1>4
<1>6. ASSUME NEW i \in 1..Len(q), wall < q[i].exp, Len(q) - i < StoreMax - 1
      PROVE  \E j \in 1..Len(v) : v[j] = q[i] /\ Len(v) - j <= Len(q) - i + 1
  <2>1. PICK k \in 1..Len(u) : u[k] = q[i] /\ Len(u) - k <= Len(q) - i BY <1>1, <1>6
  <2>2. Len(u) - k < StoreMax - 1 BY <1>0, <1>3, <1>6, <2>1
  <2>3. PICK j \in 1..Len(v) : v[j] = u[k] /\ Len(v) - j = Len(u) - k + 1 BY <1>4, <2>2
  <2>4. Len(v) - j <= Len(q) - i + 1 BY <1>0, <1>3, <2>1, <2>3
  <2> QED BY <2>1, <2>3, <2>4
<1>7. \A j \in 1..Len(v) : v[j] = it \/ \E i \in 1..Len(q) : v[j] = q[i] BY <1>1, <1>4
<1>8. ASSUME Single(q), \A i \in 1..Len(q) : q[i].id # it.id PROVE Single(v)
  <2>1. \A i \in 1..Len(u) : u[i].id # it.id BY <1>1, <1>8
  <2> QED BY <1>1, <1>4, <1>8, <2>1
<1>9. IsPushed(S, q, it, wall, v) BY <1>4, <1>5, <1>6, <1>7, <1>8 DEF IsPushed
<1> QED BY <1>9 DEF v

-----------------------------------------------------------------------------
(* What was sent, and where it is *)

\* The chats that have left the hands of their sender, and what there is of them.
Departed    == {c \in DOMAIN Chats : stage[c] = "sent"}
Item(c)     == [id |-> c, exp |-> pkts[c].exp, target |-> Chats[c].to]
Items       == {Item(c) : c \in Departed}
Letters(Cs)  == [chat : Cs, from : Nodes, to : Nodes, src : Nat, hops : Nat]
Messages(Cs) == [chat : Cs, key : Keys]
Hands(n, Cs) ==
  {Idle} \cup [phase : {"fresh", "new"}, chat : Cs, from : Nodes, hops : Nat]
         \cup [phase : {"derived", "consumed", "opening"},
               chat : {c \in Cs : Addressed(n, c)}, secret : Keys]

\* Datagrams, read loops, inboxes and stores hold chats that were sent.
Spread ==
  /\ stage \in [DOMAIN Chats -> {"unsent", "mining", "sent", "lost"}]
  /\ net \subseteq Letters(Departed)
  /\ hand = [n \in Nodes |-> [s \in Sockets[n] |-> hand[n][s]]]
  /\ \A n \in Nodes : \A s \in Sockets[n] : hand[n][s] \in Hands(n, Departed)
  /\ inbox \in [Nodes -> Seq(Messages(Departed))]
  /\ store \in [Nodes -> Seq(Items)]
  /\ carried \in [Nodes -> Seq(Items)]
  /\ pushed \in [Nodes -> Seq(Items)]
  /\ file \in [Nodes -> Seq(Items) \cup {Torn}]
  /\ \A n \in Nodes : Len(store[n]) <= StoreMax /\ (file[n] # Torn => Len(file[n]) <= StoreMax)

\* Sequences over more.
LEMMA SeqGrows ==
  ASSUME NEW A, NEW B, A \subseteq B
  PROVE  Seq(A) \subseteq Seq(B)
OBVIOUS

\* What there can be of some chats there can be of more.
LEMMA SetsGrow ==
  ASSUME NEW Cs, NEW E, Cs \subseteq E
  PROVE  /\ Letters(Cs) \subseteq Letters(E) /\ Seq(Messages(Cs)) \subseteq Seq(Messages(E))
         /\ \A n \in Nodes : Hands(n, Cs) \subseteq Hands(n, E)
<1>1. Letters(Cs) \subseteq Letters(E) BY DEF Letters
<1>2. Messages(Cs) \subseteq Messages(E) BY DEF Messages
<1>3. ASSUME NEW n \in Nodes PROVE Hands(n, Cs) \subseteq Hands(n, E)
  <2>1. [phase : {"fresh", "new"}, chat : Cs, from : Nodes, hops : Nat]
          \subseteq [phase : {"fresh", "new"}, chat : E, from : Nodes, hops : Nat]
    OBVIOUS
  <2> DEFINE X(G) == {c \in G : Addressed(n, c)}
  <2>2. X(Cs) \subseteq X(E) OBVIOUS
  <2> HIDE DEF X
  <2>3. [phase : {"derived", "consumed", "opening"}, chat : X(Cs), secret : Keys]
          \subseteq [phase : {"derived", "consumed", "opening"}, chat : X(E), secret : Keys]
    BY <2>2
  <2> QED BY <2>1, <2>3 DEF Hands, X
<1> QED BY <1>1, <1>2, <1>3, SeqGrows

\* What was well spread stays so when more chats depart.
LEMMA SpreadGrows ==
  ASSUME stage' \in [DOMAIN Chats -> {"unsent", "mining", "sent", "lost"}],
         Departed \subseteq Departed', \A c \in Departed : pkts'[c] = pkts[c],
         net' \subseteq Letters(Departed) \/ net' \subseteq Letters(Departed'),
         hand' = [n \in Nodes |-> [s \in Sockets[n] |-> hand'[n][s]]],
         \A n \in Nodes : \A s \in Sockets[n] : hand'[n][s] \in Hands(n, Departed),
         inbox' \in [Nodes -> Seq(Messages(Departed))],
         store' \in [Nodes -> Seq(Items)] \/ store' \in [Nodes -> Seq(Items')],
         carried' \in [Nodes -> Seq(Items)],
         pushed' \in [Nodes -> Seq(Items)] \/ pushed' \in [Nodes -> Seq(Items')],
         file' \in [Nodes -> Seq(Items) \cup {Torn}] \/ file' \in [Nodes -> Seq(Items') \cup {Torn}],
         \A n \in Nodes : Len(store'[n]) <= StoreMax /\ (file'[n] # Torn => Len(file'[n]) <= StoreMax)
  PROVE  Spread'
<1>1. Items \subseteq Items'
  <2>1. \A c \in Departed : Item(c)' = Item(c) BY DEF Item
  <2> QED BY <2>1 DEF Items
<1>2. Seq(Items) \subseteq Seq(Items') BY <1>1, SeqGrows
<1>3. /\ Letters(Departed) \subseteq Letters(Departed')
      /\ Seq(Messages(Departed)) \subseteq Seq(Messages(Departed'))
      /\ \A n \in Nodes : Hands(n, Departed) \subseteq Hands(n, Departed')
  BY SetsGrow
<1>4. net' \subseteq Letters(Departed') BY <1>3
<1>5. \A n \in Nodes : \A s \in Sockets[n] : hand'[n][s] \in Hands(n, Departed') BY <1>3
<1>6. inbox' \in [Nodes -> Seq(Messages(Departed'))]
  <2> DEFINE A == Seq(Messages(Departed))
             B == Seq(Messages(Departed'))
  <2>1. A \subseteq B /\ inbox' \in [Nodes -> A] BY <1>3
  <2> HIDE DEF A, B
  <2>2. inbox' \in [Nodes -> B] BY <2>1
  <2> QED BY <2>2 DEF B
<1>7. /\ store' \in [Nodes -> Seq(Items')] /\ carried' \in [Nodes -> Seq(Items')]
      /\ pushed' \in [Nodes -> Seq(Items')] /\ file' \in [Nodes -> Seq(Items') \cup {Torn}]
  <2> DEFINE A == Seq(Items)
             B == Seq(Items')
  <2>1. A \subseteq B BY <1>2
  <2> HIDE DEF A, B
  <2>2. \A f : f \in [Nodes -> A] => f \in [Nodes -> B] BY <2>1
  <2>3. \A f : f \in [Nodes -> A \cup {Torn}] => f \in [Nodes -> B \cup {Torn}] BY <2>1
  <2> QED BY <2>2, <2>3 DEF A, B
<1> QED BY <1>4, <1>5, <1>6, <1>7 DEF Spread, Hands, Addressed

\* A step that sends nothing changes no set, only who holds what.
LEMMA SameDeparted ==
  ASSUME Spread, UNCHANGED <<stage, pkts>>
  PROVE  /\ stage' \in [DOMAIN Chats -> {"unsent", "mining", "sent", "lost"}]
         /\ Departed' = Departed /\ \A c \in Departed : pkts'[c] = pkts[c]
BY DEF Spread, Departed

\* What a node sends of a chat.
LEMMA SentTyped ==
  ASSUME MeshTypeOK, NEW Cs, NEW c \in Cs, NEW n \in Nodes, NEW targets, NEW hops \in Nat
  PROVE  Sent(c, n, targets, hops) \subseteq Letters(Cs)
<1>1. \A m \in Nodes : Datagram(c, n, m, hops) \in Letters(Cs)
  BY AddrTyped DEF Datagram, Letters
<1> QED BY <1>1 DEF Sent, Links

\* A step that touches none of it.
LEMMA SpreadKept ==
  ASSUME Spread, UNCHANGED <<stage, pkts, net, hand, inbox, store, carried, pushed, file>>
  PROVE  Spread'
<1>1. /\ stage' \in [DOMAIN Chats -> {"unsent", "mining", "sent", "lost"}]
      /\ Departed' = Departed /\ \A c \in Departed : pkts'[c] = pkts[c]
  BY SameDeparted
<1>2. /\ net' \subseteq Letters(Departed)
      /\ hand' = [n \in Nodes |-> [s \in Sockets[n] |-> hand'[n][s]]]
      /\ \A n \in Nodes : \A s \in Sockets[n] : hand'[n][s] \in Hands(n, Departed)
      /\ inbox' \in [Nodes -> Seq(Messages(Departed))]
      /\ store' \in [Nodes -> Seq(Items)] /\ carried' \in [Nodes -> Seq(Items)]
      /\ pushed' \in [Nodes -> Seq(Items)] /\ file' \in [Nodes -> Seq(Items) \cup {Torn}]
      /\ \A n \in Nodes : Len(store'[n]) <= StoreMax /\ (file'[n] # Torn => Len(file'[n]) <= StoreMax)
  BY DEF Spread
<1> QED BY <1>1, <1>2, SpreadGrows

\* A step of one read loop, which may send and fill the inbox.
LEMMA LoopSpread ==
  ASSUME Spread, UNCHANGED <<stage, pkts, store, carried, pushed, file>>,
         NEW n \in Nodes, NEW s \in Sockets[n], NEW h \in Hands(n, Departed),
         hand' = [hand EXCEPT ![n][s] = h],
         net' \subseteq Letters(Departed),
         NEW q \in Seq(Messages(Departed)), inbox' = [inbox EXCEPT ![n] = q]
  PROVE  Spread'
<1>1. /\ stage' \in [DOMAIN Chats -> {"unsent", "mining", "sent", "lost"}]
      /\ Departed' = Departed /\ \A c \in Departed : pkts'[c] = pkts[c]
  BY SameDeparted
<1>2. \A m \in Nodes : \A t \in Sockets[m] :
        hand'[m][t] = IF m = n /\ t = s THEN h ELSE hand[m][t]
  BY DEF Spread
<1>3. hand' = [m \in Nodes |-> [t \in Sockets[m] |-> hand'[m][t]]]
  BY DEF Spread
<1>4. \A m \in Nodes : \A t \in Sockets[m] : hand'[m][t] \in Hands(m, Departed)
  <2>1. \A m \in Nodes : \A t \in Sockets[m] : hand[m][t] \in Hands(m, Departed) BY DEF Spread
  <2> SUFFICES ASSUME NEW m \in Nodes, NEW t \in Sockets[m]
               PROVE  hand'[m][t] \in Hands(m, Departed)
    OBVIOUS
  <2>2. CASE m = n /\ t = s BY <1>2, <2>2
  <2>3. CASE ~(m = n /\ t = s)
    <3>1. hand'[m][t] = hand[m][t] BY <1>2, <2>3
    <3> QED BY <2>1, <3>1
  <2> QED BY <2>2, <2>3
<1>5. inbox' \in [Nodes -> Seq(Messages(Departed))]
  <2> DEFINE A == Seq(Messages(Departed))
  <2>1. inbox \in [Nodes -> A] /\ q \in A BY DEF Spread
  <2> HIDE DEF A
  <2>2. inbox' \in [Nodes -> A] BY <2>1
  <2> QED BY <2>2 DEF A
<1>6. /\ store' \in [Nodes -> Seq(Items)] /\ carried' \in [Nodes -> Seq(Items)]
      /\ pushed' \in [Nodes -> Seq(Items)] /\ file' \in [Nodes -> Seq(Items) \cup {Torn}]
      /\ \A m \in Nodes : Len(store'[m]) <= StoreMax /\ (file'[m] # Torn => Len(file'[m]) <= StoreMax)
  BY DEF Spread
<1> QED BY <1>1, <1>3, <1>4, <1>5, <1>6, SpreadGrows

\* A read loop at rest.
LEMMA IdleIsHand == \A n, Cs : Idle \in Hands(n, Cs)
BY DEF Hands

\* What a read loop holds, by its phase.
LEMMA HandIs ==
  ASSUME Spread, NEW n \in Nodes, NEW s \in Sockets[n]
  PROVE  LET h == hand[n][s]
         IN  /\ h.phase \in {"fresh", "new"} =>
                  /\ h = [phase |-> h.phase, chat |-> h.chat, from |-> h.from, hops |-> h.hops]
                  /\ h.chat \in Departed /\ h.from \in Nodes /\ h.hops \in Nat /\ h # Idle
             /\ h.phase \in {"derived", "consumed", "opening"} =>
                  /\ h = [phase |-> h.phase, chat |-> h.chat, secret |-> h.secret]
                  /\ h.chat \in Departed /\ Addressed(n, h.chat) /\ h.secret \in Keys /\ h # Idle
             /\ h # Idle => /\ h.phase \in {"fresh", "new", "derived", "consumed", "opening"}
                            /\ h.chat \in Departed
<1> DEFINE h == hand[n][s]
<1>1. h \in Hands(n, Departed) BY DEF Spread
<1> HIDE DEF h
<1>2. \/ h = Idle
      \/ h \in [phase : {"fresh", "new"}, chat : Departed, from : Nodes, hops : Nat]
      \/ h \in [phase : {"derived", "consumed", "opening"},
                chat : {c \in Departed : Addressed(n, c)}, secret : Keys]
  BY <1>1 DEF Hands
<1>3. CASE h = Idle BY <1>3 DEF Idle, h
<1>4. CASE h \in [phase : {"fresh", "new"}, chat : Departed, from : Nodes, hops : Nat]
  <2>1. h.phase \in {"fresh", "new"} /\ h.chat \in Departed /\ h.from \in Nodes /\ h.hops \in Nat
        /\ h = [phase |-> h.phase, chat |-> h.chat, from |-> h.from, hops |-> h.hops]
    BY <1>4
  <2>2. h.phase # "idle" BY <2>1
  <2>3. h # Idle BY <2>2 DEF Idle
  <2> QED BY <2>1, <2>3 DEF h
<1>5. CASE h \in [phase : {"derived", "consumed", "opening"},
                  chat : {c \in Departed : Addressed(n, c)}, secret : Keys]
  <2>1. h.phase \in {"derived", "consumed", "opening"} /\ h.chat \in Departed
        /\ Addressed(n, h.chat) /\ h.secret \in Keys
        /\ h = [phase |-> h.phase, chat |-> h.chat, secret |-> h.secret]
    BY <1>5
  <2>2. h.phase # "idle" BY <2>1
  <2>3. h # Idle BY <2>2 DEF Idle
  <2> QED BY <2>1, <2>3 DEF h
<1> QED BY <1>2, <1>3, <1>4, <1>5

\* A loop that leaves the inbox alone.
LEMMA SameInbox ==
  ASSUME Spread, UNCHANGED inbox, NEW n \in Nodes
  PROVE  inbox[n] \in Seq(Messages(Departed)) /\ inbox' = [inbox EXCEPT ![n] = inbox[n]]
BY DEF Spread

\* Spread, in each step of a read loop, ...
LEMMA ReadSpread ==
  ASSUME MeshTypeOK, Spread, NEW n \in Nodes, NEW s \in Sockets[n], Read(n, s)
  PROVE  Spread'
<1>1. CASE UNCHANGED hand BY <1>1, SpreadKept DEF Read
<1>2. CASE ~UNCHANGED hand
  <2>1. PICK d \in net : hand' = [hand EXCEPT ![n][s] =
          [phase |-> "fresh", chat |-> d.chat, from |-> d.from, hops |-> d.hops + 1]]
    BY <1>2 DEF Read
  <2> DEFINE h == [phase |-> "fresh", chat |-> d.chat, from |-> d.from, hops |-> d.hops + 1]
  <2>2. d.chat \in Departed /\ d.from \in Nodes /\ d.hops + 1 \in Nat BY DEF Spread, Letters
  <2>3. h \in Hands(n, Departed) BY <2>2 DEF Hands
  <2>4. hand' = [hand EXCEPT ![n][s] = h] BY <2>1
  <2> HIDE DEF h
  <2>5. net' \subseteq Letters(Departed) BY DEF Read, Spread
  <2> QED BY <2>3, <2>4, <2>5, SameInbox, LoopSpread DEF Read
<1> QED BY <1>1, <1>2

LEMMA LookSpread ==
  ASSUME MeshTypeOK, Spread, NEW n \in Nodes, NEW s \in Sockets[n], Look(n, s)
  PROVE  Spread'
<1> DEFINE h == IF Seen(ring[n], hand[n][s].chat) THEN Idle
                ELSE [hand[n][s] EXCEPT !.phase = "new"]
<1>1. h \in Hands(n, Departed)
  <2> DEFINE g == hand[n][s]
  <2>1. g.phase = "fresh" BY DEF Look, InPhase
  <2>2. g = [phase |-> g.phase, chat |-> g.chat, from |-> g.from, hops |-> g.hops]
        /\ g.chat \in Departed /\ g.from \in Nodes /\ g.hops \in Nat
    BY <2>1, HandIs
  <2>3. h = Idle \/ h = [g EXCEPT !.phase = "new"] OBVIOUS
  <2> HIDE DEF g, h
  <2>4. [g EXCEPT !.phase = "new"] \in Hands(n, Departed)
    <3>1. [g EXCEPT !.phase = "new"] = [phase |-> "new", chat |-> g.chat, from |-> g.from, hops |-> g.hops]
      BY <2>2
    <3> QED BY <2>2, <3>1 DEF Hands
  <2> QED BY <2>3, <2>4, IdleIsHand
<1>2. hand' = [hand EXCEPT ![n][s] = h] BY DEF Look
<1> HIDE DEF h
<1>3. net' \subseteq Letters(Departed) BY DEF Look, Spread
<1> QED BY <1>1, <1>2, <1>3, SameInbox, LoopSpread DEF Look

LEMMA HandleSpread ==
  ASSUME MeshTypeOK, Stamped, Spread, NEW n \in Nodes, NEW s \in Sockets[n], Handle(n, s)
  PROVE  Spread'
<1> DEFINE g == hand[n][s]
           c == g.chat
           d == [phase |-> "derived", chat |-> c, secret |-> ResponderSecret(bundle[n])]
           more == Append(inbox[n], Message(c, StaticKey))
<1>1. g.phase = "new" BY DEF Handle
<1>2. c \in Departed /\ g.from \in Nodes /\ g.hops \in Nat BY <1>1, HandIs
<1>3. net' \subseteq Letters(Departed)
  <2>1. Sent(c, n, Nodes \ {g.from}, g.hops) \subseteq Letters(Departed)
    BY <1>2, SentTyped
  <2>2. net' = net \/ net' = net \cup Sent(c, n, Nodes \ {g.from}, g.hops) BY DEF Handle
  <2> QED BY <2>1, <2>2 DEF Spread
<1>4. PICK q \in {inbox[n], more} : inbox' = [inbox EXCEPT ![n] = q]
  <2>1. inbox' = inbox \/ inbox' = [inbox EXCEPT ![n] = more] BY DEF Handle
  <2>2. inbox = [inbox EXCEPT ![n] = inbox[n]] BY DEF Spread
  <2> QED BY <2>1, <2>2
<1>5. inbox[n] \in Seq(Messages(Departed)) BY DEF Spread
<1>6. more \in Seq(Messages(Departed))
  <2>1. Message(c, StaticKey) \in Messages(Departed) BY <1>2, BundleTyped DEF Message, Messages
  <2> QED BY <1>5, <2>1
<1>7. \E h \in Hands(n, Departed) : hand' = [hand EXCEPT ![n][s] = h]
  <2> DEFINE ours == /\ Chats[c].from \notin blocked[n] /\ TicketHolds(n, c) /\ Addressed(n, c)
                     /\ ~(pkts[c].key = StaticKey)
  <2>1. hand' = [hand EXCEPT ![n][s] = IF ours THEN d ELSE Idle] BY DEF Handle
  <2>2. ours => Addressed(n, c) OBVIOUS
  <2>3. ResponderSecret(bundle[n]) \in Keys BY BundleTyped DEF Stamped
  <2>4. Addressed(n, c) => d \in Hands(n, Departed) BY <1>2, <2>3 DEF Hands
  <2> HIDE DEF ours, d
  <2> QED BY <2>1, <2>2, <2>4, IdleIsHand
<1>8. UNCHANGED <<stage, pkts, store, carried, pushed, file>> BY DEF Handle
<1> HIDE DEF more, c, g
<1> QED BY <1>3, <1>4, <1>5, <1>6, <1>7, <1>8, LoopSpread

LEMMA ConsumeSpread ==
  ASSUME MeshTypeOK, Spread, NEW n \in Nodes, NEW s \in Sockets[n], Consume(n, s)
  PROVE  Spread'
<1> DEFINE g == hand[n][s]
           p == IF bundle[n].has THEN "consumed" ELSE "opening"
           h == [g EXCEPT !.phase = p]
<1>1. g.phase = "derived" /\ hand' = [hand EXCEPT ![n][s] = h] BY DEF Consume
<1>2. g = [phase |-> g.phase, chat |-> g.chat, secret |-> g.secret]
      /\ g.chat \in Departed /\ Addressed(n, g.chat) /\ g.secret \in Keys
  BY <1>1, HandIs
<1>3. p \in {"derived", "consumed", "opening"} OBVIOUS
<1> HIDE DEF p, g
<1>4. h = [phase |-> p, chat |-> g.chat, secret |-> g.secret] BY <1>2
<1> HIDE DEF h
<1>5. h \in Hands(n, Departed) BY <1>2, <1>3, <1>4 DEF Hands
<1>6. net' \subseteq Letters(Departed) BY DEF Consume, Spread
<1>7. UNCHANGED <<stage, pkts, store, carried, pushed, file, inbox>> BY DEF Consume
<1> QED BY <1>1, <1>5, <1>6, <1>7, SameInbox, LoopSpread

LEMMA OpenSpread ==
  ASSUME MeshTypeOK, Spread, NEW n \in Nodes, NEW s \in Sockets[n], Open(n, s)
  PROVE  Spread'
<1> DEFINE g == hand[n][s]
           more == Append(inbox[n], Message(g.chat, g.secret))
<1>1. g.phase \in {"derived", "consumed", "opening"} BY DEF Open
<1>2. g.chat \in Departed /\ g.secret \in Keys BY <1>1, HandIs
<1>3. inbox[n] \in Seq(Messages(Departed)) BY DEF Spread
<1>4. more \in Seq(Messages(Departed))
  <2>1. Message(g.chat, g.secret) \in Messages(Departed) BY <1>2 DEF Message, Messages
  <2> QED BY <1>3, <2>1
<1>5. PICK q \in {inbox[n], more} : inbox' = [inbox EXCEPT ![n] = q]
  <2>1. inbox' = inbox \/ inbox' = [inbox EXCEPT ![n] = more] BY DEF Open
  <2>2. inbox = [inbox EXCEPT ![n] = inbox[n]] BY DEF Spread
  <2> QED BY <2>1, <2>2
<1>6. hand' = [hand EXCEPT ![n][s] = Idle] BY DEF Open
<1>7. net' \subseteq Letters(Departed) BY DEF Open, Spread
<1>8. UNCHANGED <<stage, pkts, store, carried, pushed, file>> BY DEF Open
<1> HIDE DEF more
<1> QED BY <1>3, <1>4, <1>5, <1>6, <1>7, <1>8, IdleIsHand, LoopSpread

\* ... at the start, ...
LEMMA SpreadInit == Init => Spread
<1> SUFFICES ASSUME Init PROVE Spread OBVIOUS
<1>1. \A S : <<>> \in Seq(S) OBVIOUS
<1>2. \A n \in Nodes : store[n] = <<>> /\ file[n] = <<>> BY DEF Init
<1>3. \A n \in Nodes : Len(store[n]) <= StoreMax /\ (file[n] # Torn => Len(file[n]) <= StoreMax)
  <2>1. Len(<<>>) = 0 /\ 0 <= StoreMax BY CarryAssumption
  <2> QED BY <1>2, <2>1
<1>4. inbox \in [Nodes -> Seq(Messages(Departed))]
  <2> DEFINE A == Seq(Messages(Departed))
  <2>1. <<>> \in A BY <1>1
  <2> HIDE DEF A
  <2>2. inbox \in [Nodes -> A] BY <2>1 DEF Init
  <2> QED BY <2>2 DEF A
<1>5. /\ store \in [Nodes -> Seq(Items)] /\ carried \in [Nodes -> Seq(Items)]
      /\ pushed \in [Nodes -> Seq(Items)] /\ file \in [Nodes -> Seq(Items) \cup {Torn}]
  <2> DEFINE A == Seq(Items)
  <2>1. <<>> \in A BY <1>1
  <2> HIDE DEF A
  <2>2. /\ store \in [Nodes -> A] /\ carried \in [Nodes -> A]
        /\ pushed \in [Nodes -> A] /\ file \in [Nodes -> A \cup {Torn}]
    BY <2>1 DEF Init
  <2> QED BY <2>2 DEF A
<1>6. \A n \in Nodes : \A s \in Sockets[n] : hand[n][s] \in Hands(n, Departed)
  BY IdleIsHand DEF Init
<1>7. hand = [n \in Nodes |-> [s \in Sockets[n] |-> hand[n][s]]] BY DEF Init
<1>8. stage \in [DOMAIN Chats -> {"unsent", "mining", "sent", "lost"}] BY DEF Init
<1>9. net \subseteq Letters(Departed) BY DEF Init
<1> QED BY <1>3, <1>4, <1>5, <1>6, <1>7, <1>8, <1>9 DEF Spread

\* Parts of Spread that a step leaves alone.
LEMMA Still ==
  ASSUME Spread
  PROVE  /\ UNCHANGED net => net' \subseteq Letters(Departed)
         /\ UNCHANGED hand =>
              /\ hand' = [n \in Nodes |-> [s \in Sockets[n] |-> hand'[n][s]]]
              /\ \A n \in Nodes : \A s \in Sockets[n] : hand'[n][s] \in Hands(n, Departed)
         /\ UNCHANGED inbox => inbox' \in [Nodes -> Seq(Messages(Departed))]
         /\ UNCHANGED carried => carried' \in [Nodes -> Seq(Items)]
         /\ UNCHANGED pushed => pushed' \in [Nodes -> Seq(Items)]
         /\ UNCHANGED store => store' \in [Nodes -> Seq(Items)]
         /\ UNCHANGED file => file' \in [Nodes -> Seq(Items) \cup {Torn}]
         /\ UNCHANGED <<store, file>> =>
              \A n \in Nodes : Len(store'[n]) <= StoreMax /\ (file'[n] # Torn => Len(file'[n]) <= StoreMax)
BY DEF Spread

\* ... and in each other step that can disturb it.
LEMMA SendSpread ==
  ASSUME MeshTypeOK, Stamped, Spread, NEW c \in DOMAIN Chats, NEW t \in BOOLEAN, NEW heard,
         Send(c, t, heard)
  PROVE  Spread'
<1>1. UNCHANGED <<net, hand, inbox, store, carried, pushed, file>> BY DEF Send
<1>2. stage[c] = "unsent" BY DEF Send
<1>3. stage' = stage \/ stage' = [stage EXCEPT ![c] = "mining"] BY DEF Send
<1>4. pkts' = pkts \/ \E p : pkts' = [pkts EXCEPT ![c] = p] BY DEF Send
<1>5. stage' \in [DOMAIN Chats -> {"unsent", "mining", "sent", "lost"}]
  BY <1>3 DEF Spread
<1>6. Departed' = Departed
  BY <1>2, <1>3 DEF Spread, Departed
<1>7. \A d \in Departed : d # c /\ d \in DOMAIN Chats BY <1>2 DEF Departed
<1>8. \A d \in Departed : pkts'[d] = pkts[d]
  BY <1>4, <1>7 DEF Stamped
<1> QED BY <1>1, <1>5, <1>6, <1>8, Still, SpreadGrows

LEMMA FinishSpread ==
  ASSUME MeshTypeOK, Stamped, Spread, NEW c \in DOMAIN Chats, Finish(c)
  PROVE  Spread'
<1> DEFINE n == Chats[c].from
           it == [id |-> c, exp |-> pkts[c].exp, target |-> Chats[c].to]
<1>1. n \in Nodes BY NodeAssumption
<1>2. stage' = [stage EXCEPT ![c] = "sent"] /\ UNCHANGED <<pkts, hand, inbox, carried>> BY DEF Finish
<1>3. stage' \in [DOMAIN Chats -> {"unsent", "mining", "sent", "lost"}] BY <1>2 DEF Spread
<1>4. Departed \subseteq Departed' /\ c \in Departed'
  BY <1>2 DEF Spread, Departed
<1>5. Item(c)' = it BY <1>2 DEF Item
<1>6. it \in Items' BY <1>4, <1>5 DEF Items
<1>7. \A d \in Departed : pkts'[d] = pkts[d] BY <1>2
<1>8. Items \subseteq Items'
  <2>1. \A d : Item(d)' = Item(d) BY <1>2 DEF Item
  <2> QED BY <1>4, <2>1 DEF Items
<1>9. Seq(Items) \subseteq Seq(Items') BY <1>8, SeqGrows
<1>10. CASE Links(n) = {}
  <2> DEFINE v == Push(store[n], it, Wall(n))
             A == Seq(Items')
  <2>1. /\ store' = [store EXCEPT ![n] = v]
        /\ file' = Saved(n, store'[n])
        /\ pushed' = [pushed EXCEPT ![n] = Append(@, it)]
        /\ UNCHANGED net
    BY <1>10 DEF Finish
  <2>2. store[n] \in A /\ pushed[n] \in A /\ Len(store[n]) <= StoreMax BY <1>1, <1>9 DEF Spread
  <2>3. v \in A /\ Len(v) <= StoreMax
    <3> HIDE DEF it
    <3>1. IsPushed(Items', store[n], it, Wall(n), v) BY <1>6, <2>2, PushKeeps
    <3> HIDE DEF v
    <3> QED BY <2>2, <3>1 DEF IsPushed
  <2>4. Append(pushed[n], it) \in A BY <1>6, <2>2
  <2>5. /\ store \in [Nodes -> A] /\ pushed \in [Nodes -> A] /\ file \in [Nodes -> A \cup {Torn}]
    <3> DEFINE B == Seq(Items)
    <3>1. /\ store \in [Nodes -> B] /\ pushed \in [Nodes -> B] /\ file \in [Nodes -> B \cup {Torn}]
          /\ B \subseteq A
      BY <1>9 DEF Spread
    <3> HIDE DEF A, B
    <3> QED BY <3>1
  <2> HIDE DEF v, it, n, A
  <2>6. store'[n] = v BY <1>1, <2>1, <2>5
  <2>7. file' = file \/ file' = [file EXCEPT ![n] = v] BY <2>1, <2>6 DEF Saved
  <2>8. store' \in [Nodes -> A] /\ pushed' \in [Nodes -> A] /\ file' \in [Nodes -> A \cup {Torn}]
    BY <1>1, <2>1, <2>3, <2>4, <2>5, <2>7
  <2>9. \A m \in Nodes : store'[m] = IF m = n THEN v ELSE store[m]
    BY <1>1, <2>1, <2>5
  <2>10. \A m \in Nodes : file'[m] = file[m] \/ (m = n /\ file'[m] = v)
    BY <1>1, <2>5, <2>7
  <2>11. \A m \in Nodes : Len(store'[m]) <= StoreMax /\ (file'[m] # Torn => Len(file'[m]) <= StoreMax)
    BY <2>3, <2>9, <2>10 DEF Spread
  <2>12. store' \in [Nodes -> Seq(Items')] /\ pushed' \in [Nodes -> Seq(Items')]
         /\ file' \in [Nodes -> Seq(Items') \cup {Torn}]
    BY <2>8 DEF A
  <2> QED BY <1>2, <1>3, <1>4, <1>7, <2>1, <2>11, <2>12, Still, SpreadGrows
<1>11. CASE Links(n) # {}
  <2>1. net' = net \cup Sent(c, n, Nodes, 0) /\ UNCHANGED <<store, file, pushed>>
    BY <1>11 DEF Finish
  <2>2. Sent(c, n, Nodes, 0) \subseteq Letters(Departed') BY <1>1, <1>4, SentTyped
  <2>3. net \subseteq Letters(Departed') BY <1>4, SetsGrow DEF Spread
  <2>4. net' \subseteq Letters(Departed') BY <2>1, <2>2, <2>3
  <2> QED BY <1>2, <1>3, <1>4, <1>7, <2>1, <2>4, Still, SpreadGrows
<1> QED BY <1>10, <1>11

LEMMA PopSpread ==
  ASSUME MeshTypeOK, Spread, NEW n \in Nodes, PopReady(n)
  PROVE  Spread'
<1> DEFINE A == Seq(Items)
           u == Unexpired(store[n], Wall(n))
<1>1. UNCHANGED <<stage, pkts, net, hand, inbox>> BY DEF PopReady
<1>2. /\ carried' = [carried EXCEPT ![n] = u]
      /\ store' = [store EXCEPT ![n] = <<>>]
      /\ file' = Saved(n, <<>>)
      /\ pushed' = [pushed EXCEPT ![n] = <<>>]
  BY DEF PopReady
<1>3. /\ store \in [Nodes -> A] /\ carried \in [Nodes -> A]
      /\ pushed \in [Nodes -> A] /\ file \in [Nodes -> A \cup {Torn}]
  BY DEF Spread
<1>4. u \in A BY <1>3, UnexpiredKeeps
<1>5. <<>> \in A /\ Len(<<>>) <= StoreMax BY CarryAssumption
<1>6. file' = file \/ file' = [file EXCEPT ![n] = <<>>] BY <1>2 DEF Saved
<1> HIDE DEF A, u
<1>7. /\ store' \in [Nodes -> A] /\ carried' \in [Nodes -> A]
      /\ pushed' \in [Nodes -> A] /\ file' \in [Nodes -> A \cup {Torn}]
  BY <1>2, <1>3, <1>4, <1>5, <1>6
<1>8. \A m \in Nodes : store'[m] = store[m] \/ store'[m] = <<>> BY <1>2, <1>3
<1>9. \A m \in Nodes : file'[m] = file[m] \/ file'[m] = <<>> BY <1>3, <1>6
<1>10. \A m \in Nodes : Len(store'[m]) <= StoreMax /\ (file'[m] # Torn => Len(file'[m]) <= StoreMax)
  BY <1>5, <1>8, <1>9 DEF Spread
<1>11. /\ store' \in [Nodes -> Seq(Items)] /\ carried' \in [Nodes -> Seq(Items)]
       /\ pushed' \in [Nodes -> Seq(Items)] /\ file' \in [Nodes -> Seq(Items) \cup {Torn}]
  BY <1>7 DEF A
<1> QED BY <1>1, <1>10, <1>11, SameDeparted, Still, SpreadGrows

LEMMA CarrySpread ==
  ASSUME MeshTypeOK, Spread, NEW n \in Nodes, SendCarried(n)
  PROVE  Spread'
<1> DEFINE A == Seq(Items)
           it == Head(carried[n])
<1>1. UNCHANGED <<stage, pkts, hand, inbox, store, file, pushed>> BY DEF SendCarried
<1>2. carried[n] \in A /\ carried[n] # <<>> /\ carried' = [carried EXCEPT ![n] = Tail(carried[n])]
      /\ carried \in [Nodes -> A]
  BY DEF Spread, SendCarried
<1>3. it \in Items /\ Tail(carried[n]) \in A BY <1>2
<1>4. it.id \in Departed BY <1>3 DEF Items, Item
<1>5. PICK T : net' = net \cup Sent(it.id, n, T, 0) BY DEF SendCarried
<1> HIDE DEF A, it
<1>6. carried' \in [Nodes -> A] BY <1>2, <1>3
<1>7. Sent(it.id, n, T, 0) \subseteq Letters(Departed) BY <1>4, SentTyped
<1>8. net' \subseteq Letters(Departed) BY <1>5, <1>7 DEF Spread
<1>9. carried' \in [Nodes -> Seq(Items)] BY <1>6 DEF A
<1> QED BY <1>1, <1>8, <1>9, SameDeparted, Still, SpreadGrows

LEMMA CrashSpread ==
  ASSUME MeshTypeOK, Spread, NEW n \in Nodes, Crash(n)
  PROVE  Spread'
<1> DEFINE A == Seq(Items)
           B == Seq(Messages(Departed))
<1>1. /\ file' \in {file} \cup IF Writing(n) THEN {[file EXCEPT ![n] = Torn]} ELSE {}
      /\ hand' = [hand EXCEPT ![n] = [s \in Sockets[n] |-> Idle]]
      /\ inbox' = [inbox EXCEPT ![n] = <<>>]
      /\ store' = [store EXCEPT ![n] = <<>>]
      /\ carried' = [carried EXCEPT ![n] = <<>>]
      /\ stage' = [c \in DOMAIN Chats |->
                     IF Chats[c].from = n /\ stage[c] = "mining" THEN "lost" ELSE stage[c]]
      /\ net' = IF FixedPort THEN net ELSE {d \in net : d.to # n}
      /\ UNCHANGED <<pkts, pushed>>
  BY DEF Crash
<1>2. stage' \in [DOMAIN Chats -> {"unsent", "mining", "sent", "lost"}]
  BY <1>1 DEF Spread
<1>3. Departed' = Departed BY <1>1 DEF Departed
<1>4. net' \subseteq Letters(Departed) BY <1>1 DEF Spread
<1>5. hand' = [m \in Nodes |-> [s \in Sockets[m] |-> hand'[m][s]]] BY <1>1 DEF Spread
<1>6. \A m \in Nodes : \A s \in Sockets[m] : hand'[m][s] = Idle \/ hand'[m][s] = hand[m][s]
  BY <1>1 DEF Spread
<1>7. \A m \in Nodes : \A s \in Sockets[m] : hand'[m][s] \in Hands(m, Departed)
  <2> SUFFICES ASSUME NEW m \in Nodes, NEW s \in Sockets[m] PROVE hand'[m][s] \in Hands(m, Departed)
    OBVIOUS
  <2>1. hand[m][s] \in Hands(m, Departed) BY DEF Spread
  <2>2. Idle \in Hands(m, Departed) BY IdleIsHand
  <2> QED BY <1>6, <2>1, <2>2
<1>8. file' = file \/ file' = [file EXCEPT ![n] = Torn] BY <1>1
<1>9. /\ store \in [Nodes -> A] /\ carried \in [Nodes -> A] /\ inbox \in [Nodes -> B]
      /\ file \in [Nodes -> A \cup {Torn}]
  <2>1. store \in [Nodes -> A] /\ carried \in [Nodes -> A] BY DEF Spread
  <2>2. inbox \in [Nodes -> B] BY DEF Spread
  <2>3. file \in [Nodes -> A \cup {Torn}] BY DEF Spread
  <2> HIDE DEF A, B
  <2> QED BY <2>1, <2>2, <2>3
<1>10. <<>> \in A /\ <<>> \in B /\ Len(<<>>) <= StoreMax BY CarryAssumption
<1> HIDE DEF A, B
<1>11. /\ store' \in [Nodes -> A] /\ carried' \in [Nodes -> A] /\ inbox' \in [Nodes -> B]
       /\ file' \in [Nodes -> A \cup {Torn}]
  BY <1>1, <1>8, <1>9, <1>10
<1>12. \A m \in Nodes : store'[m] = store[m] \/ store'[m] = <<>> BY <1>1, <1>9
<1>13. \A m \in Nodes : file'[m] = file[m] \/ file'[m] = Torn BY <1>8, <1>9
<1>14. \A m \in Nodes : Len(store'[m]) <= StoreMax /\ (file'[m] # Torn => Len(file'[m]) <= StoreMax)
  BY <1>10, <1>12, <1>13 DEF Spread
<1>15. /\ store' \in [Nodes -> Seq(Items)] /\ carried' \in [Nodes -> Seq(Items)]
       /\ inbox' \in [Nodes -> Seq(Messages(Departed))]
       /\ file' \in [Nodes -> Seq(Items) \cup {Torn}]
  BY <1>11 DEF A, B
<1>16. pushed' \in [Nodes -> Seq(Items)] BY <1>1 DEF Spread
<1> QED BY <1>1, <1>2, <1>3, <1>4, <1>5, <1>7, <1>14, <1>15, <1>16, SpreadGrows

LEMMA RestartSpread ==
  ASSUME MeshTypeOK, Spread, NEW n \in Nodes, Restart(n)
  PROVE  Spread'
<1> DEFINE A == Seq(Items)
           u == Opened(file[n], Wall(n))
<1>1. UNCHANGED <<stage, pkts, net, hand, inbox, file, carried, pushed>>
      /\ store' = [store EXCEPT ![n] = u]
  BY DEF Restart
<1>2. store \in [Nodes -> A] /\ file \in [Nodes -> A \cup {Torn}] BY DEF Spread
<1>3. u \in A /\ Len(u) <= StoreMax
  <2>1. CASE file[n] = Torn
    <3>1. u = <<>> BY <2>1 DEF Opened
    <3> QED BY <3>1, CarryAssumption
  <2>2. CASE file[n] # Torn
    <3>1. file[n] \in A /\ Len(file[n]) <= StoreMax BY <1>2, <2>2 DEF Spread
    <3>2. u = Unexpired(file[n], Wall(n)) BY <2>2 DEF Opened
    <3>3. /\ Unexpired(file[n], Wall(n)) \in A
          /\ Len(Unexpired(file[n], Wall(n))) <= Len(file[n])
      BY <3>1, UnexpiredKeeps
    <3>4. Len(file[n]) \in Int /\ Len(u) \in Int /\ StoreMax \in Int
      BY <3>1, <3>2, <3>3, CarryAssumption
    <3> QED BY <3>1, <3>2, <3>3, <3>4
  <2> QED BY <2>1, <2>2
<1> HIDE DEF A, u
<1>4. store' \in [Nodes -> A] /\ \A m \in Nodes : store'[m] = IF m = n THEN u ELSE store[m]
  BY <1>1, <1>2, <1>3
<1>5. \A m \in Nodes : Len(store'[m]) <= StoreMax /\ (file'[m] # Torn => Len(file'[m]) <= StoreMax)
  BY <1>1, <1>3, <1>4 DEF Spread
<1>6. store' \in [Nodes -> Seq(Items)] BY <1>4 DEF A
<1> QED BY <1>1, <1>5, <1>6, SameDeparted, Still, SpreadGrows

-----------------------------------------------------------------------------
(* The filters, what is blocked and what is burnt *)

Local ==
  /\ ring \in [Nodes -> [order : Seq(DOMAIN Chats), set : SUBSET DOMAIN Chats]]
  /\ blocked \in [Nodes -> SUBSET Nodes]
  /\ burns \in [Nodes -> SUBSET DOMAIN Chats]

\* Local, at the start and in each step that can disturb it.
LEMMA LocalInit == Init => Local
<1> SUFFICES ASSUME Init PROVE Local OBVIOUS
<1>1. EmptyRing \in [order : Seq(DOMAIN Chats), set : SUBSET DOMAIN Chats] BY DEF EmptyRing
<1> QED BY <1>1 DEF Init, Local

\* Add keeps the type of a filter.
LEMMA AddTyped ==
  ASSUME NEW Cs, NEW r \in [order : Seq(Cs), set : SUBSET Cs], NEW c \in Cs
  PROVE  Add(r, c) \in [order : Seq(Cs), set : SUBSET Cs]
<1>1. r.order \in Seq(Cs) /\ r.set \in SUBSET Cs OBVIOUS
<1>2. CASE IsFull(r)
  <2>1. r.order # <<>>
    <3>1. Len(r.order) >= Capacity /\ Capacity \in Nat \ {0} BY <1>2, RingAssumption DEF IsFull
    <3> QED BY <1>1, <3>1
  <2>2. Tail(r.order) \in Seq(Cs) BY <1>1, <2>1
  <2>3. Append(Tail(r.order), c) \in Seq(Cs) BY <2>2
  <2>4. Add(r, c) = [order |-> Append(Tail(r.order), c), set |-> (r.set \ {Head(r.order)}) \cup {c}]
    BY <1>2 DEF Add
  <2>5. (r.set \ {Head(r.order)}) \cup {c} \in SUBSET Cs BY <1>1
  <2> QED BY <2>3, <2>4, <2>5
<1>3. CASE ~IsFull(r)
  <2>1. Append(r.order, c) \in Seq(Cs) BY <1>1
  <2>2. Add(r, c) = [order |-> Append(r.order, c), set |-> r.set \cup {c}] BY <1>3 DEF Add
  <2>3. r.set \cup {c} \in SUBSET Cs BY <1>1
  <2> QED BY <2>1, <2>2, <2>3
<1> QED BY <1>2, <1>3

LEMMA LocalAdds ==
  ASSUME Local, NEW n \in Nodes, NEW c \in DOMAIN Chats, UNCHANGED <<blocked, burns>>,
         ring' = [ring EXCEPT ![n] = Add(@, c)]
  PROVE  Local'
<1> DEFINE R == [order : Seq(DOMAIN Chats), set : SUBSET DOMAIN Chats]
<1>1. ring \in [Nodes -> R] BY DEF Local
<1>2. Add(ring[n], c) \in R BY <1>1, AddTyped
<1> HIDE DEF R
<1>3. ring' \in [Nodes -> R] BY <1>1, <1>2
<1> QED BY <1>3 DEF Local, R

LEMMA LocalCrash ==
  ASSUME Local, NEW n \in Nodes, Crash(n)
  PROVE  Local'
<1> DEFINE R == [order : Seq(DOMAIN Chats), set : SUBSET DOMAIN Chats]
<1>1. ring \in [Nodes -> R] BY DEF Local
<1>2. EmptyRing \in R BY DEF EmptyRing
<1>3. ring' = [ring EXCEPT ![n] = EmptyRing] BY DEF Crash
<1> HIDE DEF R
<1>4. ring' \in [Nodes -> R] BY <1>1, <1>2, <1>3
<1>5. blocked' \in [Nodes -> SUBSET Nodes] BY DEF Crash, Local
<1>6. burns' = burns \/ burns' = [burns EXCEPT ![n] = {}] BY DEF Crash
<1>7. burns' \in [Nodes -> SUBSET DOMAIN Chats] BY <1>6 DEF Local
<1> QED BY <1>4, <1>5, <1>7 DEF Local, R

-----------------------------------------------------------------------------
(* The types of a node *)

NodeInv == MeshTypeOK /\ Stamped /\ Spread /\ Local

\* The steps of the node that touch the mesh keep its types.
LEMMA MeshStill == MeshTypeOK /\ UNCHANGED meshVars => MeshTypeOK'
BY DEF MeshTypeOK, meshVars

LEMMA TouchMesh ==
  ASSUME MeshTypeOK, NEW n \in Nodes, NEW m \in Nodes, NEW a \in Nat, table' = Touch(n, m, a),
         UNCHANGED <<scene, up, life, joined, directory, pending, crashes>>,
         known' \in [Nodes -> SUBSET Nodes], wire' \subseteq Greetings
  PROVE  MeshTypeOK'
<1>1. table' \in [Nodes -> [Nodes -> Nat]] BY TouchTyped
<1> QED BY <1>1 DEF MeshTypeOK, Greetings

LEMMA GreetedMesh ==
  ASSUME MeshTypeOK, NEW n \in Nodes, NEW m \in Nodes, Greeted(n, m)
  PROVE  MeshTypeOK'
<1>1. wire \subseteq Greetings BY DEF MeshTypeOK, Greetings
<1>2. [known EXCEPT ![n] = @ \cup {m}] \in [Nodes -> SUBSET Nodes] BY DEF MeshTypeOK
<1>3. ASSUME NEW answered \in BOOLEAN, ReadPunch(n, m, answered) PROVE MeshTypeOK'
  <2>1. PICK f \in wire : /\ table' = Touch(n, m, f.src)
                          /\ known' = [known EXCEPT ![n] = @ \cup {m}]
                          /\ wire' = (wire \ {f}) \cup
                               (IF answered /\ Arrives(m, f.src) THEN {Envelope("greet", n, m)} ELSE {})
                          /\ UNCHANGED <<scene, up, life, joined, directory, pending, crashes>>
    BY <1>3 DEF ReadPunch
  <2>2. f.src \in Nat BY <1>1 DEF Greetings
  <2>3. Envelope("greet", n, m) \in Greetings BY EnvelopeTyped
  <2>4. wire' \subseteq Greetings BY <1>1, <2>1, <2>3
  <2> QED BY <1>2, <2>1, <2>2, <2>4, TouchMesh
<1>4. CASE ReadGreeting(n, m)
  <2>1. PICK f \in wire : /\ table' = Touch(n, m, f.src)
                          /\ known' = [known EXCEPT ![n] = @ \cup {m}]
                          /\ wire' = wire \ {f}
                          /\ UNCHANGED <<scene, up, life, joined, directory, pending, crashes>>
    BY <1>4 DEF ReadGreeting
  <2>2. f.src \in Nat BY <1>1 DEF Greetings
  <2> QED BY <1>1, <1>2, <2>1, <2>2, TouchMesh
<1> QED BY <1>3, <1>4 DEF Greeted

LEMMA ReadMesh ==
  ASSUME MeshTypeOK, Spread, NEW n \in Nodes, NEW s \in Sockets[n], Read(n, s)
  PROVE  MeshTypeOK'
<1>1. PICK d \in net : table' = Touch(n, d.from, d.src) BY DEF Read
<1>2. d.from \in Nodes /\ d.src \in Nat BY DEF Spread, Letters
<1>3. UNCHANGED <<scene, up, life, joined, directory, pending, known, wire, crashes>> BY DEF Read
<1>4. known' \in [Nodes -> SUBSET Nodes] /\ wire' \subseteq Greetings
  BY <1>3 DEF MeshTypeOK, Greetings
<1> QED BY <1>1, <1>2, <1>3, <1>4, TouchMesh

LEMMA ReadFloodMesh ==
  ASSUME MeshTypeOK, Stamped, NEW n \in Nodes, NEW m \in Nodes, ReadFlood(n, m)
  PROVE  MeshTypeOK'
<1>1. PICK f \in floods : table' = Touch(n, m, f.src) BY DEF ReadFlood
<1>2. f.src \in Nat BY DEF Stamped, Controls
<1>3. UNCHANGED <<scene, up, life, joined, directory, pending, known, wire, crashes>> BY DEF ReadFlood
<1>4. known' \in [Nodes -> SUBSET Nodes] /\ wire' \subseteq Greetings
  BY <1>3 DEF MeshTypeOK, Greetings
<1> QED BY <1>1, <1>2, <1>3, <1>4, TouchMesh

LEMMA SendMesh ==
  ASSUME MeshTypeOK, NEW c \in DOMAIN Chats, NEW t \in BOOLEAN, NEW heard, Send(c, t, heard)
  PROVE  MeshTypeOK'
<1> DEFINE n == Chats[c].from
           m == Chats[c].to
           E == {directory[i] : i \in Listed(m)}
<1>1. n \in Nodes BY NodeAssumption
<1>2. UNCHANGED <<scene, up, life, joined, directory, table, crashes>> BY DEF Send
<1>3. Ingest(n, E, heard) \/ UNCHANGED <<known, pending, wire>> BY DEF Send
<1>4. E \subseteq Peers
  <2>1. directory \in Seq(Peers) BY DEF MeshTypeOK, Peers
  <2> QED BY <2>1 DEF Listed
<1>5. CASE Ingest(n, E, heard)
  <2> HIDE DEF n, E
  <2>1. /\ pending' \in [Nodes -> [Nodes -> Nat]]
        /\ known' \in [Nodes -> SUBSET Nodes]
        /\ wire' \subseteq Greetings
    BY <1>1, <1>4, <1>5, IngestTyped
  <2> QED BY <1>2, <2>1 DEF MeshTypeOK, Greetings
<1>6. CASE UNCHANGED <<known, pending, wire>> BY <1>2, <1>6 DEF MeshTypeOK
<1> QED BY <1>3, <1>5, <1>6

LEMMA CrashMesh ==
  ASSUME MeshTypeOK, NEW n \in Nodes, Crash(n)
  PROVE  MeshTypeOK'
<1>1. MeshCrash(n) BY DEF Crash
<1>2. [m \in Nodes |-> Nowhere] \in [Nodes -> Nat] BY DEF Nowhere
<1>3. table' \in [Nodes -> [Nodes -> Nat]] /\ pending' \in [Nodes -> [Nodes -> Nat]]
  BY <1>1, <1>2 DEF MeshCrash, MeshTypeOK
<1>4. life' \in [Nodes -> Nat \ {0}] /\ up' \in [Nodes -> BOOLEAN] /\ crashes' \in Nat
      /\ known' \in [Nodes -> SUBSET Nodes]
  BY <1>1 DEF MeshCrash, MeshTypeOK
<1> QED BY <1>1, <1>3, <1>4 DEF MeshCrash, MeshTypeOK

LEMMA RestartMesh ==
  ASSUME MeshTypeOK, NEW n \in Nodes, Restart(n)
  PROVE  MeshTypeOK'
<1>1. MeshRestart(n) BY DEF Restart
<1>2. PICK j \in BOOLEAN : joined' = [joined EXCEPT ![n] = j] BY <1>1 DEF MeshRestart
<1>3. joined' \in [Nodes -> BOOLEAN] /\ up' \in [Nodes -> BOOLEAN]
  BY <1>1, <1>2 DEF MeshRestart, MeshTypeOK
<1> QED BY <1>1, <1>3 DEF MeshRestart, MeshTypeOK

-----------------------------------------------------------------------------

\* NodeInv holds at the start, and every step keeps it.
LEMMA NodeInvInit == Init => NodeInv
BY MeshInitTyped, StampedInit, SpreadInit, LocalInit DEF Init, NodeInv

LEMMA LocalKept == Local /\ UNCHANGED <<ring, blocked, burns>> => Local'
BY DEF Local

LEMMA LoopStep ==
  ASSUME NodeInv, NEW n \in Nodes, ReadLoop(n)
  PROVE  NodeInv'
<1> USE DEF NodeInv
<1>1. PICK s \in Sockets[n] :
        Read(n, s) \/ Look(n, s) \/ Handle(n, s) \/ Consume(n, s) \/ Open(n, s)
  BY DEF ReadLoop
<1>2. CASE Read(n, s)
  <2>1. MeshTypeOK' BY <1>2, ReadMesh
  <2>2. Spread' BY <1>2, ReadSpread
  <2>3. Local' BY <1>2, LocalKept DEF Read
  <2>4. Stamped'
    <3>1. UNCHANGED <<scene, now, pkts, floods, bundle, remote>> BY <1>2 DEF Read
    <3>2. CASE UNCHANGED samples BY <3>1, <3>2, StampedKept
    <3>3. CASE ~UNCHANGED samples
      <4>1. PICK d \in net : samples' = [samples EXCEPT ![n] = Observe(@, pkts[d.chat].ts - Wall(n))]
        BY <1>2, <3>3 DEF Read
      <4>2. d.chat \in DOMAIN Chats BY DEF Spread, Letters, Departed
      <4>3. pkts[d.chat].ts \in Int BY <4>2 DEF Stamped, Packets
      <4>4. /\ samples' \in [Nodes -> Seq(-Clamp..Clamp)]
            /\ \A m \in Nodes : Len(samples'[m]) <= MaxSamples
        BY <4>1, <4>3, ObservedTyped
      <4> QED BY <3>1, <4>4 DEF Stamped
    <3> QED BY <3>2, <3>3
  <2> QED BY <2>1, <2>2, <2>3, <2>4
<1>3. CASE Look(n, s)
  <2>1. MeshTypeOK' BY <1>3, MeshStill DEF Look
  <2>2. Spread' BY <1>3, LookSpread
  <2>3. Local' BY <1>3, LocalKept DEF Look
  <2>4. Stamped' BY <1>3, StampedKept DEF Look, meshVars
  <2> QED BY <2>1, <2>2, <2>3, <2>4
<1>4. CASE Handle(n, s)
  <2>1. MeshTypeOK' BY <1>4, MeshStill DEF Handle
  <2>2. Spread' BY <1>4, HandleSpread
  <2>3. Local'
    <3>1. hand[n][s].phase = "new" BY <1>4 DEF Handle
    <3>2. hand[n][s].chat \in DOMAIN Chats BY <3>1, HandIs DEF Departed
    <3>3. ring' = [ring EXCEPT ![n] = Add(@, hand[n][s].chat)] /\ UNCHANGED <<blocked, burns>>
      BY <1>4 DEF Handle
    <3> QED BY <3>2, <3>3, LocalAdds
  <2>4. Stamped' BY <1>4, StampedKept DEF Handle, meshVars
  <2> QED BY <2>1, <2>2, <2>3, <2>4
<1>5. CASE Consume(n, s)
  <2>1. MeshTypeOK' BY <1>5, MeshStill DEF Consume
  <2>2. Spread' BY <1>5, ConsumeSpread
  <2>3. Local' BY <1>5, LocalKept DEF Consume
  <2>4. Stamped'
    <3>1. UNCHANGED <<scene, now, samples, pkts, floods, remote>> BY <1>5 DEF Consume, meshVars
    <3>2. bundle' \in [Nodes -> [spk : Nat, opk : Nat, has : BOOLEAN]]
      BY <1>5, BundleTyped DEF Consume, Stamped
    <3> QED BY <3>1, <3>2 DEF Stamped
  <2> QED BY <2>1, <2>2, <2>3, <2>4
<1>6. CASE Open(n, s)
  <2>1. MeshTypeOK' BY <1>6, MeshStill DEF Open
  <2>2. Spread' BY <1>6, OpenSpread
  <2>3. Local' BY <1>6, LocalKept DEF Open
  <2>4. Stamped'
    <3>1. UNCHANGED <<scene, now, samples, pkts, floods, remote>> BY <1>6 DEF Open, meshVars
    <3>2. bundle' = bundle \/ bundle' = [bundle EXCEPT ![n] = RotateOPK(@)] BY <1>6 DEF Open
    <3>3. bundle' \in [Nodes -> [spk : Nat, opk : Nat, has : BOOLEAN]]
      <4> DEFINE B == [spk : Nat, opk : Nat, has : BOOLEAN]
      <4>1. bundle \in [Nodes -> B] BY DEF Stamped
      <4>2. RotateOPK(bundle[n]) \in B BY <4>1, BundleTyped
      <4> HIDE DEF B
      <4>3. bundle' \in [Nodes -> B] BY <3>2, <4>1, <4>2
      <4> QED BY <4>3 DEF B
    <3> QED BY <3>1, <3>3 DEF Stamped
  <2> QED BY <2>1, <2>2, <2>3, <2>4
<1> QED BY <1>1, <1>2, <1>3, <1>4, <1>5, <1>6

LEMMA ChatStep ==
  ASSUME NodeInv, NEW c \in DOMAIN Chats,
         Finish(c) \/ \E t \in BOOLEAN, heard \in SUBSET {Chats[c].to} : Send(c, t, heard)
  PROVE  NodeInv'
<1> USE DEF NodeInv
<1>1. CASE Finish(c)
  <2>1. MeshTypeOK' BY <1>1, MeshStill DEF Finish
  <2>2. Spread' BY <1>1, FinishSpread
  <2>3. Local'
    <3>1. Chats[c].from \in Nodes BY NodeAssumption
    <3>2. ring' = [ring EXCEPT ![Chats[c].from] = Add(@, c)] /\ UNCHANGED <<blocked, burns>>
      BY <1>1 DEF Finish
    <3> QED BY <3>1, <3>2, LocalAdds
  <2>4. Stamped' BY <1>1, StampedKept DEF Finish, meshVars
  <2> QED BY <2>1, <2>2, <2>3, <2>4
<1>2. ASSUME NEW t \in BOOLEAN, NEW heard, Send(c, t, heard) PROVE NodeInv'
  <2>1. MeshTypeOK' BY <1>2, SendMesh
  <2>2. Spread' BY <1>2, SendSpread
  <2>3. Local'
    <3>1. Chats[c].from \in Nodes BY NodeAssumption
    <3>2. UNCHANGED <<ring, blocked>> BY <1>2 DEF Send
    <3>3. burns' = burns \/ burns' = [burns EXCEPT ![Chats[c].from] = @ \cup {c}] BY <1>2 DEF Send
    <3>4. burns' \in [Nodes -> SUBSET DOMAIN Chats] BY <3>1, <3>3 DEF Local
    <3> QED BY <3>2, <3>4 DEF Local
  <2>4. Stamped' BY <1>2, SendStamped
  <2> QED BY <2>1, <2>2, <2>3, <2>4
<1> QED BY <1>1, <1>2

LEMMA OwnStep ==
  ASSUME NodeInv, NEW n \in Nodes,
         \/ PopReady(n) \/ SendCarried(n) \/ Crash(n) \/ Restart(n)
         \/ \E heard : FloodKeyBundle(n, heard) \/ FloodTimeSync(n, heard)
  PROVE  NodeInv'
<1> USE DEF NodeInv
<1>1. CASE PopReady(n)
  BY <1>1, MeshStill, PopSpread, LocalKept, StampedKept DEF PopReady, meshVars
<1>2. CASE SendCarried(n)
  BY <1>2, MeshStill, CarrySpread, LocalKept, StampedKept DEF SendCarried, meshVars
<1>3. CASE Crash(n)
  BY <1>3, CrashMesh, CrashSpread, LocalCrash, CrashStamped
<1>4. CASE Restart(n)
  <2>1. Stamped' BY <1>4, StampedKept DEF Restart, MeshRestart
  <2>2. Local' BY <1>4, LocalKept DEF Restart
  <2> QED BY <1>4, <2>1, <2>2, RestartMesh, RestartSpread
<1>5. ASSUME NEW heard, NEW kind \in {"keys", "time"}, Flood(n, kind, heard) PROVE NodeInv'
  <2>1. Stamped' BY <1>5, FloodStamped
  <2>2. Spread' BY <1>5, SpreadKept DEF Flood
  <2>3. Local' BY <1>5, LocalKept DEF Flood
  <2>4. MeshTypeOK' BY <1>5, MeshStill DEF Flood
  <2> QED BY <2>1, <2>2, <2>3, <2>4
<1> QED BY <1>1, <1>2, <1>3, <1>4, <1>5 DEF FloodKeyBundle, FloodTimeSync

LEMMA PairStep ==
  ASSUME NodeInv, NEW n \in Nodes, NEW m \in Nodes,
         Greeted(n, m) \/ ReadFlood(n, m) \/ LearnBurn(n, m) \/ Block(n, m)
  PROVE  NodeInv'
<1> USE DEF NodeInv
<1>1. CASE Greeted(n, m)
  <2>1. MeshTypeOK' BY <1>1, GreetedMesh
  <2>2. UNCHANGED <<scene, now, chatVars>> BY <1>1 DEF Greeted, ReadPunch, ReadGreeting
  <2> QED BY <2>1, <2>2, SpreadKept, LocalKept, StampedKept DEF chatVars
<1>2. CASE ReadFlood(n, m)
  <2>1. MeshTypeOK' BY <1>2, ReadFloodMesh
  <2>2. Stamped' BY <1>2, ReadFloodStamped
  <2>3. Spread' BY <1>2, SpreadKept DEF ReadFlood
  <2>4. Local' BY <1>2, LocalKept DEF ReadFlood
  <2> QED BY <2>1, <2>2, <2>3, <2>4
<1>3. CASE LearnBurn(n, m)
  <2>1. PICK c \in burns[m] : burns' = [burns EXCEPT ![n] = @ \cup {c}] BY <1>3 DEF LearnBurn
  <2>2. c \in DOMAIN Chats BY DEF Local
  <2>3. Local' BY <1>3, <2>1, <2>2 DEF LearnBurn, Local
  <2>4. Spread' BY <1>3, SpreadKept DEF LearnBurn
  <2>5. Stamped' BY <1>3, StampedKept DEF LearnBurn, meshVars
  <2>6. MeshTypeOK' BY <1>3, MeshStill DEF LearnBurn
  <2> QED BY <2>3, <2>4, <2>5, <2>6
<1>4. CASE Block(n, m)
  <2>3. Local'
    <3>1. PICK x \in SUBSET Nodes : blocked' = [blocked EXCEPT ![n] = x]
      BY <1>4 DEF Block, Local
    <3>2. UNCHANGED <<ring, burns>> BY <1>4 DEF Block
    <3> QED BY <3>1, <3>2 DEF Local
  <2>4. Spread' BY <1>4, SpreadKept DEF Block
  <2>5. Stamped' BY <1>4, StampedKept DEF Block, meshVars
  <2>6. MeshTypeOK' BY <1>4, MeshStill DEF Block
  <2> QED BY <2>3, <2>4, <2>5, <2>6
<1> QED BY <1>1, <1>2, <1>3, <1>4

LEMMA NodeInvStep == NodeInv /\ [Next]_vars => NodeInv'
<1> SUFFICES ASSUME NodeInv, [Next]_vars PROVE NodeInv' OBVIOUS
<1>1. CASE MeshStep /\ UNCHANGED <<now, chatVars>>
  <2>1. MeshTypeOK' BY <1>1, MeshStepTyped DEF NodeInv
  <2>2. UNCHANGED scene
    BY <1>1 DEF MeshStep, SeedRestarts, Hello, PeerExpires, DiscoverOnce, KeepAlive
  <2> QED BY <1>1, <2>1, <2>2, SpreadKept, LocalKept, StampedKept DEF chatVars, NodeInv
<1>2. CASE Tick
  <2>1. MeshTypeOK' BY <1>2, MeshStill DEF Tick, NodeInv
  <2>2. Spread' /\ Local' BY <1>2, SpreadKept, LocalKept DEF Tick, chatVars, NodeInv
  <2>3. Stamped'
    <3>1. scene.horizon \in Nat BY NodeAssumption DEF NodeInv, MeshTypeOK
    <3>2. now \in 0..scene.horizon /\ UNCHANGED scene BY <1>2 DEF NodeInv, Stamped, Tick, meshVars
    <3>3. now' \in 0..scene'.horizon BY <1>2, <3>1, <3>2 DEF Tick
    <3> QED BY <1>2, <3>3 DEF Tick, chatVars, NodeInv, Stamped
  <2> QED BY <2>1, <2>2, <2>3 DEF NodeInv
<1>3. CASE UNCHANGED vars
  BY <1>3, MeshStill, SpreadKept, LocalKept, StampedKept DEF vars, meshVars, chatVars, NodeInv
<1>4. CASE \E c \in scene.chats :
             \/ Finish(c)
             \/ \E ticketed \in BOOLEAN, heard \in SUBSET {Chats[c].to} : Send(c, ticketed, heard)
  <2>1. scene.chats \subseteq DOMAIN Chats BY NodeAssumption DEF NodeInv, MeshTypeOK
  <2> QED BY <1>4, <2>1, ChatStep
<1>5. ASSUME NEW n \in Nodes,
             \/ ReadLoop(n) \/ PopReady(n) \/ SendCarried(n) \/ Crash(n) \/ Restart(n)
             \/ \E heard \in SUBSET (Nodes \ {n}) : FloodKeyBundle(n, heard) \/ FloodTimeSync(n, heard)
             \/ \E m \in Nodes \ {n} :
                  Greeted(n, m) \/ ReadFlood(n, m) \/ LearnBurn(n, m) \/ Block(n, m)
      PROVE  NodeInv'
  BY <1>5, LoopStep, OwnStep, PairStep
<1> QED BY <1>1, <1>2, <1>3, <1>4, <1>5 DEF Next

\* Every variable of a node keeps its type: the windows hold clamped samples and
\* no more than the bound, the stores no more than StoreMax, and what is in a
\* filter, a store, a carried queue or a mempool is a chat.
THEOREM NodeTypes == Spec => []TypeOK
<1>1. NodeInv => TypeOK
  <2> SUFFICES ASSUME NodeInv PROVE TypeOK OBVIOUS
  <2>1. ASSUME NEW n \in Nodes PROVE Ids(store[n]) \cup Ids(carried[n]) \subseteq DOMAIN Chats
    <3>1. store[n] \in Seq(Items) /\ carried[n] \in Seq(Items) BY DEF NodeInv, Spread
    <3>2. \A it \in Items : it.id \in DOMAIN Chats BY DEF Items, Item, Departed
    <3>3. \A q \in Seq(Items) : \A i \in 1..Len(q) : q[i] \in Items OBVIOUS
    <3> QED BY <3>1, <3>2, <3>3 DEF Ids
  <2>2. ASSUME NEW n \in Nodes
        PROVE  /\ ring[n] \in [order : Seq(DOMAIN Chats), set : SUBSET DOMAIN Chats]
               /\ blocked[n] \subseteq Nodes /\ burns[n] \subseteq DOMAIN Chats
    BY DEF NodeInv, Local
  <2>3. ASSUME NEW n \in Nodes
        PROVE  /\ samples[n] \in Seq(-Clamp..Clamp) /\ Len(samples[n]) <= MaxSamples
               /\ bundle[n] \in [spk : Nat, opk : Nat, has : BOOLEAN]
               /\ remote[n] \in [Nodes -> [spk : Nat, opk : Nat]]
    BY DEF NodeInv, Stamped, Keys
  <2>4. \A n \in Nodes : Len(store[n]) <= StoreMax BY DEF NodeInv, Spread
  <2> QED BY <2>1, <2>2, <2>3, <2>4 DEF TypeOK, NodeInv, Stamped, Spread
<1> QED BY <1>1, NodeInvInit, NodeInvStep, PTL DEF Spec

-----------------------------------------------------------------------------
(* Network time *)

\* A window whose samples are all near takes only near ones: stays so.
LEMMA ObserveNear ==
  ASSUME NEW s \in Seq(Int), Near(s), NEW x \in -(2 * Skew)..(2 * Skew), x \in Int
  PROVE  Near(Observe(s, x))
<1> DEFINE N == -(2 * Skew)..(2 * Skew)
<1>1. \A i \in 1..Len(s) : s[i] \in N BY DEF Near
<1>2. x \in N /\ Len(s) \in Nat /\ MaxSamples \in Nat \ {0} BY NetClockAssumption
<1> HIDE DEF N
<1>3. \A i \in 1..Len(Append(s, x)) : Append(s, x)[i] \in N BY <1>1, <1>2
<1>4. s # <<>> => \A i \in 1..Len(Append(Tail(s), x)) : Append(Tail(s), x)[i] \in N
  <2> SUFFICES ASSUME s # <<>>
               PROVE  \A i \in 1..Len(Append(Tail(s), x)) : Append(Tail(s), x)[i] \in N
    OBVIOUS
  <2>1. /\ Tail(s) \in Seq(Int) /\ Len(Tail(s)) = Len(s) - 1
        /\ \A i \in 1..Len(Tail(s)) : Tail(s)[i] = s[i + 1] /\ i + 1 \in 1..Len(s)
    BY <1>2
  <2>2. \A i \in 1..Len(Tail(s)) : Tail(s)[i] \in N BY <1>1, <2>1
  <2> DEFINE t == Tail(s)
  <2> HIDE DEF t
  <2>3. t \in Seq(Int) /\ \A i \in 1..Len(t) : t[i] \in N BY <2>1, <2>2 DEF t
  <2>4. \A i \in 1..Len(Append(t, x)) : Append(t, x)[i] \in N BY <1>2, <2>3
  <2> QED BY <2>4 DEF t
<1>5. Len(s) >= MaxSamples => s # <<>> BY <1>2
<1>6. \A i \in 1..Len(Observe(s, x)) : Observe(s, x)[i] \in N
  <2>1. \/ Observe(s, x) = s \/ Observe(s, x) = Append(s, x)
        \/ ~(Len(s) < MaxSamples) /\ Observe(s, x) = Append(Tail(s), x)
    BY DEF Observe
  <2>2. ~(Len(s) < MaxSamples) => s # <<>> BY <1>2, <1>5
  <2> DEFINE All(w) == \A i \in 1..Len(w) : w[i] \in N
  <2>3. All(s) /\ All(Append(s, x)) /\ (s # <<>> => All(Append(Tail(s), x))) BY <1>1, <1>3, <1>4
  <2> HIDE DEF All
  <2>4. All(Observe(s, x)) BY <2>1, <2>2, <2>3
  <2> QED BY <2>4 DEF All
<1> QED BY <1>6 DEF Near, N

\* What Verify accepts is near the wall clock of a node whose offset is small.
LEMMA AcceptedIsNear ==
  ASSUME NodeInv, NEW n \in Nodes, samples[n] # <<>>, Near(samples[n]),
         NEW hops, NEW ts \in Int, Verifies(n, hops, ts)
  PROVE  ts - Wall(n) \in -(2 * Skew)..(2 * Skew)
<1>1. samples[n] \in Seq(Int) /\ Wall(n) \in Int BY NetTimeTyped DEF NodeInv
<1>2. Skew \in Nat BY NodeAssumption
<1>3. Offset(samples[n]) \in -Skew..Skew BY <1>1, <1>2, OffsetBound DEF Near
<1>4. Distance(Wall(n) + Offset(samples[n]), ts) <= Skew BY DEF Verifies, NetTime
<1> DEFINE o == Offset(samples[n])
           w == Wall(n)
<1> HIDE DEF o, w
<1>5. w \in Int /\ o \in Int /\ o \in -Skew..Skew /\ Distance(w + o, ts) <= Skew
  BY <1>1, <1>2, <1>3, <1>4 DEF o, w
<1>6. ts - w \in -(2 * Skew)..(2 * Skew) BY <1>2, <1>5 DEF Distance
<1> QED BY <1>6 DEF w

\* No step makes a near window leave the band.
LEMMA TimeStep ==
  ASSUME NodeInv, [Next]_vars, NEW n \in Nodes, samples[n] # <<>>, Near(samples[n])
  PROVE  Near(samples'[n])
<1>1. samples[n] \in Seq(Int) /\ Wall(n) \in Int BY NetTimeTyped DEF NodeInv
<1>2. CASE UNCHANGED samples BY <1>2
<1>3. ASSUME NEW m \in Nodes, NEW ts \in Int, NEW hops, Verifies(m, hops, ts),
             samples' = [samples EXCEPT ![m] = Observe(@, ts - Wall(m))]
      PROVE  Near(samples'[n])
  <2>1. CASE m = n
    <3>1. samples'[n] = Observe(samples[n], ts - Wall(n)) BY <1>3, <2>1 DEF NodeInv, Stamped
    <3>2. ts - Wall(n) \in -(2 * Skew)..(2 * Skew) /\ ts - Wall(n) \in Int
      BY <1>1, <1>3, <2>1, AcceptedIsNear
    <3> QED BY <1>1, <3>1, <3>2, ObserveNear
  <2>2. CASE m # n
    <3>1. samples'[n] = samples[n] BY <1>3, <2>2
    <3> QED BY <3>1
  <2> QED BY <2>1, <2>2
<1>4. ASSUME NEW m \in Nodes, Crash(m) PROVE Near(samples'[n])
  <2>1. samples' = [samples EXCEPT ![m] = <<>>] BY <1>4 DEF Crash
  <2>2. samples'[n] = <<>> \/ samples'[n] = samples[n] BY <2>1 DEF NodeInv, Stamped
  <2>3. Near(<<>>) BY DEF Near
  <2> QED BY <2>2, <2>3
<1>5. ASSUME NEW m \in Nodes, ReadLoop(m) PROVE Near(samples'[n])
  <2>1. PICK s \in Sockets[m] :
          Read(m, s) \/ Look(m, s) \/ Handle(m, s) \/ Consume(m, s) \/ Open(m, s)
    BY <1>5 DEF ReadLoop
  <2>2. CASE Read(m, s)
    <3>1. CASE UNCHANGED samples BY <1>2, <3>1
    <3>2. CASE ~UNCHANGED samples
      <4>1. PICK d \in net :
              /\ Verifies(m, d.hops + 1, pkts[d.chat].ts)
              /\ samples' = [samples EXCEPT ![m] = Observe(@, pkts[d.chat].ts - Wall(m))]
        BY <2>2, <3>2 DEF Read
      <4>2. d.chat \in DOMAIN Chats BY DEF NodeInv, Spread, Letters, Departed
      <4>3. pkts[d.chat].ts \in Int BY <4>2 DEF NodeInv, Stamped, Packets
      <4> QED BY <1>3, <4>1, <4>3
    <3> QED BY <3>1, <3>2
  <2>3. CASE Look(m, s) \/ Handle(m, s) \/ Consume(m, s) \/ Open(m, s)
    BY <1>2, <2>3 DEF Look, Handle, Consume, Open
  <2> QED BY <2>1, <2>2, <2>3
<1>6. ASSUME NEW m \in Nodes, NEW k \in Nodes, ReadFlood(m, k) PROVE Near(samples'[n])
  <2>1. CASE UNCHANGED samples BY <1>2, <2>1
  <2>2. CASE ~UNCHANGED samples
    <3>1. PICK f \in floods :
            /\ Verifies(m, f.hops + 1, f.ts)
            /\ samples' = [samples EXCEPT ![m] = Observe(@, f.ts - Wall(m))]
      BY <1>6, <2>2 DEF ReadFlood
    <3>2. f.ts \in Int BY DEF NodeInv, Stamped, Controls
    <3> QED BY <1>3, <3>1, <3>2
  <2> QED BY <2>1, <2>2
<1>7. ASSUME NEW c, Finish(c) \/ \E t \in BOOLEAN, heard \in SUBSET {Chats[c].to} : Send(c, t, heard)
      PROVE  Near(samples'[n])
  BY <1>2, <1>7 DEF Finish, Send
<1>8. ASSUME NEW m \in Nodes, NEW k, Greeted(m, k) \/ LearnBurn(m, k) \/ Block(m, k)
      PROVE  Near(samples'[n])
  BY <1>2, <1>8 DEF Greeted, ReadPunch, ReadGreeting, LearnBurn, Block, chatVars
<1>9. ASSUME NEW m \in Nodes,
             \/ PopReady(m) \/ SendCarried(m) \/ Restart(m)
             \/ \E heard : FloodKeyBundle(m, heard) \/ FloodTimeSync(m, heard)
      PROVE  Near(samples'[n])
  BY <1>2, <1>9 DEF PopReady, SendCarried, Restart, FloodKeyBundle, FloodTimeSync, Flood
<1>10. CASE (MeshStep /\ UNCHANGED <<now, chatVars>>) \/ Tick \/ UNCHANGED vars
  BY <1>2, <1>10 DEF Tick, vars, chatVars
<1> QED BY <1>4, <1>5, <1>6, <1>7, <1>8, <1>9, <1>10 DEF Next

\* A node whose samples are near its wall clock keeps them near, and its offset
\* within the skew Verify allows, whatever control packets and chats it reads and
\* whatever the clocks of the others: for any drifts, skew and window.
THEOREM ClockStaysRight == Spec => TimeStaysRight
<1> DEFINE A == \A n \in Nodes :
                  samples[n] # <<>> /\ Near(samples[n]) =>
                    Near(samples'[n]) /\ Offset(samples'[n]) \in -Skew..Skew
<1>1. ASSUME NodeInv, NodeInv', [Next]_vars PROVE A
  <2> SUFFICES ASSUME NEW n \in Nodes, samples[n] # <<>>, Near(samples[n])
               PROVE  Near(samples'[n]) /\ Offset(samples'[n]) \in -Skew..Skew
    OBVIOUS
  <2>1. Near(samples'[n]) BY <1>1, TimeStep
  <2>2. samples'[n] \in Seq(Int)
    <3>1. samples'[n] \in Seq(-Clamp..Clamp) BY <1>1 DEF NodeInv, Stamped
    <3>2. Clamp \in Nat BY NetClockAssumption
    <3>3. -Clamp..Clamp \subseteq Int BY <3>2
    <3> QED BY <3>1, <3>3, SeqGrows
  <2>3. Skew \in Nat BY NodeAssumption
  <2> QED BY <2>1, <2>2, <2>3, OffsetBound DEF Near
<1>2. NodeInv /\ NodeInv' /\ [Next]_vars => A BY <1>1
<1>3. NodeInv /\ NodeInv' /\ [Next]_vars => [A]_vars BY <1>2
<1> HIDE DEF A
<1>4. Spec => [][A]_vars BY <1>3, NodeInvInit, NodeInvStep, PTL DEF Spec
<1> QED BY <1>4 DEF TimeStaysRight, A
=============================================================================
