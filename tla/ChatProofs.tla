------------------------------ MODULE ChatProofs -----------------------------
(***************************************************************************)
(* Theorems of Node about what becomes of a chat, for any nodes, chats,    *)
(* sockets and scenes: its sender does not hear it again, a node delivers  *)
(* it once by each read loop, the store keeps it, and a broadcast is not   *)
(* lost while nothing crashes.                                             *)
(***************************************************************************)
EXTENDS NodeProofs, FunctionTheorems

-----------------------------------------------------------------------------
(* A process does not hear its own chats *)

\* The steps that a chat can notice.
LEMMA ChatSteps ==
  ASSUME NodeInv, [Next]_vars
  PROVE  \/ UNCHANGED <<life, ring, hand, inbox, stage, pkts>>
         \/ \E c \in DOMAIN Chats :
              Finish(c) \/ \E t \in BOOLEAN, heard \in SUBSET {Chats[c].to} : Send(c, t, heard)
         \/ \E n \in Nodes : ReadLoop(n) \/ Crash(n)
<1> DEFINE Calm == UNCHANGED <<life, ring, hand, inbox, stage, pkts>>
           Chatty == \E c \in DOMAIN Chats :
             Finish(c) \/ \E t \in BOOLEAN, heard \in SUBSET {Chats[c].to} : Send(c, t, heard)
           Loops == \E n \in Nodes : ReadLoop(n) \/ Crash(n)
<1> SUFFICES Calm \/ Chatty \/ Loops OBVIOUS
<1> HIDE DEF Calm, Chatty, Loops
<1>1. ASSUME MeshStep /\ UNCHANGED <<now, chatVars>> PROVE Calm
  <2>1. UNCHANGED life
    BY <1>1 DEF MeshStep, SeedRestarts, Hello, PeerExpires, DiscoverOnce, KeepAlive
  <2> QED BY <1>1, <2>1 DEF chatVars, Calm
<1>2. ASSUME Tick \/ UNCHANGED vars PROVE Calm
  BY <1>2 DEF Tick, vars, meshVars, chatVars, Calm
<1>3. ASSUME NEW c \in scene.chats,
             \/ Finish(c)
             \/ \E ticketed \in BOOLEAN, heard \in SUBSET {Chats[c].to} : Send(c, ticketed, heard)
      PROVE  Chatty
  <2>1. scene.chats \subseteq DOMAIN Chats BY NodeAssumption DEF NodeInv, MeshTypeOK
  <2> QED BY <1>3, <2>1 DEF Chatty
<1>4. ASSUME NEW n \in Nodes, ReadLoop(n) \/ Crash(n) PROVE Loops
  BY <1>4 DEF Loops
<1>5. ASSUME NEW n \in Nodes, PopReady(n) \/ SendCarried(n) \/ Restart(n) PROVE Calm
  BY <1>5 DEF PopReady, SendCarried, Restart, MeshRestart, meshVars, Calm
<1>6. ASSUME NEW n \in Nodes, NEW heard, FloodKeyBundle(n, heard) \/ FloodTimeSync(n, heard) PROVE Calm
  BY <1>6 DEF FloodKeyBundle, FloodTimeSync, Flood, meshVars, Calm
<1>7. ASSUME NEW n \in Nodes, NEW m,
             Greeted(n, m) \/ ReadFlood(n, m) \/ LearnBurn(n, m) \/ Block(n, m)
      PROVE  Calm
  BY <1>7 DEF Greeted, ReadPunch, ReadGreeting, ReadFlood, LearnBurn, Block, meshVars, chatVars, Calm
<1> QED BY <1>1, <1>2, <1>3, <1>4, <1>5, <1>6, <1>7 DEF Next

\* As long as a filter is not full it forgets nothing.
LEMMA AddForgetsNothing ==
  ASSUME NEW Cs, NEW r \in [order : Seq(Cs), set : SUBSET Cs], NEW k, ~IsFull(Add(r, k))
  PROVE  ~IsFull(r) /\ Add(r, k).set = r.set \cup {k}
<1>1. r.order \in Seq(Cs) /\ Capacity \in Nat \ {0} BY RingAssumption
<1>2. ~IsFull(r)
  <2> SUFFICES ASSUME IsFull(r) PROVE FALSE OBVIOUS
  <2>1. Len(r.order) >= Capacity BY DEF IsFull
  <2>2. r.order # <<>> BY <1>1, <2>1
  <2>3. Tail(r.order) \in Seq(Cs) /\ Len(Tail(r.order)) = Len(r.order) - 1 BY <1>1, <2>2
  <2>4. Add(r, k).order = Append(Tail(r.order), k) BY DEF Add
  <2>5. Len(Add(r, k).order) = Len(r.order) BY <1>1, <2>2, <2>3, <2>4
  <2> QED BY <2>1, <2>5 DEF IsFull
<1> QED BY <1>2 DEF Add

\* No read loop of n, and no message in its inbox, has the chat c.
Absent(n, c) ==
  /\ \A s \in Sockets[n] : hand[n][s] # Idle => hand[n][s].chat # c
  /\ \A i \in 1..Len(inbox[n]) : inbox[n][i].chat # c

\* What a process has sent is in its filter, and nowhere else in the process.
Echo(c) ==
  LET n == Chats[c].from
  IN  /\ pkts[c].life <= life[n]
      /\ stage[c] \in {"unsent", "lost"} => pkts[c].life < life[n]
      /\ stage[c] = "sent" /\ pkts[c].life = life[n] /\ ~IsFull(ring[n]) =>
           c \in ring[n].set /\ Absent(n, c)

EchoInv == \A c \in DOMAIN Chats : Echo(c)

\* A chat that has not been sent is nowhere.
LEMMA UnsentNowhere ==
  ASSUME Spread, NEW n \in Nodes, NEW c \in DOMAIN Chats, stage[c] # "sent"
  PROVE  Absent(n, c)
<1>1. \A s \in Sockets[n] : hand[n][s] # Idle => hand[n][s].chat # c
  BY HandIs DEF Departed
<1>2. inbox[n] \in Seq(Messages(Departed)) BY DEF Spread
<1>3. \A m \in Messages(Departed) : m.chat # c BY DEF Messages, Departed
<1>4. \A i \in 1..Len(inbox[n]) : inbox[n][i] \in Messages(Departed) BY <1>2
<1> QED BY <1>1, <1>3, <1>4 DEF Absent

\* Nothing is sent at the start.
LEMMA EchoInit == Init => EchoInv
<1> SUFFICES ASSUME Init, NEW c \in DOMAIN Chats PROVE Echo(c) BY DEF EchoInv
<1>1. Chats[c].from \in Nodes BY NodeAssumption
<1>2. pkts[c].life = 0 /\ life[Chats[c].from] = 1 /\ stage[c] = "unsent"
  BY <1>1 DEF Init, MeshInit, NoPacket
<1> QED BY <1>2 DEF Echo

\* A step of a read loop of n brings no chat that its filter has.
LEMMA LoopAbsent ==
  ASSUME NodeInv, NEW n \in Nodes, ReadLoop(n), NEW c \in ring[n].set, Absent(n, c)
  PROVE  Absent(n, c)'
<1>1. PICK s \in Sockets[n] :
        Read(n, s) \/ Look(n, s) \/ Handle(n, s) \/ Consume(n, s) \/ Open(n, s)
  BY DEF ReadLoop
<1> DEFINE g == hand[n][s]
<1>2. /\ \A t \in Sockets[n] : hand[n][t] # Idle => hand[n][t].chat # c
      /\ \A i \in 1..Len(inbox[n]) : inbox[n][i].chat # c
  BY DEF Absent
<1>3. ASSUME NEW h, hand' = [hand EXCEPT ![n][s] = h], h = Idle \/ h.chat # c
      PROVE  \A t \in Sockets[n] : hand'[n][t] # Idle => hand'[n][t].chat # c
  <2>1. \A t \in Sockets[n] : hand'[n][t] = IF t = s THEN h ELSE hand[n][t]
    BY <1>3 DEF NodeInv, Spread
  <2> QED BY <1>2, <1>3, <2>1
<1>4. ASSUME UNCHANGED hand
      PROVE  \A t \in Sockets[n] : hand'[n][t] # Idle => hand'[n][t].chat # c
  BY <1>2, <1>4
<1>5. ASSUME NEW m, m.chat # c, m \in Messages(Departed), inbox' = [inbox EXCEPT ![n] = Append(@, m)]
      PROVE  \A i \in 1..Len(inbox'[n]) : inbox'[n][i].chat # c
  <2> DEFINE q == inbox[n]
  <2>1. q \in Seq(Messages(Departed)) /\ inbox'[n] = Append(q, m)
    BY <1>5 DEF NodeInv, Spread
  <2>2. \A i \in 1..Len(q) : q[i].chat # c BY <1>2
  <2> HIDE DEF q
  <2>3. \A i \in 1..Len(Append(q, m)) : Append(q, m)[i].chat # c BY <1>5, <2>1, <2>2
  <2> QED BY <2>1, <2>3
<1>6. ASSUME UNCHANGED inbox PROVE \A i \in 1..Len(inbox'[n]) : inbox'[n][i].chat # c
  BY <1>2, <1>6
<1>7. CASE Read(n, s)
  <2>1. CASE UNCHANGED hand BY <1>4, <1>6, <1>7, <2>1 DEF Read, Absent
  <2>2. CASE ~UNCHANGED hand
    <3>1. PICK d \in net :
            /\ ~Seen(ring[n], d.chat)
            /\ hand' = [hand EXCEPT ![n][s] =
             [phase |-> "fresh", chat |-> d.chat, from |-> d.from, hops |-> d.hops + 1]]
      BY <1>7, <2>2 DEF Read
    <3>2. d.chat # c BY <3>1 DEF Seen
    <3> DEFINE h == [phase |-> "fresh", chat |-> d.chat, from |-> d.from, hops |-> d.hops + 1]
    <3>4. h.chat # c /\ hand' = [hand EXCEPT ![n][s] = h] BY <3>1, <3>2
    <3> HIDE DEF h
    <3>3. \A t \in Sockets[n] : hand'[n][t] # Idle => hand'[n][t].chat # c
      BY <1>3, <3>4
    <3> QED BY <1>6, <1>7, <3>3 DEF Read, Absent
  <2> QED BY <2>1, <2>2
<1>8. CASE Look(n, s)
  <2>1. g.phase = "fresh" BY <1>8 DEF Look, InPhase
  <2>2. /\ g = [phase |-> g.phase, chat |-> g.chat, from |-> g.from, hops |-> g.hops]
        /\ g # Idle
    BY <2>1, HandIs DEF NodeInv
  <2>3. g.chat # c BY <1>2, <2>2
  <2>4. PICK h \in {Idle, [g EXCEPT !.phase = "new"]} : hand' = [hand EXCEPT ![n][s] = h]
    BY <1>8 DEF Look
  <2> HIDE DEF g
  <2>5. ([g EXCEPT !.phase = "new"]).chat = g.chat BY <2>2
  <2>6. \A t \in Sockets[n] : hand'[n][t] # Idle => hand'[n][t].chat # c
    BY <1>3, <2>3, <2>4, <2>5
  <2> QED BY <1>6, <1>8, <2>6 DEF Look, Absent
<1>9. CASE Handle(n, s)
  <2>1. g.phase = "new" BY <1>9 DEF Handle
  <2>2. g # Idle /\ g.chat \in Departed BY <2>1, HandIs DEF NodeInv
  <2>3. g.chat # c BY <1>2, <2>2
  <2>4. PICK h \in {Idle, [phase |-> "derived", chat |-> g.chat, secret |-> ResponderSecret(bundle[n])]} :
          hand' = [hand EXCEPT ![n][s] = h]
    BY <1>9 DEF Handle
  <2>5. UNCHANGED inbox \/ inbox' = [inbox EXCEPT ![n] = Append(@, Message(g.chat, StaticKey))]
    BY <1>9 DEF Handle
  <2> HIDE DEF g
  <2>6. Message(g.chat, StaticKey).chat # c BY <2>3 DEF Message
  <2>7. Message(g.chat, StaticKey) \in Messages(Departed) BY <2>2, BundleTyped DEF Message, Messages
  <2>8. h = Idle \/ h.chat # c BY <2>3, <2>4
  <2>9. \A t \in Sockets[n] : hand'[n][t] # Idle => hand'[n][t].chat # c BY <1>3, <2>4, <2>8
  <2>10. \A i \in 1..Len(inbox'[n]) : inbox'[n][i].chat # c BY <1>5, <1>6, <2>5, <2>6, <2>7
  <2> QED BY <2>9, <2>10 DEF Absent
<1>10. CASE Consume(n, s)
  <2>1. g.phase = "derived" BY <1>10 DEF Consume
  <2>2. /\ g = [phase |-> g.phase, chat |-> g.chat, secret |-> g.secret]
        /\ g # Idle
    BY <2>1, HandIs DEF NodeInv
  <2>3. g.chat # c BY <1>2, <2>2
  <2>4. PICK p : hand' = [hand EXCEPT ![n][s] = [g EXCEPT !.phase = p]] BY <1>10 DEF Consume
  <2> HIDE DEF g
  <2>5. ([g EXCEPT !.phase = p]).chat = g.chat BY <2>2
  <2>6. \A t \in Sockets[n] : hand'[n][t] # Idle => hand'[n][t].chat # c
    BY <1>3, <2>3, <2>4, <2>5
  <2> QED BY <1>6, <1>10, <2>6 DEF Consume, Absent
<1>11. CASE Open(n, s)
  <2>1. g.phase \in {"derived", "consumed", "opening"} BY <1>11 DEF Open
  <2>2. g # Idle /\ g.chat \in Departed /\ g.secret \in Keys BY <2>1, HandIs DEF NodeInv
  <2>3. g.chat # c BY <1>2, <2>2
  <2>4. hand' = [hand EXCEPT ![n][s] = Idle] BY <1>11 DEF Open
  <2>5. UNCHANGED inbox \/ inbox' = [inbox EXCEPT ![n] = Append(@, Message(g.chat, g.secret))]
    BY <1>11 DEF Open
  <2> HIDE DEF g
  <2>6. Message(g.chat, g.secret).chat # c BY <2>3 DEF Message
  <2>7. Message(g.chat, g.secret) \in Messages(Departed) BY <2>2 DEF Message, Messages
  <2>8. \A t \in Sockets[n] : hand'[n][t] # Idle => hand'[n][t].chat # c BY <1>3, <2>4
  <2>9. \A i \in 1..Len(inbox'[n]) : inbox'[n][i].chat # c BY <1>5, <1>6, <2>5, <2>6, <2>7
  <2> QED BY <2>8, <2>9 DEF Absent
<1> QED BY <1>1, <1>7, <1>8, <1>9, <1>10, <1>11

\* Echo is kept by a step that leaves the sender of c alone, but for new keys in its filter.
LEMMA EchoKept ==
  ASSUME NEW c \in DOMAIN Chats, Echo(c), NEW n, n = Chats[c].from,
         UNCHANGED life, stage'[c] = stage[c], pkts'[c] = pkts[c],
         ~IsFull(ring'[n]) => ~IsFull(ring[n]) /\ ring[n].set \subseteq ring'[n].set,
         c \in ring[n].set /\ Absent(n, c) => Absent(n, c)'
  PROVE  Echo(c)'
BY DEF Echo

\* A send that gets its ticket stamps the packet.
LEMMA SendStamps ==
  ASSUME NEW c \in DOMAIN Chats, NEW t \in BOOLEAN, NEW heard, Send(c, t, heard),
         ~UNCHANGED <<stage, pkts>>
  PROVE  \E p : /\ stage' = [stage EXCEPT ![c] = "mining"]
                /\ pkts' = [pkts EXCEPT ![c] = p]
                /\ p.life = life[Chats[c].from]
<1> DEFINE n == Chats[c].from
           m == Chats[c].to
           cached == m # Everyone /\ remote[n][m] # NoBundle
           p == [ts |-> NetTime(n), exp |-> NetTime(n) + Chats[c].ttl, life |-> life[n],
                 key |-> IF cached THEN InitiatorSecret(remote[n][m]) ELSE StaticKey]
<1>1. t BY DEF Send
<1>2. stage' = [stage EXCEPT ![c] = "mining"] /\ pkts' = [pkts EXCEPT ![c] = p]
  BY <1>1 DEF Send
<1>3. p.life = life[n] OBVIOUS
<1> HIDE DEF p
<1> QED BY <1>2, <1>3

\* Every step keeps the echo invariant.
LEMMA EchoStep == NodeInv /\ EchoInv /\ [Next]_vars => EchoInv'
<1> SUFFICES ASSUME NodeInv, EchoInv, [Next]_vars, NEW c \in DOMAIN Chats PROVE Echo(c)'
  BY DEF EchoInv
<1> DEFINE n == Chats[c].from
           R == [order : Seq(DOMAIN Chats), set : SUBSET DOMAIN Chats]
<1>1. n \in Nodes BY NodeAssumption
<1>2. Echo(c) /\ life[n] \in Nat /\ pkts[c].life \in Nat
  BY <1>1 DEF EchoInv, NodeInv, MeshTypeOK, Stamped, Packets
<1>3. ring \in [Nodes -> R] BY DEF NodeInv, Local
<1>4. CASE UNCHANGED <<life, ring, hand, inbox, stage, pkts>>
  <2>1. Absent(n, c) => Absent(n, c)' BY <1>4 DEF Absent
  <2> QED BY <1>2, <1>4, <2>1, EchoKept
<1>5. ASSUME NEW d \in DOMAIN Chats, Finish(d) PROVE Echo(c)'
  <2> DEFINE m == Chats[d].from
  <2>1. m \in Nodes BY NodeAssumption
  <2>2. /\ stage[d] = "mining" /\ stage' = [stage EXCEPT ![d] = "sent"]
        /\ ring' = [ring EXCEPT ![m] = Add(@, d)]
        /\ UNCHANGED <<life, hand, inbox, pkts>>
    BY <1>5 DEF Finish, meshVars
  <2>3. Absent(n, c) => Absent(n, c)' BY <2>2 DEF Absent
  <2>4. ring'[n] = IF n = m THEN Add(ring[n], d) ELSE ring[n] BY <1>1, <1>3, <2>1, <2>2
  <2>5. ~IsFull(ring'[n]) => ~IsFull(ring[n]) /\ ring[n].set \subseteq ring'[n].set
    <3>1. CASE n = m
      <4>1. ring'[n] = Add(ring[n], d) /\ ring[n] \in R BY <1>1, <1>3, <2>4, <3>1
      <4> QED BY <4>1, AddForgetsNothing
    <3>2. CASE n # m BY <2>4, <3>2
    <3> QED BY <3>1, <3>2
  <2>6. CASE c # d
    <3>1. stage'[c] = stage[c] BY <2>2, <2>6 DEF NodeInv, Spread
    <3> QED BY <1>2, <2>2, <2>3, <2>5, <3>1, EchoKept
  <2>7. CASE c = d
    <3>1. stage'[c] = "sent" BY <2>2, <2>7 DEF NodeInv, Spread
    <3>2. Absent(n, c)'
      <4>1. stage[c] # "sent" BY <2>2, <2>7
      <4>2. Absent(n, c) BY <1>1, <4>1, UnsentNowhere DEF NodeInv
      <4> QED BY <2>3, <4>2
    <3>3. ~IsFull(ring'[n]) => c \in ring'[n].set
      <4>1. ring'[n] = Add(ring[n], c) /\ ring[n] \in R BY <1>1, <1>3, <2>4, <2>7
      <4> QED BY <4>1, AddForgetsNothing
    <3>4. pkts'[c].life <= life'[n] BY <1>2, <2>2 DEF Echo
    <3> QED BY <3>1, <3>2, <3>3, <3>4 DEF Echo
  <2> QED BY <2>6, <2>7
<1>6. ASSUME NEW d \in DOMAIN Chats, NEW t \in BOOLEAN, NEW heard, Send(d, t, heard) PROVE Echo(c)'
  <2>1. stage[d] = "unsent" /\ UNCHANGED <<life, ring, hand, inbox>> BY <1>6 DEF Send
  <2>2. Absent(n, c) => Absent(n, c)' BY <2>1 DEF Absent
  <2>3. CASE UNCHANGED <<stage, pkts>> BY <1>2, <2>1, <2>2, <2>3, EchoKept
  <2>4. CASE ~UNCHANGED <<stage, pkts>>
    <3>1. PICK p : /\ stage' = [stage EXCEPT ![d] = "mining"]
                   /\ pkts' = [pkts EXCEPT ![d] = p]
                   /\ p.life = life[Chats[d].from]
      BY <1>6, <2>4, SendStamps
    <3>2. CASE c # d
      <4>1. stage'[c] = stage[c] /\ pkts'[c] = pkts[c] BY <3>1, <3>2 DEF NodeInv, Spread, Stamped
      <4> QED BY <1>2, <2>1, <2>2, <4>1, EchoKept
    <3>3. CASE c = d
      <4>1. stage'[c] = "mining" /\ pkts'[c].life = life'[n]
        BY <2>1, <3>1, <3>3 DEF NodeInv, Spread, Stamped
      <4>2. pkts'[c].life <= life'[n] BY <1>2, <2>1, <4>1
      <4> QED BY <4>1, <4>2 DEF Echo
    <3> QED BY <3>2, <3>3
  <2> QED BY <2>3, <2>4
<1>7. ASSUME NEW m \in Nodes, Crash(m) PROVE Echo(c)'
  <2>1. /\ UNCHANGED pkts
        /\ life' = [life EXCEPT ![m] = @ + 1]
        /\ ring' = [ring EXCEPT ![m] = EmptyRing]
        /\ inbox' = [inbox EXCEPT ![m] = <<>>]
        /\ hand' = [hand EXCEPT ![m] = [s \in Sockets[m] |-> Idle]]
        /\ stage' = [d \in DOMAIN Chats |->
                       IF Chats[d].from = m /\ stage[d] = "mining" THEN "lost" ELSE stage[d]]
    BY <1>7 DEF Crash, MeshCrash
  <2>2. CASE m = n
    <3>1. life'[n] = life[n] + 1 BY <1>1, <2>1, <2>2 DEF NodeInv, MeshTypeOK
    <3>2. pkts'[c].life < life'[n] BY <1>2, <2>1, <3>1 DEF Echo
    <3>3. pkts'[c].life <= life'[n] /\ pkts'[c].life # life'[n] BY <1>2, <2>1, <3>1, <3>2
    <3> QED BY <3>2, <3>3 DEF Echo
  <2>3. CASE m # n
    <3>1. life'[n] = life[n] /\ ring'[n] = ring[n] /\ inbox'[n] = inbox[n] /\ hand'[n] = hand[n]
          /\ stage'[c] = stage[c] /\ pkts'[c] = pkts[c]
      BY <1>1, <2>1, <2>3 DEF NodeInv, MeshTypeOK, Local, Spread
    <3>2. Absent(n, c) => Absent(n, c)' BY <3>1 DEF Absent
    <3> QED BY <1>2, <3>1, <3>2 DEF Echo
  <2> QED BY <2>2, <2>3
<1>8. ASSUME NEW m \in Nodes, ReadLoop(m) PROVE Echo(c)'
  <2>1. PICK s \in Sockets[m] :
          Read(m, s) \/ Look(m, s) \/ Handle(m, s) \/ Consume(m, s) \/ Open(m, s)
    BY <1>8 DEF ReadLoop
  <2>2. UNCHANGED <<life, stage, pkts>>
    BY <2>1 DEF Read, Look, Handle, Consume, Open, meshVars
  <2>3. UNCHANGED ring \/ ring' = [ring EXCEPT ![m] = Add(@, hand[m][s].chat)]
    BY <2>1 DEF Read, Look, Handle, Consume, Open
  <2>4. ~IsFull(ring'[n]) => ~IsFull(ring[n]) /\ ring[n].set \subseteq ring'[n].set
    <3>1. ring'[n] = ring[n] \/ ring'[n] = Add(ring[n], hand[m][s].chat)
      BY <1>1, <1>3, <2>3
    <3>2. ring[n] \in R BY <1>1, <1>3
    <3> HIDE DEF n, R
    <3>3. CASE ring'[n] = ring[n] BY <3>3
    <3>4. CASE ring'[n] = Add(ring[n], hand[m][s].chat) BY <3>2, <3>4, AddForgetsNothing DEF R
    <3> QED BY <3>1, <3>3, <3>4
  <2>5. c \in ring[n].set /\ Absent(n, c) => Absent(n, c)'
    <3>1. CASE m = n BY <1>1, <1>8, <3>1, LoopAbsent
    <3>2. CASE m # n
      <4>1. hand'[n] = hand[n] /\ inbox'[n] = inbox[n]
        <5>1. UNCHANGED hand \/ \E h : hand' = [hand EXCEPT ![m][s] = h]
          BY <2>1 DEF Read, Look, Handle, Consume, Open
        <5>2. UNCHANGED inbox \/ \E q : inbox' = [inbox EXCEPT ![m] = q]
          BY <2>1 DEF Read, Look, Handle, Consume, Open
        <5> QED BY <1>1, <3>2, <5>1, <5>2 DEF NodeInv, Spread
      <4> QED BY <4>1 DEF Absent
    <3> QED BY <3>1, <3>2
  <2> QED BY <1>2, <2>2, <2>4, <2>5, EchoKept
<1> HIDE DEF n, R
<1> QED BY <1>4, <1>5, <1>6, <1>7, <1>8, ChatSteps

\* No process receives its own chat, however datagrams are repeated and relayed,
\* which of its read loops reads them, and whoever crashes, while its filter has
\* room: for any mesh, sockets and capacity.
THEOREM OwnChatsStayOut == Spec => []NoEcho
<1>1. ASSUME NodeInv, EchoInv PROVE NoEcho
  <2> SUFFICES ASSUME NEW c \in DOMAIN Chats, pkts[c].life = life[Chats[c].from],
                      ~IsFull(ring[Chats[c].from])
               PROVE  \A i \in 1..Len(inbox[Chats[c].from]) : inbox[Chats[c].from][i].chat # c
    BY DEF NoEcho
  <2> DEFINE n == Chats[c].from
  <2>1. n \in Nodes BY NodeAssumption
  <2>2. Echo(c) BY <1>1 DEF EchoInv
  <2>3. CASE stage[c] = "sent" BY <2>2, <2>3 DEF Echo, Absent
  <2>4. CASE stage[c] # "sent" BY <1>1, <2>1, <2>4, UnsentNowhere DEF NodeInv, Absent
  <2> QED BY <2>3, <2>4
<1> QED BY <1>1, NodeInvInit, NodeInvStep, EchoInit, EchoStep, PTL DEF Spec

-----------------------------------------------------------------------------
(* A chat is delivered once by each read loop *)

\* The places of the chat c in an inbox, and the read loops that have it past the filter's first look.
Got(q, c)   == {i \in 1..Len(q) : q[i].chat = c}
Busy(h, c)  == h # Idle /\ h.phase # "fresh" /\ h.chat = c
Reads(n, c) == {s \in Sockets[n] : Busy(hand[n][s], c)}

\* A chat that the filter does not have yet is in the inbox no time.
Once(n, c) ==
  /\ Cardinality(Got(inbox[n], c)) + Cardinality(Reads(n, c)) <= Cardinality(Sockets[n])
  /\ c \notin ring[n].set =>
       Got(inbox[n], c) = {} /\ \A s \in Reads(n, c) : hand[n][s].phase = "new"

OnceInv == \A n \in Nodes, c \in DOMAIN Chats : Once(n, c)

\* The places of a chat can be counted.
LEMMA GotFinite ==
  ASSUME NEW M, NEW q \in Seq(M), NEW c
  PROVE  IsFiniteSet(Got(q, c)) /\ Cardinality(Got(q, c)) \in Nat
<1>1. Len(q) \in Nat OBVIOUS
<1>2. IsFiniteSet(1..Len(q)) BY <1>1, FS_Interval
<1>3. Got(q, c) \in SUBSET (1..Len(q)) BY DEF Got
<1>4. IsFiniteSet(Got(q, c)) BY <1>2, <1>3, FS_Subset
<1> QED BY <1>4, FS_CardinalityType

\* A message more is a place more for its chat, and for no other.
LEMMA GotAppended ==
  ASSUME NEW M, NEW q \in Seq(M), NEW m \in M, NEW c
  PROVE  /\ m.chat # c => Got(Append(q, m), c) = Got(q, c)
         /\ m.chat = c => Cardinality(Got(Append(q, m), c)) = Cardinality(Got(q, c)) + 1
<1> DEFINE r == Append(q, m)
<1>1. Len(q) \in Nat /\ Len(r) = Len(q) + 1 /\ (\A i \in 1..Len(q) : r[i] = q[i]) /\ r[Len(q) + 1] = m
  OBVIOUS
<1> HIDE DEF r
<1>2. ASSUME m.chat # c PROVE Got(r, c) = Got(q, c)
  <2>1. \A i \in Got(r, c) : i \in Got(q, c)
    <3> SUFFICES ASSUME NEW i \in Got(r, c) PROVE i \in Got(q, c) OBVIOUS
    <3>1. i \in 1..Len(r) /\ r[i].chat = c BY DEF Got
    <3>2. i # Len(q) + 1 BY <1>1, <1>2, <3>1
    <3>3. i \in 1..Len(q) BY <1>1, <3>1, <3>2
    <3> QED BY <1>1, <3>1, <3>3 DEF Got
  <2>2. \A i \in Got(q, c) : i \in Got(r, c)
    <3> SUFFICES ASSUME NEW i \in Got(q, c) PROVE i \in Got(r, c) OBVIOUS
    <3>1. i \in 1..Len(q) /\ q[i].chat = c BY DEF Got
    <3>2. i \in 1..Len(r) BY <1>1, <3>1
    <3> QED BY <1>1, <3>1, <3>2 DEF Got
  <2> QED BY <2>1, <2>2
<1>3. ASSUME m.chat = c PROVE Cardinality(Got(r, c)) = Cardinality(Got(q, c)) + 1
  <2>1. \A i \in Got(r, c) : i \in Got(q, c) \cup {Len(q) + 1}
    <3> SUFFICES ASSUME NEW i \in Got(r, c), i # Len(q) + 1 PROVE i \in Got(q, c) OBVIOUS
    <3>1. i \in 1..Len(r) /\ r[i].chat = c BY DEF Got
    <3>3. i \in 1..Len(q) BY <1>1, <3>1
    <3> QED BY <1>1, <3>1, <3>3 DEF Got
  <2>2. \A i \in Got(q, c) : i \in Got(r, c)
    <3> SUFFICES ASSUME NEW i \in Got(q, c) PROVE i \in Got(r, c) OBVIOUS
    <3>1. i \in 1..Len(q) /\ q[i].chat = c BY DEF Got
    <3>2. i \in 1..Len(r) BY <1>1, <3>1
    <3> QED BY <1>1, <3>1, <3>2 DEF Got
  <2>3. Len(q) + 1 \in Got(r, c)
    <3>1. Len(q) + 1 \in 1..Len(r) BY <1>1
    <3> QED BY <1>1, <1>3, <3>1 DEF Got
  <2>4. Got(r, c) = Got(q, c) \cup {Len(q) + 1} BY <2>1, <2>2, <2>3
  <2>5. Len(q) + 1 \notin Got(q, c) BY <1>1 DEF Got
  <2>6. IsFiniteSet(Got(q, c)) BY GotFinite
  <2> QED BY <2>4, <2>5, <2>6, FS_AddElement
<1> QED BY <1>2, <1>3 DEF r

\* The read loops at a chat can be counted.
LEMMA ReadsFinite ==
  ASSUME NEW n \in Nodes, NEW c
  PROVE  /\ IsFiniteSet(Sockets[n]) /\ Cardinality(Sockets[n]) \in Nat
         /\ IsFiniteSet(Reads(n, c)) /\ Cardinality(Reads(n, c)) \in Nat
         /\ Cardinality(Reads(n, c)) <= Cardinality(Sockets[n])
         /\ Cardinality(Reads(n, c)') <= Cardinality(Sockets[n])
         /\ Cardinality(Reads(n, c)') \in Nat
<1>1. IsFiniteSet(Sockets[n]) BY NodeAssumption
<1>2. Reads(n, c) \in SUBSET Sockets[n] /\ Reads(n, c)' \in SUBSET Sockets[n] BY DEF Reads
<1>3. /\ IsFiniteSet(Reads(n, c)) /\ Cardinality(Reads(n, c)) <= Cardinality(Sockets[n])
  BY <1>1, <1>2, FS_Subset
<1>4. /\ IsFiniteSet(Reads(n, c)') /\ Cardinality(Reads(n, c)') <= Cardinality(Sockets[n])
  BY <1>1, <1>2, FS_Subset
<1> QED BY <1>1, <1>3, <1>4, FS_CardinalityType

\* One read loop goes on: when it gives up the chat c, the inbox may get it.
LEMMA OnceKept ==
  ASSUME NodeInv, NEW n \in Nodes, NEW c \in DOMAIN Chats, Once(n, c),
         NEW s \in Sockets[n], NEW h, hand'[n] = [hand[n] EXCEPT ![s] = h],
         NEW got \in BOOLEAN,
         ~got => Got(inbox'[n], c) = Got(inbox[n], c),
         got => /\ Cardinality(Got(inbox'[n], c)) = Cardinality(Got(inbox[n], c)) + 1
                /\ Busy(hand[n][s], c) /\ ~Busy(h, c) /\ c \in ring'[n].set,
         ring[n].set \subseteq ring'[n].set,
         Busy(h, c) => Busy(hand[n][s], c) \/ c \notin ring[n].set,
         Busy(h, c) => h.phase = "new" \/ c \in ring'[n].set
  PROVE  Once(n, c)'
<1> DEFINE R == Reads(n, c)
           G == Got(inbox[n], c)
           k == Cardinality(Sockets[n])
<1>1. \A t \in Sockets[n] : hand'[n][t] = IF t = s THEN h ELSE hand[n][t]
  BY DEF NodeInv, Spread
<1>2. \A t \in Sockets[n] : t # s => (t \in Reads(n, c)' <=> t \in R)
  BY <1>1 DEF Reads
<1>3. /\ s \in R <=> Busy(hand[n][s], c)
      /\ s \in Reads(n, c)' <=> Busy(h, c)
  BY <1>1 DEF Reads
<1>4. Reads(n, c)' \subseteq Sockets[n] /\ R \subseteq Sockets[n] BY DEF Reads
<1>5. /\ IsFiniteSet(R) /\ Cardinality(R) \in Nat /\ k \in Nat
      /\ Cardinality(Reads(n, c)') <= k /\ Cardinality(Reads(n, c)') \in Nat
  BY ReadsFinite
<1>6. Cardinality(G) \in Nat
  <2>1. inbox[n] \in Seq(Messages(Departed)) BY DEF NodeInv, Spread
  <2> QED BY <2>1, GotFinite
<1>7. /\ Cardinality(G) + Cardinality(R) <= k
      /\ c \notin ring[n].set => G = {} /\ \A t \in R : hand[n][t].phase = "new"
  BY DEF Once
<1> DEFINE R1 == Reads(n, c)'
           G1 == Got(inbox'[n], c)
<1> HIDE DEF R, G, k, R1, G1
<1>8. Cardinality(G1) + Cardinality(R1) <= k
  <2>1. CASE got
    <3>1. R1 = R \ {s} /\ s \in R BY <1>2, <1>3, <1>4, <2>1 DEF R1, R
    <3>2. Cardinality(R1) = Cardinality(R) - 1 BY <1>5, <3>1, FS_RemoveElement
    <3>3. Cardinality(G1) = Cardinality(G) + 1 BY <2>1 DEF G, G1
    <3> QED BY <1>5, <1>6, <1>7, <3>2, <3>3
  <2>2. CASE ~got /\ (Busy(h, c) => Busy(hand[n][s], c))
    <3>1. R1 \subseteq R BY <1>2, <1>3, <1>4, <2>2 DEF R1, R
    <3>2. Cardinality(R1) <= Cardinality(R) BY <1>5, <3>1, FS_Subset
    <3>3. G1 = G BY <2>2 DEF G, G1
    <3>4. Cardinality(R1) \in Nat BY <1>5 DEF R1
    <3> QED BY <1>5, <1>6, <1>7, <3>2, <3>3, <3>4
  <2>3. CASE ~got /\ c \notin ring[n].set
    <3>1. G1 = G /\ G = {} BY <1>7, <2>3 DEF G1, G
    <3>2. Cardinality(G1) = 0 BY <3>1, FS_EmptySet
    <3> QED BY <1>5, <3>2 DEF R1
  <2> QED BY <2>1, <2>2, <2>3
<1>9. ASSUME c \notin ring'[n].set
      PROVE  G1 = {} /\ \A t \in R1 : hand'[n][t].phase = "new"
  <2>1. c \notin ring[n].set /\ ~got BY <1>9
  <2>2. G1 = {} BY <1>7, <2>1 DEF G1, G
  <2>3. \A t \in R1 : hand'[n][t].phase = "new"
    <3> SUFFICES ASSUME NEW t \in R1 PROVE hand'[n][t].phase = "new" OBVIOUS
    <3>1. t \in Sockets[n] BY <1>4 DEF R1
    <3>2. CASE t = s BY <1>1, <1>3, <1>9, <3>1, <3>2 DEF R1
    <3>3. CASE t # s
      <4>1. t \in R BY <1>2, <3>1, <3>3 DEF R1
      <4> QED BY <1>1, <1>7, <2>1, <3>1, <3>3, <4>1
    <3> QED BY <3>2, <3>3
  <2> QED BY <2>2, <2>3
<1> QED BY <1>8, <1>9 DEF Once, R1, G1, k

\* No filter has evicted a key.
NoneFull == \A n \in Nodes : ~IsFull(ring[n])

\* A new process holds nothing.
LEMMA EmptyOnce ==
  ASSUME NEW n \in Nodes, NEW c
  PROVE  /\ inbox[n] = <<>> /\ (\A s \in Sockets[n] : hand[n][s] = Idle) => Once(n, c)
         /\ inbox'[n] = <<>> /\ (\A s \in Sockets[n] : hand'[n][s] = Idle) => Once(n, c)'
<1>1. Got(<<>>, c) = {}
  <2>1. 1..Len(<<>>) = {} OBVIOUS
  <2> QED BY <2>1 DEF Got
<1>2. (\A s \in Sockets[n] : hand[n][s] = Idle) => Reads(n, c) = {} BY DEF Reads, Busy
<1>3. (\A s \in Sockets[n] : hand'[n][s] = Idle) => Reads(n, c)' = {} BY DEF Reads, Busy
<1>4. Cardinality({}) = 0 /\ Cardinality(Sockets[n]) \in Nat BY FS_EmptySet, ReadsFinite
<1>5. Cardinality({}) + Cardinality({}) <= Cardinality(Sockets[n]) BY <1>4
<1> QED BY <1>1, <1>2, <1>3, <1>5 DEF Once

\* Once, at the start and in every step after which no filter is full.
LEMMA OnceInit == Init => OnceInv
<1> SUFFICES ASSUME Init, NEW n \in Nodes, NEW c \in DOMAIN Chats PROVE Once(n, c) BY DEF OnceInv
<1>1. inbox[n] = <<>> /\ \A s \in Sockets[n] : hand[n][s] = Idle BY DEF Init
<1> QED BY <1>1, EmptyOnce

\* Once is kept when the node does no more than to enter keys in its filter.
LEMMA OnceStill ==
  ASSUME NEW n, NEW c, Once(n, c), UNCHANGED <<hand[n], inbox[n]>>, ring[n].set \subseteq ring'[n].set
  PROVE  Once(n, c)'
BY DEF Once, Reads

LEMMA LoopOnce ==
  ASSUME NodeInv, NEW n \in Nodes, ReadLoop(n), ~IsFull(ring'[n]),
         NEW c \in DOMAIN Chats, Once(n, c)
  PROVE  Once(n, c)'
<1>1. PICK s \in Sockets[n] :
        Read(n, s) \/ Look(n, s) \/ Handle(n, s) \/ Consume(n, s) \/ Open(n, s)
  BY DEF ReadLoop
<1> DEFINE g == hand[n][s]
           q == inbox[n]
<1>2. hand = [m \in Nodes |-> [t \in Sockets[m] |-> hand[m][t]]] /\ hand[n] = [t \in Sockets[n] |-> hand[n][t]]
  BY DEF NodeInv, Spread
<1>3. q \in Seq(Messages(Departed)) /\ inbox \in [Nodes -> Seq(Messages(Departed))]
  BY DEF NodeInv, Spread
<1>4. \A h : hand' = [hand EXCEPT ![n][s] = h] => hand'[n] = [hand[n] EXCEPT ![s] = h]
  BY <1>2
<1>5. Busy(g, c) /\ g.phase # "new" => c \in ring[n].set
  <2>1. s \in Reads(n, c) <=> Busy(g, c) BY DEF Reads
  <2> QED BY <2>1 DEF Once
<1>6. CASE Read(n, s)
  <2>1. ring' = ring /\ inbox' = inbox BY <1>6 DEF Read
  <2>2. CASE UNCHANGED hand BY <2>1, <2>2, OnceStill
  <2>3. CASE ~UNCHANGED hand
    <3>1. PICK d \in net : hand' = [hand EXCEPT ![n][s] =
            [phase |-> "fresh", chat |-> d.chat, from |-> d.from, hops |-> d.hops + 1]]
      BY <1>6, <2>3 DEF Read
    <3> DEFINE h == [phase |-> "fresh", chat |-> d.chat, from |-> d.from, hops |-> d.hops + 1]
    <3>2. hand'[n] = [hand[n] EXCEPT ![s] = h] BY <1>4, <3>1
    <3>3. ~Busy(h, c) BY DEF Busy
    <3> HIDE DEF h
    <3> QED BY <2>1, <3>2, <3>3, OnceKept
  <2> QED BY <2>2, <2>3
<1>7. CASE Look(n, s)
  <2>1. g.phase = "fresh" BY <1>7 DEF Look, InPhase
  <2>2. g = [phase |-> g.phase, chat |-> g.chat, from |-> g.from, hops |-> g.hops]
    BY <2>1, HandIs DEF NodeInv
  <2>3. ring' = ring /\ inbox' = inbox BY <1>7 DEF Look
  <2> DEFINE h == IF Seen(ring[n], g.chat) THEN Idle ELSE [g EXCEPT !.phase = "new"]
  <2>4. hand'[n] = [hand[n] EXCEPT ![s] = h] BY <1>4, <1>7 DEF Look
  <2>5. Busy(h, c) => c \notin ring[n].set /\ h.phase = "new"
    <3>1. CASE Seen(ring[n], g.chat)
      <4>1. ~Busy(h, c) BY <3>1 DEF Busy
      <4> QED BY <4>1
    <3>2. CASE ~Seen(ring[n], g.chat)
      <4>1. h = [g EXCEPT !.phase = "new"] BY <3>2
      <4> HIDE DEF h, g
      <4>2. h.phase = "new" /\ h.chat = g.chat BY <2>2, <4>1
      <4> QED BY <3>2, <4>2 DEF Busy, Seen
    <3> QED BY <3>1, <3>2
  <2> HIDE DEF h
  <2> QED BY <2>3, <2>4, <2>5, OnceKept
<1>8. CASE Handle(n, s)
  <2>1. g.phase = "new" BY <1>8 DEF Handle
  <2>2. g # Idle /\ g.chat \in Departed BY <2>1, HandIs DEF NodeInv
  <2> DEFINE static == pkts[g.chat].key = StaticKey
             mine == Chats[g.chat].from \notin blocked[n] /\ TicketHolds(n, g.chat) /\ Addressed(n, g.chat)
             m == Message(g.chat, StaticKey)
             h == IF mine /\ ~static
                  THEN [phase |-> "derived", chat |-> g.chat, secret |-> ResponderSecret(bundle[n])]
                  ELSE Idle
  <2>3. /\ ring' = [ring EXCEPT ![n] = Add(@, g.chat)]
        /\ inbox' = IF mine /\ static THEN [inbox EXCEPT ![n] = Append(@, m)] ELSE inbox
        /\ hand' = [hand EXCEPT ![n][s] = h]
    BY <1>8 DEF Handle
  <2>4. hand'[n] = [hand[n] EXCEPT ![s] = h] BY <1>4, <2>3
  <2>5. ring'[n].set = ring[n].set \cup {g.chat}
    <3> DEFINE R == [order : Seq(DOMAIN Chats), set : SUBSET DOMAIN Chats]
    <3>1. ring \in [Nodes -> R] BY DEF NodeInv, Local
    <3>2. ring'[n] = Add(ring[n], g.chat) /\ ring[n] \in R BY <2>3, <3>1
    <3> QED BY <3>2, AddForgetsNothing
  <2>6. m \in Messages(Departed) /\ m.chat = g.chat
    BY <2>2, BundleTyped DEF Message, Messages
  <2>7. /\ Busy(g, c) <=> g.chat = c
        /\ Busy(h, c) => mine /\ ~static /\ g.chat = c
    BY <2>1, <2>2 DEF Busy
  <2>8. inbox'[n] = IF mine /\ static THEN Append(q, m) ELSE q BY <1>3, <2>3
  <2> DEFINE got == mine /\ static /\ g.chat = c
  <2>9. ~got => Got(inbox'[n], c) = Got(q, c)
    <3> HIDE DEF m, mine, static, g, q
    <3>1. CASE ~(mine /\ static) BY <2>8, <3>1
    <3>2. CASE g.chat # c BY <1>3, <2>6, <2>8, <3>2, GotAppended
    <3> QED BY <3>1, <3>2
  <2>10. got => Cardinality(Got(inbox'[n], c)) = Cardinality(Got(q, c)) + 1
    <3> HIDE DEF m, mine, static, g, q
    <3> QED BY <1>3, <2>6, <2>8, GotAppended
  <2>11. got => Busy(g, c) /\ ~Busy(h, c) /\ c \in ring'[n].set
    <3> HIDE DEF m, mine, static, g, q, h
    <3> QED BY <2>5, <2>7
  <2>12. Busy(h, c) => Busy(g, c) /\ c \in ring'[n].set
    <3> HIDE DEF m, mine, static, g, q, h
    <3> QED BY <2>5, <2>7
  <2>13. got \in BOOLEAN OBVIOUS
  <2> HIDE DEF m, mine, static, h, got
  <2> QED BY <2>4, <2>5, <2>9, <2>10, <2>11, <2>12, <2>13, OnceKept
<1>9. CASE Consume(n, s)
  <2>1. g.phase = "derived" BY <1>9 DEF Consume
  <2>2. /\ g = [phase |-> g.phase, chat |-> g.chat, secret |-> g.secret]
        /\ g # Idle
    BY <2>1, HandIs DEF NodeInv
  <2>3. PICK p : hand' = [hand EXCEPT ![n][s] = [g EXCEPT !.phase = p]] BY <1>9 DEF Consume
  <2> DEFINE h == [g EXCEPT !.phase = p]
  <2>4. hand'[n] = [hand[n] EXCEPT ![s] = h] BY <1>4, <2>3
  <2>5. Busy(h, c) => Busy(g, c) /\ c \in ring[n].set
    <3>1. h.chat = g.chat
      <4> HIDE DEF g
      <4> QED BY <2>2
    <3>2. Busy(g, c) <=> g.chat = c BY <2>1, <2>2 DEF Busy
    <3> HIDE DEF h, g
    <3> QED BY <1>5, <2>1, <3>1, <3>2 DEF Busy
  <2>6. ring' = ring /\ inbox' = inbox BY <1>9 DEF Consume
  <2> HIDE DEF h
  <2> QED BY <2>4, <2>5, <2>6, OnceKept
<1>10. CASE Open(n, s)
  <2>1. g.phase \in {"derived", "consumed", "opening"} BY <1>10 DEF Open
  <2>2. g # Idle /\ g.chat \in Departed /\ g.secret \in Keys BY <2>1, HandIs DEF NodeInv
  <2> DEFINE m == Message(g.chat, g.secret)
             opens == g.secret = pkts[g.chat].key
             got == opens /\ g.chat = c
  <2>3. /\ ring' = ring
        /\ inbox' = IF opens THEN [inbox EXCEPT ![n] = Append(@, m)] ELSE inbox
        /\ hand' = [hand EXCEPT ![n][s] = Idle]
    BY <1>10 DEF Open
  <2>4. hand'[n] = [hand[n] EXCEPT ![s] = Idle] BY <1>4, <2>3
  <2>5. m \in Messages(Departed) /\ m.chat = g.chat BY <2>2 DEF Message, Messages
  <2>6. ~Busy(Idle, c) BY DEF Busy
  <2>7. got => Busy(g, c) /\ c \in ring[n].set
    <3>1. g.chat = c => Busy(g, c) BY <2>1, <2>2 DEF Busy
    <3> QED BY <1>5, <2>1, <3>1
  <2>8. inbox'[n] = IF opens THEN Append(q, m) ELSE q BY <1>3, <2>3
  <2>9. ~got => Got(inbox'[n], c) = Got(q, c)
    <3> HIDE DEF m, opens, g, q
    <3>1. CASE ~opens BY <2>8, <3>1
    <3>2. CASE g.chat # c BY <1>3, <2>5, <2>8, <3>2, GotAppended
    <3> QED BY <3>1, <3>2
  <2>10. got => Cardinality(Got(inbox'[n], c)) = Cardinality(Got(q, c)) + 1
    <3> HIDE DEF m, opens, g, q
    <3> QED BY <1>3, <2>5, <2>8, GotAppended
  <2>11. got \in BOOLEAN OBVIOUS
  <2> HIDE DEF m, opens, got
  <2> QED BY <2>3, <2>4, <2>6, <2>7, <2>9, <2>10, <2>11, OnceKept
<1> QED BY <1>1, <1>6, <1>7, <1>8, <1>9, <1>10

LEMMA OnceStep == NodeInv /\ OnceInv /\ [Next]_vars /\ NoneFull' => OnceInv'
<1> SUFFICES ASSUME NodeInv, OnceInv, [Next]_vars, NoneFull', NEW n \in Nodes, NEW c \in DOMAIN Chats
             PROVE  Once(n, c)'
  BY DEF OnceInv
<1> DEFINE R == [order : Seq(DOMAIN Chats), set : SUBSET DOMAIN Chats]
<1>1. Once(n, c) /\ ~IsFull(ring'[n]) BY DEF OnceInv, NoneFull
<1>2. ring \in [Nodes -> R] BY DEF NodeInv, Local
<1>3. CASE UNCHANGED <<life, ring, hand, inbox, stage, pkts>> BY <1>1, <1>3, OnceStill
<1>4. ASSUME NEW d \in DOMAIN Chats, Finish(d) PROVE Once(n, c)'
  <2>1. ring' = [ring EXCEPT ![Chats[d].from] = Add(@, d)] /\ UNCHANGED <<hand, inbox>>
    BY <1>4 DEF Finish
  <2>2. ring'[n] = ring[n] \/ ring'[n] = Add(ring[n], d) BY <1>2, <2>1
  <2>3. ring[n] \in R BY <1>2
  <2> HIDE DEF R
  <2>4. CASE ring'[n] = ring[n] BY <1>1, <2>1, <2>4, OnceStill
  <2>5. CASE ring'[n] = Add(ring[n], d)
    <3>1. ring[n].set \subseteq ring'[n].set BY <1>1, <2>3, <2>5, AddForgetsNothing DEF R
    <3> QED BY <1>1, <2>1, <3>1, OnceStill
  <2> QED BY <2>2, <2>4, <2>5
<1>5. ASSUME NEW d \in DOMAIN Chats, NEW t \in BOOLEAN, NEW heard, Send(d, t, heard) PROVE Once(n, c)'
  <2>1. UNCHANGED <<ring, hand, inbox>> BY <1>5 DEF Send
  <2> QED BY <1>1, <2>1, OnceStill
<1>6. ASSUME NEW m \in Nodes, Crash(m) PROVE Once(n, c)'
  <2>1. /\ ring' = [ring EXCEPT ![m] = EmptyRing]
        /\ inbox' = [inbox EXCEPT ![m] = <<>>]
        /\ hand' = [hand EXCEPT ![m] = [s \in Sockets[m] |-> Idle]]
    BY <1>6 DEF Crash
  <2>2. CASE m = n
    <3>1. inbox'[n] = <<>> /\ \A s \in Sockets[n] : hand'[n][s] = Idle
      BY <2>1, <2>2 DEF NodeInv, Spread
    <3> QED BY <3>1, EmptyOnce
  <2>3. CASE m # n
    <3>1. UNCHANGED <<hand[n], inbox[n]>> /\ ring'[n] = ring[n]
      BY <2>1, <2>3 DEF NodeInv, Spread, Local
    <3> QED BY <1>1, <3>1, OnceStill
  <2> QED BY <2>2, <2>3
<1>7. ASSUME NEW m \in Nodes, ReadLoop(m) PROVE Once(n, c)'
  <2>1. CASE m = n BY <1>1, <1>7, <2>1, LoopOnce
  <2>2. CASE m # n
    <3>1. PICK s \in Sockets[m] :
            Read(m, s) \/ Look(m, s) \/ Handle(m, s) \/ Consume(m, s) \/ Open(m, s)
      BY <1>7 DEF ReadLoop
    <3>2. UNCHANGED ring \/ \E r : ring' = [ring EXCEPT ![m] = r]
      BY <3>1 DEF Read, Look, Handle, Consume, Open
    <3>3. UNCHANGED hand \/ \E h : hand' = [hand EXCEPT ![m][s] = h]
      BY <3>1 DEF Read, Look, Handle, Consume, Open
    <3>4. UNCHANGED inbox \/ \E q : inbox' = [inbox EXCEPT ![m] = q]
      BY <3>1 DEF Read, Look, Handle, Consume, Open
    <3>5. UNCHANGED <<hand[n], inbox[n]>> /\ ring'[n] = ring[n]
      BY <2>2, <3>2, <3>3, <3>4 DEF NodeInv, Spread, Local
    <3> QED BY <1>1, <3>5, OnceStill
  <2> QED BY <2>1, <2>2
<1> QED BY <1>3, <1>4, <1>5, <1>6, <1>7, ChatSteps

-----------------------------------------------------------------------------
(* The nodes implement Delivery *)

\* The chats of an inbox, in its order.
ChatsOf(q) == [i \in 1..Len(q) |-> q[i].chat]

\* Sequences of the same items are the same.
LEMMA SameSeq ==
  ASSUME NEW A, NEW s \in Seq(A), NEW t \in Seq(A), Len(s) = Len(t), \A i \in 1..Len(s) : s[i] = t[i]
  PROVE  s = t
OBVIOUS

\* A message more is a chat more.
LEMMA ChatsAppended ==
  ASSUME NEW M, NEW q \in Seq(M), NEW m \in M
  PROVE  /\ ChatsOf(Append(q, m)) = Append(ChatsOf(q), m.chat)
         /\ Cardinality({i \in 1..Len(ChatsOf(q)) : ChatsOf(q)[i] = m.chat}) = Cardinality(Got(q, m.chat))
<1> DEFINE A == {x.chat : x \in M}
           r == Append(q, m)
           u == ChatsOf(q)
<1>1. /\ Len(q) \in Nat /\ r \in Seq(M) /\ Len(r) = Len(q) + 1
      /\ \A i \in 1..Len(q) : r[i] = q[i] /\ q[i] \in M
      /\ r[Len(q) + 1] = m
  OBVIOUS
<1> HIDE DEF r
<1>2. u \in Seq(A) /\ Len(u) = Len(q) /\ \A i \in 1..Len(q) : u[i] = q[i].chat
  <2>1. \A i \in 1..Len(q) : q[i].chat \in A BY <1>1
  <2> HIDE DEF A
  <2> QED BY <1>1, <2>1 DEF ChatsOf
<1>3. ChatsOf(r) \in Seq(A) /\ Len(ChatsOf(r)) = Len(r) /\ \A i \in 1..Len(r) : ChatsOf(r)[i] = r[i].chat
  <2>1. \A i \in 1..Len(r) : r[i] \in M BY <1>1
  <2>2. \A i \in 1..Len(r) : r[i].chat \in A BY <2>1
  <2>3. Len(r) \in Nat BY <1>1
  <2> HIDE DEF A
  <2> QED BY <2>2, <2>3 DEF ChatsOf
<1>4. m.chat \in A OBVIOUS
<1> DEFINE v == Append(u, m.chat)
<1> HIDE DEF A, u
<1>5. /\ v \in Seq(A) /\ Len(v) = Len(q) + 1
      /\ \A i \in 1..Len(q) : v[i] = u[i]
      /\ v[Len(q) + 1] = m.chat
  BY <1>2, <1>4
<1> HIDE DEF v
<1>6. \A i \in 1..Len(r) : ChatsOf(r)[i] = v[i]
  <2> SUFFICES ASSUME NEW i \in 1..Len(r) PROVE ChatsOf(r)[i] = v[i] OBVIOUS
  <2>1. CASE i \in 1..Len(q)
    <3>1. ChatsOf(r)[i] = r[i].chat /\ r[i] = q[i] BY <1>1, <1>3, <2>1
    <3>2. v[i] = q[i].chat BY <1>2, <1>5, <2>1
    <3> QED BY <3>1, <3>2
  <2>2. CASE i = Len(q) + 1
    <3>1. ChatsOf(r)[i] = r[i].chat /\ r[i] = m BY <1>1, <1>3, <2>2
    <3> QED BY <1>5, <2>2, <3>1
  <2>3. i \in 1..Len(q) \/ i = Len(q) + 1 BY <1>1
  <2> QED BY <2>1, <2>2, <2>3
<1>7. ChatsOf(r) = v
  <2>1. Len(ChatsOf(r)) = Len(v) BY <1>1, <1>3, <1>5
  <2>2. \A i \in 1..Len(ChatsOf(r)) : ChatsOf(r)[i] = v[i] BY <1>3, <1>6
  <2> QED BY <1>3, <1>5, <2>1, <2>2, SameSeq
<1>8. {i \in 1..Len(u) : u[i] = m.chat} = Got(q, m.chat) BY <1>2 DEF Got
<1> QED BY <1>7, <1>8 DEF r, u, v

LEMMA NoChats == ChatsOf(<<>>) = <<>>
<1> DEFINE A == {}
           q == <<>>
<1>1. Len(q) = 0 /\ q \in Seq(A) OBVIOUS
<1>2. \A i \in 1..Len(q) : q[i].chat \in A BY <1>1
<1> HIDE DEF A, q
<1>3. ChatsOf(q) \in Seq(A) /\ Len(ChatsOf(q)) = 0 BY <1>1, <1>2 DEF ChatsOf
<1>4. \A t \in Seq(A) : Len(t) = 0 => t = <<>> OBVIOUS
<1> QED BY <1>3, <1>4 DEF q

-----------------------------------------------------------------------------

Mail == [n \in Nodes |-> InboxChats(n)]

\* One message m joins the inbox of n, out of the hands of the read loop s.
LEMMA Delivers ==
  ASSUME NodeInv, OnceInv, NEW n \in Nodes, NEW s \in Sockets[n],
         hand[n][s].phase \in {"new", "derived", "consumed", "opening"},
         NEW key \in Keys, NEW c, c = hand[n][s].chat, Addressed(n, c),
         inbox' = [inbox EXCEPT ![n] = Append(@, Message(c, key))], UNCHANGED stage
  PROVE  D!Deliver(n, c)
<1> DEFINE m == Message(c, key)
           q == inbox[n]
<1>1. hand[n][s] # Idle /\ c \in Departed BY HandIs DEF NodeInv
<1>2. c \in DOMAIN Chats /\ Once(n, c) BY <1>1 DEF Departed, OnceInv
<1>3. Busy(hand[n][s], c) BY <1>1 DEF Busy
<1>4. s \in Reads(n, c) BY <1>3 DEF Reads
<1>5. Cardinality(Reads(n, c)) >= 1
  <2>1. Reads(n, c) # {} BY <1>4
  <2>2. IsFiniteSet(Reads(n, c)) /\ Cardinality(Reads(n, c)) \in Nat BY ReadsFinite
  <2>3. Cardinality(Reads(n, c)) # 0 BY <2>1, <2>2, FS_EmptySet
  <2> QED BY <2>2, <2>3
<1>6. q \in Seq(Messages(Departed)) /\ inbox \in [Nodes -> Seq(Messages(Departed))]
  BY DEF NodeInv, Spread
<1>7. m \in Messages(Departed) /\ m.chat = c BY <1>1 DEF Message, Messages
<1>8. Cardinality(Got(q, c)) < Cardinality(Sockets[n])
  <2>1. Cardinality(Got(q, c)) \in Nat BY <1>6, GotFinite
  <2>2. Cardinality(Sockets[n]) \in Nat /\ Cardinality(Reads(n, c)) \in Nat BY ReadsFinite
  <2>3. Cardinality(Got(q, c)) + Cardinality(Reads(n, c)) <= Cardinality(Sockets[n])
    BY <1>2 DEF Once
  <2> QED BY <1>5, <2>1, <2>2, <2>3
<1> HIDE DEF m
<1>9. /\ ChatsOf(Append(q, m)) = Append(ChatsOf(q), c)
      /\ Cardinality({i \in 1..Len(ChatsOf(q)) : ChatsOf(q)[i] = c}) = Cardinality(Got(q, c))
  <2> DEFINE d == m.chat
  <2>1. /\ ChatsOf(Append(q, m)) = Append(ChatsOf(q), d)
        /\ Cardinality({i \in 1..Len(ChatsOf(q)) : ChatsOf(q)[i] = d}) = Cardinality(Got(q, d))
    <3> HIDE DEF q
    <3> QED BY <1>6, <1>7, ChatsAppended
  <2>2. d = c BY <1>7
  <2> HIDE DEF d
  <2> QED BY <2>1, <2>2
<1>10. InboxChats(n) = ChatsOf(q) BY DEF InboxChats, ChatsOf
<1>11. D!Copies(n, c) < Cardinality(Sockets[n])
  <2>1. Mail[n] = ChatsOf(q) BY <1>10 DEF Mail
  <2> DEFINE S == {i \in 1..Len(Mail[n]) : Mail[n][i] = c}
  <2>3. D!Copies(n, c) = D!Cardinality(S) BY DEF D!Copies, Mail
  <2> HIDE DEF S
  <2>4. D!Cardinality(S) = Cardinality(S) BY DEF D!Cardinality, Cardinality
  <2>2. D!Copies(n, c) = Cardinality({i \in 1..Len(Mail[n]) : Mail[n][i] = c}) BY <2>3, <2>4 DEF S
  <2> QED BY <1>8, <1>9, <2>1, <2>2
<1>12. inbox' = [inbox EXCEPT ![n] = Append(q, m)] BY DEF m
<1>13. InboxChats(n)' = ChatsOf(Append(q, m))
  <2>1. inbox'[n] = Append(q, m) BY <1>6, <1>12
  <2> QED BY <2>1 DEF InboxChats, ChatsOf
<1>14. \A k \in Nodes : k # n => InboxChats(k)' = InboxChats(k)
  <2>1. \A k \in Nodes : k # n => inbox'[k] = inbox[k] BY <1>12
  <2> QED BY <2>1 DEF InboxChats
<1>15. Mail' = [Mail EXCEPT ![n] = Append(@, c)]
  <2>1. \A k \in Nodes : Mail'[k] = IF k = n THEN Append(Mail[n], c) ELSE Mail[k]
    BY <1>9, <1>10, <1>13, <1>14 DEF Mail
  <2> QED BY <2>1 DEF Mail
<1>16. Chats[c].to \in {n, Everyone} BY DEF Addressed
<1>17. Departed' = Departed BY DEF Departed
<1> QED BY <1>1, <1>11, <1>15, <1>16, <1>17 DEF D!Deliver, Departed, Mail

\* Each step is one of Delivery, or one it does not see.
LEMMA DeliveryStep ==
  ASSUME NodeInv, OnceInv, [Next]_vars
  PROVE  D!Next \/ UNCHANGED <<Departed, Mail>>
<1>1. CASE UNCHANGED <<stage, inbox>> BY <1>1 DEF Departed, Mail, InboxChats
<1>2. ASSUME NEW d \in DOMAIN Chats, Finish(d) PROVE D!Next
  <2>1. stage' = [stage EXCEPT ![d] = "sent"] /\ UNCHANGED inbox BY <1>2 DEF Finish
  <2>2. Departed' = Departed \cup {d} BY <2>1 DEF NodeInv, Spread, Departed
  <2>3. Mail' = Mail BY <2>1 DEF Mail, InboxChats
  <2>4. D!Send(d) BY <2>2, <2>3 DEF D!Send, Departed, Mail
  <2> QED BY <2>4 DEF D!Next
<1>3. ASSUME NEW d \in DOMAIN Chats, NEW t \in BOOLEAN, NEW heard, Send(d, t, heard)
      PROVE  UNCHANGED <<Departed, Mail>>
  <2>1. stage[d] = "unsent" /\ UNCHANGED inbox BY <1>3 DEF Send
  <2>2. stage' = stage \/ stage' = [stage EXCEPT ![d] = "mining"] BY <1>3 DEF Send
  <2>3. Departed' = Departed BY <2>1, <2>2 DEF NodeInv, Spread, Departed
  <2>4. Mail' = Mail BY <2>1 DEF Mail, InboxChats
  <2> QED BY <2>3, <2>4
<1>4. ASSUME NEW m \in Nodes, Crash(m) PROVE D!Next
  <2>1. /\ inbox' = [inbox EXCEPT ![m] = <<>>]
        /\ stage' = [d \in DOMAIN Chats |->
                       IF Chats[d].from = m /\ stage[d] = "mining" THEN "lost" ELSE stage[d]]
    BY <1>4 DEF Crash
  <2>2. Departed' = Departed BY <2>1 DEF Departed
  <2>3. \A k \in Nodes : inbox'[k] = IF k = m THEN <<>> ELSE inbox[k]
    BY <2>1 DEF NodeInv, Spread
  <2>4. \A k \in Nodes : InboxChats(k)' = IF k = m THEN <<>> ELSE InboxChats(k)
    BY <2>3, NoChats DEF InboxChats, ChatsOf
  <2>5. Mail' = [Mail EXCEPT ![m] = <<>>] BY <2>4 DEF Mail
  <2>6. D!Forget(m) BY <2>2, <2>5 DEF D!Forget, Departed, Mail
  <2> QED BY <2>6 DEF D!Next
<1>5. ASSUME NEW n \in Nodes, ReadLoop(n) PROVE D!Next \/ UNCHANGED <<stage, inbox>>
  <2>1. PICK s \in Sockets[n] :
          Read(n, s) \/ Look(n, s) \/ Handle(n, s) \/ Consume(n, s) \/ Open(n, s)
    BY <1>5 DEF ReadLoop
  <2>2. CASE Read(n, s) \/ Look(n, s) \/ Consume(n, s) BY <2>2 DEF Read, Look, Consume
  <2> DEFINE c == hand[n][s].chat
  <2>3. CASE Handle(n, s)
    <3>1. hand[n][s].phase = "new" /\ UNCHANGED stage BY <2>3 DEF Handle
    <3>2. c \in Departed BY <3>1, HandIs DEF NodeInv
    <3>3. CASE UNCHANGED inbox BY <3>1, <3>3
    <3>4. CASE ~UNCHANGED inbox
      <4>1. Addressed(n, c) /\ inbox' = [inbox EXCEPT ![n] = Append(@, Message(c, StaticKey))]
        BY <2>3, <3>4 DEF Handle
      <4>2. D!Deliver(n, c) BY <3>1, <4>1, BundleTyped, Delivers
      <4> QED BY <3>2, <4>2 DEF D!Next, Departed
    <3> QED BY <3>3, <3>4
  <2>4. CASE Open(n, s)
    <3>1. hand[n][s].phase \in {"derived", "consumed", "opening"} /\ UNCHANGED stage
      BY <2>4 DEF Open
    <3>2. c \in Departed /\ Addressed(n, c) /\ hand[n][s].secret \in Keys
      BY <3>1, HandIs DEF NodeInv
    <3>3. CASE UNCHANGED inbox BY <3>1, <3>3
    <3>4. CASE ~UNCHANGED inbox
      <4>1. inbox' = [inbox EXCEPT ![n] = Append(@, Message(c, hand[n][s].secret))]
        BY <2>4, <3>4 DEF Open
      <4>2. D!Deliver(n, c) BY <3>1, <3>2, <4>1, Delivers
      <4> QED BY <3>2, <4>2 DEF D!Next, Departed
    <3> QED BY <3>3, <3>4
  <2> QED BY <2>1, <2>2, <2>3, <2>4
<1> QED BY <1>1, <1>2, <1>3, <1>4, <1>5, ChatSteps

\* The nodes implement Delivery while no filter is full: what arrives was sent,
\* to whom it is for, and in no more copies than the node has read loops.  (A
\* full filter evicts keys, and from then on the code promises nothing.)
THEOREM NodesDeliver == Spec /\ []NoneFull => DeliverySpec
<1>1. Init => D!Init
  <2> SUFFICES ASSUME Init PROVE D!Init OBVIOUS
  <2>1. Departed = {} BY DEF Init, Departed
  <2>2. \A n \in Nodes : InboxChats(n) = <<>> BY NoChats DEF Init, InboxChats, ChatsOf
  <2>3. Mail = [n \in Nodes |-> <<>>] BY <2>2 DEF Mail
  <2> QED BY <2>1, <2>3 DEF D!Init, Departed, Mail
<1> DEFINE v == <<{c \in DOMAIN Chats : stage[c] = "sent"}, [n \in Nodes |-> InboxChats(n)]>>
<1>2. NodeInv /\ OnceInv /\ [Next]_vars => [D!Next]_v BY DeliveryStep DEF Departed, Mail
<1> QED BY <1>1, <1>2, NodeInvInit, NodeInvStep, OnceInit, OnceStep, PTL DEF Spec, DeliverySpec, D!Spec

-----------------------------------------------------------------------------
(* The store keeps what it takes *)

\* Of the last StoreMax items put in, the queue q has those that have not
\* expired, each no further from its end.
Kept(q, p, wall) ==
  \A i \in 1..Len(p) : i > Len(p) - StoreMax /\ wall < p[i].exp =>
    \E j \in 1..Len(q) : q[j] = p[i] /\ Len(q) - j <= Len(p) - i

Durable(n) ==
  file[n] # Torn =>
    /\ Kept(file[n], pushed[n], Wall(n))
    /\ up[n] => Kept(store[n], pushed[n], Wall(n))

DurableInv == \A n \in Nodes : Durable(n)

\* Nothing was put in.
LEMMA KeptEmpty ==
  ASSUME NEW q, NEW wall
  PROVE  Kept(q, <<>>, wall)
<1>1. 1..Len(<<>>) = {} OBVIOUS
<1> QED BY <1>1 DEF Kept

\* Time only makes more of it expire.
LEMMA KeptLater ==
  ASSUME NEW q, NEW Cs, NEW p \in Seq(Cs), \A it \in Cs : it.exp \in Int, NEW w \in Int, Kept(q, p, w)
  PROVE  Kept(q, p, w + 1)
<1> SUFFICES ASSUME NEW i \in 1..Len(p), i > Len(p) - StoreMax, w + 1 < p[i].exp
             PROVE  \E j \in 1..Len(q) : q[j] = p[i] /\ Len(q) - j <= Len(p) - i
  BY DEF Kept
<1>1. p[i] \in Cs OBVIOUS
<1>2. w < p[i].exp BY <1>1
<1> QED BY <1>2 DEF Kept

\* A push keeps the others and adds its own.
LEMMA KeptPushed ==
  ASSUME NEW Cs, NEW q \in Seq(Cs), NEW p \in Seq(Cs), NEW it \in Cs, NEW wall, Kept(q, p, wall)
  PROVE  Kept(Push(q, it, wall), Append(p, it), wall)
<1> DEFINE v == Push(q, it, wall)
           r == Append(p, it)
<1>0. IsPushed(Cs, q, it, wall, v) BY PushKeeps
<1> HIDE DEF v
<1>1. /\ v \in Seq(Cs)
      /\ \E j \in 1..Len(v) : v[j] = it /\ Len(v) - j = 0
      /\ \A i \in 1..Len(q) : wall < q[i].exp /\ Len(q) - i < StoreMax - 1 =>
           \E j \in 1..Len(v) : v[j] = q[i] /\ Len(v) - j <= Len(q) - i + 1
  BY <1>0 DEF IsPushed
<1>2. /\ Len(p) \in Nat /\ Len(r) = Len(p) + 1 /\ Len(q) \in Nat
      /\ \A i \in 1..Len(p) : r[i] = p[i]
      /\ r[Len(p) + 1] = it
  OBVIOUS
<1>3. StoreMax \in Nat \ {0} /\ Len(v) \in Nat BY <1>1, CarryAssumption
<1> HIDE DEF r
<1> SUFFICES ASSUME NEW i \in 1..Len(r), i > Len(r) - StoreMax, wall < r[i].exp
             PROVE  \E j \in 1..Len(v) : v[j] = r[i] /\ Len(v) - j <= Len(r) - i
  BY DEF Kept, v, r
<1>4. CASE i = Len(p) + 1
  <2>1. PICK j \in 1..Len(v) : v[j] = it /\ Len(v) - j = 0 BY <1>1
  <2>2. Len(v) - j <= Len(r) - i BY <1>2, <1>4, <2>1
  <2> QED BY <1>2, <1>4, <2>1, <2>2
<1>5. CASE i # Len(p) + 1
  <2>1. i \in 1..Len(p) /\ Len(p) - i < StoreMax - 1 /\ i > Len(p) - StoreMax BY <1>2, <1>3, <1>5
  <2>2. r[i] = p[i] BY <1>2, <2>1
  <2>3. PICK k \in 1..Len(q) : q[k] = p[i] /\ Len(q) - k <= Len(p) - i BY <2>1, <2>2 DEF Kept
  <2>4. Len(q) - k < StoreMax - 1 BY <1>2, <1>3, <2>1, <2>3
  <2>5. PICK j \in 1..Len(v) : v[j] = q[k] /\ Len(v) - j <= Len(q) - k + 1
    BY <1>1, <2>2, <2>3, <2>4
  <2>6. Len(v) - j <= Len(r) - i BY <1>2, <1>3, <2>1, <2>3, <2>5
  <2> QED BY <2>2, <2>3, <2>5, <2>6
<1> QED BY <1>4, <1>5

\* So does a restart, which drops what has expired.
LEMMA KeptOpened ==
  ASSUME NEW Cs, NEW q \in Seq(Cs), NEW p \in Seq(Cs), NEW wall, Kept(q, p, wall)
  PROVE  Kept(Unexpired(q, wall), p, wall)
<1> DEFINE u == Unexpired(q, wall)
<1>1. /\ u \in Seq(Cs)
      /\ \A i \in 1..Len(q) : wall < q[i].exp =>
           \E j \in 1..Len(u) : u[j] = q[i] /\ Len(u) - j <= Len(q) - i
  BY UnexpiredKeeps
<1>2. Len(u) \in Nat /\ Len(p) \in Nat /\ Len(q) \in Nat BY <1>1
<1> HIDE DEF u
<1> SUFFICES ASSUME NEW i \in 1..Len(p), i > Len(p) - StoreMax, wall < p[i].exp
             PROVE  \E j \in 1..Len(u) : u[j] = p[i] /\ Len(u) - j <= Len(p) - i
  BY DEF Kept, u
<1>3. PICK k \in 1..Len(q) : q[k] = p[i] /\ Len(q) - k <= Len(p) - i BY DEF Kept
<1>4. PICK j \in 1..Len(u) : u[j] = q[k] /\ Len(u) - j <= Len(q) - k BY <1>1, <1>3
<1>5. Len(u) - j <= Len(p) - i BY <1>2, <1>3, <1>4
<1> QED BY <1>3, <1>4, <1>5

\* A step that leaves queue and clock alone, but may tear the file or stop.
LEMMA DurableStill ==
  ASSUME NEW n, Durable(n), UNCHANGED <<now, pushed[n], store[n]>>,
         file'[n] = file[n] \/ file'[n] = Torn, up'[n] => up[n]
  PROVE  Durable(n)'
BY DEF Durable, Wall

\* Durable, at the start and in every step.
LEMMA DurableInit == Init => DurableInv
<1> SUFFICES ASSUME Init, NEW n \in Nodes PROVE Durable(n) BY DEF DurableInv
<1>1. pushed[n] = <<>> BY DEF Init
<1> QED BY <1>1, KeptEmpty DEF Durable

LEMMA DurableStep == NodeInv /\ NodeInv' /\ DurableInv /\ [Next]_vars => DurableInv'
<1> SUFFICES ASSUME NodeInv, NodeInv', DurableInv, [Next]_vars, NEW n \in Nodes PROVE Durable(n)'
  BY DEF DurableInv
<1> DEFINE B == Seq(Items)
<1>0. /\ store \in [Nodes -> B] /\ pushed \in [Nodes -> B] /\ file \in [Nodes -> B \cup {Torn}]
      /\ up \in [Nodes -> BOOLEAN]
  BY DEF NodeInv, Spread, MeshTypeOK
<1> HIDE DEF B
<1>1. Durable(n) BY DEF DurableInv
<1>2. CASE UNCHANGED <<now, up, pushed, store, file>>
  BY <1>1, <1>2, DurableStill
<1>3. CASE Tick
  <2>1. Wall(n) \in Int BY NetTimeTyped DEF NodeInv
  <2>2. Wall(n)' = Wall(n) + 1 /\ UNCHANGED <<up, pushed, store, file>>
    <3>1. now \in Int /\ Drift[n] \in Int BY NetTimeTyped, NodeAssumption DEF NodeInv
    <3>2. now' = now + 1 /\ UNCHANGED <<up, pushed, store, file>> BY <1>3 DEF Tick, meshVars, chatVars
    <3> QED BY <3>1, <3>2 DEF Wall
  <2>3. pushed[n] \in Seq(Items) BY <1>0 DEF B
  <2>4. \A it \in Items : it.exp \in Int BY DEF Items, Item, NodeInv, Stamped, Packets, Departed
  <2>5. \A q : Kept(q, pushed[n], Wall(n)) => Kept(q, pushed[n], Wall(n)')
    BY <2>1, <2>2, <2>3, <2>4, KeptLater
  <2>6. UNCHANGED <<up[n], pushed[n], store[n], file[n]>> BY <2>2
  <2> QED BY <1>1, <2>5, <2>6 DEF Durable
<1>4. ASSUME NEW c \in DOMAIN Chats, Finish(c) PROVE Durable(n)'
  <2> DEFINE m == Chats[c].from
             it == [id |-> c, exp |-> pkts[c].exp, target |-> Chats[c].to]
  <2>1. m \in Nodes /\ up[m] /\ UNCHANGED <<now, up>> BY <1>4, NodeAssumption DEF Finish, meshVars
  <2>2. CASE UNCHANGED <<store, file, pushed>> BY <1>2, <2>1, <2>2
  <2>3. CASE ~UNCHANGED <<store, file, pushed>>
    <3>1. /\ store' = [store EXCEPT ![m] = Push(@, it, Wall(m))]
          /\ file' = Saved(m, store'[m])
          /\ pushed' = [pushed EXCEPT ![m] = Append(@, it)]
      BY <1>4, <2>3 DEF Finish
    <3>2. /\ store'[m] = Push(store[m], it, Wall(m)) /\ pushed'[m] = Append(pushed[m], it)
          /\ file'[m] = IF file[m] = Torn THEN file[m] ELSE store'[m]
          /\ \A k \in Nodes : k # m => store'[k] = store[k] /\ pushed'[k] = pushed[k] /\ file'[k] = file[k]
      BY <1>0, <2>1, <3>1 DEF Saved
    <3>3. CASE n # m
      <4>1. UNCHANGED <<now, up[n], pushed[n], store[n]>> /\ file'[n] = file[n]
        BY <2>1, <3>2, <3>3
      <4> QED BY <1>1, <4>1, DurableStill
    <3>4. CASE n = m
      <4> SUFFICES ASSUME file'[n] # Torn
                   PROVE  Kept(store'[n], pushed'[n], Wall(n)) /\ file'[n] = store'[n]
        BY <2>1 DEF Durable, Wall
      <4>1. file[n] # Torn /\ file'[n] = store'[n] BY <3>2, <3>4
      <4>2. Kept(store[n], pushed[n], Wall(n)) BY <1>1, <2>1, <3>4, <4>1 DEF Durable
      <4>3. \E Cs : it \in Cs /\ store[n] \in Seq(Cs) /\ pushed[n] \in Seq(Cs)
        <5>1. Items \subseteq Items \cup {it} OBVIOUS
        <5>2. Seq(Items) \subseteq Seq(Items \cup {it}) BY <5>1, SeqGrows
        <5>3. store[n] \in Seq(Items) /\ pushed[n] \in Seq(Items) BY <1>0 DEF B
        <5> HIDE DEF it
        <5> QED BY <5>2, <5>3
      <4> HIDE DEF it, m
      <4>4. Kept(Push(store[n], it, Wall(n)), Append(pushed[n], it), Wall(n))
        BY <4>2, <4>3, KeptPushed
      <4> QED BY <3>2, <3>4, <4>1, <4>4
    <3> QED BY <3>3, <3>4
  <2> QED BY <2>2, <2>3
<1>5. ASSUME NEW m \in Nodes, PopReady(m) PROVE Durable(n)'
  <2>1. /\ store' = [store EXCEPT ![m] = <<>>]
        /\ file' = Saved(m, <<>>)
        /\ pushed' = [pushed EXCEPT ![m] = <<>>]
        /\ UNCHANGED <<now, up>>
    BY <1>5 DEF PopReady, meshVars
  <2>2. CASE n = m
    <3>1. pushed'[n] = <<>> BY <1>0, <2>1, <2>2
    <3> QED BY <3>1, KeptEmpty DEF Durable
  <2>3. CASE n # m
    <3>1. UNCHANGED <<now, up[n], pushed[n], store[n]>> /\ file'[n] = file[n]
      BY <1>0, <2>1, <2>3 DEF Saved
    <3> QED BY <1>1, <3>1, DurableStill
  <2> QED BY <2>2, <2>3
<1>6. ASSUME NEW m \in Nodes, Crash(m) PROVE Durable(n)'
  <2>1. /\ store' = [store EXCEPT ![m] = <<>>]
        /\ file' = file \/ file' = [file EXCEPT ![m] = Torn]
        /\ up' = [up EXCEPT ![m] = FALSE]
        /\ UNCHANGED <<now, pushed>>
    BY <1>6 DEF Crash, MeshCrash
  <2>2. file'[n] = file[n] \/ file'[n] = Torn BY <1>0, <2>1
  <2>3. CASE n = m
    <3>1. ~up'[n] BY <1>0, <2>1, <2>3
    <3> QED BY <1>1, <2>1, <2>2, <3>1 DEF Durable, Wall
  <2>4. CASE n # m
    <3>1. store'[n] = store[n] /\ up'[n] = up[n] BY <1>0, <2>1, <2>4
    <3> QED BY <1>1, <2>1, <2>2, <3>1, DurableStill
  <2> QED BY <2>3, <2>4
<1>7. ASSUME NEW m \in Nodes, Restart(m) PROVE Durable(n)'
  <2>1. /\ store' = [store EXCEPT ![m] = Opened(file[m], Wall(m))]
        /\ up' = [up EXCEPT ![m] = TRUE]
        /\ UNCHANGED <<now, pushed, file>>
    BY <1>7 DEF Restart, MeshRestart
  <2>2. CASE n = m
    <3> SUFFICES ASSUME file[n] # Torn
                 PROVE  Kept(file[n], pushed[n], Wall(n)) /\ Kept(store'[n], pushed[n], Wall(n))
      BY <2>1 DEF Durable, Wall
    <3>1. Kept(file[n], pushed[n], Wall(n)) BY <1>1 DEF Durable
    <3>2. store'[n] = Unexpired(file[n], Wall(n)) BY <1>0, <2>1, <2>2 DEF Opened
    <3>3. file[n] \in Seq(Items) /\ pushed[n] \in Seq(Items) BY <1>0 DEF B
    <3> QED BY <3>1, <3>2, <3>3, KeptOpened
  <2>3. CASE n # m
    <3>1. store'[n] = store[n] /\ up'[n] = up[n] BY <1>0, <2>1, <2>3
    <3> QED BY <1>1, <2>1, <3>1, DurableStill
  <2> QED BY <2>2, <2>3
<1>8. CASE MeshStep /\ UNCHANGED <<now, chatVars>>
  <2>1. UNCHANGED up
    BY <1>8 DEF MeshStep, SeedRestarts, Hello, PeerExpires, DiscoverOnce, KeepAlive
  <2> QED BY <1>2, <1>8, <2>1 DEF chatVars
<1>9. ASSUME NEW c, NEW t, NEW heard, Send(c, t, heard) PROVE Durable(n)'
  BY <1>2, <1>9 DEF Send
<1>10. ASSUME NEW m \in Nodes, ReadLoop(m) PROVE Durable(n)'
  <2>1. PICK s \in Sockets[m] :
          Read(m, s) \/ Look(m, s) \/ Handle(m, s) \/ Consume(m, s) \/ Open(m, s)
    BY <1>10 DEF ReadLoop
  <2> QED BY <1>2, <2>1 DEF Read, Look, Handle, Consume, Open, meshVars
<1>11. ASSUME NEW m \in Nodes, NEW k,
              Greeted(m, k) \/ ReadFlood(m, k) \/ LearnBurn(m, k) \/ Block(m, k)
       PROVE  Durable(n)'
  BY <1>2, <1>11 DEF Greeted, ReadPunch, ReadGreeting, ReadFlood, LearnBurn, Block, meshVars, chatVars
<1>12. ASSUME NEW m \in Nodes, NEW heard,
              SendCarried(m) \/ FloodKeyBundle(m, heard) \/ FloodTimeSync(m, heard)
       PROVE  Durable(n)'
  BY <1>2, <1>12 DEF SendCarried, FloodKeyBundle, FloodTimeSync, Flood, meshVars
<1>13. CASE UNCHANGED vars BY <1>2, <1>13 DEF vars, meshVars, chatVars
<1>14. scene.chats \subseteq DOMAIN Chats BY NodeAssumption DEF NodeInv, MeshTypeOK
<1>15. ASSUME NEW c \in scene.chats,
              \/ Finish(c)
              \/ \E ticketed \in BOOLEAN, heard \in SUBSET {Chats[c].to} : Send(c, ticketed, heard)
       PROVE  Durable(n)'
  BY <1>4, <1>9, <1>14, <1>15
<1>16. ASSUME NEW m \in Nodes,
              \/ ReadLoop(m) \/ PopReady(m) \/ SendCarried(m) \/ Crash(m) \/ Restart(m)
              \/ \E heard \in SUBSET (Nodes \ {m}) : FloodKeyBundle(m, heard) \/ FloodTimeSync(m, heard)
              \/ \E k \in Nodes \ {m} :
                   Greeted(m, k) \/ ReadFlood(m, k) \/ LearnBurn(m, k) \/ Block(m, k)
       PROVE  Durable(n)'
  BY <1>5, <1>6, <1>7, <1>10, <1>11, <1>12, <1>16
<1> QED BY <1>3, <1>8, <1>13, <1>15, <1>16 DEF Next

\* Each of the last StoreMax packets put in the store is there until it expires
\* or dtnLoop takes all, across crashes and restarts, unless the file was torn:
\* for any capacity and any clocks.
THEOREM CarriedIsDurable == Spec => []CarryDurable
<1>1. ASSUME NodeInv, DurableInv PROVE CarryDurable
  <2> SUFFICES ASSUME NEW n \in Nodes, up[n], file[n] # Torn, NEW i \in 1..Len(pushed[n]),
                      i > Len(pushed[n]) - StoreMax, Wall(n) < pushed[n][i].exp
               PROVE  pushed[n][i].id \in Ids(store[n])
    BY DEF CarryDurable
  <2>1. Kept(store[n], pushed[n], Wall(n)) BY <1>1 DEF DurableInv, Durable
  <2>2. PICK j \in 1..Len(store[n]) : store[n][j] = pushed[n][i] BY <2>1 DEF Kept
  <2> QED BY <2>2 DEF Ids
<1> QED BY <1>1, NodeInvInit, NodeInvStep, DurableInit, DurableStep, PTL DEF Spec

-----------------------------------------------------------------------------
(* A broadcast is kept until it is sent *)

\* What holds of a mesh in which nothing has crashed.
Fresh ==
  /\ \A n \in Nodes : up[n] /\ life[n] = 1 /\ \A m \in Nodes : table[n][m] \in {Nowhere, 1}
  /\ \A d \in net : d.src = 1
  /\ \A d \in wire : d.src = 1
  /\ \A d \in floods : d.src = 1

Begun(n) == {c \in DOMAIN Chats : Chats[c].from = n /\ stage[c] # "unsent"}

\* dtnLoop has items only while there is a link; the store has its own chats, once.
Stocked(n) ==
  /\ carried[n] # <<>> => Links(n) # {}
  /\ Single(store[n]) /\ \A i \in 1..Len(store[n]) : Chats[store[n][i].id].from = n
  /\ IsFiniteSet(Begun(n))

Placed(c) ==
  LET n == Chats[c].from
  IN  c \in Ids(store[n]) \cup Ids(carried[n]) \/ \E d \in net : d.chat = c

Awaited(c) ==
  LET n == Chats[c].from
  IN  Cardinality(Begun(n)) <= StoreMax /\ stage[c] = "sent" /\ Chats[c].to = Everyone
        /\ Wall(n) < pkts[c].exp => Placed(c)

QuietInv ==
  crashes = 0 => Fresh /\ (\A n \in Nodes : Stocked(n)) /\ \A c \in DOMAIN Chats : Awaited(c)

\* Every process still has its first address.
LEMMA FreshAddr ==
  ASSUME Fresh, NEW n \in Nodes
  PROVE  Addr(n) = 1 /\ \A m \in Nodes : m \in Links(n) => Arrives(m, table[n][m])
<1>1. \A m \in Nodes : Addr(m) = 1 BY DEF Addr, Fresh
<1> QED BY <1>1 DEF Fresh, Links, Arrives, Nowhere

\* What is sent to all links goes to one, if there is one.
LEMMA SentReaches ==
  ASSUME Fresh, NEW n \in Nodes, Links(n) # {}, NEW c, NEW hops
  PROVE  \E d \in Sent(c, n, Nodes, hops) : d.chat = c
<1>1. PICK m \in Links(n) : TRUE OBVIOUS
<1>2. m \in Nodes /\ Arrives(m, table[n][m]) BY <1>1, FreshAddr DEF Links
<1>3. Datagram(c, n, m, hops) \in Sent(c, n, Nodes, hops) BY <1>1, <1>2 DEF Sent
<1> QED BY <1>3 DEF Datagram

LEMMA SentFresh ==
  ASSUME Fresh, NEW n \in Nodes, NEW c, NEW targets, NEW hops
  PROVE  \A d \in Sent(c, n, targets, hops) : d.src = 1
BY FreshAddr DEF Sent, Datagram

\* A step in which nobody crashes only adds links.
LEMMA FreshKept ==
  ASSUME MeshTypeOK, Fresh, UNCHANGED <<up, life>>,
         table' = table \/ \E n \in Nodes, m \in Nodes : table' = Touch(n, m, 1),
         \A d \in net' : d \in net \/ d.src = 1,
         \A d \in wire' : d \in wire \/ d.src = 1,
         \A d \in floods' : d \in floods \/ d.src = 1
  PROVE  Fresh' /\ \A n \in Nodes : Links(n) \subseteq Links(n)'
<1> DEFINE Goes == \A n, m \in Nodes :
             /\ table'[n][m] \in {Nowhere, 1}
             /\ table[n][m] # Nowhere => table'[n][m] # Nowhere
<1>1. Goes
  <2>1. CASE table' = table BY <2>1 DEF Fresh
  <2>2. ASSUME NEW n \in Nodes, NEW m \in Nodes, table' = Touch(n, m, 1)
        PROVE  Goes
    <3>1. table \in [Nodes -> [Nodes -> Nat]] BY DEF MeshTypeOK
    <3>2. \A k, l \in Nodes : table'[k][l] = IF k = n /\ l = m THEN 1 ELSE table[k][l]
      BY <2>2, <3>1 DEF Touch
    <3> QED BY <3>2 DEF Fresh, Nowhere
  <2> HIDE DEF Goes
  <2> QED BY <2>1, <2>2
<1>2. \A n \in Nodes : Links(n) \subseteq Links(n)' BY <1>1 DEF Links
<1>3. Fresh' BY <1>1 DEF Fresh
<1> QED BY <1>2, <1>3

LEMMA IngestFresh ==
  ASSUME Fresh, NEW n \in Nodes, NEW entries, NEW heard, Ingest(n, entries, heard)
  PROVE  \A d \in wire' : d \in wire \/ d.src = 1
BY FreshAddr DEF Ingest, Envelope

\* The steps of read loops.
LEMMA LoopFresh ==
  ASSUME NodeInv, Fresh, NEW n \in Nodes, ReadLoop(n)
  PROVE  Fresh' /\ \A m \in Nodes : Links(m) \subseteq Links(m)'
<1>0. MeshTypeOK BY DEF NodeInv
<1>1. ASSUME NEW s \in Sockets[n], Read(n, s)
      PROVE  UNCHANGED <<up, life, net, wire, floods>> /\ \E m \in Nodes : table' = Touch(n, m, 1)
  <2>1. PICK d \in net : table' = Touch(n, d.from, d.src) BY <1>1 DEF Read
  <2>2. d.from \in Nodes BY <2>1 DEF NodeInv, Spread, Letters
  <2>3. d.src = 1 BY <2>1 DEF Fresh
  <2>4. UNCHANGED <<up, life, net, wire, floods>> BY <1>1 DEF Read
  <2> QED BY <2>1, <2>2, <2>3, <2>4
<1>2. ASSUME NEW s \in Sockets[n], Look(n, s) \/ Handle(n, s) \/ Consume(n, s) \/ Open(n, s)
      PROVE  UNCHANGED <<up, life, table, wire, floods>> /\ \A d \in net' : d \in net \/ d.src = 1
  <2>1. UNCHANGED <<up, life, table, wire, floods>> BY <1>2 DEF Look, Handle, Consume, Open, meshVars
  <2>2. CASE UNCHANGED net BY <2>1, <2>2
  <2>3. CASE Handle(n, s)
    <3>1. net' = net \/ \E c, targets, hops : net' = net \cup Sent(c, n, targets, hops)
      BY <2>3 DEF Handle
    <3> QED BY <2>1, <3>1, SentFresh
  <2> QED BY <1>2, <2>2, <2>3 DEF Look, Consume, Open
<1> QED BY <1>0, <1>1, <1>2, FreshKept DEF ReadLoop

\* The steps that the store and its owner can notice.
Noticed ==
  \/ UNCHANGED <<carried, store, stage, pkts>> /\ net \subseteq net' /\ now' \in {now, now + 1}
  \/ \E c \in DOMAIN Chats :
       Finish(c) \/ \E t \in BOOLEAN, heard \in SUBSET {Chats[c].to} : Send(c, t, heard)
  \/ \E n \in Nodes : PopReady(n) \/ SendCarried(n)

Calm == Fresh' /\ (\A n \in Nodes : Links(n) \subseteq Links(n)') /\ Noticed

\* A step of the mesh alone.
LEMMA MeshCalm ==
  ASSUME NodeInv, Fresh, MeshStep, UNCHANGED <<now, chatVars>>, crashes' = crashes
  PROVE  Calm
<1>0. MeshTypeOK BY DEF NodeInv
<1>1. Noticed BY DEF Noticed, chatVars
<1>2. UNCHANGED <<up, life, table, net, floods>>
  BY DEF MeshStep, chatVars, SeedRestarts, Hello, PeerExpires, DiscoverOnce, KeepAlive
<1>3. ASSUME NEW n \in Nodes, NEW heard, DiscoverOnce(n, heard) \/ KeepAlive(n, heard)
      PROVE  \A d \in wire' : d \in wire \/ d.src = 1
  <2>1. CASE DiscoverOnce(n, heard) BY <2>1, IngestFresh DEF DiscoverOnce
  <2>2. CASE KeepAlive(n, heard) BY <2>2, FreshAddr DEF KeepAlive, Envelope
  <2> QED BY <1>3, <2>1, <2>2
<1>4. \A d \in wire' : d \in wire \/ d.src = 1
  BY <1>3 DEF MeshStep, SeedRestarts, Hello, PeerExpires
<1>5. \A d \in net' : d \in net BY <1>2
<1>6. \A d \in floods' : d \in floods BY <1>2
<1> QED BY <1>0, <1>1, <1>2, <1>4, <1>5, <1>6, FreshKept DEF Calm

\* A step of a read loop.
LEMMA LoopCalm ==
  ASSUME NodeInv, Fresh, NEW n \in Nodes, ReadLoop(n)
  PROVE  Calm /\ crashes' = crashes
<1>1. PICK s \in Sockets[n] : Read(n, s) \/ Look(n, s) \/ Handle(n, s) \/ Consume(n, s) \/ Open(n, s)
  BY DEF ReadLoop
<1>2. /\ UNCHANGED <<carried, store, stage, pkts, now, crashes>>
      /\ net' = net \/ \E c, targets, hops : net' = net \cup Sent(c, n, targets, hops)
  BY <1>1 DEF Read, Look, Handle, Consume, Open, meshVars
<1>3. net \subseteq net' BY <1>2
<1> QED BY <1>2, <1>3, LoopFresh DEF Calm, Noticed

\* A step of a node and another.
LEMMA PairCalm ==
  ASSUME NodeInv, Fresh, NEW n \in Nodes, NEW m \in Nodes,
         Greeted(n, m) \/ ReadFlood(n, m) \/ LearnBurn(n, m) \/ Block(n, m)
  PROVE  Calm /\ crashes' = crashes
<1>0. MeshTypeOK BY DEF NodeInv
<1>1. Noticed /\ UNCHANGED <<up, life, net, crashes>>
  BY DEF Noticed, Greeted, ReadFlood, LearnBurn, Block, chatVars, meshVars, ReadPunch, ReadGreeting
<1>2. ASSUME Greeted(n, m)
      PROVE  UNCHANGED floods /\ table' = Touch(n, m, 1) /\ \A d \in wire' : d \in wire \/ d.src = 1
  <2>1. UNCHANGED floods BY <1>2 DEF Greeted, chatVars
  <2>2. PICK f \in wire : /\ table' = Touch(n, m, f.src)
                          /\ wire' \subseteq wire \cup {Envelope("greet", n, m)}
    BY <1>2 DEF Greeted, ReadPunch, ReadGreeting
  <2>3. f.src = 1 BY <2>2 DEF Fresh
  <2>4. Envelope("greet", n, m).src = 1 BY FreshAddr DEF Envelope
  <2> QED BY <2>1, <2>2, <2>3, <2>4
<1>3. ASSUME ReadFlood(n, m)
      PROVE  UNCHANGED wire /\ table' = Touch(n, m, 1) /\ \A d \in floods' : d \in floods \/ d.src = 1
  <2> DEFINE Relayed(f, x) == [f EXCEPT !.from = n, !.to = x, !.src = Addr(n), !.hops = @ + 1]
  <2>1. PICK f \in floods :
          /\ table' = Touch(n, m, f.src)
          /\ UNCHANGED wire
          /\ floods' \subseteq floods \cup {Relayed(f, x) : x \in Nodes}
    BY <1>3 DEF ReadFlood, Links
  <2>2. f.src = 1 /\ f \in Controls BY <2>1 DEF Fresh, NodeInv, Stamped
  <2>3. \A x \in Nodes : Relayed(f, x).src = 1 BY <2>2, FreshAddr DEF Controls
  <2> HIDE DEF Relayed
  <2> QED BY <2>1, <2>2, <2>3
<1>4. ASSUME LearnBurn(n, m) \/ Block(n, m) PROVE UNCHANGED <<wire, floods, table>>
  BY <1>4 DEF LearnBurn, Block, meshVars
<1>5. Fresh' /\ \A k \in Nodes : Links(k) \subseteq Links(k)'
  BY <1>0, <1>1, <1>2, <1>3, <1>4, FreshKept
<1> QED BY <1>1, <1>5 DEF Calm

\* A step of a node that stores or sends.
LEMMA OwnCalm ==
  ASSUME NodeInv, Fresh, NEW n \in Nodes,
         \/ PopReady(n) \/ SendCarried(n)
         \/ \E heard : FloodKeyBundle(n, heard) \/ FloodTimeSync(n, heard)
  PROVE  Calm /\ crashes' = crashes
<1>0. MeshTypeOK BY DEF NodeInv
<1>1. UNCHANGED <<up, life, table, wire, crashes>>
  BY DEF PopReady, SendCarried, FloodKeyBundle, FloodTimeSync, Flood, meshVars
<1>2. Noticed BY DEF Noticed, FloodKeyBundle, FloodTimeSync, Flood
<1>3. \A d \in net' : d \in net \/ d.src = 1
  <2>1. CASE SendCarried(n)
    <3>1. \E c, targets : net' = net \cup Sent(c, n, targets, 0) BY <2>1 DEF SendCarried
    <3> QED BY <3>1, SentFresh
  <2>2. CASE UNCHANGED net BY <2>2
  <2> QED BY <2>1, <2>2 DEF PopReady, FloodKeyBundle, FloodTimeSync, Flood
<1>4. \A d \in floods' : d \in floods \/ d.src = 1
  <2>1. ASSUME NEW kind, NEW heard, Flood(n, kind, heard)
        PROVE  \A d \in floods' : d \in floods \/ d.src = 1
    BY <2>1, FreshAddr DEF Flood
  <2> QED BY <2>1 DEF PopReady, SendCarried, FloodKeyBundle, FloodTimeSync
<1> QED BY <1>0, <1>1, <1>2, <1>3, <1>4, FreshKept DEF Calm

\* A step of the sender of a chat.
LEMMA ChatCalm ==
  ASSUME NodeInv, Fresh, NEW c \in DOMAIN Chats,
         Finish(c) \/ \E t \in BOOLEAN, heard \in SUBSET {Chats[c].to} : Send(c, t, heard)
  PROVE  Calm /\ crashes' = crashes
<1>0. MeshTypeOK /\ Chats[c].from \in Nodes BY NodeAssumption DEF NodeInv
<1>1. UNCHANGED <<up, life, table, floods, crashes>> BY DEF Finish, Send, meshVars
<1>2. Noticed BY DEF Noticed
<1>3. \A d \in net' : d \in net \/ d.src = 1
  <2>1. net' = net \/ net' = net \cup Sent(c, Chats[c].from, Nodes, 0) BY DEF Finish, Send
  <2> QED BY <1>0, <2>1, SentFresh
<1>4. \A d \in wire' : d \in wire \/ d.src = 1
  <2>1. CASE UNCHANGED wire BY <2>1
  <2>2. ASSUME NEW entries, NEW heard, Ingest(Chats[c].from, entries, heard)
        PROVE  \A d \in wire' : d \in wire \/ d.src = 1
    BY <1>0, <2>2, IngestFresh
  <2>3. UNCHANGED wire \/ \E entries, heard : Ingest(Chats[c].from, entries, heard)
    BY DEF Finish, Send, meshVars
  <2> QED BY <2>1, <2>2, <2>3
<1> QED BY <1>0, <1>1, <1>2, <1>3, <1>4, FreshKept DEF Calm

\* While nothing crashes every step is calm.
LEMMA CalmStep ==
  ASSUME NodeInv, QuietInv, [Next]_vars, crashes' = 0
  PROVE  crashes = 0 /\ Calm
<1>0. crashes \in Nat /\ scene.chats \subseteq DOMAIN Chats
  BY NodeAssumption DEF NodeInv, MeshTypeOK
<1>1. CASE UNCHANGED vars
  <2>1. crashes = 0 /\ Fresh /\ MeshTypeOK BY <1>1 DEF vars, meshVars, QuietInv, NodeInv
  <2>2. Noticed BY <1>1 DEF vars, chatVars, Noticed
  <2>3. UNCHANGED <<up, life, table, net, wire, floods>> BY <1>1 DEF vars, meshVars, chatVars
  <2>4. Fresh' /\ \A n \in Nodes : Links(n) \subseteq Links(n)' BY <2>1, <2>3, FreshKept
  <2> QED BY <2>1, <2>2, <2>4 DEF Calm
<1>2. CASE MeshStep /\ UNCHANGED <<now, chatVars>>
  <2>1. crashes' \in {crashes, crashes + 1}
    BY <1>2 DEF MeshStep, SeedRestarts, Hello, PeerExpires, DiscoverOnce, KeepAlive
  <2>2. crashes = 0 /\ crashes' = crashes BY <1>0, <2>1
  <2> QED BY <1>2, <2>2, MeshCalm DEF QuietInv
<1>3. CASE Tick
  <2>1. crashes = 0 /\ Fresh /\ MeshTypeOK BY <1>3 DEF Tick, meshVars, QuietInv, NodeInv
  <2>2. Noticed BY <1>3 DEF Tick, chatVars, Noticed
  <2>3. UNCHANGED <<up, life, table, net, wire, floods>> BY <1>3 DEF Tick, meshVars, chatVars
  <2>4. Fresh' /\ \A n \in Nodes : Links(n) \subseteq Links(n)' BY <2>1, <2>3, FreshKept
  <2> QED BY <2>1, <2>2, <2>4 DEF Calm
<1>4. ASSUME NEW n \in Nodes, Crash(n) PROVE FALSE
  <2>1. crashes' = crashes + 1 BY <1>4 DEF Crash, MeshCrash
  <2> QED BY <1>0, <2>1
<1>5. ASSUME NEW n \in Nodes, Restart(n) PROVE FALSE
  <2>1. ~up[n] /\ crashes' = crashes BY <1>5 DEF Restart, MeshRestart
  <2> QED BY <2>1 DEF QuietInv, Fresh
<1>6. ASSUME NEW n \in Nodes, ReadLoop(n) PROVE crashes = 0 /\ Calm
  <2>1. crashes' = crashes
    BY <1>6 DEF ReadLoop, Read, Look, Handle, Consume, Open, meshVars
  <2> QED BY <1>6, <2>1, LoopCalm DEF QuietInv
<1>7. ASSUME NEW n \in Nodes, NEW m \in Nodes,
             Greeted(n, m) \/ ReadFlood(n, m) \/ LearnBurn(n, m) \/ Block(n, m)
      PROVE  crashes = 0 /\ Calm
  <2>1. crashes' = crashes
    BY <1>7 DEF Greeted, ReadFlood, LearnBurn, Block, meshVars, ReadPunch, ReadGreeting
  <2> QED BY <1>7, <2>1, PairCalm DEF QuietInv
<1>8. ASSUME NEW n \in Nodes,
             \/ PopReady(n) \/ SendCarried(n)
             \/ \E heard : FloodKeyBundle(n, heard) \/ FloodTimeSync(n, heard)
      PROVE  crashes = 0 /\ Calm
  <2>1. crashes' = crashes
    BY <1>8 DEF PopReady, SendCarried, FloodKeyBundle, FloodTimeSync, Flood, meshVars
  <2> QED BY <1>8, <2>1, OwnCalm DEF QuietInv
<1>9. ASSUME NEW c \in scene.chats,
             \/ Finish(c)
             \/ \E ticketed \in BOOLEAN, heard \in SUBSET {Chats[c].to} : Send(c, ticketed, heard)
      PROVE  crashes = 0 /\ Calm
  <2>1. crashes' = crashes BY <1>9 DEF Finish, Send, meshVars
  <2>2. c \in DOMAIN Chats BY <1>0
  <2> QED BY <1>9, <2>1, <2>2, ChatCalm DEF QuietInv
<1>10. ASSUME NEW n \in Nodes,
              \/ ReadLoop(n) \/ PopReady(n) \/ SendCarried(n) \/ Crash(n) \/ Restart(n)
              \/ \E heard \in SUBSET (Nodes \ {n}) : FloodKeyBundle(n, heard) \/ FloodTimeSync(n, heard)
              \/ \E m \in Nodes \ {n} :
                   Greeted(n, m) \/ ReadFlood(n, m) \/ LearnBurn(n, m) \/ Block(n, m)
       PROVE  crashes = 0 /\ Calm
  BY <1>4, <1>5, <1>6, <1>7, <1>8, <1>10
<1> QED BY <1>1, <1>2, <1>3, <1>9, <1>10 DEF Next

\* A queue without repetition is no longer than the set its packets are from.
LEMMA SingleIsShort ==
  ASSUME NEW S, NEW q \in Seq(S), Single(q), NEW A, IsFiniteSet(A),
         \A i \in 1..Len(q) : q[i].id \in A
  PROVE  Len(q) <= Cardinality(A) /\ Cardinality(A) \in Nat
<1> DEFINE f == [i \in 1..Len(q) |-> q[i].id]
<1>1. f \in Injection(1..Len(q), A) BY DEF Single, Injection, IsInjective
<1>2. IsFiniteSet(1..Len(q)) /\ Cardinality(1..Len(q)) = Len(q)
  <2>1. Len(q) \in Nat OBVIOUS
  <2>2. Cardinality(1..Len(q)) = IF 1 > Len(q) THEN 0 ELSE Len(q) - 1 + 1
    BY <2>1, FS_Interval
  <2> QED BY <2>1, <2>2, FS_Interval
<1>3. Cardinality(1..Len(q)) <= Cardinality(A) BY <1>1, FS_Injection
<1>4. Cardinality(A) \in Nat BY FS_CardinalityType
<1> QED BY <1>2, <1>3, <1>4

\* When a chat begins, its sender has begun one more.
LEMMA BegunGrows ==
  ASSUME Spread, NEW c \in DOMAIN Chats, NEW t \in BOOLEAN, NEW heard, Send(c, t, heard),
         NEW n, IsFiniteSet(Begun(n))
  PROVE  /\ IsFiniteSet(Begun(n))' /\ Cardinality(Begun(n)) <= Cardinality(Begun(n)')
<1>1. stage' = stage \/ stage' = [stage EXCEPT ![c] = "mining"] BY DEF Send
<1>2. stage[c] = "unsent" /\ stage \in [DOMAIN Chats -> {"unsent", "mining", "sent", "lost"}]
  BY DEF Send, Spread
<1>3. CASE stage' = stage
  <2>1. Begun(n)' = Begun(n) BY <1>3 DEF Begun
  <2>2. Cardinality(Begun(n)) \in Nat BY FS_CardinalityType
  <2> QED BY <2>1, <2>2
<1>4. CASE stage' = [stage EXCEPT ![c] = "mining"] /\ Chats[c].from = n
  <2>1. Begun(n)' = Begun(n) \cup {c} BY <1>2, <1>4 DEF Begun
  <2>2. IsFiniteSet(Begun(n) \cup {c}) BY FS_AddElement
  <2>3. Cardinality(Begun(n)) <= Cardinality(Begun(n) \cup {c}) BY <2>2, FS_Subset
  <2> QED BY <2>1, <2>2, <2>3
<1>5. CASE stage' = [stage EXCEPT ![c] = "mining"] /\ Chats[c].from # n
  <2>1. Begun(n)' = Begun(n) BY <1>2, <1>5 DEF Begun
  <2>2. Cardinality(Begun(n)) \in Nat BY FS_CardinalityType
  <2> QED BY <2>1, <2>2
<1> QED BY <1>1, <1>3, <1>4, <1>5

\* The others have begun as many as before.
LEMMA BegunStill ==
  ASSUME Spread, NEW n,
         stage' = stage \/ \E c \in DOMAIN Chats : stage[c] = "mining" /\ stage' = [stage EXCEPT ![c] = "sent"]
  PROVE  Begun(n)' = Begun(n)
BY DEF Begun, Spread

\* An item is of a chat that departed, and stamped like its packet.
LEMMA ItemIs ==
  ASSUME NEW it \in Items
  PROVE  it.id \in Departed /\ it.exp = pkts[it.id].exp /\ it.target = Chats[it.id].to
<1>1. PICK c \in Departed : it = Item(c) BY DEF Items
<1> QED BY <1>1 DEF Item

LEMMA PlacedStill ==
  ASSUME NEW c \in DOMAIN Chats, Placed(c), net \subseteq net', UNCHANGED <<carried, store>>
  PROVE  Placed(c)'
BY DEF Placed, Ids

\* A push to a store that has room keeps what has not expired.
LEMMA PushAdds ==
  ASSUME NEW S, NEW q \in Seq(S), NEW it \in S, NEW wall, Single(q),
         \A i \in 1..Len(q) : q[i].id # it.id, NEW v, v = Push(q, it, wall)
  PROVE  /\ Single(v) /\ it.id \in Ids(v)
         /\ \A j \in 1..Len(v) : v[j] = it \/ \E i \in 1..Len(q) : v[j] = q[i]
         /\ Len(q) < StoreMax => \A i \in 1..Len(q) : wall < q[i].exp => q[i].id \in Ids(v)
<1>0. IsPushed(S, q, it, wall, v) BY PushKeeps
<1>1. /\ \E j \in 1..Len(v) : v[j] = it
      /\ \A i \in 1..Len(q) : wall < q[i].exp /\ Len(q) - i < StoreMax - 1 =>
           \E j \in 1..Len(v) : v[j] = q[i]
      /\ \A j \in 1..Len(v) : v[j] = it \/ \E i \in 1..Len(q) : v[j] = q[i]
      /\ Single(v)
  BY <1>0 DEF IsPushed
<1>2. Len(q) \in Nat /\ StoreMax \in Nat BY CarryAssumption
<1>3. Len(q) < StoreMax => \A i \in 1..Len(q) : Len(q) - i < StoreMax - 1 BY <1>2
<1> QED BY <1>1, <1>3 DEF Ids

\* A node stocks what it begins, and sends or keeps what it stocks: when it
\* finishes a chat, ...
LEMMA FinishQuiet ==
  ASSUME NodeInv, Fresh, \A k \in Nodes : Stocked(k), \A x \in DOMAIN Chats : Awaited(x), Calm,
         NEW d \in DOMAIN Chats, Finish(d)
  PROVE  (\A k \in Nodes : Stocked(k)') /\ \A x \in DOMAIN Chats : Awaited(x)'
<1> DEFINE n == Chats[d].from
           it == Item(d)
<1>0. /\ n \in Nodes /\ Spread /\ stage[d] = "mining" /\ UNCHANGED <<now, pkts, carried>>
      /\ stage' = [stage EXCEPT ![d] = "sent"]
      /\ \A k \in Nodes : store[k] \in Seq(Items)
  BY NodeAssumption DEF NodeInv, Finish, Spread
<1>1. \A k : Begun(k)' = Begun(k) BY <1>0, BegunStill
<1>2. \A k \in Nodes : Links(k) \subseteq Links(k)' BY DEF Calm
<1>3. \A x \in DOMAIN Chats : x # d => stage'[x] = stage[x] BY <1>0 DEF Spread
<1>4. net \subseteq net' BY DEF Finish
<1>5. \A i \in 1..Len(store[n]) : store[n][i].id \in Begun(n) \ {d}
  <2> SUFFICES ASSUME NEW i \in 1..Len(store[n]) PROVE store[n][i].id \in Begun(n) \ {d} OBVIOUS
  <2>1. store[n][i] \in Items /\ Chats[store[n][i].id].from = n BY <1>0 DEF Stocked
  <2>2. store[n][i].id \in Departed BY <2>1, ItemIs
  <2> QED BY <1>0, <2>1, <2>2 DEF Departed, Begun
<1>6. \A i \in 1..Len(store[n]) : store[n][i].id # d BY <1>5
<1>7. CASE Links(n) = {}
  <2> DEFINE v == Push(store[n], it, Wall(n))
             S == Items \cup {it}
  <2>1. store' = [store EXCEPT ![n] = v] BY <1>7 DEF Finish, Item
  <2>2. store \in [Nodes -> Seq(Items)] BY <1>0 DEF Spread
  <2>3. store'[n] = v /\ \A k \in Nodes : k # n => store'[k] = store[k] BY <1>0, <2>1, <2>2
  <2>4. store[n] \in Seq(S) /\ it \in S BY <1>0, SeqGrows
  <2>5. it.id = d BY DEF Item
  <2>6. Single(store[n]) /\ \A i \in 1..Len(store[n]) : Chats[store[n][i].id].from = n
    BY <1>0 DEF Stocked
  <2> HIDE DEF it, S, v
  <2>9. /\ Single(v) /\ it.id \in Ids(v)
        /\ \A j \in 1..Len(v) : v[j] = it \/ \E i \in 1..Len(store[n]) : v[j] = store[n][i]
        /\ Len(store[n]) < StoreMax =>
             \A i \in 1..Len(store[n]) : Wall(n) < store[n][i].exp => store[n][i].id \in Ids(v)
    <3>1. v = Push(store[n], it, Wall(n)) BY DEF v
    <3>2. \A i \in 1..Len(store[n]) : store[n][i].id # it.id BY <1>6, <2>5
    <3> QED BY <2>4, <2>6, <3>1, <3>2, PushAdds
  <2>7. \A k \in Nodes : Stocked(k)'
    <3>1. \A j \in 1..Len(v) : Chats[v[j].id].from = n BY <2>9, <2>5, <2>6
    <3> QED BY <1>0, <1>1, <1>2, <2>3, <2>9, <3>1 DEF Stocked
  <2>8. ASSUME NEW x \in DOMAIN Chats PROVE Awaited(x)'
    <3> SUFFICES ASSUME (Cardinality(Begun(Chats[x].from)) <= StoreMax)', stage'[x] = "sent",
                        Chats[x].to = Everyone, Wall(Chats[x].from)' < pkts'[x].exp
                 PROVE  Placed(x)'
      BY DEF Awaited
    <3>1. CASE x = d
      <4>1. d \in Ids(store'[n]) BY <2>3, <2>5, <2>9
      <4> QED BY <3>1, <4>1 DEF Placed, Ids
    <3>2. CASE x # d
      <4>1. Cardinality(Begun(Chats[x].from)) <= StoreMax BY <1>1
      <4>2. Wall(Chats[x].from) < pkts[x].exp BY <1>0 DEF Wall
      <4>3. Placed(x) BY <1>3, <3>2, <4>1, <4>2 DEF Awaited
      <4>4. CASE x \in Ids(store[n]) /\ Chats[x].from = n
        <5>1. PICK i \in 1..Len(store[n]) : store[n][i].id = x BY <4>4 DEF Ids
        <5>2. Wall(n) < store[n][i].exp
          <6>1. store[n][i] \in Items BY <1>0
          <6>2. store[n][i].exp = pkts[x].exp BY <5>1, <6>1, ItemIs
          <6> QED BY <4>2, <4>4, <6>2
        <5>3. Len(store[n]) <= StoreMax - 1
          <6>1. IsFiniteSet(Begun(n)) BY <1>0 DEF Stocked
          <6>2. IsFiniteSet(Begun(n) \ {d}) BY <6>1, FS_RemoveElement
          <6>3. d \in Begun(n) BY <1>0 DEF Begun
          <6>4. Cardinality(Begun(n) \ {d}) = Cardinality(Begun(n)) - 1
            BY <6>1, <6>3, FS_RemoveElement
          <6>5. Len(store[n]) <= Cardinality(Begun(n) \ {d})
            <7>1. Single(store[n]) BY <1>0 DEF Stocked
            <7> QED BY <1>0, <1>5, <6>2, <7>1, SingleIsShort
          <6>6. Cardinality(Begun(n)) \in Nat BY <6>1, FS_CardinalityType
          <6>7. Cardinality(Begun(n)) <= StoreMax BY <4>1, <4>4
          <6> QED BY <1>0, <6>4, <6>5, <6>6, <6>7, CarryAssumption
        <5>4. Len(store[n]) < StoreMax BY <1>0, <5>3, CarryAssumption
        <5>5. x \in Ids(store'[n]) BY <2>3, <2>9, <5>1, <5>2, <5>4
        <5> QED BY <4>4, <5>5 DEF Placed, Ids
      <4>5. CASE ~(x \in Ids(store[n]) /\ Chats[x].from = n)
        <5>1. Chats[x].from \in Nodes BY NodeAssumption
        <5>2. Chats[x].from = n \/ store'[Chats[x].from] = store[Chats[x].from] BY <2>3, <5>1
        <5> QED BY <1>0, <1>4, <4>3, <4>5, <5>2 DEF Placed, Ids
      <4> QED BY <4>4, <4>5
    <3> QED BY <3>1, <3>2
  <2> QED BY <2>7, <2>8
<1>8. CASE Links(n) # {}
  <2>1. UNCHANGED store /\ net' = net \cup Sent(d, n, Nodes, 0) BY <1>8 DEF Finish
  <2>2. \A k \in Nodes : Stocked(k)' BY <1>0, <1>1, <1>2, <2>1 DEF Stocked, Single
  <2>3. ASSUME NEW x \in DOMAIN Chats PROVE Awaited(x)'
    <3> SUFFICES ASSUME (Cardinality(Begun(Chats[x].from)) <= StoreMax)', stage'[x] = "sent",
                        Chats[x].to = Everyone, Wall(Chats[x].from)' < pkts'[x].exp
                 PROVE  Placed(x)'
      BY DEF Awaited
    <3>1. CASE x = d
      <4>1. \E l \in Sent(d, n, Nodes, 0) : l.chat = d BY <1>0, <1>8, SentReaches
      <4> QED BY <2>1, <3>1, <4>1 DEF Placed
    <3>2. CASE x # d
      <4>1. Cardinality(Begun(Chats[x].from)) <= StoreMax BY <1>1
      <4>2. Wall(Chats[x].from) < pkts[x].exp BY <1>0 DEF Wall
      <4>3. Placed(x) BY <1>3, <3>2, <4>1, <4>2 DEF Awaited
      <4> QED BY <1>0, <1>4, <2>1, <4>3, PlacedStill
    <3> QED BY <3>1, <3>2
  <2> QED BY <2>2, <2>3
<1> QED BY <1>7, <1>8

\* ... when dtnLoop takes the items, or sends one, ...
LEMMA OwnQuiet ==
  ASSUME NodeInv, Fresh, \A k \in Nodes : Stocked(k), \A x \in DOMAIN Chats : Awaited(x), Calm,
         NEW n \in Nodes, PopReady(n) \/ SendCarried(n)
  PROVE  (\A k \in Nodes : Stocked(k)') /\ \A x \in DOMAIN Chats : Awaited(x)'
<1>0. /\ Spread /\ UNCHANGED <<now, pkts, stage>>
      /\ store \in [Nodes -> Seq(Items)] /\ carried \in [Nodes -> Seq(Items)]
  BY DEF NodeInv, PopReady, SendCarried, Spread
<1>1. \A k : Begun(k)' = Begun(k) BY <1>0, BegunStill
<1>2. \A k \in Nodes : Links(k) \subseteq Links(k)' BY DEF Calm
<1>3. ASSUME NEW x \in DOMAIN Chats, Placed(x) => Placed(x)' \/ Chats[x].to # Everyone \/ Wall(Chats[x].from) >= pkts[x].exp
      PROVE  Awaited(x)'
  <2> SUFFICES ASSUME (Cardinality(Begun(Chats[x].from)) <= StoreMax)', stage'[x] = "sent",
                      Chats[x].to = Everyone, Wall(Chats[x].from)' < pkts'[x].exp
               PROVE  Placed(x)'
    BY DEF Awaited
  <2>1. Cardinality(Begun(Chats[x].from)) <= StoreMax BY <1>1
  <2>2. Wall(Chats[x].from) < pkts[x].exp BY <1>0 DEF Wall
  <2>3. Chats[x].from \in Nodes /\ pkts[x].exp \in Int BY NodeAssumption DEF NodeInv, Stamped, Packets
  <2>4. Wall(Chats[x].from) \in Int BY <2>3, NetTimeTyped DEF NodeInv
  <2>5. Placed(x) BY <1>0, <2>1, <2>2 DEF Awaited
  <2> QED BY <1>3, <2>2, <2>3, <2>4, <2>5
<1>4. CASE PopReady(n)
  <2> DEFINE q == store[n]
             u == Unexpired(store[n], Wall(n))
  <2>1. /\ store' = [store EXCEPT ![n] = <<>>] /\ carried' = [carried EXCEPT ![n] = u]
        /\ carried[n] = <<>> /\ Links(n) # {} /\ UNCHANGED net
    BY <1>4 DEF PopReady
  <2>2. /\ store'[n] = <<>> /\ carried'[n] = u
        /\ \A k \in Nodes : k # n => store'[k] = store[k] /\ carried'[k] = carried[k]
    BY <1>0, <2>1
  <2>3. \A k \in Nodes : Stocked(k)'
    <3>1. Single(<<>>) /\ \A i \in 1..Len(<<>>) : Chats[<<>>[i].id].from = n BY DEF Single
    <3> HIDE DEF u
    <3> QED BY <1>1, <1>2, <2>1, <2>2, <3>1 DEF Stocked
  <2>4. \A i \in 1..Len(q) : Wall(n) < q[i].exp => q[i].id \in Ids(u)
    <3>1. q \in Seq(Items) BY <1>0
    <3> HIDE DEF q
    <3>2. \A i \in 1..Len(q) : Wall(n) < q[i].exp =>
            \E j \in 1..Len(Unexpired(q, Wall(n))) : Unexpired(q, Wall(n))[j] = q[i]
      BY <3>1, UnexpiredKeeps
    <3>3. u = Unexpired(q, Wall(n)) BY DEF q
    <3> HIDE DEF u
    <3> QED BY <3>2, <3>3 DEF Ids
  <2>5. ASSUME NEW x \in DOMAIN Chats, Placed(x), Wall(Chats[x].from) < pkts[x].exp PROVE Placed(x)'
    <3>1. CASE x \in Ids(store[n]) /\ Chats[x].from = n
      <4>1. PICK i \in 1..Len(q) : q[i].id = x BY <3>1 DEF Ids
      <4>2. q[i] \in Items BY <1>0
      <4>3. q[i].exp = pkts[x].exp BY <4>1, <4>2, ItemIs
      <4> HIDE DEF q, u
      <4>4. x \in Ids(u) BY <2>4, <2>5, <3>1, <4>1, <4>3
      <4>5. x \in Ids(carried'[n]) BY <2>2, <4>4
      <4> QED BY <3>1, <4>5 DEF Placed, Ids
    <3>2. CASE ~(x \in Ids(store[n]) /\ Chats[x].from = n)
      <4>1. Chats[x].from \in Nodes BY NodeAssumption
      <4>2. Ids(<<>>) = {} BY DEF Ids
      <4>3. CASE Chats[x].from = n
        <5>1. \E d \in net : d.chat = x BY <2>1, <2>5, <3>2, <4>2, <4>3 DEF Placed
        <5> QED BY <2>1, <5>1 DEF Placed
      <4>4. CASE Chats[x].from # n BY <2>1, <2>2, <2>5, <4>1, <4>4 DEF Placed, Ids
      <4> QED BY <4>3, <4>4
    <3> QED BY <3>1, <3>2
  <2>6. ASSUME NEW x \in DOMAIN Chats PROVE Awaited(x)'
    <3>1. Chats[x].from \in Nodes /\ pkts[x].exp \in Int BY NodeAssumption DEF NodeInv, Stamped, Packets
    <3>2. Wall(Chats[x].from) \in Int BY <3>1, NetTimeTyped DEF NodeInv
    <3>3. Placed(x) => Placed(x)' \/ Wall(Chats[x].from) >= pkts[x].exp BY <2>5, <3>1, <3>2
    <3> QED BY <1>3, <3>3
  <2> QED BY <2>3, <2>6
<1>5. CASE SendCarried(n)
  <2> DEFINE it == Head(carried[n])
             t == IF it.target = Everyone THEN Nodes ELSE {it.target}
  <2>1. /\ carried[n] # <<>> /\ carried' = [carried EXCEPT ![n] = Tail(@)]
        /\ net' = net \cup Sent(it.id, n, t, 0) /\ UNCHANGED store
    BY <1>5 DEF SendCarried
  <2>2. carried'[n] = Tail(carried[n]) /\ \A k \in Nodes : k # n => carried'[k] = carried[k]
    BY <1>0, <2>1
  <2>3. Links(n) # {} /\ it \in Items
    <3>1. carried[n] \in Seq(Items) BY <1>0
    <3> QED BY <2>1, <3>1 DEF Stocked
  <2>4. \A k \in Nodes : Stocked(k)' BY <1>1, <1>2, <2>1, <2>2 DEF Stocked, Single
  <2>5. ASSUME NEW x \in DOMAIN Chats, Placed(x), Chats[x].to = Everyone PROVE Placed(x)'
    <3>0. Chats[x].from \in Nodes BY NodeAssumption
    <3>1. CASE x = it.id
      <4>1. it.target = Everyone BY <2>3, <2>5, <3>1, ItemIs
      <4>2. \E d \in Sent(x, n, Nodes, 0) : d.chat = x BY <2>3, SentReaches
      <4> QED BY <2>1, <3>1, <4>1, <4>2 DEF Placed
    <3>2. CASE x # it.id /\ x \in Ids(carried[n]) /\ Chats[x].from = n
      <4> DEFINE q == carried[n]
      <4>1. q \in Seq(Items) /\ q # <<>> BY <1>0, <2>1
      <4>2. PICK i \in 1..Len(q) : q[i].id = x BY <3>2 DEF Ids
      <4>3. i # 1 BY <3>2, <4>1, <4>2
      <4>4. i - 1 \in 1..Len(Tail(q)) /\ Tail(q)[i-1] = q[i]
        <5> HIDE DEF q
        <5> QED BY <4>1, <4>3
      <4>5. x \in Ids(carried'[n]) BY <2>2, <4>2, <4>4 DEF Ids
      <4> QED BY <3>2, <4>5 DEF Placed, Ids
    <3>3. CASE ~(x \in Ids(carried[n]) /\ Chats[x].from = n)
      <4>1. Chats[x].from = n \/ carried'[Chats[x].from] = carried[Chats[x].from] BY <2>2, <3>0
      <4> QED BY <2>1, <2>5, <3>3, <4>1 DEF Placed, Ids
    <3> QED BY <3>1, <3>2, <3>3
  <2>6. ASSUME NEW x \in DOMAIN Chats PROVE Awaited(x)' BY <1>3, <2>5
  <2> QED BY <2>4, <2>6
<1> QED BY <1>4, <1>5

\* ... when it begins a chat, ...
LEMMA SendQuiet ==
  ASSUME NodeInv, Fresh, \A k \in Nodes : Stocked(k), \A x \in DOMAIN Chats : Awaited(x), Calm,
         NEW c \in DOMAIN Chats, NEW t \in BOOLEAN, NEW heard, Send(c, t, heard)
  PROVE  (\A k \in Nodes : Stocked(k)') /\ \A x \in DOMAIN Chats : Awaited(x)'
<1>0. Spread /\ UNCHANGED <<now, store, carried, net>> BY DEF NodeInv, Send
<1>1. \A k \in Nodes : IsFiniteSet(Begun(k)) BY DEF Stocked
<1>2. \A k \in Nodes : IsFiniteSet(Begun(k))' /\ Cardinality(Begun(k)) <= Cardinality(Begun(k)')
  BY <1>0, <1>1, BegunGrows
<1>3. \A k \in Nodes : Links(k) \subseteq Links(k)' BY DEF Calm
<1>4. \A k \in Nodes : Stocked(k)' BY <1>0, <1>2, <1>3 DEF Stocked, Single
<1>5. ASSUME NEW x \in DOMAIN Chats, stage'[x] = "sent"
      PROVE  stage[x] = "sent" /\ pkts'[x] = pkts[x]
  <2>1. stage \in [DOMAIN Chats -> {"unsent", "mining", "sent", "lost"}]
        /\ pkts \in [DOMAIN Chats -> Packets]
    BY DEF NodeInv, Spread, Stamped
  <2>2. UNCHANGED <<stage, pkts>>
        \/ \E p : stage' = [stage EXCEPT ![c] = "mining"] /\ pkts' = [pkts EXCEPT ![c] = p]
    BY SendStamps
  <2> QED BY <1>5, <2>1, <2>2
<1>6. ASSUME NEW x \in DOMAIN Chats PROVE Awaited(x)'
  <2> SUFFICES ASSUME (Cardinality(Begun(Chats[x].from)) <= StoreMax)', stage'[x] = "sent",
                      Chats[x].to = Everyone, Wall(Chats[x].from)' < pkts'[x].exp
               PROVE  Placed(x)'
    BY DEF Awaited
  <2>1. Chats[x].from \in Nodes BY NodeAssumption
  <2>2. Cardinality(Begun(Chats[x].from)) <= StoreMax
    <3>1. Cardinality(Begun(Chats[x].from)) \in Nat /\ Cardinality(Begun(Chats[x].from)') \in Nat
      BY <1>1, <1>2, <2>1, FS_CardinalityType
    <3>2. Cardinality(Begun(Chats[x].from)) <= Cardinality(Begun(Chats[x].from)') BY <1>2, <2>1
    <3>3. Cardinality(Begun(Chats[x].from)') <= StoreMax OBVIOUS
    <3>4. StoreMax \in Nat BY CarryAssumption
    <3> QED BY <3>1, <3>2, <3>3, <3>4
  <2>3. Wall(Chats[x].from) < pkts[x].exp BY <1>0, <1>5 DEF Wall
  <2>4. Placed(x) BY <1>5, <2>2, <2>3 DEF Awaited
  <2> QED BY <1>0, <2>4, PlacedStill
<1> QED BY <1>4, <1>6

\* ... and whatever else happens.
LEMMA OtherQuiet ==
  ASSUME NodeInv, Fresh, \A k \in Nodes : Stocked(k), \A x \in DOMAIN Chats : Awaited(x), Calm,
         UNCHANGED <<carried, store, stage, pkts>>, net \subseteq net', now' \in {now, now + 1}
  PROVE  (\A k \in Nodes : Stocked(k)') /\ \A x \in DOMAIN Chats : Awaited(x)'
<1>0. Spread BY DEF NodeInv
<1>1. \A k : Begun(k)' = Begun(k) BY <1>0, BegunStill
<1>2. \A k \in Nodes : Links(k) \subseteq Links(k)' BY DEF Calm
<1>3. \A k \in Nodes : Stocked(k)' BY <1>1, <1>2 DEF Stocked, Single
<1>4. ASSUME NEW x \in DOMAIN Chats PROVE Awaited(x)'
  <2> SUFFICES ASSUME (Cardinality(Begun(Chats[x].from)) <= StoreMax)', stage'[x] = "sent",
                      Chats[x].to = Everyone, Wall(Chats[x].from)' < pkts'[x].exp
               PROVE  Placed(x)'
    BY DEF Awaited
  <2>1. Chats[x].from \in Nodes /\ pkts[x].exp \in Int /\ now \in Int
    BY NodeAssumption DEF NodeInv, Stamped, Packets, MeshTypeOK
  <2>2. Drift[Chats[x].from] \in Int BY <2>1, NodeAssumption
  <2>3. Wall(Chats[x].from) < pkts[x].exp BY <2>1, <2>2 DEF Wall
  <2>4. Cardinality(Begun(Chats[x].from)) <= StoreMax BY <1>1
  <2>5. Placed(x) BY <2>3, <2>4 DEF Awaited
  <2> QED BY <2>5, PlacedStill
<1> QED BY <1>3, <1>4

LEMMA QuietStep == NodeInv /\ QuietInv /\ [Next]_vars => QuietInv'
<1> SUFFICES ASSUME NodeInv, QuietInv, [Next]_vars, crashes' = 0
             PROVE  Fresh' /\ (\A n \in Nodes : Stocked(n)') /\ \A c \in DOMAIN Chats : Awaited(c)'
  BY DEF QuietInv
<1>1. crashes = 0 /\ Calm BY CalmStep
<1>2. Fresh /\ (\A n \in Nodes : Stocked(n)) /\ \A c \in DOMAIN Chats : Awaited(c)
  BY <1>1 DEF QuietInv
<1>3. Fresh' BY <1>1 DEF Calm
<1> DEFINE Goal == (\A k \in Nodes : Stocked(k)') /\ \A x \in DOMAIN Chats : Awaited(x)'
<1>4. ASSUME UNCHANGED <<carried, store, stage, pkts>>, net \subseteq net', now' \in {now, now + 1} PROVE Goal
  BY <1>1, <1>2, <1>4, OtherQuiet
<1>5. ASSUME NEW c \in DOMAIN Chats, Finish(c) PROVE Goal BY <1>1, <1>2, <1>5, FinishQuiet
<1>6. ASSUME NEW c \in DOMAIN Chats, NEW t \in BOOLEAN, NEW heard, Send(c, t, heard)
      PROVE  Goal
  BY <1>1, <1>2, <1>6, SendQuiet
<1>7. ASSUME NEW n \in Nodes, PopReady(n) \/ SendCarried(n) PROVE Goal
  BY <1>1, <1>2, <1>7, OwnQuiet
<1> HIDE DEF Goal
<1>8. Goal BY <1>1, <1>4, <1>5, <1>6, <1>7 DEF Calm, Noticed
<1> QED BY <1>3, <1>8 DEF Goal

LEMMA QuietInit == Init => QuietInv
<1> SUFFICES ASSUME Init
             PROVE  Fresh /\ (\A n \in Nodes : Stocked(n)) /\ \A c \in DOMAIN Chats : Awaited(c)
  BY DEF QuietInv
<1>1. Fresh
  <2>1. \A n \in Nodes : up[n] /\ life[n] = 1 /\ \A m \in Nodes : table[n][m] \in {Nowhere, 1}
    BY DEF Init, MeshInit, Nowhere
  <2>2. net = {} /\ wire = {} /\ floods = {} BY DEF Init, MeshInit
  <2> QED BY <2>1, <2>2 DEF Fresh
<1>2. \A n \in Nodes : Stocked(n)
  <2>1. \A n \in Nodes : store[n] = <<>> /\ carried[n] = <<>> BY DEF Init
  <2>2. \A n : Begun(n) = {} BY DEF Init, Begun
  <2>3. IsFiniteSet({}) BY FS_EmptySet
  <2>4. Len(<<>>) = 0 OBVIOUS
  <2>5. ASSUME NEW n \in Nodes
        PROVE  Single(store[n]) /\ \A i \in 1..Len(store[n]) : Chats[store[n][i].id].from = n
    <3>1. 1..Len(store[n]) = {} BY <2>1, <2>4
    <3> QED BY <3>1 DEF Single
  <2> QED BY <2>1, <2>2, <2>3, <2>5 DEF Stocked
<1>3. \A c \in DOMAIN Chats : stage[c] # "sent" BY DEF Init
<1> QED BY <1>1, <1>2, <1>3 DEF Awaited

\* As long as no process has crashed, a broadcast of a sender that has begun no
\* more than its store holds is in the store, in the hands of dtnLoop or on its
\* way, until it expires: for any mesh, clocks and capacity of the store.
THEOREM BroadcastsAreKept == Spec => []BroadcastKept
<1>1. QuietInv => BroadcastKept
  <2> SUFFICES ASSUME QuietInv, NEW c \in DOMAIN Chats, crashes = 0,
                      Cardinality(Begun(Chats[c].from)) <= StoreMax, stage[c] = "sent",
                      Chats[c].to = Everyone, Wall(Chats[c].from) < pkts[c].exp
               PROVE  Placed(c)
    BY DEF BroadcastKept, Begun, Placed
  <2> QED BY DEF QuietInv, Awaited
<1> QED BY <1>1, NodeInvInit, NodeInvStep, QuietInit, QuietStep, PTL DEF Spec
=============================================================================
