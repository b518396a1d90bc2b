---------------------------- MODULE ServiceProofs ----------------------------
(***************************************************************************)
(* What the refinement of EchoService comes to, for every server: a stream *)
(* that is the client's own is the sequence of the messages it holds in    *)
(* full, and each step adds at most one.                                   *)
(***************************************************************************)
EXTENDS EchoClients, Integers, SequenceTheorems, TLAPS

-----------------------------------------------------------------------------
\* Division.

LEMMA DivUnique ==
  ASSUME NEW m \in Nat \ {0}, NEW q \in Nat, NEW r \in Nat, r < m, NEW a \in Nat, a = q * m + r
  PROVE  a \div m = q
OBVIOUS

LEMMA DivMod ==
  ASSUME NEW m \in Nat \ {0}, NEW a \in Nat
  PROVE  /\ a \div m \in Nat /\ a % m \in Nat /\ a % m < m
         /\ a = (a \div m) * m + (a % m)
OBVIOUS

LEMMA DivOrder ==
  ASSUME NEW m \in Nat \ {0}, NEW a \in Nat, NEW b \in Nat, a <= b
  PROVE  a \div m <= b \div m
<1>1. /\ a \div m \in Nat /\ a % m \in Nat /\ a % m < m /\ a = (a \div m) * m + (a % m)
      /\ b \div m \in Nat /\ b % m \in Nat /\ b % m < m /\ b = (b \div m) * m + (b % m)
  BY DivMod
<1>2. QED
  <2> DEFINE q == a \div m
             r == b \div m
  <2> SUFFICES ASSUME r + 1 <= q PROVE FALSE
    BY <1>1
  <2>1. (r + 1) * m <= q * m /\ (r + 1) * m = r * m + m
    BY <1>1
  <2>2. QED
    BY <1>1, <2>1

\* As many more units as a slot holds, or fewer, complete one slot at most.
LEMMA DivAdd ==
  ASSUME NEW m \in Nat \ {0}, NEW a \in Nat, NEW n \in 0..m
  PROVE  (a + n) \div m = a \div m \/ (a + n) \div m = a \div m + 1
<1> DEFINE q == a \div m
           r == a % m
<1>1. q \in Nat /\ r \in Nat /\ r < m /\ a = q * m + r
  BY DivMod
<1> HIDE DEF q, r
<1>2. CASE r + n < m
  <2>1. a + n = q * m + (r + n) /\ r + n \in Nat
    BY <1>1
  <2>2. (a + n) \div m = q
    BY <1>1, <1>2, <2>1, DivUnique
  <2>3. QED
    BY <2>2 DEF q
<1>3. CASE r + n >= m
  <2>1. a + n = (q + 1) * m + (r + n - m) /\ r + n - m \in Nat /\ r + n - m < m
    BY <1>1, <1>3
  <2>2. (a + n) \div m = q + 1
    BY <1>1, <2>1, DivUnique
  <2>3. QED
    BY <2>2 DEF q
<1>4. QED
  BY <1>1, <1>2, <1>3

LEMMA TimesOrder ==
  ASSUME NEW m \in Nat, NEW q \in Nat, NEW r \in Nat, q <= r
  PROVE  q * m <= r * m
OBVIOUS

-----------------------------------------------------------------------------
\* The messages of a stream.

LEMMA Sizes == HelloUnits = 1 /\ AnnounceUnits = 2 /\ MsgUnits \in Nat /\ MsgUnits >= 1
BY ClientAssumption DEF HelloUnits, AnnounceUnits

\* The units of message m.
Message(m) == [p \in 1..MsgUnits |-> HelloUnits + (m - 1) * MsgUnits + p]

LEMMA MessagesDiffer ==
  ASSUME NEW m \in Nat, NEW n \in Nat, Message(m) = Message(n)
  PROVE  m = n
<1> USE Sizes
<1>1. Message(m)[1] = 1 + (m - 1) * MsgUnits + 1 /\ Message(n)[1] = 1 + (n - 1) * MsgUnits + 1
  BY DEF Message
<1>2. (m - 1) * MsgUnits = (n - 1) * MsgUnits
  <2>1. (m - 1) * MsgUnits \in Int /\ (n - 1) * MsgUnits \in Int
    OBVIOUS
  <2>2. QED
    BY <1>1, <2>1
<1>3. QED
  BY <1>2

LEMMA MessageIs ==
  ASSUME NEW c, Asked(c) \in Nat, NEW m \in 1..Asked(c)
  PROVE  MessageIn(c, Message(m)) = m
<1>1. \A n \in 1..Asked(c) : Message(m) = [p \in 1..MsgUnits |-> HelloUnits + (n - 1) * MsgUnits + p] <=> n = m
  BY MessagesDiffer DEF Message
<1>2. QED
  BY <1>1 DEF MessageIn

\* Slot i of a stream that is the client's own holds message i.
LEMMA SlotIs ==
  ASSUME NEW c, down[c] \in Seq(Nat), down[c] = EchoOf(c, Len(down[c])),
         NEW i \in Nat \ {0}, AnnounceUnits + i * MsgUnits <= Len(down[c])
  PROVE  SlotOf(c, i) = Message(i)
<1> USE Sizes
<1> DEFINE a == (i - 1) * MsgUnits
<1>1. a \in Nat /\ i * MsgUnits = a + MsgUnits
  OBVIOUS
<1> DEFINE from == AnnounceUnits + a + 1
           to == AnnounceUnits + (a + MsgUnits)
<1>2. SlotOf(c, i) = SubSeq(down[c], from, to)
  BY <1>1 DEF SlotOf
<1>3. Message(i) = [p \in 1..MsgUnits |-> HelloUnits + a + p]
  BY DEF Message
<1> HIDE DEF a
<1>4. Len(down[c]) \in Nat /\ from \in Nat /\ to \in Nat /\ to <= Len(down[c]) /\ to - from + 1 = MsgUnits
  BY <1>1, LenProperties
<1>5. \A j \in from..to : down[c][j] = HelloUnits + j - AnnounceUnits /\ down[c][j] \in Nat
  BY SMTT(30), <1>1, <1>4 DEF EchoOf
<1>6. /\ SubSeq(down[c], from, to) \in Seq(Nat)
      /\ Len(SubSeq(down[c], from, to)) = MsgUnits
      /\ \A p \in 1..MsgUnits : SubSeq(down[c], from, to)[p] = down[c][from + p - 1]
  <2>1. from \in Int /\ to \in Int /\ from <= to
    BY <1>1, <1>4
  <2> HIDE DEF from, to
  <2>2. QED
    BY <1>4, <1>5, <2>1, SubSeqProperties
<1>7. \A p \in 1..MsgUnits : down[c][from + p - 1] = HelloUnits + a + p
  <2> SUFFICES ASSUME NEW p \in 1..MsgUnits PROVE down[c][from + p - 1] = HelloUnits + a + p
    OBVIOUS
  <2>1. from + p - 1 \in from..to /\ HelloUnits + (from + p - 1) - AnnounceUnits = HelloUnits + a + p
    BY <1>1
  <2>2. QED
    BY <1>5, <2>1
<1>8. QED
  <2> DEFINE slot == SubSeq(down[c], from, to)
  <2>1. slot = [p \in 1..MsgUnits |-> slot[p]]
    <3>1. slot \in Seq(Nat) /\ Len(slot) = MsgUnits
      BY <1>6
    <3> HIDE DEF slot
    <3>2. QED
      BY <3>1
  <2>2. \A p \in 1..MsgUnits : slot[p] = HelloUnits + a + p
    BY <1>6, <1>7
  <2> HIDE DEF slot
  <2>3. slot = [p \in 1..MsgUnits |-> HelloUnits + a + p]
    BY <2>1, <2>2
  <2>4. QED
    BY <1>2, <1>3, <2>3 DEF slot

\* Messages written to c in full.
Replied(c) == IF Greeted(c) THEN (Len(down[c]) - AnnounceUnits) \div MsgUnits ELSE 0

LEMMA EchoedIs ==
  ASSUME NEW c, down[c] \in Seq(Nat), down[c] = EchoOf(c, Len(down[c])), Asked(c) \in Nat,
         Greeted(c), Replied(c) <= Asked(c)
  PROVE  Echoed(c) = [i \in 1..Replied(c) |-> i]
<1> USE Sizes
<1>1. Len(down[c]) \in Nat /\ Len(down[c]) - AnnounceUnits \in Nat
  BY LenProperties DEF Greeted
<1>2. Replied(c) \in Nat /\ Replied(c) * MsgUnits <= Len(down[c]) - AnnounceUnits
  <2> DEFINE a == Len(down[c]) - AnnounceUnits
  <2>1. Replied(c) = a \div MsgUnits /\ a \in Nat
    BY <1>1 DEF Replied
  <2> HIDE DEF a
  <2>2. a \div MsgUnits \in Nat /\ a % MsgUnits \in Nat /\ a = (a \div MsgUnits) * MsgUnits + (a % MsgUnits)
    BY SMTT(30), <2>1, DivMod
  <2>3. (a \div MsgUnits) * MsgUnits <= a
    <3> DEFINE p == (a \div MsgUnits) * MsgUnits
    <3>1. p \in Nat
      BY <2>2
    <3> HIDE DEF p
    <3>2. QED
      BY <2>2, <3>1 DEF p
  <2>4. QED
    BY <2>1, <2>2, <2>3 DEF a
<1>3. ASSUME NEW i \in 1..Replied(c)
      PROVE  MessageIn(c, SlotOf(c, i)) = i
  <2>1. i * MsgUnits <= Replied(c) * MsgUnits
    <3>1. i \in Nat /\ i <= Replied(c)
      BY <1>2
    <3>2. QED
      BY <1>2, <3>1, TimesOrder
  <2>2. AnnounceUnits + i * MsgUnits <= Len(down[c])
    BY <1>1, <1>2, <2>1
  <2>3. QED
    BY <1>2, <2>2, SlotIs, MessageIs
<1>4. Echoed(c) = [i \in 1..Replied(c) |-> MessageIn(c, SlotOf(c, i))]
  BY DEF Echoed, Replied
<1>5. QED
  BY <1>3, <1>4

-----------------------------------------------------------------------------
\* The mapping, and what a step of k may do to it.

\* What the invariant of a server says of c, for the mapping to be exact.
Exact(c) ==
  /\ down[c] \in Seq(Nat) /\ down[c] = EchoOf(c, Len(down[c]))
  /\ Asked(c) \in Nat /\ Replied(c) \in Nat /\ Replied(c) <= Asked(c)

Told(c) == [i \in 1..Replied(c) |-> i]

Echoes(c) == IF Greeted(c) THEN Echoed(c) ELSE <<>>

Mapped(c) == Replied(c) \in Nat /\ Asked(c) \in Nat /\ Echoes(c) = Told(c)

LEMMA ExactMapped ==
  ASSUME NEW c, Exact(c)
  PROVE  Mapped(c)
<1>1. CASE Greeted(c)
  BY <1>1, EchoedIs DEF Exact, Mapped, Echoes, Told
<1>2. CASE ~Greeted(c)
  BY <1>2 DEF Exact, Mapped, Echoes, Replied, Told
<1>3. QED
  BY <1>1, <1>2

\* What EchoService sees of c stays as it is.
SameService(c) ==
  /\ StageOf(c)' = StageOf(c) /\ Greeted(c)' = Greeted(c)
  /\ Asked(c)' = Asked(c) /\ Replied(c)' = Replied(c)

ServiceOpens(c) ==
  /\ StageOf(c) = "idle" /\ StageOf(c)' = "open"
  /\ Greeted(c)' = Greeted(c) /\ Asked(c)' = Asked(c) /\ Replied(c)' = Replied(c)

ServiceGreets(c) ==
  /\ StageOf(c) # "idle" /\ StageOf(c)' = StageOf(c)
  /\ ~Greeted(c) /\ Greeted(c)'
  /\ Asked(c)' = Asked(c) /\ Replied(c)' = Replied(c)

ServiceAsks(c) ==
  /\ StageOf(c) = "open" /\ StageOf(c)' = StageOf(c)
  /\ Greeted(c) /\ Greeted(c)'
  /\ Asked(c)' = Asked(c) + 1 /\ Replied(c)' = Replied(c)

ServiceEchoes(c) ==
  /\ StageOf(c)' = StageOf(c) /\ Greeted(c)' = Greeted(c) /\ Asked(c)' = Asked(c)
  /\ Replied(c) < Asked(c) /\ Replied(c)' = Replied(c) + 1

ServiceCloses(c) ==
  /\ StageOf(c) # "closed" /\ StageOf(c)' = "closed"
  /\ Greeted(c)' = Greeted(c) /\ Asked(c)' = Asked(c) /\ Replied(c)' = Replied(c)

ServiceMove(c) ==
  \/ SameService(c) \/ ServiceOpens(c) \/ ServiceGreets(c)
  \/ ServiceAsks(c) \/ ServiceEchoes(c) \/ ServiceCloses(c)

LEMMA ServiceStep ==
  ASSUME \A c \in Conns : Mapped(c) /\ Mapped(c)',
         NEW k \in Conns, ServiceMove(k), \A c \in Conns \ {k} : SameService(c)
  PROVE  [Service!Next]_(Service!vars)
<1> DEFINE stages == [c \in Conns |-> StageOf(c)]
           greets == [c \in Conns |-> Greeted(c)]
           asks == [c \in Conns |-> Asked(c)]
           echoes == [c \in Conns |-> Echoes(c)]
<1>1. \A c \in Conns : Echoes(c) = Told(c) /\ Echoes(c)' = Told(c)'
  BY DEF Mapped
<1>2. \A c \in Conns \ {k} : Echoes(c)' = Echoes(c)
  BY <1>1 DEF SameService, Told
<1>3. Replied(k)' = Replied(k) => Echoes(k)' = Echoes(k)
  BY <1>1 DEF Told
<1>4. /\ StageOf(k)' = StageOf(k) => stages' = stages
      /\ Greeted(k)' = Greeted(k) => greets' = greets
      /\ Asked(k)' = Asked(k) => asks' = asks
      /\ Replied(k)' = Replied(k) => echoes' = echoes
  BY <1>2, <1>3 DEF SameService
<1>5. /\ stages' = [stages EXCEPT ![k] = StageOf(k)']
      /\ greets' = [greets EXCEPT ![k] = Greeted(k)']
      /\ asks' = [asks EXCEPT ![k] = Asked(k)']
      /\ echoes' = [echoes EXCEPT ![k] = Echoes(k)']
  BY <1>2 DEF SameService
<1>6. CASE SameService(k)
  <2>1. UNCHANGED <<stages, greets, asks, echoes>>
    BY <1>4, <1>6 DEF SameService
  <2>2. QED
    BY <2>1 DEF Service!vars, Echoes
<1>7. CASE ServiceOpens(k)
  <2>1. Service!Open(k)
    BY <1>4, <1>5, <1>7 DEF ServiceOpens, Service!Open, Echoes
  <2>2. QED
    BY <2>1 DEF Service!Next
<1>8. CASE ServiceGreets(k)
  <2>1. Service!Greet(k)
    BY <1>4, <1>5, <1>8 DEF ServiceGreets, Service!Greet, Echoes
  <2>2. QED
    BY <2>1 DEF Service!Next
<1>9. CASE ServiceAsks(k)
  <2>1. Service!Ask(k)
    BY <1>4, <1>5, <1>9 DEF ServiceAsks, Service!Ask, Echoes
  <2>2. QED
    BY <2>1 DEF Service!Next
<1>10. CASE ServiceEchoes(k)
  <2>1. Echoes(k)' = Append(Echoes(k), Len(Echoes(k)) + 1) /\ Len(Echoes(k)) = Replied(k)
    <3>1. Replied(k) \in Nat /\ Replied(k)' = Replied(k) + 1
      BY <1>10 DEF Mapped, ServiceEchoes
    <3>2. Echoes(k) = [i \in 1..Replied(k) |-> i] /\ Echoes(k)' = [i \in 1..(Replied(k) + 1) |-> i]
      BY <1>1, <3>1 DEF Told
    <3>3. QED
      BY <3>1, <3>2
  <2>2. Service!Echo(k)
    BY <1>4, <1>5, <1>10, <2>1 DEF ServiceEchoes, Service!Echo, Echoes
  <2>3. QED
    BY <2>2 DEF Service!Next
<1>11. CASE ServiceCloses(k)
  <2>1. Service!Close(k)
    BY <1>4, <1>5, <1>11 DEF ServiceCloses, Service!Close, Echoes
  <2>2. QED
    BY <2>1 DEF Service!Next
<1>12. QED
  BY <1>6, <1>7, <1>8, <1>9, <1>10, <1>11 DEF ServiceMove

LEMMA ServiceStutter ==
  ASSUME \A c \in Conns : Mapped(c) /\ Mapped(c)' /\ SameService(c)
  PROVE  UNCHANGED Service!vars
<1>1. \A c \in Conns : Echoes(c)' = Echoes(c)
  BY DEF Mapped, SameService, Told
<1>2. QED
  BY <1>1 DEF SameService, Service!vars, Echoes

\* The step of a server that serves k, or nobody.
LEMMA ServiceNext ==
  ASSUME \A c \in Conns : Mapped(c) /\ Mapped(c)',
         \/ \A c \in Conns : SameService(c)
         \/ \E k \in Conns : ServiceMove(k) /\ \A c \in Conns \ {k} : SameService(c)
  PROVE  [Service!Next]_(Service!vars)
<1>1. CASE \E k \in Conns : ServiceMove(k) /\ \A c \in Conns \ {k} : SameService(c)
  BY <1>1, ServiceStep
<1>2. CASE \A c \in Conns : SameService(c)
  BY <1>2, ServiceStutter
<1>3. QED
  BY <1>1, <1>2

-----------------------------------------------------------------------------
\* The client's part of it.

LEMMA InitMapped == ClientInit => Service!Init
<1> SUFFICES ASSUME ClientInit PROVE Service!Init
  OBVIOUS
<1>1. \A c \in Conns : client[c] = "idle" /\ up[c] = 0 /\ Len(down[c]) = 0
  BY DEF ClientInit
<1>2. ASSUME NEW c \in Conns PROVE StageOf(c) = "idle" /\ Greeted(c) = FALSE /\ Asked(c) = 0
  <2>1. ~(Len(down[c]) >= AnnounceUnits)
    BY <1>1, Sizes
  <2>2. QED
    BY <1>1, <2>1 DEF StageOf, Greeted, Asked
<1>3. /\ [c \in Conns |-> StageOf(c)] = [c \in Conns |-> "idle"]
      /\ [c \in Conns |-> Greeted(c)] = [c \in Conns |-> FALSE]
      /\ [c \in Conns |-> Asked(c)] = [c \in Conns |-> 0]
      /\ [c \in Conns |-> IF Greeted(c) THEN Echoed(c) ELSE <<>>] = [c \in Conns |-> <<>>]
  BY <1>2
<1>4. QED
  BY <1>3 DEF Service!Init

\* A client writes "Hi" and then whole messages, once it has been announced to.
Cut(c) ==
  /\ client[c] \in {"idle", "connected"} => up[c] = 0
  /\ client[c] = "hello" => up[c] = HelloUnits
  /\ client[c] = "running" => up[c] >= HelloUnits /\ Greeted(c)
  /\ up[c] = 0 \/ \E n \in Nat : up[c] = n * MsgUnits + HelloUnits

LEMMA AskedIs ==
  ASSUME NEW c, NEW n \in Nat, up[c] = n * MsgUnits + HelloUnits
  PROVE  Asked(c) = n
<1> USE Sizes
<1>1. n * MsgUnits \in Nat /\ up[c] # 0 /\ up[c] - HelloUnits = n * MsgUnits + 0
  OBVIOUS
<1>2. (n * MsgUnits) \div MsgUnits = n
  BY DivUnique
<1>3. QED
  BY <1>1, <1>2 DEF Asked

LEMMA CutAsked ==
  ASSUME NEW c, up[c] \in Nat, Cut(c)
  PROVE  Asked(c) \in Nat /\ (up[c] # 0 => up[c] = Asked(c) * MsgUnits + HelloUnits)
<1>1. CASE up[c] = 0
  BY <1>1 DEF Asked
<1>2. CASE up[c] # 0
  BY <1>2, AskedIs DEF Cut
<1>3. QED
  BY <1>1, <1>2

\* What is written in full was asked for.
LEMMA RepliedAsked ==
  ASSUME NEW c, up[c] \in Nat, Cut(c), Len(down[c]) \in Nat,
         Len(down[c]) <= AnnounceUnits \/ Len(down[c]) + HelloUnits <= up[c] + AnnounceUnits
  PROVE  Replied(c) \in Nat /\ Replied(c) <= Asked(c)
<1> USE Sizes
<1>0. Asked(c) \in Nat
  BY CutAsked
<1>1. CASE ~Greeted(c)
  BY <1>0, <1>1 DEF Replied
<1>2. CASE Greeted(c)
  <2> DEFINE a == Len(down[c]) - AnnounceUnits
  <2>0. a \in Nat
    BY <1>2 DEF Greeted
  <2>1. Replied(c) = a \div MsgUnits
    BY <1>2 DEF Replied
  <2>2. CASE up[c] = 0 \/ a = 0
    <3>1. a = 0
      <4>1. up[c] = 0 => Len(down[c]) <= 2
        OBVIOUS
      <4>2. up[c] = 0 => a <= 0
        BY <4>1
      <4> HIDE DEF a
      <4>3. QED
        BY <2>0, <2>2, <4>2
    <3>2. a \div MsgUnits = 0
      <4>1. 0 = 0 * MsgUnits + 0
        OBVIOUS
      <4>2. 0 \div MsgUnits = 0
        BY <4>1, DivUnique
      <4> HIDE DEF a
      <4>3. QED
        BY <3>1, <4>2
    <3>3. Replied(c) = 0
      BY <2>1, <3>2
    <3>4. QED
      BY <1>0, <3>3
  <2>3. CASE up[c] # 0 /\ a # 0
    <3>1. a <= Asked(c) * MsgUnits /\ Asked(c) * MsgUnits \in Nat
      BY <1>0, <2>0, <2>3, CutAsked
    <3>2. (Asked(c) * MsgUnits) \div MsgUnits = Asked(c)
      BY <1>0, DivUnique
    <3> HIDE DEF a
    <3>3. a \div MsgUnits \in Nat /\ a \div MsgUnits <= Asked(c)
      BY <2>0, <3>1, <3>2, DivOrder, DivMod
    <3>4. QED
      BY <2>1, <3>3
  <2>4. QED
    BY <2>2, <2>3
<1>3. QED
  BY <1>1, <1>2

\* Steps of a server that write nothing in full.
LEMMA CutKept ==
  ASSUME NEW c, Cut(c), client'[c] = client[c], up'[c] = up[c], Greeted(c) => Greeted(c)'
  PROVE  Cut(c)' /\ StageOf(c)' = StageOf(c) /\ Asked(c)' = Asked(c)
<1>1. Cut(c)'
  BY DEF Cut
<1>2. QED
  BY <1>1 DEF StageOf, Asked

LEMMA ClientServes ==
  ASSUME ClientTypeOK, NEW c \in Conns, Cut(c),
         ClientStep(c) \/ ClientConnect(c) \/ ClientExit(c)
  PROVE  Cut(c)' /\ ServiceMove(c)
<1> USE Sizes
<1>1. /\ down' = down /\ Replied(c)' = Replied(c) /\ Greeted(c)' = Greeted(c)
      /\ client[c] \in Stages /\ up[c] \in Nat
  BY DEF ClientTypeOK, ClientStep, ClientHello, ClientSize, ClientSend, ClientRecv,
         ClientConnect, ClientExit, Replied, Greeted
<1>2. CASE ClientHello(c)
  <2>1. client[c] = "connected" /\ client'[c] = "hello" /\ up[c] = 0 /\ up'[c] = 0 * MsgUnits + 1
    BY <1>2 DEF ClientHello, ClientMoves, ClientTypeOK, Cut
  <2>2. Cut(c)'
    <3>1. up'[c] = 1 /\ \E n \in Nat : up'[c] = n * MsgUnits + HelloUnits
      BY <2>1
    <3>2. QED
      BY <2>1, <3>1 DEF Cut
  <2>3. Asked(c) = 0 /\ Asked(c)' = 0
    <3>1. up'[c] = 1 /\ 0 \div MsgUnits = 0
      <4>1. 0 \div MsgUnits = 0
        BY DivUnique
      <4>2. QED
        BY <2>1, <4>1
    <3>2. QED
      BY <2>1, <3>1 DEF Asked
  <2>4. QED
    BY <1>1, <2>1, <2>2, <2>3 DEF ServiceMove, SameService, StageOf
<1>3. CASE ClientSize(c)
  <2>1. client[c] = "hello" /\ client'[c] = "running" /\ up' = up /\ Greeted(c) /\ up[c] = 1
    BY <1>3 DEF ClientSize, ClientMoves, ClientTypeOK, Cut, Greeted
  <2>2. QED
    BY <1>1, <2>1 DEF Cut, ServiceMove, SameService, StageOf, Asked
<1>4. CASE ClientSend(c)
  <2>1. client[c] = "running" /\ client' = client /\ up'[c] = up[c] + MsgUnits /\ up[c] >= 1 /\ Greeted(c)
    BY <1>4 DEF ClientSend, ClientTypeOK, Cut
  <2>2. PICK n \in Nat : up[c] = n * MsgUnits + HelloUnits
    BY <2>1 DEF Cut
  <2>3. n + 1 \in Nat /\ up'[c] = (n + 1) * MsgUnits + HelloUnits
    BY <2>1, <2>2
  <2>4. Asked(c) = n /\ Asked(c)' = n + 1
    <3>1. Asked(c) = n
      BY <2>2, AskedIs
    <3>2. up'[c] # 0 /\ up'[c] - HelloUnits = (n + 1) * MsgUnits + 0 /\ (n + 1) * MsgUnits \in Nat
      BY <2>3
    <3>3. ((n + 1) * MsgUnits) \div MsgUnits = n + 1
      BY <2>3, DivUnique
    <3>4. QED
      BY <3>1, <3>2, <3>3 DEF Asked
  <2>5. Cut(c)'
    <3>1. up'[c] >= 1
      BY <2>1, <1>1
    <3>2. QED
      BY <1>1, <2>1, <2>3, <3>1 DEF Cut
  <2>6. QED
    BY <1>1, <2>1, <2>4, <2>5 DEF ServiceMove, ServiceAsks, StageOf
<1>5. CASE ClientRecv(c)
  <2>1. client' = client /\ up' = up
    BY <1>5 DEF ClientRecv
  <2>2. QED
    BY <1>1, <2>1 DEF Cut, ServiceMove, SameService, StageOf, Asked
<1>6. CASE ClientConnect(c)
  <2>1. client[c] = "idle" /\ client'[c] = "connected" /\ up' = up
    BY <1>6 DEF ClientConnect, ClientMoves, ClientTypeOK
  <2>2. QED
    BY <1>1, <2>1 DEF Cut, ServiceMove, ServiceOpens, StageOf, Asked
<1>7. CASE ClientExit(c)
  <2>1. client[c] # "gone" /\ client'[c] = "gone" /\ up' = up
    BY <1>7 DEF ClientExit, ClientTypeOK
  <2>2. QED
    BY <1>1, <2>1 DEF Cut, ServiceMove, ServiceCloses, StageOf, Asked
<1>8. QED
  BY <1>2, <1>3, <1>4, <1>5, <1>6, <1>7 DEF ClientStep

-----------------------------------------------------------------------------
\* The server's part of it.

\* The announcement, to a client that has connected.
LEMMA GreetServes ==
  ASSUME NEW c, Cut(c), client[c] # "idle", Len(down[c]) = 0, down'[c] = down[c] \o Announcement,
         down[c] \in Seq(Nat), client'[c] = client[c], up'[c] = up[c]
  PROVE  Cut(c)' /\ ServiceGreets(c)
<1>1. Len(down'[c]) = 2 /\ AnnounceUnits = 2
  BY Sizes DEF Announcement
<1>2. ~Greeted(c) /\ Greeted(c)'
  BY <1>1 DEF Greeted
<1>3. Cut(c)' /\ StageOf(c)' = StageOf(c) /\ Asked(c)' = Asked(c)
  BY <1>2, CutKept
<1>4. Replied(c) = 0 /\ Replied(c)' = 0
  <2>1. 0 \div MsgUnits = 0
    BY Sizes, DivUnique
  <2>2. Len(down'[c]) - AnnounceUnits = 0
    BY <1>1
  <2>3. QED
    BY <1>2, <2>1, <2>2 DEF Replied
<1>5. StageOf(c) # "idle"
  BY DEF StageOf
<1>6. QED
  BY <1>2, <1>3, <1>4, <1>5 DEF ServiceGreets

\* A message or a part of one, of what the client has sent.
LEMMA WriteServes ==
  ASSUME NEW c, Cut(c), up[c] \in Nat, Len(down[c]) \in Nat, Len(down[c]) >= AnnounceUnits,
         NEW n \in 0..MsgUnits, Len(down'[c]) = Len(down[c]) + n,
         n = 0 \/ Len(down'[c]) + HelloUnits <= up[c] + AnnounceUnits,
         client'[c] = client[c], up'[c] = up[c]
  PROVE  Cut(c)' /\ (SameService(c) \/ ServiceEchoes(c))
<1> DEFINE a == Len(down[c]) - AnnounceUnits
<1>0. MsgUnits \in Nat \ {0} /\ n \in Nat
  BY Sizes
<1>1. Greeted(c) /\ Greeted(c)'
  BY <1>0, Sizes DEF Greeted
<1>2. Cut(c)' /\ StageOf(c)' = StageOf(c) /\ Asked(c)' = Asked(c)
  BY <1>1, CutKept
<1>3. a \in Nat /\ Len(down'[c]) - AnnounceUnits = a + n
  BY <1>0, Sizes
<1>4. Replied(c) = a \div MsgUnits /\ Replied(c)' = (a + n) \div MsgUnits
  BY <1>1, <1>3 DEF Replied
<1>5. n = 0 \/ a + n + 1 <= up[c]
  BY <1>0, Sizes
<1> HIDE DEF a
<1>6. CASE (a + n) \div MsgUnits = a \div MsgUnits
  BY <1>1, <1>2, <1>4, <1>6 DEF SameService
<1>7. CASE (a + n) \div MsgUnits = a \div MsgUnits + 1 /\ n # 0
  <2>1. Asked(c) \in Nat /\ up[c] = Asked(c) * MsgUnits + 1
    BY <1>0, <1>3, <1>5, <1>7, CutAsked, Sizes
  <2> DEFINE b == Asked(c) * MsgUnits
  <2>2. b \in Nat /\ b = Asked(c) * MsgUnits + 0 /\ up[c] = b + 1
    <3>1. b \in Nat
      BY <1>0, <2>1
    <3>2. QED
      BY <2>1, <3>1
  <2>3. b \div MsgUnits = Asked(c)
    BY <1>0, <2>1, <2>2, DivUnique
  <2> HIDE DEF b
  <2>4. a + n \in Nat /\ a + n <= b
    <3>1. a + n + 1 <= b + 1 /\ a \in Nat /\ n \in Nat /\ b \in Nat
      BY <1>0, <1>3, <1>5, <1>7, <2>2
    <3>2. QED
      BY <3>1
  <2>5. (a + n) \div MsgUnits <= Asked(c) /\ a \div MsgUnits \in Nat
    <3>1. (a + n) \div MsgUnits <= b \div MsgUnits
      BY <1>0, <2>2, <2>4, DivOrder
    <3>2. a \div MsgUnits \in Nat
      BY <1>0, <1>3, DivMod
    <3>3. QED
      BY <2>3, <3>1, <3>2
  <2>6. Replied(c) < Asked(c) /\ Replied(c)' = Replied(c) + 1
    BY <1>4, <1>7, <2>1, <2>5
  <2>7. QED
    BY <1>1, <1>2, <2>6 DEF ServiceEchoes
<1>8. n = 0 => (a + n) \div MsgUnits = a \div MsgUnits
  BY <1>3
<1>9. QED
  BY <1>0, <1>3, <1>6, <1>7, <1>8, DivAdd

=============================================================================
