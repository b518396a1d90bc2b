---------------------------- MODULE ConnProofs ----------------------------
(***************************************************************************)
(* Proofs about the servers with a thread, or a goroutine, for each        *)
(* connection: SimpleServer, RingServers and GoServer, for                 *)
(* any number of connections and any sizes of messages and socket buffers. *)
(***************************************************************************)
EXTENDS SimpleServer, RingServers, GoServer, ServiceProofs, FiniteSetTheorems

-----------------------------------------------------------------------------
\* Type correctness.

LEMMA ClientTypeStep ==
  ASSUME ClientTypeOK, NEW c \in Conns,
         ClientStep(c) \/ ClientExit(c) \/ ClientConnect(c)
  PROVE  ClientTypeOK'
<1>1. CASE ClientHello(c)
  BY <1>1 DEF ClientTypeOK, ClientHello, ClientMoves, Stages, HelloUnits
<1>2. CASE ClientSize(c)
  BY <1>2 DEF ClientTypeOK, ClientSize, ClientMoves, Stages, AnnounceUnits
<1>3. CASE ClientSend(c)
  BY <1>3, Sizes DEF ClientTypeOK, ClientSend
<1>4. CASE ClientRecv(c)
  BY <1>4, Sizes DEF ClientTypeOK, ClientRecv
<1>5. CASE ClientExit(c)
  BY <1>5 DEF ClientTypeOK, ClientExit, Stages
<1>6. CASE ClientConnect(c)
  BY <1>6 DEF ClientTypeOK, ClientConnect, ClientMoves, Stages
<1>7. QED
  BY <1>1, <1>2, <1>3, <1>4, <1>5, <1>6 DEF ClientStep

\* What the thread of c may change.
LEMMA TypeHandler ==
  ASSUME SimpleTypeOK, NEW c \in Conns, SimpleHandlerStep(c)
  PROVE  SimpleTypeOK'
<1> USE Sizes
<1>1. CASE SendSize(c) /\ UNCHANGED <<buf, pos>> /\ Late(c)
  <2>1. down[c] \o Announcement \in Seq(Nat)
    BY DEF SimpleTypeOK, BufTypeOK, ThreadTypeOK, ClientTypeOK, Announcement
  <2>2. down' \in [Conns -> Seq(Nat)]
    BY <1>1, <2>1 DEF SendSize, SimpleTypeOK, BufTypeOK, ThreadTypeOK, ClientTypeOK
  <2>3. QED
    BY <1>1, <2>2 DEF SendSize, Moves, Late, SimpleTypeOK, BufTypeOK, ThreadTypeOK, ClientTypeOK
<1>2. CASE RecvHello(c) /\ UNCHANGED handlerVars
  <2>1. taken' \in [Conns -> Nat]
    BY <1>2 DEF RecvHello, SimpleTypeOK, BufTypeOK, ThreadTypeOK, ClientTypeOK
  <2>2. QED
    BY <1>2, <2>1 DEF RecvHello, Moves, handlerVars, SimpleTypeOK, BufTypeOK, ThreadTypeOK, ClientTypeOK
<1>3. CASE Recv(c)
  <2>1. Incoming(c) \in [1..MsgUnits -> Nat]
    BY DEF Incoming, SimpleTypeOK, BufTypeOK, ThreadTypeOK, ClientTypeOK
  <2>2. taken' \in [Conns -> Nat]
    BY <1>3 DEF Recv, ReadsMessage, SimpleTypeOK, BufTypeOK, ThreadTypeOK, ClientTypeOK
  <2>3. buf' \in [Conns -> [1..MsgUnits -> Nat]]
    BY <1>3, <2>1 DEF Recv, ReadsMessage, SimpleTypeOK, BufTypeOK
  <2>4. QED
    BY <1>3, <2>2, <2>3 DEF Recv, ReadsMessage, Moves, SimpleTypeOK, BufTypeOK, ThreadTypeOK, ClientTypeOK
<1>4. CASE SendPart(c) \/ SendRest(c)
  <2>1. buf[c][pos[c] + 1] \in Nat /\ pos[c] \in 0..(MsgUnits - 1)
    BY DEF SimpleTypeOK, BufTypeOK
  <2>2. down' \in [Conns -> Seq(Nat)]
    <3>1. down[c] \in Seq(Nat)
      BY DEF SimpleTypeOK, BufTypeOK, ThreadTypeOK, ClientTypeOK
    <3>2. Append(down[c], buf[c][pos[c] + 1]) \in Seq(Nat)
      BY <2>1, <3>1, AppendProperties
    <3>3. QED
      BY <1>4, <3>2 DEF SendPart, SendRest, SendUnit, WritesUnit, SimpleTypeOK, BufTypeOK, ThreadTypeOK, ClientTypeOK
  <2>3. pos' \in [Conns -> 0..(MsgUnits - 1)]
    <3>1. CASE SendPart(c)
      <4>1. pos[c] + 1 \in 0..(MsgUnits - 1)
        BY <2>1, <3>1 DEF SendPart
      <4>2. QED
        BY <3>1, <4>1 DEF SendPart, SimpleTypeOK, BufTypeOK
    <3>2. CASE SendRest(c)
      BY <3>2 DEF SendRest, SimpleTypeOK, BufTypeOK
    <3>3. QED
      BY <1>4, <3>1, <3>2
  <2>4. QED
    BY <1>4, <2>2, <2>3
    DEF SendPart, SendRest, SendUnit, WritesUnit, Late, Moves, SimpleTypeOK, BufTypeOK, ThreadTypeOK, ClientTypeOK
<1>5. QED
  <2>1. CASE SimpleHandshake(c) /\ pc[c] = "send_size"
    BY <1>1, <2>1 DEF SimpleHandshake, HandshakeStep, RecvHello, Moves
  <2>2. CASE SimpleHandshake(c) /\ pc[c] # "send_size"
    BY <1>2, <2>2 DEF SimpleHandshake, HandshakeStep, SendSize, Moves, handlerVars
  <2>3. QED
    BY <1>3, <1>4, <2>1, <2>2 DEF SimpleHandlerStep
  
LEMMA TypeStep == SimpleTypeOK /\ [SimpleNext]_simpleVars => SimpleTypeOK'
<1> SUFFICES ASSUME SimpleTypeOK, [SimpleNext]_simpleVars PROVE SimpleTypeOK'
  OBVIOUS
<1>1. CASE SimpleAccept \/ SimpleAcceptFail
  BY <1>1 DEF SimpleAccept, SimpleAcceptFail, MainAccept, MainAcceptFail, clientVars, handlerVars,
              SimpleTypeOK, BufTypeOK, ThreadTypeOK, ClientTypeOK
<1>2. ASSUME NEW c \in Conns, SimpleHandlerStep(c)
      PROVE  SimpleTypeOK'
  BY <1>2, TypeHandler
<1>3. ASSUME NEW c \in Conns, SimpleHandlerFails(c) \/ Killed(c)
      PROVE  SimpleTypeOK'
  BY <1>3 DEF SimpleHandlerFails, HandshakeFails, Returns, Moves, Killed, clientVars, handlerVars,
              SimpleTypeOK, BufTypeOK, ThreadTypeOK, ClientTypeOK
<1>4. ASSUME NEW c \in Conns, SimpleConnect(c) \/ SimpleTalk(c) \/ SimpleLeave(c)
      PROVE  SimpleTypeOK'
  <2>1. ClientTypeOK'
    BY <1>4, ClientTypeStep DEF SimpleConnect, Enqueue, SimpleTalk, SimpleLeave, SimpleTypeOK, BufTypeOK, ThreadTypeOK
  <2>2. QED
    BY <1>4, <2>1 DEF SimpleConnect, Enqueue, SimpleTalk, SimpleLeave, threadVars, handlerVars, SimpleTypeOK, BufTypeOK, ThreadTypeOK
<1>5. CASE UNCHANGED simpleVars
  BY <1>5 DEF simpleVars, clientVars, threadVars, handlerVars, SimpleTypeOK, BufTypeOK, ThreadTypeOK, ClientTypeOK
<1>6. QED
  BY <1>1, <1>2, <1>3, <1>4, <1>5 DEF SimpleNext

-----------------------------------------------------------------------------
\* One connection.

WholeConn(c) == Replying(c) /\ Queued(c) /\ (c \notin Eager => Waiting(c))

LEMMA ConnType ==
  ASSUME SimpleTypeOK, NEW c \in Conns
  PROVE  /\ up[c] \in Nat /\ taken[c] \in Nat /\ got[c] \in Nat
         /\ down[c] \in Seq(Nat) /\ Len(down[c]) \in Nat
         /\ pos[c] \in Nat /\ pos[c] < MsgUnits
         /\ client[c] \in Stages /\ late[c] \in BOOLEAN
         /\ pc[c] \in {"none", "send_size", "recv_hello", "recv", "send", "done"}
<1>1. down[c] \in Seq(Nat)
  BY DEF SimpleTypeOK, BufTypeOK, ThreadTypeOK, ClientTypeOK
<1>2. Len(down[c]) \in Nat
  BY <1>1, LenProperties
<1>3. QED
  BY <1>1, <1>2, Sizes DEF SimpleTypeOK, BufTypeOK, ThreadTypeOK, ClientTypeOK

\* What a step of another connection leaves alone.
Same(d) ==
  /\ client'[d] = client[d] /\ up'[d] = up[d] /\ taken'[d] = taken[d]
  /\ down'[d] = down[d] /\ got'[d] = got[d]
  /\ pc'[d] = pc[d] /\ buf'[d] = buf[d] /\ pos'[d] = pos[d] /\ late'[d] = late[d]
  /\ d \in queue' => d \in queue

LEMMA SameWhole ==
  ASSUME NEW d \in Conns, Same(d), WholeConn(d)
  PROVE  WholeConn(d)'
<1>1. Replying(d)'
  BY DEF Same, WholeConn, Replying, EchoOf
<1>2. Queued(d)'
  BY DEF Same, WholeConn, Queued
<1>3. d \notin Eager => Waiting(d)'
  BY DEF Same, WholeConn, Waiting
<1>4. QED
  BY <1>1, <1>2, <1>3 DEF WholeConn

\* The stream stays the client's own when its next unit is added.
LEMMA EchoAppend ==
  ASSUME NEW c, NEW s \in Seq(Nat), s = EchoOf(c, Len(s)),
         NEW x \in Nat,
         x = IF Len(s) + 1 <= AnnounceUnits THEN 0 ELSE HelloUnits + Len(s) + 1 - AnnounceUnits
  PROVE  Append(s, x) = EchoOf(c, Len(Append(s, x)))
<1>1. /\ Append(s, x) \in Seq(Nat) /\ Len(Append(s, x)) = Len(s) + 1 /\ Len(s) \in Nat
      /\ \A i \in 1..Len(s) : Append(s, x)[i] = s[i]
      /\ Append(s, x)[Len(s) + 1] = x
      /\ Append(s, x) = [i \in 1..(Len(s) + 1) |-> Append(s, x)[i]]
  BY AppendProperties, LenProperties
<1>2. \A i \in 1..(Len(s) + 1) :
        Append(s, x)[i] = IF i <= AnnounceUnits THEN 0 ELSE HelloUnits + i - AnnounceUnits
  <2> SUFFICES ASSUME NEW i \in 1..(Len(s) + 1)
               PROVE  Append(s, x)[i] = IF i <= AnnounceUnits THEN 0
                                        ELSE HelloUnits + i - AnnounceUnits
    OBVIOUS
  <2>1. CASE i = Len(s) + 1
    BY <1>1, <2>1, Sizes
  <2>2. CASE i \in 1..Len(s)
    <3>1. s[i] = EchoOf(c, Len(s))[i]
      OBVIOUS
    <3>2. QED
      BY <1>1, <2>2, <3>1 DEF EchoOf
  <2>3. QED
    BY <1>1, <2>1, <2>2
<1>3. QED
  BY <1>1, <1>2 DEF EchoOf

LEMMA EchoStart == \A c : Announcement = EchoOf(c, Len(Announcement)) /\ Len(Announcement) = 2
BY DEF Announcement, EchoOf, AnnounceUnits, HelloUnits

-----------------------------------------------------------------------------
\* The client's steps.

LEMMA TalkWhole ==
  ASSUME SimpleTypeOK, NEW c \in Conns, WholeConn(c), SimpleTalk(c)
  PROVE  WholeConn(c)'
<1> USE Sizes DEF HelloUnits, AnnounceUnits
<1>0. /\ up[c] \in Nat /\ taken[c] \in Nat /\ got[c] \in Nat
      /\ Len(down[c]) \in Nat /\ pos[c] \in Nat /\ pos[c] < MsgUnits
  BY ConnType
<1> USE <1>0
<1>1. /\ pc'[c] = pc[c] /\ taken'[c] = taken[c] /\ down'[c] = down[c]
      /\ buf'[c] = buf[c] /\ pos'[c] = pos[c] /\ late'[c] = late[c] /\ queue' = queue
  BY DEF SimpleTalk, ClientStep, ClientHello, ClientSize, ClientSend, ClientRecv, threadVars, handlerVars
<1>2. Replying(c)'
  BY <1>1 DEF WholeConn, Replying, EchoOf
<1>3. client[c] # "idle" /\ client[c] # "gone" /\ client'[c] # "idle"
  BY DEF SimpleTalk, ClientStep, ClientHello, ClientSize, ClientSend, ClientRecv, ClientMoves,
         SimpleTypeOK, BufTypeOK, ThreadTypeOK, ClientTypeOK
<1>4. Queued(c)'
  BY <1>1, <1>3 DEF WholeConn, Queued
<1>5. ASSUME c \notin Eager
      PROVE  Waiting(c)'
  <2>1. Waiting(c) /\ Replying(c)
    BY <1>5 DEF WholeConn
  <2>2. CASE ClientHello(c)
    <3>1. client[c] = "connected" /\ client'[c] = "hello" /\ up'[c] = 1 /\ got'[c] = got[c]
      BY <2>2 DEF ClientHello, ClientMoves, SimpleTypeOK, BufTypeOK, ThreadTypeOK, ClientTypeOK
    <3>2. QED
      BY <1>1, <2>1, <3>1 DEF Waiting, Replying
  <2>3. CASE ClientSize(c)
    <3>1. /\ client[c] = "hello" /\ client'[c] = "running" /\ up'[c] = up[c] /\ got'[c] = 2
          /\ Len(down[c]) >= 2
      BY <2>3 DEF ClientSize, ClientMoves, SimpleTypeOK, BufTypeOK, ThreadTypeOK, ClientTypeOK
    <3>2. QED
      BY <1>1, <2>1, <3>1 DEF Waiting, Replying
  <2>4. CASE ClientSend(c)
    <3>1. /\ client[c] = "running" /\ client'[c] = "running" /\ got'[c] = got[c]
          /\ up'[c] = up[c] + MsgUnits
          /\ (up[c] - HelloUnits) < (got[c] - AnnounceUnits) + MsgUnits
      BY <1>5, <2>4 DEF ClientSend, Window, SimpleTypeOK, BufTypeOK, ThreadTypeOK, ClientTypeOK
    <3>2. up[c] + 2 = got[c] + 1 /\ got[c] >= 2
      <4>1. up[c] >= 1 /\ got[c] >= 2 /\ (up[c] - 1) < (got[c] - 2) + MsgUnits
        BY <2>1, <3>1 DEF Waiting
      <4>2. up[c] + 2 = got[c] + 1 \/ up[c] + 2 = got[c] + 1 + MsgUnits
        BY <2>1, <3>1 DEF Waiting
      <4>3. QED
        BY <4>1, <4>2
    <3>3. pc[c] # "send"
      <4> SUFFICES ASSUME pc[c] = "send" PROVE FALSE
        OBVIOUS
      <4>1. up[c] = taken[c] /\ got[c] + pos[c] = Len(down[c])
        BY <2>1 DEF Waiting
      <4>2. Len(down[c]) + 1 + MsgUnits = taken[c] + 2 + pos[c]
        BY <2>1 DEF Replying
      <4>3. QED
        BY <3>2, <4>1, <4>2
    <3>4. ~late[c]
      BY <2>1, <3>1 DEF Waiting
    <3>5. QED
      <4>1. up'[c] >= 1 /\ up'[c] + 2 = got'[c] + 1 + MsgUnits /\ got'[c] >= 2
        BY SMTT(30), <3>1, <3>2
      <4>2. taken'[c] <= up'[c] /\ got'[c] <= Len(down'[c])
        BY <1>1, <2>1, <3>1 DEF Waiting
      <4>3. QED
        BY <1>1, <3>1, <3>3, <3>4, <4>1, <4>2 DEF Waiting
  <2>5. CASE ClientRecv(c)
    <3>1. /\ client[c] = "running" /\ client'[c] = "running" /\ up'[c] = up[c]
          /\ got'[c] = got[c] + MsgUnits /\ Len(down[c]) >= got[c] + MsgUnits
      BY <2>5 DEF ClientRecv, SimpleTypeOK, BufTypeOK, ThreadTypeOK, ClientTypeOK
    <3>2. up[c] + 2 = got[c] + 1 + MsgUnits /\ got[c] >= 2
      <4>1. /\ got[c] >= 2 /\ taken[c] <= up[c]
            /\ up[c] + 2 = got[c] + 1 \/ up[c] + 2 = got[c] + 1 + MsgUnits
        BY <2>1, <3>1 DEF Waiting
      <4>2. Len(down[c]) <= 2 \/ Len(down[c]) + 1 <= taken[c] + 2
        BY <2>1 DEF Replying
      <4>3. QED
        BY SMTT(30), <3>1, <4>1, <4>2
    <3>3. pc[c] # "send"
      BY <2>1, <3>1 DEF Waiting
    <3>4. QED
      BY <1>1, <2>1, <3>1, <3>2, <3>3 DEF Waiting
  <2>6. QED
    BY <2>2, <2>3, <2>4, <2>5 DEF SimpleTalk, ClientStep
<1>6. QED
  BY <1>2, <1>4, <1>5 DEF WholeConn

LEMMA LeaveWhole ==
  ASSUME SimpleTypeOK, NEW c \in Conns, WholeConn(c), SimpleLeave(c)
  PROVE  WholeConn(c)'
<1>1. /\ pc' = pc /\ taken' = taken /\ down' = down /\ buf' = buf /\ pos' = pos /\ late' = late
      /\ queue' = queue /\ up' = up /\ got' = got /\ client'[c] = "gone"
  BY DEF SimpleLeave, ClientExit, threadVars, handlerVars, SimpleTypeOK, BufTypeOK, ThreadTypeOK, ClientTypeOK
<1>2. QED
  BY <1>1 DEF WholeConn, Replying, EchoOf, Queued, Waiting

LEMMA ConnectWhole ==
  ASSUME SimpleTypeOK, NEW c \in Conns, WholeConn(c), SimpleConnect(c)
  PROVE  WholeConn(c)'
<1>1. /\ pc' = pc /\ taken' = taken /\ down' = down /\ buf' = buf /\ pos' = pos /\ late' = late
      /\ up' = up /\ got' = got
      /\ client[c] = "idle" /\ client'[c] = "connected"
  BY DEF SimpleConnect, Enqueue, ClientConnect, ClientMoves, handlerVars,
         SimpleTypeOK, BufTypeOK, ThreadTypeOK, ClientTypeOK
<1>2. Replying(c)'
  BY <1>1 DEF WholeConn, Replying, EchoOf
<1>3. Queued(c)'
  BY <1>1 DEF WholeConn, Queued
<1>4. c \notin Eager => Waiting(c)'
  BY <1>1 DEF WholeConn, Waiting
<1>5. QED
  BY <1>2, <1>3, <1>4 DEF WholeConn

-----------------------------------------------------------------------------
\* The server's steps.

LEMMA AcceptWhole ==
  ASSUME SimpleTypeOK, NEW c \in Conns, WholeConn(c), c \in queue,
         queue' = queue \ {c}, pc' = [pc EXCEPT ![c] = "send_size"],
         UNCHANGED clientVars, UNCHANGED handlerVars
  PROVE  WholeConn(c)'
<1>1. pc[c] = "none" /\ pc'[c] = "send_size" /\ client[c] # "idle"
  BY DEF WholeConn, Queued, SimpleTypeOK, BufTypeOK, ThreadTypeOK
<1>2. Replying(c)'
  BY <1>1 DEF WholeConn, Replying, EchoOf, clientVars, handlerVars
<1>3. Queued(c)'
  BY <1>1 DEF WholeConn, Queued, clientVars
<1>4. c \notin Eager => Waiting(c)'
  BY <1>1 DEF WholeConn, Waiting, clientVars, handlerVars
<1>5. QED
  BY <1>2, <1>3, <1>4 DEF WholeConn

LEMMA EndsWhole ==
  ASSUME SimpleTypeOK, NEW c \in Conns, WholeConn(c), SimpleHandlerFails(c)
  PROVE  WholeConn(c)'
<1>1. /\ pc'[c] = "done" /\ client[c] = "gone" /\ pc[c] # "none"
      /\ UNCHANGED <<clientVars, handlerVars, queue>>
  BY DEF SimpleHandlerFails, HandshakeFails, Returns, Moves, SimpleTypeOK, BufTypeOK, ThreadTypeOK
<1>2. Replying(c)'
  BY <1>1 DEF WholeConn, Replying, EchoOf, clientVars, handlerVars
<1>3. Queued(c)'
  BY <1>1 DEF WholeConn, Queued, clientVars
<1>4. c \notin Eager => Waiting(c)'
  BY <1>1 DEF WholeConn, Waiting, clientVars, handlerVars
<1>5. QED
  BY <1>2, <1>3, <1>4 DEF WholeConn

\* Where a reply under way stands.
LEMMA ReplyPlace ==
  ASSUME SimpleTypeOK, NEW c \in Conns, Replying(c), pc[c] = "send"
  PROVE  /\ taken[c] - MsgUnits + (pos[c] + 1) = Len(down[c])
         /\ Len(down[c]) >= 2 /\ taken[c] >= 1 /\ Len(down[c]) <= taken[c]
         /\ (Len(down[c]) + 1) + 1 + MsgUnits = taken[c] + 2 + (pos[c] + 1)
         /\ pos[c] + 1 = MsgUnits => (Len(down[c]) + 1) + 1 = taken[c] + 2
<1> DEFINE t == taken[c]
           l == Len(down[c])
           p == pos[c]
<1>1. /\ t \in Nat /\ l \in Nat /\ p \in Nat /\ p < MsgUnits
      /\ t >= 1 + MsgUnits /\ l + 1 + MsgUnits = t + 2 + p
  BY ConnType, Sizes DEF Replying
<1> HIDE DEF t, l, p
<1>2. /\ t - MsgUnits + (p + 1) = l /\ l >= 2 /\ t >= 1 /\ l <= t
      /\ (l + 1) + 1 + MsgUnits = t + 2 + (p + 1)
      /\ p + 1 = MsgUnits => (l + 1) + 1 = t + 2
  BY <1>1, Sizes
<1>3. QED
  BY <1>2 DEF t, l, p

\* The next unit of a reply is the one the client is owed.
LEMMA SentUnit ==
  ASSUME SimpleTypeOK, NEW c \in Conns, WholeConn(c), pc[c] = "send", SendUnit(c)
  PROVE  /\ down'[c] = EchoOf(c, Len(down'[c]))
         /\ Len(down'[c]) = Len(down[c]) + 1
<1> DEFINE x == buf[c][pos[c] + 1]
<1>1. /\ taken[c] >= 1 + MsgUnits
      /\ Len(down[c]) + 1 + MsgUnits = taken[c] + 2 + pos[c]
      /\ buf[c] = [i \in 1..MsgUnits |-> taken[c] - MsgUnits + i]
      /\ down[c] = EchoOf(c, Len(down[c]))
  BY Sizes DEF WholeConn, Replying
<1>2. /\ taken[c] \in Nat /\ Len(down[c]) \in Nat /\ pos[c] \in Nat /\ pos[c] < MsgUnits
      /\ down[c] \in Seq(Nat)
  BY ConnType
<1>3. pos[c] + 1 \in 1..MsgUnits
  BY <1>2, Sizes
<1>4. x = taken[c] - MsgUnits + (pos[c] + 1)
  BY <1>1, <1>3
<1>5. x \in Nat /\ x = IF Len(down[c]) + 1 <= 2 THEN 0 ELSE 1 + Len(down[c]) + 1 - 2
  <2>1. x = Len(down[c]) /\ Len(down[c]) >= 2
    BY <1>4, ReplyPlace DEF WholeConn
  <2> HIDE DEF x
  <2>2. QED
    BY <1>2, <2>1
<1>6. Append(down[c], x) = EchoOf(c, Len(Append(down[c], x)))
  <2> HIDE DEF x
  <2>1. x = IF Len(down[c]) + 1 <= AnnounceUnits THEN 0
            ELSE HelloUnits + Len(down[c]) + 1 - AnnounceUnits
    BY <1>5, Sizes
  <2>2. QED
    BY <1>1, <1>2, <1>5, <2>1, EchoAppend
<1>7. down'[c] = Append(down[c], x)
  BY DEF SendUnit, WritesUnit, SimpleTypeOK, BufTypeOK, ThreadTypeOK, ClientTypeOK
<1>8. Len(Append(down[c], x)) = Len(down[c]) + 1
  <2> HIDE DEF x
  <2>1. QED
    BY <1>2, <1>5, AppendProperties
<1>9. QED
  BY <1>6, <1>7, <1>8

LEMMA SendWhole ==
  ASSUME SimpleTypeOK, NEW c \in Conns, WholeConn(c), SendPart(c) \/ SendRest(c)
  PROVE  WholeConn(c)'
<1> USE Sizes DEF HelloUnits, AnnounceUnits
<1>0. /\ up[c] \in Nat /\ taken[c] \in Nat /\ got[c] \in Nat
      /\ Len(down[c]) \in Nat /\ pos[c] \in Nat /\ pos[c] < MsgUnits
  BY ConnType
<1> USE <1>0
<1>1. /\ pc[c] = "send" /\ taken'[c] = taken[c] /\ buf'[c] = buf[c] /\ queue' = queue
      /\ client'[c] = client[c] /\ up'[c] = up[c] /\ got'[c] = got[c]
      /\ late'[c] = (late[c] \/ client[c] = "gone")
  BY DEF SendPart, SendRest, SendUnit, WritesUnit, Moves, Late, SimpleTypeOK, BufTypeOK
<1>2. \/ pc'[c] = "send" /\ pos'[c] = pos[c] + 1
      \/ pc'[c] = "recv" /\ pos'[c] = 0 /\ pos[c] + 1 = MsgUnits
  BY DEF SendPart, SendRest, Moves, SimpleTypeOK, BufTypeOK, ThreadTypeOK
<1>3. down'[c] = EchoOf(c, Len(down'[c])) /\ Len(down'[c]) = Len(down[c]) + 1
  <2>1. SendUnit(c)
    BY DEF SendPart, SendRest
  <2>2. QED
    BY <1>1, <2>1, SentUnit
<1>4. Replying(c)
  BY DEF WholeConn
<1>5. Replying(c)'
  <2>1. /\ taken[c] >= 1 + MsgUnits
        /\ Len(down[c]) + 1 + MsgUnits = taken[c] + 2 + pos[c]
        /\ buf[c] = [i \in 1..MsgUnits |-> taken[c] - MsgUnits + i]
    BY <1>1, <1>4 DEF Replying
  <2>2. (down[c] = EchoOf(c, Len(down[c])))'
    BY <1>3 DEF EchoOf
  <2>3. /\ pc'[c] = "recv" =>
             taken'[c] >= 1 /\ Len(down'[c]) + 1 = taken'[c] + 2
        /\ pc'[c] = "send" =>
             Len(down'[c]) + 1 + MsgUnits = taken'[c] + 2 + pos'[c]
        /\ Len(down'[c]) + 1 <= taken'[c] + 2
    <3> DEFINE l == Len(down[c])
    <3>0. /\ taken[c] >= 1 /\ l <= taken[c]
          /\ (l + 1) + 1 + MsgUnits = taken[c] + 2 + (pos[c] + 1)
          /\ pos[c] + 1 = MsgUnits => (l + 1) + 1 = taken[c] + 2
      BY <1>1, <1>4, ReplyPlace
    <3>a. Len(down'[c]) = l + 1 /\ taken'[c] = taken[c]
      BY <1>1, <1>3
    <3> HIDE DEF l
    <3>1. CASE pc'[c] = "send" /\ pos'[c] = pos[c] + 1
      BY <3>0, <3>a, <3>1
    <3>2. CASE pc'[c] = "recv" /\ pos'[c] = 0 /\ pos[c] + 1 = MsgUnits
      BY <3>0, <3>a, <3>2
    <3>3. QED
      BY <1>2, <3>1, <3>2
  <2>4. QED
    BY <1>1, <1>2, <2>1, <2>2, <2>3 DEF Replying
<1>6. Queued(c)'
  BY <1>1, <1>2 DEF WholeConn, Queued
<1>7. c \notin Eager => Waiting(c)'
  <2> SUFFICES ASSUME c \notin Eager PROVE Waiting(c)'
    OBVIOUS
  <2>1. Waiting(c)
    BY DEF WholeConn
  <2>2. up[c] = taken[c] /\ got[c] + pos[c] = Len(down[c])
    BY <1>1, <2>1 DEF Waiting
  <2>3. /\ taken'[c] <= up'[c] /\ got'[c] <= Len(down'[c])
        /\ pc'[c] = "send" => up'[c] = taken'[c] /\ got'[c] + pos'[c] = Len(down'[c])
        /\ pc'[c] = "send" => pos'[c] > 0
        /\ pc'[c] = "recv" => up'[c] < taken'[c] + MsgUnits
    <3>1. CASE pc'[c] = "send" /\ pos'[c] = pos[c] + 1
      <4>1. /\ taken'[c] = taken[c] /\ up'[c] = up[c] /\ got'[c] = got[c]
            /\ Len(down'[c]) = Len(down[c]) + 1 /\ taken[c] <= up[c]
            /\ got[c] <= Len(down[c])
        BY <1>1, <1>3, <2>1 DEF Waiting
      <4>2. QED
        BY <2>2, <3>1, <4>1
    <3>2. CASE pc'[c] = "recv" /\ pos'[c] = 0 /\ pos[c] + 1 = MsgUnits
      BY <1>1, <1>3, <2>2, <3>2
    <3>3. QED
      BY <1>2, <3>1, <3>2
  <2>4. late'[c] => client'[c] = "gone"
    BY <1>1, <2>1 DEF Waiting
  <2>5. QED
    BY <1>1, <1>2, <2>1, <2>3, <2>4 DEF Waiting
<1>8. QED
  BY <1>5, <1>6, <1>7 DEF WholeConn

LEMMA GreetWhole ==
  ASSUME SimpleTypeOK, NEW c \in Conns, WholeConn(c), SendSize(c), Late(c), UNCHANGED <<buf, pos>>
  PROVE  WholeConn(c)'
<1> USE Sizes DEF HelloUnits, AnnounceUnits
<1>0. /\ up[c] \in Nat /\ taken[c] \in Nat /\ got[c] \in Nat
      /\ down[c] \in Seq(Nat) /\ Len(down[c]) \in Nat /\ pos[c] \in Nat /\ pos[c] < MsgUnits
  BY ConnType
<1> USE <1>0
<1>1. /\ pc[c] = "send_size" /\ pc'[c] = "recv_hello" /\ taken'[c] = taken[c]
      /\ buf' = buf /\ pos' = pos /\ queue' = queue
      /\ client'[c] = client[c] /\ up'[c] = up[c] /\ got'[c] = got[c]
      /\ late'[c] = (late[c] \/ client[c] = "gone")
      /\ down'[c] = down[c] \o Announcement
  BY DEF SendSize, Moves, Late, SimpleTypeOK, BufTypeOK, ThreadTypeOK, ClientTypeOK
<1>2. Len(down[c]) = 0 /\ taken[c] = 0 /\ pos[c] = 0
  BY <1>1 DEF WholeConn, Replying
<1>3. down[c] = <<>>
  BY <1>2, EmptySeq
<1>4. down'[c] = Announcement
  BY <1>1, <1>3 DEF Announcement
<1>5. Replying(c)'
  <2>1. down'[c] = EchoOf(c, Len(down'[c])) /\ Len(down'[c]) = 2
    BY <1>4, EchoStart
  <2>2. (down[c] = EchoOf(c, Len(down[c])))'
    BY <2>1 DEF EchoOf
  <2>3. QED
    BY <1>1, <1>2, <2>1, <2>2 DEF Replying
<1>6. Queued(c)'
  BY <1>1 DEF WholeConn, Queued
<1>7. c \notin Eager => Waiting(c)'
  <2> SUFFICES ASSUME c \notin Eager PROVE Waiting(c)'
    OBVIOUS
  <2>1. Waiting(c) /\ Len(down'[c]) = 2
    BY <1>4, EchoStart DEF WholeConn
  <2>2. up[c] <= 1 /\ got[c] = 0 /\ client[c] # "running"
    BY <1>2, <2>1 DEF Waiting
  <2>3. /\ taken'[c] <= up'[c] /\ got'[c] <= Len(down'[c])
        /\ up'[c] < taken'[c] + 1 + MsgUnits
    BY <1>1, <1>2, <2>1, <2>2
  <2>4. late'[c] => client'[c] = "gone"
    BY <1>1, <2>1 DEF Waiting
  <2>5. QED
    BY <1>1, <2>1, <2>2, <2>3, <2>4 DEF Waiting
<1>8. QED
  BY <1>5, <1>6, <1>7 DEF WholeConn

LEMMA HelloWhole ==
  ASSUME SimpleTypeOK, NEW c \in Conns, WholeConn(c), RecvHello(c), UNCHANGED handlerVars
  PROVE  WholeConn(c)'
<1> USE Sizes DEF HelloUnits, AnnounceUnits
<1>0. /\ up[c] \in Nat /\ taken[c] \in Nat /\ got[c] \in Nat
      /\ Len(down[c]) \in Nat /\ pos[c] \in Nat
  BY ConnType
<1>1. /\ pc[c] = "recv_hello" /\ pc'[c] = "recv" /\ taken'[c] = taken[c] + 1
      /\ taken[c] + 1 <= up[c] /\ down' = down /\ client' = client /\ up' = up /\ got' = got
      /\ buf' = buf /\ pos' = pos /\ late' = late /\ queue' = queue
  BY DEF RecvHello, Moves, handlerVars, SimpleTypeOK, BufTypeOK, ThreadTypeOK, ClientTypeOK
<1>2. Len(down[c]) = 2 /\ taken[c] = 0 /\ pos[c] = 0
  BY <1>1 DEF WholeConn, Replying
<1>3. Replying(c)'
  <2>1. (down[c] = EchoOf(c, Len(down[c])))'
    BY <1>1 DEF WholeConn, Replying, EchoOf
  <2>2. QED
    BY <1>1, <1>2, <2>1 DEF Replying
<1>4. Queued(c)'
  BY <1>1 DEF WholeConn, Queued
<1>5. c \notin Eager => Waiting(c)'
  <2> SUFFICES ASSUME c \notin Eager PROVE Waiting(c)'
    OBVIOUS
  <2>1. Waiting(c)
    BY DEF WholeConn
  <2>2. late[c] => client[c] = "gone" /\ up[c] < 1 + MsgUnits
    BY <1>1, <1>2, <2>1 DEF Waiting
  <2>3. QED
    BY <1>0, <1>1, <1>2, <2>1, <2>2 DEF Waiting
<1>6. QED
  BY <1>3, <1>4, <1>5 DEF WholeConn

LEMMA RecvWhole ==
  ASSUME SimpleTypeOK, NEW c \in Conns, WholeConn(c), Recv(c)
  PROVE  WholeConn(c)'
<1> USE Sizes DEF HelloUnits, AnnounceUnits
<1>0. /\ up[c] \in Nat /\ taken[c] \in Nat /\ got[c] \in Nat
      /\ Len(down[c]) \in Nat /\ pos[c] \in Nat
  BY ConnType
<1>1. /\ pc[c] = "recv" /\ pc'[c] = "send" /\ taken'[c] = taken[c] + MsgUnits
      /\ taken[c] + MsgUnits <= up[c] /\ down' = down /\ client' = client /\ up' = up
      /\ got' = got /\ buf'[c] = Incoming(c) /\ pos' = pos /\ late' = late /\ queue' = queue
  BY DEF Recv, ReadsMessage, Moves, SimpleTypeOK, BufTypeOK, ThreadTypeOK, ClientTypeOK
<1>2. taken[c] >= 1 /\ Len(down[c]) + 1 = taken[c] + 2 /\ pos[c] = 0
  BY <1>1 DEF WholeConn, Replying
<1>3. Replying(c)'
  <2>1. (down[c] = EchoOf(c, Len(down[c])))'
    BY <1>1 DEF WholeConn, Replying, EchoOf
  <2>2. (buf[c] = [i \in 1..MsgUnits |-> taken[c] - MsgUnits + i])'
    BY <1>0, <1>1 DEF Incoming
  <2>3. taken'[c] >= 1 + MsgUnits /\ Len(down'[c]) + 1 + MsgUnits = taken'[c] + 2 + pos'[c]
    BY SMTT(30), <1>0, <1>1, <1>2
  <2>4. Len(down'[c]) + 1 <= taken'[c] + 2
    BY <1>0, <1>1, <1>2
  <2>5. QED
    BY <1>1, <2>1, <2>2, <2>3, <2>4 DEF Replying
<1>4. Queued(c)'
  BY <1>1 DEF WholeConn, Queued
<1>5. c \notin Eager => Waiting(c)'
  <2> SUFFICES ASSUME c \notin Eager PROVE Waiting(c)'
    OBVIOUS
  <2>1. Waiting(c)
    BY DEF WholeConn
  <2>2. ~late[c]
    BY <1>0, <1>1, <2>1 DEF Waiting
  <2>3. got[c] <= Len(down[c]) /\ up[c] + 2 = got[c] + 1 + MsgUnits
    <3>1. /\ got[c] <= Len(down[c])
          /\ \/ up[c] <= 1
             \/ up[c] + 2 = got[c] + 1 \/ up[c] + 2 = got[c] + 1 + MsgUnits
      BY <2>1 DEF Waiting
    <3>2. QED
      BY SMTT(30), <1>0, <1>1, <1>2, <3>1
  <2>4. up[c] = taken[c] + MsgUnits /\ got[c] = Len(down[c])
    <3>1. taken[c] + MsgUnits <= up[c]
      BY <1>1
    <3>2. QED
      BY SMTT(30), <1>0, <1>2, <2>3, <3>1
  <2>5. QED
    BY <1>0, <1>1, <1>2, <2>1, <2>2, <2>4 DEF Waiting
<1>6. QED
  BY <1>3, <1>4, <1>5 DEF WholeConn

-----------------------------------------------------------------------------
\* Every step keeps every connection whole.

\* A step about connection c alone.
Concerns(c) ==
  \/ SimpleHandlerStep(c) \/ SimpleHandlerFails(c) \/ Killed(c)
  \/ SimpleConnect(c) \/ SimpleTalk(c) \/ SimpleLeave(c)

LEMMA OthersSame ==
  ASSUME SimpleTypeOK, NEW c \in Conns, NEW d \in Conns, d # c, Concerns(c)
  PROVE  Same(d)
<1>1. CASE SimpleHandlerStep(c)
  BY <1>1 DEF SimpleHandlerStep, SimpleHandshake, HandshakeStep, SendSize, RecvHello, Recv, ReadsMessage, SendPart,
              SendRest, SendUnit, WritesUnit, Late, Moves, Same, SimpleTypeOK, BufTypeOK, ThreadTypeOK, ClientTypeOK
<1>2. CASE SimpleHandlerFails(c)
  BY <1>2 DEF SimpleHandlerFails, HandshakeFails, Returns, Moves, clientVars, handlerVars, Same,
              SimpleTypeOK, BufTypeOK, ThreadTypeOK
<1>3. CASE Killed(c)
  BY <1>3 DEF Killed, clientVars, handlerVars, Same
<1>4. CASE SimpleConnect(c)
  BY <1>4 DEF SimpleConnect, Enqueue, ClientConnect, ClientMoves, handlerVars, Same,
              SimpleTypeOK, BufTypeOK, ThreadTypeOK, ClientTypeOK
<1>5. CASE SimpleTalk(c)
  BY <1>5 DEF SimpleTalk, ClientStep, ClientHello, ClientSize, ClientSend, ClientRecv, ClientMoves,
              threadVars, handlerVars, Same, SimpleTypeOK, BufTypeOK, ThreadTypeOK, ClientTypeOK
<1>6. CASE SimpleLeave(c)
  BY <1>6 DEF SimpleLeave, ClientExit, threadVars, handlerVars, Same,
              SimpleTypeOK, BufTypeOK, ThreadTypeOK, ClientTypeOK
<1>7. QED
  BY <1>1, <1>2, <1>3, <1>4, <1>5, <1>6 DEF Concerns

LEMMA OwnWhole ==
  ASSUME SimpleTypeOK, NEW c \in Conns, WholeConn(c), Concerns(c)
  PROVE  WholeConn(c)'
<1>1. CASE SimpleHandlerStep(c)
  <2>1. CASE Recv(c)
    BY <2>1, RecvWhole
  <2>2. CASE SendPart(c) \/ SendRest(c)
    BY <2>2, SendWhole
  <2>3. CASE SimpleHandshake(c) /\ pc[c] = "send_size"
    <3>1. SendSize(c) /\ Late(c) /\ UNCHANGED <<buf, pos>>
      BY <2>3 DEF SimpleHandshake, HandshakeStep, RecvHello, Moves
    <3>2. QED
      BY <3>1, GreetWhole
  <2>4. CASE SimpleHandshake(c) /\ pc[c] # "send_size"
    <3>1. RecvHello(c) /\ UNCHANGED handlerVars
      BY <2>4 DEF SimpleHandshake, HandshakeStep, SendSize, Moves, handlerVars
    <3>2. QED
      BY <3>1, HelloWhole
  <2>5. QED
    BY <1>1, <2>1, <2>2, <2>3, <2>4 DEF SimpleHandlerStep
<1>2. CASE Killed(c)
  <2>1. Same(c)
    BY <1>2 DEF Killed, clientVars, handlerVars, Same
  <2>2. QED
    BY <2>1, SameWhole
<1>3. QED
  BY <1>1, <1>2, EndsWhole, ConnectWhole, TalkWhole, LeaveWhole DEF Concerns

LEMMA WholeStep ==
  ASSUME SimpleTypeOK, \A c \in Conns : WholeConn(c), [SimpleNext]_simpleVars
  PROVE  \A c \in Conns : WholeConn(c)'
<1> SUFFICES ASSUME NEW d \in Conns PROVE WholeConn(d)'
  OBVIOUS
<1>0. WholeConn(d)
  OBVIOUS
<1>1. CASE SimpleAccept
  <2>1. PICK c \in queue : /\ queue' = queue \ {c}
                           /\ pc' = [pc EXCEPT ![c] = "send_size"]
    BY <1>1 DEF SimpleAccept, MainAccept
  <2>2. UNCHANGED clientVars /\ UNCHANGED handlerVars
    BY <1>1 DEF SimpleAccept, MainAccept
  <2>3. CASE d = c
    BY <1>0, <2>1, <2>2, <2>3, AcceptWhole
  <2>4. CASE d # c
    <3>1. Same(d)
      BY <2>1, <2>2, <2>4 DEF Same, clientVars, handlerVars, SimpleTypeOK, BufTypeOK, ThreadTypeOK
    <3>2. QED
      BY <1>0, <3>1, SameWhole
  <2>5. QED
    BY <2>3, <2>4
<1>2. CASE SimpleAcceptFail \/ UNCHANGED simpleVars
  <2>1. Same(d)
    BY <1>2 DEF SimpleAcceptFail, MainAcceptFail, Same, simpleVars, clientVars, threadVars, handlerVars
  <2>2. QED
    BY <1>0, <2>1, SameWhole
<1>3. ASSUME NEW c \in Conns, Concerns(c)
      PROVE  WholeConn(d)'
  <2>1. CASE d = c
    BY <1>0, <1>3, <2>1, OwnWhole
  <2>2. CASE d # c
    <3>1. Same(d)
      BY <1>3, <2>2, OthersSame
    <3>2. QED
      BY <1>0, <3>1, SameWhole
  <2>3. QED
    BY <2>1, <2>2
<1>4. QED
  BY <1>1, <1>2, <1>3 DEF SimpleNext, Concerns

-----------------------------------------------------------------------------
\* The theorems.

\* With NoSigpipe a consequence, this is the induction hypothesis.
AllWhole == SimpleTypeOK /\ \A c \in Conns : WholeConn(c)

LEMMA WholeInit == SimpleInit => AllWhole
<1> SUFFICES ASSUME SimpleInit PROVE AllWhole
  OBVIOUS
<1> USE Sizes DEF SimpleInit, BufInit, ThreadInit, ClientInit
<1>1. SimpleTypeOK
  BY DEF SimpleTypeOK, BufTypeOK, ThreadTypeOK, ClientTypeOK, Stages
<1>2. ASSUME NEW c \in Conns PROVE WholeConn(c)
  <2>1. down[c] = <<>> /\ Len(down[c]) = 0
    OBVIOUS
  <2>2. Replying(c)
    BY <2>1 DEF Replying, EchoOf
  <2>3. Queued(c) /\ Waiting(c)
    BY <2>1 DEF Queued, Waiting, HelloUnits, AnnounceUnits
  <2>4. QED
    BY <2>2, <2>3 DEF WholeConn
<1>3. QED
  BY <1>1, <1>2 DEF AllWhole

LEMMA WholeReplies == AllWhole => ReplyInv
BY ConnType DEF AllWhole, WholeConn, ReplyInv, NoSigpipe, Sigpipe, Waiting

LEMMA AlwaysWhole == SimpleSpec => []AllWhole
<1>1. AllWhole /\ [SimpleNext]_simpleVars => AllWhole'
  <2> SUFFICES ASSUME AllWhole, [SimpleNext]_simpleVars PROVE AllWhole'
    OBVIOUS
  <2>1. SimpleTypeOK'
    BY TypeStep DEF AllWhole
  <2>2. \A c \in Conns : WholeConn(c)'
    BY WholeStep DEF AllWhole
  <2>3. QED
    BY <2>1, <2>2 DEF AllWhole
<1>2. QED
  BY WholeInit, <1>1, PTL DEF SimpleSpec

\* A message is answered in full from its own buffer before the next is read,
\* and no client that waits for its replies raises SIGPIPE, wherever a send
\* is cut by a full socket buffer and whenever clients leave (25-50).
THEOREM RepliesWhole == SimpleSpec => []ReplyInv
BY AlwaysWhole, WholeReplies, PTL

\* Every unit sent is the announcement's or, in order, the client's own.
THEOREM SimpleEchoes == SimpleSpec => []EchoOk
<1>1. AllWhole => EchoOk
  BY DEF AllWhole, WholeConn, Replying, EchoOk
<1>2. QED
  BY AlwaysWhole, <1>1, PTL

-----------------------------------------------------------------------------
\* The service.

\* What is read comes in whole messages, after "Hi".
ReadMsgs(c) ==
  /\ taken[c] <= up[c]
  /\ pc[c] \in {"recv", "send"} => \E n \in Nat : taken[c] = n * MsgUnits + HelloUnits

Serves(c) == Cut(c) /\ ReadMsgs(c)

Served == AllWhole /\ \A c \in Conns : Serves(c)

LEMMA ServedMapped ==
  ASSUME Served, NEW c \in Conns
  PROVE  Mapped(c)
<1>1. up[c] \in Nat /\ taken[c] \in Nat /\ down[c] \in Seq(Nat) /\ Len(down[c]) \in Nat
  BY ConnType DEF Served, AllWhole
<1>2. /\ down[c] = EchoOf(c, Len(down[c]))
      /\ Len(down[c]) <= AnnounceUnits \/ Len(down[c]) + HelloUnits <= taken[c] + AnnounceUnits
      /\ taken[c] <= up[c]
  BY DEF Served, AllWhole, WholeConn, Replying, Serves, ReadMsgs
<1>3. Len(down[c]) <= AnnounceUnits \/ Len(down[c]) + HelloUnits <= up[c] + AnnounceUnits
  BY <1>1, <1>2, Sizes
<1>4. Replied(c) \in Nat /\ Replied(c) <= Asked(c) /\ Asked(c) \in Nat
  BY <1>1, <1>3, RepliedAsked, CutAsked DEF Served, Serves
<1>5. QED
  BY <1>1, <1>2, <1>4, ExactMapped DEF Exact

LEMMA SameServes ==
  ASSUME NEW d \in Conns, Same(d), Serves(d)
  PROVE  Serves(d)' /\ SameService(d)
<1>1. Greeted(d)' = Greeted(d) /\ Replied(d)' = Replied(d)
  BY DEF Same, Greeted, Replied
<1>2. Cut(d)' /\ StageOf(d)' = StageOf(d) /\ Asked(d)' = Asked(d)
  BY <1>1, CutKept DEF Same, Serves
<1>3. ReadMsgs(d)'
  BY DEF Same, Serves, ReadMsgs
<1>4. QED
  BY <1>1, <1>2, <1>3 DEF Serves, SameService

\* A thread between its calls, or one that ends.
LEMMA QuietServes ==
  ASSUME NEW c \in Conns, Serves(c), UNCHANGED clientVars,
         pc'[c] = pc[c] \/ pc'[c] \in {"none", "send_size", "done"}
  PROVE  Serves(c)' /\ SameService(c)
<1>1. Greeted(c)' = Greeted(c) /\ Replied(c)' = Replied(c)
  BY DEF clientVars, Greeted, Replied
<1>2. Cut(c)' /\ StageOf(c)' = StageOf(c) /\ Asked(c)' = Asked(c)
  BY <1>1, CutKept DEF clientVars, Serves
<1>3. ReadMsgs(c)'
  BY DEF clientVars, Serves, ReadMsgs
<1>4. QED
  BY <1>1, <1>2, <1>3 DEF Serves, SameService

LEMMA RecvServes ==
  ASSUME SimpleTypeOK, NEW c \in Conns, WholeConn(c), Serves(c), Recv(c) \/ RecvHello(c)
  PROVE  Serves(c)' /\ SameService(c)
<1> USE Sizes
<1>1. up[c] \in Nat /\ taken[c] \in Nat
  BY ConnType
<1>2. /\ down' = down /\ client' = client /\ up' = up /\ taken'[c] <= up[c]
      /\ \/ pc[c] = "recv" /\ taken'[c] = taken[c] + MsgUnits
         \/ pc[c] = "recv_hello" /\ taken'[c] = taken[c] + HelloUnits
  BY DEF Recv, ReadsMessage, RecvHello, Moves, SimpleTypeOK, BufTypeOK, ThreadTypeOK, ClientTypeOK
<1>3. Greeted(c)' = Greeted(c) /\ Replied(c)' = Replied(c)
  BY <1>2 DEF Greeted, Replied
<1>4. Cut(c)' /\ StageOf(c)' = StageOf(c) /\ Asked(c)' = Asked(c)
  BY <1>2, <1>3, CutKept DEF Serves
<1>5. \E n \in Nat : taken'[c] = n * MsgUnits + HelloUnits
  <2>1. CASE pc[c] = "recv"
    <3>1. PICK n \in Nat : taken[c] = n * MsgUnits + HelloUnits
      BY <2>1 DEF Serves, ReadMsgs
    <3>2. n + 1 \in Nat /\ taken'[c] = (n + 1) * MsgUnits + HelloUnits
      BY <1>2, <2>1, <3>1
    <3>3. QED
      BY <3>2
  <2>2. CASE pc[c] = "recv_hello"
    <3>1. taken[c] = 0
      BY <2>2 DEF WholeConn, Replying
    <3>2. taken'[c] = 0 * MsgUnits + HelloUnits
      BY <1>2, <2>2, <3>1
    <3>3. QED
      BY <3>2
  <2>3. QED
    BY <1>2, <2>1, <2>2
<1>6. ReadMsgs(c)'
  BY <1>2, <1>5 DEF ReadMsgs
<1>7. QED
  BY <1>3, <1>4, <1>6 DEF Serves, SameService

LEMMA SendSizeServes ==
  ASSUME SimpleTypeOK, NEW c \in Conns, WholeConn(c), Serves(c), SendSize(c)
  PROVE  Serves(c)' /\ ServiceGreets(c)
<1> USE Sizes
<1>1. /\ pc[c] = "send_size" /\ pc'[c] = "recv_hello" /\ client' = client /\ up' = up
      /\ taken' = taken /\ down'[c] = down[c] \o Announcement
  BY DEF SendSize, Moves, SimpleTypeOK, BufTypeOK, ThreadTypeOK, ClientTypeOK
<1>2. Len(down[c]) = 0 /\ client[c] # "idle"
  BY <1>1 DEF WholeConn, Replying, Queued
<1>3. Cut(c)' /\ ServiceGreets(c)
  BY <1>1, <1>2, ConnType, GreetServes DEF Serves
<1>4. ReadMsgs(c)'
  BY <1>1 DEF Serves, ReadMsgs
<1>5. QED
  BY <1>3, <1>4 DEF Serves

\* Only the last unit of a reply completes one.
LEMMA SendServes ==
  ASSUME SimpleTypeOK, NEW c \in Conns, WholeConn(c), Serves(c), SendPart(c) \/ SendRest(c)
  PROVE  Serves(c)' /\ (SameService(c) \/ ServiceEchoes(c))
<1> USE Sizes
<1>1. /\ up[c] \in Nat /\ taken[c] \in Nat /\ Len(down[c]) \in Nat
      /\ pos[c] \in Nat /\ pos[c] < MsgUnits
  BY ConnType
<1>2. /\ pc[c] = "send" /\ pc'[c] \in {"send", "recv"} /\ client' = client /\ up' = up
      /\ taken' = taken /\ Len(down'[c]) = Len(down[c]) + 1
  BY SentUnit DEF SendPart, SendRest, SendUnit, WritesUnit, Moves, SimpleTypeOK, BufTypeOK, ThreadTypeOK, ClientTypeOK
<1>3. taken[c] >= 1 + MsgUnits /\ Len(down[c]) + 1 + MsgUnits = taken[c] + 2 + pos[c] /\ taken[c] <= up[c]
  BY <1>2 DEF WholeConn, Replying, Serves, ReadMsgs
<1>4. Len(down[c]) >= 2 /\ Len(down[c]) + 2 <= up[c] + 2
  BY SMTT(30), <1>1, <1>3
<1>5. Cut(c)' /\ (SameService(c) \/ ServiceEchoes(c))
  <2>1. 1 \in 0..MsgUnits /\ Len(down'[c]) + HelloUnits <= up[c] + AnnounceUnits
    BY <1>1, <1>2, <1>4
  <2>2. QED
    BY <1>1, <1>2, <1>4, <2>1, WriteServes DEF Serves
<1>6. ReadMsgs(c)'
  BY <1>2 DEF Serves, ReadMsgs
<1>7. QED
  BY <1>5, <1>6 DEF Serves

LEMMA OwnServes ==
  ASSUME SimpleTypeOK, NEW c \in Conns, WholeConn(c), Serves(c), Concerns(c)
  PROVE  Serves(c)' /\ ServiceMove(c)
<1>1. CASE SimpleHandlerStep(c)
  <2>1. CASE SimpleHandshake(c) /\ pc[c] = "send_size"
    <3>1. SendSize(c)
      BY <2>1 DEF SimpleHandshake, HandshakeStep, RecvHello, Moves
    <3>2. QED
      BY <3>1, SendSizeServes DEF ServiceMove
  <2>2. CASE SimpleHandshake(c) /\ pc[c] # "send_size"
    <3>1. RecvHello(c)
      BY <2>2 DEF SimpleHandshake, HandshakeStep, SendSize, Moves
    <3>2. QED
      BY <3>1, RecvServes DEF ServiceMove
  <2>3. QED
    BY <1>1, <2>1, <2>2, RecvServes, SendServes DEF SimpleHandlerStep, ServiceMove
<1>2. CASE SimpleHandlerFails(c) \/ Killed(c)
  <2>1. UNCHANGED clientVars /\ (pc'[c] = pc[c] \/ pc'[c] = "done")
    BY <1>2 DEF SimpleHandlerFails, HandshakeFails, Returns, Moves, Killed, SimpleTypeOK, BufTypeOK, ThreadTypeOK
  <2>2. QED
    BY <2>1, QuietServes DEF ServiceMove
<1>3. CASE SimpleConnect(c) \/ SimpleTalk(c) \/ SimpleLeave(c)
  <2>1. ClientStep(c) \/ ClientConnect(c) \/ ClientExit(c)
    BY <1>3 DEF SimpleConnect, Enqueue, SimpleTalk, SimpleLeave
  <2>2. ClientTypeOK
    BY DEF SimpleTypeOK, BufTypeOK, ThreadTypeOK
  <2>3. Cut(c)' /\ ServiceMove(c)
    BY <2>1, <2>2, ClientServes DEF Serves
  <2>4. up'[c] >= up[c] /\ up'[c] \in Nat /\ taken' = taken /\ pc' = pc
    BY <1>3, <2>2, Sizes DEF SimpleConnect, Enqueue, SimpleTalk, SimpleLeave, threadVars, ClientTypeOK, ClientStep, ClientHello,
       ClientSize, ClientSend, ClientRecv, ClientConnect, ClientExit, Serves, Cut, ClientMoves
  <2>5. ReadMsgs(c)'
    <3>1. up[c] \in Nat /\ taken[c] \in Nat /\ taken[c] <= up[c]
      BY ConnType DEF Serves, ReadMsgs
    <3>2. taken'[c] <= up'[c]
      BY <2>4, <3>1
    <3>3. QED
      BY <2>4, <3>2 DEF Serves, ReadMsgs
  <2>6. QED
    BY <2>3, <2>5 DEF Serves
<1>4. QED
  BY <1>1, <1>2, <1>3 DEF Concerns

\* Every step of the program serves one connection, or none.
LEMMA ServesStep ==
  ASSUME Served, [SimpleNext]_simpleVars
  PROVE  \/ \A c \in Conns : Serves(c)' /\ SameService(c)
         \/ \E k \in Conns : /\ ServiceMove(k) /\ \A c \in Conns \ {k} : SameService(c)
                             /\ \A c \in Conns : Serves(c)'
<1>0. SimpleTypeOK /\ \A c \in Conns : WholeConn(c) /\ Serves(c)
  BY DEF Served, AllWhole
<1>1. CASE SimpleAccept \/ SimpleAcceptFail \/ UNCHANGED simpleVars
  <2>1. UNCHANGED clientVars /\ \A c \in Conns : pc'[c] = pc[c] \/ pc'[c] = "send_size"
    BY <1>0, <1>1 DEF SimpleAccept, MainAccept, SimpleAcceptFail, MainAcceptFail, simpleVars, threadVars, SimpleTypeOK, BufTypeOK, ThreadTypeOK
  <2>2. QED
    BY <1>0, <2>1, QuietServes
<1>2. ASSUME NEW c \in Conns, Concerns(c)
      PROVE  \E k \in Conns : /\ ServiceMove(k) /\ \A d \in Conns \ {k} : SameService(d)
                              /\ \A d \in Conns : Serves(d)'
  <2>1. Serves(c)' /\ ServiceMove(c)
    BY <1>0, <1>2, OwnServes
  <2>2. \A d \in Conns \ {c} : Serves(d)' /\ SameService(d)
    BY <1>0, <1>2, OthersSame, SameServes
  <2>3. QED
    BY <2>1, <2>2
<1>3. QED
  BY <1>1, <1>2 DEF SimpleNext, Concerns

LEMMA ServedAlways == SimpleSpec => []Served
<1>1. SimpleInit => Served
  <2> SUFFICES ASSUME SimpleInit PROVE Served
    OBVIOUS
  <2>1. AllWhole
    BY WholeInit
  <2>2. ASSUME NEW c \in Conns PROVE Serves(c)
    <3>1. client[c] = "idle" /\ up[c] = 0 /\ taken[c] = 0 /\ pc[c] = "none"
      BY DEF SimpleInit, BufInit, ThreadInit, ClientInit
    <3>2. taken[c] <= up[c]
      BY <3>1
    <3>3. QED
      BY <3>1, <3>2 DEF Serves, Cut, ReadMsgs
  <2>3. QED
    BY <2>1, <2>2 DEF Served
<1>2. Served /\ AllWhole' /\ [SimpleNext]_simpleVars => Served'
  BY ServesStep DEF Served
<1>3. QED
  BY <1>1, <1>2, AlwaysWhole, PTL DEF SimpleSpec

\* The blocking server does what an echo server promises, for any number of
\* connections and any sizes: it announces once, and then gives back every message
\* once, whole and in order, although it sends it in parts (25-50).
THEOREM SimpleServes == SimpleSpec => ServiceSpec
<1>1. SimpleInit => Service!Init
  BY InitMapped DEF SimpleInit, BufInit, ThreadInit
<1>2. Served => \A c \in Conns : Mapped(c)
  BY ServedMapped
<1>3. /\ Served /\ [SimpleNext]_simpleVars
      /\ \A c \in Conns : Mapped(c)
      /\ (\A c \in Conns : Mapped(c))'
      => [Service!Next]_(Service!vars)
  BY ServesStep, ServiceNext
<1>4. QED
  BY <1>1, <1>2, <1>3, ServedAlways, PTL DEF SimpleSpec, ServiceSpec, Service!Spec

-----------------------------------------------------------------------------
\* The servers with a ring for each connection: what holds of both.

\* Nothing is consumed that was not written, and no unit is sent before the
\* one it answers has been received.
Behind(c) ==
  /\ client[c] \in {"idle", "connected"} => up[c] = 0
  /\ taken[c] <= up[c] /\ got[c] <= Len(down[c])
  /\ Len(down[c]) <= AnnounceUnits \/ Len(down[c]) + HelloUnits <= taken[c] + AnnounceUnits

\* A client that waits for its replies is at most one message ahead of them.
InStep(c) ==
  /\ client[c] \in {"idle", "connected", "hello"} => up[c] <= HelloUnits /\ got[c] = 0
  /\ client[c] = "hello" => up[c] = HelloUnits
  /\ \/ up[c] <= HelloUnits /\ got[c] = 0 /\ client[c] # "running"
     \/ /\ up[c] >= HelloUnits /\ got[c] >= AnnounceUnits
        /\ \/ up[c] + AnnounceUnits = got[c] + HelloUnits
           \/ up[c] + AnnounceUnits = got[c] + HelloUnits + MsgUnits

\* Both, and the stream is the client's own.
Talking(c) ==
  /\ Behind(c)
  /\ c \notin Eager => InStep(c)
  /\ down[c] = EchoOf(c, Len(down[c]))

\* What may end a thread: a client that left, one that does not wait for its
\* replies, or a message that the socket buffers do not hold.
Excused(c) == client[c] = "gone" \/ c \in Eager \/ MsgUnits > Capacity

Idle(c) == sq[c] = {} /\ inflight[c] = {} /\ cq[c] = <<>>

Unbegun(c) == spos[c] = 0 /\ rpos[c] = 0

\* The handshake.
Shaking(c) ==
  /\ Idle(c) /\ Unbegun(c)
  /\ \/ pc[c] \in {"none", "send_size"} /\ Len(down[c]) = 0 /\ taken[c] = 0
     \/ pc[c] = "recv_hello" /\ Len(down[c]) = AnnounceUnits /\ taken[c] = 0

\* Every message received has been answered.
Level(c) == taken[c] >= HelloUnits /\ Len(down[c]) + HelloUnits = taken[c] + AnnounceUnits

\* The last n units received are in buffer b, unanswered, but for the first k
\* of them.
Holds(c, b, n, k) ==
  /\ taken[c] >= HelloUnits + n
  /\ Len(down[c]) + HelloUnits + n = taken[c] + AnnounceUnits + k
  /\ \A i \in 1..n : mem[c][b][i] = taken[c] - n + i

-----------------------------------------------------------------------------
\* uring.c: where a thread is, what its ring holds and what its buffer holds.

\* One request, submitted or not, and no completion.
Pending(c, request) ==
  /\ cq[c] = <<>>
  /\ \/ sq[c] = {request} /\ inflight[c] = {}
     \/ sq[c] = {} /\ inflight[c] = {request}

\* Its completion, not yet waited for.
Complete(c, ok) == sq[c] = {} /\ inflight[c] = {} /\ cq[c] = <<ok>>

UringAt(c) ==
  \/ Shaking(c)
  \/ pc[c] = "recv" /\ Idle(c) /\ Unbegun(c) /\ Level(c)
  \/ pc[c] = "wait_recv" /\ Pending(c, "recv") /\ spos[c] = 0 /\ Holds(c, "buf", rpos[c], 0)
  \/ pc[c] = "wait_recv" /\ Complete(c, TRUE) /\ Unbegun(c) /\ Holds(c, "buf", MsgUnits, 0)
  \/ pc[c] = "wait_recv" /\ Complete(c, FALSE) /\ Unbegun(c) /\ Excused(c)
  \/ pc[c] = "send" /\ Idle(c) /\ Unbegun(c) /\ Holds(c, "buf", MsgUnits, 0)
  \/ pc[c] = "wait_send" /\ Pending(c, "send") /\ rpos[c] = 0 /\ Holds(c, "buf", MsgUnits, spos[c])
  \/ pc[c] = "wait_send" /\ Complete(c, TRUE) /\ Unbegun(c) /\ Level(c)
  \/ pc[c] = "wait_send" /\ Complete(c, FALSE) /\ Unbegun(c) /\ Excused(c)
  \/ pc[c] = "done" /\ Idle(c) /\ Unbegun(c) /\ Excused(c)

UringSound(c) == Queued(c) /\ Talking(c) /\ UringAt(c)

-----------------------------------------------------------------------------
\* uring2.c: a message is sent from one buffer while the next is received into
\* the other.

Requested(c, request) == request \in sq[c] \cup inflight[c]

\* What the buffers, the streams and the positions say while both requests
\* are, or were, under way.
Exchanging(c) ==
  LET sent == IF Requested(c, "send") THEN spos[c] ELSE MsgUnits
      received == IF Requested(c, "recv") THEN rpos[c] ELSE MsgUnits
  IN  /\ taken[c] >= HelloUnits + MsgUnits + received
      /\ Len(down[c]) + HelloUnits + MsgUnits + received = taken[c] + AnnounceUnits + sent
      /\ \A i \in 1..received : mem[c]["recv_buf"][i] = taken[c] - received + i

\* A send under way sends what the client is owed next.
Owing(c) ==
  Requested(c, "send") =>
    /\ Len(down[c]) >= AnnounceUnits + spos[c]
    /\ Len(down[c]) + HelloUnits + MsgUnits <= taken[c] + AnnounceUnits + spos[c]
    /\ \A i \in 1..MsgUnits : mem[c]["send_buf"][i] + AnnounceUnits = Len(down[c]) - spos[c] + i + HelloUnits

Uring2At(c) ==
  \/ Shaking(c)
  \/ pc[c] = "recv" /\ Idle(c) /\ Unbegun(c) /\ Level(c)
  \/ pc[c] = "submit" /\ Idle(c) /\ Unbegun(c) /\ Holds(c, "send_buf", MsgUnits, 0)
  \/ pc[c] = "wait" /\ Owing(c) /\ Entries(c) = 2 /\ (IF SomeShort(c) THEN Excused(c) ELSE Exchanging(c))
  \/ pc[c] = "copy" /\ Idle(c) /\ Unbegun(c) /\ Holds(c, "recv_buf", MsgUnits, 0)
  \/ pc[c] = "copy_early" /\ Owing(c)
  \/ pc[c] = "done" /\ Owing(c) /\ Excused(c)

\* The requests of a thread are submitted together or not at all.
Together(c) ==
  /\ sq[c] = {} \/ (sq[c] = Requests /\ inflight[c] = {})
  /\ Entries(c) <= 2
  /\ ~Requested(c, "send") => spos[c] = 0
  /\ ~Requested(c, "recv") => rpos[c] = 0

Uring2Sound(c) ==
  /\ Queued(c) /\ Together(c)
  /\ pc[c] # "astray" => Talking(c) /\ Uring2At(c)

-----------------------------------------------------------------------------
\* What the steps of connection c change, and what they leave alone.

ClientStill(c) == client'[c] = client[c] /\ up'[c] = up[c] /\ got'[c] = got[c]

RingStill(c) ==
  /\ sq'[c] = sq[c] /\ inflight'[c] = inflight[c] /\ cq'[c] = cq[c]
  /\ mem'[c] = mem[c] /\ spos'[c] = spos[c] /\ rpos'[c] = rpos[c]

RingSame(d) ==
  /\ ClientStill(d) /\ taken'[d] = taken[d] /\ down'[d] = down[d]
  /\ pc'[d] = pc[d] /\ RingStill(d)
  /\ d \in queue' => d \in queue

OthersStill(c) == \A d \in Conns \ {c} : RingSame(d)

\* The thread of c goes from one point to another, and nothing else of it.
Goes(c, from, to) == pc[c] = from /\ pc'[c] = to /\ queue' = queue /\ alive

LEMMA RingConnType ==
  ASSUME NEW P, NEW B, RingTypes(P, B), NEW c \in Conns
  PROVE  /\ up[c] \in Nat /\ taken[c] \in Nat /\ got[c] \in Nat
         /\ down[c] \in Seq(Nat) /\ Len(down[c]) \in Nat
         /\ spos[c] \in Nat /\ spos[c] < MsgUnits /\ rpos[c] \in Nat /\ rpos[c] < MsgUnits
         /\ client[c] \in Stages /\ pc[c] \in {"none", "send_size", "recv_hello", "done"} \cup P
         /\ sq[c] \in SUBSET Requests /\ inflight[c] \in SUBSET Requests
         /\ cq[c] \in Seq(BOOLEAN) /\ Len(cq[c]) \in Nat
         /\ \A b \in B : mem[c][b] \in [1..MsgUnits -> Nat]
<1>1. down[c] \in Seq(Nat) /\ cq[c] \in Seq(BOOLEAN)
  BY DEF RingTypes, ThreadTypeOK, ClientTypeOK
<1>2. Len(down[c]) \in Nat /\ Len(cq[c]) \in Nat
  BY <1>1, LenProperties
<1>3. spos[c] \in 0..(MsgUnits - 1) /\ rpos[c] \in 0..(MsgUnits - 1)
  BY DEF RingTypes
<1>4. spos[c] \in Nat /\ spos[c] < MsgUnits /\ rpos[c] \in Nat /\ rpos[c] < MsgUnits
  BY <1>3, Sizes
<1>5. mem[c] \in [B -> [1..MsgUnits -> Nat]]
  BY DEF RingTypes
<1>6. \A b \in B : mem[c][b] \in [1..MsgUnits -> Nat]
  BY <1>5
<1>7. QED
  BY <1>1, <1>2, <1>4, <1>6 DEF RingTypes, ThreadTypeOK, ClientTypeOK

LEMMA MovesGoes ==
  ASSUME NEW P, NEW B, RingTypes(P, B), NEW c \in Conns, NEW from, NEW to, Moves(c, from, to),
         to \in {"done", "recv_hello"} \cup P
  PROVE  /\ Goes(c, from, to)
         /\ pc' \in [Conns -> {"none", "send_size", "recv_hello", "done"} \cup P]
         /\ alive' \in BOOLEAN /\ queue' \in SUBSET Conns /\ open' \in SUBSET Conns
         /\ \A d \in Conns \ {c} : pc'[d] = pc[d]
BY DEF Moves, Goes, RingTypes, ThreadTypeOK

LEMMA AcceptEffect ==
  ASSUME NEW P, NEW B, RingTypes(P, B), RingAccept
  PROVE  /\ RingTypes(P, B)'
         /\ \E c \in queue : /\ c \in Conns /\ OthersStill(c)
                             /\ ClientStill(c) /\ taken'[c] = taken[c] /\ down'[c] = down[c]
                             /\ RingStill(c) /\ pc'[c] = "send_size" /\ c \notin queue'
<1>1. PICK c \in queue : /\ queue' = queue \ {c} /\ open' = open \cup {c}
                         /\ pc' = [pc EXCEPT ![c] = "send_size"]
  BY DEF RingAccept, MainAccept
<1>2. c \in Conns /\ UNCHANGED clientVars /\ UNCHANGED ringVars /\ alive' = alive
  BY DEF RingAccept, MainAccept, RingTypes, ThreadTypeOK
<1>3. RingTypes(P, B)'
  BY <1>1, <1>2 DEF RingTypes, ThreadTypeOK, ClientTypeOK, clientVars, ringVars
<1>4. pc'[c] = "send_size" /\ \A d \in Conns \ {c} : pc'[d] = pc[d]
  BY <1>1, <1>2 DEF RingTypes, ThreadTypeOK
<1>5. OthersStill(c)
  BY <1>1, <1>2, <1>4 DEF OthersStill, RingSame, ClientStill, RingStill, clientVars, ringVars
<1>6. ClientStill(c) /\ taken'[c] = taken[c] /\ down'[c] = down[c] /\ RingStill(c) /\ c \notin queue'
  BY <1>1, <1>2 DEF ClientStill, RingStill, clientVars, ringVars
<1>7. QED
  BY <1>2, <1>3, <1>4, <1>5, <1>6

\* The process ends: nothing else changes.
LEMMA StopEffect ==
  ASSUME NEW P, NEW B, RingTypes(P, B), alive' \in BOOLEAN, UNCHANGED <<clientVars, queue, open, pc, ringVars>>
  PROVE  RingTypes(P, B)' /\ \A d \in Conns : RingSame(d)
<1>1. RingTypes(P, B)'
  BY DEF RingTypes, ThreadTypeOK, ClientTypeOK, clientVars, ringVars
<1>2. QED
  BY <1>1 DEF RingSame, ClientStill, RingStill, clientVars, ringVars

LEMMA SendSizeEffect ==
  ASSUME NEW P, NEW B, RingTypes(P, B), NEW c \in Conns, SendSize(c), UNCHANGED ringVars
  PROVE  /\ RingTypes(P, B)' /\ OthersStill(c)
         /\ Goes(c, "send_size", "recv_hello") /\ ClientStill(c) /\ RingStill(c)
         /\ taken'[c] = taken[c] /\ down'[c] = down[c] \o Announcement
<1>1. Moves(c, "send_size", "recv_hello") /\ UNCHANGED <<client, up, taken, got>>
      /\ down' = [down EXCEPT ![c] = @ \o Announcement]
  BY DEF SendSize
<1>2. /\ Goes(c, "send_size", "recv_hello")
      /\ pc' \in [Conns -> {"none", "send_size", "recv_hello", "done"} \cup P]
      /\ alive' \in BOOLEAN /\ queue' \in SUBSET Conns /\ open' \in SUBSET Conns
      /\ \A d \in Conns \ {c} : pc'[d] = pc[d]
  BY <1>1, MovesGoes
<1>3. down[c] \o Announcement \in Seq(Nat) /\ down \in [Conns -> Seq(Nat)]
  BY DEF RingTypes, ThreadTypeOK, ClientTypeOK, Announcement
<1>4. /\ down' \in [Conns -> Seq(Nat)] /\ down'[c] = down[c] \o Announcement
      /\ \A d \in Conns \ {c} : down'[d] = down[d]
  BY <1>1, <1>3
<1>5. RingTypes(P, B)'
  BY <1>1, <1>2, <1>4 DEF RingTypes, ThreadTypeOK, ClientTypeOK, ringVars
<1>6. OthersStill(c)
  BY <1>1, <1>2, <1>4 DEF OthersStill, RingSame, ClientStill, RingStill, ringVars, Goes
<1>7. QED
  BY <1>1, <1>2, <1>4, <1>5, <1>6 DEF ClientStill, RingStill, ringVars

LEMMA HelloEffect ==
  ASSUME NEW P, NEW B, RingTypes(P, B), NEW c \in Conns, RecvHello(c), UNCHANGED ringVars, "recv" \in P
  PROVE  /\ RingTypes(P, B)' /\ OthersStill(c)
         /\ Goes(c, "recv_hello", "recv") /\ ClientStill(c) /\ RingStill(c)
         /\ taken'[c] = taken[c] + HelloUnits /\ taken'[c] <= up[c] /\ down'[c] = down[c]
<1>1. Moves(c, "recv_hello", "recv") /\ UNCHANGED <<client, up, down, got>>
      /\ taken[c] + HelloUnits <= up[c]
      /\ taken' = [taken EXCEPT ![c] = @ + HelloUnits]
  BY DEF RecvHello
<1>2. /\ Goes(c, "recv_hello", "recv")
      /\ pc' \in [Conns -> {"none", "send_size", "recv_hello", "done"} \cup P]
      /\ alive' \in BOOLEAN /\ queue' \in SUBSET Conns /\ open' \in SUBSET Conns
      /\ \A d \in Conns \ {c} : pc'[d] = pc[d]
  BY <1>1, MovesGoes
<1>3. taken[c] + HelloUnits \in Nat /\ taken \in [Conns -> Nat]
  BY Sizes DEF RingTypes, ThreadTypeOK, ClientTypeOK
<1>4. /\ taken' \in [Conns -> Nat] /\ taken'[c] = taken[c] + HelloUnits
      /\ \A d \in Conns \ {c} : taken'[d] = taken[d]
  BY <1>1, <1>3
<1>5. RingTypes(P, B)'
  BY <1>1, <1>2, <1>4 DEF RingTypes, ThreadTypeOK, ClientTypeOK, ringVars
<1>6. OthersStill(c)
  BY <1>1, <1>2, <1>4 DEF OthersStill, RingSame, ClientStill, RingStill, ringVars, Goes
<1>7. QED
  BY <1>1, <1>2, <1>4, <1>5, <1>6 DEF ClientStill, RingStill, ringVars

\* The thread of c moves on and changes at most its rings.
LEMMA PassEffect ==
  ASSUME NEW P, NEW B, RingTypes(P, B), NEW c \in Conns, NEW from, NEW to, Moves(c, from, to),
         to \in {"done", "recv_hello"} \cup P, UNCHANGED <<clientVars, ringVars>>
  PROVE  /\ RingTypes(P, B)' /\ OthersStill(c) /\ Goes(c, from, to)
         /\ ClientStill(c) /\ RingStill(c) /\ taken'[c] = taken[c] /\ down'[c] = down[c]
<1>2. /\ Goes(c, from, to)
      /\ pc' \in [Conns -> {"none", "send_size", "recv_hello", "done"} \cup P]
      /\ alive' \in BOOLEAN /\ queue' \in SUBSET Conns /\ open' \in SUBSET Conns
      /\ \A d \in Conns \ {c} : pc'[d] = pc[d]
  BY MovesGoes
<1>5. RingTypes(P, B)'
  BY <1>2 DEF RingTypes, ThreadTypeOK, ClientTypeOK, clientVars, ringVars
<1>6. OthersStill(c)
  BY <1>2 DEF OthersStill, RingSame, ClientStill, RingStill, clientVars, ringVars, Goes
<1>7. QED
  BY <1>2, <1>5, <1>6 DEF ClientStill, RingStill, clientVars, ringVars

\* The kernel has taken the requests, or they stay prepared.
Submitted(c, requests) ==
  /\ ClientStill(c) /\ taken'[c] = taken[c] /\ down'[c] = down[c]
  /\ cq'[c] = cq[c] /\ mem'[c] = mem[c] /\ spos'[c] = spos[c] /\ rpos'[c] = rpos[c]
  /\ \/ sq'[c] = sq[c] /\ inflight'[c] = inflight[c] \cup requests
     \/ sq'[c] = sq[c] \cup requests /\ inflight'[c] = inflight[c]

LEMMA SubmitEffect ==
  ASSUME NEW P, NEW B, RingTypes(P, B), NEW c \in Conns, NEW from, NEW to, Moves(c, from, to),
         to \in {"done", "recv_hello"} \cup P, NEW requests \in SUBSET Requests, Submits(c, requests)
  PROVE  RingTypes(P, B)' /\ OthersStill(c) /\ Goes(c, from, to) /\ Submitted(c, requests)
<1>1. UNCHANGED <<clientVars, cq, mem, spos, rpos>>
  BY DEF Submits
<1>2. /\ Goes(c, from, to)
      /\ pc' \in [Conns -> {"none", "send_size", "recv_hello", "done"} \cup P]
      /\ alive' \in BOOLEAN /\ queue' \in SUBSET Conns /\ open' \in SUBSET Conns
      /\ \A d \in Conns \ {c} : pc'[d] = pc[d]
  BY MovesGoes
<1>3. sq \in [Conns -> SUBSET Requests] /\ inflight \in [Conns -> SUBSET Requests]
  BY DEF RingTypes
<1>4. /\ sq' \in [Conns -> SUBSET Requests] /\ inflight' \in [Conns -> SUBSET Requests]
      /\ \A d \in Conns \ {c} : sq'[d] = sq[d] /\ inflight'[d] = inflight[d]
      /\ \/ sq'[c] = sq[c] /\ inflight'[c] = inflight[c] \cup requests
         \/ sq'[c] = sq[c] \cup requests /\ inflight'[c] = inflight[c]
  <2>1. sq[c] \cup requests \in SUBSET Requests /\ inflight[c] \cup requests \in SUBSET Requests
    BY <1>3
  <2>2. CASE inflight' = [inflight EXCEPT ![c] = inflight[c] \cup requests] /\ sq' = sq
    BY <1>3, <2>1, <2>2
  <2>3. CASE sq' = [sq EXCEPT ![c] = sq[c] \cup requests] /\ inflight' = inflight
    BY <1>3, <2>1, <2>3
  <2>4. QED
    BY <2>2, <2>3 DEF Submits
<1>5. RingTypes(P, B)'
  BY <1>1, <1>2, <1>4 DEF RingTypes, ThreadTypeOK, ClientTypeOK, clientVars
<1>6. OthersStill(c)
  BY <1>1, <1>2, <1>4 DEF OthersStill, RingSame, ClientStill, RingStill, clientVars, Goes
<1>7. QED
  BY <1>1, <1>2, <1>4, <1>5, <1>6 DEF Submitted, ClientStill, clientVars

LEMMA AdvanceEffect ==
  ASSUME NEW P, NEW B, RingTypes(P, B), NEW c \in Conns, NEW from, NEW to, Moves(c, from, to),
         to \in {"done", "recv_hello"} \cup P, NEW n \in Nat, CqAdvance(c, n)
  PROVE  /\ RingTypes(P, B)' /\ OthersStill(c) /\ Goes(c, from, to)
         /\ ClientStill(c) /\ taken'[c] = taken[c] /\ down'[c] = down[c]
         /\ cq'[c] = SubSeq(cq[c], n + 1, Len(cq[c])) /\ mem'[c] = mem[c]
         /\ sq'[c] = sq[c] /\ inflight'[c] = inflight[c] /\ spos'[c] = spos[c] /\ rpos'[c] = rpos[c]
<1>1. UNCHANGED <<clientVars, sq, inflight, mem, spos, rpos>>
      /\ cq' = [cq EXCEPT ![c] = SubSeq(cq[c], n + 1, Len(cq[c]))]
  BY DEF CqAdvance
<1>2. /\ Goes(c, from, to)
      /\ pc' \in [Conns -> {"none", "send_size", "recv_hello", "done"} \cup P]
      /\ alive' \in BOOLEAN /\ queue' \in SUBSET Conns /\ open' \in SUBSET Conns
      /\ \A d \in Conns \ {c} : pc'[d] = pc[d]
  BY MovesGoes
<1>3. cq \in [Conns -> Seq(BOOLEAN)] /\ cq[c] \in Seq(BOOLEAN)
  BY DEF RingTypes
<1>4. SubSeq(cq[c], n + 1, Len(cq[c])) \in Seq(BOOLEAN)
  <2>1. Len(cq[c]) \in Nat
    BY <1>3, LenProperties
  <2>2. \A i \in (n + 1)..Len(cq[c]) : i \in 1..Len(cq[c])
    BY <2>1
  <2>3. QED
    BY <1>3, <2>1, <2>2, SubSeqProperties
<1>5. /\ cq' \in [Conns -> Seq(BOOLEAN)] /\ cq'[c] = SubSeq(cq[c], n + 1, Len(cq[c]))
      /\ \A d \in Conns \ {c} : cq'[d] = cq[d]
  BY <1>1, <1>3, <1>4
<1>6. RingTypes(P, B)'
  BY <1>1, <1>2, <1>5 DEF RingTypes, ThreadTypeOK, ClientTypeOK, clientVars
<1>7. OthersStill(c)
  BY <1>1, <1>2, <1>5 DEF OthersStill, RingSame, ClientStill, RingStill, clientVars, Goes
<1>8. QED
  BY <1>1, <1>2, <1>5, <1>6, <1>7 DEF ClientStill, clientVars

-----------------------------------------------------------------------------
\* The kernel's steps.

\* A request of c is done, or not yet.
Ends(c, request, ok) ==
  inflight'[c] = inflight[c] \ {request} /\ cq'[c] = Append(cq[c], ok)

Lasts(c) == inflight'[c] = inflight[c] /\ cq'[c] = cq[c]

LEMMA DoneEffect ==
  ASSUME NEW P, NEW B, RingTypes(P, B), NEW c \in Conns, NEW request, NEW ok \in BOOLEAN,
         Done(c, request, ok)
  PROVE  /\ inflight' \in [Conns -> SUBSET Requests] /\ cq' \in [Conns -> Seq(BOOLEAN)]
         /\ Ends(c, request, ok)
         /\ \A d \in Conns \ {c} : inflight'[d] = inflight[d] /\ cq'[d] = cq[d]
<1>1. inflight \in [Conns -> SUBSET Requests] /\ cq \in [Conns -> Seq(BOOLEAN)]
  BY DEF RingTypes
<1>2. inflight[c] \ {request} \in SUBSET Requests /\ Append(cq[c], ok) \in Seq(BOOLEAN)
  BY <1>1, AppendProperties
<1>3. QED
  BY <1>1, <1>2 DEF Done, Ends

\* A position moves on, or back to where it starts.
LEMMA Position ==
  ASSUME NEW p, NEW q, NEW c \in Conns, p \in [Conns -> 0..(MsgUnits - 1)],
         \/ q = [p EXCEPT ![c] = 0]
         \/ q = [p EXCEPT ![c] = p[c] + 1] /\ p[c] + 1 # MsgUnits
  PROVE  q \in [Conns -> 0..(MsgUnits - 1)] /\ \A d \in Conns \ {c} : q[d] = p[d]
<1>1. p[c] \in 0..(MsgUnits - 1) /\ 0 \in 0..(MsgUnits - 1)
  BY Sizes
<1>2. p[c] + 1 # MsgUnits => p[c] + 1 \in 0..(MsgUnits - 1)
  BY <1>1, Sizes
<1>3. QED
  BY <1>1, <1>2

\* The kernel writes the next unit of buffer b.
Sent(c, b) ==
  /\ pc'[c] = pc[c] /\ queue' = queue
  /\ "send" \in inflight[c] /\ Room(c)
  /\ ClientStill(c) /\ taken'[c] = taken[c]
  /\ down'[c] = Append(down[c], mem[c][b][spos[c] + 1])
  /\ mem[c][b][spos[c] + 1] \in Nat
  /\ sq'[c] = sq[c] /\ mem'[c] = mem[c] /\ rpos'[c] = rpos[c]
  /\ \/ spos[c] + 1 = MsgUnits /\ spos'[c] = 0 /\ Ends(c, "send", TRUE)
     \/ spos[c] + 1 < MsgUnits /\ spos'[c] = spos[c] + 1 /\ Lasts(c)

LEMMA KSendEffect ==
  ASSUME NEW P, NEW B, RingTypes(P, B), NEW c \in Conns, NEW b \in B, KSend(c, b)
  PROVE  RingTypes(P, B)' /\ OthersStill(c) /\ Sent(c, b)
<1>1. /\ alive /\ "send" \in inflight[c] /\ Room(c)
      /\ down' = [down EXCEPT ![c] = Append(down[c], mem[c][b][spos[c] + 1])]
      /\ UNCHANGED <<client, up, taken, got, threadVars, sq, mem, rpos>>
  BY DEF KSend
<1>2. /\ spos[c] \in Nat /\ spos[c] < MsgUnits /\ mem[c][b] \in [1..MsgUnits -> Nat]
      /\ down[c] \in Seq(Nat)
  BY RingConnType
<1>3. mem[c][b][spos[c] + 1] \in Nat
  <2>1. spos[c] + 1 \in 1..MsgUnits
    BY <1>2, Sizes
  <2>2. QED
    BY <1>2, <2>1
<1>4. /\ down' \in [Conns -> Seq(Nat)] /\ down'[c] = Append(down[c], mem[c][b][spos[c] + 1])
      /\ \A d \in Conns \ {c} : down'[d] = down[d]
  <2>1. Append(down[c], mem[c][b][spos[c] + 1]) \in Seq(Nat)
    BY <1>2, <1>3, AppendProperties
  <2>2. down \in [Conns -> Seq(Nat)]
    BY DEF RingTypes, ThreadTypeOK, ClientTypeOK
  <2>3. QED
    BY <1>1, <2>1, <2>2
<1>5. spos \in [Conns -> 0..(MsgUnits - 1)] /\ inflight \in [Conns -> SUBSET Requests]
      /\ cq \in [Conns -> Seq(BOOLEAN)]
  BY DEF RingTypes
<1>6. /\ spos' \in [Conns -> 0..(MsgUnits - 1)] /\ inflight' \in [Conns -> SUBSET Requests]
      /\ cq' \in [Conns -> Seq(BOOLEAN)]
      /\ \A d \in Conns \ {c} : spos'[d] = spos[d] /\ inflight'[d] = inflight[d] /\ cq'[d] = cq[d]
      /\ \/ spos[c] + 1 = MsgUnits /\ spos'[c] = 0 /\ Ends(c, "send", TRUE)
         \/ spos[c] + 1 < MsgUnits /\ spos'[c] = spos[c] + 1 /\ Lasts(c)
  <2>1. CASE spos[c] + 1 = MsgUnits
    <3>1. spos' = [spos EXCEPT ![c] = 0] /\ Done(c, "send", TRUE)
      BY <2>1 DEF KSend
    <3>2. spos'[c] = 0 /\ spos' \in [Conns -> 0..(MsgUnits - 1)] /\ \A d \in Conns \ {c} : spos'[d] = spos[d]
      BY <1>5, <3>1, Position
    <3>3. QED
      BY <2>1, <3>1, <3>2, DoneEffect
  <2>2. CASE spos[c] + 1 # MsgUnits
    <3>1. spos' = [spos EXCEPT ![c] = spos[c] + 1] /\ UNCHANGED <<inflight, cq>>
      BY <2>2 DEF KSend
    <3>2. /\ spos'[c] = spos[c] + 1 /\ spos' \in [Conns -> 0..(MsgUnits - 1)]
          /\ \A d \in Conns \ {c} : spos'[d] = spos[d]
      BY <1>5, <2>2, <3>1, Position
    <3>3. spos[c] + 1 < MsgUnits
      BY <1>2, <2>2, Sizes
    <3>4. QED
      BY <1>5, <3>1, <3>2, <3>3 DEF Lasts
  <2>3. QED
    BY <2>1, <2>2
<1>7. RingTypes(P, B)'
  BY <1>1, <1>4, <1>6 DEF RingTypes, ThreadTypeOK, ClientTypeOK, threadVars
<1>8. OthersStill(c)
  BY <1>1, <1>4, <1>6 DEF OthersStill, RingSame, ClientStill, RingStill, threadVars
<1>9. QED
  BY <1>1, <1>3, <1>4, <1>6, <1>7, <1>8 DEF Sent, ClientStill, threadVars

\* The kernel stores the next unit into buffer b.
Stored(c, b) ==
  /\ pc'[c] = pc[c] /\ queue' = queue
  /\ "recv" \in inflight[c] /\ taken[c] < up[c]
  /\ ClientStill(c) /\ taken'[c] = taken[c] + 1 /\ down'[c] = down[c]
  /\ mem'[c][b][rpos[c] + 1] = taken[c] + 1
  /\ \A i \in 1..MsgUnits : i # rpos[c] + 1 => mem'[c][b][i] = mem[c][b][i]
  /\ sq'[c] = sq[c] /\ spos'[c] = spos[c]
  /\ \/ rpos[c] + 1 = MsgUnits /\ rpos'[c] = 0 /\ Ends(c, "recv", TRUE)
     \/ rpos[c] + 1 < MsgUnits /\ rpos'[c] = rpos[c] + 1 /\ Lasts(c)

LEMMA KRecvEffect ==
  ASSUME NEW P, NEW B, RingTypes(P, B), NEW c \in Conns, NEW b \in B, KRecv(c, b)
  PROVE  /\ RingTypes(P, B)' /\ OthersStill(c) /\ Stored(c, b)
         /\ \A a \in B \ {b} : mem'[c][a] = mem[c][a]
<1>1. /\ alive /\ "recv" \in inflight[c] /\ taken[c] < up[c]
      /\ taken' = [taken EXCEPT ![c] = taken[c] + 1]
      /\ mem' = [mem EXCEPT ![c][b][rpos[c] + 1] = taken[c] + 1]
      /\ UNCHANGED <<client, up, down, got, threadVars, sq, spos>>
  BY DEF KRecv
<1>2. /\ rpos[c] \in Nat /\ rpos[c] < MsgUnits /\ mem[c][b] \in [1..MsgUnits -> Nat]
      /\ taken[c] \in Nat
  BY RingConnType
<1>3. /\ taken' \in [Conns -> Nat] /\ taken'[c] = taken[c] + 1
      /\ \A d \in Conns \ {c} : taken'[d] = taken[d]
  <2>1. taken \in [Conns -> Nat] /\ taken[c] + 1 \in Nat
    BY <1>2 DEF RingTypes, ThreadTypeOK, ClientTypeOK
  <2>2. QED
    BY <1>1, <2>1
<1>4. /\ mem' \in [Conns -> [B -> [1..MsgUnits -> Nat]]]
      /\ \A d \in Conns \ {c} : mem'[d] = mem[d]
      /\ \A a \in B \ {b} : mem'[c][a] = mem[c][a]
      /\ mem'[c][b][rpos[c] + 1] = taken[c] + 1
      /\ \A i \in 1..MsgUnits : i # rpos[c] + 1 => mem'[c][b][i] = mem[c][b][i]
  <2>1. mem \in [Conns -> [B -> [1..MsgUnits -> Nat]]] /\ mem[c] \in [B -> [1..MsgUnits -> Nat]]
    BY DEF RingTypes
  <2>2. rpos[c] + 1 \in 1..MsgUnits /\ taken[c] + 1 \in Nat
    BY <1>2, Sizes
  <2>3. PICK g : g = [mem[c][b] EXCEPT ![rpos[c] + 1] = taken[c] + 1]
    OBVIOUS
  <2>4. /\ g \in [1..MsgUnits -> Nat] /\ g[rpos[c] + 1] = taken[c] + 1
        /\ \A i \in 1..MsgUnits : i # rpos[c] + 1 => g[i] = mem[c][b][i]
    BY <1>2, <2>2, <2>3
  <2>5. PICK h : h = [mem[c] EXCEPT ![b] = g]
    OBVIOUS
  <2>6. h \in [B -> [1..MsgUnits -> Nat]] /\ h[b] = g /\ \A a \in B \ {b} : h[a] = mem[c][a]
    BY <2>1, <2>4, <2>5
  <2>7. mem' = [mem EXCEPT ![c] = h]
    BY <1>1, <2>1, <2>3, <2>5
  <2>8. mem' \in [Conns -> [B -> [1..MsgUnits -> Nat]]] /\ mem'[c] = h /\ \A d \in Conns \ {c} : mem'[d] = mem[d]
    BY <2>1, <2>6, <2>7
  <2>9. QED
    BY <2>4, <2>6, <2>8
<1>5. rpos \in [Conns -> 0..(MsgUnits - 1)] /\ inflight \in [Conns -> SUBSET Requests]
      /\ cq \in [Conns -> Seq(BOOLEAN)]
  BY DEF RingTypes
<1>6. /\ rpos' \in [Conns -> 0..(MsgUnits - 1)] /\ inflight' \in [Conns -> SUBSET Requests]
      /\ cq' \in [Conns -> Seq(BOOLEAN)]
      /\ \A d \in Conns \ {c} : rpos'[d] = rpos[d] /\ inflight'[d] = inflight[d] /\ cq'[d] = cq[d]
      /\ \/ rpos[c] + 1 = MsgUnits /\ rpos'[c] = 0 /\ Ends(c, "recv", TRUE)
         \/ rpos[c] + 1 < MsgUnits /\ rpos'[c] = rpos[c] + 1 /\ Lasts(c)
  <2>1. CASE rpos[c] + 1 = MsgUnits
    <3>1. rpos' = [rpos EXCEPT ![c] = 0] /\ Done(c, "recv", TRUE)
      BY <2>1 DEF KRecv
    <3>2. rpos'[c] = 0 /\ rpos' \in [Conns -> 0..(MsgUnits - 1)] /\ \A d \in Conns \ {c} : rpos'[d] = rpos[d]
      BY <1>5, <3>1, Position
    <3>3. QED
      BY <2>1, <3>1, <3>2, DoneEffect
  <2>2. CASE rpos[c] + 1 # MsgUnits
    <3>1. rpos' = [rpos EXCEPT ![c] = rpos[c] + 1] /\ UNCHANGED <<inflight, cq>>
      BY <2>2 DEF KRecv
    <3>2. /\ rpos'[c] = rpos[c] + 1 /\ rpos' \in [Conns -> 0..(MsgUnits - 1)]
          /\ \A d \in Conns \ {c} : rpos'[d] = rpos[d]
      BY <1>5, <2>2, <3>1, Position
    <3>3. rpos[c] + 1 < MsgUnits
      BY SMTT(30), <1>2, <2>2, Sizes
    <3>4. QED
      BY <1>5, <3>1, <3>2, <3>3 DEF Lasts
  <2>3. QED
    BY <2>1, <2>2
<1>7. RingTypes(P, B)'
  BY <1>1, <1>3, <1>4, <1>6 DEF RingTypes, ThreadTypeOK, ClientTypeOK, threadVars
<1>8. OthersStill(c)
  BY <1>1, <1>3, <1>4, <1>6 DEF OthersStill, RingSame, ClientStill, RingStill, threadVars
<1>9. QED
  BY <1>1, <1>3, <1>4, <1>6, <1>7, <1>8 DEF Stored, ClientStill, threadVars

LEMMA ShortEffect ==
  ASSUME NEW P, NEW B, RingTypes(P, B), NEW c \in Conns, KernelFails(c)
  PROVE  /\ RingTypes(P, B)' /\ OthersStill(c) /\ pc'[c] = pc[c] /\ queue' = queue
         /\ ClientStill(c) /\ taken'[c] = taken[c] /\ down'[c] = down[c]
         /\ sq'[c] = sq[c] /\ mem'[c] = mem[c]
         /\ \/ /\ "send" \in inflight[c] /\ Ends(c, "send", FALSE)
               /\ (spos[c] > 0 /\ ~Room(c)) \/ client[c] = "gone"
               /\ spos'[c] = 0 /\ rpos'[c] = rpos[c]
            \/ /\ "recv" \in inflight[c] /\ Ends(c, "recv", FALSE)
               /\ client[c] = "gone"
               /\ spos'[c] = spos[c] /\ rpos'[c] = 0
<1>1. /\ spos \in [Conns -> 0..(MsgUnits - 1)] /\ rpos \in [Conns -> 0..(MsgUnits - 1)]
      /\ FALSE \in BOOLEAN
  BY DEF RingTypes
<1>2. CASE KSendShort(c)
  <2>1. /\ UNCHANGED <<clientVars, threadVars, sq, mem, rpos>>
        /\ "send" \in inflight[c] /\ ((spos[c] > 0 /\ ~Room(c)) \/ client[c] = "gone")
        /\ spos' = [spos EXCEPT ![c] = 0] /\ Done(c, "send", FALSE)
    BY <1>2 DEF KSendShort
  <2>2. /\ inflight' \in [Conns -> SUBSET Requests] /\ cq' \in [Conns -> Seq(BOOLEAN)]
        /\ Ends(c, "send", FALSE)
        /\ \A d \in Conns \ {c} : inflight'[d] = inflight[d] /\ cq'[d] = cq[d]
    BY <1>1, <2>1, DoneEffect
  <2>3. spos'[c] = 0 /\ spos' \in [Conns -> 0..(MsgUnits - 1)] /\ \A d \in Conns \ {c} : spos'[d] = spos[d]
    BY <1>1, <2>1, Position
  <2>4. RingTypes(P, B)'
    BY <2>1, <2>2, <2>3 DEF RingTypes, ThreadTypeOK, ClientTypeOK, clientVars, threadVars
  <2>5. OthersStill(c)
    BY <2>1, <2>2, <2>3 DEF OthersStill, RingSame, ClientStill, RingStill, clientVars, threadVars
  <2>6. QED
    BY <2>1, <2>2, <2>3, <2>4, <2>5 DEF ClientStill, clientVars, threadVars
<1>3. CASE KRecvShort(c)
  <2>1. /\ UNCHANGED <<clientVars, threadVars, sq, mem, spos>>
        /\ "recv" \in inflight[c] /\ client[c] = "gone"
        /\ rpos' = [rpos EXCEPT ![c] = 0] /\ Done(c, "recv", FALSE)
    BY <1>3 DEF KRecvShort
  <2>2. /\ inflight' \in [Conns -> SUBSET Requests] /\ cq' \in [Conns -> Seq(BOOLEAN)]
        /\ Ends(c, "recv", FALSE)
        /\ \A d \in Conns \ {c} : inflight'[d] = inflight[d] /\ cq'[d] = cq[d]
    BY <1>1, <2>1, DoneEffect
  <2>3. rpos'[c] = 0 /\ rpos' \in [Conns -> 0..(MsgUnits - 1)] /\ \A d \in Conns \ {c} : rpos'[d] = rpos[d]
    BY <1>1, <2>1, Position
  <2>4. RingTypes(P, B)'
    BY <2>1, <2>2, <2>3 DEF RingTypes, ThreadTypeOK, ClientTypeOK, clientVars, threadVars
  <2>5. OthersStill(c)
    BY <2>1, <2>2, <2>3 DEF OthersStill, RingSame, ClientStill, RingStill, clientVars, threadVars
  <2>6. QED
    BY <2>1, <2>2, <2>3, <2>4, <2>5 DEF ClientStill, clientVars, threadVars
<1>4. QED
  BY <1>2, <1>3 DEF KernelFails

-----------------------------------------------------------------------------
\* The clients' steps.

World(c) == RingConnect(c) \/ RingTalk(c) \/ RingLeave(c)

LEMMA WorldEffect ==
  ASSUME NEW P, NEW B, RingTypes(P, B), NEW c \in Conns, World(c)
  PROVE  /\ RingTypes(P, B)' /\ OthersStill(c)
         /\ taken'[c] = taken[c] /\ down'[c] = down[c] /\ pc'[c] = pc[c] /\ RingStill(c)
         /\ ClientStep(c) \/ ClientConnect(c) \/ ClientExit(c)
<1>1. /\ UNCHANGED ringVars /\ UNCHANGED <<taken, down, pc, alive, open>>
      /\ ClientStep(c) \/ ClientConnect(c) \/ ClientExit(c)
      /\ queue' \in SUBSET Conns /\ \A d \in Conns \ {c} : d \in queue' => d \in queue
  BY DEF World, RingConnect, RingTalk, RingLeave, Enqueue, ClientConnect, ClientStep, ClientHello, ClientSize,
         ClientSend, ClientRecv, ClientExit, threadVars, RingTypes, ThreadTypeOK
<1>2. ClientTypeOK'
  BY <1>1, ClientTypeStep DEF RingTypes, ThreadTypeOK
<1>3. RingTypes(P, B)'
  BY <1>1, <1>2 DEF RingTypes, ThreadTypeOK, ringVars
<1>4. \A d \in Conns \ {c} : ClientStill(d)
  BY <1>1 DEF ClientStill, ClientConnect, ClientStep, ClientHello, ClientSize, ClientSend, ClientRecv, ClientExit,
              ClientMoves, RingTypes, ThreadTypeOK, ClientTypeOK
<1>5. OthersStill(c)
  BY <1>1, <1>4 DEF OthersStill, RingSame, RingStill, ringVars
<1>6. QED
  BY <1>1, <1>3, <1>5 DEF RingStill, ringVars

LEMMA WorldQueued ==
  ASSUME NEW P, NEW B, RingTypes(P, B), NEW c \in Conns, Queued(c), World(c)
  PROVE  Queued(c)' /\ (Excused(c) => Excused(c)')
<1>1. CASE RingConnect(c)
  <2>1. client[c] = "idle" /\ client'[c] = "connected" /\ pc' = pc
    BY <1>1 DEF RingConnect, Enqueue, ClientConnect, ClientMoves, RingTypes, ThreadTypeOK, ClientTypeOK
  <2>2. QED
    BY <2>1 DEF Queued, Excused
<1>2. CASE RingTalk(c)
  <2>1. /\ client[c] # "idle" /\ client[c] # "gone" /\ client'[c] # "idle" /\ pc' = pc /\ queue' = queue
    BY <1>2 DEF RingTalk, ClientStep, ClientHello, ClientSize, ClientSend, ClientRecv, ClientMoves, threadVars,
                RingTypes, ThreadTypeOK, ClientTypeOK
  <2>2. QED
    BY <2>1 DEF Queued, Excused
<1>3. CASE RingLeave(c)
  <2>1. client'[c] = "gone" /\ pc' = pc /\ queue' = queue
    BY <1>3 DEF RingLeave, ClientExit, threadVars, RingTypes, ThreadTypeOK, ClientTypeOK
  <2>2. QED
    BY <2>1 DEF Queued, Excused
<1>4. QED
  BY <1>1, <1>2, <1>3 DEF World

\* A client that waits for its replies stays in step.
LEMMA TalkInStep ==
  ASSUME NEW P, NEW B, RingTypes(P, B), NEW c \in Conns, c \notin Eager, Behind(c), InStep(c), ClientStep(c)
  PROVE  InStep(c)'
<1> USE Sizes DEF HelloUnits, AnnounceUnits
<1>0. /\ up[c] \in Nat /\ taken[c] \in Nat /\ got[c] \in Nat /\ Len(down[c]) \in Nat
  BY RingConnType
<1>1. CASE ClientHello(c)
  <2>1. client[c] = "connected" /\ client'[c] = "hello" /\ up'[c] = 1 /\ got'[c] = got[c]
    BY <1>1 DEF ClientHello, ClientMoves, RingTypes, ThreadTypeOK, ClientTypeOK
  <2>2. QED
    BY <1>0, <2>1 DEF InStep
<1>2. CASE ClientSize(c)
  <2>1. client[c] = "hello" /\ client'[c] = "running" /\ up'[c] = up[c] /\ got'[c] = 2
    BY <1>2 DEF ClientSize, ClientMoves, RingTypes, ThreadTypeOK, ClientTypeOK
  <2>2. QED
    BY <1>0, <2>1 DEF InStep
<1>3. CASE ClientSend(c)
  <2>1. /\ client[c] = "running" /\ client'[c] = "running" /\ got'[c] = got[c]
        /\ up'[c] = up[c] + MsgUnits
        /\ (up[c] - 1) < (got[c] - 2) + MsgUnits
    BY <1>3 DEF ClientSend, Window, RingTypes, ThreadTypeOK, ClientTypeOK
  <2>2. /\ up[c] >= 1 /\ got[c] >= 2
        /\ up[c] + 2 = got[c] + 1 \/ up[c] + 2 = got[c] + 1 + MsgUnits
    BY <2>1 DEF InStep
  <2>3. up[c] + 2 = got[c] + 1
    BY <1>0, <2>1, <2>2
  <2>4. up'[c] >= 1 /\ up'[c] + 2 = got'[c] + 1 + MsgUnits /\ got'[c] >= 2
    BY <1>0, <2>1, <2>2, <2>3, SMTT(30)
  <2>5. /\ client'[c] \notin {"idle", "connected", "hello"} /\ client'[c] # "hello"
        /\ up'[c] >= 1
    BY <2>1, <2>4
  <2>6. QED
    BY <2>4, <2>5 DEF InStep
<1>4. CASE ClientRecv(c)
  <2>1. /\ client[c] = "running" /\ client'[c] = "running" /\ up'[c] = up[c]
        /\ got'[c] = got[c] + MsgUnits /\ Len(down[c]) >= got[c] + MsgUnits
    BY <1>4 DEF ClientRecv, RingTypes, ThreadTypeOK, ClientTypeOK
  <2>2. /\ up[c] >= 1 /\ got[c] >= 2
        /\ up[c] + 2 = got[c] + 1 \/ up[c] + 2 = got[c] + 1 + MsgUnits
    BY <2>1 DEF InStep
  <2>3. taken[c] <= up[c] /\ (Len(down[c]) <= 2 \/ Len(down[c]) + 1 <= taken[c] + 2)
    BY DEF Behind
  <2>4. up'[c] >= 1 /\ up'[c] + 2 = got'[c] + 1 /\ got'[c] >= 2
    BY <1>0, <2>1, <2>2, <2>3, SMTT(30)
  <2>5. client'[c] \notin {"idle", "connected", "hello"} /\ client'[c] # "hello"
    BY <2>1
  <2>6. QED
    BY <2>4, <2>5 DEF InStep
<1>5. QED
  BY <1>1, <1>2, <1>3, <1>4 DEF ClientStep

LEMMA WorldTalking ==
  ASSUME NEW P, NEW B, RingTypes(P, B), NEW c \in Conns, Talking(c), World(c)
  PROVE  Talking(c)'
<1> USE Sizes
<1>0. /\ up[c] \in Nat /\ taken[c] \in Nat /\ got[c] \in Nat /\ Len(down[c]) \in Nat
      /\ taken'[c] = taken[c] /\ down'[c] = down[c]
      /\ ClientStep(c) \/ ClientConnect(c) \/ ClientExit(c)
  BY RingConnType, WorldEffect
<1>1. up'[c] >= up[c] /\ got'[c] <= Len(down[c])
  <2>1. got[c] <= Len(down[c])
    BY DEF Talking, Behind
  <2>2. CASE ClientHello(c)
    <3>1. up[c] <= 1 /\ up'[c] = 1 /\ got' = got
      <4>1. client[c] = "connected" /\ up'[c] = HelloUnits /\ got' = got
        BY <2>2 DEF ClientHello, ClientMoves, RingTypes, ThreadTypeOK, ClientTypeOK
      <4>2. QED
        BY <4>1, Sizes DEF Talking, Behind
    <3>2. QED
      BY <1>0, <2>1, <3>1
  <2>3. CASE ClientSize(c)
    BY <1>0, <2>3 DEF ClientSize, RingTypes, ThreadTypeOK, ClientTypeOK
  <2>4. CASE ClientSend(c)
    BY <1>0, <2>1, <2>4 DEF ClientSend, RingTypes, ThreadTypeOK, ClientTypeOK
  <2>5. CASE ClientRecv(c)
    BY <1>0, <2>5 DEF ClientRecv, RingTypes, ThreadTypeOK, ClientTypeOK
  <2>6. CASE ClientConnect(c) \/ ClientExit(c)
    BY <1>0, <2>1, <2>6 DEF ClientConnect, ClientExit
  <2>7. QED
    BY <1>0, <2>2, <2>3, <2>4, <2>5, <2>6 DEF ClientStep
<1>2. up'[c] \in Nat
  <2>1. RingTypes(P, B)'
    BY WorldEffect
  <2>2. QED
    BY <2>1 DEF RingTypes, ThreadTypeOK, ClientTypeOK
<1>3. Behind(c)'
  <2>1. client'[c] \in {"idle", "connected"} => up'[c] = 0
    BY <1>0 DEF Talking, Behind, ClientStep, ClientHello, ClientSize, ClientSend, ClientRecv, ClientConnect,
                ClientExit, ClientMoves, RingTypes, ThreadTypeOK, ClientTypeOK
  <2>2. QED
    BY <1>0, <1>1, <1>2, <2>1 DEF Talking, Behind
<1>4. ASSUME c \notin Eager PROVE InStep(c)'
  <2>1. InStep(c) /\ Behind(c)
    BY <1>4 DEF Talking
  <2>2. CASE ClientStep(c)
    BY <1>4, <2>1, <2>2, TalkInStep
  <2>3. CASE ClientConnect(c)
    <3>1. client[c] = "idle" /\ client'[c] = "connected" /\ up' = up /\ got' = got
      BY <2>3 DEF ClientConnect, ClientMoves, RingTypes, ThreadTypeOK, ClientTypeOK
    <3>2. QED
      BY <2>1, <3>1 DEF InStep
  <2>4. CASE ClientExit(c)
    <3>1. client'[c] = "gone" /\ up' = up /\ got' = got
      BY <2>4 DEF ClientExit, RingTypes, ThreadTypeOK, ClientTypeOK
    <3>2. QED
      BY <2>1, <3>1 DEF InStep
  <2>5. QED
    BY <1>0, <2>2, <2>3, <2>4
<1>5. (down[c] = EchoOf(c, Len(down[c])))'
  BY <1>0 DEF Talking, EchoOf
<1>6. QED
  BY <1>3, <1>4, <1>5 DEF Talking

-----------------------------------------------------------------------------
\* The talk goes on whatever the server does.

LEMMA StillKeeps ==
  ASSUME NEW c, ClientStill(c)
  PROVE  (InStep(c) => InStep(c)') /\ (Excused(c) => Excused(c)')
BY DEF ClientStill, InStep, Excused

LEMMA SameTalking ==
  ASSUME NEW c \in Conns, ClientStill(c), taken'[c] = taken[c], down'[c] = down[c], Talking(c)
  PROVE  Talking(c)'
<1>1. Behind(c)'
  BY DEF Talking, Behind, ClientStill
<1>2. (down[c] = EchoOf(c, Len(down[c])))'
  BY DEF Talking, EchoOf
<1>3. QED
  BY <1>1, <1>2, StillKeeps DEF Talking

LEMMA SameQueued ==
  ASSUME NEW c \in Conns, ClientStill(c), c \in queue' => c \in queue, Queued(c),
         pc'[c] = pc[c] \/ (pc[c] # "none" /\ pc'[c] # "none")
  PROVE  Queued(c)'
BY DEF Queued, ClientStill

\* The unit that is owed is sent.
LEMMA SentTalking ==
  ASSUME NEW P, NEW B, RingTypes(P, B), NEW c \in Conns, ClientStill(c), taken'[c] = taken[c],
         NEW x \in Nat, down'[c] = Append(down[c], x), Talking(c),
         Len(down[c]) >= 2, Len(down[c]) + 1 < taken[c] + 2, x = Len(down[c])
  PROVE  Talking(c)'
<1> USE Sizes
<1>0. /\ up[c] \in Nat /\ taken[c] \in Nat /\ got[c] \in Nat /\ Len(down[c]) \in Nat /\ down[c] \in Seq(Nat)
  BY RingConnType
<1>1. Len(down'[c]) = Len(down[c]) + 1
  BY <1>0, AppendProperties
<1>2. Behind(c)'
  BY <1>0, <1>1 DEF Talking, Behind, ClientStill
<1>3. (down[c] = EchoOf(c, Len(down[c])))'
  <2>1. down[c] = EchoOf(c, Len(down[c]))
    BY DEF Talking
  <2>2. x = IF Len(down[c]) + 1 <= AnnounceUnits THEN 0 ELSE HelloUnits + Len(down[c]) + 1 - AnnounceUnits
    BY <1>0
  <2>3. Append(down[c], x) = EchoOf(c, Len(Append(down[c], x)))
    BY <1>0, <2>1, <2>2, EchoAppend
  <2>4. QED
    BY <2>3 DEF EchoOf
<1>4. QED
  BY <1>2, <1>3, StillKeeps DEF Talking

\* Something more is received.
LEMMA TakenTalking ==
  ASSUME NEW P, NEW B, RingTypes(P, B), NEW c \in Conns, ClientStill(c), down'[c] = down[c], Talking(c),
         taken'[c] \in Nat, taken'[c] >= taken[c], taken'[c] <= up[c]
  PROVE  Talking(c)'
<1> USE Sizes
<1>0. /\ up[c] \in Nat /\ taken[c] \in Nat /\ got[c] \in Nat /\ Len(down[c]) \in Nat
  BY RingConnType
<1>1. Behind(c)'
  BY <1>0 DEF Talking, Behind, ClientStill
<1>2. (down[c] = EchoOf(c, Len(down[c])))'
  BY DEF Talking, EchoOf
<1>3. QED
  BY <1>1, <1>2, StillKeeps DEF Talking

\* The announcement.
LEMMA GreetTalking ==
  ASSUME NEW P, NEW B, RingTypes(P, B), NEW c \in Conns, ClientStill(c), taken'[c] = taken[c],
         down'[c] = down[c] \o Announcement, Len(down[c]) = 0, Talking(c)
  PROVE  Talking(c)' /\ Len(down'[c]) = 2
<1> USE Sizes
<1>0. /\ up[c] \in Nat /\ taken[c] \in Nat /\ got[c] \in Nat /\ down[c] \in Seq(Nat)
  BY RingConnType
<1>1. down[c] = <<>>
  BY <1>0, EmptySeq
<1>2. down'[c] = Announcement
  BY <1>1 DEF Announcement
<1>3. down'[c] = EchoOf(c, Len(down'[c])) /\ Len(down'[c]) = 2
  BY <1>2, EchoStart
<1>4. (down[c] = EchoOf(c, Len(down[c])))'
  BY <1>3 DEF EchoOf
<1>5. Behind(c)'
  BY <1>0, <1>3 DEF Talking, Behind, ClientStill
<1>6. QED
  BY <1>3, <1>4, <1>5, StillKeeps DEF Talking

LEMMA LeftOver ==
  ASSUME NEW l \in Nat, NEW m \in Nat, NEW t \in Nat, NEW s \in Nat, NEW u \in Nat, NEW g \in Nat,
         l + 1 + m <= t + 2 + s, t <= u, u + 2 <= g + 1 + m
  PROVE  l <= g + s
OBVIOUS

\* A send under way towards a client in step finds room.
LEMMA InStepRoom ==
  ASSUME NEW P, NEW B, RingTypes(P, B), NEW c \in Conns, Talking(c), c \notin Eager, MsgUnits <= Capacity,
         Len(down[c]) >= 2 + spos[c], Len(down[c]) + 1 + MsgUnits <= taken[c] + 2 + spos[c]
  PROVE  Room(c)
<1> USE Sizes
<1>0. /\ up[c] \in Nat /\ taken[c] \in Nat /\ got[c] \in Nat /\ Len(down[c]) \in Nat
      /\ spos[c] \in Nat /\ spos[c] < MsgUnits
  BY RingConnType
<1>1. taken[c] <= up[c] /\ InStep(c)
  BY DEF Talking, Behind
<1>2. Capacity \in Nat
  BY ThreadAssumption
<1>3. CASE up[c] <= 1
  BY <1>0, <1>1, <1>3
<1>4. CASE up[c] > 1
  <2>1. up[c] + 2 = got[c] + 1 \/ up[c] + 2 = got[c] + 1 + MsgUnits
    BY <1>0, <1>4, <1>1 DEF InStep
  <2>2. up[c] + 2 <= got[c] + 1 + MsgUnits /\ taken[c] <= up[c]
    BY <1>0, <1>1, <2>1
  <2>3. Len(down[c]) - got[c] < Capacity
    <3>1. MsgUnits \in Nat
      OBVIOUS
    <3>2. Len(down[c]) <= got[c] + spos[c]
      BY <1>0, <2>2, <3>1, LeftOver
    <3>3. QED
      BY <1>0, <1>2, <3>1, <3>2
  <2>4. QED
    BY <2>3 DEF Room
<1>5. QED
  BY <1>0, <1>3, <1>4

-----------------------------------------------------------------------------
\* What a step of connection c shows to its client.

Shows(c) ==
  \/ ClientStill(c) /\ down'[c] = down[c]
  \/ /\ ClientStill(c) /\ client[c] # "idle"
     /\ Len(down[c]) = 0 /\ down'[c] = down[c] \o Announcement
  \/ /\ ClientStill(c) /\ Len(down[c]) >= 2
     /\ Len(down'[c]) = Len(down[c]) + 1 /\ Len(down'[c]) + 1 <= up[c] + 2
  \/ ClientStep(c) \/ ClientConnect(c) \/ ClientExit(c)

LEMMA ShowsServes ==
  ASSUME NEW P, NEW B, RingTypes(P, B), NEW c \in Conns, Cut(c), Shows(c)
  PROVE  Cut(c)' /\ ServiceMove(c)
<1>1. CASE ClientStill(c) /\ down'[c] = down[c]
  <2>1. Greeted(c)' = Greeted(c) /\ Replied(c)' = Replied(c)
    BY <1>1 DEF Greeted, Replied
  <2>2. QED
    BY <1>1, <2>1, CutKept DEF ClientStill, ServiceMove, SameService
<1>2. CASE /\ ClientStill(c) /\ client[c] # "idle"
           /\ Len(down[c]) = 0 /\ down'[c] = down[c] \o Announcement
  BY <1>2, RingConnType, GreetServes DEF ClientStill, ServiceMove
<1>3. CASE /\ ClientStill(c) /\ Len(down[c]) >= 2
           /\ Len(down'[c]) = Len(down[c]) + 1 /\ Len(down'[c]) + 1 <= up[c] + 2
  <2>1. up[c] \in Nat /\ Len(down[c]) \in Nat
    BY RingConnType
  <2>2. /\ 1 \in 0..MsgUnits /\ Len(down[c]) >= AnnounceUnits
        /\ Len(down'[c]) + HelloUnits <= up[c] + AnnounceUnits
    BY <1>3, Sizes
  <2>3. Cut(c)' /\ (SameService(c) \/ ServiceEchoes(c))
    BY <1>3, <2>1, <2>2, WriteServes DEF ClientStill
  <2>4. QED
    BY <2>3 DEF ServiceMove
<1>4. CASE ClientStep(c) \/ ClientConnect(c) \/ ClientExit(c)
  BY <1>4, ClientServes DEF RingTypes, ThreadTypeOK
<1>5. QED
  BY <1>1, <1>2, <1>3, <1>4 DEF Shows

LEMMA SameRingServes ==
  ASSUME NEW d, RingSame(d), Cut(d)
  PROVE  Cut(d)' /\ SameService(d)
<1>1. Greeted(d)' = Greeted(d) /\ Replied(d)' = Replied(d)
  BY DEF RingSame, Greeted, Replied
<1>2. QED
  BY <1>1, CutKept DEF RingSame, ClientStill, SameService

\* A step serves one connection, or none.
RingServed ==
  /\ (\A c \in Conns : Cut(c))'
  /\ \/ \A c \in Conns : SameService(c)
     \/ \E k \in Conns : ServiceMove(k) /\ \A c \in Conns \ {k} : SameService(c)

LEMMA RingServes ==
  ASSUME NEW P, NEW B, RingTypes(P, B), \A c \in Conns : Cut(c),
         NEW k \in Conns, Shows(k), OthersStill(k)
  PROVE  RingServed
<1>1. Cut(k)' /\ ServiceMove(k)
  BY ShowsServes
<1>2. \A c \in Conns \ {k} : Cut(c)' /\ SameService(c)
  BY SameRingServes DEF OthersStill
<1>3. QED
  BY <1>1, <1>2 DEF RingServed

LEMMA RingMapped ==
  ASSUME NEW P, NEW B, RingTypes(P, B), NEW c \in Conns, Talking(c), Cut(c)
  PROVE  Mapped(c)
<1>1. up[c] \in Nat /\ taken[c] \in Nat /\ down[c] \in Seq(Nat) /\ Len(down[c]) \in Nat
  BY RingConnType
<1>2. /\ down[c] = EchoOf(c, Len(down[c]))
      /\ Len(down[c]) <= AnnounceUnits \/ Len(down[c]) + HelloUnits <= taken[c] + AnnounceUnits
      /\ taken[c] <= up[c]
  BY DEF Talking, Behind
<1>3. Len(down[c]) <= AnnounceUnits \/ Len(down[c]) + HelloUnits <= up[c] + AnnounceUnits
  BY <1>1, <1>2, Sizes
<1>4. Replied(c) \in Nat /\ Replied(c) <= Asked(c) /\ Asked(c) \in Nat
  BY <1>1, <1>3, RepliedAsked, CutAsked
<1>5. QED
  BY <1>1, <1>2, <1>4, ExactMapped DEF Exact

LEMMA RingCuts ==
  ASSUME NEW B, RingInit(B)
  PROVE  \A c \in Conns : Cut(c)
BY DEF RingInit, ThreadInit, ClientInit, Cut

UringTypes == RingTypes({"recv", "wait_recv", "send", "wait_send"}, {"buf"})

LEMMA OneResult ==
  ASSUME NEW ok \in BOOLEAN
  PROVE  /\ <<ok>> # <<>> /\ Head(<<ok>>) = ok /\ Len(<<ok>>) = 1
         /\ SubSeq(<<ok>>, 2, 1) = <<>> /\ Append(<<>>, ok) = <<ok>>
<1>1. <<ok>> # <<>> /\ Head(<<ok>>) = ok /\ Len(<<ok>>) = 1
  OBVIOUS
<1>2. Append(<<>>, ok) = <<ok>>
  OBVIOUS
<1>3. SubSeq(<<ok>>, 2, 1) = <<>>
  OBVIOUS
<1>4. QED
  BY <1>1, <1>2, <1>3

\* Where the thread is tells how its ring and its buffer stand.
LEMMA UringWhere ==
  ASSUME NEW c \in Conns, UringAt(c)
  PROVE  /\ pc[c] \in {"none", "send_size", "recv_hello"} => Shaking(c)
         /\ pc[c] = "recv" => Idle(c) /\ Unbegun(c) /\ Level(c)
         /\ pc[c] = "send" => Idle(c) /\ Unbegun(c) /\ Holds(c, "buf", MsgUnits, 0)
         /\ pc[c] = "wait_recv" /\ cq[c] # <<>> /\ Head(cq[c]) = TRUE =>
              Complete(c, TRUE) /\ Unbegun(c) /\ Holds(c, "buf", MsgUnits, 0)
         /\ pc[c] = "wait_recv" /\ cq[c] # <<>> /\ Head(cq[c]) = FALSE =>
              Complete(c, FALSE) /\ Unbegun(c) /\ Excused(c)
         /\ pc[c] = "wait_send" /\ cq[c] # <<>> /\ Head(cq[c]) = TRUE =>
              Complete(c, TRUE) /\ Unbegun(c) /\ Level(c)
         /\ pc[c] = "wait_send" /\ cq[c] # <<>> /\ Head(cq[c]) = FALSE =>
              Complete(c, FALSE) /\ Unbegun(c) /\ Excused(c)
         /\ "send" \in inflight[c] =>
              /\ pc[c] = "wait_send" /\ sq[c] = {} /\ inflight[c] = {"send"} /\ cq[c] = <<>>
              /\ rpos[c] = 0 /\ Holds(c, "buf", MsgUnits, spos[c])
         /\ "recv" \in inflight[c] =>
              /\ pc[c] = "wait_recv" /\ sq[c] = {} /\ inflight[c] = {"recv"} /\ cq[c] = <<>>
              /\ spos[c] = 0 /\ Holds(c, "buf", rpos[c], 0)
<1>1. TRUE \in BOOLEAN /\ FALSE \in BOOLEAN
  OBVIOUS
<1>2. /\ Complete(c, TRUE) => Head(cq[c]) = TRUE /\ cq[c] # <<>> /\ inflight[c] = {}
      /\ Complete(c, FALSE) => Head(cq[c]) = FALSE /\ cq[c] # <<>> /\ inflight[c] = {}
  BY <1>1, OneResult DEF Complete
<1>3. Idle(c) => inflight[c] = {} /\ cq[c] = <<>>
  BY DEF Idle
<1>4. Shaking(c) => Idle(c) /\ pc[c] \in {"none", "send_size", "recv_hello"}
  BY DEF Shaking
<1>5. /\ Pending(c, "recv") =>
           cq[c] = <<>> /\ "send" \notin inflight[c] /\ (inflight[c] = {} \/ (sq[c] = {} /\ inflight[c] = {"recv"}))
      /\ Pending(c, "send") =>
           cq[c] = <<>> /\ "recv" \notin inflight[c] /\ (inflight[c] = {} \/ (sq[c] = {} /\ inflight[c] = {"send"}))
  BY DEF Pending
<1>6. /\ pc[c] \in {"none", "send_size", "recv_hello"} => Shaking(c)
      /\ pc[c] = "recv" => Idle(c) /\ Unbegun(c) /\ Level(c)
      /\ pc[c] = "send" => Idle(c) /\ Unbegun(c) /\ Holds(c, "buf", MsgUnits, 0)
  BY <1>4 DEF UringAt
<1>7. /\ pc[c] = "wait_recv" /\ cq[c] # <<>> /\ Head(cq[c]) = TRUE =>
           Complete(c, TRUE) /\ Unbegun(c) /\ Holds(c, "buf", MsgUnits, 0)
      /\ pc[c] = "wait_recv" /\ cq[c] # <<>> /\ Head(cq[c]) = FALSE =>
           Complete(c, FALSE) /\ Unbegun(c) /\ Excused(c)
  BY <1>2, <1>4, <1>5 DEF UringAt
<1>8. /\ pc[c] = "wait_send" /\ cq[c] # <<>> /\ Head(cq[c]) = TRUE =>
           Complete(c, TRUE) /\ Unbegun(c) /\ Level(c)
      /\ pc[c] = "wait_send" /\ cq[c] # <<>> /\ Head(cq[c]) = FALSE =>
           Complete(c, FALSE) /\ Unbegun(c) /\ Excused(c)
  BY <1>2, <1>4, <1>5 DEF UringAt
<1>9. "send" \in inflight[c] =>
        /\ pc[c] = "wait_send" /\ sq[c] = {} /\ inflight[c] = {"send"} /\ cq[c] = <<>>
        /\ rpos[c] = 0 /\ Holds(c, "buf", MsgUnits, spos[c])
  BY <1>2, <1>3, <1>4, <1>5 DEF UringAt
<1>10. "recv" \in inflight[c] =>
        /\ pc[c] = "wait_recv" /\ sq[c] = {} /\ inflight[c] = {"recv"} /\ cq[c] = <<>>
        /\ spos[c] = 0 /\ Holds(c, "buf", rpos[c], 0)
  BY <1>2, <1>3, <1>4, <1>5 DEF UringAt
<1>11. QED
  BY <1>6, <1>7, <1>8, <1>9, <1>10

LEMMA SameUringAt ==
  ASSUME NEW c \in Conns, UringAt(c), taken'[c] = taken[c], down'[c] = down[c], pc'[c] = pc[c], RingStill(c),
         Excused(c) => Excused(c)'
  PROVE  UringAt(c)'
<1>1. /\ Shaking(c) => Shaking(c)'
      /\ Idle(c) => Idle(c)'
      /\ Unbegun(c) => Unbegun(c)'
      /\ Level(c) => Level(c)'
      /\ \A k : Pending(c, k) => Pending(c, k)'
      /\ \A ok : Complete(c, ok) => Complete(c, ok)'
      /\ Holds(c, "buf", rpos[c], 0) => Holds(c, "buf", rpos[c], 0)'
      /\ Holds(c, "buf", MsgUnits, 0) => Holds(c, "buf", MsgUnits, 0)'
      /\ Holds(c, "buf", MsgUnits, spos[c]) => Holds(c, "buf", MsgUnits, spos[c])'
  BY DEF RingStill, Shaking, Idle, Unbegun, Level, Pending, Complete, Holds
<1>2. spos'[c] = spos[c] /\ rpos'[c] = rpos[c]
  BY DEF RingStill
<1>3. QED
  BY <1>1, <1>2 DEF UringAt

LEMMA SameUringSound ==
  ASSUME NEW d \in Conns, RingSame(d), UringSound(d)
  PROVE  UringSound(d)'
<1>1. ClientStill(d) /\ (Excused(d) => Excused(d)')
  BY StillKeeps DEF RingSame
<1>2. Queued(d)' /\ Talking(d)'
  BY <1>1, SameQueued, SameTalking DEF RingSame, UringSound
<1>3. UringAt(d)'
  BY <1>1, SameUringAt DEF RingSame, UringSound
<1>4. QED
  BY <1>2, <1>3 DEF UringSound



LEMMA SendSizeShakes ==
  ASSUME NEW c \in Conns, Shaking(c), Goes(c, "send_size", "recv_hello"), taken'[c] = taken[c],
         Len(down'[c]) = 2, RingStill(c)
  PROVE  Shaking(c)'
BY DEF Shaking, Idle, Unbegun, RingStill, Goes, AnnounceUnits

LEMMA HelloLevels ==
  ASSUME NEW c \in Conns, Shaking(c), Goes(c, "recv_hello", "recv"), taken'[c] = taken[c] + HelloUnits,
         down'[c] = down[c], RingStill(c)
  PROVE  Idle(c)' /\ Unbegun(c)' /\ Level(c)'
<1>1. pc[c] = "recv_hello" /\ taken[c] = 0 /\ Len(down[c]) = 2
  BY DEF Shaking, Goes, AnnounceUnits
<1>2. Level(c)'
  BY <1>1 DEF Level, AnnounceUnits, HelloUnits
<1>3. QED
  BY <1>2 DEF Shaking, Idle, Unbegun, RingStill

-----------------------------------------------------------------------------
\* uring.c: every step keeps every connection sound.

UringIInv == UringTypes /\ \A c \in Conns : UringSound(c)

\* What a step of connection c has to establish.
UringKept(c) == UringTypes' /\ OthersStill(c) /\ UringSound(c)' /\ Shows(c)

LEMMA UringMoves ==
  ASSUME NEW c \in Conns, UringSound(c), ClientStill(c), taken'[c] = taken[c], down'[c] = down[c],
         NEW from, NEW to, Goes(c, from, to), from # "none", to # "none", UringAt(c)'
  PROVE  UringSound(c)' /\ Shows(c)
BY SameQueued, SameTalking DEF UringSound, Goes, Shows

LEMMA UringAccepts ==
  ASSUME UringIInv, RingAccept
  PROVE  \E c \in Conns : UringKept(c)
<1>1. UringTypes /\ UringTypes'
  BY AcceptEffect DEF UringIInv, UringTypes
<1>2. PICK c \in queue : /\ c \in Conns /\ OthersStill(c)
                         /\ ClientStill(c) /\ taken'[c] = taken[c] /\ down'[c] = down[c]
                         /\ RingStill(c) /\ pc'[c] = "send_size" /\ c \notin queue'
  BY <1>1, AcceptEffect DEF UringTypes
<1>3. UringSound(c)
  BY <1>2 DEF UringIInv
<1>4. pc[c] = "none" /\ Shaking(c)
  BY <1>2, <1>3, UringWhere DEF UringSound, Queued
<1>5. Shaking(c)'
  BY <1>2, <1>4 DEF Shaking, Idle, Unbegun, RingStill
<1>6. UringSound(c)'
  <2>1. Queued(c)'
    BY <1>2, <1>3 DEF UringSound, Queued, ClientStill
  <2>2. Talking(c)'
    BY <1>2, <1>3, SameTalking DEF UringSound
  <2>3. QED
    BY <1>5, <2>1, <2>2 DEF UringSound, UringAt
<1>7. QED
  BY <1>1, <1>2, <1>6 DEF UringKept, Shows

LEMMA UringShakes ==
  ASSUME UringTypes, NEW c \in Conns, UringSound(c), RingHandshake(c)
  PROVE  UringKept(c)
<1>1. CASE SendSize(c) /\ UNCHANGED ringVars
  <2>1. /\ UringTypes' /\ OthersStill(c)
        /\ Goes(c, "send_size", "recv_hello") /\ ClientStill(c) /\ RingStill(c)
        /\ taken'[c] = taken[c] /\ down'[c] = down[c] \o Announcement
    BY <1>1, SendSizeEffect DEF UringTypes
  <2>2. Shaking(c) /\ Len(down[c]) = 0
    BY <2>1, UringWhere DEF UringSound, Goes, Shaking
  <2>3. Talking(c)' /\ Len(down'[c]) = 2
    BY <2>1, <2>2, GreetTalking DEF UringSound, UringTypes
  <2>4. Shaking(c)'
    BY <2>1, <2>2, <2>3, SendSizeShakes
  <2>5. Queued(c)'
    BY <2>1, SameQueued DEF UringSound, Goes
  <2>6. QED
    <3>1. client[c] # "idle"
      BY <2>1 DEF UringSound, Queued, Goes
    <3>2. Shows(c)
      BY <2>1, <2>2, <3>1 DEF Shows
    <3>3. QED
      BY <2>1, <2>3, <2>4, <2>5, <3>2 DEF UringKept, UringSound, UringAt
<1>2. CASE RecvHello(c) /\ UNCHANGED ringVars
  <2>1. /\ UringTypes' /\ OthersStill(c)
        /\ Goes(c, "recv_hello", "recv") /\ ClientStill(c) /\ RingStill(c)
        /\ taken'[c] = taken[c] + HelloUnits /\ taken'[c] <= up[c] /\ down'[c] = down[c]
    BY <1>2, HelloEffect DEF UringTypes
  <2>2. Shaking(c)
    BY <2>1, UringWhere DEF UringSound, Goes
  <2>3. Idle(c)' /\ Unbegun(c)' /\ Level(c)'
    BY <2>1, <2>2, HelloLevels
  <2>4. Talking(c)'
    <3>1. taken[c] \in Nat
      BY RingConnType DEF UringTypes
    <3>2. taken'[c] \in Nat /\ taken'[c] >= taken[c]
      BY <2>1, <3>1, Sizes
    <3>3. QED
      BY <2>1, <3>2, TakenTalking DEF UringSound, UringTypes
  <2>5. Queued(c)'
    BY <2>1, SameQueued DEF UringSound, Goes
  <2>6. QED
    BY <2>1, <2>3, <2>4, <2>5 DEF UringKept, UringSound, UringAt, Goes, Shows
<1>3. QED
  BY <1>1, <1>2 DEF RingHandshake, HandshakeStep

\* A thread whose client has gone gives it up.
LEMMA UringGivesUp ==
  ASSUME UringTypes, NEW c \in Conns, UringSound(c), UringEnds(c)
  PROVE  UringKept(c)
<1>1. PICK from \in {"send_size", "recv_hello"} :
        client[c] = "gone" /\ Moves(c, from, "done") /\ UNCHANGED <<clientVars, ringVars>>
  BY DEF UringEnds, HandshakeFails, Returns
<1>2. /\ UringTypes' /\ OthersStill(c) /\ Goes(c, from, "done")
      /\ ClientStill(c) /\ RingStill(c) /\ taken'[c] = taken[c] /\ down'[c] = down[c]
  BY <1>1, PassEffect DEF UringTypes
<1>3. Idle(c) /\ Unbegun(c)
  BY <1>2, UringWhere DEF UringSound, Goes, Shaking
<1>4. UringAt(c)'
  BY <1>1, <1>2, <1>3 DEF UringAt, Idle, Unbegun, RingStill, Goes, Excused, ClientStill
<1>5. QED
  BY <1>2, <1>4, UringMoves DEF UringKept

LEMMA UringSubmits ==
  ASSUME UringTypes, NEW c \in Conns, UringSound(c), SubmitRecv(c) \/ SubmitSend(c)
  PROVE  UringKept(c)
<1> USE Sizes
<1>0. taken[c] \in Nat /\ Len(down[c]) \in Nat
  BY RingConnType DEF UringTypes
<1>1. CASE SubmitRecv(c)
  <2>0. {"recv"} \in SUBSET Requests
    BY DEF Requests
  <2>1. /\ UringTypes' /\ OthersStill(c) /\ Goes(c, "recv", "wait_recv")
        /\ ClientStill(c) /\ taken'[c] = taken[c] /\ down'[c] = down[c]
        /\ cq'[c] = cq[c] /\ mem'[c] = mem[c] /\ spos'[c] = spos[c] /\ rpos'[c] = rpos[c]
        /\ \/ sq'[c] = sq[c] /\ inflight'[c] = inflight[c] \cup {"recv"}
           \/ sq'[c] = sq[c] \cup {"recv"} /\ inflight'[c] = inflight[c]
    BY <1>1, <2>0, SubmitEffect DEF UringTypes, SubmitRecv, Submitted
  <2>2. Idle(c) /\ Unbegun(c) /\ Level(c)
    BY <2>1, UringWhere DEF UringSound, Goes
  <2>3. Pending(c, "recv")'
    BY <2>1, <2>2 DEF Pending, Idle
  <2>4. spos'[c] = 0 /\ rpos'[c] = 0
    BY <2>1, <2>2 DEF Unbegun
  <2>5. Holds(c, "buf", rpos[c], 0)'
    BY <1>0, <2>1, <2>2, <2>4 DEF Holds, Level
  <2>6. UringAt(c)'
    BY <2>1, <2>3, <2>4, <2>5 DEF UringAt, Goes
  <2>7. QED
    BY <2>1, <2>6, UringMoves DEF UringKept
<1>2. CASE SubmitSend(c)
  <2>0. {"send"} \in SUBSET Requests
    BY DEF Requests
  <2>1. /\ UringTypes' /\ OthersStill(c) /\ Goes(c, "send", "wait_send")
        /\ ClientStill(c) /\ taken'[c] = taken[c] /\ down'[c] = down[c]
        /\ cq'[c] = cq[c] /\ mem'[c] = mem[c] /\ spos'[c] = spos[c] /\ rpos'[c] = rpos[c]
        /\ \/ sq'[c] = sq[c] /\ inflight'[c] = inflight[c] \cup {"send"}
           \/ sq'[c] = sq[c] \cup {"send"} /\ inflight'[c] = inflight[c]
    BY <1>2, <2>0, SubmitEffect DEF UringTypes, SubmitSend, Submitted
  <2>2. Idle(c) /\ Unbegun(c) /\ Holds(c, "buf", MsgUnits, 0)
    BY <2>1, UringWhere DEF UringSound, Goes
  <2>3. Pending(c, "send")'
    BY <2>1, <2>2 DEF Pending, Idle
  <2>4. spos'[c] = 0 /\ rpos'[c] = 0
    BY <2>1, <2>2 DEF Unbegun
  <2>5. Holds(c, "buf", MsgUnits, spos[c])'
    BY <2>1, <2>2, <2>4 DEF Holds
  <2>6. UringAt(c)'
    BY <2>1, <2>3, <2>4, <2>5 DEF UringAt, Goes
  <2>7. QED
    BY <2>1, <2>6, UringMoves DEF UringKept
<1>3. QED
  BY <1>1, <1>2

\* The completion is seen, and its count tested.
LEMMA UringSees ==
  ASSUME UringTypes, NEW c \in Conns, UringSound(c), RecvDone(c) \/ RecvShort(c) \/ SendDone(c) \/ SendShort(c)
  PROVE  UringKept(c)
<1>1. PICK from \in {"wait_recv", "wait_send"}, ok \in BOOLEAN, to \in {"recv", "send", "done"} :
        /\ Moves(c, from, to) /\ cq[c] # <<>> /\ Head(cq[c]) = ok /\ CqAdvance(c, 1)
        /\ to = IF ~ok THEN "done" ELSE IF from = "wait_recv" THEN "send" ELSE "recv"
  BY DEF RecvDone, RecvShort, SendDone, SendShort, Reads
<1>2. /\ UringTypes' /\ OthersStill(c) /\ Goes(c, from, to)
      /\ ClientStill(c) /\ taken'[c] = taken[c] /\ down'[c] = down[c]
      /\ cq'[c] = SubSeq(cq[c], 2, Len(cq[c])) /\ mem'[c] = mem[c]
      /\ sq'[c] = sq[c] /\ inflight'[c] = inflight[c] /\ spos'[c] = spos[c] /\ rpos'[c] = rpos[c]
  <2>1. /\ RingTypes({"recv", "wait_recv", "send", "wait_send"}, {"buf"})
        /\ 1 \in Nat /\ to \in {"done", "recv_hello"} \cup {"recv", "wait_recv", "send", "wait_send"}
        /\ 1 + 1 = 2
    BY DEF UringTypes
  <2>2. QED
    BY <1>1, <2>1, AdvanceEffect DEF UringTypes
<1>3. UringAt(c)
  BY DEF UringSound
<1>4. /\ Complete(c, ok) /\ Unbegun(c)
      /\ ~ok => Excused(c)
      /\ from = "wait_recv" /\ ok => Holds(c, "buf", MsgUnits, 0)
      /\ from = "wait_send" /\ ok => Level(c)
  BY <1>1, <1>2, <1>3, UringWhere DEF Goes
<1>5. Idle(c)' /\ Unbegun(c)'
  <2>1. cq[c] = <<ok>> /\ sq[c] = {} /\ inflight[c] = {}
    BY <1>4 DEF Complete
  <2>2. cq'[c] = <<>>
    BY <1>2, <2>1, OneResult
  <2>3. QED
    BY <1>2, <1>4, <2>1, <2>2 DEF Idle, Unbegun
<1>6. UringAt(c)'
  <2>1. CASE ~ok
    <3>1. Excused(c)' /\ pc'[c] = "done"
      BY <1>1, <1>2, <1>4, <2>1, StillKeeps DEF Goes
    <3>2. QED
      BY <1>5, <3>1 DEF UringAt
  <2>2. CASE ok /\ from = "wait_recv"
    <3>1. Holds(c, "buf", MsgUnits, 0)' /\ pc'[c] = "send"
      BY <1>1, <1>2, <1>4, <2>2 DEF Goes, Holds
    <3>2. QED
      BY <1>5, <3>1 DEF UringAt
  <2>3. CASE ok /\ from = "wait_send"
    <3>1. Level(c)' /\ pc'[c] = "recv"
      BY <1>1, <1>2, <1>4, <2>3 DEF Goes, Level
    <3>2. QED
      BY <1>5, <3>1 DEF UringAt
  <2>4. QED
    BY <2>1, <2>2, <2>3
<1>7. QED
  BY <1>2, <1>6, UringMoves DEF UringKept

\* The arithmetic of a unit sent and of a unit received: l is the length of the
\* server's stream, t what it has taken, m the size of a message.
Placed(l, t, s, m) ==
  /\ l >= 2 /\ l >= 2 + s /\ l + 1 < t + 2 /\ t - m + (s + 1) = l
  /\ l + 1 + m <= t + 2 + s
  /\ l + 1 + 1 + m = t + 2 + (s + 1)
  /\ s + 1 = m => l + 1 + 1 = t + 2

LEMMA SentPlace ==
  ASSUME NEW l \in Nat, NEW t \in Nat, NEW s \in Nat, NEW m \in Nat, s < m,
         t >= 1 + m, l + 1 + m = t + 2 + s
  PROVE  Placed(l, t, s, m)
BY DEF Placed

LEMMA TakenPlace ==
  ASSUME NEW l \in Nat, NEW t \in Nat, NEW r \in Nat, t >= 1 + r, l + 1 + r = t + 2 + 0
  PROVE  t + 1 >= 1 + (r + 1) /\ l + 1 + (r + 1) = t + 1 + 2 + 0
OBVIOUS

\* The kernel's steps.
LEMMA UringKernelSends ==
  ASSUME UringTypes, NEW c \in Conns, UringSound(c), KSend(c, "buf")
  PROVE  UringKept(c)
<1> DEFINE x == mem[c]["buf"][spos[c] + 1]
<1>0. /\ taken[c] \in Nat /\ Len(down[c]) \in Nat /\ spos[c] \in Nat /\ spos[c] < MsgUnits
      /\ down[c] \in Seq(Nat)
  BY RingConnType DEF UringTypes
<1>1. /\ UringTypes' /\ OthersStill(c) /\ pc'[c] = pc[c] /\ queue' = queue
      /\ "send" \in inflight[c] /\ ClientStill(c) /\ taken'[c] = taken[c]
      /\ down'[c] = Append(down[c], x) /\ x \in Nat
      /\ sq'[c] = sq[c] /\ mem'[c] = mem[c] /\ rpos'[c] = rpos[c]
      /\ \/ spos[c] + 1 = MsgUnits /\ spos'[c] = 0 /\ Ends(c, "send", TRUE)
         \/ spos[c] + 1 < MsgUnits /\ spos'[c] = spos[c] + 1 /\ Lasts(c)
  <2>1. RingTypes({"recv", "wait_recv", "send", "wait_send"}, {"buf"}) /\ "buf" \in {"buf"}
    BY DEF UringTypes
  <2>2. UringTypes' /\ OthersStill(c) /\ Sent(c, "buf")
    BY <2>1, KSendEffect DEF UringTypes
  <2>3. QED
    BY <2>2 DEF Sent
<1> USE Sizes
<1>2. /\ pc[c] = "wait_send" /\ sq[c] = {} /\ inflight[c] = {"send"} /\ cq[c] = <<>>
      /\ rpos[c] = 0 /\ Holds(c, "buf", MsgUnits, spos[c])
  BY <1>1, UringWhere DEF UringSound
<1>3. /\ taken[c] >= 1 + MsgUnits /\ Len(down[c]) + 1 + MsgUnits = taken[c] + 2 + spos[c]
      /\ x = taken[c] - MsgUnits + (spos[c] + 1)
  <2>1. spos[c] + 1 \in 1..MsgUnits
    BY <1>0
  <2>2. QED
    BY <1>2, <2>1 DEF Holds
<1> HIDE DEF x
<1>4. /\ Len(down[c]) >= 2 /\ Len(down[c]) + 1 < taken[c] + 2 /\ x = Len(down[c])
      /\ Len(down[c]) + 1 + 1 + MsgUnits = taken[c] + 2 + (spos[c] + 1)
      /\ spos[c] + 1 = MsgUnits => Len(down[c]) + 1 + 1 = taken[c] + 2
  <2>1. /\ taken[c] \in Nat /\ Len(down[c]) \in Nat /\ spos[c] \in Nat /\ MsgUnits \in Nat
        /\ spos[c] < MsgUnits
        /\ taken[c] >= 1 + MsgUnits /\ Len(down[c]) + 1 + MsgUnits = taken[c] + 2 + spos[c]
    BY <1>0, <1>3
  <2>2. Placed(Len(down[c]), taken[c], spos[c], MsgUnits)
    BY <2>1, SentPlace
  <2>3. QED
    BY <1>3, <2>2 DEF Placed
<1>5. Talking(c)'
  BY <1>1, <1>4, SentTalking DEF UringSound, UringTypes
<1>6. Queued(c)'
  BY <1>1, <1>2, SameQueued DEF UringSound
<1>7. Len(down'[c]) = Len(down[c]) + 1
  BY <1>0, <1>1, AppendProperties
<1>8. UringAt(c)'
  <2>1. CASE spos[c] + 1 = MsgUnits /\ spos'[c] = 0 /\ Ends(c, "send", TRUE)
    <3>1. Complete(c, TRUE)' /\ Unbegun(c)'
      BY <1>1, <1>2, <2>1, OneResult DEF Ends, Complete, Unbegun
    <3>2. Level(c)'
      <4>1. taken'[c] = taken[c] /\ taken[c] >= 1 /\ Len(down'[c]) + 1 = taken[c] + 2
        BY <1>0, <1>1, <1>3, <1>4, <1>7, <2>1
      <4>2. QED
        BY <4>1 DEF Level
    <3>3. QED
      BY <1>1, <1>2, <3>1, <3>2 DEF UringAt
  <2>2. CASE spos[c] + 1 < MsgUnits /\ spos'[c] = spos[c] + 1 /\ Lasts(c)
    <3>1. Pending(c, "send")' /\ rpos'[c] = 0
      BY <1>1, <1>2, <2>2 DEF Lasts, Pending
    <3>2. Holds(c, "buf", MsgUnits, spos[c])'
      <4>1. /\ taken'[c] = taken[c] /\ taken[c] >= 1 + MsgUnits
            /\ Len(down'[c]) + 1 + MsgUnits = taken[c] + 2 + spos'[c]
        BY <1>1, <1>3, <1>4, <1>7, <2>2
      <4>2. QED
        BY <1>1, <1>2, <4>1 DEF Holds
    <3>3. QED
      BY <1>1, <1>2, <3>1, <3>2 DEF UringAt
  <2>3. QED
    BY <1>1, <2>1, <2>2
<1>9. QED
  <2>1. Shows(c)
    <3>1. up[c] \in Nat /\ taken[c] <= up[c]
      BY RingConnType DEF UringTypes, UringSound, Talking, Behind
    <3>2. Len(down'[c]) + 1 <= up[c] + 2
      BY <1>0, <1>4, <1>7, <3>1
    <3>3. QED
      BY <1>1, <1>4, <1>7, <3>2 DEF Shows
  <2>2. QED
    BY <1>1, <1>5, <1>6, <1>8, <2>1 DEF UringKept, UringSound

LEMMA UringKernelReceives ==
  ASSUME UringTypes, NEW c \in Conns, UringSound(c), KRecv(c, "buf")
  PROVE  UringKept(c)
<1>0. /\ taken[c] \in Nat /\ Len(down[c]) \in Nat /\ rpos[c] \in Nat /\ rpos[c] < MsgUnits
      /\ up[c] \in Nat
  BY RingConnType DEF UringTypes
<1>1. /\ UringTypes' /\ OthersStill(c) /\ pc'[c] = pc[c] /\ queue' = queue
      /\ "recv" \in inflight[c] /\ taken[c] < up[c]
      /\ ClientStill(c) /\ taken'[c] = taken[c] + 1 /\ down'[c] = down[c]
      /\ mem'[c]["buf"][rpos[c] + 1] = taken[c] + 1
      /\ \A i \in 1..MsgUnits : i # rpos[c] + 1 => mem'[c]["buf"][i] = mem[c]["buf"][i]
      /\ sq'[c] = sq[c] /\ spos'[c] = spos[c]
      /\ \/ rpos[c] + 1 = MsgUnits /\ rpos'[c] = 0 /\ Ends(c, "recv", TRUE)
         \/ rpos[c] + 1 < MsgUnits /\ rpos'[c] = rpos[c] + 1 /\ Lasts(c)
  <2>1. RingTypes({"recv", "wait_recv", "send", "wait_send"}, {"buf"}) /\ "buf" \in {"buf"}
    BY DEF UringTypes
  <2>2. UringTypes' /\ OthersStill(c) /\ Stored(c, "buf")
    BY <2>1, KRecvEffect DEF UringTypes
  <2>3. QED
    BY <2>2 DEF Stored
<1> USE Sizes
<1>2. /\ pc[c] = "wait_recv" /\ sq[c] = {} /\ inflight[c] = {"recv"} /\ cq[c] = <<>>
      /\ spos[c] = 0 /\ Holds(c, "buf", rpos[c], 0)
  BY <1>1, UringWhere DEF UringSound
<1>3. Talking(c)'
  <2>1. taken'[c] \in Nat /\ taken'[c] >= taken[c] /\ taken'[c] <= up[c]
    BY <1>0, <1>1
  <2>2. QED
    BY <1>1, <2>1, TakenTalking DEF UringSound, UringTypes
<1>4. Queued(c)'
  BY <1>1, <1>2, SameQueued DEF UringSound
<1>5. \A i \in 1..(rpos[c] + 1) : mem'[c]["buf"][i] = taken'[c] - (rpos[c] + 1) + i
  <2> SUFFICES ASSUME NEW i \in 1..(rpos[c] + 1)
               PROVE  mem'[c]["buf"][i] = taken'[c] - (rpos[c] + 1) + i
    OBVIOUS
  <2>1. CASE i = rpos[c] + 1
    BY <1>0, <1>1, <2>1
  <2>2. CASE i # rpos[c] + 1
    <3>1. i \in 1..rpos[c] /\ i \in 1..MsgUnits
      BY <1>0, <2>2
    <3>2. mem'[c]["buf"][i] = mem[c]["buf"][i] /\ mem[c]["buf"][i] = taken[c] - rpos[c] + i
      BY <1>1, <1>2, <2>2, <3>1 DEF Holds
    <3>3. QED
      BY <1>0, <1>1, <3>1, <3>2
  <2>3. QED
    BY <2>1, <2>2
<1>6. /\ taken'[c] >= 1 + (rpos[c] + 1)
      /\ Len(down'[c]) + 1 + (rpos[c] + 1) = taken'[c] + 2 + 0
  <2>1. /\ taken[c] \in Nat /\ Len(down[c]) \in Nat /\ rpos[c] \in Nat
        /\ taken[c] >= 1 + rpos[c] /\ Len(down[c]) + 1 + rpos[c] = taken[c] + 2 + 0
    BY <1>0, <1>2 DEF Holds
  <2>2. taken[c] + 1 >= 1 + (rpos[c] + 1) /\ Len(down[c]) + 1 + (rpos[c] + 1) = taken[c] + 1 + 2 + 0
    BY <2>1, TakenPlace
  <2>3. QED
    BY Zenon, <1>1, <2>2
<1>7. UringAt(c)'
  <2>1. CASE rpos[c] + 1 = MsgUnits /\ rpos'[c] = 0 /\ Ends(c, "recv", TRUE)
    <3>1. Complete(c, TRUE)' /\ Unbegun(c)'
      BY <1>1, <1>2, <2>1, OneResult DEF Ends, Complete, Unbegun
    <3>2. Holds(c, "buf", MsgUnits, 0)'
      BY <1>5, <1>6, <2>1 DEF Holds
    <3>3. QED
      BY <1>1, <1>2, <3>1, <3>2 DEF UringAt
  <2>2. CASE rpos[c] + 1 < MsgUnits /\ rpos'[c] = rpos[c] + 1 /\ Lasts(c)
    <3>1. Pending(c, "recv")' /\ spos'[c] = 0
      BY <1>1, <1>2, <2>2 DEF Lasts, Pending
    <3>2. Holds(c, "buf", rpos[c], 0)'
      BY <1>5, <1>6, <2>2 DEF Holds
    <3>3. QED
      BY <1>1, <1>2, <3>1, <3>2 DEF UringAt
  <2>3. QED
    BY <1>1, <2>1, <2>2
<1>8. QED
  BY <1>1, <1>3, <1>4, <1>7 DEF UringKept, UringSound, Shows

\* A request completes short, and has an excuse.
LEMMA UringKernelFails ==
  ASSUME UringTypes, NEW c \in Conns, UringSound(c), KernelFails(c)
  PROVE  UringKept(c)
<1> USE Sizes
<1>0. /\ taken[c] \in Nat /\ Len(down[c]) \in Nat /\ spos[c] \in Nat /\ spos[c] < MsgUnits
      /\ FALSE \in BOOLEAN
  BY RingConnType DEF UringTypes
<1>1. /\ UringTypes' /\ OthersStill(c) /\ pc'[c] = pc[c] /\ queue' = queue
      /\ ClientStill(c) /\ taken'[c] = taken[c] /\ down'[c] = down[c]
      /\ sq'[c] = sq[c] /\ mem'[c] = mem[c]
      /\ \/ /\ "send" \in inflight[c] /\ Ends(c, "send", FALSE)
            /\ (spos[c] > 0 /\ ~Room(c)) \/ client[c] = "gone"
            /\ spos'[c] = 0 /\ rpos'[c] = rpos[c]
         \/ /\ "recv" \in inflight[c] /\ Ends(c, "recv", FALSE)
            /\ client[c] = "gone"
            /\ spos'[c] = spos[c] /\ rpos'[c] = 0
  BY ShortEffect DEF UringTypes
<1>2. UringAt(c) /\ Talking(c)
  BY DEF UringSound
<1>3. /\ pc[c] \in {"wait_send", "wait_recv"} /\ Complete(c, FALSE)' /\ Unbegun(c)'
  <2>1. CASE "send" \in inflight[c] /\ Ends(c, "send", FALSE) /\ spos'[c] = 0 /\ rpos'[c] = rpos[c]
    <3>1. /\ pc[c] = "wait_send" /\ sq[c] = {} /\ inflight[c] = {"send"} /\ cq[c] = <<>> /\ rpos[c] = 0
      BY <1>2, <2>1, UringWhere
    <3>2. QED
      BY <1>0, <1>1, <2>1, <3>1, OneResult DEF Ends, Complete, Unbegun
  <2>2. CASE "recv" \in inflight[c] /\ Ends(c, "recv", FALSE) /\ spos'[c] = spos[c] /\ rpos'[c] = 0
    <3>1. /\ pc[c] = "wait_recv" /\ sq[c] = {} /\ inflight[c] = {"recv"} /\ cq[c] = <<>> /\ spos[c] = 0
      BY <1>2, <2>2, UringWhere
    <3>2. QED
      BY <1>0, <1>1, <2>2, <3>1, OneResult DEF Ends, Complete, Unbegun
  <2>3. QED
    BY <1>1, <2>1, <2>2
<1>4. Excused(c)
  <2>1. CASE client[c] = "gone"
    BY <2>1 DEF Excused
  <2>2. CASE "send" \in inflight[c] /\ ~Room(c)
    <3>1. Holds(c, "buf", MsgUnits, spos[c])
      BY <1>2, <2>2, UringWhere
    <3>2. Len(down[c]) >= 2 + spos[c] /\ Len(down[c]) + 1 + MsgUnits <= taken[c] + 2 + spos[c]
      BY <1>0, <3>1 DEF Holds
    <3>3. c \in Eager \/ ~(MsgUnits <= Capacity)
      BY <1>2, <2>2, <3>2, InStepRoom DEF UringTypes
    <3>4. Capacity \in Nat
      BY ThreadAssumption
    <3>5. QED
      BY <3>3, <3>4 DEF Excused
  <2>3. QED
    BY <1>1, <2>1, <2>2
<1>5. Excused(c)'
  BY <1>1, <1>4, StillKeeps
<1>6. UringAt(c)'
  BY <1>1, <1>3, <1>5 DEF UringAt
<1>7. Queued(c)' /\ Talking(c)'
  BY <1>1, <1>3, SameQueued, SameTalking DEF UringSound
<1>8. QED
  BY <1>1, <1>6, <1>7 DEF UringKept, UringSound, Shows

LEMMA UringWorld ==
  ASSUME UringTypes, NEW c \in Conns, UringSound(c), World(c)
  PROVE  UringKept(c)
<1>1. /\ UringTypes' /\ OthersStill(c)
      /\ taken'[c] = taken[c] /\ down'[c] = down[c] /\ pc'[c] = pc[c] /\ RingStill(c)
      /\ Shows(c)
  BY WorldEffect DEF UringTypes, Shows
<1>2. Queued(c)' /\ (Excused(c) => Excused(c)')
  BY WorldQueued DEF UringSound, UringTypes
<1>3. Talking(c)'
  BY WorldTalking DEF UringSound, UringTypes
<1>4. UringAt(c)'
  BY <1>1, <1>2, SameUringAt DEF UringSound
<1>5. QED
  BY <1>1, <1>2, <1>3, <1>4 DEF UringKept, UringSound

-----------------------------------------------------------------------------

LEMMA UringIStarts == UringInit => UringIInv
<1> USE Sizes
<1> SUFFICES ASSUME UringInit PROVE UringIInv
  OBVIOUS
<1>1. ThreadInit /\ ClientInit
  BY DEF UringInit, RingInit, ThreadInit
<1>2. UringTypes
  <2>1. ClientTypeOK
    BY <1>1 DEF ClientInit, ClientTypeOK, Stages
  <2>2. ThreadTypeOK({"recv", "wait_recv", "send", "wait_send"})
    BY <1>1, <2>1 DEF ThreadInit, ThreadTypeOK
  <2>3. 0 \in 0..(MsgUnits - 1) /\ <<>> \in Seq(BOOLEAN)
    OBVIOUS
  <2>4. QED
    BY <2>2, <2>3 DEF UringInit, RingInit, RingTypes, UringTypes
<1>3. ASSUME NEW c \in Conns PROVE UringSound(c)
  <2>1. /\ client[c] = "idle" /\ up[c] = 0 /\ taken[c] = 0 /\ got[c] = 0 /\ down[c] = <<>>
        /\ queue = {} /\ pc[c] = "none"
        /\ sq[c] = {} /\ inflight[c] = {} /\ cq[c] = <<>> /\ spos[c] = 0 /\ rpos[c] = 0
    BY <1>1 DEF ClientInit, ThreadInit, UringInit, RingInit
  <2>2. Len(down[c]) = 0
    BY <2>1
  <2>3. Queued(c) /\ Shaking(c)
    BY <2>1, <2>2 DEF Queued, Shaking, Idle, Unbegun
  <2>4. down[c] = EchoOf(c, Len(down[c]))
    BY <2>1, <2>2 DEF EchoOf
  <2>5. Talking(c)
    BY <2>1, <2>2, <2>4 DEF Talking, Behind, InStep
  <2>6. QED
    BY <2>3, <2>5 DEF UringSound, UringAt
<1>4. QED
  BY <1>2, <1>3 DEF UringIInv

LEMMA UringStops ==
  ASSUME UringIInv, alive' \in BOOLEAN, UNCHANGED <<clientVars, queue, open, pc, ringVars>>
  PROVE  UringTypes' /\ \A d \in Conns : RingSame(d)
BY StopEffect DEF UringIInv, UringTypes

\* A step keeps one connection sound and leaves the others alone, or all.
LEMMA UringEvery ==
  ASSUME UringIInv, [UringNext]_uringVars
  PROVE  \/ UringTypes' /\ \A d \in Conns : RingSame(d)
         \/ \E c \in Conns : UringKept(c)
<1>0. UringTypes /\ \A c \in Conns : UringSound(c)
  BY DEF UringIInv
<1>1. CASE RingAccept
  BY <1>1, UringAccepts
<1>2. CASE RingAcceptFail
  BY <1>2, UringStops DEF RingAcceptFail, MainAcceptFail
<1>3. ASSUME NEW c \in Conns,
             \/ UringStep(c) \/ UringFails(c) \/ KernelStep(c) \/ KernelFails(c)
             \/ RingConnect(c) \/ RingTalk(c) \/ RingLeave(c)
      PROVE  (UringTypes' /\ \A d \in Conns : RingSame(d)) \/ UringKept(c)
  <2>1. CASE UringStep(c)
    BY <1>0, <2>1, UringShakes, UringSubmits, UringSees DEF UringStep
  <2>2. CASE UringEnds(c) \/ RecvShort(c) \/ SendShort(c)
    BY <1>0, <2>2, UringGivesUp, UringSees
  <2>3. CASE WaitFails(c)
    BY <2>3, UringStops DEF WaitFails
  <2>4. CASE KernelStep(c) \/ KernelFails(c)
    BY <1>0, <2>4, UringKernelSends, UringKernelReceives, UringKernelFails DEF KernelStep
  <2>5. CASE RingConnect(c) \/ RingTalk(c) \/ RingLeave(c)
    BY <1>0, <2>5, UringWorld DEF World
  <2>6. QED
    BY <1>3, <2>1, <2>2, <2>3, <2>4, <2>5 DEF UringFails
<1>4. CASE UNCHANGED uringVars
  <2>1. alive' \in BOOLEAN
    BY <1>0, <1>4 DEF UringTypes, RingTypes, ThreadTypeOK, uringVars, threadVars
  <2>2. QED
    BY <1>4, <2>1, UringStops DEF uringVars, threadVars
<1>5. QED
  BY <1>1, <1>2, <1>3, <1>4 DEF UringNext

LEMMA UringIStep == UringIInv /\ [UringNext]_uringVars => UringIInv'
<1> SUFFICES ASSUME UringIInv, [UringNext]_uringVars PROVE UringIInv'
  OBVIOUS
<1>1. CASE UringTypes' /\ \A d \in Conns : RingSame(d)
  BY <1>1, SameUringSound DEF UringIInv
<1>2. CASE \E c \in Conns : UringKept(c)
  BY <1>2, SameUringSound DEF UringIInv, UringKept, OthersStill
<1>3. QED
  BY <1>1, <1>2, UringEvery

LEMMA UringAlways == UringSpec => []UringIInv
BY UringIStarts, UringIStep, PTL DEF UringSpec

LEMMA RequestSizes ==
  /\ Cardinality({}) = 0
  /\ \A r : Cardinality({r}) = 1
  /\ Cardinality(Requests) = 2
<1>1. Cardinality({}) = 0 /\ \A r : Cardinality({r}) = 1
  BY FS_EmptySet, FS_Singleton
<1>2. Cardinality({"send"} \cup {"recv"}) = 2
  <2>1. IsFiniteSet({"send"}) /\ Cardinality({"send"}) = 1
    BY FS_Singleton
  <2>2. "recv" \notin {"send"}
    OBVIOUS
  <2>3. QED
    BY <2>1, <2>2, FS_AddElement
<1>3. Requests = {"send"} \cup {"recv"}
  BY DEF Requests
<1>4. QED
  BY <1>1, <1>2, <1>3

\* What the requests of a connection come to.
LEMMA UringCounts ==
  ASSUME NEW c \in Conns, UringAt(c)
  PROVE  LET kind == IF pc[c] = "wait_recv" THEN {"recv"}
                     ELSE IF pc[c] = "wait_send" THEN {"send"} ELSE {}
         IN  /\ sq[c] \cup inflight[c] \subseteq kind
             /\ Entries(c) = Cardinality(kind) /\ Entries(c) <= 2
<1>1. CASE pc[c] = "wait_recv" \/ pc[c] = "wait_send"
  <2>1. PICK r \in {"recv", "send"} :
          /\ pc[c] = "wait_recv" <=> r = "recv"
          /\ Pending(c, r) \/ Complete(c, TRUE) \/ Complete(c, FALSE)
    BY <1>1 DEF UringAt, Shaking
  <2>2. sq[c] \cup inflight[c] \subseteq {r}
    BY <2>1 DEF Pending, Complete
  <2>3. Entries(c) = 1
    <3>1. CASE Pending(c, r)
      <4>1. Cardinality({r}) = 1 /\ Cardinality({}) = 0 /\ Len(cq[c]) = 0
        BY <3>1, RequestSizes DEF Pending
      <4>2. Cardinality(sq[c]) + Cardinality(inflight[c]) = 1
        <5>1. \/ Cardinality(sq[c]) = 1 /\ Cardinality(inflight[c]) = 0
              \/ Cardinality(sq[c]) = 0 /\ Cardinality(inflight[c]) = 1
          BY Zenon, <3>1, <4>1 DEF Pending
        <5>2. QED
          BY <5>1
      <4>3. QED
        BY <4>1, <4>2 DEF Entries
    <3>2. CASE Complete(c, TRUE) \/ Complete(c, FALSE)
      <4>1. Cardinality({}) = 0 /\ Len(cq[c]) = 1 /\ sq[c] = {} /\ inflight[c] = {}
        BY <3>2, RequestSizes, OneResult DEF Complete
      <4>2. QED
        BY <4>1 DEF Entries
    <3>3. QED
      BY <2>1, <3>1, <3>2
  <2>4. Cardinality({r}) = 1
    BY RequestSizes
  <2>5. CASE r = "recv"
    BY <2>1, <2>2, <2>3, <2>4, <2>5
  <2>6. CASE r = "send"
    BY <1>1, <2>1, <2>2, <2>3, <2>4, <2>6
  <2>7. QED
    BY <2>5, <2>6
<1>2. CASE pc[c] \notin {"wait_recv", "wait_send"}
  <2>1. Idle(c)
    BY <1>2 DEF UringAt, Shaking
  <2>2. sq[c] \cup inflight[c] = {} /\ Entries(c) = 0
    BY <2>1, RequestSizes DEF Idle, Entries
  <2>3. QED
    BY <1>2, <2>2, RequestSizes
<1>3. QED
  BY <1>1, <1>2

LEMMA UringIEchoes == UringIInv => UringEchoInv
<1> SUFFICES ASSUME UringIInv PROVE UringEchoInv
  OBVIOUS
<1>1. UringTypes /\ \A c \in Conns : Talking(c) /\ UringAt(c)
  BY DEF UringIInv, UringSound
<1>2. OneAtATime /\ \A c \in Conns : Entries(c) <= 2
  BY <1>1, UringCounts DEF OneAtATime, Entries
<1>3. UringTypeOK
  BY <1>1, <1>2 DEF UringTypeOK, UringTypes, RingTypeOK, RingEntries
<1>4. EchoOk
  BY <1>1 DEF EchoOk, Talking
<1>5. QED
  BY <1>2, <1>3, <1>4 DEF UringEchoInv

LEMMA UringILoyal ==
  ASSUME UringIInv, MsgUnits <= Capacity
  PROVE  Loyal
<1> SUFFICES ASSUME NEW c \in Conns \ Eager, pc[c] = "done" PROVE client[c] = "gone"
  BY DEF Loyal
<1>1. UringAt(c)
  BY DEF UringIInv, UringSound
<1>2. Excused(c)
  BY <1>1 DEF UringAt, Shaking
<1>3. Capacity \in Nat /\ MsgUnits \in Nat
  BY ThreadAssumption, Sizes
<1>4. QED
  BY <1>2, <1>3 DEF Excused

-----------------------------------------------------------------------------
\* The service of uring.c.

LEMMA UringMapped ==
  ASSUME UringIInv, \A c \in Conns : Cut(c)
  PROVE  \A c \in Conns : Mapped(c)
BY RingMapped DEF UringIInv, UringSound, UringTypes

LEMMA UringServed ==
  ASSUME UringIInv, \A c \in Conns : Cut(c), [UringNext]_uringVars
  PROVE  RingServed
<1>1. CASE \A d \in Conns : RingSame(d)
  BY <1>1, SameRingServes DEF RingServed
<1>2. CASE \E c \in Conns : UringKept(c)
  BY <1>2, RingServes DEF UringIInv, UringKept, UringTypes
<1>3. QED
  BY <1>1, <1>2, UringEvery

LEMMA UringCuts == UringSpec => [](UringIInv /\ \A c \in Conns : Cut(c))
<1>1. UringInit => \A c \in Conns : Cut(c)
  BY RingCuts DEF UringInit
<1>2. UringIInv /\ (\A c \in Conns : Cut(c)) /\ [UringNext]_uringVars => (\A c \in Conns : Cut(c))'
  BY UringServed DEF RingServed
<1>3. QED
  BY <1>1, <1>2, UringAlways, PTL DEF UringSpec

\* The io_uring server does what an echo server promises, for any number of
\* connections and any sizes, however the kernel works its requests off in
\* pieces: it announces once, and then gives back every message once, whole and
\* in order (handle_conn of uring.c, 39-102).
THEOREM UringServes == UringSpec => ServiceSpec
<1>1. UringInit => Service!Init
  BY InitMapped DEF UringInit, RingInit, ThreadInit
<1>2. UringIInv /\ (\A c \in Conns : Cut(c)) => \A c \in Conns : Mapped(c)
  BY UringMapped
<1>3. /\ UringIInv /\ (\A c \in Conns : Cut(c)) /\ [UringNext]_uringVars
      /\ \A c \in Conns : Mapped(c)
      /\ (\A c \in Conns : Mapped(c))'
      => [Service!Next]_(Service!vars)
  BY UringServed, ServiceNext DEF RingServed
<1>4. QED
  BY <1>1, <1>2, <1>3, UringCuts, PTL DEF UringSpec, ServiceSpec, Service!Spec

-----------------------------------------------------------------------------
\* uring2.c: the requests and results of a connection, counted.

Uring2Types == RingTypes({"recv", "submit", "wait", "copy", "copy_early", "astray"}, {"send_buf", "recv_buf"})

LEMMA Counts ==
  ASSUME NEW P, NEW B, RingTypes(P, B), NEW c \in Conns
  PROVE  /\ IsFiniteSet(sq[c]) /\ Cardinality(sq[c]) \in Nat
         /\ IsFiniteSet(inflight[c]) /\ Cardinality(inflight[c]) \in Nat
         /\ Len(cq[c]) \in Nat
         /\ Cardinality(sq[c]) = 0 <=> sq[c] = {}
         /\ Cardinality(inflight[c]) = 0 <=> inflight[c] = {}
<1>1. IsFiniteSet({"send", "recv"})
  <2>1. IsFiniteSet({"send"})
    BY FS_Singleton
  <2>2. IsFiniteSet({"send"} \cup {"recv"})
    BY <2>1, FS_AddElement
  <2>3. {"send"} \cup {"recv"} = {"send", "recv"}
    OBVIOUS
  <2>4. QED
    BY <2>2, <2>3
<1>2. sq[c] \in SUBSET {"send", "recv"} /\ inflight[c] \in SUBSET {"send", "recv"} /\ Len(cq[c]) \in Nat
  BY RingConnType DEF Requests
<1>3. IsFiniteSet(sq[c]) /\ IsFiniteSet(inflight[c])
  BY <1>1, <1>2, FS_Subset
<1>4. QED
  BY <1>2, <1>3, FS_EmptySet, FS_CardinalityType

\* Two results and no more entries: no request is left.
LEMMA BothDone ==
  ASSUME NEW P, NEW B, RingTypes(P, B), NEW c \in Conns, Entries(c) = 2, Len(cq[c]) >= 2
  PROVE  sq[c] = {} /\ inflight[c] = {} /\ Len(cq[c]) = 2
<1> DEFINE a == Cardinality(sq[c])
           b == Cardinality(inflight[c])
           l == Len(cq[c])
<1>1. a \in Nat /\ b \in Nat /\ l \in Nat /\ a + b + l = 2 /\ l >= 2
  BY Counts DEF Entries
<1> HIDE DEF a, b, l
<1>2. a = 0 /\ b = 0 /\ l = 2
  BY <1>1
<1>3. QED
  BY <1>2, Counts DEF a, b, l

\* A request that is done has its result among the entries.
LEMMA EndsCounts ==
  ASSUME NEW P, NEW B, RingTypes(P, B), NEW c \in Conns, NEW r \in inflight[c], NEW ok \in BOOLEAN,
         Ends(c, r, ok), sq'[c] = sq[c]
  PROVE  Entries(c)' = Entries(c)
<1>1. /\ IsFiniteSet(inflight[c]) /\ Cardinality(inflight[c]) \in Nat
      /\ Len(cq[c]) \in Nat /\ Cardinality(sq[c]) \in Nat
  BY Counts
<1>2. Cardinality(inflight'[c]) = Cardinality(inflight[c]) - 1
  BY <1>1, FS_RemoveElement DEF Ends
<1>3. Len(cq'[c]) = Len(cq[c]) + 1
  <2>1. cq[c] \in Seq(BOOLEAN)
    BY RingConnType
  <2>2. QED
    BY <2>1, AppendProperties DEF Ends
<1>4. Entries(c)' = Cardinality(sq[c]) + (Cardinality(inflight[c]) - 1) + (Len(cq[c]) + 1)
  BY <1>2, <1>3 DEF Entries
<1>5. QED
  BY <1>1, <1>4 DEF Entries

LEMMA SameCounts ==
  ASSUME NEW c, sq'[c] = sq[c], inflight'[c] = inflight[c], cq'[c] = cq[c]
  PROVE  /\ Entries(c)' = Entries(c) /\ SomeShort(c)' = SomeShort(c)
         /\ \A r : Requested(c, r)' = Requested(c, r)
BY DEF Entries, SomeShort, Requested

\* The results seen are gone, the entries no more than they were.
LEMMA AdvanceCounts ==
  ASSUME NEW P, NEW B, RingTypes(P, B), NEW c \in Conns, Entries(c) <= 2, Len(cq[c]) <= 2,
         sq'[c] = sq[c], inflight'[c] = inflight[c], cq'[c] = SubSeq(cq[c], 3, Len(cq[c]))
  PROVE  cq'[c] = <<>> /\ Entries(c)' <= 2
<1>1. /\ Cardinality(sq[c]) \in Nat /\ Cardinality(inflight[c]) \in Nat /\ Len(cq[c]) \in Nat
      /\ cq[c] \in Seq(BOOLEAN)
  BY Counts, RingConnType
<1>2. cq'[c] = <<>>
  BY <1>1
<1>3. Entries(c)' = Cardinality(sq[c]) + Cardinality(inflight[c]) + 0
  BY <1>2 DEF Entries
<1>4. QED
  BY <1>1, <1>2, <1>3 DEF Entries

\* A result is short, or it changes nothing.
LEMMA EndsShort ==
  ASSUME NEW P, NEW B, RingTypes(P, B), NEW c \in Conns, NEW r, NEW ok \in BOOLEAN, Ends(c, r, ok)
  PROVE  SomeShort(c)' <=> (SomeShort(c) \/ ~ok)
<1>1. cq[c] \in Seq(BOOLEAN) /\ Len(cq[c]) \in Nat /\ cq'[c] = Append(cq[c], ok)
  BY RingConnType DEF Ends
<1>2. /\ Len(cq'[c]) = Len(cq[c]) + 1
      /\ \A i \in 1..Len(cq[c]) : cq'[c][i] = cq[c][i]
      /\ cq'[c][Len(cq[c]) + 1] = ok
  BY <1>1, AppendProperties
<1>3. ASSUME SomeShort(c) PROVE SomeShort(c)'
  <2>1. PICK i \in 1..Len(cq[c]) : ~cq[c][i]
    BY <1>3 DEF SomeShort
  <2>2. i \in 1..Len(cq'[c]) /\ ~cq'[c][i]
    BY <1>1, <1>2, <2>1
  <2>3. QED
    BY <2>2 DEF SomeShort
<1>4. ASSUME ~ok PROVE SomeShort(c)'
  <2>1. Len(cq[c]) + 1 \in 1..Len(cq'[c]) /\ ~cq'[c][Len(cq[c]) + 1]
    BY <1>1, <1>2, <1>4
  <2>2. QED
    BY <2>1 DEF SomeShort
<1>5. ASSUME SomeShort(c)' PROVE SomeShort(c) \/ ~ok
  <2>1. PICK i \in 1..Len(cq'[c]) : ~cq'[c][i]
    BY <1>5 DEF SomeShort
  <2>2. CASE i \in 1..Len(cq[c])
    BY <1>2, <2>1, <2>2 DEF SomeShort
  <2>3. CASE i = Len(cq[c]) + 1
    BY <1>2, <2>1, <2>3
  <2>4. QED
    BY <1>1, <1>2, <2>2, <2>3
<1>6. QED
  BY <1>3, <1>4, <1>5

\* What a step of connection c has to establish.
Uring2Kept(c) ==
  /\ Uring2Types' /\ OthersStill(c) /\ Uring2Sound(c)'
  /\ pc[c] # "astray" => Shows(c)

Uring2IInv == Uring2Types /\ \A c \in Conns : Uring2Sound(c)

\* Where the thread is tells how its rings and its buffers stand.
LEMMA Uring2Where ==
  ASSUME NEW c \in Conns, Uring2Sound(c)
  PROVE  /\ pc[c] \in {"none", "send_size", "recv_hello"} => Shaking(c)
         /\ pc[c] = "recv" => Idle(c) /\ Unbegun(c) /\ Level(c)
         /\ pc[c] = "submit" => Idle(c) /\ Unbegun(c) /\ Holds(c, "send_buf", MsgUnits, 0)
         /\ pc[c] = "copy" => Idle(c) /\ Unbegun(c) /\ Holds(c, "recv_buf", MsgUnits, 0)
         /\ pc[c] = "wait" => Entries(c) = 2 /\ (IF SomeShort(c) THEN Excused(c) ELSE Exchanging(c))
         /\ pc[c] = "done" => Excused(c)
         /\ inflight[c] # {} => sq[c] = {} /\ pc[c] \in {"wait", "copy_early", "done", "astray"}
         /\ pc[c] \in {"wait", "copy_early", "done"} => Owing(c)
         /\ pc[c] # "astray" => Talking(c) /\ Owing(c) /\ Uring2At(c)
<1>1. Idle(c) => Owing(c) /\ inflight[c] = {}
  BY DEF Idle, Owing, Requested
<1>2. Shaking(c) => Idle(c) /\ pc[c] \in {"none", "send_size", "recv_hello"}
  BY DEF Shaking
<1>3. /\ pc[c] \in {"none", "send_size", "recv_hello"} => Shaking(c)
      /\ pc[c] = "recv" => Idle(c) /\ Unbegun(c) /\ Level(c)
      /\ pc[c] = "submit" => Idle(c) /\ Unbegun(c) /\ Holds(c, "send_buf", MsgUnits, 0)
      /\ pc[c] = "copy" => Idle(c) /\ Unbegun(c) /\ Holds(c, "recv_buf", MsgUnits, 0)
      /\ pc[c] = "wait" => Entries(c) = 2 /\ (IF SomeShort(c) THEN Excused(c) ELSE Exchanging(c))
      /\ pc[c] = "done" => Excused(c)
  BY <1>2 DEF Uring2Sound, Uring2At
<1>4. pc[c] \in {"wait", "copy_early", "done"} => Owing(c)
  BY <1>2 DEF Uring2Sound, Uring2At
<1>5. pc[c] # "astray" => pc[c] \in {"wait", "copy_early", "done"} \/ Idle(c)
  BY <1>2 DEF Uring2Sound, Uring2At
<1>6. inflight[c] # {} => sq[c] = {}
  BY DEF Uring2Sound, Together, Requests
<1>7. QED
  BY <1>1, <1>3, <1>4, <1>5, <1>6 DEF Uring2Sound

LEMMA SameOwing ==
  ASSUME NEW c, Owing(c), taken'[c] = taken[c], down'[c] = down[c], mem'[c]["send_buf"] = mem[c]["send_buf"],
         spos'[c] = spos[c], Requested(c, "send")' = Requested(c, "send")
  PROVE  Owing(c)'
BY DEF Owing

LEMMA SameTogether ==
  ASSUME NEW c, Together(c), sq'[c] = sq[c], inflight'[c] = inflight[c], cq'[c] = cq[c],
         spos'[c] = spos[c], rpos'[c] = rpos[c]
  PROVE  Together(c)'
BY SameCounts DEF Together

LEMMA SameUring2At ==
  ASSUME NEW c \in Conns, Uring2At(c), taken'[c] = taken[c], down'[c] = down[c], pc'[c] = pc[c], RingStill(c),
         Excused(c) => Excused(c)'
  PROVE  Uring2At(c)'
<1>1. /\ Shaking(c) => Shaking(c)'
      /\ Idle(c) => Idle(c)'
      /\ Unbegun(c) => Unbegun(c)'
      /\ Level(c) => Level(c)'
      /\ Holds(c, "send_buf", MsgUnits, 0) => Holds(c, "send_buf", MsgUnits, 0)'
      /\ Holds(c, "recv_buf", MsgUnits, 0) => Holds(c, "recv_buf", MsgUnits, 0)'
  BY DEF RingStill, Shaking, Idle, Unbegun, Level, Holds
<1>2. Owing(c) => Owing(c)'
  BY DEF RingStill, Owing, Requested
<1>3. Exchanging(c) => Exchanging(c)'
  BY DEF RingStill, Exchanging, Requested
<1>4. Entries(c)' = Entries(c) /\ SomeShort(c)' = SomeShort(c)
  BY SameCounts DEF RingStill
<1>5. QED
  BY <1>1, <1>2, <1>3, <1>4 DEF Uring2At

LEMMA SameUring2Sound ==
  ASSUME NEW d \in Conns, RingSame(d), Uring2Sound(d)
  PROVE  Uring2Sound(d)'
<1>1. ClientStill(d) /\ (Excused(d) => Excused(d)')
  BY StillKeeps DEF RingSame
<1>2. Queued(d)' /\ Together(d)'
  BY <1>1, SameQueued, SameTogether DEF RingSame, RingStill, Uring2Sound
<1>3. pc[d] # "astray" => Talking(d)' /\ Uring2At(d)'
  BY <1>1, SameTalking, SameUring2At DEF RingSame, Uring2Sound
<1>4. QED
  BY <1>2, <1>3 DEF Uring2Sound, RingSame

-----------------------------------------------------------------------------
\* uring2.c: every step keeps every connection sound.

\* A thread that moves on without a word to its client.
LEMMA Uring2Moves ==
  ASSUME NEW c \in Conns, Uring2Sound(c), ClientStill(c), taken'[c] = taken[c], down'[c] = down[c],
         NEW from, NEW to, Goes(c, from, to), from # "none", from # "astray", to # "none",
         Together(c)', to # "astray" => Uring2At(c)'
  PROVE  Uring2Sound(c)' /\ Shows(c)
<1>1. Queued(c)' /\ Talking(c)'
  BY SameQueued, SameTalking DEF Uring2Sound, Goes
<1>2. QED
  BY <1>1 DEF Uring2Sound, Goes, Shows

LEMMA IdleTogether ==
  ASSUME NEW c, Idle(c), Unbegun(c)
  PROVE  Together(c)
BY RequestSizes DEF Idle, Unbegun, Together, Entries

LEMMA ShakingTogether ==
  ASSUME NEW c, RingStill(c), Together(c)
  PROVE  Together(c)'
BY SameTogether DEF RingStill

LEMMA Uring2Accepts ==
  ASSUME Uring2IInv, RingAccept
  PROVE  \E c \in Conns : Uring2Kept(c)
<1>1. Uring2Types /\ Uring2Types'
  BY AcceptEffect DEF Uring2IInv, Uring2Types
<1>2. PICK c \in queue : /\ c \in Conns /\ OthersStill(c)
                         /\ ClientStill(c) /\ taken'[c] = taken[c] /\ down'[c] = down[c]
                         /\ RingStill(c) /\ pc'[c] = "send_size" /\ c \notin queue'
  BY <1>1, AcceptEffect DEF Uring2Types
<1>3. Uring2Sound(c)
  BY <1>2 DEF Uring2IInv
<1>4. pc[c] = "none" /\ Shaking(c) /\ Talking(c)
  BY <1>2, <1>3, Uring2Where DEF Uring2Sound, Queued
<1>5. Shaking(c)'
  BY <1>2, <1>4 DEF Shaking, Idle, Unbegun, RingStill
<1>6. Uring2Sound(c)'
  <2>1. Queued(c)'
    BY <1>2, <1>3 DEF Uring2Sound, Queued, ClientStill
  <2>2. Talking(c)' /\ Together(c)'
    BY <1>2, <1>3, <1>4, SameTalking, ShakingTogether DEF Uring2Sound
  <2>3. QED
    BY <1>5, <2>1, <2>2 DEF Uring2Sound, Uring2At
<1>7. QED
  BY <1>1, <1>2, <1>6 DEF Uring2Kept, Shows

LEMMA Uring2Shakes ==
  ASSUME Uring2Types, NEW c \in Conns, Uring2Sound(c), RingHandshake(c)
  PROVE  Uring2Kept(c)
<1>1. CASE SendSize(c) /\ UNCHANGED ringVars
  <2>1. /\ Uring2Types' /\ OthersStill(c)
        /\ Goes(c, "send_size", "recv_hello") /\ ClientStill(c) /\ RingStill(c)
        /\ taken'[c] = taken[c] /\ down'[c] = down[c] \o Announcement
    BY <1>1, SendSizeEffect DEF Uring2Types
  <2>2. Shaking(c) /\ Len(down[c]) = 0 /\ Talking(c)
    BY <2>1, Uring2Where DEF Goes, Shaking
  <2>3. Talking(c)' /\ Len(down'[c]) = 2
    BY <2>1, <2>2, GreetTalking DEF Uring2Types
  <2>4. Shaking(c)' /\ Together(c)'
    BY <2>1, <2>2, <2>3, SendSizeShakes, ShakingTogether DEF Uring2Sound
  <2>5. Queued(c)'
    BY <2>1, SameQueued DEF Uring2Sound, Goes
  <2>6. client[c] # "idle"
    BY <2>1 DEF Uring2Sound, Queued, Goes
  <2>7. Shows(c)
    BY <2>1, <2>2, <2>6 DEF Shows
  <2>8. QED
    BY <2>1, <2>3, <2>4, <2>5, <2>7 DEF Uring2Kept, Uring2Sound, Uring2At
<1>2. CASE RecvHello(c) /\ UNCHANGED ringVars
  <2>1. /\ Uring2Types' /\ OthersStill(c)
        /\ Goes(c, "recv_hello", "recv") /\ ClientStill(c) /\ RingStill(c)
        /\ taken'[c] = taken[c] + HelloUnits /\ taken'[c] <= up[c] /\ down'[c] = down[c]
    BY <1>2, HelloEffect DEF Uring2Types
  <2>2. Shaking(c) /\ Talking(c)
    BY <2>1, Uring2Where DEF Goes
  <2>3. Idle(c)' /\ Unbegun(c)' /\ Level(c)' /\ Together(c)'
    BY <2>1, <2>2, HelloLevels, ShakingTogether DEF Uring2Sound
  <2>4. Talking(c)'
    <3>1. taken[c] \in Nat
      BY RingConnType DEF Uring2Types
    <3>2. taken'[c] \in Nat /\ taken'[c] >= taken[c]
      BY <2>1, <3>1, Sizes
    <3>3. QED
      BY <2>1, <2>2, <3>2, TakenTalking DEF Uring2Types
  <2>5. Queued(c)'
    BY <2>1, SameQueued DEF Uring2Sound, Goes
  <2>6. pc'[c] = "recv" /\ Shows(c)
    BY <2>1 DEF Goes, Shows
  <2>7. QED
    BY <2>1, <2>3, <2>4, <2>5, <2>6 DEF Uring2Kept, Uring2Sound, Uring2At
<1>3. QED
  BY <1>1, <1>2 DEF RingHandshake, HandshakeStep

\* A thread whose client has gone gives it up.
LEMMA Uring2GivesUp ==
  ASSUME Uring2Types, NEW c \in Conns, Uring2Sound(c), Uring2Ends(c)
  PROVE  Uring2Kept(c)
<1>1. PICK from \in {"send_size", "recv_hello", "recv"} :
        client[c] = "gone" /\ Moves(c, from, "done") /\ UNCHANGED <<clientVars, ringVars>>
  BY DEF Uring2Ends, HandshakeFails, Returns
<1>2. /\ Uring2Types' /\ OthersStill(c) /\ Goes(c, from, "done")
      /\ ClientStill(c) /\ RingStill(c) /\ taken'[c] = taken[c] /\ down'[c] = down[c]
  BY <1>1, PassEffect DEF Uring2Types
<1>3. Idle(c)
  BY <1>2, Uring2Where DEF Goes, Shaking
<1>4. Owing(c)' /\ Together(c)' /\ Excused(c)' /\ pc'[c] = "done"
  BY <1>1, <1>2, <1>3, ShakingTogether DEF Uring2Sound, Idle, Owing, Requested, RingStill, Goes, Excused, ClientStill
<1>5. Uring2At(c)'
  BY <1>4 DEF Uring2At
<1>6. QED
  BY <1>2, <1>4, <1>5, Uring2Moves DEF Uring2Kept

\* The waits that end without two whole results, and the submission.
LEMMA Uring2Gives ==
  ASSUME Uring2Types, NEW c \in Conns, Uring2Sound(c), WaitShort(c)
  PROVE  Uring2Kept(c)
<1>1. Moves(c, "wait", "done") /\ SomeShort(c) /\ UNCHANGED <<clientVars, ringVars>>
  BY DEF WaitShort
<1>2. /\ Uring2Types' /\ OthersStill(c) /\ Goes(c, "wait", "done")
      /\ ClientStill(c) /\ RingStill(c) /\ taken'[c] = taken[c] /\ down'[c] = down[c]
  BY <1>1, PassEffect DEF Uring2Types
<1>3. Excused(c) /\ Owing(c) /\ Together(c)
  BY <1>1, <1>2, Uring2Where DEF Goes, Uring2Sound
<1>4. Owing(c)' /\ Together(c)' /\ Excused(c)' /\ pc'[c] = "done"
  BY <1>2, <1>3, ShakingTogether, StillKeeps DEF Owing, Requested, RingStill, Goes
<1>5. Uring2At(c)'
  BY <1>4 DEF Uring2At
<1>6. QED
  BY <1>2, <1>4, <1>5, Uring2Moves DEF Uring2Kept

LEMMA Uring2Early ==
  ASSUME Uring2Types, NEW c \in Conns, Uring2Sound(c), WaitInterrupted(c)
  PROVE  Uring2Kept(c)
<1>1. Moves(c, "wait", "copy_early") /\ Len(cq[c]) < 2 /\ CqAdvance(c, 2)
  BY DEF WaitInterrupted
<1>2. /\ Uring2Types' /\ OthersStill(c) /\ Goes(c, "wait", "copy_early")
      /\ ClientStill(c) /\ taken'[c] = taken[c] /\ down'[c] = down[c]
      /\ cq'[c] = SubSeq(cq[c], 3, Len(cq[c])) /\ mem'[c] = mem[c]
      /\ sq'[c] = sq[c] /\ inflight'[c] = inflight[c] /\ spos'[c] = spos[c] /\ rpos'[c] = rpos[c]
  <2>1. 2 \in Nat /\ 2 + 1 = 3
    OBVIOUS
  <2>2. QED
    BY <1>1, <2>1, AdvanceEffect DEF Uring2Types
<1>3. Owing(c) /\ Together(c)
  BY <1>2, Uring2Where DEF Goes, Uring2Sound
<1>4. Together(c)'
  <2>1. Entries(c) <= 2 /\ Len(cq[c]) <= 2
    BY <1>1, <1>3, RingConnType DEF Together, Uring2Types
  <2>2. Entries(c)' <= 2
    BY <1>2, <2>1, AdvanceCounts DEF Uring2Types
  <2>3. QED
    BY <1>2, <1>3, <2>2 DEF Together, Requested
<1>5. Owing(c)' /\ pc'[c] = "copy_early"
  BY <1>2, <1>3 DEF Owing, Requested, Goes
<1>6. Uring2At(c)'
  BY <1>5 DEF Uring2At
<1>7. QED
  BY <1>2, <1>4, <1>6, Uring2Moves DEF Uring2Kept

LEMMA Uring2Submits ==
  ASSUME Uring2Types, NEW c \in Conns, Uring2Sound(c), SubmitBoth(c)
  PROVE  Uring2Kept(c)
<1>0. taken[c] \in Nat /\ Len(down[c]) \in Nat /\ Requests \in SUBSET Requests
  BY RingConnType DEF Uring2Types
<1>1. /\ Uring2Types' /\ OthersStill(c) /\ Goes(c, "submit", "wait")
      /\ ClientStill(c) /\ taken'[c] = taken[c] /\ down'[c] = down[c]
      /\ cq'[c] = cq[c] /\ mem'[c] = mem[c] /\ spos'[c] = spos[c] /\ rpos'[c] = rpos[c]
      /\ \/ sq'[c] = sq[c] /\ inflight'[c] = inflight[c] \cup Requests
         \/ sq'[c] = sq[c] \cup Requests /\ inflight'[c] = inflight[c]
  <2>1. /\ Moves(c, "submit", "wait") /\ Submits(c, Requests)
        /\ "wait" \in {"done", "recv_hello"} \cup {"recv", "submit", "wait", "copy", "copy_early", "astray"}
        /\ RingTypes({"recv", "submit", "wait", "copy", "copy_early", "astray"}, {"send_buf", "recv_buf"})
    BY DEF Uring2Types, SubmitBoth
  <2>2. Uring2Types' /\ OthersStill(c) /\ Goes(c, "submit", "wait") /\ Submitted(c, Requests)
    BY <1>0, <2>1, SubmitEffect DEF Uring2Types
  <2>3. QED
    BY <2>2 DEF Submitted
<1> USE Sizes
<1>2. Idle(c) /\ Unbegun(c) /\ Holds(c, "send_buf", MsgUnits, 0)
  BY <1>1, Uring2Where DEF Goes
<1>3. /\ cq'[c] = <<>> /\ spos'[c] = 0 /\ rpos'[c] = 0
      /\ (sq'[c] = {} /\ inflight'[c] = Requests) \/ (sq'[c] = Requests /\ inflight'[c] = {})
  BY <1>1, <1>2 DEF Idle, Unbegun
<1>4. Entries(c)' = 2
  <2>1. Cardinality(sq'[c]) + Cardinality(inflight'[c]) = 2 /\ Len(cq'[c]) = 0
    <3>1. \/ Cardinality(sq'[c]) = 0 /\ Cardinality(inflight'[c]) = 2
          \/ Cardinality(sq'[c]) = 2 /\ Cardinality(inflight'[c]) = 0
      BY <1>3, RequestSizes
    <3>2. QED
      BY <1>3, <3>1
  <2>2. QED
    BY <2>1 DEF Entries
<1>5. Requested(c, "send")' /\ Requested(c, "recv")' /\ ~SomeShort(c)'
  BY <1>3 DEF Requested, SomeShort, Requests
<1>6. Together(c)'
  BY <1>3, <1>4, <1>5 DEF Together
<1>7. /\ taken[c] >= 1 + MsgUnits /\ Len(down[c]) + 1 + MsgUnits = taken[c] + 2
      /\ \A i \in 1..MsgUnits : mem[c]["send_buf"][i] = taken[c] - MsgUnits + i
  BY <1>0, <1>2 DEF Holds
<1>8. Len(down[c]) >= 2 /\ taken[c] - MsgUnits = Len(down[c]) - 1
  BY <1>0, <1>7
<1>9. Owing(c)'
  <2>1. /\ Len(down'[c]) >= 2 + spos'[c] /\ Len(down'[c]) + 1 + MsgUnits <= taken'[c] + 2 + spos'[c]
    BY <1>0, <1>1, <1>3, <1>7, <1>8
  <2>2. ASSUME NEW i \in 1..MsgUnits
        PROVE  mem'[c]["send_buf"][i] + 2 = Len(down'[c]) - spos'[c] + i + 1
    <3>1. mem'[c]["send_buf"][i] = (Len(down[c]) - 1) + i /\ i \in Nat
      BY <1>1, <1>7, <1>8
    <3>2. QED
      BY <1>0, <1>1, <1>3, <3>1
  <2>3. QED
    BY <2>1, <2>2 DEF Owing
<1>10. Exchanging(c)'
  <2>1. /\ taken'[c] >= 1 + MsgUnits + rpos'[c]
        /\ Len(down'[c]) + 1 + MsgUnits + rpos'[c] = taken'[c] + 2 + spos'[c]
    BY <1>0, <1>1, <1>3, <1>7
  <2>2. \A i \in 1..rpos'[c] : mem'[c]["recv_buf"][i] = taken'[c] - rpos'[c] + i
    BY <1>3
  <2>3. QED
    BY <1>5, <2>1, <2>2 DEF Exchanging
<1>11. Uring2At(c)'
  <2>1. pc'[c] = "wait"
    BY <1>1 DEF Goes
  <2>2. QED
    BY <1>4, <1>5, <1>9, <1>10, <2>1 DEF Uring2At
<1>12. QED
  BY <1>1, <1>6, <1>11, Uring2Moves DEF Uring2Kept

LEMMA HalfWay ==
  ASSUME NEW l \in Nat, NEW t \in Nat, NEW m \in Nat, t >= 1 + m + m, l + 1 + m + m = t + 2 + m
  PROVE  t >= 1 + m /\ l + 1 + m = t + 2 + 0
OBVIOUS

LEMMA Uring2Waits ==
  ASSUME Uring2Types, NEW c \in Conns, Uring2Sound(c), WaitBoth(c)
  PROVE  Uring2Kept(c)
<1> USE Sizes
<1>0. taken[c] \in Nat /\ Len(down[c]) \in Nat
  BY RingConnType DEF Uring2Types
<1>1. Moves(c, "wait", "copy") /\ Len(cq[c]) >= 2 /\ ~SomeShort(c) /\ CqAdvance(c, 2)
  BY DEF WaitBoth
<1>2. /\ Uring2Types' /\ OthersStill(c) /\ Goes(c, "wait", "copy")
      /\ ClientStill(c) /\ taken'[c] = taken[c] /\ down'[c] = down[c]
      /\ cq'[c] = SubSeq(cq[c], 3, Len(cq[c])) /\ mem'[c] = mem[c]
      /\ sq'[c] = sq[c] /\ inflight'[c] = inflight[c] /\ spos'[c] = spos[c] /\ rpos'[c] = rpos[c]
  <2>1. 2 \in Nat /\ 2 + 1 = 3
    OBVIOUS
  <2>2. QED
    BY <1>1, <2>1, AdvanceEffect DEF Uring2Types
<1>3. Exchanging(c) /\ Entries(c) = 2 /\ Together(c)
  BY <1>1, <1>2, Uring2Where DEF Goes, Uring2Sound
<1>4. sq[c] = {} /\ inflight[c] = {} /\ Len(cq[c]) = 2
  BY <1>1, <1>3, BothDone DEF Uring2Types
<1>5. cq'[c] = <<>>
  BY <1>2, <1>3, <1>4, AdvanceCounts DEF Uring2Types, Together
<1>6. ~Requested(c, "send") /\ ~Requested(c, "recv")
  BY <1>4 DEF Requested
<1>7. Idle(c)' /\ Unbegun(c)'
  BY <1>2, <1>3, <1>4, <1>5, <1>6 DEF Idle, Unbegun, Together
<1>8. /\ taken[c] >= 1 + MsgUnits + MsgUnits
      /\ Len(down[c]) + 1 + MsgUnits + MsgUnits = taken[c] + 2 + MsgUnits
      /\ \A i \in 1..MsgUnits : mem[c]["recv_buf"][i] = taken[c] - MsgUnits + i
  BY <1>3, <1>6 DEF Exchanging
<1>9. taken[c] >= 1 + MsgUnits /\ Len(down[c]) + 1 + MsgUnits = taken[c] + 2 + 0
  BY <1>0, <1>8, HalfWay
<1>10. Holds(c, "recv_buf", MsgUnits, 0)' /\ pc'[c] = "copy"
  BY <1>2, <1>8, <1>9 DEF Holds, Goes
<1>11. Uring2At(c)' /\ Together(c)'
  <2>1. Together(c)'
    BY <1>7, RequestSizes DEF Idle, Unbegun, Together, Entries
  <2>2. QED
    BY <1>7, <1>10, <2>1 DEF Uring2At
<1>12. QED
  BY <1>2, <1>11, Uring2Moves DEF Uring2Kept

\* A whole message is put into buffer b.
Filled(c, B, b, g) ==
  /\ mem' \in [Conns -> [B -> [1..MsgUnits -> Nat]]]
  /\ mem'[c][b] = g
  /\ \A d \in Conns \ {c} : mem'[d] = mem[d]

LEMMA FillEffect ==
  ASSUME NEW P, NEW B, RingTypes(P, B), NEW c \in Conns, NEW b \in B, NEW g \in [1..MsgUnits -> Nat],
         mem' = [mem EXCEPT ![c][b] = g]
  PROVE  Filled(c, B, b, g)
<1>1. mem \in [Conns -> [B -> [1..MsgUnits -> Nat]]] /\ mem[c] \in [B -> [1..MsgUnits -> Nat]]
  BY DEF RingTypes
<1>2. PICK h : h = [mem[c] EXCEPT ![b] = g]
  OBVIOUS
<1>3. h \in [B -> [1..MsgUnits -> Nat]] /\ h[b] = g
  BY <1>1, <1>2
<1>4. mem' = [mem EXCEPT ![c] = h]
  BY <1>1, <1>2
<1>5. mem' \in [Conns -> [B -> [1..MsgUnits -> Nat]]] /\ mem'[c] = h /\ \A d \in Conns \ {c} : mem'[d] = mem[d]
  BY <1>1, <1>3, <1>4
<1>6. QED
  BY <1>3, <1>5 DEF Filled

LEMMA CopiesEffect ==
  ASSUME Uring2Types, NEW c \in Conns, NEW from, NEW to \in {"submit", "astray"},
         Moves(c, from, to), Copies(c)
  PROVE  /\ Uring2Types' /\ OthersStill(c) /\ Goes(c, from, to)
         /\ ClientStill(c) /\ taken'[c] = taken[c] /\ down'[c] = down[c]
         /\ sq'[c] = sq[c] /\ inflight'[c] = inflight[c] /\ cq'[c] = cq[c]
         /\ spos'[c] = spos[c] /\ rpos'[c] = rpos[c]
         /\ mem'[c]["send_buf"] = mem[c]["recv_buf"]
<1>1. /\ mem' = [mem EXCEPT ![c]["send_buf"] = mem[c]["recv_buf"]]
      /\ UNCHANGED <<clientVars, sq, inflight, cq, spos, rpos>>
  BY DEF Copies
<1>2. /\ Goes(c, from, to)
      /\ pc' \in [Conns -> {"none", "send_size", "recv_hello", "done"}
                             \cup {"recv", "submit", "wait", "copy", "copy_early", "astray"}]
      /\ alive' \in BOOLEAN /\ queue' \in SUBSET Conns /\ open' \in SUBSET Conns
      /\ \A d \in Conns \ {c} : pc'[d] = pc[d]
  BY MovesGoes DEF Uring2Types
<1>3. mem[c]["recv_buf"] \in [1..MsgUnits -> Nat] /\ "send_buf" \in {"send_buf", "recv_buf"}
  BY RingConnType DEF Uring2Types
<1>4. /\ mem' \in [Conns -> [{"send_buf", "recv_buf"} -> [1..MsgUnits -> Nat]]]
      /\ mem'[c]["send_buf"] = mem[c]["recv_buf"]
      /\ \A d \in Conns \ {c} : mem'[d] = mem[d]
  <2>1. RingTypes({"recv", "submit", "wait", "copy", "copy_early", "astray"}, {"send_buf", "recv_buf"})
    BY DEF Uring2Types
  <2>2. Filled(c, {"send_buf", "recv_buf"}, "send_buf", mem[c]["recv_buf"])
    BY <1>1, <1>3, <2>1, FillEffect
  <2>3. QED
    BY <2>2 DEF Filled
<1>5. Uring2Types'
  BY <1>1, <1>2, <1>4 DEF Uring2Types, RingTypes, ThreadTypeOK, ClientTypeOK, clientVars
<1>6. OthersStill(c)
  BY <1>1, <1>2, <1>4 DEF OthersStill, RingSame, ClientStill, RingStill, clientVars, Goes
<1>7. QED
  BY <1>1, <1>2, <1>4, <1>5, <1>6 DEF ClientStill, clientVars

LEMMA Uring2Copies ==
  ASSUME Uring2Types, NEW c \in Conns, Uring2Sound(c), Copy(c) \/ CopyEarly(c)
  PROVE  Uring2Kept(c)
<1>1. PICK from \in {"copy", "copy_early"}, to \in {"submit", "astray"} :
        /\ Moves(c, from, to) /\ Copies(c)
        /\ from = "copy" <=> to = "submit"
  BY DEF Copy, CopyEarly
<1>2. /\ Uring2Types' /\ OthersStill(c) /\ Goes(c, from, to)
      /\ ClientStill(c) /\ taken'[c] = taken[c] /\ down'[c] = down[c]
      /\ sq'[c] = sq[c] /\ inflight'[c] = inflight[c] /\ cq'[c] = cq[c]
      /\ spos'[c] = spos[c] /\ rpos'[c] = rpos[c]
      /\ mem'[c]["send_buf"] = mem[c]["recv_buf"]
  BY <1>1, CopiesEffect
<1>3. Together(c)'
  BY <1>2, SameTogether DEF Uring2Sound
<1>4. ASSUME to = "submit" PROVE Uring2At(c)'
  <2>1. Idle(c) /\ Unbegun(c) /\ Holds(c, "recv_buf", MsgUnits, 0)
    BY <1>1, <1>2, <1>4, Uring2Where DEF Goes
  <2>2. Idle(c)' /\ Unbegun(c)'
    BY <1>2, <2>1 DEF Idle, Unbegun
  <2>3. Holds(c, "send_buf", MsgUnits, 0)'
    BY <1>2, <2>1 DEF Holds
  <2>4. pc'[c] = "submit"
    BY <1>2, <1>4 DEF Goes
  <2>5. QED
    BY <2>2, <2>3, <2>4 DEF Uring2At
<1>5. QED
  BY <1>1, <1>2, <1>3, <1>4, Uring2Moves DEF Uring2Kept

LEMMA FirstPlace ==
  ASSUME NEW l \in Nat, NEW t \in Nat, NEW m \in Nat, t >= 1, l + 1 = t + 2
  PROVE  t + m >= 1 + m /\ l + 1 + m = t + m + 2 + 0
OBVIOUS

LEMMA Uring2First ==
  ASSUME Uring2Types, NEW c \in Conns, Uring2Sound(c), RecvFirst(c)
  PROVE  Uring2Kept(c)
<1> USE Sizes
<1>0. taken[c] \in Nat /\ up[c] \in Nat /\ Len(down[c]) \in Nat /\ MsgUnits \in Nat
  BY RingConnType DEF Uring2Types
<1>1. /\ Moves(c, "recv", "submit") /\ taken[c] + MsgUnits <= up[c]
      /\ taken' = [taken EXCEPT ![c] = taken[c] + MsgUnits]
      /\ mem' = [mem EXCEPT ![c]["send_buf"] = Incoming(c)]
      /\ UNCHANGED <<client, up, down, got, sq, inflight, cq, spos, rpos>>
  BY DEF RecvFirst
<1>2. /\ Goes(c, "recv", "submit")
      /\ pc' \in [Conns -> {"none", "send_size", "recv_hello", "done"}
                             \cup {"recv", "submit", "wait", "copy", "copy_early", "astray"}]
      /\ alive' \in BOOLEAN /\ queue' \in SUBSET Conns /\ open' \in SUBSET Conns
      /\ \A d \in Conns \ {c} : pc'[d] = pc[d]
  <2>1. "submit" \in {"done", "recv_hello"} \cup {"recv", "submit", "wait", "copy", "copy_early", "astray"}
    OBVIOUS
  <2>2. QED
    BY <1>1, <2>1, MovesGoes DEF Uring2Types
<1>3. /\ Incoming(c) \in [1..MsgUnits -> Nat] /\ "send_buf" \in {"send_buf", "recv_buf"}
      /\ \A i \in 1..MsgUnits : Incoming(c)[i] = taken[c] + i
  BY <1>0 DEF Incoming
<1>4. /\ mem' \in [Conns -> [{"send_buf", "recv_buf"} -> [1..MsgUnits -> Nat]]]
      /\ mem'[c]["send_buf"] = Incoming(c)
      /\ \A d \in Conns \ {c} : mem'[d] = mem[d]
  <2>1. RingTypes({"recv", "submit", "wait", "copy", "copy_early", "astray"}, {"send_buf", "recv_buf"})
    BY DEF Uring2Types
  <2>2. Filled(c, {"send_buf", "recv_buf"}, "send_buf", Incoming(c))
    BY <1>1, <1>3, <2>1, FillEffect
  <2>3. QED
    BY <2>2 DEF Filled
<1>5. /\ taken' \in [Conns -> Nat] /\ taken'[c] = taken[c] + MsgUnits
      /\ \A d \in Conns \ {c} : taken'[d] = taken[d]
  <2>1. taken \in [Conns -> Nat] /\ taken[c] + MsgUnits \in Nat
    BY <1>0 DEF Uring2Types, RingTypes, ThreadTypeOK, ClientTypeOK
  <2>2. QED
    BY <1>1, <2>1
<1>6. Uring2Types'
  BY <1>1, <1>2, <1>4, <1>5 DEF Uring2Types, RingTypes, ThreadTypeOK, ClientTypeOK
<1>7. OthersStill(c)
  BY <1>1, <1>2, <1>4, <1>5 DEF OthersStill, RingSame, ClientStill, RingStill, Goes
<1>8. Idle(c) /\ Unbegun(c) /\ Level(c) /\ Talking(c)
  BY <1>2, Uring2Where DEF Goes
<1>9. ClientStill(c) /\ down'[c] = down[c] /\ Idle(c)' /\ Unbegun(c)' /\ Together(c)'
  BY <1>1, <1>8, SameTogether DEF ClientStill, Idle, Unbegun, Uring2Sound
<1>10. Talking(c)'
  <2>1. taken'[c] \in Nat /\ taken'[c] >= taken[c] /\ taken'[c] <= up[c]
    BY <1>0, <1>1, <1>5
  <2>2. QED
    BY <1>8, <1>9, <2>1, TakenTalking DEF Uring2Types
<1>11. Queued(c)'
  <2>1. c \in queue' => c \in queue
    BY <1>2 DEF Goes
  <2>2. QED
    BY <1>2, <1>9, <2>1, SameQueued DEF Uring2Sound, Goes
<1>12. Holds(c, "send_buf", MsgUnits, 0)'
  <2>1. taken[c] >= 1 /\ Len(down[c]) + 1 = taken[c] + 2
    BY <1>8 DEF Level
  <2>2. /\ taken[c] + MsgUnits >= 1 + MsgUnits
        /\ Len(down[c]) + 1 + MsgUnits = taken[c] + MsgUnits + 2 + 0
    BY <1>0, <2>1, FirstPlace
  <2>3. ASSUME NEW i \in 1..MsgUnits PROVE mem'[c]["send_buf"][i] = taken'[c] - MsgUnits + i
    <3>1. mem'[c]["send_buf"][i] = taken[c] + i /\ taken'[c] = taken[c] + MsgUnits /\ i \in Nat
      BY <1>3, <1>4, <1>5
    <3>2. QED
      BY <1>0, <3>1
  <2>4. QED
    BY <1>5, <1>9, <2>2, <2>3 DEF Holds
<1>13. pc'[c] = "submit" /\ Shows(c)
  BY <1>2, <1>9 DEF Goes, Shows
<1>14. QED
  BY <1>6, <1>7, <1>9, <1>10, <1>11, <1>12, <1>13 DEF Uring2Kept, Uring2Sound, Uring2At

LEMMA Uring2World ==
  ASSUME Uring2Types, NEW c \in Conns, Uring2Sound(c), World(c)
  PROVE  Uring2Kept(c)
<1>1. /\ Uring2Types' /\ OthersStill(c)
      /\ taken'[c] = taken[c] /\ down'[c] = down[c] /\ pc'[c] = pc[c] /\ RingStill(c)
      /\ Shows(c)
  BY WorldEffect DEF Uring2Types, Shows
<1>2. Queued(c)' /\ (Excused(c) => Excused(c)') /\ Together(c)'
  BY <1>1, WorldQueued, ShakingTogether DEF Uring2Sound, Uring2Types
<1>3. ASSUME pc[c] # "astray" PROVE Talking(c)' /\ Uring2At(c)'
  <2>1. Talking(c) /\ Uring2At(c)
    BY <1>3 DEF Uring2Sound
  <2>2. Talking(c)'
    BY <2>1, WorldTalking DEF Uring2Types
  <2>3. QED
    BY <1>1, <1>2, <2>1, <2>2, SameUring2At
<1>4. QED
  BY <1>1, <1>2, <1>3 DEF Uring2Kept, Uring2Sound

\* The kernel's steps: a send under way sends what the client is owed, also
\* when its thread has given it up or waits no longer.
OwedNext(l, t, s, m) ==
  /\ l >= 2 /\ l + 1 < t + 2 /\ l - s + (s + 1) + 1 = l + 2
  /\ l + 1 >= 2 + (s + 1) /\ l + 1 + 1 + m <= t + 2 + (s + 1)

LEMMA Shifted == \A l, s, i \in Nat : l - s + i + 1 = (l + 1) - (s + 1) + i + 1
OBVIOUS

LEMMA OwingPlace ==
  ASSUME NEW l \in Nat, NEW t \in Nat, NEW s \in Nat, NEW m \in Nat, s < m,
         l >= 2 + s, l + 1 + m <= t + 2 + s
  PROVE  OwedNext(l, t, s, m)
BY DEF OwedNext

\* A unit sent, and a unit received, while the other request may be under way.
SentNext(l, t, n, s, m) == l + 1 + 1 + m + n = t + 2 + (s + 1)

ReceivedNext(l, t, n, s, m) == t + 1 >= 1 + m + (n + 1) /\ l + 1 + m + (n + 1) = t + 1 + 2 + s

LEMMA ExchangedNext ==
  ASSUME NEW l \in Nat, NEW t \in Nat, NEW n \in Nat, NEW s \in Nat, NEW m \in Nat,
         t >= 1 + m + n, l + 1 + m + n = t + 2 + s
  PROVE  SentNext(l, t, n, s, m) /\ ReceivedNext(l, t, n, s, m)
BY DEF SentNext, ReceivedNext

LEMMA Uring2KernelSends ==
  ASSUME Uring2Types, NEW c \in Conns, Uring2Sound(c), SendStep(c)
  PROVE  Uring2Kept(c)
<1> DEFINE x == mem[c]["send_buf"][spos[c] + 1]
<1>0. /\ taken[c] \in Nat /\ up[c] \in Nat /\ Len(down[c]) \in Nat /\ spos[c] \in Nat /\ spos[c] < MsgUnits
      /\ down[c] \in Seq(Nat) /\ MsgUnits \in Nat
  BY RingConnType, Sizes DEF Uring2Types
<1>1. Uring2Types' /\ OthersStill(c) /\ Sent(c, "send_buf")
  <2>1. /\ RingTypes({"recv", "submit", "wait", "copy", "copy_early", "astray"}, {"send_buf", "recv_buf"})
        /\ "send_buf" \in {"send_buf", "recv_buf"} /\ KSend(c, "send_buf")
    BY DEF Uring2Types, SendStep
  <2>2. QED
    BY <2>1, KSendEffect DEF Uring2Types
<1>2. /\ pc'[c] = pc[c] /\ queue' = queue /\ "send" \in inflight[c]
      /\ ClientStill(c) /\ taken'[c] = taken[c] /\ down'[c] = Append(down[c], x) /\ x \in Nat
      /\ sq'[c] = sq[c] /\ mem'[c] = mem[c] /\ rpos'[c] = rpos[c]
      /\ \/ spos[c] + 1 = MsgUnits /\ spos'[c] = 0 /\ Ends(c, "send", TRUE)
         \/ spos[c] + 1 < MsgUnits /\ spos'[c] = spos[c] + 1 /\ Lasts(c)
  BY <1>1 DEF Sent
<1>3. /\ sq[c] = {} /\ pc[c] \in {"wait", "copy_early", "done", "astray"} /\ Together(c)
      /\ pc[c] # "astray" => Talking(c) /\ Owing(c)
      /\ pc[c] = "wait" => Entries(c) = 2 /\ (IF SomeShort(c) THEN Excused(c) ELSE Exchanging(c))
      /\ pc[c] = "done" => Excused(c)
  BY <1>2, Uring2Where DEF Uring2Sound
<1>4. /\ Entries(c)' = Entries(c) /\ SomeShort(c)' = SomeShort(c)
      /\ Requested(c, "send") /\ Requested(c, "recv")' = Requested(c, "recv")
      /\ IF spos[c] + 1 = MsgUnits THEN ~Requested(c, "send")' ELSE Requested(c, "send")'
      /\ ~Requested(c, "send")' => spos'[c] = 0
  <2>1. CASE spos[c] + 1 = MsgUnits /\ spos'[c] = 0 /\ Ends(c, "send", TRUE)
    <3>1. Entries(c)' = Entries(c) /\ (SomeShort(c)' <=> SomeShort(c))
      BY <1>2, <2>1, EndsCounts, EndsShort DEF Uring2Types
    <3>2. SomeShort(c)' = SomeShort(c)
      BY <3>1 DEF SomeShort
    <3>3. inflight'[c] = inflight[c] \ {"send"} /\ sq'[c] = {}
      BY <1>2, <1>3, <2>1 DEF Ends
    <3>4. QED
      BY <1>2, <1>3, <2>1, <3>1, <3>2, <3>3 DEF Requested
  <2>2. CASE spos[c] + 1 < MsgUnits /\ Lasts(c)
    <3>1. inflight'[c] = inflight[c] /\ cq'[c] = cq[c] /\ spos[c] + 1 # MsgUnits
      BY <1>0, <2>2 DEF Lasts
    <3>2. QED
      BY <1>2, <3>1, SameCounts DEF Requested
  <2>3. QED
    BY <1>2, <2>1, <2>2
<1>5. Together(c)'
  <2>1. sq'[c] = {} /\ Entries(c)' <= 2
    BY <1>2, <1>3, <1>4 DEF Together
  <2>2. ~Requested(c, "send")' => spos'[c] = 0
    BY <1>4
  <2>3. ~Requested(c, "recv")' => rpos'[c] = 0
    BY <1>2, <1>3, <1>4 DEF Together
  <2>4. QED
    BY <2>1, <2>2, <2>3 DEF Together
<1>6. Queued(c)'
  BY <1>2, <1>3, SameQueued DEF Uring2Sound
<1>7. ASSUME pc[c] # "astray" PROVE Talking(c)' /\ Uring2At(c)' /\ Shows(c)
  <2>1. /\ Len(down[c]) >= 2 + spos[c]
        /\ Len(down[c]) + 1 + MsgUnits <= taken[c] + 2 + spos[c]
        /\ \A i \in 1..MsgUnits : mem[c]["send_buf"][i] + 2 = Len(down[c]) - spos[c] + i + 1
    BY <1>3, <1>4, <1>7, Sizes DEF Owing
  <2>2. OwedNext(Len(down[c]), taken[c], spos[c], MsgUnits)
    BY <1>0, <2>1, OwingPlace
  <2>3. x = Len(down[c])
    <3>1. spos[c] + 1 \in 1..MsgUnits
      BY <1>0
    <3>2. x + 2 = Len(down[c]) - spos[c] + (spos[c] + 1) + 1
      BY <2>1, <3>1
    <3>3. x + 2 = Len(down[c]) + 2
      BY <2>2, <3>2 DEF OwedNext
    <3> HIDE DEF x
    <3>4. QED
      BY <1>0, <1>2, <3>3
  <2>4. Talking(c)'
    <3>1. Len(down[c]) >= 2 /\ Len(down[c]) + 1 < taken[c] + 2
      BY <2>2 DEF OwedNext
    <3> HIDE DEF x
    <3>2. QED
      BY <1>2, <1>3, <1>7, <2>3, <3>1, SentTalking DEF Uring2Types
  <2>5. Len(down'[c]) = Len(down[c]) + 1
    BY <1>0, <1>2, AppendProperties
  <2>6. Shows(c)
    <3>1. taken[c] <= up[c] /\ Len(down[c]) + 1 < taken[c] + 2 /\ Len(down[c]) >= 2
      BY <1>3, <1>7, <2>2 DEF Talking, Behind, OwedNext
    <3>2. Len(down'[c]) + 1 <= up[c] + 2
      BY <1>0, <2>5, <3>1
    <3>3. QED
      BY <1>2, <2>5, <3>1, <3>2 DEF Shows
  <2>7. Owing(c)'
    <3>1. CASE spos[c] + 1 = MsgUnits
      BY <1>4, <3>1 DEF Owing
    <3>2. CASE spos[c] + 1 # MsgUnits
      <4>1. spos'[c] = spos[c] + 1
        BY <1>2, <3>2
      <4>2. /\ Len(down'[c]) >= 2 + spos'[c] /\ Len(down'[c]) + 1 + MsgUnits <= taken'[c] + 2 + spos'[c]
        BY <1>2, <2>2, <2>5, <4>1 DEF OwedNext
      <4>3. ASSUME NEW i \in 1..MsgUnits
            PROVE  mem'[c]["send_buf"][i] + 2 = Len(down'[c]) - spos'[c] + i + 1
        <5>1. mem'[c]["send_buf"][i] + 2 = Len(down[c]) - spos[c] + i + 1 /\ i \in Nat
          BY <1>2, <2>1
        <5>2. Len(down[c]) - spos[c] + i + 1 = (Len(down[c]) + 1) - (spos[c] + 1) + i + 1
          <6>1. i \in Nat /\ Len(down[c]) \in Nat /\ spos[c] \in Nat
            BY <1>0, <5>1
          <6>2. QED
            BY <6>1, Shifted
        <5>3. QED
          BY <2>5, <4>1, <5>1, <5>2
      <4>4. QED
        BY <4>2, <4>3, Sizes DEF Owing
    <3>3. QED
      BY <3>1, <3>2
  <2>8. ASSUME pc[c] = "wait", ~SomeShort(c) PROVE Exchanging(c)'
    <3>1. PICK n : n = IF Requested(c, "recv") THEN rpos[c] ELSE MsgUnits
      OBVIOUS
    <3>2. /\ taken[c] >= 1 + MsgUnits + n
          /\ Len(down[c]) + 1 + MsgUnits + n = taken[c] + 2 + spos[c]
          /\ \A i \in 1..n : mem[c]["recv_buf"][i] = taken[c] - n + i
      BY <1>3, <1>4, <2>8, <3>1, Sizes DEF Exchanging
    <3>3. n \in Nat
      BY <1>0, <3>1, RingConnType DEF Uring2Types
    <3>4. n = IF Requested(c, "recv")' THEN rpos'[c] ELSE MsgUnits
      BY <1>2, <1>4, <3>1
    <3>5. Len(down[c]) + 1 + 1 + MsgUnits + n = taken[c] + 2 + (spos[c] + 1)
      <4>1. SentNext(Len(down[c]), taken[c], n, spos[c], MsgUnits)
        BY <1>0, <3>2, <3>3, ExchangedNext
      <4>2. QED
        BY <4>1 DEF SentNext
    <3>6. (IF Requested(c, "send")' THEN spos'[c] ELSE MsgUnits) = spos[c] + 1
      BY <1>0, <1>2, <1>4
    <3>7. QED
      BY <1>2, <2>5, <3>2, <3>4, <3>5, <3>6, Sizes DEF Exchanging
  <2>9. Uring2At(c)'
    <3>1. Excused(c) => Excused(c)'
      BY <1>2, StillKeeps
    <3>2. pc[c] = "wait" => IF SomeShort(c)' THEN Excused(c)' ELSE Exchanging(c)'
      BY <1>3, <1>4, <2>8, <3>1
    <3>3. QED
      BY <1>2, <1>3, <1>4, <1>7, <2>7, <3>1, <3>2 DEF Uring2At
  <2>10. QED
    BY <2>4, <2>6, <2>9
<1>8. QED
  BY <1>1, <1>2, <1>5, <1>6, <1>7 DEF Uring2Kept, Uring2Sound

LEMMA OwedLater ==
  ASSUME NEW l \in Nat, NEW t \in Nat, NEW s \in Nat, NEW m \in Nat, l + 1 + m <= t + 2 + s
  PROVE  l + 1 + m <= t + 1 + 2 + s
OBVIOUS

LEMMA Uring2KernelReceives ==
  ASSUME Uring2Types, NEW c \in Conns, Uring2Sound(c), RecvStep(c)
  PROVE  Uring2Kept(c)
<1>0. /\ taken[c] \in Nat /\ up[c] \in Nat /\ Len(down[c]) \in Nat /\ spos[c] \in Nat
      /\ rpos[c] \in Nat /\ rpos[c] < MsgUnits /\ MsgUnits \in Nat
  BY RingConnType, Sizes DEF Uring2Types
<1>1. /\ Uring2Types' /\ OthersStill(c) /\ Stored(c, "recv_buf")
      /\ \A a \in {"send_buf", "recv_buf"} \ {"recv_buf"} : mem'[c][a] = mem[c][a]
  <2>1. /\ RingTypes({"recv", "submit", "wait", "copy", "copy_early", "astray"}, {"send_buf", "recv_buf"})
        /\ "recv_buf" \in {"send_buf", "recv_buf"} /\ KRecv(c, "recv_buf")
    BY DEF Uring2Types, RecvStep
  <2>2. QED
    BY <2>1, KRecvEffect DEF Uring2Types
<1>2. /\ pc'[c] = pc[c] /\ queue' = queue /\ "recv" \in inflight[c] /\ taken[c] < up[c]
      /\ ClientStill(c) /\ taken'[c] = taken[c] + 1 /\ down'[c] = down[c]
      /\ mem'[c]["send_buf"] = mem[c]["send_buf"]
      /\ mem'[c]["recv_buf"][rpos[c] + 1] = taken[c] + 1
      /\ \A i \in 1..MsgUnits : i # rpos[c] + 1 => mem'[c]["recv_buf"][i] = mem[c]["recv_buf"][i]
      /\ sq'[c] = sq[c] /\ spos'[c] = spos[c]
      /\ \/ rpos[c] + 1 = MsgUnits /\ rpos'[c] = 0 /\ Ends(c, "recv", TRUE)
         \/ rpos[c] + 1 < MsgUnits /\ rpos'[c] = rpos[c] + 1 /\ Lasts(c)
  <2>1. "send_buf" \in {"send_buf", "recv_buf"} \ {"recv_buf"}
    OBVIOUS
  <2>2. QED
    BY <1>1, <2>1 DEF Stored
<1>3. /\ sq[c] = {} /\ pc[c] \in {"wait", "copy_early", "done", "astray"} /\ Together(c)
      /\ pc[c] # "astray" => Talking(c) /\ Owing(c)
      /\ pc[c] = "wait" => Entries(c) = 2 /\ (IF SomeShort(c) THEN Excused(c) ELSE Exchanging(c))
      /\ pc[c] = "done" => Excused(c)
  BY <1>2, Uring2Where DEF Uring2Sound
<1>4. /\ Entries(c)' = Entries(c) /\ SomeShort(c)' = SomeShort(c)
      /\ Requested(c, "recv") /\ Requested(c, "send")' = Requested(c, "send")
      /\ IF rpos[c] + 1 = MsgUnits THEN ~Requested(c, "recv")' ELSE Requested(c, "recv")'
      /\ ~Requested(c, "recv")' => rpos'[c] = 0
  <2>1. CASE rpos[c] + 1 = MsgUnits /\ rpos'[c] = 0 /\ Ends(c, "recv", TRUE)
    <3>1. Entries(c)' = Entries(c) /\ (SomeShort(c)' <=> SomeShort(c))
      BY <1>2, <2>1, EndsCounts, EndsShort DEF Uring2Types
    <3>2. SomeShort(c)' = SomeShort(c)
      BY <3>1 DEF SomeShort
    <3>3. inflight'[c] = inflight[c] \ {"recv"} /\ sq'[c] = {}
      BY <1>2, <1>3, <2>1 DEF Ends
    <3>4. QED
      BY <1>2, <1>3, <2>1, <3>1, <3>2, <3>3 DEF Requested
  <2>2. CASE rpos[c] + 1 < MsgUnits /\ Lasts(c)
    <3>1. inflight'[c] = inflight[c] /\ cq'[c] = cq[c] /\ rpos[c] + 1 # MsgUnits
      BY <1>0, <2>2 DEF Lasts
    <3>2. QED
      BY <1>2, <3>1, SameCounts DEF Requested
  <2>3. QED
    BY <1>2, <2>1, <2>2
<1>5. Together(c)'
  <2>1. sq'[c] = {} /\ Entries(c)' <= 2
    BY <1>2, <1>3, <1>4 DEF Together
  <2>2. ~Requested(c, "recv")' => rpos'[c] = 0
    BY <1>4
  <2>3. ~Requested(c, "send")' => spos'[c] = 0
    BY <1>2, <1>3, <1>4 DEF Together
  <2>4. QED
    BY <2>1, <2>2, <2>3 DEF Together
<1>6. Queued(c)' /\ Shows(c)
  BY <1>2, <1>3, SameQueued DEF Uring2Sound, Shows
<1>7. ASSUME pc[c] # "astray" PROVE Talking(c)' /\ Uring2At(c)'
  <2>1. Talking(c)'
    <3>1. taken'[c] \in Nat /\ taken'[c] >= taken[c] /\ taken'[c] <= up[c]
      BY <1>0, <1>2
    <3>2. QED
      BY <1>2, <1>3, <1>7, <3>1, TakenTalking DEF Uring2Types
  <2>2. Owing(c)'
    <3> SUFFICES ASSUME Requested(c, "send")' PROVE Owing(c)'
      BY DEF Owing
    <3>1. /\ Len(down[c]) >= 2 + spos[c]
          /\ Len(down[c]) + 1 + MsgUnits <= taken[c] + 2 + spos[c]
          /\ \A i \in 1..MsgUnits : mem[c]["send_buf"][i] + 2 = Len(down[c]) - spos[c] + i + 1
      BY <1>3, <1>4, <1>7, Sizes DEF Owing
    <3>2. Len(down[c]) + 1 + MsgUnits <= taken[c] + 1 + 2 + spos[c]
      BY <1>0, <3>1, OwedLater
    <3>3. QED
      BY <1>2, <3>1, <3>2, Sizes DEF Owing
  <2>3. ASSUME pc[c] = "wait", ~SomeShort(c) PROVE Exchanging(c)'
    <3>1. PICK n : n = IF Requested(c, "send") THEN spos[c] ELSE MsgUnits
      OBVIOUS
    <3>2. /\ taken[c] >= 1 + MsgUnits + rpos[c]
          /\ Len(down[c]) + 1 + MsgUnits + rpos[c] = taken[c] + 2 + n
          /\ \A i \in 1..rpos[c] : mem[c]["recv_buf"][i] = taken[c] - rpos[c] + i
      BY <1>3, <1>4, <2>3, <3>1, Sizes DEF Exchanging
    <3>3. n \in Nat
      BY <1>0, <3>1
    <3>4. n = IF Requested(c, "send")' THEN spos'[c] ELSE MsgUnits
      BY <1>2, <1>4, <3>1
    <3>5. /\ taken[c] + 1 >= 1 + MsgUnits + (rpos[c] + 1)
          /\ Len(down[c]) + 1 + MsgUnits + (rpos[c] + 1) = taken[c] + 1 + 2 + n
      <4>1. ReceivedNext(Len(down[c]), taken[c], rpos[c], n, MsgUnits)
        BY <1>0, <3>2, <3>3, ExchangedNext
      <4>2. QED
        BY <4>1 DEF ReceivedNext
    <3>6. (IF Requested(c, "recv")' THEN rpos'[c] ELSE MsgUnits) = rpos[c] + 1
      BY <1>0, <1>2, <1>4
    <3>7. \A i \in 1..(rpos[c] + 1) : mem'[c]["recv_buf"][i] = taken'[c] - (rpos[c] + 1) + i
      <4> SUFFICES ASSUME NEW i \in 1..(rpos[c] + 1)
                   PROVE  mem'[c]["recv_buf"][i] = taken'[c] - (rpos[c] + 1) + i
        OBVIOUS
      <4>1. CASE i = rpos[c] + 1
        BY <1>0, <1>2, <4>1
      <4>2. CASE i # rpos[c] + 1
        <5>1. i \in 1..rpos[c] /\ i \in 1..MsgUnits
          BY <1>0, <4>2
        <5>2. mem'[c]["recv_buf"][i] = mem[c]["recv_buf"][i] /\ mem[c]["recv_buf"][i] = taken[c] - rpos[c] + i
          BY <1>2, <3>2, <4>2, <5>1
        <5>3. QED
          BY <1>0, <1>2, <5>1, <5>2
      <4>3. QED
        BY <4>1, <4>2
    <3>8. QED
      BY <1>2, <3>4, <3>5, <3>6, <3>7, Sizes DEF Exchanging
  <2>4. Uring2At(c)'
    <3>1. Excused(c) => Excused(c)'
      BY <1>2, StillKeeps
    <3>2. pc[c] = "wait" => IF SomeShort(c)' THEN Excused(c)' ELSE Exchanging(c)'
      BY <1>3, <1>4, <2>3, <3>1
    <3>3. QED
      BY <1>2, <1>3, <1>4, <1>7, <2>2, <3>1, <3>2 DEF Uring2At
  <2>5. QED
    BY <2>1, <2>4
<1>8. QED
  BY <1>1, <1>2, <1>5, <1>6, <1>7 DEF Uring2Kept, Uring2Sound

\* A request completes short, and has an excuse.
LEMMA Uring2KernelFails ==
  ASSUME Uring2Types, NEW c \in Conns, Uring2Sound(c), KernelFails(c)
  PROVE  Uring2Kept(c)
<1>0. /\ taken[c] \in Nat /\ Len(down[c]) \in Nat /\ spos[c] \in Nat /\ spos[c] < MsgUnits
      /\ FALSE \in BOOLEAN
  BY RingConnType DEF Uring2Types
<1>1. /\ Uring2Types' /\ OthersStill(c) /\ pc'[c] = pc[c] /\ queue' = queue
      /\ ClientStill(c) /\ taken'[c] = taken[c] /\ down'[c] = down[c]
      /\ sq'[c] = sq[c] /\ mem'[c] = mem[c]
      /\ \/ /\ "send" \in inflight[c] /\ Ends(c, "send", FALSE)
            /\ (spos[c] > 0 /\ ~Room(c)) \/ client[c] = "gone"
            /\ spos'[c] = 0 /\ rpos'[c] = rpos[c]
         \/ /\ "recv" \in inflight[c] /\ Ends(c, "recv", FALSE)
            /\ client[c] = "gone"
            /\ spos'[c] = spos[c] /\ rpos'[c] = 0
  BY ShortEffect DEF Uring2Types
<1>2. inflight[c] # {}
  BY <1>1
<1>3. /\ sq[c] = {} /\ pc[c] \in {"wait", "copy_early", "done", "astray"} /\ Together(c)
      /\ pc[c] # "astray" => Talking(c) /\ Owing(c)
      /\ pc[c] = "wait" => Entries(c) = 2
      /\ pc[c] = "done" => Excused(c)
  BY <1>2, Uring2Where DEF Uring2Sound
<1>4. /\ Entries(c)' = Entries(c) /\ SomeShort(c)' /\ Together(c)'
      /\ Owing(c) => Owing(c)'
  <2>1. CASE "send" \in inflight[c] /\ Ends(c, "send", FALSE) /\ spos'[c] = 0 /\ rpos'[c] = rpos[c]
    <3>1. Entries(c)' = Entries(c) /\ SomeShort(c)'
      BY <1>0, <1>1, <2>1, EndsCounts, EndsShort DEF Uring2Types
    <3>2. inflight'[c] = inflight[c] \ {"send"} /\ sq'[c] = {}
      BY <1>1, <1>3, <2>1 DEF Ends
    <3>3. ~Requested(c, "send")' /\ Requested(c, "recv")' = Requested(c, "recv")
      BY <1>3, <3>2 DEF Requested
    <3>4. Together(c)'
      BY <1>3, <2>1, <3>1, <3>2, <3>3 DEF Together
    <3>5. Owing(c)'
      BY <3>3 DEF Owing
    <3>6. QED
      BY <3>1, <3>4, <3>5
  <2>2. CASE "recv" \in inflight[c] /\ Ends(c, "recv", FALSE) /\ spos'[c] = spos[c] /\ rpos'[c] = 0
    <3>1. Entries(c)' = Entries(c) /\ SomeShort(c)'
      BY <1>0, <1>1, <2>2, EndsCounts, EndsShort DEF Uring2Types
    <3>2. inflight'[c] = inflight[c] \ {"recv"} /\ sq'[c] = {}
      BY <1>1, <1>3, <2>2 DEF Ends
    <3>3. ~Requested(c, "recv")' /\ Requested(c, "send")' = Requested(c, "send")
      BY <1>3, <3>2 DEF Requested
    <3>4. Together(c)'
      BY <1>3, <2>2, <3>1, <3>2, <3>3 DEF Together
    <3>5. Owing(c) => Owing(c)'
      BY <1>1, <2>2, <3>3, SameOwing
    <3>6. QED
      BY <3>1, <3>4, <3>5
  <2>3. QED
    BY <1>1, <2>1, <2>2
<1>5. ASSUME pc[c] # "astray" PROVE Excused(c)'
  <2>1. CASE client[c] = "gone"
    BY <1>1, <2>1 DEF Excused, ClientStill
  <2>2. CASE "send" \in inflight[c] /\ ~Room(c)
    <3>1. Requested(c, "send") /\ Owing(c) /\ Talking(c)
      BY <1>3, <1>5, <2>2 DEF Requested
    <3>2. Len(down[c]) >= 2 + spos[c] /\ Len(down[c]) + 1 + MsgUnits <= taken[c] + 2 + spos[c]
      BY <3>1, Sizes DEF Owing
    <3>3. c \in Eager \/ ~(MsgUnits <= Capacity)
      BY <2>2, <3>1, <3>2, InStepRoom DEF Uring2Types
    <3>4. Capacity \in Nat /\ MsgUnits \in Nat
      BY ThreadAssumption, Sizes
    <3>5. Excused(c)
      BY <3>3, <3>4 DEF Excused
    <3>6. QED
      BY <1>1, <3>5, StillKeeps
  <2>3. QED
    BY <1>1, <2>1, <2>2
<1>6. Queued(c)'
  BY <1>1, <1>3, SameQueued DEF Uring2Sound
<1>7. ASSUME pc[c] # "astray" PROVE Talking(c)' /\ Uring2At(c)'
  <2>1. Talking(c)'
    BY <1>1, <1>3, <1>7, SameTalking
  <2>2. QED
    BY <1>1, <1>3, <1>4, <1>5, <1>7, <2>1 DEF Uring2At
<1>8. QED
  BY <1>1, <1>4, <1>6, <1>7 DEF Uring2Kept, Uring2Sound, Shows

-----------------------------------------------------------------------------

LEMMA Uring2IStarts == Uring2Init => Uring2IInv
<1> USE Sizes
<1> SUFFICES ASSUME Uring2Init PROVE Uring2IInv
  OBVIOUS
<1>1. ThreadInit /\ ClientInit
  BY DEF Uring2Init, RingInit, ThreadInit
<1>2. Uring2Types
  <2>1. ClientTypeOK
    BY <1>1 DEF ClientInit, ClientTypeOK, Stages
  <2>2. ThreadTypeOK({"recv", "submit", "wait", "copy", "copy_early", "astray"})
    BY <1>1, <2>1 DEF ThreadInit, ThreadTypeOK
  <2>3. 0 \in 0..(MsgUnits - 1) /\ <<>> \in Seq(BOOLEAN)
    OBVIOUS
  <2>4. QED
    BY <2>2, <2>3 DEF Uring2Init, RingInit, RingTypes, Uring2Types
<1>3. ASSUME NEW c \in Conns PROVE Uring2Sound(c)
  <2>1. /\ client[c] = "idle" /\ up[c] = 0 /\ taken[c] = 0 /\ got[c] = 0 /\ down[c] = <<>>
        /\ queue = {} /\ pc[c] = "none"
        /\ sq[c] = {} /\ inflight[c] = {} /\ cq[c] = <<>> /\ spos[c] = 0 /\ rpos[c] = 0
    BY <1>1 DEF ClientInit, ThreadInit, Uring2Init, RingInit
  <2>2. Len(down[c]) = 0
    BY <2>1
  <2>3. Idle(c) /\ Unbegun(c)
    BY <2>1 DEF Idle, Unbegun
  <2>4. Queued(c) /\ Shaking(c) /\ Together(c)
    BY <2>1, <2>2, <2>3, IdleTogether DEF Queued, Shaking
  <2>5. down[c] = EchoOf(c, Len(down[c]))
    BY <2>1, <2>2 DEF EchoOf
  <2>6. Talking(c)
    BY <2>1, <2>2, <2>5 DEF Talking, Behind, InStep
  <2>7. QED
    BY <2>4, <2>6 DEF Uring2Sound, Uring2At
<1>4. QED
  BY <1>2, <1>3 DEF Uring2IInv

LEMMA Uring2Stops ==
  ASSUME Uring2IInv, alive' \in BOOLEAN, UNCHANGED <<clientVars, queue, open, pc, ringVars>>
  PROVE  Uring2Types' /\ \A d \in Conns : RingSame(d)
BY StopEffect DEF Uring2IInv, Uring2Types

\* A step keeps one connection sound and leaves the others alone, or all.
LEMMA Uring2Every ==
  ASSUME Uring2IInv, [Uring2Next]_uring2Vars
  PROVE  \/ Uring2Types' /\ \A d \in Conns : RingSame(d)
         \/ \E c \in Conns : Uring2Kept(c)
<1>0. Uring2Types /\ \A c \in Conns : Uring2Sound(c)
  BY DEF Uring2IInv
<1>1. CASE RingAccept
  BY <1>1, Uring2Accepts
<1>2. CASE RingAcceptFail
  BY <1>2, Uring2Stops DEF RingAcceptFail, MainAcceptFail
<1>3. ASSUME NEW c \in Conns,
             \/ Uring2Step(c) \/ Uring2Fails(c)
             \/ SendStep(c) \/ RecvStep(c) \/ KernelFails(c)
             \/ RingConnect(c) \/ RingTalk(c) \/ RingLeave(c)
      PROVE  (Uring2Types' /\ \A d \in Conns : RingSame(d)) \/ Uring2Kept(c)
  <2>1. CASE Uring2Step(c)
    BY <1>0, <2>1, Uring2Shakes, Uring2First, Uring2Submits, Uring2Waits, Uring2Copies DEF Uring2Step
  <2>2. CASE Uring2Ends(c) \/ WaitInterrupted(c) \/ CopyEarly(c) \/ WaitShort(c)
    BY <1>0, <2>2, Uring2GivesUp, Uring2Early, Uring2Copies, Uring2Gives
  <2>3. CASE SqFull(c)
    BY <2>3, Uring2Stops DEF SqFull
  <2>4. CASE SendStep(c) \/ RecvStep(c) \/ KernelFails(c)
    BY <1>0, <2>4, Uring2KernelSends, Uring2KernelReceives, Uring2KernelFails
  <2>5. CASE RingConnect(c) \/ RingTalk(c) \/ RingLeave(c)
    BY <1>0, <2>5, Uring2World DEF World
  <2>6. QED
    BY <1>3, <2>1, <2>2, <2>3, <2>4, <2>5 DEF Uring2Fails
<1>4. CASE UNCHANGED uring2Vars
  <2>1. alive' \in BOOLEAN
    BY <1>0, <1>4 DEF Uring2Types, RingTypes, ThreadTypeOK, uring2Vars, threadVars
  <2>2. QED
    BY <1>4, <2>1, Uring2Stops DEF uring2Vars, threadVars
<1>5. QED
  BY <1>1, <1>2, <1>3, <1>4 DEF Uring2Next

LEMMA Uring2IStep == Uring2IInv /\ [Uring2Next]_uring2Vars => Uring2IInv'
<1> SUFFICES ASSUME Uring2IInv, [Uring2Next]_uring2Vars PROVE Uring2IInv'
  OBVIOUS
<1>1. CASE Uring2Types' /\ \A d \in Conns : RingSame(d)
  BY <1>1, SameUring2Sound DEF Uring2IInv
<1>2. CASE \E c \in Conns : Uring2Kept(c)
  BY <1>2, SameUring2Sound DEF Uring2IInv, Uring2Kept, OthersStill
<1>3. QED
  BY <1>1, <1>2, Uring2Every

LEMMA Uring2IEchoes == Uring2IInv => EchoUnlessAstray
<1> SUFFICES ASSUME Uring2IInv PROVE EchoUnlessAstray
  OBVIOUS
<1>1. Uring2TypeOK
  BY DEF Uring2IInv, Uring2Sound, Together, Uring2Types, Uring2TypeOK, RingTypeOK, RingEntries
<1>2. ASSUME NEW c \in Conns, pc[c] # "astray" PROVE down[c] = EchoOf(c, Len(down[c]))
  BY <1>2 DEF Uring2IInv, Uring2Sound, Talking
<1>3. QED
  BY <1>1, <1>2 DEF EchoUnlessAstray

LEMMA Uring2ILoyal ==
  ASSUME Uring2IInv, MsgUnits <= Capacity
  PROVE  Loyal
<1> SUFFICES ASSUME NEW c \in Conns \ Eager, pc[c] = "done" PROVE client[c] = "gone"
  BY DEF Loyal
<1>1. Excused(c)
  BY Uring2Where DEF Uring2IInv
<1>2. Capacity \in Nat /\ MsgUnits \in Nat
  BY ThreadAssumption, Sizes
<1>3. QED
  BY <1>1, <1>2 DEF Excused

-----------------------------------------------------------------------------
\* Whichever of the two runs.

RingsInv ==
  \/ program = "uring" /\ UringIInv
  \/ program = "uring2" /\ Uring2IInv

LEMMA RingsStep == RingsInv /\ [RingServersNext]_ringServerVars => RingsInv'
<1> SUFFICES ASSUME RingsInv, [RingServersNext]_ringServerVars PROVE RingsInv'
  OBVIOUS
<1>1. CASE program = "uring" /\ UringIInv
  <2>1. [UringNext]_uringVars /\ program' = "uring"
    BY <1>1 DEF RingServersNext, ringServerVars, uringVars
  <2>2. QED
    BY <1>1, <2>1, UringIStep DEF RingsInv
<1>2. CASE program = "uring2" /\ Uring2IInv
  <2>1. [Uring2Next]_uring2Vars /\ program' = "uring2"
    BY <1>2 DEF RingServersNext, ringServerVars, uring2Vars
  <2>2. QED
    BY <1>2, <2>1, Uring2IStep DEF RingsInv
<1>3. QED
  BY <1>1, <1>2 DEF RingsInv

LEMMA RingsAlways == RingServersSpec => []RingsInv
<1>1. RingServersInit => RingsInv
  BY UringIStarts, Uring2IStarts DEF RingServersInit, RingsInv
<1>2. QED
  BY <1>1, RingsStep, PTL DEF RingServersSpec

\* A thread of uring.c has at most the one request it waits for, reads no
\* completion for another, and every unit it sends is the one its client is
\* owed, for any number of connections and any sizes, whichever submissions
\* fail, waits end early and clients leave (handle_conn of uring.c).
THEOREM UringEchoes == RingServersSpec => []UringIntact
<1>1. RingsInv => UringIntact
  BY UringIEchoes DEF RingsInv, UringIntact
<1>2. QED
  BY <1>1, RingsAlways, PTL

\* The queues of uring2.c never hold more than a send and a recv, and a client's
\* stream is its own, unit by unit, although the next message is received while
\* the last one is sent, until a wait that ended early has let the buffers be
\* confused; for any number of connections and any sizes (handle_conn of
\* uring2.c, 60-94).
THEOREM Uring2Echoes == RingServersSpec => []Uring2Intact
<1>1. RingsInv => Uring2Intact
  BY Uring2IEchoes DEF RingsInv, Uring2Intact
<1>2. QED
  BY <1>1, RingsAlways, PTL

\* A client that waits for its replies is given up only once it has left, when
\* the socket buffers hold a message: a send is then never cut short by a full
\* buffer (handle_conn of uring.c, 72-75 and 98-101, and of uring2.c, 85-88).
THEOREM RingsLoyal ==
  ASSUME MsgUnits <= Capacity
  PROVE  RingServersSpec => []Loyal
<1>1. RingsInv => Loyal
  BY UringILoyal, Uring2ILoyal DEF RingsInv
<1>2. QED
  BY <1>1, RingsAlways, PTL

-----------------------------------------------------------------------------
\* The service of uring2.c, while no wait ends early.

Steady == \A c \in Conns : pc[c] \notin {"copy_early", "astray"}

LEMMA SteadyStep ==
  ASSUME ~Interrupts, Uring2IInv, Steady, [Uring2Next]_uring2Vars
  PROVE  Steady'
<1>0. pc \in [Conns -> {"none", "send_size", "recv_hello", "done"}
                         \cup {"recv", "submit", "wait", "copy", "copy_early", "astray"}]
  BY DEF Uring2IInv, Uring2Types, RingTypes, ThreadTypeOK
<1>1. CASE RingAccept
  BY <1>0, <1>1 DEF RingAccept, MainAccept, Steady
<1>2. CASE RingAcceptFail \/ UNCHANGED uring2Vars
  BY <1>2 DEF RingAcceptFail, MainAcceptFail, uring2Vars, threadVars, Steady
<1>3. ASSUME NEW c \in Conns, Uring2Step(c) \/ Uring2Ends(c) \/ WaitShort(c)
      PROVE  Steady'
  <2>1. \E to \in {"recv_hello", "recv", "submit", "wait", "copy", "done"} : pc' = [pc EXCEPT ![c] = to]
    BY <1>3 DEF Uring2Step, RingHandshake, HandshakeStep, SendSize, RecvHello, RecvFirst, SubmitBoth, WaitBoth,
                Copy, Uring2Ends, HandshakeFails, Returns, WaitShort, Moves
  <2>2. QED
    BY <1>0, <2>1 DEF Steady
<1>4. ASSUME NEW c \in Conns, WaitInterrupted(c) \/ CopyEarly(c) PROVE FALSE
  BY <1>4 DEF WaitInterrupted, CopyEarly, Moves, Steady
<1>5. ASSUME NEW c \in Conns, \/ SqFull(c) \/ SendStep(c) \/ RecvStep(c) \/ KernelFails(c)
                              \/ RingConnect(c) \/ RingTalk(c) \/ RingLeave(c)
      PROVE  Steady'
  <2>1. pc' = pc
    BY <1>5 DEF SqFull, SendStep, RecvStep, KernelFails, KSend, KRecv, KSendShort, KRecvShort, RingConnect, Enqueue,
                RingTalk, RingLeave, threadVars
  <2>2. QED
    BY <2>1 DEF Steady
<1>6. QED
  BY <1>1, <1>2, <1>3, <1>4, <1>5 DEF Uring2Next, Uring2Fails

LEMMA Uring2Served ==
  ASSUME Uring2IInv, Steady, \A c \in Conns : Cut(c), [Uring2Next]_uring2Vars
  PROVE  RingServed
<1>1. CASE \A d \in Conns : RingSame(d)
  BY <1>1, SameRingServes DEF RingServed
<1>2. CASE \E c \in Conns : Uring2Kept(c)
  BY <1>2, RingServes DEF Uring2IInv, Uring2Kept, Uring2Types, Steady
<1>3. QED
  BY <1>1, <1>2, Uring2Every

Uring2Kind == Uring2IInv /\ Steady /\ \A c \in Conns : Cut(c)

LEMMA Uring2Cuts ==
  ASSUME ~Interrupts
  PROVE  Uring2Spec => []Uring2Kind
<1>1. Uring2Init => Uring2Kind
  <2>1. Uring2Init => Steady
    BY DEF Uring2Init, RingInit, ThreadInit, Steady
  <2>2. QED
    BY <2>1, Uring2IStarts, RingCuts DEF Uring2Init, Uring2Kind
<1>2. Uring2Kind /\ [Uring2Next]_uring2Vars => Uring2Kind'
  BY Uring2IStep, SteadyStep, Uring2Served DEF RingServed, Uring2Kind
<1>3. QED
  BY <1>1, <1>2, PTL DEF Uring2Spec

\* Where no wait ends early the server with two buffers does what an echo server
\* promises, for any number of connections and any sizes: sending one message
\* while the next is received neither loses, repeats nor mixes them (60-94).
THEOREM Uring2Serves ==
  ASSUME ~Interrupts
  PROVE  Uring2Spec => ServiceSpec
<1>1. Uring2Init => Service!Init
  BY InitMapped DEF Uring2Init, RingInit, ThreadInit
<1>2. Uring2Kind => \A c \in Conns : Mapped(c)
  BY RingMapped DEF Uring2Kind, Uring2IInv, Uring2Sound, Uring2Types, Steady
<1>3. /\ Uring2Kind /\ [Uring2Next]_uring2Vars
      /\ \A c \in Conns : Mapped(c)
      /\ (\A c \in Conns : Mapped(c))'
      => [Service!Next]_(Service!vars)
  BY Uring2Served, ServiceNext DEF RingServed, Uring2Kind
<1>4. QED
  BY <1>1, <1>2, <1>3, Uring2Cuts, PTL DEF Uring2Spec, ServiceSpec, Service!Spec

-----------------------------------------------------------------------------
\* Lengths of streams: whole numbers of messages.

Lengths == {k * MsgUnits : k \in Nat}

LEMMA EightBytes ==
  /\ GoAnnouncement \in [1..4 -> Nat]
  /\ \A i \in 1..4 : GoAnnouncement[i] = 0
<1>1. GoAnnouncement \in Seq(Nat) /\ Len(GoAnnouncement) = 4
  BY DEF GoAnnouncement, Announcement
<1>2. GoAnnouncement \in [1..4 -> Nat]
  BY <1>1, LenProperties
<1>3. \A i \in 1..4 : GoAnnouncement[i] = 0
  BY DEF GoAnnouncement, Announcement
<1>4. QED
  BY <1>2, <1>3

LEMMA LengthsGrow ==
  /\ 0 \in Lengths
  /\ \A a \in Lengths : a \in Nat /\ a + MsgUnits \in Lengths
  /\ \A a, b \in Lengths : a < b => a + MsgUnits <= b
<1> DEFINE M == MsgUnits
<1>0. M \in Nat /\ M >= 1
  BY Sizes
<1> HIDE DEF M
<1>1. 0 = 0 * M /\ \A k \in Nat : k * M \in Nat /\ k * M + M = (k + 1) * M
  BY <1>0
<1>2. ASSUME NEW j \in Nat, NEW k \in Nat, j * M < k * M
      PROVE  j * M + M <= k * M
  <2>1. j < k
    <3>1. CASE k <= j
      <4>1. PICK d \in Nat : j = k + d
        BY <3>1
      <4>2. j * M = k * M + d * M /\ d * M \in Nat /\ k * M \in Nat
        BY <1>0, <4>1
      <4>3. QED
        BY <1>2, <4>2
    <3>2. QED
      BY <3>1
  <2>2. PICK d \in Nat : k = j + 1 + d
    BY <2>1
  <2>3. k * M = j * M + M + d * M /\ d * M \in Nat /\ j * M \in Nat
    BY <1>0, <2>2
  <2>4. QED
    BY <1>0, <2>3
<1>3. QED
  BY <1>1, <1>2 DEF Lengths, M

-----------------------------------------------------------------------------
\* The invariant.

\* Slot i of the stream to a client.
Owed(i) == IF i <= 4 THEN 0 ELSE HelloUnits + i - 4

\* The stream to c is in step with what the goroutine has read.
GoEchoing(c) ==
  /\ \A i \in 1..Len(down[c]) : down[c][i] = Owed(i)
  /\ pc[c] \in {"none", "send_size"} => Len(down[c]) = 0
  /\ pc[c] \in {"none", "send_size", "recv_hello"} => taken[c] = 0
  /\ pc[c] \in {"recv_hello", "recv", "send"} => Len(down[c]) >= 4
  /\ pc[c] \in {"none", "send_size", "recv_hello", "recv"} => pos[c] = 0
  /\ pc[c] = "recv_hello" => Len(down[c]) = 4
  /\ pc[c] = "recv" => taken[c] = HelloUnits + Len(down[c]) - 4
  /\ pc[c] = "send" =>
       /\ taken[c] = HelloUnits + Len(down[c]) - 4 + MsgUnits - pos[c]
       /\ \A i \in 1..MsgUnits : buf[c][i] = HelloUnits + Len(down[c]) - 4 - pos[c] + i

\* A connection waits in the accept queue before it has a goroutine.
GoQueued(c) ==
  /\ client[c] = "idle" => pc[c] = "none" /\ c \notin queue
  /\ c \in queue => pc[c] = "none"

\* Clients write whole messages, and goroutines read them whole.
Pieces(n) == n = 0 \/ n - HelloUnits \in Lengths

GoFramed(c) ==
  /\ Pieces(up[c])
  /\ client[c] \in {"idle", "connected"} => up[c] = 0
  /\ client[c] \in {"hello", "running"} => up[c] # 0
  /\ c \in Whole => Pieces(arrived[c])
  /\ pc[c] \in {"recv", "send"} => taken[c] - HelloUnits \in Lengths
  /\ c \in Whole /\ pc[c] = "done" => client[c] = "gone"

GoGood(c) == GoEchoing(c) /\ GoQueued(c) /\ GoFramed(c)

GoIndInv == GoTypeOK /\ \A c \in Conns : GoGood(c)

\* A stream to which n units are added.
LEMMA Extended ==
  ASSUME NEW s \in Seq(Nat), NEW n \in Nat, NEW t \in [1..n -> Nat],
         \A i \in 1..Len(s) : s[i] = Owed(i),
         \A i \in 1..n : t[i] = Owed(Len(s) + i)
  PROVE  /\ s \o t \in Seq(Nat)
         /\ Len(s \o t) = Len(s) + n
         /\ \A i \in 1..Len(s \o t) : (s \o t)[i] = Owed(i)
<1>1. t \in Seq(Nat) /\ Len(t) = n /\ Len(s) \in Nat
  BY LenProperties
<1>2. s \o t \in Seq(Nat) /\ Len(s \o t) = Len(s) + n
  BY <1>1, ConcatProperties
<1>3. \A i \in 1..(Len(s) + n) :
        (s \o t)[i] = IF i <= Len(s) THEN s[i] ELSE t[i - Len(s)]
  BY <1>1, ConcatProperties
<1>4. ASSUME NEW i \in 1..(Len(s) + n)
      PROVE  (s \o t)[i] = Owed(i)
  <2>1. CASE i <= Len(s)
    BY <1>1, <1>3, <2>1
  <2>2. CASE i > Len(s)
    <3>1. i - Len(s) \in 1..n /\ Len(s) + (i - Len(s)) = i
      BY <1>1, <2>2
    <3>2. t[i - Len(s)] = Owed(i)
      BY <3>1
    <3>3. QED
      BY <1>1, <1>3, <2>2, <3>2
  <2>3. QED
    BY <1>1, <2>1, <2>2
<1>5. QED
  BY <1>2, <1>4

\* The next unit of the message that was read keeps the stream in step.
LEMMA UnitExtends ==
  ASSUME NEW s \in Seq(Nat), Len(s) >= 4, NEW u \in Nat, u = HelloUnits + Len(s) - 4 + 1,
         \A i \in 1..Len(s) : s[i] = Owed(i)
  PROVE  /\ Append(s, u) \in Seq(Nat) /\ Len(Append(s, u)) = Len(s) + 1
         /\ \A i \in 1..Len(Append(s, u)) : Append(s, u)[i] = Owed(i)
<1>1. /\ Append(s, u) \in Seq(Nat) /\ Len(Append(s, u)) = Len(s) + 1 /\ Len(s) \in Nat
      /\ \A i \in 1..Len(s) : Append(s, u)[i] = s[i]
      /\ Append(s, u)[Len(s) + 1] = u
  BY AppendProperties, LenProperties
<1>2. u = Owed(Len(s) + 1)
  BY <1>1, Sizes DEF Owed
<1>3. \A i \in 1..(Len(s) + 1) : i \in 1..Len(s) \/ i = Len(s) + 1
  BY <1>1
<1>4. ASSUME NEW i \in 1..(Len(s) + 1) PROVE Append(s, u)[i] = Owed(i)
  BY <1>1, <1>2, <1>3, <1>4, Zenon
<1>5. QED
  BY <1>1, <1>4

\* The announcement is the first part of the stream.
LEMMA SizeExtends ==
  ASSUME NEW s \in Seq(Nat), Len(s) = 0
  PROVE  /\ s \o GoAnnouncement \in Seq(Nat) /\ Len(s \o GoAnnouncement) = 4
         /\ \A i \in 1..Len(s \o GoAnnouncement) : (s \o GoAnnouncement)[i] = Owed(i)
<1>1. /\ \A i \in 1..Len(s) : s[i] = Owed(i)
      /\ \A i \in 1..4 : GoAnnouncement[i] = Owed(Len(s) + i)
  BY EightBytes DEF Owed
<1>2. Len(s \o GoAnnouncement) = Len(s) + 4 /\ Len(s) + 4 = 4
  BY <1>1, EightBytes, Extended
<1>3. QED
  BY <1>1, <1>2, EightBytes, Extended

LEMMA GoConnType ==
  ASSUME GoTypeOK, NEW c \in Conns
  PROVE  /\ up[c] \in Nat /\ taken[c] \in Nat /\ got[c] \in Nat /\ arrived[c] \in Nat
         /\ taken[c] <= arrived[c] /\ arrived[c] <= up[c]
         /\ down[c] \in Seq(Nat) /\ Len(down[c]) \in Nat
         /\ client[c] \in Stages /\ buf[c] \in [1..MsgUnits -> Nat]
         /\ pos[c] \in 0..(MsgUnits - 1)
         /\ pc[c] \in {"none", "send_size", "recv_hello", "recv", "send", "done"}
<1>1. down[c] \in Seq(Nat)
  BY DEF GoTypeOK, BufTypeOK, ThreadTypeOK, ClientTypeOK
<1>2. Len(down[c]) \in Nat
  BY <1>1, LenProperties
<1>3. QED
  BY <1>1, <1>2 DEF GoTypeOK, BufTypeOK, ThreadTypeOK, ClientTypeOK

\* What a step of another connection leaves alone.
GoSame(d) ==
  /\ client'[d] = client[d] /\ up'[d] = up[d] /\ taken'[d] = taken[d]
  /\ down'[d] = down[d] /\ got'[d] = got[d] /\ arrived'[d] = arrived[d]
  /\ pc'[d] = pc[d] /\ buf'[d] = buf[d] /\ pos'[d] = pos[d]
  /\ d \in queue' => d \in queue

LEMMA GoSameGood ==
  ASSUME NEW d \in Conns, GoGood(d), GoSame(d)
  PROVE  GoGood(d)'
BY DEF GoGood, GoSame, GoEchoing, GoQueued, GoFramed

-----------------------------------------------------------------------------
\* Each step.

LEMMA GoIndInit == GoInit => GoIndInv
BY Sizes, LengthsGrow, GoAssumption, EmptySeq
DEF GoInit, BufInit, ThreadInit, ClientInit, GoIndInv, GoTypeOK, BufTypeOK, ThreadTypeOK, ClientTypeOK, Stages,
    GoGood, GoEchoing, GoQueued, GoFramed, Pieces

\* Reading and writing: the goroutine of c.
LEMMA GoIndHandler ==
  ASSUME GoIndInv, NEW c \in Conns, GoHandlerStep(c) \/ ReadShort(c)
  PROVE  GoIndInv'
<1> USE Sizes
<1>0. /\ GoTypeOK /\ GoGood(c)
      /\ up[c] \in Nat /\ taken[c] \in Nat /\ got[c] \in Nat /\ arrived[c] \in Nat
      /\ taken[c] <= arrived[c] /\ arrived[c] <= up[c]
      /\ down[c] \in Seq(Nat) /\ Len(down[c]) \in Nat
      /\ client[c] \in Stages /\ buf[c] \in [1..MsgUnits -> Nat]
      /\ pos[c] \in 0..(MsgUnits - 1)
  BY GoConnType DEF GoIndInv
<1>8. /\ taken[c] \in Nat /\ arrived[c] \in Nat /\ Len(down[c]) \in Nat
      /\ pos[c] \in Nat /\ pos[c] + 1 <= MsgUnits
  <2>1. taken[c] \in Nat /\ arrived[c] \in Nat /\ Len(down[c]) \in Nat /\ pos[c] \in 0..(MsgUnits - 1)
    BY <1>0, Zenon
  <2>2. QED
    BY SMTT(30), <2>1
<1>1. \A d \in Conns \ {c} : GoSame(d)
  BY <1>0 DEF GoHandlerStep, WriteSize, ReadHello, Read, ReadsMessage, WritePart, WriteRest, WritesUnit, ReadShort,
              Moves, goVars, GoSame,
              GoTypeOK, BufTypeOK, ThreadTypeOK, ClientTypeOK
<1>2. CASE WriteSize(c)
  <2>1. Len(down[c]) = 0 /\ taken[c] = 0
    BY <1>0, <1>2 DEF WriteSize, Moves, GoGood, GoEchoing
  <2>2. down'[c] = down[c] \o GoAnnouncement /\ pc'[c] = "recv_hello" /\ taken'[c] = 0
    BY <1>0, <1>2, <2>1 DEF WriteSize, Moves, GoTypeOK, BufTypeOK, ThreadTypeOK, ClientTypeOK
  <2>3. /\ down'[c] \in Seq(Nat) /\ Len(down'[c]) = 4
        /\ \A i \in 1..Len(down'[c]) : down'[c][i] = Owed(i)
    BY <1>0, <2>1, <2>2, SizeExtends, Zenon
  <2>4. GoTypeOK'
    <3>1. down' \in [Conns -> Seq(Nat)]
      BY <1>0, <1>2, <2>2, <2>3 DEF WriteSize, GoTypeOK, BufTypeOK, ThreadTypeOK, ClientTypeOK
    <3>2. QED
      BY <1>0, <1>2, <3>1 DEF WriteSize, Moves, goVars, GoTypeOK, BufTypeOK, ThreadTypeOK, ClientTypeOK
  <2>5. GoEchoing(c)'
    <3>1. Len(down'[c]) >= 4
      BY <2>3
    <3>2. pos'[c] = 0
      BY <1>0, <1>2 DEF WriteSize, Moves, goVars, GoGood, GoEchoing
    <3>3. QED
      BY <2>2, <2>3, <3>1, <3>2, Zenon DEF GoEchoing
  <2>6. GoQueued(c)' /\ GoFramed(c)'
    BY <1>0, <1>2, <2>2 DEF WriteSize, Moves, goVars, GoGood, GoQueued, GoFramed
  <2>7. QED
    BY <1>1, <2>4, <2>5, <2>6, GoSameGood DEF GoIndInv, GoGood
<1>3. CASE ReadHello(c)
  <2>1. taken'[c] = taken[c] + HelloUnits /\ pc'[c] = "recv"
    BY <1>0, <1>3 DEF ReadHello, Moves, GoTypeOK, BufTypeOK, ThreadTypeOK, ClientTypeOK
  <2>2. GoTypeOK'
    <3>1. taken' \in [Conns -> Nat] /\ \A d \in Conns : arrived[d] \in taken'[d]..up[d]
      BY <1>0, <1>3 DEF ReadHello, GoTypeOK, BufTypeOK, ThreadTypeOK, ClientTypeOK
    <3>2. QED
      BY <1>0, <1>3, <3>1 DEF ReadHello, Moves, goVars, GoTypeOK, BufTypeOK, ThreadTypeOK, ClientTypeOK
  <2>3. GoEchoing(c)'
    <3>1. taken[c] = 0 /\ Len(down[c]) = 4 /\ Len(down[c]) >= 4 /\ down' = down /\ pos'[c] = 0
      BY <1>0, <1>3 DEF ReadHello, Moves, goVars, GoGood, GoEchoing
    <3>2. taken'[c] = HelloUnits + Len(down[c]) - 4
      BY <2>1, <3>1
    <3>3. Len(down'[c]) >= 4 /\ taken'[c] = HelloUnits + Len(down'[c]) - 4
      BY <3>1, <3>2, Zenon
    <3>4. \A i \in 1..Len(down'[c]) : down'[c][i] = Owed(i)
      BY <1>0, <3>1 DEF GoGood, GoEchoing
    <3>5. pc'[c] = "recv"
      BY <2>1
    <3>6. QED
      BY <3>1, <3>3, <3>4, <3>5, Zenon DEF GoEchoing
  <2>4. GoQueued(c)' /\ GoFramed(c)'
    BY <1>0, <1>3, <2>1, LengthsGrow
    DEF ReadHello, Moves, goVars, GoGood, GoEchoing, GoQueued, GoFramed
  <2>5. QED
    BY <1>1, <2>2, <2>3, <2>4, GoSameGood DEF GoIndInv, GoGood
<1>4. CASE Read(c)
  <2>1. /\ taken'[c] = taken[c] + MsgUnits /\ pc'[c] = "send"
        /\ \A i \in 1..MsgUnits : buf'[c][i] = taken[c] + i
    BY <1>0, <1>4 DEF Read, ReadsMessage, Moves, Incoming, GoTypeOK, BufTypeOK, ThreadTypeOK, ClientTypeOK
  <2>2. GoTypeOK'
    <3>1. Incoming(c) \in [1..MsgUnits -> Nat]
      BY <1>0 DEF Incoming
    <3>2. /\ buf' \in [Conns -> [1..MsgUnits -> Nat]] /\ taken' \in [Conns -> Nat]
          /\ \A d \in Conns : arrived[d] \in taken'[d]..up[d]
      BY SMTT(30), <1>0, <1>4, <3>1 DEF Read, ReadsMessage, GoTypeOK, BufTypeOK, ThreadTypeOK, ClientTypeOK
    <3>3. QED
      BY <1>0, <1>4, <3>2 DEF Read, ReadsMessage, Moves, GoTypeOK, BufTypeOK, ThreadTypeOK, ClientTypeOK
  <2>3. GoEchoing(c)'
    <3>1. /\ taken[c] = HelloUnits + Len(down[c]) - 4 /\ Len(down[c]) >= 4 /\ pos[c] = 0
          /\ \A i \in 1..Len(down[c]) : down[c][i] = Owed(i)
      BY <1>0, <1>4 DEF Read, Moves, GoGood, GoEchoing
    <3>2. down' = down /\ pos' = pos
      BY <1>4 DEF Read, ReadsMessage
    <3>3. taken'[c] = HelloUnits + Len(down[c]) - 4 + MsgUnits - 0
      BY SMTT(30), <1>8, <2>1, <3>1
    <3>4. \A i \in 1..MsgUnits : buf'[c][i] = HelloUnits + Len(down[c]) - 4 - 0 + i
      <4>1. HelloUnits + Len(down[c]) - 4 - 0 = taken[c]
        BY SMTT(30), <1>8, <3>1
      <4>2. QED
        BY <2>1, <4>1, Zenon
    <3>5. pc'[c] = "send"
      BY <2>1
    <3>6. QED
      BY SMTT(30), <3>1, <3>2, <3>3, <3>4, <3>5 DEF GoEchoing
  <2>4. GoQueued(c)' /\ GoFramed(c)'
    <3>1. (taken[c] - HelloUnits) + MsgUnits \in Lengths
      BY <1>0, <1>4, LengthsGrow DEF Read, ReadsMessage, Moves, GoGood, GoFramed
    <3>2. taken'[c] - HelloUnits = (taken[c] - HelloUnits) + MsgUnits
      BY SMTT(30), <1>8, <2>1
    <3>3. QED
      BY <1>0, <1>4, <2>1, <3>1, <3>2 DEF Read, ReadsMessage, Moves, GoGood, GoQueued, GoFramed
  <2>5. QED
    BY <1>1, <2>2, <2>3, <2>4, GoSameGood DEF GoIndInv, GoGood
<1>5. CASE WritePart(c) \/ WriteRest(c)
  <2>1. /\ down'[c] = Append(down[c], buf[c][pos[c] + 1]) /\ pc[c] = "send"
        /\ buf' = buf /\ taken' = taken /\ arrived' = arrived /\ up' = up /\ client' = client
        /\ queue' = queue
        /\ \/ pc'[c] = "send" /\ pos'[c] = pos[c] + 1
           \/ pc'[c] = "recv" /\ pos'[c] = 0 /\ pos[c] + 1 = MsgUnits
    BY <1>0, <1>5 DEF WritePart, WriteRest, WritesUnit, Moves, GoTypeOK, BufTypeOK, ThreadTypeOK, ClientTypeOK
  <2>2. /\ Len(down[c]) >= 4 /\ taken[c] = HelloUnits + Len(down[c]) - 4 + MsgUnits - pos[c]
        /\ \A i \in 1..Len(down[c]) : down[c][i] = Owed(i)
        /\ \A i \in 1..MsgUnits : buf[c][i] = HelloUnits + Len(down[c]) - 4 - pos[c] + i
    BY <1>0, <2>1 DEF GoGood, GoEchoing
  <2>3. /\ down'[c] \in Seq(Nat) /\ Len(down'[c]) = Len(down[c]) + 1
        /\ \A i \in 1..Len(down'[c]) : down'[c][i] = Owed(i)
    <3>1. pos[c] + 1 \in 1..MsgUnits
      BY SMTT(30), <1>8
    <3>2. PICK u \in Nat : u = buf[c][pos[c] + 1] /\ u = HelloUnits + Len(down[c]) - 4 + 1
      <4>1. buf[c][pos[c] + 1] \in Nat
        BY <1>0, <3>1
      <4>2. buf[c][pos[c] + 1] = HelloUnits + Len(down[c]) - 4 - pos[c] + (pos[c] + 1)
        BY <2>2, <3>1
      <4>3. HelloUnits + Len(down[c]) - 4 - pos[c] + (pos[c] + 1) = HelloUnits + Len(down[c]) - 4 + 1
        BY SMTT(30), <1>8
      <4>4. QED
        BY <4>1, <4>2, <4>3, Zenon
    <3>3. /\ Append(down[c], u) \in Seq(Nat) /\ Len(Append(down[c], u)) = Len(down[c]) + 1
          /\ \A i \in 1..Len(Append(down[c], u)) : Append(down[c], u)[i] = Owed(i)
      BY <1>0, <2>2, <3>2, UnitExtends, Zenon
    <3>4. QED
      BY <2>1, <3>2, <3>3, Zenon
  <2>4. GoTypeOK'
    <3>1. down' \in [Conns -> Seq(Nat)]
      <4>1. PICK t \in Seq(Nat) : t = Append(down[c], buf[c][pos[c] + 1])
        BY <2>1, <2>3, Zenon
      <4>2. down' = [down EXCEPT ![c] = t]
        BY <1>5, <4>1, Zenon DEF WritePart, WriteRest, WritesUnit
      <4>3. QED
        BY <1>0, <4>2 DEF GoTypeOK, ThreadTypeOK, ClientTypeOK
    <3>2. pos' \in [Conns -> 0..(MsgUnits - 1)]
      <4>1. PICK n \in 0..(MsgUnits - 1) : pos' = [pos EXCEPT ![c] = n]
        <5>1. CASE WritePart(c)
          <6>1. pos[c] + 1 \in 0..(MsgUnits - 1)
            <7>1. pos[c] + 1 < MsgUnits
              BY <5>1, Zenon DEF WritePart
            <7>2. QED
              BY SMTT(30), <1>8, <7>1
          <6>2. pos' = [pos EXCEPT ![c] = pos[c] + 1]
            BY <5>1 DEF WritePart
          <6>3. QED
            BY <6>1, <6>2, Zenon
        <5>2. CASE WriteRest(c)
          <6>1. 0 \in 0..(MsgUnits - 1)
            OBVIOUS
          <6>2. QED
            BY <5>2, <6>1, Zenon DEF WriteRest
        <5>3. QED
          BY <1>5, <5>1, <5>2
      <4>2. QED
        BY <1>0, <4>1 DEF GoTypeOK, BufTypeOK
    <3>3. QED
      BY <1>0, <1>5, <3>1, <3>2
      DEF WritePart, WriteRest, WritesUnit, Moves, goVars, GoTypeOK, BufTypeOK, ThreadTypeOK, ClientTypeOK
  <2>5. GoEchoing(c)'
    <3>1. Len(down'[c]) >= 4
      BY SMTT(30), <1>8, <2>2, <2>3
    <3>2. CASE pc'[c] = "send" /\ pos'[c] = pos[c] + 1
      <4>1. /\ taken'[c] = HelloUnits + Len(down'[c]) - 4 + MsgUnits - pos'[c]
            /\ HelloUnits + Len(down[c]) - 4 - pos[c] = HelloUnits + Len(down'[c]) - 4 - pos'[c]
        <5>1. PICK l, p \in Nat : l = Len(down[c]) /\ p = pos[c]
          BY <1>8, Zenon
        <5>2. taken'[c] = HelloUnits + l - 4 + MsgUnits - p
          BY <2>1, <2>2, <5>1, Zenon
        <5>3. Len(down'[c]) = l + 1 /\ pos'[c] = p + 1
          BY <2>3, <3>2, <5>1, Zenon
        <5>4. /\ HelloUnits + l - 4 + MsgUnits - p = HelloUnits + (l + 1) - 4 + MsgUnits - (p + 1)
              /\ HelloUnits + l - 4 - p = HelloUnits + (l + 1) - 4 - (p + 1)
          OBVIOUS
        <5>5. QED
          BY <5>1, <5>2, <5>3, <5>4, Zenon
      <4>2. \A i \in 1..MsgUnits : buf'[c][i] = HelloUnits + Len(down'[c]) - 4 - pos'[c] + i
        BY <2>1, <2>2, <4>1
      <4>3. QED
        BY <2>3, <3>1, <3>2, <4>1, <4>2 DEF GoEchoing
    <3>3. CASE pc'[c] = "recv" /\ pos'[c] = 0 /\ pos[c] + 1 = MsgUnits
      <4>1. taken'[c] = HelloUnits + Len(down'[c]) - 4
        <5>1. PICK l, p \in Nat : l = Len(down[c]) /\ p = pos[c]
          BY <1>8, Zenon
        <5>2. taken'[c] = HelloUnits + l - 4 + MsgUnits - p
          BY <2>1, <2>2, <5>1, Zenon
        <5>3. Len(down'[c]) = l + 1 /\ p + 1 = MsgUnits
          BY <2>3, <3>3, <5>1, Zenon
        <5>4. HelloUnits + l - 4 + MsgUnits - p = HelloUnits + (l + 1) - 4
          BY <5>3
        <5>5. QED
          BY <5>2, <5>3, <5>4, Zenon
      <4>2. QED
        BY SMTT(30), <2>3, <3>1, <3>3, <4>1 DEF GoEchoing
    <3>4. QED
      BY <2>1, <3>2, <3>3
  <2>6. GoQueued(c)' /\ GoFramed(c)'
    BY <1>0, <2>1 DEF GoGood, GoQueued, GoFramed
  <2>7. QED
    BY <1>1, <2>4, <2>5, <2>6, GoSameGood DEF GoIndInv, GoGood
<1>6. CASE ReadShort(c)
  <2>1. pc[c] = "recv" /\ pc'[c] = "done" /\ taken'[c] = arrived[c]
    BY SMTT(30), <1>0, <1>6 DEF ReadShort, Moves, GoTypeOK, BufTypeOK, ThreadTypeOK, ClientTypeOK
  <2>2. GoTypeOK'
    <3>1. taken' \in [Conns -> Nat] /\ \A d \in Conns : arrived[d] \in taken'[d]..up[d]
      BY <1>0, <1>6 DEF ReadShort, GoTypeOK, BufTypeOK, ThreadTypeOK, ClientTypeOK
    <3>2. QED
      BY <1>0, <1>6, <3>1 DEF ReadShort, Moves, goVars, GoTypeOK, BufTypeOK, ThreadTypeOK, ClientTypeOK
  <2>3. c \in Whole => client[c] = "gone"
    <3> SUFFICES ASSUME c \in Whole, client[c] # "gone"
                 PROVE  FALSE
      OBVIOUS
    <3>1. taken[c] < arrived[c] /\ arrived[c] < taken[c] + MsgUnits
      BY <1>0, <1>6 DEF ReadShort
    <3>2. taken[c] - HelloUnits \in Lengths /\ arrived[c] - HelloUnits \in Lengths
      BY <1>0, <2>1, <3>1 DEF GoGood, GoFramed, Pieces
    <3>3. (taken[c] - HelloUnits) + MsgUnits <= arrived[c] - HelloUnits
      <4>1. taken[c] - HelloUnits < arrived[c] - HelloUnits
        BY SMTT(30), <1>8, <3>1
      <4>2. QED
        BY <3>2, <4>1, LengthsGrow
    <3>4. QED
      BY SMTT(30), <1>8, <3>1, <3>3
  <2>4. GoGood(c)'
    BY <1>0, <1>6, <2>1, <2>3 DEF ReadShort, Moves, goVars, GoGood, GoEchoing, GoQueued, GoFramed
  <2>5. QED
    BY <1>1, <2>2, <2>4, GoSameGood DEF GoIndInv
<1>7. QED
  BY <1>2, <1>3, <1>4, <1>5, <1>6 DEF GoHandlerStep

\* The main goroutine, failures and the garbage collector.
LEMMA GoIndMain ==
  ASSUME GoIndInv,
         GoAccept \/ GoAcceptFail \/ \E c \in Conns : Dies(c) \/ Collect(c)
  PROVE  GoIndInv'
<1>1. CASE GoAccept
  <2>1. PICK c \in queue :
          /\ queue' = queue \ {c} /\ open' = open \cup {c}
          /\ pc' = [pc EXCEPT ![c] = "send_size"]
    BY <1>1 DEF GoAccept, MainAccept
  <2>2. c \in Conns /\ pc[c] = "none" /\ GoGood(c)
    BY <2>1 DEF GoIndInv, GoTypeOK, BufTypeOK, ThreadTypeOK, GoGood, GoQueued
  <2>3. GoTypeOK'
    BY <1>1, <2>1, <2>2 DEF GoAccept, MainAccept, goVars, clientVars, GoIndInv, GoTypeOK, BufTypeOK, ThreadTypeOK, ClientTypeOK
  <2>4. pc'[c] = "send_size" /\ c \notin queue' /\ client[c] # "idle"
    BY <2>1, <2>2 DEF GoIndInv, GoTypeOK, BufTypeOK, ThreadTypeOK, GoGood, GoQueued
  <2>5. GoGood(c)'
    BY <1>1, <2>2, <2>4 DEF GoAccept, MainAccept, goVars, clientVars, GoGood, GoEchoing, GoQueued, GoFramed
  <2>6. \A d \in Conns \ {c} : GoSame(d)
    BY <1>1, <2>1 DEF GoAccept, MainAccept, goVars, clientVars, GoSame, GoIndInv, GoTypeOK, BufTypeOK, ThreadTypeOK
  <2>7. QED
    BY <2>3, <2>5, <2>6, GoSameGood DEF GoIndInv
<1>2. CASE GoAcceptFail \/ \E c \in Conns : Dies(c) \/ Collect(c)
  <2>1. GoTypeOK' /\ UNCHANGED <<client, up, taken, down, got, arrived, pc, buf, pos, queue>>
    BY <1>2 DEF GoAcceptFail, MainAcceptFail, Dies, Collect, goVars, clientVars,
                GoIndInv, GoTypeOK, BufTypeOK, ThreadTypeOK, ClientTypeOK
  <2>2. QED
    BY <2>1 DEF GoIndInv, GoGood, GoEchoing, GoQueued, GoFramed
<1>3. QED
  BY <1>1, <1>2

\* What a step of client c does to its own stream.
LEMMA GoClientMovesOn ==
  ASSUME ClientTypeOK, NEW c \in Conns, ClientStep(c) \/ ClientExit(c),
         client[c] \in {"idle", "connected"} => up[c] = 0
  PROVE  /\ ClientTypeOK' /\ taken' = taken /\ down' = down
         /\ up'[c] >= up[c]
         /\ \/ client'[c] = "gone" /\ up'[c] = up[c]
            \/ /\ client[c] \notin {"idle", "gone"} /\ client'[c] \in {"hello", "running"}
               /\ \/ client[c] \in {"hello", "running"} /\ up'[c] \in {up[c], up[c] + MsgUnits}
                  \/ client[c] = "connected" /\ up'[c] = HelloUnits
<1> USE Sizes
<1>1. CASE ClientHello(c)
  BY <1>1 DEF ClientTypeOK, ClientHello, ClientMoves, Stages
<1>2. CASE ClientSize(c)
  BY <1>2 DEF ClientTypeOK, ClientSize, ClientMoves, Stages
<1>3. CASE ClientSend(c)
  BY <1>3 DEF ClientTypeOK, ClientSend
<1>4. CASE ClientRecv(c)
  BY <1>4 DEF ClientTypeOK, ClientRecv
<1>5. CASE ClientExit(c)
  BY <1>5 DEF ClientTypeOK, ClientExit, Stages
<1>6. QED
  BY <1>1, <1>2, <1>3, <1>4, <1>5 DEF ClientStep

\* The network and the client of c.
LEMMA GoIndWorld ==
  ASSUME GoIndInv, NEW c \in Conns, Arrive(c) \/ GoConnect(c) \/ GoTalk(c) \/ GoLeave(c)
  PROVE  GoIndInv'
<1> USE Sizes
<1>0. /\ GoTypeOK /\ GoGood(c)
      /\ up[c] \in Nat /\ taken[c] \in Nat /\ got[c] \in Nat /\ arrived[c] \in Nat
      /\ taken[c] <= arrived[c] /\ arrived[c] <= up[c]
      /\ down[c] \in Seq(Nat) /\ Len(down[c]) \in Nat
      /\ client[c] \in Stages /\ buf[c] \in [1..MsgUnits -> Nat]
      /\ pos[c] \in 0..(MsgUnits - 1)
  BY GoConnType DEF GoIndInv
<1>1. \A d \in Conns \ {c} : GoSame(d)
  BY <1>0 DEF Arrive, GoConnect, Enqueue, GoTalk, GoLeave, ClientConnect, ClientStep, ClientHello, ClientSize,
              ClientSend, ClientRecv, ClientExit, ClientMoves, clientVars, threadVars, goVars,
              GoSame, GoTypeOK, BufTypeOK, ThreadTypeOK, ClientTypeOK
<1>2. CASE Arrive(c)
  <2>1. arrived'[c] = IF c \in Whole THEN up[c] ELSE arrived[c] + 1
    BY <1>0, <1>2 DEF Arrive, GoTypeOK, BufTypeOK
  <2>2. GoTypeOK'
    <3>1. /\ arrived' \in [Conns -> Nat]
          /\ \A d \in Conns : arrived'[d] \in taken[d]..up[d]
      BY <1>0, <1>2, <2>1 DEF Arrive, GoTypeOK, BufTypeOK, ThreadTypeOK, ClientTypeOK
    <3>2. QED
      BY <1>0, <1>2, <3>1 DEF Arrive, threadVars, clientVars, GoTypeOK, BufTypeOK, ThreadTypeOK, ClientTypeOK
  <2>3. GoGood(c)'
    BY <1>0, <1>2, <2>1 DEF Arrive, threadVars, clientVars, GoGood, GoEchoing, GoQueued, GoFramed
  <2>4. QED
    BY <1>1, <2>2, <2>3, GoSameGood DEF GoIndInv
<1>3. CASE GoConnect(c)
  <2>1. client[c] = "idle" /\ client'[c] = "connected" /\ queue' = queue \cup {c}
    BY <1>0, <1>3 DEF GoConnect, Enqueue, ClientConnect, ClientMoves, GoTypeOK, BufTypeOK, ThreadTypeOK, ClientTypeOK
  <2>2. GoTypeOK'
    BY <1>0, <1>3, <2>1 DEF GoConnect, Enqueue, ClientConnect, ClientMoves, goVars, Stages,
                            GoTypeOK, BufTypeOK, ThreadTypeOK, ClientTypeOK
  <2>3. GoGood(c)'
    BY <1>0, <1>3, <2>1 DEF GoConnect, Enqueue, ClientConnect, goVars, GoGood, GoEchoing, GoQueued, GoFramed
  <2>4. QED
    BY <1>1, <2>2, <2>3, GoSameGood DEF GoIndInv
<1>4. CASE GoTalk(c) \/ GoLeave(c)
  <2>1. ClientTypeOK /\ (client[c] \in {"idle", "connected"} => up[c] = 0)
    BY <1>0 DEF GoTypeOK, BufTypeOK, ThreadTypeOK, GoGood, GoFramed
  <2>2. /\ ClientTypeOK' /\ taken' = taken /\ down' = down
        /\ up'[c] >= up[c]
        /\ \/ client'[c] = "gone" /\ up'[c] = up[c]
           \/ /\ client[c] \notin {"idle", "gone"} /\ client'[c] \in {"hello", "running"}
              /\ \/ client[c] \in {"hello", "running"} /\ up'[c] \in {up[c], up[c] + MsgUnits}
                 \/ client[c] = "connected" /\ up'[c] = HelloUnits
    BY <1>4, <2>1, GoClientMovesOn DEF GoTalk, GoLeave
  <2>3. GoTypeOK'
    <3>1. \A d \in Conns : up'[d] >= up[d]
      <4>1. \A d \in Conns : up[d] \in Nat /\ (d # c => up'[d] = up[d])
        BY <1>1, <2>1 DEF GoSame, ClientTypeOK
      <4>2. QED
        BY <2>2, <4>1
    <3>2. UNCHANGED <<alive, queue, open, pc, buf, pos, arrived>>
      BY <1>4 DEF GoTalk, GoLeave, threadVars, goVars
    <3>3. \A d \in Conns : up'[d] \in Nat /\ arrived'[d] \in taken'[d]..up'[d]
      <4>1. \A d \in Conns : up'[d] \in Nat /\ up[d] \in Nat /\ arrived[d] \in taken[d]..up[d]
                              /\ taken[d] \in Nat
        BY <1>0, <2>1, <2>2 DEF GoTypeOK, BufTypeOK, ClientTypeOK
      <4>2. QED
        BY <2>2, <3>1, <3>2, <4>1
    <3>4. QED
      BY <1>0, <2>2, <3>2, <3>3 DEF GoTypeOK, BufTypeOK, ThreadTypeOK
  <2>4. GoEchoing(c)'
    BY <1>0, <1>4, <2>2 DEF GoTalk, GoLeave, threadVars, goVars, GoGood, GoEchoing
  <2>5. GoQueued(c)' /\ GoFramed(c)'
    <3>1. CASE client'[c] = "gone" /\ up'[c] = up[c]
      BY <1>0, <1>4, <2>2, <3>1 DEF GoTalk, GoLeave, threadVars, goVars, GoGood, GoQueued, GoFramed
    <3>2. CASE up'[c] = up[c] /\ client[c] \in {"hello", "running"} /\ client'[c] \in {"hello", "running"}
      BY <1>0, <1>4, <2>2, <3>2 DEF GoTalk, GoLeave, threadVars, goVars, GoGood, GoQueued, GoFramed
    <3>3. CASE client[c] = "connected" /\ client'[c] \in {"hello", "running"} /\ up'[c] = HelloUnits
      <4>1. Pieces(up'[c]) /\ up'[c] # 0
        BY <3>3, LengthsGrow DEF Pieces
      <4>2. QED
        BY <1>0, <1>4, <2>2, <3>3, <4>1 DEF GoTalk, GoLeave, threadVars, goVars, GoGood, GoQueued, GoFramed
    <3>4. CASE /\ client[c] \in {"hello", "running"} /\ client'[c] \in {"hello", "running"}
               /\ up'[c] = up[c] + MsgUnits
      <4>1. (up[c] - HelloUnits) + MsgUnits \in Lengths
        BY <1>0, <3>4, LengthsGrow DEF GoGood, GoFramed, Pieces
      <4>2. up'[c] - HelloUnits = (up[c] - HelloUnits) + MsgUnits /\ up'[c] # 0
        BY <1>0, <3>4
      <4>3. Pieces(up'[c])
        BY <4>1, <4>2 DEF Pieces
      <4>4. QED
        BY <1>0, <1>4, <2>2, <3>4, <4>2, <4>3 DEF GoTalk, GoLeave, threadVars, goVars, GoGood, GoQueued, GoFramed
    <3>5. QED
      BY <2>2, <3>1, <3>2, <3>3, <3>4
  <2>6. QED
    BY <1>1, <2>3, <2>4, <2>5, GoSameGood DEF GoIndInv, GoGood
<1>5. QED
  BY <1>2, <1>3, <1>4

LEMMA GoIndStep == GoIndInv /\ [GoNext]_goServerVars => GoIndInv'
<1> SUFFICES ASSUME GoIndInv, [GoNext]_goServerVars PROVE GoIndInv'
  OBVIOUS
<1>1. CASE UNCHANGED goServerVars
  BY <1>1 DEF goServerVars, clientVars, threadVars, goVars, GoIndInv, GoTypeOK, BufTypeOK, ThreadTypeOK, ClientTypeOK,
              GoGood, GoEchoing, GoQueued, GoFramed
<1>2. QED
  BY <1>1, GoIndHandler, GoIndMain, GoIndWorld DEF GoNext

-----------------------------------------------------------------------------

\* For any number of connections and any size of messages, what a client of
\* go/simple/main.go receives after the eight bytes is its own messages, unit
\* by unit and in order (24-48).
THEOREM GoEchoes == GoSpec => []GoEchoInv
<1>1. GoIndInv => GoEchoInv
  <2>1. Len(GoAnnouncement) = 4
    BY DEF GoAnnouncement, Announcement
  <2>2. QED
    BY <2>1 DEF GoIndInv, GoEchoInv, EchoAfterEight, GoGood, GoEchoing, Owed
<1>2. QED
  BY GoIndInit, GoIndStep, <1>1, PTL DEF GoSpec

\* No goroutine gives up a client that is still there and whose messages
\* arrive in one piece, whatever the other connections do (35-39).
THEOREM GoLoyal == GoSpec => []LoyalToWhole
<1>1. GoIndInv => LoyalToWhole
  BY GoAssumption DEF GoIndInv, LoyalToWhole, GoGood, GoFramed
<1>2. QED
  BY GoIndInit, GoIndStep, <1>1, PTL DEF GoSpec
=============================================================================
