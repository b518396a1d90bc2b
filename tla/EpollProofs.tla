----------------------------- MODULE EpollProofs -----------------------------
(***************************************************************************)
(* Proofs about EpollServer, for any number of threads and connections:    *)
(* the entries of a batch are valid whenever a thread comes to them, what  *)
(* is written is right, no client that behaves is dropped, and the server  *)
(* implements EchoService.                                                 *)
(***************************************************************************)
EXTENDS EpollServer, ServiceProofs, FiniteSetTheorems

-----------------------------------------------------------------------------
\* The invariant.

Greeting(s) == phase[s] \in {"send_size", "recv_hello"}

\* A thread owns the connections of its accept queue, of its epoll instance
\* and the one it greets, and no connection has two owners.
Owned(s) == queue[s] \cup armed[s] \cup (IF Greeting(s) THEN {cur[s]} ELSE {})

Local(s) ==
  /\ \A c \in Owned(s) : client[c] # "idle"
  /\ queue[s] \cap armed[s] = {}
  /\ Greeting(s) => cur[s] \in Conns /\ cur[s] \notin queue[s] \cup armed[s]
  /\ phase[s] = "reply" => cur[s] \in armed[s] /\ cur[s] \notin batch[s]

OwnerInv ==
  /\ \A s, t \in Shards : s # t => Owned(s) \cap Owned(t) = {}
  /\ \A s \in Shards : Local(s)

\* What has been sent, has arrived and has been received.
Stream(c) ==
  /\ client[c] \in {"idle", "connected"} => up[c] = 0
  /\ client[c] = "gone" => arrived[c] <= end[c] /\ end[c] <= up[c]

\* What a thread may rely on when it comes to the entry of c.
Valid(c) == arrived[c] > taken[c] \/ Ended(c)

BatchOk(s) ==
  /\ batch[s] \cap Conns \subseteq armed[s]
  /\ \A c \in batch[s] \cap Conns : Valid(c)
  /\ Listener \in batch[s] => queue[s] # {}

IndInv ==
  /\ TypeOK
  /\ OwnerInv
  /\ \A c \in Conns : Stream(c)
  /\ \A s \in Shards : BatchOk(s)

LEMMA BatchIs == BatchReady <=> \A s \in Shards : BatchOk(s)
BY DEF BatchReady, BatchOk, Valid

-----------------------------------------------------------------------------
\* Type correctness.

LEMMA ConnType ==
  ASSUME TypeOK, NEW c \in Conns
  PROVE  /\ up[c] \in Nat /\ taken[c] \in Nat /\ got[c] \in Nat
         /\ arrived[c] \in Nat /\ end[c] \in Nat
         /\ taken[c] <= arrived[c] /\ arrived[c] <= up[c]
         /\ down[c] \in Seq(Nat) /\ client[c] \in Stages
BY DEF TypeOK, ClientTypeOK

\* What a step of client c does to its own stream and to the others.
LEMMA ClientTypeStep ==
  ASSUME ClientTypeOK, NEW c \in Conns, client[c] \in {"idle", "connected"} => up[c] = 0,
         ClientStep(c) \/ ClientExit(c) \/ ClientConnect(c)
  PROVE  /\ ClientTypeOK' /\ taken' = taken
         /\ \A d \in Conns : up'[d] >= up[d]
         /\ \A d \in Conns : d # c => client'[d] = client[d] /\ up'[d] = up[d]
         /\ client'[c] \in {"idle", "connected"} => up'[c] = 0
         /\ client[c] # "gone" \/ client'[c] = "gone"
         /\ client'[c] # "idle"
<1>1. CASE ClientHello(c)
  BY <1>1 DEF ClientTypeOK, ClientHello, ClientMoves, Stages, HelloUnits
<1>2. CASE ClientSize(c)
  BY <1>2 DEF ClientTypeOK, ClientSize, ClientMoves, Stages, AnnounceUnits
<1>3. CASE ClientSend(c)
  BY <1>3, Sizes DEF ClientTypeOK, ClientSend
<1>4. CASE ClientRecv(c)
  BY <1>4, Sizes DEF ClientTypeOK, ClientRecv
<1>5. CASE ClientExit(c)
  BY <1>5 DEF ClientTypeOK, ClientExit, Stages
<1>6. CASE ClientConnect(c)
  BY <1>6 DEF ClientTypeOK, ClientConnect, ClientMoves, Stages
<1>7. QED
  BY <1>1, <1>2, <1>3, <1>4, <1>5, <1>6 DEF ClientStep

\* The steps of thread s.
ThreadMove(s) == Start(s) \/ ThreadStep(s) \/ EpollWaitFails(s) \/ Killed(s)

LEMMA TypeThread ==
  ASSUME IndInv, NEW s \in Shards, ThreadMove(s)
  PROVE  TypeOK'
<1> USE Sizes
<1>0. TypeOK /\ Local(s) /\ BatchOk(s)
  BY DEF IndInv, OwnerInv
<1>1. CASE Start(s) \/ EndBatch(s) \/ EpollWaitFails(s) \/ Killed(s) \/ AcceptFail(s)
  BY <1>0, <1>1 DEF Start, EndBatch, EpollWaitFails, Killed, AcceptFail, Goes, Exits,
                    clientVars, networkVars, TypeOK, ClientTypeOK, Phases
<1>2. CASE EpollWait(s)
  <2>1. Ready(s) \in SUBSET (Conns \cup {Listener})
    BY <1>0 DEF Ready, TypeOK
  <2>2. QED
    BY <1>0, <1>2, <2>1 DEF EpollWait, Goes, clientVars, networkVars, TypeOK, ClientTypeOK, Phases
<1>3. CASE Accept(s)
  BY <1>0, <1>3 DEF Accept, Goes, clientVars, networkVars, TypeOK, ClientTypeOK, Phases
<1>4. CASE SendSize(s)
  <2>1. cur[s] \in Conns
    BY <1>0, <1>4 DEF SendSize, Goes, Local, Greeting
  <2>2. down[cur[s]] \o Announcement \in Seq(Nat)
    BY <1>0, <2>1 DEF TypeOK, ClientTypeOK, Announcement
  <2>3. down' \in [Conns -> Seq(Nat)]
    BY <1>0, <1>4, <2>1, <2>2 DEF SendSize, TypeOK, ClientTypeOK
  <2>4. QED
    BY <1>0, <1>4, <2>1, <2>3 DEF SendSize, Late, Goes, networkVars, TypeOK, ClientTypeOK, Phases
<1>5. CASE RecvHello(s)
  <2>1. cur[s] \in Conns
    BY <1>0, <1>5 DEF RecvHello, Registers, Goes, Local, Greeting
  <2>2. /\ taken' \in [Conns -> Nat]
        /\ \A c \in Conns : taken'[c] <= arrived[c]
    BY <1>0, <1>5, <2>1 DEF RecvHello, TypeOK, ClientTypeOK
  <2>3. QED
    BY <1>0, <1>5, <2>1, <2>2 DEF RecvHello, Registers, Goes, networkVars, TypeOK, ClientTypeOK, Phases
<1>6. CASE GreetFails(s)
  <2>1. cur[s] \in Conns
    BY <1>0, <1>6 DEF GreetFails, Registers, Goes, Local, Greeting
  <2>2. /\ phase' \in [Shards -> Phases] /\ armed' \in [Shards -> SUBSET Conns]
        /\ UNCHANGED <<clientVars, limit, alive, batch, cur, buf, queue, open, late, networkVars>>
    <3>1. PICK from \in Phases : Registers(s, from) /\ UNCHANGED taken
      BY <1>6 DEF GreetFails, Phases
    <3>2. armed[s] \cup {cur[s]} \in SUBSET Conns
      BY <1>0, <2>1 DEF TypeOK
    <3>3. armed' \in [Shards -> SUBSET Conns]
      BY <1>0, <3>1, <3>2 DEF Registers, TypeOK
    <3>4. phase' \in [Shards -> Phases]
      BY <1>0, <3>1 DEF Registers, Goes, TypeOK, Phases
    <3>5. QED
      BY <3>1, <3>3, <3>4 DEF Registers, Goes, clientVars
  <2>3. QED
    BY <1>0, <2>2 DEF clientVars, networkVars, TypeOK, ClientTypeOK
<1>7. ASSUME NEW c \in Conns, Recv(s, c)
      PROVE  TypeOK'
  <2>1. /\ taken' \in [Conns -> Nat]
        /\ \A d \in Conns : taken'[d] <= arrived[d]
    BY <1>0, <1>7 DEF Recv, TypeOK, ClientTypeOK
  <2>2. [i \in 1..MsgUnits |-> taken[c] + i] \in [1..MsgUnits -> Nat]
    BY <1>0 DEF TypeOK, ClientTypeOK
  <2>3. buf' \in [Shards -> [1..MsgUnits -> Nat]]
    BY <1>0, <1>7, <2>2 DEF Recv, TypeOK
  <2>4. QED
    BY <1>0, <1>7, <2>1, <2>3 DEF Recv, Serves, Goes, networkVars, TypeOK, ClientTypeOK, Phases
<1>8. ASSUME NEW c \in Conns, RecvShort(s, c)
      PROVE  TypeOK'
  <2>1. /\ taken' \in [Conns -> Nat]
        /\ \A d \in Conns : taken'[d] <= arrived[d]
    BY <1>0, <1>8 DEF RecvShort, TypeOK, ClientTypeOK
  <2>2. QED
    BY <1>0, <1>8, <2>1 DEF RecvShort, Serves, Goes, networkVars, TypeOK, ClientTypeOK, Phases
<1>9. CASE Reply(s) \/ ReplyShort(s)
  <2> DEFINE c == cur[s]
  <2>1. c \in Conns /\ down[c] \in Seq(Nat) /\ buf[s] \in Seq(Nat) /\ Len(buf[s]) = MsgUnits
    <3>1. c \in armed[s]
      BY <1>0, <1>9 DEF Reply, ReplyShort, Goes, Local
    <3>2. buf[s] \in [1..MsgUnits -> Nat]
      BY <1>0 DEF TypeOK
    <3>3. QED
      BY <1>0, <3>1, <3>2 DEF TypeOK, ClientTypeOK
  <2>2. client[c] # "gone" /\ Free(c) < MsgUnits => SubSeq(buf[s], 1, Free(c)) \in Seq(Nat)
    <3> SUFFICES ASSUME Free(c) < MsgUnits
                 PROVE  SubSeq(buf[s], 1, Free(c)) \in Seq(Nat)
      OBVIOUS
    <3>1. Free(c) \in Int
      <4>1. Len(down[c]) \in Nat /\ got[c] \in Nat
        BY <1>0, <2>1, LenProperties DEF TypeOK, ClientTypeOK
      <4>2. QED
        BY <4>1, EpollAssumption DEF Free
    <3>2. \A i \in 1..Free(c) : buf[s][i] \in Nat
      <4>1. \A i \in 1..MsgUnits : buf[s][i] \in Nat
        BY <1>0 DEF TypeOK
      <4>2. QED
        BY <3>1, <4>1
    <3>3. QED
      BY <3>1, <3>2, SubSeqProperties
  <2>3. down' \in [Conns -> Seq(Nat)]
    <3>1. down[c] \o buf[s] \in Seq(Nat)
      BY <2>1
    <3>2. ReplyShort(s) => IF client[c] = "gone" THEN TRUE
                           ELSE down[c] \o SubSeq(buf[s], 1, Free(c)) \in Seq(Nat)
      BY <2>1, <2>2, ConcatProperties DEF ReplyShort
    <3>3. QED
      BY <1>0, <1>9, <2>1, <3>1, <3>2 DEF Reply, ReplyShort, TypeOK, ClientTypeOK
  <2>4. /\ phase' \in [Shards -> Phases] /\ armed' \in [Shards -> SUBSET Conns]
        /\ late' \in SUBSET Conns
        /\ UNCHANGED <<client, up, taken, got, limit, alive, batch, cur, buf, queue, open>>
        /\ UNCHANGED networkVars
    <3>1. phase' \in [Shards -> Phases]
      BY <1>0, <1>9 DEF Reply, ReplyShort, Goes, TypeOK, Phases
    <3>2. armed' \in [Shards -> SUBSET Conns]
      <4>1. armed[s] \ {c} \in SUBSET Conns
        BY <1>0 DEF TypeOK
      <4>2. armed' = armed \/ armed' = [armed EXCEPT ![s] = armed[s] \ {c}]
        BY <1>9 DEF Reply, ReplyShort
      <4> HIDE DEF c
      <4>3. QED
        BY <1>0, <4>1, <4>2 DEF TypeOK
    <3>3. late' \in SUBSET Conns
      BY <1>0, <1>9, <2>1 DEF Reply, ReplyShort, Late, TypeOK
    <3>4. QED
      BY <1>9, <3>1, <3>2, <3>3 DEF Reply, ReplyShort, Goes, networkVars
  <2>5. QED
    BY <1>0, <2>3, <2>4 DEF networkVars, TypeOK, ClientTypeOK
<1>10. QED
  BY <1>1, <1>2, <1>3, <1>4, <1>5, <1>6, <1>7, <1>8, <1>9 DEF ThreadMove, ThreadStep

-----------------------------------------------------------------------------
\* A thread's step.

\* What thread s leaves alone: the other threads, and what is not its own.
ThreadFrame(s) ==
  /\ client' = client /\ up' = up /\ arrived' = arrived /\ end' = end
  /\ \A t \in Shards : t # s =>
       /\ phase'[t] = phase[t] /\ batch'[t] = batch[t] /\ cur'[t] = cur[t]
       /\ queue'[t] = queue[t] /\ armed'[t] = armed[t]
  /\ \A c \in Conns : c \notin Owned(s) => taken'[c] = taken[c]

\* What it does to its own: it takes no connection of another.
Keeps(s) == Owned(s)' \subseteq Owned(s) /\ Local(s)' /\ BatchOk(s)'

LEMMA StillKeeps ==
  ASSUME IndInv, NEW s \in Shards,
         UNCHANGED <<client, up, taken, arrived, end, queue, armed, cur>>,
         phase'[s] \notin {"send_size", "recv_hello", "reply"} \/ phase'[s] = phase[s],
         batch'[s] \subseteq batch[s]
  PROVE  Keeps(s)
<1>1. Owned(s)' \subseteq Owned(s)
  BY DEF Owned, Greeting
<1>2. Local(s)'
  BY <1>1 DEF IndInv, OwnerInv, Local, Owned, Greeting
<1>3. BatchOk(s)'
  BY DEF IndInv, BatchOk, Valid, Ended
<1>4. QED
  BY <1>1, <1>2, <1>3 DEF Keeps

LEMMA ThreadKeeps ==
  ASSUME IndInv, NEW s \in Shards, ThreadMove(s)
  PROVE  ThreadFrame(s) /\ Keeps(s)
<1>0. TypeOK /\ Local(s) /\ BatchOk(s)
  BY DEF IndInv, OwnerInv
<1>1. CASE Start(s) \/ EndBatch(s) \/ EpollWaitFails(s) \/ Killed(s) \/ AcceptFail(s)
  <2>1. ThreadFrame(s)
    BY <1>0, <1>1 DEF Start, EndBatch, EpollWaitFails, Killed, AcceptFail, Goes, Exits,
                      clientVars, networkVars, ThreadFrame, TypeOK
  <2>2. Keeps(s)
    BY <1>0, <1>1, StillKeeps
    DEF Start, EndBatch, EpollWaitFails, Killed, AcceptFail, Goes, Exits,
        clientVars, networkVars, TypeOK
  <2>3. QED
    BY <2>1, <2>2
<1>2. CASE EpollWait(s)
  <2>1. ThreadFrame(s)
    BY <1>0, <1>2 DEF EpollWait, Goes, clientVars, networkVars, ThreadFrame, TypeOK
  <2>2. Owned(s)' \subseteq Owned(s)
    BY <1>0, <1>2 DEF EpollWait, Goes, Owned, Greeting, TypeOK
  <2>3. Local(s)'
    BY <1>0, <1>2, <2>1, <2>2 DEF EpollWait, Goes, clientVars, Local, Greeting, TypeOK
  <2>4. BatchOk(s)'
    <3>1. batch'[s] = Ready(s) /\ UNCHANGED <<armed, queue, arrived, taken, client, end>>
      BY <1>0, <1>2 DEF EpollWait, Goes, clientVars, networkVars, TypeOK
    <3>2. QED
      <4>1. armed[s] \subseteq Conns /\ Listener \notin Conns
        BY <1>0, EpollAssumption DEF TypeOK
      <4>2. \A c \in Ready(s) \cap Conns : c \in armed[s] /\ Valid(c)
        BY <4>1 DEF Ready, Valid
      <4>3. Listener \in Ready(s) => queue[s] # {}
        BY <4>1 DEF Ready
      <4>4. QED
        BY <3>1, <4>2, <4>3 DEF BatchOk, Valid, Ended
  <2>5. QED
    BY <2>1, <2>2, <2>3, <2>4 DEF Keeps
<1>3. CASE Accept(s)
  <2>1. PICK c \in queue[s] : /\ cur' = [cur EXCEPT ![s] = c]
                              /\ queue' = [queue EXCEPT ![s] = @ \ {c}]
    BY <1>3 DEF Accept
  <2>2. /\ phase'[s] = "send_size" /\ cur'[s] = c /\ queue'[s] = queue[s] \ {c}
        /\ armed' = armed /\ batch'[s] = batch[s] \ {Listener} /\ c \in Conns
        /\ UNCHANGED <<clientVars, networkVars>> /\ phase[s] = "batch"
    BY <1>0, <1>3, <2>1 DEF Accept, Goes, TypeOK
  <2>3. ThreadFrame(s)
    BY <1>0, <1>3, <2>1 DEF Accept, Goes, clientVars, networkVars, ThreadFrame, TypeOK
  <2>4. Owned(s)' \subseteq Owned(s)
    BY <2>2 DEF Owned, Greeting
  <2>5. Local(s)'
    BY <1>0, <2>2, <2>3, <2>4 DEF ThreadFrame, Local, Greeting, Owned
  <2>6. BatchOk(s)'
    BY <1>0, <2>2 DEF BatchOk, Valid, Ended, clientVars, networkVars
  <2>7. QED
    BY <2>3, <2>4, <2>5, <2>6 DEF Keeps
<1>4. CASE SendSize(s)
  <2>1. ThreadFrame(s)
    BY <1>0, <1>4 DEF SendSize, Goes, networkVars, ThreadFrame, TypeOK
  <2>2. /\ phase[s] = "send_size" /\ phase'[s] = "recv_hello"
        /\ UNCHANGED <<client, taken, batch, cur, queue, armed, arrived, end>>
    BY <1>0, <1>4 DEF SendSize, Goes, networkVars, TypeOK
  <2>3. Owned(s)' \subseteq Owned(s)
    BY <2>2 DEF Owned, Greeting
  <2>4. Local(s)'
    BY <1>0, <2>2, <2>3 DEF Local, Greeting
  <2>5. BatchOk(s)'
    BY <1>0, <2>2 DEF BatchOk, Valid, Ended
  <2>6. QED
    BY <2>1, <2>3, <2>4, <2>5 DEF Keeps
<1>5. CASE RecvHello(s) \/ GreetFails(s)
  <2>1. /\ Greeting(s) /\ phase'[s] = "batch" /\ armed'[s] = armed[s] \cup {cur[s]}
        /\ UNCHANGED <<client, up, batch, cur, queue, arrived, end>>
        /\ \A c \in Conns : c # cur[s] => taken'[c] = taken[c]
        /\ \A t \in Shards : t # s => phase'[t] = phase[t] /\ armed'[t] = armed[t]
    BY <1>0, <1>5 DEF RecvHello, GreetFails, Registers, Goes, Greeting, networkVars,
                      TypeOK, ClientTypeOK
  <2>2. ThreadFrame(s)
    BY <2>1 DEF ThreadFrame, Owned
  <2>3. Owned(s)' \subseteq Owned(s)
    BY <2>1 DEF Owned, Greeting
  <2>4. Local(s)'
    BY <1>0, <2>1, <2>3 DEF Local, Greeting
  <2>5. cur[s] \notin batch[s]
    BY <1>0, <2>1 DEF Local, BatchOk
  <2>6. BatchOk(s)'
    BY <1>0, <2>1, <2>5 DEF BatchOk, Valid, Ended
  <2>7. QED
    BY <2>2, <2>3, <2>4, <2>6 DEF Keeps
<1>6. ASSUME NEW c \in Conns, Recv(s, c) \/ RecvShort(s, c)
      PROVE  ThreadFrame(s) /\ Keeps(s)
  <2>1. /\ phase[s] = "batch" /\ c \in batch[s] /\ batch'[s] = batch[s] \ {c}
        /\ cur'[s] = c /\ queue' = queue
        /\ \/ phase'[s] = "reply" /\ armed'[s] = armed[s]
           \/ phase'[s] = "batch" /\ armed'[s] = armed[s] \ {c}
        /\ UNCHANGED <<client, up, arrived, end>>
        /\ \A d \in Conns : d # c => taken'[d] = taken[d]
        /\ \A t \in Shards : t # s =>
             /\ phase'[t] = phase[t] /\ armed'[t] = armed[t]
             /\ batch'[t] = batch[t] /\ cur'[t] = cur[t]
    BY <1>0, <1>6 DEF Recv, RecvShort, Serves, Goes, networkVars, TypeOK, ClientTypeOK
  <2>2. c \in armed[s]
    BY <1>0, <2>1 DEF BatchOk
  <2>3. ThreadFrame(s)
    BY <2>1, <2>2 DEF ThreadFrame, Owned
  <2>4. Owned(s)' \subseteq Owned(s)
    BY <2>1 DEF Owned, Greeting
  <2>5. Local(s)'
    BY <1>0, <2>1, <2>2, <2>4 DEF Local, Greeting
  <2>6. BatchOk(s)'
    BY <1>0, <2>1 DEF BatchOk, Valid, Ended
  <2>7. QED
    BY <2>3, <2>4, <2>5, <2>6 DEF Keeps
<1>7. CASE Reply(s) \/ ReplyShort(s)
  <2>1. /\ phase[s] = "reply" /\ phase'[s] = "batch"
        /\ armed'[s] = armed[s] \/ armed'[s] = armed[s] \ {cur[s]}
        /\ UNCHANGED <<client, up, taken, arrived, end, batch, cur, queue>>
        /\ \A t \in Shards : t # s => phase'[t] = phase[t] /\ armed'[t] = armed[t]
    BY <1>0, <1>7 DEF Reply, ReplyShort, Goes, networkVars, TypeOK
  <2>2. ThreadFrame(s)
    BY <2>1 DEF ThreadFrame
  <2>3. Owned(s)' \subseteq Owned(s)
    BY <2>1 DEF Owned, Greeting
  <2>4. Local(s)'
    BY <1>0, <2>1, <2>3 DEF Local, Greeting
  <2>5. BatchOk(s)'
    BY <1>0, <2>1 DEF BatchOk, Local, Valid, Ended
  <2>6. QED
    BY <2>2, <2>3, <2>4, <2>5 DEF Keeps
<1>8. QED
  BY <1>1, <1>2, <1>3, <1>4, <1>5, <1>6, <1>7 DEF ThreadMove, ThreadStep

\* No thread spoils the batch of another: their connections differ.
LEMMA IndThread ==
  ASSUME IndInv, NEW s \in Shards, ThreadMove(s)
  PROVE  IndInv'
<1>1. ThreadFrame(s) /\ Keeps(s)
  BY ThreadKeeps
<1>2. TypeOK'
  BY TypeThread
<1>3. \A t \in Shards : t # s => Owned(t)' = Owned(t)
  BY <1>1 DEF ThreadFrame, Owned, Greeting
<1>4. \A t, u \in Shards : t # u => Owned(t)' \cap Owned(u)' = {}
  <2> SUFFICES ASSUME NEW t \in Shards, NEW u \in Shards, t # u
               PROVE  Owned(t)' \cap Owned(u)' = {}
    OBVIOUS
  <2>1. Owned(t)' \subseteq Owned(t) /\ Owned(u)' \subseteq Owned(u)
    BY <1>1, <1>3 DEF Keeps
  <2>2. Owned(t) \cap Owned(u) = {}
    BY DEF IndInv, OwnerInv
  <2>3. QED
    BY <2>1, <2>2
<1>5. ASSUME NEW t \in Shards, t # s
      PROVE  Local(t)' /\ BatchOk(t)'
  <2>1. Local(t) /\ BatchOk(t) /\ Owned(s) \cap Owned(t) = {} /\ TypeOK
    BY <1>5 DEF IndInv, OwnerInv
  <2>2. Local(t)'
    BY <1>1, <1>5, <2>1 DEF ThreadFrame, Local, Owned, Greeting
  <2>3. \A c \in batch[t] \cap Conns : taken'[c] = taken[c]
    <3>1. \A c \in batch[t] \cap Conns : c \in Owned(t)
      BY <2>1 DEF BatchOk, Owned
    <3>2. QED
      BY <1>1, <2>1, <3>1 DEF ThreadFrame
  <2>4. BatchOk(t)'
    BY <1>1, <1>5, <2>1, <2>3 DEF ThreadFrame, BatchOk, Valid, Ended
  <2>5. QED
    BY <2>2, <2>4
<1>6. OwnerInv'
  <2>1. \A t \in Shards : Local(t)'
    BY <1>1, <1>5 DEF Keeps
  <2>2. QED
    BY <1>4, <2>1 DEF OwnerInv
<1>7. \A t \in Shards : BatchOk(t)'
  BY <1>1, <1>5 DEF Keeps
<1>8. \A c \in Conns : Stream(c)'
  BY <1>1 DEF ThreadFrame, IndInv, Stream
<1>9. QED
  BY <1>2, <1>6, <1>7, <1>8 DEF IndInv

-----------------------------------------------------------------------------
\* The network and the clients.

\* They leave the threads alone, and a valid entry stays valid.
LEMMA IndWorld ==
  ASSUME IndInv, NEW c \in Conns, Arrive(c) \/ Talk(c) \/ Leave(c)
  PROVE  IndInv'
<1>0. TypeOK /\ Stream(c) /\ ClientTypeOK
  BY DEF IndInv, TypeOK
<1>1. /\ UNCHANGED serverVars /\ taken' = taken /\ ClientTypeOK'
      /\ \A d \in Conns : client'[d] = "idle" => client[d] = "idle"
  <2>1. CASE Arrive(c)
    BY <1>0, <2>1 DEF Arrive, clientVars, ClientTypeOK
  <2>2. CASE Talk(c) \/ Leave(c)
    BY <1>0, <2>2, ClientTypeStep DEF Talk, Leave, Stream
  <2>3. QED
    BY <2>1, <2>2
<1>2. /\ arrived' \in [Conns -> Nat] /\ end' \in [Conns -> Nat]
      /\ \A d \in Conns : /\ arrived[d] <= arrived'[d] /\ arrived'[d] <= up'[d]
                          /\ Stream(d)'
                          /\ Ended(d) => Ended(d)'
  <2>1. CASE Arrive(c)
    <3>1. /\ UNCHANGED <<clientVars, end>> /\ arrived[c] < Sent(c)
          /\ arrived' = [arrived EXCEPT ![c] = IF c \in Whole THEN Sent(c) ELSE @ + 1]
      BY <2>1 DEF Arrive
    <3>2. Sent(c) \in Nat /\ Sent(c) <= up[c] /\ (client[c] = "gone" => Sent(c) = end[c])
      BY <1>0, ConnType DEF Sent, Stream
    <3>3. arrived' \in [Conns -> Nat] /\ arrived[c] <= arrived'[c] /\ arrived'[c] <= Sent(c)
      BY <1>0, <3>1, <3>2 DEF TypeOK
    <3>4. \A d \in Conns : d # c => arrived'[d] = arrived[d]
      BY <1>0, <3>1 DEF TypeOK
    <3>5. ASSUME NEW d \in Conns
          PROVE  /\ arrived[d] <= arrived'[d] /\ arrived'[d] <= up'[d]
                 /\ Stream(d)' /\ (Ended(d) => Ended(d)')
      <4>1. Stream(d) /\ up[d] \in Nat /\ arrived[d] \in Nat /\ end[d] \in Nat /\ arrived[d] <= up[d]
        BY ConnType DEF IndInv
      <4>2. CASE d = c
        BY <3>1, <3>2, <3>3, <4>1, <4>2 DEF clientVars, Stream, Ended
      <4>3. CASE d # c
        BY <3>1, <3>4, <4>1, <4>3 DEF clientVars, Stream, Ended
      <4>4. QED
        BY <4>2, <4>3
    <3>6. QED
      BY <1>0, <3>1, <3>3, <3>5 DEF TypeOK
  <2>2. CASE Talk(c) \/ Leave(c)
    <3>1. /\ arrived' = arrived
          /\ \A d \in Conns : up'[d] >= up[d] /\ up'[d] \in Nat
          /\ \A d \in Conns : d # c => client'[d] = client[d] /\ up'[d] = up[d]
          /\ client'[c] \in {"idle", "connected"} => up'[c] = 0
          /\ client[c] # "gone" \/ client'[c] = "gone"
      BY <1>0, <1>1, <2>2, ClientTypeStep
      DEF Talk, Leave, networkVars, Stream, ClientTypeOK
    <3>2. \/ end' = end /\ client'[c] # "gone"
          \/ client[c] # "gone" /\ up' = up
             /\ (end' = [end EXCEPT ![c] = arrived[c]] \/ end' = [end EXCEPT ![c] = up[c]])
      BY <1>0, <2>2 DEF Talk, Leave, networkVars, ClientExit, ClientStep, ClientHello, ClientSize,
                        ClientSend, ClientRecv, ClientMoves, ClientTypeOK
    <3>3. end' \in [Conns -> Nat] /\ \A d \in Conns : d # c => end'[d] = end[d]
      BY <1>0, <3>2 DEF TypeOK, ClientTypeOK
    <3>4. ASSUME NEW d \in Conns
          PROVE  /\ arrived[d] <= arrived'[d] /\ arrived'[d] <= up'[d]
                 /\ Stream(d)' /\ (Ended(d) => Ended(d)')
      <4>1. Stream(d) /\ up[d] \in Nat /\ arrived[d] \in Nat /\ end[d] \in Nat /\ arrived[d] <= up[d]
        BY ConnType DEF IndInv
      <4>2. CASE d = c
        <5>1. client'[c] = "gone" => up' = up /\ (end'[c] = arrived[c] \/ end'[c] = up[c])
          BY <1>0, <3>2 DEF TypeOK
        <5>2. client[c] = "gone" => FALSE
          BY <3>1, <3>2
        <5>3. QED
          BY <3>1, <4>1, <4>2, <5>1, <5>2 DEF Stream, Ended
      <4>3. CASE d # c
        BY <3>1, <3>3, <4>1, <4>3 DEF Stream, Ended
      <4>4. QED
        BY <4>2, <4>3
    <3>5. QED
      BY <1>0, <3>1, <3>3, <3>4 DEF TypeOK
  <2>3. QED
    BY <2>1, <2>2
<1>3. TypeOK'
  <2>1. \A d \in Conns : taken'[d] <= arrived'[d] /\ arrived'[d] <= up'[d]
    BY SMTT(30), <1>0, <1>1, <1>2, ConnType
  <2>2. QED
    BY <1>0, <1>1, <1>2, <2>1 DEF serverVars, TypeOK
<1>4. OwnerInv'
  <2>1. \A t \in Shards : Owned(t)' = Owned(t) /\ Owned(t) \subseteq Conns
    BY <1>0, <1>1 DEF IndInv, OwnerInv, Local, Owned, Greeting, serverVars, TypeOK
  <2>2. \A t \in Shards : Local(t)'
    BY <1>1, <2>1 DEF IndInv, OwnerInv, Local, Greeting, serverVars
  <2>3. QED
    BY <2>1, <2>2 DEF IndInv, OwnerInv
<1>5. ASSUME NEW t \in Shards
      PROVE  BatchOk(t)'
  <2>1. BatchOk(t)
    BY DEF IndInv
  <2>2. \A d \in Conns : Valid(d) => Valid(d)'
    BY <1>0, <1>1, <1>2, ConnType DEF Valid
  <2>3. QED
    BY <1>1, <2>1, <2>2 DEF BatchOk, serverVars
<1>6. QED
  BY <1>2, <1>3, <1>4, <1>5 DEF IndInv

\* A new connection has no owner yet.
LEMMA IndConnect ==
  ASSUME IndInv, NEW c \in Conns, Connect(c)
  PROVE  IndInv'
<1>0. TypeOK /\ Stream(c) /\ ClientTypeOK
  BY DEF IndInv, TypeOK
<1>1. PICK s \in Shards : queue' = [queue EXCEPT ![s] = @ \cup {c}]
  BY DEF Connect
<1>2. /\ client[c] = "idle" /\ client' = [client EXCEPT ![c] = "connected"]
      /\ UNCHANGED <<up, taken, down, got, limit, alive, phase, batch, cur, buf, armed, open, late>>
      /\ UNCHANGED <<arrived, end>>
  BY DEF Connect, ClientConnect, ClientMoves, networkVars
<1>3. client'[c] = "connected" /\ \A d \in Conns : d # c => client'[d] = client[d]
  BY <1>0, <1>2 DEF ClientTypeOK
<1>4. TypeOK'
  <2>1. client' \in [Conns -> Stages] /\ queue' \in [Shards -> SUBSET Conns]
    BY <1>0, <1>1, <1>2 DEF TypeOK, ClientTypeOK, Stages
  <2>2. QED
    BY <1>0, <1>2, <2>1 DEF TypeOK, ClientTypeOK
<1>5. \A t \in Shards : /\ c \notin Owned(t) /\ Owned(t) \subseteq Conns
                        /\ Owned(t)' = IF t = s THEN Owned(t) \cup {c} ELSE Owned(t)
  <2> SUFFICES ASSUME NEW t \in Shards
               PROVE  /\ c \notin Owned(t) /\ Owned(t) \subseteq Conns
                      /\ Owned(t)' = IF t = s THEN Owned(t) \cup {c} ELSE Owned(t)
    OBVIOUS
  <2>1. Local(t)
    BY DEF IndInv, OwnerInv
  <2>2. c \notin Owned(t)
    BY <1>2, <2>1 DEF Local
  <2>3. Owned(t) \subseteq Conns
    BY <1>0, <2>1 DEF Local, Owned, TypeOK
  <2>4. queue'[t] = IF t = s THEN queue[t] \cup {c} ELSE queue[t]
    BY <1>0, <1>1 DEF TypeOK
  <2>5. QED
    BY <1>2, <2>2, <2>3, <2>4 DEF Owned, Greeting
<1>6. OwnerInv'
  <2>1. ASSUME NEW t \in Shards
        PROVE  Local(t)'
    <3>1. Local(t)
      BY DEF IndInv, OwnerInv
    <3>2. queue'[t] = IF t = s THEN queue[t] \cup {c} ELSE queue[t]
      BY <1>0, <1>1 DEF TypeOK
    <3>3. c \notin armed[t] /\ (Greeting(t) => cur[t] # c)
      BY <1>5 DEF Owned
    <3>4. \A d \in Owned(t)' : client'[d] # "idle"
      BY <1>3, <1>5, <3>1 DEF Local
    <3>5. QED
      BY <1>2, <3>1, <3>2, <3>3, <3>4 DEF Local, Greeting
  <2>2. \A t, u \in Shards : t # u => Owned(t)' \cap Owned(u)' = {}
    BY <1>5 DEF IndInv, OwnerInv
  <2>3. QED
    BY <2>1, <2>2 DEF OwnerInv
<1>7. ASSUME NEW d \in Conns
      PROVE  Stream(d)' /\ (Valid(d) => Valid(d)')
  BY <1>0, <1>2, <1>3 DEF IndInv, Stream, Valid, Ended
<1>8. ASSUME NEW t \in Shards
      PROVE  BatchOk(t)'
  <2>1. BatchOk(t) /\ queue[t] \subseteq queue'[t]
    BY <1>0, <1>1 DEF IndInv, TypeOK
  <2>2. QED
    BY <1>2, <1>7, <2>1 DEF BatchOk
<1>9. QED
  BY <1>4, <1>6, <1>7, <1>8 DEF IndInv

-----------------------------------------------------------------------------
\* The theorem.

LEMMA IndInit == Init => IndInv
<1> SUFFICES ASSUME Init PROVE IndInv
  OBVIOUS
<1> USE Sizes DEF Init, ClientInit
<1>1. TypeOK
  BY DEF TypeOK, ClientTypeOK, Stages, Phases
<1>2. OwnerInv
  BY DEF OwnerInv, Local, Owned, Greeting
<1>3. \A c \in Conns : Stream(c)
  BY DEF Stream
<1>4. \A s \in Shards : BatchOk(s)
  BY DEF BatchOk
<1>5. QED
  BY <1>1, <1>2, <1>3, <1>4 DEF IndInv

LEMMA IndStep == IndInv /\ [Next]_vars => IndInv'
<1> SUFFICES ASSUME IndInv, [Next]_vars PROVE IndInv'
  OBVIOUS
<1>1. ASSUME NEW s \in Shards, ThreadMove(s)
      PROVE  IndInv'
  BY <1>1, IndThread
<1>2. ASSUME NEW c \in Conns, Arrive(c) \/ Talk(c) \/ Leave(c)
      PROVE  IndInv'
  BY <1>2, IndWorld
<1>3. ASSUME NEW c \in Conns, Connect(c)
      PROVE  IndInv'
  BY <1>3, IndConnect
<1>4. CASE UNCHANGED vars
  BY <1>4 DEF vars, clientVars, serverVars, networkVars, IndInv, TypeOK, ClientTypeOK,
              OwnerInv, Local, Owned, Greeting, Stream, BatchOk, Valid, Ended
<1>5. QED
  BY <1>1, <1>2, <1>3, <1>4 DEF Next, ThreadMove

\* However long a greeting has kept a thread and whatever the other threads,
\* the network and the clients did meanwhile, the entries of its batch are
\* still readable connections of its own epoll instance, and an entry of the
\* listener still has a connection to accept (70-105).
THEOREM BatchesValid == Spec => []BatchInv
<1>1. IndInv => BatchInv
  BY BatchIs DEF IndInv, BatchInv
<1>2. QED
  BY IndInit, IndStep, <1>1, PTL DEF Spec

\* Every connection that a thread serves, greets or has queued is its own: no
\* two threads ever read or write the same connection (SO_REUSEPORT, 71-103).
THEOREM OwnersDiffer == Spec => []OwnerInv
<1>1. IndInv => OwnerInv
  BY DEF IndInv
<1>2. QED
  BY IndInit, IndStep, <1>1, PTL DEF Spec

-----------------------------------------------------------------------------
\* Streams: what a client was written and what was read of it.

Written(c) == Len(down[c])

\* Slot i of the stream to a client.
Owed(i) == IF i <= 2 THEN 0 ELSE i - 1

\* What is written is right, and no more than was read of the client.
Right(c) ==
  /\ Written(c) # 1
  /\ \A i \in 1..Written(c) : down[c][i] = Owed(i)
  /\ Written(c) <= 2 \/ Written(c) <= taken[c] + 1
  /\ c \notin open => taken[c] = 0 /\ Written(c) = 0

\* A client's own progress; what one that waits for its replies has in flight.
Pace(c) ==
  /\ got[c] <= Written(c)
  /\ c \in open => client[c] # "idle"
  /\ c \in late => client[c] = "gone" /\ got[c] < Written(c)
  /\ client[c] \in {"idle", "connected", "hello"} => got[c] = 0
  /\ client[c] = "hello" => up[c] = 1
  /\ client[c] = "running" => got[c] >= 2
  /\ up[c] > 1 => Written(c) >= 2
  /\ c \notin Eager =>
       /\ up[c] <= 1 \/ (got[c] >= 2 /\ up[c] <= got[c] - 1 + MsgUnits)
       /\ client[c] = "running" => up[c] = got[c] - 1 \/ up[c] = got[c] - 1 + MsgUnits

\* The greeting failed, and no message of the client is to come.
LostHello(c) ==
  /\ client[c] = "gone" /\ taken[c] = 0
  /\ \/ Written(c) = 0 /\ up[c] <= 1
     \/ Written(c) = 2 /\ arrived[c] = 0 /\ end[c] = 0

\* Where a thread is with the connection it serves and with the others it has.
Serving(s) ==
  /\ queue[s] \cap open = {} /\ armed[s] \subseteq open
  /\ phase[s] = "send_size" => cur[s] \in open /\ taken[cur[s]] = 0 /\ Written(cur[s]) = 0
  /\ phase[s] = "recv_hello" => cur[s] \in open /\ taken[cur[s]] = 0 /\ Written(cur[s]) = 2
  /\ \A c \in armed[s] :
       ~(phase[s] = "reply" /\ cur[s] = c) =>
         LostHello(c) \/ (Written(c) >= 2 /\ taken[c] = Written(c) - 1)
  /\ phase[s] = "reply" =>
       /\ Written(cur[s]) >= 2 /\ taken[cur[s]] = Written(cur[s]) - 1 + MsgUnits
       /\ \A i \in 1..MsgUnits : buf[s][i] = Written(cur[s]) - 1 + i

\* A connection in the epoll instance of s, or about to be.
Holds(s, c) == c \in armed[s] \/ (Greeting(s) /\ cur[s] = c)

\* A live client that waits for its replies and whose messages arrive whole.
Steady(c) ==
  client[c] # "gone" =>
    /\ client[c] = "running" => Written(c) = got[c] \/ Written(c) = got[c] + MsgUnits
    /\ arrived[c] = 0 \/ arrived[c] = up[c] \/ (got[c] >= 2 /\ arrived[c] = got[c] - 1)
    /\ c \in open => \E s \in Shards : Holds(s, c)

EchoInd ==
  /\ \A c \in Conns : Right(c) /\ Pace(c)
  /\ \A s \in Shards : Serving(s)
  /\ MsgUnits <= Capacity => \A c \in Whole \ Eager : Steady(c)

LEMMA WrittenType ==
  ASSUME TypeOK, NEW c \in Conns
  PROVE  Written(c) \in Nat
BY DEF TypeOK, ClientTypeOK, Written

\* What the arithmetic of a connection is about.
LEMMA Facts ==
  ASSUME IndInv, NEW c \in Conns
  PROVE  /\ Written(c) \in Nat /\ up[c] \in Nat /\ taken[c] \in Nat /\ got[c] \in Nat
         /\ arrived[c] \in Nat /\ end[c] \in Nat
         /\ taken[c] <= arrived[c] /\ arrived[c] <= up[c]
BY WrittenType, ConnType DEF IndInv

LEMMA EchoInit == Init => EchoInd
<1> SUFFICES ASSUME Init PROVE EchoInd
  OBVIOUS
<1>1. ASSUME NEW c \in Conns
      PROVE  /\ Written(c) = 0 /\ client[c] = "idle" /\ up[c] = 0 /\ taken[c] = 0 /\ got[c] = 0
             /\ arrived[c] = 0
  BY DEF Init, ClientInit, Written
<1>2. open = {} /\ late = {}
  BY DEF Init
<1>3. ASSUME NEW c \in Conns PROVE Right(c)
  <2>1. Written(c) # 1 /\ Written(c) <= 2 /\ taken[c] = 0 /\ 1..Written(c) = {}
    BY <1>1
  <2>2. QED
    BY <1>1, <2>1 DEF Right
<1>4. ASSUME NEW c \in Conns PROVE Pace(c)
  <2>1. got[c] <= Written(c) /\ up[c] <= 1
    BY <1>1
  <2>2. QED
    BY <1>1, <1>2, <2>1 DEF Pace
<1>5. \A s \in Shards : Serving(s)
  BY DEF Init, Serving
<1>6. \A c \in Whole \ Eager : Steady(c)
  BY <1>1, <1>2, EpollAssumption DEF Steady
<1>7. QED
  BY <1>3, <1>4, <1>5, <1>6 DEF EchoInd

-----------------------------------------------------------------------------
\* Steps of a thread.

\* Thread s, while it serves k or greets it, changes nothing of the others.
LEMMA EchoThread ==
  ASSUME IndInv, EchoInd, NEW s \in Shards, ThreadFrame(s), got' = got,
         \A t \in Shards \ {s} : buf'[t] = buf[t],
         NEW k \in Conns, k \in Owned(s),
         \A c \in Conns \ {k} : /\ taken'[c] = taken[c] /\ down'[c] = down[c]
                                /\ (c \in open' <=> c \in open) /\ (c \in late' <=> c \in late)
                                /\ Holds(s, c) => Holds(s, c)',
         Serving(s)', Right(k)', Pace(k)',
         MsgUnits <= Capacity /\ k \in Whole \ Eager => Steady(k)'
  PROVE  EchoInd'
<1>1. /\ UNCHANGED <<client, up, got, arrived, end>>
      /\ \A c \in Conns \ {k} : Written(c)' = Written(c)
  BY DEF ThreadFrame, Written
<1>2. ASSUME NEW c \in Conns PROVE Right(c)' /\ Pace(c)'
  <2>1. CASE c = k
    BY <2>1
  <2>2. CASE c # k
    <3>1. Right(c)'
      BY <1>1, <2>2 DEF EchoInd, Right
    <3>2. Pace(c)'
      BY <1>1, <2>2 DEF EchoInd, Pace
    <3>3. QED
      BY <3>1, <3>2
  <2>3. QED
    BY <2>1, <2>2
<1>3. ASSUME NEW t \in Shards, t # s PROVE Serving(t)'
  <2>1. /\ phase'[t] = phase[t] /\ cur'[t] = cur[t] /\ queue'[t] = queue[t] /\ armed'[t] = armed[t]
        /\ buf'[t] = buf[t]
    BY <1>3 DEF ThreadFrame
  <2>2. Owned(t) \subseteq Conns \ {k}
    BY <1>3 DEF IndInv, OwnerInv, Local, Owned, TypeOK
  <2>3. /\ queue[t] \subseteq Conns \ {k} /\ armed[t] \subseteq Conns \ {k}
        /\ phase[t] \in {"send_size", "recv_hello", "reply"} => cur[t] \in Conns \ {k}
    BY <2>2 DEF Owned, Greeting, IndInv, OwnerInv, Local
  <2>4. Serving(t)
    BY DEF EchoInd
  <2>5. \A c \in Conns \ {k} : LostHello(c)' <=> LostHello(c)
    BY <1>1 DEF LostHello
  <2>6. QED
    BY <1>1, <2>1, <2>3, <2>4, <2>5 DEF Serving
<1>4. ASSUME MsgUnits <= Capacity, NEW c \in Whole \ Eager PROVE Steady(c)'
  <2>1. c \in Conns
    BY EpollAssumption
  <2>2. CASE c = k
    BY <1>4, <2>2
  <2>3. CASE c # k
    <3>1. Steady(c)
      BY <1>4 DEF EchoInd
    <3>2. \A t \in Shards : Holds(t, c) => Holds(t, c)'
      BY <2>1, <2>3 DEF ThreadFrame, Holds, Greeting
    <3>3. QED
      BY <1>1, <2>1, <2>3, <3>1, <3>2 DEF Steady
  <2>4. QED
    BY <2>2, <2>3
<1>5. QED
  BY <1>2, <1>3, <1>4 DEF EchoInd

\* Steps that serve no connection.
LEMMA EchoQuiet ==
  ASSUME IndInv, EchoInd, NEW s \in Shards,
         UNCHANGED <<clientVars, cur, buf, queue, armed, open, late, arrived, end>>,
         \A t \in Shards \ {s} : phase'[t] = phase[t],
         \/ phase'[s] = phase[s]
         \/ {phase[s], phase'[s]} \subseteq {"off", "wait", "batch"}
  PROVE  EchoInd'
<1>1. \A c \in Conns : /\ Written(c)' = Written(c) /\ (LostHello(c)' <=> LostHello(c))
                       /\ \A t \in Shards : Holds(t, c)' <=> Holds(t, c)
  BY DEF clientVars, Written, LostHello, Holds, Greeting
<1>2. ASSUME NEW c \in Conns PROVE Right(c)' /\ Pace(c)'
  BY <1>1 DEF EchoInd, Right, Pace, clientVars
<1>3. ASSUME NEW t \in Shards PROVE Serving(t)'
  <2>1. armed[t] \subseteq Conns /\ (phase[t] \in {"send_size", "recv_hello", "reply"} => cur[t] \in Conns)
    BY DEF IndInv, TypeOK, OwnerInv, Local, Greeting
  <2>2. Serving(t)
    BY DEF EchoInd
  <2>3. CASE phase'[t] = phase[t]
    BY <1>1, <2>1, <2>2, <2>3 DEF Serving, clientVars
  <2>4. CASE phase'[t] # phase[t]
    BY <1>1, <2>1, <2>2, <2>4 DEF Serving, clientVars
  <2>5. QED
    BY <2>3, <2>4
<1>4. ASSUME MsgUnits <= Capacity, NEW c \in Whole \ Eager PROVE Steady(c)'
  <2>1. c \in Conns
    BY EpollAssumption
  <2>2. QED
    BY <1>1, <1>4, <2>1 DEF EchoInd, Steady, clientVars
<1>5. QED
  BY <1>2, <1>3, <1>4 DEF EchoInd

-----------------------------------------------------------------------------
\* Each step of a thread.

LEMMA EchoAccept ==
  ASSUME IndInv, EchoInd, NEW s \in Shards, Accept(s)
  PROVE  EchoInd'
<1>0. TypeOK /\ ThreadFrame(s) /\ Local(s) /\ Serving(s)
  BY ThreadKeeps DEF ThreadMove, ThreadStep, IndInv, OwnerInv, EchoInd
<1>1. PICK k \in queue[s] : /\ cur' = [cur EXCEPT ![s] = k]
                            /\ queue' = [queue EXCEPT ![s] = @ \ {k}]
                            /\ open' = open \cup {k}
  BY DEF Accept
<1>2. /\ phase[s] = "batch" /\ phase'[s] = "send_size" /\ cur'[s] = k
      /\ queue'[s] = queue[s] \ {k} /\ k \in Conns /\ k \in Owned(s)
      /\ UNCHANGED <<clientVars, networkVars, buf, armed, late>>
  BY <1>0, <1>1 DEF Accept, Goes, TypeOK, Owned
<1>3. /\ UNCHANGED <<client, up, taken, down, got, arrived, end>>
      /\ \A c \in Conns : Written(c)' = Written(c)
  BY <1>2 DEF clientVars, networkVars, Written
<1>4. k \notin open /\ taken[k] = 0 /\ Written(k) = 0 /\ client[k] # "idle"
  BY <1>0, <1>2 DEF Serving, EchoInd, Right, Local
<1>5. Right(k)'
  BY <1>1, <1>2, <1>3, <1>4 DEF EchoInd, Right
<1>6. Pace(k)'
  BY <1>1, <1>2, <1>3, <1>4 DEF EchoInd, Pace
<1>7. Holds(s, k)'
  BY <1>2 DEF Holds, Greeting
<1>8. MsgUnits <= Capacity /\ k \in Whole \ Eager => Steady(k)'
  BY <1>2, <1>3, <1>7 DEF EchoInd, Steady
<1>9. Serving(s)'
  <2>1. \A c \in Conns : LostHello(c)' <=> LostHello(c)
    BY <1>3 DEF LostHello
  <2>2. armed[s] \subseteq Conns
    BY <1>0 DEF TypeOK
  <2>3. QED
    BY <1>0, <1>1, <1>2, <1>3, <1>4, <2>1, <2>2 DEF Serving
<1>10. \A c \in Conns : Holds(s, c) => Holds(s, c)'
  BY <1>2 DEF Holds, Greeting
<1>11. QED
  BY <1>0, <1>1, <1>2, <1>3, <1>5, <1>6, <1>8, <1>9, <1>10, EchoThread

LEMMA EchoSendSize ==
  ASSUME IndInv, EchoInd, NEW s \in Shards, SendSize(s), NEW k \in Conns, k = cur[s]
  PROVE  EchoInd'
<1>0. TypeOK /\ ThreadFrame(s) /\ Local(s) /\ Serving(s)
  BY ThreadKeeps DEF ThreadMove, ThreadStep, IndInv, OwnerInv, EchoInd
<1>1. /\ phase[s] = "send_size" /\ phase'[s] = "recv_hello" /\ k \in Owned(s)
      /\ UNCHANGED <<client, up, taken, got, cur, buf, queue, armed, open, arrived, end>>
      /\ down'[k] = down[k] \o Announcement
      /\ late' = late \/ (client[k] = "gone" /\ late' = late \cup {k})
      /\ \A c \in Conns \ {k} : down'[c] = down[c]
  BY <1>0 DEF SendSize, Goes, Late, networkVars, TypeOK, ClientTypeOK, Owned, Greeting
<1>2. k \in open /\ taken[k] = 0 /\ Written(k) = 0
  BY <1>0, <1>1 DEF Serving
<1>3. Written(k)' = 2 /\ down'[k][1] = 0 /\ down'[k][2] = 0
  BY <1>0, <1>1, <1>2 DEF Written, Announcement, TypeOK, ClientTypeOK
<1>4. \A c \in Conns \ {k} : Written(c)' = Written(c)
  BY <1>1 DEF Written
<1>5. Right(k)'
  <2>1. \A i \in 1..2 : down'[k][i] = Owed(i)
    <3>1. \A i \in 1..2 : i = 1 \/ i = 2
      OBVIOUS
    <3>2. QED
      BY <1>3, <3>1 DEF Owed
  <2>2. taken'[k] = taken[k] /\ (k \notin open' => FALSE)
    BY <1>1, <1>2
  <2>3. QED
    BY <1>3, <2>1, <2>2 DEF Right, Owed
<1>6. Pace(k)'
  BY <1>1, <1>2, <1>3, Facts DEF EchoInd, Pace
<1>7. Holds(s, k)'
  BY <1>1 DEF Holds, Greeting
<1>8. MsgUnits <= Capacity /\ k \in Whole \ Eager => Steady(k)'
  <2>1. client[k] # "running"
    BY <1>2, Facts DEF EchoInd, Pace
  <2>2. QED
    BY <1>1, <1>7, <2>1 DEF EchoInd, Steady
<1>9. Serving(s)'
  <2>1. \A c \in Conns \ {k} : LostHello(c)' <=> LostHello(c)
    BY <1>1, <1>4 DEF LostHello
  <2>2. armed[s] \subseteq Conns \ {k}
    BY <1>0, <1>1 DEF TypeOK, Local, Greeting
  <2>3. QED
    BY <1>0, <1>1, <1>2, <1>3, <1>4, <2>1, <2>2 DEF Serving
<1>10. \A c \in Conns : Holds(s, c) => Holds(s, c)'
  BY <1>1 DEF Holds, Greeting
<1>11. QED
  BY <1>0, <1>1, <1>4, <1>5, <1>6, <1>8, <1>9, <1>10, EchoThread

LEMMA EchoGreeted ==
  ASSUME IndInv, EchoInd, NEW s \in Shards, RecvHello(s) \/ GreetFails(s),
         NEW k \in Conns, k = cur[s]
  PROVE  EchoInd'
<1>0. TypeOK /\ ThreadFrame(s) /\ Local(s) /\ Serving(s)
  BY ThreadKeeps DEF ThreadMove, ThreadStep, IndInv, OwnerInv, EchoInd
<1>1. /\ Greeting(s) /\ phase'[s] = "batch" /\ k \in Owned(s) /\ k \notin armed[s]
      /\ armed'[s] = armed[s] \cup {k}
      /\ UNCHANGED <<client, up, down, got, cur, buf, queue, open, late, arrived, end>>
      /\ \A c \in Conns \ {k} : taken'[c] = taken[c]
  BY <1>0 DEF RecvHello, GreetFails, Registers, Goes, networkVars, TypeOK, ClientTypeOK,
              Owned, Greeting, Local
<1>2. \A c \in Conns : Written(c)' = Written(c)
  BY <1>1 DEF Written
<1>3. k \in open /\ taken[k] = 0 /\ Written(k) \in {0, 2}
  BY <1>0, <1>1 DEF Serving, Greeting
<1>4. \/ Written(k) = 2 /\ taken'[k] = 1
      \/ LostHello(k)' /\ taken'[k] = 0
  <2>1. CASE RecvHello(s)
    BY <1>0, <1>3, <2>1 DEF RecvHello, Registers, Goes, Serving, HelloUnits, TypeOK, ClientTypeOK
  <2>2. CASE GreetFails(s)
    <3>1. client[k] = "gone" /\ taken' = taken
      BY <2>2 DEF GreetFails, Ended
    <3>2. Written(k) = 0 => up[k] <= 1
      BY Facts DEF EchoInd, Pace
    <3>3. Written(k) = 2 => arrived[k] = 0 /\ end[k] = 0
      <4> SUFFICES ASSUME Written(k) = 2 PROVE arrived[k] = 0 /\ end[k] = 0
        OBVIOUS
      <4>1. phase[s] = "recv_hello"
        BY <1>0, <1>1 DEF Serving, Greeting
      <4>2. Ended(k) /\ taken[k] + 1 > arrived[k]
        BY <2>2, <4>1 DEF GreetFails, Registers, Goes, HelloUnits
      <4>3. QED
        BY <1>3, <4>2, Facts DEF Ended
    <3>4. QED
      BY <1>1, <1>2, <1>3, <3>1, <3>2, <3>3 DEF LostHello
  <2>3. QED
    BY <2>1, <2>2
<1>5. Right(k)'
  BY <1>1, <1>2, <1>3 DEF EchoInd, Right
<1>6. Pace(k)'
  BY <1>1, <1>2 DEF EchoInd, Pace
<1>7. \A c \in Conns : Holds(s, c) => Holds(s, c)'
  BY <1>1 DEF Holds
<1>8. MsgUnits <= Capacity /\ k \in Whole \ Eager => Steady(k)'
  <2>1. Holds(s, k)'
    BY <1>1 DEF Holds
  <2>2. QED
    BY <1>1, <1>2, <2>1 DEF EchoInd, Steady
<1>9. Serving(s)'
  <2>1. \A c \in Conns \ {k} : LostHello(c)' <=> LostHello(c)
    BY <1>1, <1>2 DEF LostHello
  <2>2. armed[s] \subseteq Conns \ {k} /\ phase[s] # "reply"
    BY <1>0, <1>1 DEF TypeOK, Greeting
  <2>3. QED
    BY <1>0, <1>1, <1>2, <1>3, <1>4, <2>1, <2>2 DEF Serving
<1>10. QED
  BY <1>0, <1>1, <1>5, <1>6, <1>7, <1>8, <1>9, EchoThread

\* A client with messages on their way is past its greeting.
LEMMA Talking ==
  ASSUME IndInv, EchoInd, NEW k \in Conns, up[k] > 1, client[k] # "gone"
  PROVE  client[k] = "running" /\ got[k] >= 2 /\ got[k] <= Written(k)
<1>1. client[k] \in {"idle", "connected"} => up[k] = 0
  BY DEF IndInv, Stream
<1>2. client[k] = "hello" => up[k] = 1
  BY DEF EchoInd, Pace
<1>3. client[k] \in Stages /\ up[k] \in Nat
  BY ConnType DEF IndInv
<1>4. client[k] = "running"
  BY <1>1, <1>2, <1>3 DEF Stages
<1>5. QED
  BY <1>4 DEF EchoInd, Pace

\* When a thread comes to a connection it has what the client is still to be sent.
LEMMA EchoServes ==
  ASSUME IndInv, EchoInd, NEW s \in Shards, NEW k \in Conns, Recv(s, k) \/ RecvShort(s, k)
  PROVE  /\ phase[s] = "batch" /\ k \in armed[s] /\ k \in open /\ k \in Owned(s)
         /\ LostHello(k) \/ (Written(k) >= 2 /\ taken[k] = Written(k) - 1)
         /\ Valid(k)
         /\ cur'[s] = k /\ batch'[s] = batch[s] \ {k}
         /\ UNCHANGED <<client, up, down, got, queue, open, late, arrived, end>>
         /\ \A c \in Conns \ {k} : taken'[c] = taken[c]
         /\ \A c \in Conns : Written(c)' = Written(c) /\ (LostHello(c) /\ c # k => LostHello(c)')
<1>0. TypeOK /\ BatchOk(s) /\ Serving(s)
  BY DEF IndInv, EchoInd
<1>1. /\ phase[s] = "batch" /\ k \in batch[s] /\ cur'[s] = k /\ batch'[s] = batch[s] \ {k}
      /\ UNCHANGED <<client, up, down, got, queue, open, late, arrived, end>>
      /\ \A c \in Conns \ {k} : taken'[c] = taken[c]
  BY <1>0 DEF Recv, RecvShort, Serves, Goes, networkVars, TypeOK, ClientTypeOK
<1>2. k \in armed[s] /\ Valid(k)
  BY <1>0, <1>1 DEF BatchOk
<1>3. /\ k \in open /\ k \in Owned(s)
      /\ LostHello(k) \/ (Written(k) >= 2 /\ taken[k] = Written(k) - 1)
  BY <1>0, <1>1, <1>2 DEF Serving, Owned
<1>4. \A c \in Conns : Written(c)' = Written(c) /\ (LostHello(c) /\ c # k => LostHello(c)')
  BY <1>1 DEF Written, LostHello
<1>5. QED
  BY <1>1, <1>2, <1>3, <1>4

LEMMA EchoRecv ==
  ASSUME IndInv, EchoInd, MsgUnits > HelloUnits, NEW s \in Shards, NEW k \in Conns, Recv(s, k)
  PROVE  EchoInd'
<1> USE Sizes
<1>0. TypeOK /\ ThreadFrame(s) /\ Serving(s)
  BY ThreadKeeps DEF ThreadMove, ThreadStep, IndInv, EchoInd
<1>1. /\ phase[s] = "batch" /\ k \in armed[s] /\ k \in open /\ k \in Owned(s)
      /\ LostHello(k) \/ (Written(k) >= 2 /\ taken[k] = Written(k) - 1)
      /\ cur'[s] = k
      /\ UNCHANGED <<client, up, down, got, queue, open, late, arrived, end>>
      /\ \A c \in Conns \ {k} : taken'[c] = taken[c]
      /\ \A c \in Conns : Written(c)' = Written(c) /\ (LostHello(c) /\ c # k => LostHello(c)')
  BY EchoServes
<1>2. /\ phase'[s] = "reply" /\ armed' = armed /\ taken'[k] = taken[k] + MsgUnits
      /\ buf'[s] = [i \in 1..MsgUnits |-> taken[k] + i]
      /\ \A t \in Shards \ {s} : buf'[t] = buf[t]
      /\ taken[k] + MsgUnits <= arrived[k]
  BY <1>0 DEF Recv, Serves, Goes, TypeOK, ClientTypeOK
<1>3. Written(k) >= 2 /\ taken[k] = Written(k) - 1
  BY <1>1, <1>2, Facts DEF LostHello
<1>4. /\ taken'[k] = Written(k) - 1 + MsgUnits
      /\ \A i \in 1..MsgUnits : buf'[s][i] = Written(k) - 1 + i
  BY <1>2, <1>3
<1>5. Right(k)'
  <2>1. Right(k) /\ taken'[k] >= taken[k] /\ taken[k] \in Nat /\ taken'[k] \in Nat /\ Written(k) \in Nat
    BY <1>2, Facts DEF EchoInd
  <2>2. QED
    BY <1>1, <2>1 DEF Right
<1>6. Pace(k)'
  BY <1>1 DEF EchoInd, Pace
<1>7. \A c \in Conns : Holds(s, c) => Holds(s, c)'
  BY <1>1, <1>2 DEF Holds, Greeting
<1>8. MsgUnits <= Capacity /\ k \in Whole \ Eager => Steady(k)'
  <2>1. Holds(s, k)'
    BY <1>1, <1>2 DEF Holds
  <2>2. QED
    BY <1>1, <2>1 DEF EchoInd, Steady
<1>9. Serving(s)'
  <2>1. armed[s] \subseteq Conns
    BY <1>0 DEF TypeOK
  <2>2. \A c \in armed[s] : c # k => (LostHello(c) \/ (Written(c) >= 2 /\ taken[c] = Written(c) - 1))'
    BY <1>0, <1>1, <2>1 DEF Serving
  <2>3. QED
    BY <1>0, <1>1, <1>2, <1>3, <1>4, <2>1, <2>2 DEF Serving
<1>10. QED
  BY <1>0, <1>1, <1>2, <1>5, <1>6, <1>7, <1>8, <1>9, EchoThread

LEMMA EchoRecvShort ==
  ASSUME IndInv, EchoInd, NEW s \in Shards, NEW k \in Conns, RecvShort(s, k)
  PROVE  EchoInd'
<1> USE Sizes
<1>0. TypeOK /\ ThreadFrame(s) /\ Serving(s)
  BY ThreadKeeps DEF ThreadMove, ThreadStep, IndInv, EchoInd
<1>1. /\ phase[s] = "batch" /\ k \in armed[s] /\ k \in open /\ k \in Owned(s) /\ Valid(k)
      /\ LostHello(k) \/ (Written(k) >= 2 /\ taken[k] = Written(k) - 1)
      /\ UNCHANGED <<client, up, down, got, queue, open, late, arrived, end>>
      /\ \A c \in Conns \ {k} : taken'[c] = taken[c]
      /\ \A c \in Conns : Written(c)' = Written(c) /\ (LostHello(c) /\ c # k => LostHello(c)')
  BY EchoServes
<1>2. /\ phase'[s] = "batch" /\ armed'[s] = armed[s] \ {k} /\ taken'[k] = arrived[k]
      /\ buf' = buf /\ taken[k] + MsgUnits > arrived[k]
  BY <1>0 DEF RecvShort, Serves, Goes, TypeOK, ClientTypeOK
<1>3. Right(k)'
  <2>1. Right(k) /\ taken'[k] >= taken[k] /\ taken[k] \in Nat /\ taken'[k] \in Nat /\ Written(k) \in Nat
    BY <1>2, Facts DEF EchoInd
  <2>2. QED
    BY <1>1, <2>1 DEF Right
<1>4. Pace(k)'
  BY <1>1 DEF EchoInd, Pace
<1>5. \A c \in Conns \ {k} : Holds(s, c) => Holds(s, c)'
  BY <1>1, <1>2 DEF Holds, Greeting
<1>6. MsgUnits <= Capacity /\ k \in Whole \ Eager => client[k] = "gone"
  <2> SUFFICES ASSUME MsgUnits <= Capacity, k \in Whole \ Eager, client[k] # "gone" PROVE FALSE
    OBVIOUS
  <2>1. Written(k) >= 2 /\ taken[k] = Written(k) - 1 /\ arrived[k] > taken[k]
    BY <1>1 DEF LostHello, Valid, Ended
  <2>2. /\ Written(k) \in Nat /\ up[k] \in Nat /\ taken[k] \in Nat /\ got[k] \in Nat
        /\ arrived[k] \in Nat /\ arrived[k] <= up[k]
    BY Facts
  <2>3. client[k] = "running" /\ got[k] >= 2 /\ got[k] <= Written(k)
    <3>1. up[k] > 1
      BY <2>1, <2>2
    <3>2. QED
      BY <3>1, Talking
  <2>4. /\ Written(k) = got[k] \/ Written(k) = got[k] + MsgUnits
        /\ arrived[k] = 0 \/ arrived[k] = up[k] \/ arrived[k] = got[k] - 1
        /\ up[k] = got[k] - 1 \/ up[k] = got[k] - 1 + MsgUnits
    BY <2>3 DEF EchoInd, Steady, Pace
  <2>5. arrived[k] = got[k] - 1 + MsgUnits
    BY <2>1, <2>2, <2>3, <2>4
  <2>6. QED
    BY <1>2, <2>1, <2>2, <2>4, <2>5
<1>7. MsgUnits <= Capacity /\ k \in Whole \ Eager => Steady(k)'
  BY <1>1, <1>6 DEF Steady
<1>8. Serving(s)'
  <2>1. armed[s] \subseteq Conns
    BY <1>0 DEF TypeOK
  <2>2. \A c \in armed'[s] : (LostHello(c) \/ (Written(c) >= 2 /\ taken[c] = Written(c) - 1))'
    BY <1>0, <1>1, <1>2, <2>1 DEF Serving
  <2>3. QED
    BY <1>0, <1>1, <1>2, <2>1, <2>2 DEF Serving
<1>9. QED
  BY <1>0, <1>1, <1>2, <1>3, <1>4, <1>5, <1>7, <1>8, EchoThread

\* A reply, or the part of one that fits, has n units.
LEMMA ReplyUnits ==
  ASSUME IndInv, EchoInd, NEW k \in Conns, NEW s \in Shards, cur[s] = k, phase[s] = "reply",
         NEW part \in Seq(Nat), Len(part) <= MsgUnits, \A i \in 1..Len(part) : part[i] = buf[s][i],
         down'[k] = down[k] \o part, taken'[k] = taken[k]
  PROVE  /\ Written(k)' = Written(k) + Len(part)
         /\ k \in open /\ open' = open => Right(k)'
<1> USE Sizes
<1>1. /\ Written(k) >= 2 /\ taken[k] = Written(k) - 1 + MsgUnits
      /\ \A i \in 1..MsgUnits : buf[s][i] = Written(k) - 1 + i
  BY DEF EchoInd, Serving
<1>2. /\ down[k] \in Seq(Nat) /\ Written(k) \in Nat /\ Len(part) \in Nat
      /\ \A i \in 1..Written(k) : down[k][i] = Owed(i)
  BY ConnType, Facts DEF IndInv, EchoInd, Right
<1>3. /\ Len(down'[k]) = Written(k) + Len(part)
      /\ \A i \in 1..(Written(k) + Len(part)) :
           down'[k][i] = IF i <= Written(k) THEN down[k][i] ELSE part[i - Written(k)]
  BY <1>2, ConcatProperties DEF Written
<1>4. ASSUME NEW i \in 1..(Written(k) + Len(part))
      PROVE  down'[k][i] = Owed(i)
  <2>1. CASE i <= Written(k)
    BY <1>2, <1>3, <2>1
  <2>2. CASE i > Written(k)
    <3> DEFINE j == i - Written(k)
    <3>1. i \in Nat /\ j \in 1..Len(part) /\ j \in 1..MsgUnits
      BY <1>2, <2>2
    <3>2. down'[k][i] = part[j]
      <4>1. down'[k][i] = IF i <= Written(k) THEN down[k][i] ELSE part[i - Written(k)]
        BY <1>3
      <4>2. ~(i <= Written(k))
        BY <1>2, <2>2, <3>1
      <4>3. QED
        BY <4>1, <4>2
    <3>3. part[j] = Written(k) - 1 + j
      <4> HIDE DEF j
      <4>1. part[j] = buf[s][j] /\ buf[s][j] = Written(k) - 1 + j
        BY <1>1, <3>1
      <4>2. QED
        BY <4>1
    <3>4. Written(k) - 1 + j = i - 1 /\ i > 2
      BY <1>1, <1>2, <2>2, <3>1
    <3>5. QED
      BY <3>1, <3>2, <3>3, <3>4 DEF Owed
  <2>3. i \in Nat /\ Written(k) \in Nat
    BY <1>2
  <2>4. i <= Written(k) \/ i > Written(k)
    BY <2>3
  <2>5. QED
    BY <2>1, <2>2, <2>4
<1>5. Written(k)' = Written(k) + Len(part)
  BY <1>3 DEF Written
<1>6. Written(k)' # 1 /\ Written(k)' <= taken'[k] + 1
  BY <1>1, <1>2, <1>5
<1>7. QED
  BY <1>4, <1>5, <1>6 DEF Right, Owed

\* A thread replies to a client that is gone or has read all it was sent.
LEMMA ReplyDue ==
  ASSUME IndInv, EchoInd, NEW k \in Conns, NEW s \in Shards, cur[s] = k, phase[s] = "reply",
         MsgUnits <= Capacity, k \in Whole \ Eager, client[k] # "gone"
  PROVE  client[k] = "running" /\ Written(k) = got[k]
<1> USE Sizes
<1>1. Written(k) >= 2 /\ taken[k] = Written(k) - 1 + MsgUnits
  BY DEF EchoInd, Serving
<1>2. /\ Written(k) \in Nat /\ up[k] \in Nat /\ taken[k] \in Nat /\ got[k] \in Nat
      /\ arrived[k] \in Nat /\ taken[k] <= arrived[k] /\ arrived[k] <= up[k]
  BY Facts
<1>3. client[k] = "running"
  BY <1>1, <1>2, Talking
<1>4. /\ Written(k) = got[k] \/ Written(k) = got[k] + MsgUnits
      /\ up[k] = got[k] - 1 \/ up[k] = got[k] - 1 + MsgUnits
  BY <1>3 DEF EchoInd, Steady, Pace
<1>5. QED
  BY <1>1, <1>2, <1>3, <1>4

\* What a thread replies to is open and its own.
LEMMA Replies ==
  ASSUME IndInv, EchoInd, NEW s \in Shards, phase[s] = "reply"
  PROVE  /\ cur[s] \in Conns /\ cur[s] \in armed[s] /\ cur[s] \in open /\ cur[s] \in Owned(s)
         /\ buf[s] \in Seq(Nat) /\ Len(buf[s]) = MsgUnits
<1>1. cur[s] \in armed[s] /\ armed[s] \subseteq Conns /\ buf[s] \in [1..MsgUnits -> Nat]
  BY DEF IndInv, OwnerInv, Local, TypeOK
<1>2. QED
  BY <1>1, Sizes DEF EchoInd, Serving, Owned

LEMMA EchoReply ==
  ASSUME IndInv, EchoInd, NEW s \in Shards, Reply(s), NEW k \in Conns, k = cur[s]
  PROVE  EchoInd'
<1> USE Sizes
<1>0. TypeOK /\ ThreadFrame(s) /\ Serving(s)
  BY ThreadKeeps DEF ThreadMove, ThreadStep, IndInv, EchoInd
<1>1. /\ phase[s] = "reply" /\ phase'[s] = "batch"
      /\ UNCHANGED <<client, up, taken, got, cur, buf, queue, armed, open, arrived, end>>
      /\ down'[k] = down[k] \o buf[s]
      /\ late' = late \/ (client[k] = "gone" /\ late' = late \cup {k})
      /\ \A c \in Conns \ {k} : down'[c] = down[c]
  BY <1>0 DEF Reply, Goes, Late, networkVars, TypeOK, ClientTypeOK
<1>2. k \in armed[s] /\ k \in open /\ k \in Owned(s) /\ buf[s] \in Seq(Nat) /\ Len(buf[s]) = MsgUnits
  BY <1>1, Replies
<1>3. Written(k)' = Written(k) + MsgUnits /\ Right(k)'
  <2>1. /\ down'[k] = down[k] \o buf[s] /\ taken'[k] = taken[k] /\ open' = open /\ k \in open
        /\ Len(buf[s]) <= MsgUnits /\ \A i \in 1..Len(buf[s]) : buf[s][i] = buf[s][i]
        /\ cur[s] = k /\ phase[s] = "reply" /\ buf[s] \in Seq(Nat)
    BY <1>1, <1>2
  <2>2. Written(k)' = Written(k) + Len(buf[s]) /\ Right(k)'
    BY <2>1, ReplyUnits
  <2>3. QED
    BY <1>2, <2>2
<1>4. \A c \in Conns \ {k} : Written(c)' = Written(c)
  BY <1>1 DEF Written
<1>5. Written(k) >= 2 /\ taken[k] = Written(k) - 1 + MsgUnits
  BY <1>0, <1>1 DEF Serving
<1>6. Pace(k)'
  <2>1. Written(k) \in Nat /\ got[k] \in Nat /\ got[k] <= Written(k)
    BY Facts DEF EchoInd, Pace
  <2>2. got[k] < Written(k)' /\ Written(k)' >= 2
    BY <1>3, <1>5, <2>1
  <2>3. QED
    BY <1>1, <1>3, <2>1, <2>2 DEF EchoInd, Pace
<1>7. \A c \in Conns : Holds(s, c) => Holds(s, c)'
  BY <1>1 DEF Holds, Greeting
<1>8. MsgUnits <= Capacity /\ k \in Whole \ Eager => Steady(k)'
  <2> SUFFICES ASSUME MsgUnits <= Capacity, k \in Whole \ Eager, client[k] # "gone" PROVE Steady(k)'
    BY <1>1 DEF Steady
  <2>1. Written(k)' = got'[k] + MsgUnits
    BY <1>1, <1>3, ReplyDue
  <2>2. Holds(s, k)'
    BY <1>1, <1>2 DEF Holds
  <2>3. QED
    BY <1>1, <2>1, <2>2 DEF EchoInd, Steady
<1>9. Serving(s)'
  <2>1. armed[s] \subseteq Conns
    BY <1>0 DEF TypeOK
  <2>2. \A c \in armed[s] \ {k} : (LostHello(c) \/ (Written(c) >= 2 /\ taken[c] = Written(c) - 1))'
    BY <1>0, <1>1, <1>4, <2>1 DEF Serving, LostHello
  <2>3. Written(k)' >= 2 /\ taken'[k] = Written(k)' - 1
    BY <1>1, <1>3, <1>5, Facts
  <2>4. QED
    BY <1>0, <1>1, <2>2, <2>3 DEF Serving
<1>10. QED
  BY <1>0, <1>1, <1>2, <1>3, <1>4, <1>6, <1>7, <1>8, <1>9, EchoThread

\* The part of a reply that fits.
LEMMA PartFits ==
  ASSUME IndInv, NEW k \in Conns, NEW whole \in Seq(Nat), Len(whole) = MsgUnits, Free(k) < MsgUnits,
         NEW part, part = SubSeq(whole, 1, Free(k))
  PROVE  /\ part \in Seq(Nat) /\ Len(part) \in Nat /\ Len(part) <= MsgUnits
         /\ \A i \in 1..Len(part) : part[i] = whole[i]
<1> USE Sizes
<1>1. Free(k) \in Int
  BY Facts, EpollAssumption DEF Free, Written
<1>2. \A i \in 1..Free(k) : i \in 1..MsgUnits /\ whole[i] \in Nat
  <2>1. \A i \in 1..Free(k) : i \in 1..MsgUnits
    BY <1>1
  <2>2. QED
    BY <2>1
<1>3. /\ part \in Seq(Nat) /\ Len(part) = IF 1 <= Free(k) THEN Free(k) - 1 + 1 ELSE 0
      /\ \A i \in 1..(Free(k) - 1 + 1) : part[i] = whole[1 + i - 1]
  BY <1>1, <1>2, SubSeqProperties
<1>4. Free(k) - 1 + 1 = Free(k) /\ \A i \in Int : 1 + i - 1 = i
  BY <1>1
<1>5. QED
  BY <1>1, <1>3, <1>4

LEMMA EchoReplyShort ==
  ASSUME IndInv, EchoInd, NEW s \in Shards, ReplyShort(s), NEW k \in Conns, k = cur[s]
  PROVE  EchoInd'
<1> USE Sizes
<1>0. TypeOK /\ ThreadFrame(s) /\ Serving(s)
  BY ThreadKeeps DEF ThreadMove, ThreadStep, IndInv, EchoInd
<1>1. /\ phase[s] = "reply" /\ phase'[s] = "batch" /\ armed'[s] = armed[s] \ {k}
      /\ UNCHANGED <<client, up, taken, got, cur, buf, queue, open, late, arrived, end>>
      /\ \A c \in Conns \ {k} : down'[c] = down[c]
      /\ \/ client[k] = "gone" /\ down'[k] = down[k]
         \/ client[k] # "gone" /\ Free(k) < MsgUnits
            /\ down'[k] = down[k] \o SubSeq(buf[s], 1, Free(k))
  BY <1>0 DEF ReplyShort, Goes, networkVars, TypeOK, ClientTypeOK
<1>2. k \in armed[s] /\ k \in open /\ k \in Owned(s) /\ buf[s] \in Seq(Nat) /\ Len(buf[s]) = MsgUnits
  BY <1>1, Replies
<1>3. Right(k) /\ Written(k) \in Nat /\ got[k] \in Nat
  BY Facts DEF EchoInd
<1>4. Written(k)' \in Nat /\ Written(k)' >= Written(k) /\ Right(k)'
  <2>1. CASE down'[k] = down[k]
    BY <1>1, <1>3, <2>1 DEF Right, Written
  <2>2. CASE Free(k) < MsgUnits /\ down'[k] = down[k] \o SubSeq(buf[s], 1, Free(k))
    <3> DEFINE part == SubSeq(buf[s], 1, Free(k))
    <3>1. /\ part \in Seq(Nat) /\ Len(part) \in Nat /\ Len(part) <= MsgUnits
          /\ \A i \in 1..Len(part) : part[i] = buf[s][i]
      BY ZenonT(40), <1>2, <2>2, PartFits
    <3> HIDE DEF part
    <3>2. down'[k] = down[k] \o part /\ taken'[k] = taken[k] /\ open' = open
      BY <1>1, <2>2 DEF part
    <3>3. Written(k)' = Written(k) + Len(part) /\ Right(k)'
      BY <1>1, <1>2, <3>1, <3>2, ReplyUnits
    <3>4. QED
      BY <1>3, <3>1, <3>3
  <2>3. QED
    BY <1>1, <2>1, <2>2
<1>5. \A c \in Conns \ {k} : Written(c)' = Written(c)
  BY <1>1 DEF Written
<1>6. Pace(k)'
  <2>1. Pace(k) /\ (got[k] < Written(k) => got[k] < Written(k)') /\ got[k] <= Written(k)'
        /\ (Written(k) >= 2 => Written(k)' >= 2)
    BY <1>3, <1>4 DEF EchoInd, Pace
  <2>2. QED
    BY <1>1, <2>1 DEF Pace
<1>7. \A c \in Conns \ {k} : Holds(s, c) => Holds(s, c)'
  BY <1>1 DEF Holds, Greeting
<1>8. MsgUnits <= Capacity /\ k \in Whole \ Eager => client[k] = "gone"
  <2> SUFFICES ASSUME MsgUnits <= Capacity, k \in Whole \ Eager, client[k] # "gone" PROVE FALSE
    OBVIOUS
  <2>1. Written(k) = got[k] /\ Free(k) < MsgUnits
    BY <1>1, ReplyDue
  <2>2. QED
    BY <1>3, <2>1, EpollAssumption DEF Free, Written
<1>9. MsgUnits <= Capacity /\ k \in Whole \ Eager => Steady(k)'
  BY <1>1, <1>8 DEF Steady
<1>10. Serving(s)'
  <2>1. armed[s] \subseteq Conns
    BY <1>0 DEF TypeOK
  <2>2. \A c \in armed'[s] : (LostHello(c) \/ (Written(c) >= 2 /\ taken[c] = Written(c) - 1))'
    BY <1>0, <1>1, <1>5, <2>1 DEF Serving, LostHello
  <2>3. QED
    BY <1>0, <1>1, <2>1, <2>2 DEF Serving
<1>11. QED
  BY <1>0, <1>1, <1>2, <1>4, <1>5, <1>6, <1>7, <1>9, <1>10, EchoThread

LEMMA EchoStepThread ==
  ASSUME IndInv, EchoInd, MsgUnits > HelloUnits, NEW s \in Shards, ThreadMove(s)
  PROVE  EchoInd'
<1>1. TypeOK /\ Local(s)
  BY DEF IndInv, OwnerInv
<1>2. CASE Start(s) \/ EndBatch(s) \/ EpollWait(s)
  <2>1. /\ UNCHANGED <<clientVars, cur, buf, queue, armed, open, late, arrived, end>>
        /\ \A t \in Shards \ {s} : phase'[t] = phase[t]
        /\ {phase[s], phase'[s]} \subseteq {"off", "wait", "batch"}
    BY <1>1, <1>2 DEF Start, EndBatch, EpollWait, Goes, networkVars, TypeOK
  <2>2. QED
    BY <2>1, EchoQuiet
<1>3. CASE EpollWaitFails(s) \/ Killed(s) \/ AcceptFail(s)
  <2>1. UNCHANGED <<clientVars, phase, cur, buf, queue, armed, open, late, arrived, end>>
    BY <1>3 DEF EpollWaitFails, Killed, AcceptFail, Exits, networkVars
  <2>2. QED
    BY <2>1, EchoQuiet
<1>4. CASE SendSize(s) \/ RecvHello(s) \/ GreetFails(s)
  <2>1. cur[s] \in Conns
    BY <1>1, <1>4 DEF SendSize, RecvHello, GreetFails, Registers, Goes, Local, Greeting
  <2>2. QED
    BY <1>4, <2>1, EchoSendSize, EchoGreeted
<1>5. CASE Reply(s) \/ ReplyShort(s)
  <2>1. cur[s] \in Conns
    BY <1>5, Replies DEF Reply, ReplyShort, Goes
  <2>2. QED
    BY <1>5, <2>1, EchoReply, EchoReplyShort
<1>6. QED
  BY <1>2, <1>3, <1>4, <1>5, EchoAccept, EchoRecv, EchoRecvShort DEF ThreadMove, ThreadStep

-----------------------------------------------------------------------------
\* The network and the clients.

LEMMA EchoWorld ==
  ASSUME IndInv, EchoInd, NEW k \in Conns,
         UNCHANGED <<phase, cur, buf, armed, open, late, taken, down>>,
         \A s \in Shards : queue'[s] \cap open = {},
         \A c \in Conns \ {k} : /\ client'[c] = client[c] /\ up'[c] = up[c] /\ got'[c] = got[c]
                                /\ arrived'[c] = arrived[c] /\ end'[c] = end[c],
         LostHello(k) => LostHello(k)',
         Pace(k)',
         MsgUnits <= Capacity /\ k \in Whole \ Eager => Steady(k)'
  PROVE  EchoInd'
<1>1. \A c \in Conns : Written(c)' = Written(c) /\ (LostHello(c) => LostHello(c)')
  BY DEF Written, LostHello
<1>2. ASSUME NEW c \in Conns PROVE Right(c)' /\ Pace(c)'
  <2>1. Right(c)'
    BY <1>1 DEF EchoInd, Right
  <2>2. c # k => Pace(c)'
    BY <1>1 DEF EchoInd, Pace
  <2>3. QED
    BY <2>1, <2>2
<1>3. ASSUME NEW s \in Shards PROVE Serving(s)'
  <2>1. /\ Serving(s) /\ armed[s] \subseteq Conns
        /\ phase[s] \in {"send_size", "recv_hello", "reply"} => cur[s] \in Conns
    BY DEF EchoInd, IndInv, TypeOK, OwnerInv, Local, Greeting
  <2>2. QED
    BY <1>1, <2>1 DEF Serving
<1>4. ASSUME MsgUnits <= Capacity, NEW c \in Whole \ Eager PROVE Steady(c)'
  <2>1. c \in Conns
    BY EpollAssumption
  <2>2. c # k => Steady(c)'
    BY <1>1, <1>4, <2>1 DEF EchoInd, Steady, Holds, Greeting
  <2>3. QED
    BY <1>4, <2>2
<1>5. QED
  BY <1>2, <1>3, <1>4 DEF EchoInd

LEMMA EchoArrive ==
  ASSUME IndInv, EchoInd, NEW k \in Conns, Arrive(k)
  PROVE  EchoInd'
<1>0. TypeOK
  BY DEF IndInv
<1>1. /\ UNCHANGED <<clientVars, serverVars, end>> /\ arrived[k] < Sent(k)
      /\ \A c \in Conns \ {k} : arrived'[c] = arrived[c]
      /\ k \in Whole => arrived'[k] = Sent(k)
  BY <1>0 DEF Arrive, TypeOK
<1>2. UNCHANGED <<phase, cur, buf, queue, armed, open, late, taken, down, client, up, got, end>>
  BY <1>1 DEF clientVars, serverVars
<1>3. Written(k)' = Written(k)
  BY <1>2 DEF Written
<1>4. LostHello(k) => LostHello(k)'
  BY <1>1, <1>2, <1>3, Facts DEF LostHello, Sent
<1>5. Pace(k)'
  BY <1>2, <1>3 DEF EchoInd, Pace
<1>6. MsgUnits <= Capacity /\ k \in Whole \ Eager => Steady(k)'
  BY <1>1, <1>2, <1>3 DEF EchoInd, Steady, Sent, Holds, Greeting
<1>7. \A s \in Shards : queue'[s] \cap open = {}
  BY <1>2 DEF EchoInd, Serving
<1>8. QED
  BY <1>1, <1>2, <1>4, <1>5, <1>6, <1>7, EchoWorld

LEMMA EchoLeave ==
  ASSUME IndInv, EchoInd, NEW k \in Conns, Leave(k)
  PROVE  EchoInd'
<1>0. TypeOK /\ ClientTypeOK
  BY DEF IndInv, TypeOK
<1>1. /\ UNCHANGED <<phase, cur, buf, queue, armed, open, late, taken, down, up, got, arrived>>
      /\ client[k] # "gone" /\ client'[k] = "gone"
      /\ \A c \in Conns \ {k} : client'[c] = client[c] /\ end'[c] = end[c]
  BY <1>0 DEF Leave, ClientExit, serverVars, TypeOK, ClientTypeOK
<1>2. Written(k)' = Written(k)
  BY <1>1 DEF Written
<1>3. Pace(k)'
  BY <1>1, <1>2 DEF EchoInd, Pace
<1>4. ~LostHello(k) /\ Steady(k)'
  BY <1>1 DEF LostHello, Steady
<1>5. \A s \in Shards : queue'[s] \cap open = {}
  BY <1>1 DEF EchoInd, Serving
<1>6. QED
  BY <1>1, <1>3, <1>4, <1>5, EchoWorld

LEMMA EchoConnect ==
  ASSUME IndInv, EchoInd, NEW k \in Conns, Connect(k)
  PROVE  EchoInd'
<1>0. TypeOK /\ ClientTypeOK
  BY DEF IndInv, TypeOK
<1>1. /\ UNCHANGED <<phase, cur, buf, armed, open, late, taken, down, up, got, arrived, end>>
      /\ client[k] = "idle" /\ client'[k] = "connected"
      /\ \A c \in Conns \ {k} : client'[c] = client[c]
  BY <1>0 DEF Connect, ClientConnect, ClientMoves, networkVars, ClientTypeOK
<1>2. Written(k)' = Written(k)
  BY <1>1 DEF Written
<1>3. k \notin open /\ ~LostHello(k)
  BY <1>1 DEF EchoInd, Pace, LostHello
<1>4. Pace(k)'
  BY <1>1, <1>2, <1>3 DEF EchoInd, Pace
<1>5. MsgUnits <= Capacity /\ k \in Whole \ Eager => Steady(k)'
  BY <1>1, <1>2, <1>3 DEF EchoInd, Steady
<1>6. \A s \in Shards : queue'[s] \cap open = {}
  <2>1. \A s \in Shards : queue'[s] \subseteq queue[s] \cup {k}
    BY <1>0 DEF Connect, TypeOK
  <2>2. QED
    BY <1>3, <2>1 DEF EchoInd, Serving
<1>7. QED
  BY <1>1, <1>3, <1>4, <1>5, <1>6, EchoWorld

\* What the client does keeps to its pace.
LEMMA TalkPace ==
  ASSUME IndInv, EchoInd, NEW k \in Conns, ClientStep(k), UNCHANGED <<open, late>>
  PROVE  Pace(k)'
<1> USE Sizes
<1>0. ClientTypeOK
  BY DEF IndInv, TypeOK
<1>1. Pace(k) /\ Right(k) /\ Stream(k)
  BY DEF EchoInd, IndInv
<1>2. /\ Written(k) \in Nat /\ up[k] \in Nat /\ taken[k] \in Nat /\ got[k] \in Nat
      /\ taken[k] <= up[k] /\ (Written(k) <= 2 \/ Written(k) <= up[k] + 1)
  BY <1>1, Facts DEF Right
<1>3. CASE ClientHello(k)
  <2>1. /\ client[k] = "connected" /\ client'[k] = "hello" /\ up'[k] = 1
        /\ got' = got /\ down' = down
    BY <1>0, <1>3 DEF ClientHello, ClientMoves, ClientTypeOK
  <2>2. QED
    BY <1>1, <1>2, <2>1 DEF Pace, Written
<1>4. CASE ClientSize(k)
  <2>1. /\ client[k] = "hello" /\ client'[k] = "running" /\ got'[k] = 2
        /\ up' = up /\ down' = down /\ Written(k) >= 2
    BY <1>0, <1>4 DEF ClientSize, ClientMoves, ClientTypeOK, Written
  <2>2. up[k] = 1 /\ Written(k)' = Written(k)
    BY <1>1, <2>1 DEF Pace, Written
  <2>3. QED
    BY <1>1, <1>2, <2>1, <2>2 DEF Pace
<1>5. CASE ClientSend(k)
  <2>1. /\ client[k] = "running" /\ up'[k] = up[k] + MsgUnits
        /\ client' = client /\ got' = got /\ down' = down
        /\ up[k] - 1 < (got[k] - 2) + Window(k) * MsgUnits
    BY <1>0, <1>5 DEF ClientSend, ClientTypeOK
  <2>2. Written(k)' = Written(k) /\ got[k] >= 2 /\ Written(k) >= 2
    BY <1>1, <1>2, <2>1 DEF Pace, Written
  <2>3. k \notin Eager => up[k] = got[k] - 1
    <3> SUFFICES ASSUME k \notin Eager PROVE up[k] = got[k] - 1
      OBVIOUS
    <3>1. up[k] - 1 < (got[k] - 2) + MsgUnits
      BY <2>1 DEF Window
    <3>2. up[k] = got[k] - 1 \/ up[k] = got[k] - 1 + MsgUnits
      BY <1>1, <2>1 DEF Pace
    <3>3. QED
      BY <1>2, <3>1, <3>2
  <2>4. k \notin Eager => up'[k] = got[k] - 1 + MsgUnits
    BY <1>2, <2>1, <2>3
  <2>5. QED
    BY <1>1, <1>2, <2>1, <2>2, <2>4 DEF Pace
<1>6. CASE ClientRecv(k)
  <2>1. /\ client[k] = "running" /\ got'[k] = got[k] + MsgUnits
        /\ client' = client /\ up' = up /\ down' = down
        /\ Written(k) >= got[k] + MsgUnits
    BY <1>0, <1>6 DEF ClientRecv, ClientTypeOK, Written
  <2>2. Written(k)' = Written(k) /\ got[k] >= 2
    BY <1>1, <2>1 DEF Pace, Written
  <2>3. k \notin Eager => up[k] = got'[k] - 1
    <3> SUFFICES ASSUME k \notin Eager PROVE up[k] = got'[k] - 1
      OBVIOUS
    <3>1. up[k] = got[k] - 1 \/ up[k] = got[k] - 1 + MsgUnits
      BY <1>1, <2>1 DEF Pace
    <3>2. Written(k) <= up[k] + 1
      BY <1>2, <2>1, <2>2
    <3>3. QED
      BY <1>2, <2>1, <3>1, <3>2
  <2>4. got'[k] \in Nat /\ got'[k] >= 2
    BY <1>2, <2>1, <2>2
  <2>5. QED
    BY <1>1, <1>2, <2>1, <2>2, <2>3, <2>4 DEF Pace
<1>7. QED
  BY <1>3, <1>4, <1>5, <1>6 DEF ClientStep

\* ... and, if it waits for its replies, to what may be on its way.
LEMMA TalkSteady ==
  ASSUME IndInv, EchoInd, NEW k \in Conns \ Eager, Steady(k), ClientStep(k),
         UNCHANGED <<arrived, open, armed, phase, cur>>
  PROVE  Steady(k)'
<1> USE Sizes
<1>0. ClientTypeOK /\ client[k] # "gone"
  BY DEF IndInv, TypeOK, ClientStep, ClientHello, ClientSize, ClientSend, ClientRecv, ClientMoves
<1>1. Pace(k) /\ Right(k) /\ Stream(k)
  BY DEF EchoInd, IndInv
<1>2. /\ Written(k) \in Nat /\ up[k] \in Nat /\ taken[k] \in Nat /\ got[k] \in Nat
      /\ arrived[k] \in Nat /\ arrived[k] <= up[k] /\ taken[k] <= arrived[k]
      /\ (Written(k) <= 2 \/ Written(k) <= arrived[k] + 1)
  BY <1>1, Facts DEF Right
<1>3. k \in open' => \E s \in Shards : Holds(s, k)'
  BY <1>0 DEF Steady, Holds, Greeting
<1>4. /\ client[k] = "running" => Written(k) = got[k] \/ Written(k) = got[k] + MsgUnits
      /\ arrived[k] = 0 \/ arrived[k] = up[k] \/ (got[k] >= 2 /\ arrived[k] = got[k] - 1)
  BY <1>0 DEF Steady
<1>5. CASE ClientHello(k)
  <2>1. /\ client[k] = "connected" /\ client'[k] = "hello" /\ up[k] = 0
    BY <1>0, <1>1, <1>5 DEF ClientHello, ClientMoves, ClientTypeOK, Stream
  <2>2. arrived[k] = 0
    BY <1>2, <2>1
  <2>3. QED
    BY <1>3, <2>1, <2>2 DEF Steady
<1>6. CASE ClientSize(k)
  <2>1. /\ client[k] = "hello" /\ got'[k] = 2 /\ up' = up /\ down' = down /\ Written(k) >= 2
    BY <1>0, <1>6 DEF ClientSize, ClientMoves, ClientTypeOK, Written
  <2>2. up[k] = 1 /\ Written(k)' = Written(k)
    BY <1>1, <2>1 DEF Pace, Written
  <2>3. Written(k)' = got'[k] /\ (arrived[k] = 0 \/ arrived[k] = up'[k])
    BY <1>2, <2>1, <2>2
  <2>4. QED
    BY <1>3, <2>3 DEF Steady
<1>7. CASE ClientSend(k)
  <2>1. /\ client[k] = "running" /\ client' = client /\ got' = got /\ down' = down
        /\ up[k] - 1 < (got[k] - 2) + MsgUnits
    BY <1>0, <1>7 DEF ClientSend, ClientTypeOK, Window
  <2>2. Written(k)' = Written(k) /\ got[k] >= 2
    BY <1>1, <2>1 DEF Pace, Written
  <2>3. up[k] = got[k] - 1 \/ up[k] = got[k] - 1 + MsgUnits
    BY <1>1, <2>1 DEF Pace
  <2>4. up[k] = got[k] - 1
    BY <1>2, <2>1, <2>3
  <2>5. arrived[k] = 0 \/ arrived[k] = got[k] - 1
    BY <1>4, <2>4
  <2>6. QED
    BY <1>3, <1>4, <2>1, <2>2, <2>5 DEF Steady
<1>8. CASE ClientRecv(k)
  <2>1. /\ client[k] = "running" /\ got'[k] = got[k] + MsgUnits
        /\ client' = client /\ up' = up /\ down' = down
        /\ Written(k) >= got[k] + MsgUnits
    BY <1>0, <1>8 DEF ClientRecv, ClientTypeOK, Written
  <2>2. Written(k)' = Written(k) /\ got[k] >= 2
    BY <1>1, <2>1 DEF Pace, Written
  <2>3. Written(k) = got'[k]
    BY <1>2, <1>4, <2>1
  <2>4. arrived[k] >= got[k] - 1 + MsgUnits
    BY <1>2, <2>1, <2>2
  <2>5. arrived[k] = up[k]
    BY <1>2, <1>4, <2>2, <2>4
  <2>6. QED
    BY <1>3, <2>1, <2>2, <2>3, <2>5 DEF Steady
<1>9. QED
  BY <1>5, <1>6, <1>7, <1>8 DEF ClientStep

LEMMA EchoTalk ==
  ASSUME IndInv, EchoInd, NEW k \in Conns, Talk(k)
  PROVE  EchoInd'
<1>0. TypeOK /\ ClientTypeOK
  BY DEF IndInv, TypeOK
<1>1. /\ UNCHANGED <<phase, cur, buf, queue, armed, open, late, taken, down, arrived, end>>
      /\ \A c \in Conns \ {k} : client'[c] = client[c] /\ up'[c] = up[c] /\ got'[c] = got[c]
      /\ client[k] # "gone" /\ ClientStep(k)
  BY <1>0 DEF Talk, ClientStep, ClientHello, ClientSize, ClientSend, ClientRecv, ClientMoves,
              ClientTypeOK, serverVars, networkVars
<1>2. ~LostHello(k)
  BY <1>1 DEF LostHello
<1>3. Pace(k)'
  BY <1>1, TalkPace
<1>4. MsgUnits <= Capacity /\ k \in Whole \ Eager => Steady(k)'
  BY <1>1, TalkSteady DEF EchoInd
<1>5. \A s \in Shards : queue'[s] \cap open = {}
  BY <1>1 DEF EchoInd, Serving
<1>6. QED
  BY <1>1, <1>2, <1>3, <1>4, <1>5, EchoWorld

LEMMA EchoStep == IndInv /\ EchoInd /\ MsgUnits > HelloUnits /\ [Next]_vars => EchoInd'
<1> SUFFICES ASSUME IndInv, EchoInd, MsgUnits > HelloUnits, [Next]_vars PROVE EchoInd'
  OBVIOUS
<1>1. ASSUME NEW s \in Shards, ThreadMove(s) PROVE EchoInd'
  BY <1>1, EchoStepThread
<1>2. ASSUME NEW c \in Conns, Arrive(c) \/ Connect(c) \/ Talk(c) \/ Leave(c) PROVE EchoInd'
  BY <1>2, EchoArrive, EchoConnect, EchoTalk, EchoLeave
<1>3. CASE UNCHANGED vars
  BY <1>3 DEF vars, clientVars, serverVars, networkVars, EchoInd, Right, Pace, Serving, Steady,
              LostHello, Holds, Greeting, Written
<1>4. QED
  BY <1>1, <1>2, <1>3 DEF Next, ThreadMove

-----------------------------------------------------------------------------
\* The theorems.

LEMMA EchoAlways ==
  ASSUME MsgUnits > HelloUnits
  PROVE  Spec => [](IndInv /\ EchoInd)
<1>1. MsgUnits > HelloUnits
  OBVIOUS
<1>2. IndInv /\ EchoInd /\ [Next]_vars => EchoInd'
  BY <1>1, EchoStep
<1>3. QED
  BY IndInit, IndStep, EchoInit, <1>2, PTL DEF Spec

\* What any thread writes to any client is the announcement and that client's
\* own messages, although one buffer serves all connections of the thread (84-103).
\* Messages must be longer than "Hi": a connection whose greeting failed stays in
\* the epoll instance, and a one-unit message would be what the greeting left.
THEOREM EpollEchoes ==
  ASSUME MsgUnits > HelloUnits
  PROVE  Spec => []EchoOk
<1>1. IndInv /\ EchoInd => EchoOk
  <2> SUFFICES ASSUME IndInv, EchoInd, NEW c \in Conns PROVE down[c] = EchoOf(c, Len(down[c]))
    BY DEF EchoOk
  <2>1. down[c] \in Seq(Nat) /\ Len(down[c]) \in Nat /\ \A i \in 1..Len(down[c]) : down[c][i] = Owed(i)
    BY ConnType, Facts DEF IndInv, EchoInd, Right, Written
  <2>2. \A i \in 1..Len(down[c]) : Owed(i) = IF i <= AnnounceUnits THEN 0 ELSE HelloUnits + i - AnnounceUnits
    BY <2>1, Sizes DEF Owed
  <2>3. down[c] = [i \in 1..Len(down[c]) |-> down[c][i]]
    BY <2>1
  <2>4. QED
    BY <2>1, <2>2, <2>3 DEF EchoOf
<1>2. QED
  BY <1>1, EchoAlways, PTL

\* A client that waits for its replies never raises SIGPIPE: what is written to it
\* after it left answers its last message, and nothing follows (98).
THEOREM EpollNoSigpipe ==
  ASSUME MsgUnits > HelloUnits
  PROVE  Spec => []NoSigpipe
<1>1. IndInv /\ EchoInd => NoSigpipe
  <2> SUFFICES ASSUME IndInv, EchoInd, NEW s \in Shards, phase[s] = "reply", cur[s] \in late,
                      cur[s] \notin Eager
               PROVE  FALSE
    BY DEF NoSigpipe, Sigpipe
  <2> DEFINE k == cur[s]
  <2>1. k \in Conns
    BY Replies
  <2>2. Written(k) >= 2 /\ taken[k] = Written(k) - 1 + MsgUnits
    BY DEF EchoInd, Serving
  <2>3. got[k] < Written(k) /\ (up[k] <= 1 \/ up[k] <= got[k] - 1 + MsgUnits)
    BY <2>1 DEF EchoInd, Pace
  <2> HIDE DEF k
  <2>4. QED
    BY <2>1, <2>2, <2>3, Facts, Sizes
<1>2. QED
  BY <1>1, EchoAlways, PTL

\* A live client that waits for its replies and whose messages arrive whole is in
\* one epoll instance from its greeting on, when the socket buffers hold a message:
\* no recv of its messages and no send of its replies is cut short (92, 101).
THEOREM EpollKeeps ==
  ASSUME MsgUnits > HelloUnits, MsgUnits <= Capacity
  PROVE  Spec => []StaysWatched
<1>0. MsgUnits <= Capacity
  OBVIOUS
<1>1. IndInv /\ EchoInd => StaysWatched
  <2> SUFFICES ASSUME IndInv, EchoInd, NEW c \in open \cap (Whole \ Eager), client[c] # "gone"
               PROVE  Watched(c)
    BY DEF StaysWatched
  <2>1. PICK s \in Shards : Holds(s, c)
    BY <1>0 DEF EchoInd, Steady
  <2>2. \A t \in Shards : Holds(t, c) => c \in Owned(t)
    BY DEF Holds, Owned
  <2>3. \A t \in Shards : Holds(t, c) <=> t = s
    BY <2>1, <2>2 DEF IndInv, OwnerInv
  <2>4. {t \in Shards : Holds(t, c)} = {s}
    BY <2>3
  <2>5. Cardinality({s}) = 1
    BY FS_Singleton
  <2>6. QED
    BY <2>4, <2>5 DEF Watched, Holds, Greeting
<1>2. QED
  BY <1>1, EchoAlways, PTL

-----------------------------------------------------------------------------
\* The service.

Served == IndInv /\ EchoInd /\ EchoOk /\ \A c \in Conns : Cut(c)

LEMMA ServedMapped ==
  ASSUME Served, NEW c \in Conns
  PROVE  Mapped(c)
<1>1. /\ Len(down[c]) \in Nat /\ up[c] \in Nat /\ taken[c] \in Nat /\ taken[c] <= up[c]
      /\ AnnounceUnits = 2 /\ HelloUnits = 1
  BY Facts, Sizes DEF Served, Written
<1>2. down[c] \in Seq(Nat) /\ down[c] = EchoOf(c, Len(down[c])) /\ Cut(c)
  BY ConnType DEF Served, IndInv, EchoOk
<1>3. Len(down[c]) <= 2 \/ Len(down[c]) <= taken[c] + 1
  BY DEF Served, EchoInd, Right, Written
<1>4. Len(down[c]) <= AnnounceUnits \/ Len(down[c]) + HelloUnits <= up[c] + AnnounceUnits
  BY <1>1, <1>3
<1>5. Replied(c) \in Nat /\ Replied(c) <= Asked(c) /\ Asked(c) \in Nat
  BY <1>1, <1>2, <1>4, RepliedAsked, CutAsked
<1>6. QED
  BY <1>2, <1>5, ExactMapped DEF Exact

LEMMA QuietServed ==
  ASSUME NEW c, Cut(c), client'[c] = client[c], up'[c] = up[c], down'[c] = down[c]
  PROVE  Cut(c)' /\ SameService(c)
<1>1. Greeted(c)' = Greeted(c) /\ Replied(c)' = Replied(c)
  BY DEF Greeted, Replied
<1>2. QED
  BY <1>1, CutKept DEF SameService

LEMMA GreetServed ==
  ASSUME Served, NEW s \in Shards, SendSize(s), NEW k \in Conns, k = cur[s]
  PROVE  Cut(k)' /\ ServiceGreets(k)
<1>1. /\ phase[s] = "send_size" /\ client' = client /\ up' = up
      /\ down'[k] = down[k] \o Announcement /\ down[k] \in Seq(Nat)
  BY DEF SendSize, Goes, Served, IndInv, TypeOK, ClientTypeOK
<1>2. k \in open /\ Len(down[k]) = 0
  BY <1>1 DEF Served, EchoInd, Serving, Written
<1>3. client[k] # "idle"
  BY <1>2 DEF Served, EchoInd, Pace
<1>4. QED
  BY <1>1, <1>2, <1>3, GreetServes DEF Served

\* A reply, or the part of one that fits, completes one message at most.
LEMMA ReplyServed ==
  ASSUME Served, NEW s \in Shards, Reply(s) \/ ReplyShort(s), NEW k \in Conns, k = cur[s]
  PROVE  Cut(k)' /\ ServiceMove(k)
<1> USE Sizes
<1>0. IndInv /\ EchoInd /\ Cut(k)
  BY DEF Served
<1>1. /\ phase[s] = "reply" /\ client' = client /\ up' = up /\ taken' = taken
      /\ \/ down'[k] = down[k]
         \/ down'[k] = down[k] \o buf[s]
         \/ Free(k) < MsgUnits /\ down'[k] = down[k] \o SubSeq(buf[s], 1, Free(k))
  BY <1>0 DEF Reply, ReplyShort, Goes, IndInv, TypeOK, ClientTypeOK
<1>2. buf[s] \in Seq(Nat) /\ Len(buf[s]) = MsgUnits
  BY <1>0, <1>1, Replies
<1>3. /\ Written(k) \in Nat /\ taken[k] \in Nat /\ up[k] \in Nat /\ taken[k] <= up[k]
      /\ Written(k) >= 2 /\ taken[k] = Written(k) - 1 + MsgUnits
  BY SMTT(30), <1>0, <1>1, Facts DEF EchoInd, Serving
<1>4. ASSUME NEW part \in Seq(Nat), Len(part) \in Nat, Len(part) <= MsgUnits,
             \A i \in 1..Len(part) : part[i] = buf[s][i], down'[k] = down[k] \o part
      PROVE  Cut(k)' /\ ServiceMove(k)
  <2>1. Written(k)' = Written(k) + Len(part)
    BY <1>0, <1>1, <1>4, ReplyUnits
  <2>2. /\ Len(down[k]) \in Nat /\ Len(down[k]) >= AnnounceUnits /\ Len(part) \in 0..MsgUnits
        /\ Len(down'[k]) = Len(down[k]) + Len(part)
    BY <1>3, <1>4, <2>1 DEF Written
  <2>3. Len(down'[k]) + HelloUnits <= up[k] + AnnounceUnits
    <3>1. Written(k) + Len(part) + 1 <= up[k] + 2
      BY <1>3, <1>4
    <3>2. QED
      BY <2>1, <3>1 DEF Written
  <2>4. QED
    BY <1>0, <1>1, <1>3, <2>2, <2>3, WriteServes DEF ServiceMove
<1>5. CASE down'[k] = down[k]
  BY <1>0, <1>1, <1>5, QuietServed DEF ServiceMove
<1>6. CASE down'[k] = down[k] \o buf[s]
  <2>1. Len(buf[s]) \in Nat /\ Len(buf[s]) <= MsgUnits
    BY <1>2
  <2>2. QED
    BY <1>2, <1>4, <1>6, <2>1
<1>7. CASE Free(k) < MsgUnits /\ down'[k] = down[k] \o SubSeq(buf[s], 1, Free(k))
  <2>1. PICK part : part = SubSeq(buf[s], 1, Free(k))
    OBVIOUS
  <2>2. /\ part \in Seq(Nat) /\ Len(part) \in Nat /\ Len(part) <= MsgUnits
        /\ \A i \in 1..Len(part) : part[i] = buf[s][i]
    BY ZenonT(40), <1>0, <1>2, <1>7, <2>1, PartFits
  <2>3. QED
    BY <1>4, <1>7, <2>1, <2>2
<1>8. QED
  BY <1>1, <1>5, <1>6, <1>7

\* Every step serves one connection, or none.
LEMMA ServedStep ==
  ASSUME Served, [Next]_vars
  PROVE  \/ \A c \in Conns : Cut(c)' /\ SameService(c)
         \/ \E k \in Conns : /\ ServiceMove(k) /\ \A c \in Conns \ {k} : SameService(c)
                             /\ \A c \in Conns : Cut(c)'
<1>0. TypeOK /\ IndInv /\ EchoInd /\ \A c \in Conns : Cut(c)
  BY DEF Served, IndInv
<1>1. CASE UNCHANGED <<client, up, down>>
  BY <1>0, <1>1, QuietServed
<1>2. ASSUME NEW s \in Shards, SendSize(s) \/ Reply(s) \/ ReplyShort(s)
      PROVE  \E k \in Conns : /\ ServiceMove(k) /\ \A c \in Conns \ {k} : SameService(c)
                              /\ \A c \in Conns : Cut(c)'
  <2>1. PICK k \in Conns : k = cur[s]
    BY <1>0, <1>2, Replies DEF SendSize, Reply, ReplyShort, Goes, IndInv, OwnerInv, Local, Greeting
  <2>2. Cut(k)' /\ ServiceMove(k)
    BY <1>2, <2>1, GreetServed, ReplyServed DEF ServiceMove
  <2>3. UNCHANGED <<client, up>> /\ \A c \in Conns \ {k} : down'[c] = down[c]
    BY <1>0, <1>2, <2>1 DEF SendSize, Reply, ReplyShort, TypeOK, ClientTypeOK
  <2>4. \A c \in Conns \ {k} : Cut(c)' /\ SameService(c)
    BY <1>0, <2>3, QuietServed
  <2>5. QED
    BY <2>2, <2>4
<1>3. ASSUME NEW k \in Conns, Connect(k) \/ Talk(k) \/ Leave(k)
      PROVE  \E c \in Conns : /\ ServiceMove(c) /\ \A d \in Conns \ {c} : SameService(d)
                              /\ \A d \in Conns : Cut(d)'
  <2>1. ClientTypeOK /\ (ClientStep(k) \/ ClientConnect(k) \/ ClientExit(k))
    BY <1>0, <1>3 DEF TypeOK, Connect, Talk, Leave
  <2>2. Cut(k)' /\ ServiceMove(k)
    BY <1>0, <2>1, ClientServes
  <2>3. down' = down /\ \A d \in Conns \ {k} : client'[d] = client[d] /\ up'[d] = up[d]
    BY <2>1 DEF ClientTypeOK, ClientStep, ClientConnect, ClientHello, ClientSize, ClientSend,
                ClientRecv, ClientExit, ClientMoves
  <2>4. \A d \in Conns \ {k} : Cut(d)' /\ SameService(d)
    BY <1>0, <2>3, QuietServed
  <2>5. QED
    BY <2>2, <2>4
<1>4. ASSUME NEW s \in Shards, Start(s) \/ ThreadStep(s) \/ EpollWaitFails(s) \/ Killed(s),
             ~(SendSize(s) \/ Reply(s) \/ ReplyShort(s))
      PROVE  UNCHANGED <<client, up, down>>
  BY <1>4 DEF Start, ThreadStep, EpollWait, EndBatch, Accept, AcceptFail, RecvHello, GreetFails, Recv,
              RecvShort, Registers, Serves, EpollWaitFails, Killed, Exits, Goes, clientVars
<1>5. ASSUME NEW c \in Conns, Arrive(c)
      PROVE  UNCHANGED <<client, up, down>>
  BY <1>5 DEF Arrive, clientVars
<1>6. CASE UNCHANGED vars
  BY <1>1, <1>6 DEF vars, clientVars
<1>7. QED
  BY <1>1, <1>2, <1>3, <1>4, <1>5, <1>6 DEF Next

\* The epoll server does what an echo server promises, for any numbers of threads
\* and connections: it announces once, and then gives back every message once, whole
\* and in order, until it drops the connection (71-103).  See EpollEchoes for the sizes.
THEOREM EpollServes ==
  ASSUME MsgUnits > HelloUnits
  PROVE  Spec => ServiceSpec
<1>1. Init => Service!Init /\ \A c \in Conns : Cut(c)
  <2>1. Init => \A c \in Conns : client[c] = "idle" /\ up[c] = 0
    BY DEF Init, ClientInit
  <2>2. QED
    BY <2>1, InitMapped DEF Init, Cut
<1>2. IndInv /\ EchoInd /\ EchoOk /\ (\A c \in Conns : Cut(c)) /\ [Next]_vars => (\A c \in Conns : Cut(c))'
  BY ServedStep DEF Served
<1>3. Spec => []Served
  <2>1. Spec => [](IndInv /\ EchoInd) /\ []EchoOk
    BY EchoAlways, EpollEchoes
  <2>2. QED
    BY <1>1, <1>2, <2>1, PTL DEF Spec, Served
<1>4. Served => \A c \in Conns : Mapped(c)
  BY ServedMapped
<1>5. /\ Served /\ [Next]_vars
      /\ \A c \in Conns : Mapped(c)
      /\ (\A c \in Conns : Mapped(c))'
      => [Service!Next]_(Service!vars)
  BY ServedStep, ServiceNext
<1>6. QED
  BY <1>1, <1>3, <1>4, <1>5, PTL DEF Spec, ServiceSpec, Service!Spec

=============================================================================
