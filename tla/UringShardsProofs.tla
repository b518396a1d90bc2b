------------------------- MODULE UringShardsProofs -------------------------
(***************************************************************************)
(* Proofs about UringShards, for any number of shards, connections and     *)
(* messages and any sizes of the queues.                                   *)
(***************************************************************************)
EXTENDS UringShards, ServiceProofs, FiniteSetTheorems

-----------------------------------------------------------------------------
\* Type correctness.

\* What Prepare does to the submission queue of s.
LEMMA PrepareType ==
  ASSUME TypeOK, NEW s \in Shards, NEW e \in Seq(SQEs), Prepare(s, e)
  PROVE  sq' \in [Shards -> Seq(SQEs)] /\ alive' \in BOOLEAN /\ cause' \in Causes
<1>1. sq[s] \o e \in Seq(SQEs)
  BY ConcatProperties DEF TypeOK
<1>2. QED
  BY <1>1 DEF Prepare, Exits, TypeOK, Causes

\* What Complete does to the requests and completions of s.
LEMMA CompleteType ==
  ASSUME TypeOK, NEW s \in Shards, NEW r, NEW e \in Seq(CQEs), Complete(s, r, e)
  PROVE  /\ inflight' \in [Shards -> SUBSET SQEs]
         /\ cq' \in [Shards -> Seq(CQEs)]
         /\ \A t \in Shards : Len(cq[t]) <= Len(cq'[t])
         /\ seen' = seen => \A t \in Shards : seen'[t] <= Len(cq'[t])
<1>1. /\ cq[s] \o e \in Seq(CQEs)
      /\ Len(cq[s] \o e) = Len(cq[s]) + Len(e)
      /\ Len(e) \in Nat /\ \A t \in Shards : Len(cq[t]) \in Nat
  BY ConcatProperties, LenProperties DEF TypeOK
<1>2. QED
  BY <1>1 DEF Complete, TypeOK

\* The entries that handlers prepare and the kernel posts.
LEMMA EntryTypes ==
  /\ AcceptSqe \in SQEs
  /\ \A c \in Conns, op \in Ops : Sqe(op, c) \in SQEs
  BY DEF AcceptSqe, SQEs, Sqe, Ops

LEMMA PostedTypes ==
  /\ <<Cqe("accept", NoConn, FALSE)>> \in Seq(CQEs)
  /\ \A c \in Conns :
       /\ <<Cqe("accept", c, TRUE)>> \in Seq(CQEs)
       /\ <<Cqe("null", c, TRUE)>> \in Seq(CQEs) /\ <<Cqe("null", c, FALSE)>> \in Seq(CQEs)
       /\ <<Cqe("thread", c, TRUE)>> \in Seq(CQEs) /\ <<Cqe("thread", c, FALSE)>> \in Seq(CQEs)
       /\ <<Cqe("null", c, FALSE), Cqe("thread", c, FALSE)>> \in Seq(CQEs)
<1>1. \A e \in CQEs : <<e>> \in Seq(CQEs)
  OBVIOUS
<1>2. \A e, f \in CQEs : <<e, f>> \in Seq(CQEs)
  OBVIOUS
<1>3. /\ Cqe("accept", NoConn, FALSE) \in CQEs
      /\ \A c \in Conns :
           /\ Cqe("accept", c, TRUE) \in CQEs
           /\ Cqe("null", c, TRUE) \in CQEs /\ Cqe("null", c, FALSE) \in CQEs
           /\ Cqe("thread", c, TRUE) \in CQEs /\ Cqe("thread", c, FALSE) \in CQEs
  BY DEF CQEs, Cqe
<1>4. QED
  BY <1>1, <1>2, <1>3, Zenon

LEMMA ClientTypeStep ==
  ASSUME ClientTypeOK, NEW c \in Conns,
         ClientStep(c) \/ ClientExit(c) \/ ClientConnect(c)
  PROVE  ClientTypeOK'
<1>1. CASE ClientHello(c)
  BY <1>1 DEF ClientTypeOK, ClientHello, ClientMoves, Stages, HelloUnits
<1>2. CASE ClientSize(c)
  BY <1>2 DEF ClientTypeOK, ClientSize, ClientMoves, Stages, AnnounceUnits
<1>3. CASE ClientSend(c)
  <2>1. up[c] + MsgUnits \in Nat
    BY ClientAssumption DEF ClientTypeOK
  <2>2. QED
    BY <1>3, <2>1 DEF ClientTypeOK, ClientSend
<1>4. CASE ClientRecv(c)
  <2>1. got[c] + MsgUnits \in Nat
    BY ClientAssumption DEF ClientTypeOK
  <2>2. QED
    BY <1>4, <2>1 DEF ClientTypeOK, ClientRecv
<1>5. CASE ClientExit(c)
  BY <1>5 DEF ClientTypeOK, ClientExit, Stages
<1>6. CASE ClientConnect(c)
  BY <1>6 DEF ClientTypeOK, ClientConnect, ClientMoves, Stages
<1>7. QED
  BY <1>1, <1>2, <1>3, <1>4, <1>5, <1>6 DEF ClientStep

LEMMA TypeInit == Init => TypeOK
  BY ClientAssumption, EmptySeq
  DEF Init, TypeOK, ClientInit, ClientTypeOK, Stages, Buffers, Causes

LEMMA TypeStart ==
  ASSUME TypeOK, NEW s \in Shards, Start(s)
  PROVE  TypeOK'
<1>1. <<AcceptSqe>> \in Seq(SQEs)
  BY EntryTypes
<1>2. sq' \in [Shards -> Seq(SQEs)] /\ alive' \in BOOLEAN /\ cause' \in Causes
  BY <1>1, PrepareType DEF Start
<1>3. QED
  BY <1>2 DEF Start, TypeOK, ClientTypeOK, clientVars, kernelVars

LEMMA TypeSubmit ==
  ASSUME TypeOK, NEW s \in Shards, Submit(s)
  PROVE  TypeOK'
<1>1. {sq[s][i] : i \in 1..Len(sq[s])} \subseteq SQEs
  BY ElementOfSeq DEF TypeOK
<1>2. sq' \in [Shards -> Seq(SQEs)]
  BY EmptySeq DEF Submit, TypeOK
<1>3. inflight' \in [Shards -> SUBSET SQEs]
  BY <1>1 DEF Submit, TypeOK
<1>4. QED
  BY <1>2, <1>3 DEF Submit, TypeOK, ClientTypeOK, clientVars

LEMMA TypeSubmitFails ==
  ASSUME TypeOK, NEW s \in Shards, SubmitFails(s) \/ WaitFails(s)
  PROVE  TypeOK'
BY DEF SubmitFails, WaitFails, Exits, Causes, TypeOK, ClientTypeOK, clientVars, kernelVars

\* A completion that is looked at is one of the queue.
LEMMA CurrentType ==
  ASSUME TypeOK, NEW s \in Shards, NEW data, NextCqe(s, data)
  PROVE  /\ Current(s) \in CQEs
         /\ seen' \in [Shards -> Nat]
         /\ \A t \in Shards : seen'[t] <= Len(cq[t])
<1>1. seen[s] + 1 \in 1..Len(cq[s])
  BY LenProperties DEF NextCqe, TypeOK
<1>2. QED
  BY <1>1, ElementOfSeq, LenProperties DEF NextCqe, TypeOK, Current

LEMMA TypeHandlers ==
  ASSUME TypeOK, NEW s \in Shards,
         OnNull(s) \/ OnAccepted(s) \/ OnHeader(s) \/ OnMsg(s)
  PROVE  TypeOK'
<1> DEFINE c == Current(s).conn
<1>1. PICK data : NextCqe(s, data) /\ data \in {"null", "accept", "thread"}
  BY DEF OnNull, OnAccepted, OnHeader, OnMsg
<1>2. /\ Current(s) \in CQEs
      /\ seen' \in [Shards -> Nat]
      /\ \A t \in Shards : seen'[t] <= Len(cq[t])
  BY <1>1, CurrentType
<1>3. /\ sq' \in [Shards -> Seq(SQEs)]
      /\ alive' \in BOOLEAN /\ cause' \in Causes
      /\ pc' \in [Conns -> {"none", "RECEIVED_HEADER", "RECEIVED_MSG"}]
  <2>1. \A op \in Ops : Sqe(op, c) \in SQEs
    BY <1>2 DEF CQEs, SQEs, Sqe
  <2>2. CASE OnNull(s)
    BY <2>2 DEF OnNull, TypeOK
  <2>3. CASE OnAccepted(s)
    <3>1. <<Sqe("send_size", c), AcceptSqe, Sqe("recv_hello", c)>> \in Seq(SQEs)
      BY <2>1, EntryTypes DEF Ops
    <3>2. QED
      BY <2>3, <3>1, PrepareType DEF OnAccepted, Exits, Causes, TypeOK
  <2>4. CASE OnHeader(s)
    <3>1. <<Sqe("recv_msg", c)>> \in Seq(SQEs)
      BY <2>1 DEF Ops
    <3>2. QED
      BY <2>4, <3>1, PrepareType DEF OnHeader, TypeOK
  <2>5. CASE OnMsg(s)
    <3>1. <<Sqe("send_msg", c), Sqe("recv_msg", c)>> \in Seq(SQEs)
      BY <2>1 DEF Ops
    <3>2. QED
      BY <2>5, <3>1, PrepareType DEF OnMsg, TypeOK
  <2>6. QED
    BY <2>2, <2>3, <2>4, <2>5
<1>4. QED
  BY <1>1, <1>2, <1>3
  DEF NextCqe, TypeOK, ClientTypeOK, clientVars, kernelVars

LEMMA TypeAdvance ==
  ASSUME TypeOK, NEW s \in Shards, EndDrain(s) \/ Advance(s)
  PROVE  TypeOK'
<1>1. CASE EndDrain(s)
  BY <1>1 DEF EndDrain, TypeOK, ClientTypeOK, clientVars, kernelVars
<1>2. CASE Advance(s)
  <2>1. SubSeq(cq[s], seen[s] + 1, Len(cq[s])) \in Seq(CQEs)
    <3>1. \A i \in (seen[s] + 1)..Len(cq[s]) : cq[s][i] \in CQEs
      BY ElementOfSeq, LenProperties DEF TypeOK
    <3>2. seen[s] + 1 \in Int /\ Len(cq[s]) \in Int
      BY LenProperties DEF TypeOK
    <3>3. QED
      BY <3>1, <3>2, SubSeqProperties
  <2>2. cq' \in [Shards -> Seq(CQEs)] /\ seen' \in [Shards -> Nat]
    BY <1>2, <2>1 DEF Advance, TypeOK
  <2>3. \A t \in Shards : seen'[t] <= Len(cq'[t])
    BY <1>2, <2>2, LenProperties DEF Advance, TypeOK
  <2>4. QED
    BY <1>2, <2>2, <2>3 DEF Advance, TypeOK, ClientTypeOK, clientVars
<1>3. QED
  BY <1>1, <1>2

\* The kernel posts the completions e of s, and the rest keeps its type.
LEMMA TypePost ==
  ASSUME TypeOK, NEW s \in Shards, NEW r, NEW e \in Seq(CQEs), Complete(s, r, e),
         ClientTypeOK', queue' \in [Shards -> SUBSET Conns], open' \in SUBSET Conns,
         buf' \in [Conns -> Buffers], rpos' \in [Conns -> 0..(MsgUnits - 1)],
         spos' \in [Conns -> 0..(MsgUnits - 1)], UNCHANGED <<alive, loopVars>>
  PROVE  TypeOK'
<1>1. seen' = seen
  BY DEF loopVars
<1>2. /\ inflight' \in [Shards -> SUBSET SQEs]
      /\ cq' \in [Shards -> Seq(CQEs)]
      /\ \A t \in Shards : seen'[t] <= Len(cq'[t])
  BY <1>1, CompleteType
<1>3. QED
  BY <1>2 DEF TypeOK, loopVars

LEMMA TypeKernel ==
  ASSUME TypeOK, NEW s \in Shards, NEW c \in Conns,
         KernelStep(s, c) \/ KernelFailure(s, c)
  PROVE  TypeOK'
<1>1. /\ <<Cqe("null", c, TRUE)>> \in Seq(CQEs) /\ <<Cqe("null", c, FALSE)>> \in Seq(CQEs)
      /\ <<Cqe("thread", c, TRUE)>> \in Seq(CQEs) /\ <<Cqe("thread", c, FALSE)>> \in Seq(CQEs)
      /\ <<Cqe("null", c, FALSE), Cqe("thread", c, FALSE)>> \in Seq(CQEs)
  BY PostedTypes
<1>2. CASE KSendSize(s, c)
  <2>1. down[c] \o Announcement \in Seq(Nat)
    <3>1. Announcement \in Seq(Nat) /\ down[c] \in Seq(Nat)
      BY DEF Announcement, TypeOK, ClientTypeOK
    <3>2. QED
      BY <3>1, ConcatProperties
  <2>2. ClientTypeOK'
    BY <1>2, <2>1 DEF KSendSize, TypeOK, ClientTypeOK
  <2>3. UNCHANGED <<alive, loopVars, queue, open, buf, rpos, spos>>
    BY <1>2 DEF KSendSize
  <2>4. Complete(s, {Sqe("send_size", c)}, <<Cqe("null", c, TRUE)>>)
    BY <1>2 DEF KSendSize
  <2>5. QED
    BY <1>1, <2>2, <2>3, <2>4, TypePost DEF TypeOK
<1>3. CASE KSendMsg(s, c)
  <2>1. spos[c] + 1 \in 1..MsgUnits
    BY ClientAssumption DEF TypeOK
  <2>2. ClientTypeOK'
    <3>1. buf[c][spos[c] + 1] \in Nat
      BY <2>1 DEF TypeOK, Buffers
    <3>2. Append(down[c], buf[c][spos[c] + 1]) \in Seq(Nat)
      BY <3>1 DEF TypeOK, ClientTypeOK
    <3>3. QED
      BY <1>3, <3>2 DEF KSendMsg, TypeOK, ClientTypeOK
  <2>3. UNCHANGED <<alive, loopVars, queue, open, buf, rpos>>
    BY <1>3 DEF KSendMsg
  <2>4. spos' \in [Conns -> 0..(MsgUnits - 1)]
    <3>1. PICK n \in 0..(MsgUnits - 1) : spos' = [spos EXCEPT ![c] = n]
      <4>1. CASE spos[c] + 1 = MsgUnits
        BY <1>3, <4>1, ClientAssumption DEF KSendMsg
      <4>2. CASE spos[c] + 1 # MsgUnits
        <5>1. spos' = [spos EXCEPT ![c] = spos[c] + 1]
          BY <1>3, <4>2 DEF KSendMsg
        <5>2. spos[c] + 1 \in 0..(MsgUnits - 1)
          BY <2>1, <4>2, ClientAssumption
        <5>3. QED
          BY <5>1, <5>2
      <4>3. QED
        BY <4>1, <4>2
    <3>2. QED
      BY <3>1 DEF TypeOK
  <2>5. CASE spos[c] + 1 = MsgUnits
    <3>1. Complete(s, {Sqe("send_msg", c)}, <<Cqe("null", c, TRUE)>>)
      BY <1>3, <2>5 DEF KSendMsg
    <3>2. QED
      BY <1>1, <2>2, <2>3, <2>4, <3>1, TypePost DEF TypeOK
  <2>6. CASE spos[c] + 1 # MsgUnits
    BY <1>3, <2>2, <2>3, <2>4, <2>6 DEF KSendMsg, TypeOK, loopVars
  <2>7. QED
    BY <2>5, <2>6
<1>4. CASE KRecvHello(s, c)
  <2>1. ClientTypeOK'
    BY <1>4 DEF KRecvHello, HelloUnits, TypeOK, ClientTypeOK
  <2>2. UNCHANGED <<alive, loopVars, queue, open, buf, rpos, spos>>
    BY <1>4 DEF KRecvHello
  <2>3. Complete(s, {Sqe("recv_hello", c)}, <<Cqe("thread", c, TRUE)>>)
    BY <1>4 DEF KRecvHello
  <2>4. QED
    BY <1>1, <2>1, <2>2, <2>3, TypePost DEF TypeOK
<1>5. CASE KRecvMsg(s, c)
  <2>1. rpos[c] + 1 \in 1..MsgUnits
    BY ClientAssumption DEF TypeOK
  <2>2. ClientTypeOK' /\ buf' \in [Conns -> Buffers]
    <3>1. taken[c] + 1 \in Nat
      BY DEF TypeOK, ClientTypeOK
    <3>2. [buf[c] EXCEPT ![rpos[c] + 1] = taken[c] + 1] \in Buffers
      BY <2>1, <3>1 DEF TypeOK, Buffers
    <3>3. QED
      BY <1>5, <3>1, <3>2 DEF KRecvMsg, TypeOK, ClientTypeOK
  <2>3. UNCHANGED <<alive, loopVars, queue, open, spos>>
    BY <1>5 DEF KRecvMsg
  <2>4. rpos' \in [Conns -> 0..(MsgUnits - 1)]
    BY <1>5, <2>1, ClientAssumption DEF KRecvMsg, TypeOK
  <2>5. CASE rpos[c] + 1 = MsgUnits
    <3>1. Complete(s, {Sqe("recv_msg", c)}, <<Cqe("thread", c, TRUE)>>)
      BY <1>5, <2>5 DEF KRecvMsg
    <3>2. QED
      BY <1>1, <2>2, <2>3, <2>4, <3>1, TypePost DEF TypeOK
  <2>6. CASE rpos[c] + 1 # MsgUnits
    BY <1>5, <2>2, <2>3, <2>4, <2>6 DEF KRecvMsg, TypeOK, loopVars
  <2>7. QED
    BY <2>5, <2>6
<1>6. CASE KRecvShort(s, c)
  <2>1. rpos' \in [Conns -> 0..(MsgUnits - 1)]
    BY <1>6, ClientAssumption DEF KRecvShort, TypeOK
  <2>2. PICK r : Complete(s, {r}, <<Cqe("thread", c, FALSE)>>)
    BY <1>6 DEF KRecvShort
  <2>3. UNCHANGED <<clientVars, alive, loopVars, queue, open, buf, spos>>
    BY <1>6 DEF KRecvShort
  <2>4. QED
    BY <1>1, <2>1, <2>2, <2>3, TypePost DEF TypeOK, ClientTypeOK, clientVars
<1>7. CASE KSendSizeFail(s, c)
  <2>1. /\ UNCHANGED <<clientVars, alive, loopVars, queue, open, buf, rpos, spos>>
        /\ Complete(s, {Sqe("send_size", c)}, <<Cqe("null", c, FALSE)>>)
    BY <1>7 DEF KSendSizeFail
  <2>2. QED
    BY <1>1, <2>1, TypePost DEF TypeOK, ClientTypeOK, clientVars
<1>8. CASE KSendMsgFail(s, c)
  <2>1. spos' \in [Conns -> 0..(MsgUnits - 1)]
    BY <1>8, ClientAssumption DEF KSendMsgFail, TypeOK
  <2>2. UNCHANGED <<clientVars, alive, loopVars, queue, open, buf, rpos>>
    BY <1>8 DEF KSendMsgFail
  <2>3. ASSUME NEW r, NEW e \in Seq(CQEs), Complete(s, r, e)
        PROVE  TypeOK'
    BY <2>1, <2>2, <2>3, TypePost DEF TypeOK, ClientTypeOK, clientVars
  <2>4. CASE Sqe("recv_msg", c) \in inflight[s]
    <3>1. Complete(s, {Sqe("send_msg", c), Sqe("recv_msg", c)},
                   <<Cqe("null", c, FALSE), Cqe("thread", c, FALSE)>>)
      BY <1>8, <2>4 DEF KSendMsgFail
    <3>2. QED
      BY <1>1, <2>3, <3>1
  <2>5. CASE Sqe("recv_msg", c) \notin inflight[s]
    <3>1. Complete(s, {Sqe("send_msg", c)}, <<Cqe("null", c, FALSE)>>)
      BY <1>8, <2>5 DEF KSendMsgFail
    <3>2. QED
      BY <1>1, <2>3, <3>1
  <2>6. QED
    BY <2>4, <2>5
<1>9. QED
  BY <1>2, <1>3, <1>4, <1>5, <1>6, <1>7, <1>8 DEF KernelStep, KernelFailure

LEMMA TypeAccept ==
  ASSUME TypeOK, NEW s \in Shards, KAccept(s) \/ KAcceptFail(s)
  PROVE  TypeOK'
<1>1. UNCHANGED <<clientVars, alive, loopVars, buf, rpos, spos>>
  BY DEF KAccept, KAcceptFail
<1>2. /\ queue' \in [Shards -> SUBSET Conns]
      /\ open' \in SUBSET Conns
      /\ \E e \in Seq(CQEs) : Complete(s, {AcceptSqe}, e)
  <2>1. CASE KAccept(s)
    <3>1. PICK c \in queue[s] :
            /\ queue' = [queue EXCEPT ![s] = @ \ {c}]
            /\ open' = open \cup {c}
            /\ Complete(s, {AcceptSqe}, <<Cqe("accept", c, TRUE)>>)
      BY <2>1 DEF KAccept
    <3>2. c \in Conns
      BY DEF TypeOK
    <3>3. <<Cqe("accept", c, TRUE)>> \in Seq(CQEs)
      BY <3>2, PostedTypes
    <3>4. QED
      BY <3>1, <3>2, <3>3 DEF TypeOK
  <2>2. CASE KAcceptFail(s)
    <3>1. <<Cqe("accept", NoConn, FALSE)>> \in Seq(CQEs)
      BY PostedTypes
    <3>2. QED
      BY <2>2, <3>1 DEF KAcceptFail, TypeOK
  <2>3. QED
    BY <2>1, <2>2
<1>3. QED
  BY <1>1, <1>2, TypePost DEF TypeOK, ClientTypeOK, clientVars

LEMMA TypeClient ==
  ASSUME TypeOK, NEW c \in Conns, Connect(c) \/ Talk(c) \/ Leave(c)
  PROVE  TypeOK'
<1>1. ClientTypeOK'
  BY ClientTypeStep DEF TypeOK, Connect, Talk, Leave
<1>2. QED
  <2>1. CASE Connect(c)
    <3>1. queue' \in [Shards -> SUBSET Conns]
      BY <2>1 DEF TypeOK, Connect
    <3>2. QED
      BY <1>1, <2>1, <3>1 DEF TypeOK, Connect, loopVars
  <2>2. CASE Talk(c) \/ Leave(c)
    BY <1>1, <2>2 DEF TypeOK, Talk, Leave, loopVars, kernelVars
  <2>3. QED
    BY <2>1, <2>2

\* Every variable stays in its type: in particular the loop never reads
\* past the completion queue, and the kernel never leaves a buffer.
THEOREM TypeCorrect == Spec => []TypeOK
<1>1. Init => TypeOK
  BY TypeInit
<1>2. TypeOK /\ [Next]_vars => TypeOK'
  <2> SUFFICES ASSUME TypeOK, [Next]_vars PROVE TypeOK'
    OBVIOUS
  <2>1. ASSUME NEW s \in Shards, Start(s) \/ ThreadStep(s) \/ WaitFails(s) \/ KAccept(s) \/ KAcceptFail(s)
        PROVE  TypeOK'
    BY <2>1, TypeStart, TypeSubmit, TypeSubmitFails, TypeHandlers, TypeAdvance, TypeAccept DEF ThreadStep
  <2>2. ASSUME NEW s \in Shards, NEW c \in Conns, KernelStep(s, c) \/ KernelFailure(s, c)
        PROVE  TypeOK'
    BY <2>2, TypeKernel
  <2>3. ASSUME NEW c \in Conns, Connect(c) \/ Talk(c) \/ Leave(c)
        PROVE  TypeOK'
    BY <2>3, TypeClient
  <2>4. CASE UNCHANGED vars
    BY <2>4 DEF TypeOK, ClientTypeOK, vars, clientVars, loopVars, kernelVars
  <2>5. QED
    BY <2>1, <2>2, <2>3, <2>4 DEF Next
<1>3. QED
  BY <1>1, <1>2, PTL DEF Spec

-----------------------------------------------------------------------------
\* The submission queue is never full and no accept fails while the
\* connections leave room: IInv is inductive.

\* Requests of different kinds or connections are different.
LEMMA RequestsDiffer ==
  /\ \A c \in Conns : /\ AcceptSqe \notin RecvsOf(c)
                      /\ Sqe("recv_hello", c) # Sqe("recv_msg", c)
  /\ \A c, d \in Conns : /\ Sqe("send_msg", d) \notin RecvsOf(c)
                         /\ Sqe("send_size", d) \notin RecvsOf(c)
                         /\ c # d => RecvsOf(c) \cap RecvsOf(d) = {}
  /\ \A c \in Conns : /\ AcceptSqe # Sqe("send_msg", c)
                      /\ AcceptSqe # Sqe("send_size", c)
  BY DEF RecvsOf, AcceptSqe, Sqe

\* The number of open connections is a natural number and only grows.
LEMMA OpenFinite ==
  ASSUME TypeOK
  PROVE  /\ IsFiniteSet(open) /\ Cardinality(open) \in Nat
         /\ \A D \in SUBSET open : IsFiniteSet(D) /\ Cardinality(D) \in Nat
                                     /\ Cardinality(D) <= Cardinality(open)
<1>1. IsFiniteSet(open)
  BY ShardAssumption, FS_Subset DEF TypeOK
<1>2. QED
  BY <1>1, FS_Subset, FS_CardinalityType

\* The requests of a list.
Entries(e) == {e[i] : i \in 1..Len(e)}

\* Appending requests adds them to the prepared ones.
LEMMA AppendPrepared ==
  ASSUME TypeOK, NEW s \in Shards, NEW e \in Seq(SQEs),
         sq' = [sq EXCEPT ![s] = @ \o e]
  PROVE  /\ PreparedSet(s)' = PreparedSet(s) \cup {e[i] : i \in 1..Len(e)}
         /\ Len(sq'[s]) = Len(sq[s]) + Len(e)
         /\ \A t \in Shards \ {s} : sq'[t] = sq[t] /\ PreparedSet(t)' = PreparedSet(t)
<1>1. sq[s] \in Seq(SQEs) /\ sq'[s] = sq[s] \o e
  BY DEF TypeOK
<1>2. /\ Len(sq[s]) \in Nat /\ Len(e) \in Nat
      /\ Len(sq'[s]) = Len(sq[s]) + Len(e)
      /\ \A i \in 1..(Len(sq[s]) + Len(e)) :
           sq'[s][i] = IF i <= Len(sq[s]) THEN sq[s][i] ELSE e[i - Len(sq[s])]
  BY <1>1, ConcatProperties, LenProperties
<1>3. PreparedSet(s)' = PreparedSet(s) \cup {e[i] : i \in 1..Len(e)}
  <2>1. ASSUME NEW x \in PreparedSet(s)'
        PROVE  x \in PreparedSet(s) \cup {e[i] : i \in 1..Len(e)}
    <3>1. PICK i \in 1..(Len(sq[s]) + Len(e)) : x = sq'[s][i]
      BY <1>2 DEF PreparedSet
    <3>2. CASE i <= Len(sq[s])
      BY <1>2, <3>1, <3>2 DEF PreparedSet
    <3>3. CASE ~(i <= Len(sq[s]))
      <4>1. x = e[i - Len(sq[s])] /\ i - Len(sq[s]) \in 1..Len(e)
        BY <1>2, <3>1, <3>3
      <4>2. QED
        BY <4>1
    <3>4. QED
      BY <3>2, <3>3
  <2>2. ASSUME NEW x \in PreparedSet(s)
        PROVE  x \in PreparedSet(s)'
    <3>1. PICK i \in 1..Len(sq[s]) : x = sq[s][i]
      BY DEF PreparedSet
    <3>2. i \in 1..Len(sq'[s]) /\ x = sq'[s][i]
      BY <1>2, <3>1
    <3>3. QED
      BY <3>2 DEF PreparedSet
  <2>3. ASSUME NEW i \in 1..Len(e)
        PROVE  e[i] \in PreparedSet(s)'
    <3>1. Len(sq[s]) + i \in 1..Len(sq'[s]) /\ e[i] = sq'[s][Len(sq[s]) + i]
      BY <1>2
    <3>2. QED
      BY <3>1 DEF PreparedSet
  <2>4. QED
    BY <2>1, <2>2, <2>3
<1>4. QED
  BY ZenonT(40), <1>2, <1>3 DEF PreparedSet, TypeOK

\* Looking at a completion removes it, and it only, from the unread ones.
LEMMA ReadOne ==
  ASSUME TypeOK, NEW s \in Shards, NEW data, NextCqe(s, data)
  PROVE  /\ seen[s] + 1 \in UnreadAt(s)
         /\ Current(s) = cq[s][seen[s] + 1]
         /\ UnreadAt(s)' = UnreadAt(s) \ {seen[s] + 1}
         /\ \A t \in Shards \ {s} : UnreadAt(t)' = UnreadAt(t)
         /\ \A t \in Shards : UnreadAt(t)' \subseteq UnreadAt(t)
         /\ UNCHANGED <<cq, inflight, open, queue, phase, client>>
<1>1. \A t \in Shards : Len(cq[t]) \in Nat /\ seen[t] \in Nat
  BY LenProperties DEF TypeOK
<1>2. UNCHANGED <<cq, inflight, open, queue, phase, client>>
  BY DEF NextCqe, clientVars, kernelVars
<1>3. seen' = [seen EXCEPT ![s] = @ + 1] /\ seen[s] < Len(cq[s])
  BY DEF NextCqe
<1>4. QED
  BY <1>1, <1>2, <1>3 DEF UnreadAt, Current, TypeOK

\* The parts of IInv that say nothing of the submission queue.
LEMMA FewerUnread ==
  ASSUME IInv, UNCHANGED <<cq, inflight, open, queue, phase, client>>,
         UNCHANGED sq, TypeOK',
         \A t \in Shards : UnreadAt(t)' \subseteq UnreadAt(t),
         ExitCause'
  PROVE  IInv'
<1>1. \A t \in Shards : PreparedSet(t)' = PreparedSet(t) /\ Receiving(t)' = Receiving(t)
  BY DEF PreparedSet, Receiving
<1>2. RoomInv' /\ RequestInv' /\ OffInv' /\ QueueInv'
  BY <1>1 DEF IInv, RoomInv, RequestInv, OffInv, QueueInv
<1>3. CompletionInv'
  BY <1>1 DEF IInv, CompletionInv
<1>4. OwnerInv'
  BY DEF IInv, OwnerInv
<1>5. QED
  BY <1>2, <1>3, <1>4 DEF IInv

\* A threadlet whose completion is read prepares its next recv, and a
\* listener its next accept.
LEMMA HandleInv ==
  ASSUME IInv, TypeOK', NEW s \in Shards, NEW data \in {"thread", "accept"},
         NextCqe(s, data),
         NEW c \in Conns, c = Current(s).conn,
         NEW e \in Seq(SQEs), Prepare(s, e),
         \/ data = "thread" /\ Len(e) <= 2 /\ AcceptSqe \notin Entries(e)
         \/ data = "accept" /\ Len(e) = 3 /\ AcceptSqe \in Entries(e) /\ Current(s).ok,
         NEW r \in RecvsOf(c), RecvsOf(c) \cap Entries(e) = {r},
         \A d \in Conns : d # c => RecvsOf(d) \cap Entries(e) = {}
  PROVE  IInv'
<1> DEFINE E == Entries(e)
<1> DEFINE k == seen[s] + 1
<1>1. /\ k \in UnreadAt(s) /\ cq[s][k].data = data /\ cq[s][k].conn = c
      /\ UnreadAt(s)' = UnreadAt(s) \ {k}
      /\ \A t \in Shards \ {s} : UnreadAt(t)' = UnreadAt(t)
      /\ \A t \in Shards : UnreadAt(t)' \subseteq UnreadAt(t)
      /\ UNCHANGED <<cq, inflight, open, queue, phase, client>>
  BY ReadOne DEF IInv, NextCqe
<1>2. c \in open /\ c \notin Receiving(s) /\ RecvsOf(c) \cap inflight[s] = {}
  BY <1>1, ReadOne DEF IInv, CompletionInv
<1>3. data = "accept" => AcceptSqe \notin PreparedSet(s) /\ AcceptSqe \notin inflight[s]
  BY <1>1 DEF IInv, CompletionInv
<1>4. Receiving(s) \in SUBSET open
  BY DEF IInv, RequestInv, Receiving
<1>5. /\ Cardinality(Receiving(s) \cup {c}) = Cardinality(Receiving(s)) + 1
      /\ Cardinality(Receiving(s)) + 1 <= Cardinality(open)
      /\ Cardinality(Receiving(s)) \in Nat /\ Cardinality(open) \in Nat
  <2>1. Receiving(s) \cup {c} \in SUBSET open
    BY <1>2, <1>4
  <2>2. TypeOK
    BY DEF IInv
  <2>3. /\ IsFiniteSet(Receiving(s)) /\ Cardinality(Receiving(s)) \in Nat
        /\ Cardinality(Receiving(s) \cup {c}) <= Cardinality(open)
        /\ Cardinality(open) \in Nat
    BY <1>4, <2>1, <2>2, OpenFinite
  <2>4. Cardinality(Receiving(s) \cup {c}) = Cardinality(Receiving(s)) + 1
    BY <1>2, <2>3, FS_AddElement
  <2>5. QED
    BY <2>3, <2>4
<1>6. Len(sq[s]) \in Nat /\ Len(e) \in Nat
  BY LenProperties DEF IInv, TypeOK
<1>7. Len(sq[s]) + Len(e) <= 2 * (Cardinality(Receiving(s)) + 1)
                               + (IF AcceptSqe \in PreparedSet(s) \cup E THEN 1 ELSE 0)
  <2>1. Len(sq[s]) <= 2 * Cardinality(Receiving(s))
                        + (IF AcceptSqe \in PreparedSet(s) THEN 1 ELSE 0)
    BY DEF IInv, RoomInv
  <2>2. CASE data = "thread"
    BY <1>5, <1>6, <2>1, <2>2
  <2>3. CASE data = "accept"
    <3>1. Len(sq[s]) <= 2 * Cardinality(Receiving(s)) /\ Len(e) = 3
      BY <1>3, <1>5, <1>6, <2>1, <2>3
    <3>2. AcceptSqe \in PreparedSet(s) \cup E
      BY <2>3
    <3>3. Len(sq[s]) + Len(e) <= 2 * (Cardinality(Receiving(s)) + 1) + 1
      BY <1>5, <1>6, <3>1
    <3>4. QED
      BY <3>2, <3>3
  <2>4. QED
    BY <2>2, <2>3
<1>8. CASE Len(sq[s]) + Len(e) <= SqEntries
  <2>1. sq' = [sq EXCEPT ![s] = @ \o e] /\ UNCHANGED <<alive, cause>>
    BY <1>8 DEF Prepare
  <2>2. /\ PreparedSet(s)' = PreparedSet(s) \cup E
        /\ Len(sq'[s]) = Len(sq[s]) + Len(e)
        /\ \A t \in Shards \ {s} : sq'[t] = sq[t] /\ PreparedSet(t)' = PreparedSet(t)
    BY <2>1, AppendPrepared DEF IInv, Entries
  <2>3. /\ Receiving(s)' = Receiving(s) \cup {c}
        /\ \A t \in Shards \ {s} : Receiving(t)' = Receiving(t)
    BY <2>2 DEF Receiving
  <2>4. RoomInv'
    <3>1. Len(sq'[s]) <= 2 * Cardinality(Receiving(s)')
                           + (IF AcceptSqe \in PreparedSet(s)' THEN 1 ELSE 0)
      BY <1>5, <1>7, <2>2, <2>3
    <3>2. ASSUME NEW t \in Shards, t # s
          PROVE  Len(sq'[t]) <= 2 * Cardinality(Receiving(t)')
                           + (IF AcceptSqe \in PreparedSet(t)' THEN 1 ELSE 0)
      <4>1. sq'[t] = sq[t] /\ PreparedSet(t)' = PreparedSet(t) /\ Receiving(t)' = Receiving(t)
        BY <2>2, <2>3, <3>2
      <4>2. Len(sq[t]) <= 2 * Cardinality(Receiving(t))
                            + (IF AcceptSqe \in PreparedSet(t) THEN 1 ELSE 0)
        BY DEF IInv, RoomInv
      <4>3. QED
        BY <4>1, <4>2
    <3>3. QED
      BY <3>1, <3>2 DEF RoomInv
  <2>5. RequestInv'
    <3>1. ASSUME NEW d \in Conns
          PROVE  ~(RecvsOf(d) \subseteq PreparedSet(s)')
      <4>1. CASE d = c
        <5>1. RecvsOf(c) \cap PreparedSet(s) = {}
          BY <1>2 DEF Receiving
        <5>2. RecvsOf(c) \cap PreparedSet(s)' = {r}
          BY <2>2, <5>1
        <5>3. QED
          BY <4>1, <5>2, RequestsDiffer DEF RecvsOf
      <4>2. CASE d # c
        BY <2>2, <4>2 DEF IInv, RequestInv
      <4>3. QED
        BY <4>1, <4>2
    <3>2. QED
      BY <1>1, <1>2, <1>3, <2>2, <2>3, <3>1 DEF IInv, RequestInv
  <2>6. CompletionInv'
    <3>1. ASSUME NEW i \in UnreadAt(s) \ {k}, cq[s][i].data # "null"
          PROVE  cq[s][i].conn # c /\ (data = "accept" => cq[s][i].data # "accept")
      BY <1>1, <3>1 DEF IInv, OwnerInv
    <3>2. QED
      BY <1>1, <2>2, <2>3, <3>1 DEF IInv, CompletionInv
  <2>7. OwnerInv'
    BY <1>1 DEF IInv, OwnerInv
  <2>8. OffInv' /\ QueueInv' /\ ExitCause'
    BY <1>1, <2>1 DEF IInv, OffInv, QueueInv, ExitCause, NextCqe
  <2>9. QED
    BY <2>4, <2>5, <2>6, <2>7, <2>8 DEF IInv
<1>9. CASE ~(Len(sq[s]) + Len(e) <= SqEntries)
  <2>1. sq' = sq /\ Exits("full")
    BY <1>9 DEF Prepare
  <2>2. ExitCause'
    BY <1>1, <1>5, <1>6, <1>7, <1>9, <2>1, ShardAssumption DEF ExitCause, Exits
  <2>3. QED
    BY <1>1, <2>1, <2>2, FewerUnread
<1>10. QED
  BY <1>8, <1>9

\* Posting completions leaves the unread ones as they are and adds e.
LEMMA AppendUnread ==
  ASSUME TypeOK, NEW s \in Shards, NEW r, NEW e \in Seq(CQEs), Complete(s, r, e),
         UNCHANGED seen
  PROVE  /\ inflight'[s] = inflight[s] \ r
         /\ \A t \in Shards \ {s} : /\ inflight'[t] = inflight[t] /\ cq'[t] = cq[t]
                                    /\ UnreadAt(t)' = UnreadAt(t)
         /\ \A i \in UnreadAt(s)' :
              \/ i \in UnreadAt(s) /\ cq'[s][i] = cq[s][i]
              \/ i - Len(cq[s]) \in 1..Len(e) /\ cq'[s][i] = e[i - Len(cq[s])]
<1>1. cq'[s] = cq[s] \o e /\ inflight'[s] = inflight[s] \ r
  BY DEF Complete, TypeOK
<1>2. \A t \in Shards \ {s} : inflight'[t] = inflight[t] /\ cq'[t] = cq[t]
  BY DEF Complete, TypeOK
<1>3. /\ Len(cq[s]) \in Nat /\ Len(e) \in Nat /\ seen[s] \in Nat
      /\ Len(cq'[s]) = Len(cq[s]) + Len(e)
      /\ \A i \in 1..(Len(cq[s]) + Len(e)) :
           cq'[s][i] = IF i <= Len(cq[s]) THEN cq[s][i] ELSE e[i - Len(cq[s])]
  BY <1>1, ConcatProperties, LenProperties DEF TypeOK
<1>4. ASSUME NEW i \in UnreadAt(s)'
      PROVE  \/ i \in UnreadAt(s) /\ cq'[s][i] = cq[s][i]
             \/ i - Len(cq[s]) \in 1..Len(e) /\ cq'[s][i] = e[i - Len(cq[s])]
  <2>1. i \in (seen[s] + 1)..(Len(cq[s]) + Len(e))
    BY <1>3 DEF UnreadAt
  <2>2. CASE i <= Len(cq[s])
    BY <1>3, <2>1, <2>2 DEF UnreadAt
  <2>3. CASE ~(i <= Len(cq[s]))
    <3>1. \A n, m, k \in Nat : i \in (k + 1)..(n + m) /\ ~(i <= n)
            => i - n \in 1..m /\ i \in 1..(n + m)
      OBVIOUS
    <3>2. i - Len(cq[s]) \in 1..Len(e) /\ i \in 1..(Len(cq[s]) + Len(e))
      BY <1>3, <2>1, <2>3, <3>1
    <3>3. cq'[s][i] = e[i - Len(cq[s])]
      BY <1>3, <2>3, <3>2
    <3>4. QED
      BY <3>2, <3>3
  <2>4. QED
    BY <2>2, <2>3
<1>5. \A t \in Shards \ {s} : UnreadAt(t)' = UnreadAt(t)
  BY <1>2 DEF UnreadAt
<1>6. QED
  BY <1>1, <1>2, <1>4, <1>5

\* The requests r of connection c complete with e: at most one completion is
\* the threadlet's, and then its only request with the kernel is in r.
LEMMA PostInv ==
  ASSUME IInv, TypeOK', NEW s \in Shards, NEW c \in Conns, NEW r, NEW e \in Seq(CQEs),
         Complete(s, r, e), inflight[s] # {},
         UNCHANGED <<sq, seen, open, queue, phase, client, alive, cause>>,
         \A k \in 1..Len(e) :
           \/ e[k].data = "null"
           \/ /\ e[k].data = "thread" /\ e[k].conn = c
              /\ RecvsOf(c) \cap inflight[s] # {}
              /\ RecvsOf(c) \cap inflight[s] \subseteq r,
         \A k, l \in 1..Len(e) : e[k].data = "thread" /\ e[l].data = "thread" => k = l
  PROVE  IInv'
<1>1. /\ inflight'[s] = inflight[s] \ r
      /\ \A t \in Shards \ {s} : /\ inflight'[t] = inflight[t] /\ cq'[t] = cq[t]
                                 /\ UnreadAt(t)' = UnreadAt(t)
      /\ \A i \in UnreadAt(s)' :
           \/ i \in UnreadAt(s) /\ cq'[s][i] = cq[s][i]
           \/ i - Len(cq[s]) \in 1..Len(e) /\ cq'[s][i] = e[i - Len(cq[s])]
  BY AppendUnread DEF IInv
<1>2. \A t \in Shards : PreparedSet(t)' = PreparedSet(t) /\ Receiving(t)' = Receiving(t)
  BY DEF PreparedSet, Receiving
<1>3. \A t \in Shards : inflight'[t] \subseteq inflight[t]
  BY <1>1
<1>4. ASSUME NEW k \in 1..Len(e), e[k].data # "null"
      PROVE  /\ e[k].data = "thread" /\ e[k].conn = c
             /\ c \in open /\ c \notin Receiving(s)
             /\ RecvsOf(c) \cap inflight'[s] = {}
             /\ \A i \in UnreadAt(s) : cq[s][i].data # "null" => cq[s][i].conn # c
  <2>1. /\ e[k].data = "thread" /\ e[k].conn = c
        /\ RecvsOf(c) \cap inflight[s] # {} /\ RecvsOf(c) \cap inflight[s] \subseteq r
    BY <1>4
  <2>2. c \in open /\ c \notin Receiving(s)
    BY <2>1 DEF IInv, RequestInv
  <2>3. ASSUME NEW i \in UnreadAt(s), cq[s][i].data # "null"
        PROVE  cq[s][i].conn # c
    <3>1. cq[s][i] \in CQEs
      BY ElementOfSeq, LenProperties DEF IInv, TypeOK, UnreadAt
    <3>2. \/ cq[s][i].data = "thread" \/ (cq[s][i].data = "accept" /\ cq[s][i].ok)
          \/ cq[s][i].conn = NoConn
      BY <2>3, <3>1 DEF CQEs, IInv, CompletionInv
    <3>3. QED
      BY <2>1, <3>2, ShardAssumption DEF IInv, CompletionInv
  <2>4. QED
    BY <1>1, <2>1, <2>2, <2>3
<1>5. RoomInv' /\ QueueInv' /\ ExitCause'
  BY <1>2 DEF IInv, RoomInv, QueueInv, ExitCause
<1>6. RequestInv'
  BY <1>2, <1>3 DEF IInv, RequestInv
<1>7. OffInv'
  BY <1>1 DEF IInv, OffInv
<1>8. CompletionInv'
  <2>1. ASSUME NEW t \in Shards, NEW i \in UnreadAt(t)', t # s \/ (i \in UnreadAt(t) /\ cq'[t][i] = cq[t][i])
        PROVE  i \in UnreadAt(t) /\ cq'[t][i] = cq[t][i]
    BY <1>1, <2>1
  <2>2. ASSUME NEW i \in UnreadAt(s)', i - Len(cq[s]) \in 1..Len(e),
               cq'[s][i] = e[i - Len(cq[s])], cq'[s][i].data # "null"
        PROVE  /\ cq'[s][i].data = "thread" /\ cq'[s][i].conn \in open
               /\ cq'[s][i].conn \notin Receiving(s)
               /\ RecvsOf(cq'[s][i].conn) \cap inflight'[s] = {}
    BY <1>4, <2>2
  <2>3. QED
    BY <1>1, <1>2, <1>3, <2>1, <2>2 DEF IInv, CompletionInv
<1>9. OwnerInv'
  <2>1. ASSUME NEW i \in UnreadAt(s)', NEW j \in UnreadAt(s)',
               cq'[s][i].data # "null", cq'[s][j].data # "null",
               \/ cq'[s][i].conn = cq'[s][j].conn
               \/ cq'[s][i].data = "accept" /\ cq'[s][j].data = "accept"
        PROVE  i = j
    <3>1. CASE i \in UnreadAt(s) /\ cq'[s][i] = cq[s][i] /\ j \in UnreadAt(s) /\ cq'[s][j] = cq[s][j]
      BY <2>1, <3>1 DEF IInv, OwnerInv
    <3>2. CASE /\ i - Len(cq[s]) \in 1..Len(e) /\ cq'[s][i] = e[i - Len(cq[s])]
               /\ j \in UnreadAt(s) /\ cq'[s][j] = cq[s][j]
      BY <1>4, <2>1, <3>2
    <3>3. CASE /\ i \in UnreadAt(s) /\ cq'[s][i] = cq[s][i]
               /\ j - Len(cq[s]) \in 1..Len(e) /\ cq'[s][j] = e[j - Len(cq[s])]
      BY <1>4, <2>1, <3>3
    <3>4. CASE /\ i - Len(cq[s]) \in 1..Len(e) /\ cq'[s][i] = e[i - Len(cq[s])]
               /\ j - Len(cq[s]) \in 1..Len(e) /\ cq'[s][j] = e[j - Len(cq[s])]
      <4>1. i - Len(cq[s]) = j - Len(cq[s])
        BY <1>4, <2>1, <3>4
      <4>2. i \in Int /\ j \in Int /\ Len(cq[s]) \in Int
        BY LenProperties DEF UnreadAt, IInv, TypeOK
      <4>3. QED
        BY <4>1, <4>2
    <3>5. QED
      BY <1>1, <3>1, <3>2, <3>3, <3>4
  <2>2. QED
    BY <1>1, <2>1 DEF IInv, OwnerInv
<1>10. QED
  BY <1>5, <1>6, <1>7, <1>8, <1>9 DEF IInv

\* The accept of s completes with the entry x, for connection d if it succeeded.
LEMMA AcceptInv ==
  ASSUME IInv, TypeOK', NEW s \in Shards, NEW x \in CQEs, x.data = "accept",
         AcceptSqe \in inflight[s], Complete(s, {AcceptSqe}, <<x>>),
         UNCHANGED <<sq, seen, phase, client, alive, cause>>,
         \/ /\ x.ok /\ x.conn \in queue[s] /\ open' = open \cup {x.conn}
            /\ queue' = [queue EXCEPT ![s] = @ \ {x.conn}]
         \/ /\ ~x.ok /\ x.conn = NoConn /\ Cardinality(open) >= MaxFds
            /\ UNCHANGED <<open, queue>>
  PROVE  IInv'
<1>1. PICK e \in Seq(CQEs) : e = <<x>> /\ Len(e) = 1 /\ e[1] = x
  <2>1. <<x>> \in Seq(CQEs) /\ Len(<<x>>) = 1 /\ <<x>>[1] = x
    OBVIOUS
  <2>2. QED
    BY <2>1, Zenon
<1>2. /\ inflight'[s] = inflight[s] \ {AcceptSqe}
      /\ \A t \in Shards \ {s} : /\ inflight'[t] = inflight[t] /\ cq'[t] = cq[t]
                                 /\ UnreadAt(t)' = UnreadAt(t)
      /\ \A i \in UnreadAt(s)' :
           \/ i \in UnreadAt(s) /\ cq'[s][i] = cq[s][i]
           \/ i = Len(cq[s]) + 1 /\ cq'[s][i] = x
  <2>1. /\ inflight'[s] = inflight[s] \ {AcceptSqe}
        /\ \A t \in Shards \ {s} : /\ inflight'[t] = inflight[t] /\ cq'[t] = cq[t]
                                   /\ UnreadAt(t)' = UnreadAt(t)
        /\ \A i \in UnreadAt(s)' :
             \/ i \in UnreadAt(s) /\ cq'[s][i] = cq[s][i]
             \/ i - Len(cq[s]) \in 1..Len(e) /\ cq'[s][i] = e[i - Len(cq[s])]
    <3>1. Complete(s, {AcceptSqe}, e) /\ seen' = seen /\ TypeOK
      BY <1>1 DEF IInv
    <3>2. QED
      BY <3>1, AppendUnread
  <2>2. ASSUME NEW i \in UnreadAt(s)', i - Len(cq[s]) \in 1..Len(e),
               cq'[s][i] = e[i - Len(cq[s])]
        PROVE  i = Len(cq[s]) + 1 /\ cq'[s][i] = x
    <3>1. i \in Int /\ Len(cq[s]) \in Nat /\ i - Len(cq[s]) = 1
      BY <1>1, <2>2, LenProperties DEF UnreadAt, IInv, TypeOK
    <3>2. QED
      BY <1>1, <2>2, <3>1
  <2>3. QED
    BY <2>1, <2>2
<1>3. \A t \in Shards : PreparedSet(t)' = PreparedSet(t) /\ Receiving(t)' = Receiving(t)
  BY DEF PreparedSet, Receiving
<1>4. open \subseteq open' /\ Cardinality(open) <= Cardinality(open')
  <2>1. open \in SUBSET open' /\ TypeOK /\ TypeOK'
    BY DEF IInv
  <2>2. IsFiniteSet(open')
    BY <2>1, ShardAssumption, FS_Subset DEF TypeOK
  <2>3. QED
    BY <2>1, <2>2, FS_Subset
<1>5. Cardinality(open) \in Nat /\ Cardinality(open') \in Nat
  <2>1. IsFiniteSet(open) /\ IsFiniteSet(open')
    BY ShardAssumption, FS_Subset DEF TypeOK, IInv
  <2>2. QED
    BY <2>1, FS_CardinalityType
\* Nothing of s belongs to a connection that was still queued.
<1>6. x.ok => /\ x.conn \in Conns /\ x.conn \notin open /\ x.conn \notin Receiving(s)
              /\ RecvsOf(x.conn) \cap inflight[s] = {}
  BY DEF IInv, QueueInv, TypeOK, RequestInv
<1>7. ASSUME NEW i \in UnreadAt(s), cq[s][i].data # "null"
      PROVE  cq[s][i].data = "thread" /\ cq[s][i].conn \in open /\ cq[s][i].conn # x.conn
  <2>1. cq[s][i] \in CQEs
    BY ElementOfSeq, LenProperties DEF IInv, TypeOK, UnreadAt
  <2>2. cq[s][i].data = "thread"
    BY <1>7, <2>1 DEF CQEs, IInv, CompletionInv
  <2>3. cq[s][i].conn \in open
    BY <2>2 DEF IInv, CompletionInv
  <2>4. QED
    BY <1>6, <2>2, <2>3, ShardAssumption DEF IInv, TypeOK
<1>8. RoomInv'
  BY <1>3 DEF IInv, RoomInv
<1>9. RequestInv'
  BY <1>2, <1>3, <1>4 DEF IInv, RequestInv
<1>10. CompletionInv'
  <2>1. AcceptSqe \notin PreparedSet(s)
    BY DEF IInv, RequestInv
  <2>2. ASSUME NEW t \in Shards, NEW i \in UnreadAt(t)', i \in UnreadAt(t), cq'[t][i] = cq[t][i]
        PROVE  LET y == cq'[t][i] IN
               /\ y.data = "thread" \/ (y.data = "accept" /\ y.ok) =>
                    /\ y.conn \in open' /\ y.conn \notin Receiving(t)'
                    /\ RecvsOf(y.conn) \cap inflight'[t] = {}
               /\ y.data = "accept" =>
                    /\ AcceptSqe \notin PreparedSet(t)' /\ AcceptSqe \notin inflight'[t]
                    /\ ~y.ok => y.conn = NoConn /\ Cardinality(open') >= MaxFds
    <3>1. inflight'[t] \subseteq inflight[t]
      BY <1>2
    <3>2. Cardinality(open) >= MaxFds => Cardinality(open') >= MaxFds
      BY <1>4, <1>5, ShardAssumption
    <3>3. QED
      BY <1>3, <1>4, <2>2, <3>1, <3>2 DEF IInv, CompletionInv
  <2>3. ASSUME NEW i \in UnreadAt(s)', cq'[s][i] = x
        PROVE  /\ x.ok => /\ x.conn \in open' /\ x.conn \notin Receiving(s)'
                          /\ RecvsOf(x.conn) \cap inflight'[s] = {}
               /\ AcceptSqe \notin PreparedSet(s)' /\ AcceptSqe \notin inflight'[s]
               /\ ~x.ok => x.conn = NoConn /\ Cardinality(open') >= MaxFds
    BY <1>2, <1>3, <1>6, <2>1
  <2>4. QED
    BY <1>2, <2>2, <2>3 DEF CompletionInv
<1>11. OwnerInv'
  <2>1. ASSUME NEW i \in UnreadAt(s)', NEW j \in UnreadAt(s)',
               cq'[s][i].data # "null", cq'[s][j].data # "null",
               \/ cq'[s][i].conn = cq'[s][j].conn
               \/ cq'[s][i].data = "accept" /\ cq'[s][j].data = "accept"
        PROVE  i = j
    <3>1. CASE i \in UnreadAt(s) /\ cq'[s][i] = cq[s][i] /\ j \in UnreadAt(s) /\ cq'[s][j] = cq[s][j]
      BY <2>1, <3>1 DEF IInv, OwnerInv
    <3>2. CASE cq'[s][i] = x /\ j \in UnreadAt(s) /\ cq'[s][j] = cq[s][j]
      BY <1>7, <2>1, <3>2
    <3>3. CASE i \in UnreadAt(s) /\ cq'[s][i] = cq[s][i] /\ cq'[s][j] = x
      BY <1>7, <2>1, <3>3
    <3>4. CASE i = Len(cq[s]) + 1 /\ j = Len(cq[s]) + 1
      BY <3>4
    <3>5. QED
      BY <1>2, <3>1, <3>2, <3>3, <3>4
  <2>2. QED
    BY <1>2, <2>1 DEF IInv, OwnerInv
<1>12. OffInv'
  BY <1>2 DEF IInv, OffInv
<1>13. QueueInv'
  <2>1. CASE x.ok
    <3>1. \A c \in open' : client'[c] # "idle"
      BY <2>1 DEF IInv, QueueInv
    <3>2. ASSUME NEW t \in Shards, NEW c \in queue'[t]
          PROVE  c \in queue[t] /\ c # x.conn
      <4>1. queue'[t] = IF t = s THEN queue[s] \ {x.conn} ELSE queue[t]
        BY <2>1 DEF IInv, TypeOK
      <4>2. x.conn \in queue[s] /\ (x.conn \in queue[t] => t = s)
        BY <2>1 DEF IInv, QueueInv
      <4>3. QED
        BY <4>1, <4>2
    <3>3. QED
      BY <2>1, <3>1, <3>2 DEF IInv, QueueInv
  <2>2. CASE ~x.ok
    BY <2>2 DEF IInv, QueueInv
  <2>3. QED
    BY <2>1, <2>2 DEF CQEs
<1>14. ExitCause'
  BY <1>4, <1>5, ShardAssumption DEF IInv, ExitCause
<1>15. QED
  BY <1>8, <1>9, <1>10, <1>11, <1>12, <1>13, <1>14 DEF IInv

\* Steps that touch neither the requests nor the completions.
LEMMA FrameInv ==
  ASSUME IInv, TypeOK', UNCHANGED <<sq, inflight, cq, seen, open, queue>>,
         UNCHANGED <<alive, cause>> \/ Exits("wait"),
         \A t \in Shards : phase'[t] = "off" => phase[t] = "off",
         \A c \in Conns : client'[c] = "idle" => client[c] = "idle"
  PROVE  IInv'
<1>1. \A t \in Shards : /\ PreparedSet(t)' = PreparedSet(t) /\ Receiving(t)' = Receiving(t)
                        /\ UnreadAt(t)' = UnreadAt(t)
  BY DEF PreparedSet, Receiving, UnreadAt
<1>2. RoomInv' /\ RequestInv' /\ OffInv' /\ ExitCause'
  BY <1>1 DEF IInv, RoomInv, RequestInv, OffInv, ExitCause, Exits
<1>3. CompletionInv' /\ OwnerInv'
  BY <1>1 DEF IInv, CompletionInv, OwnerInv
<1>4. QueueInv'
  BY DEF IInv, QueueInv, TypeOK
<1>5. QED
  BY <1>2, <1>3, <1>4 DEF IInv

LEMMA ConnectInv ==
  ASSUME IInv, TypeOK', NEW c \in Conns, Connect(c)
  PROVE  IInv'
<1>1. UNCHANGED <<alive, cause, phase, sq, inflight, cq, seen, open>>
  BY DEF Connect, loopVars
<1>2. \A t \in Shards : /\ PreparedSet(t)' = PreparedSet(t) /\ Receiving(t)' = Receiving(t)
                        /\ UnreadAt(t)' = UnreadAt(t)
  BY <1>1 DEF PreparedSet, Receiving, UnreadAt
<1>3. RoomInv' /\ RequestInv' /\ OffInv' /\ ExitCause'
  BY <1>1, <1>2 DEF IInv, RoomInv, RequestInv, OffInv, ExitCause
<1>4. CompletionInv' /\ OwnerInv'
  BY <1>1, <1>2 DEF IInv, CompletionInv, OwnerInv
<1>5. QueueInv'
  <2>1. client[c] = "idle" /\ client' = [client EXCEPT ![c] = "connected"]
    BY DEF Connect, ClientConnect, ClientMoves
  <2>2. PICK s \in Shards : queue' = [queue EXCEPT ![s] = @ \cup {c}]
    BY DEF Connect
  <2>3. c \notin open /\ \A t \in Shards : c \notin queue[t]
    BY <2>1 DEF IInv, QueueInv
  <2>4. \A d \in Conns : client'[d] = "idle" => client[d] = "idle"
    BY <2>1 DEF IInv, TypeOK, ClientTypeOK
  <2>5. client'[c] # "idle"
    BY <2>1 DEF IInv, TypeOK, ClientTypeOK
  <2>6. \A t \in Shards : queue'[t] = IF t = s THEN queue[s] \cup {c} ELSE queue[t]
    BY <2>2 DEF IInv, TypeOK
  <2>7. \A d \in open' : client'[d] # "idle"
    BY <1>1, <2>4 DEF IInv, QueueInv, TypeOK
  <2>8. ASSUME NEW t \in Shards, NEW d \in queue'[t]
        PROVE  /\ client'[d] # "idle" /\ d \notin open'
               /\ \A u \in Shards : d \in queue'[u] => u = t
    <3>1. CASE d = c
      <4>1. \A u \in Shards : d \in queue'[u] => u = s
        BY <2>3, <2>6, <3>1
      <4>2. QED
        BY <1>1, <2>3, <2>5, <3>1, <4>1
    <3>2. CASE d # c
      <4>1. d \in queue[t] /\ d \in Conns
        BY <2>6, <3>2 DEF IInv, TypeOK
      <4>2. client[d] # "idle" /\ d \notin open /\ \A u \in Shards : d \in queue[u] => u = t
        BY <4>1 DEF IInv, QueueInv
      <4>3. \A u \in Shards : d \in queue'[u] => d \in queue[u]
        BY <2>6, <3>2
      <4>4. QED
        BY <1>1, <2>4, <4>1, <4>2, <4>3
    <3>3. QED
      BY <3>1, <3>2
  <2>9. QED
    BY <2>7, <2>8 DEF QueueInv
<1>6. QED
  BY <1>3, <1>4, <1>5 DEF IInv

LEMMA SubmitInv ==
  ASSUME IInv, TypeOK', NEW s \in Shards, Submit(s)
  PROVE  IInv'
<1>1. /\ inflight'[s] = inflight[s] \cup PreparedSet(s)
      /\ sq'[s] = <<>> /\ PreparedSet(s)' = {} /\ Receiving(s)' = {}
      /\ \A t \in Shards \ {s} : /\ inflight'[t] = inflight[t] /\ sq'[t] = sq[t]
                                 /\ PreparedSet(t)' = PreparedSet(t)
                                 /\ Receiving(t)' = Receiving(t)
  BY DEF Submit, PreparedSet, Receiving, IInv, TypeOK
<1>2. UNCHANGED <<alive, cause, cq, seen, open, queue, client>>
  BY DEF Submit, clientVars
<1>3. \A t \in Shards : UnreadAt(t)' = UnreadAt(t)
  BY <1>2 DEF UnreadAt
<1>4. RoomInv'
  <2>1. Len(sq'[s]) = 0 /\ Cardinality(Receiving(s)') = 0
    BY <1>1, FS_EmptySet
  <2>2. Len(sq'[s]) <= 2 * Cardinality(Receiving(s)')
                         + (IF AcceptSqe \in PreparedSet(s)' THEN 1 ELSE 0)
    BY <1>1, <2>1
  <2>3. ASSUME NEW t \in Shards, t # s
        PROVE  Len(sq'[t]) <= 2 * Cardinality(Receiving(t)')
                           + (IF AcceptSqe \in PreparedSet(t)' THEN 1 ELSE 0)
    <3>1. sq'[t] = sq[t] /\ PreparedSet(t)' = PreparedSet(t) /\ Receiving(t)' = Receiving(t)
      BY <1>1, <2>3
    <3>2. Len(sq[t]) <= 2 * Cardinality(Receiving(t))
                          + (IF AcceptSqe \in PreparedSet(t) THEN 1 ELSE 0)
      BY DEF IInv, RoomInv
    <3>3. QED
      BY <3>1, <3>2
  <2>4. QED
    BY <2>2, <2>3 DEF RoomInv
<1>5. \A c \in Conns : /\ c \notin Receiving(s) => RecvsOf(c) \cap PreparedSet(s) = {}
                       /\ c \in Receiving(s) => c \in open
  BY DEF IInv, RequestInv, Receiving
<1>6. RequestInv'
  <2>1. ASSUME NEW c \in Conns
        PROVE  /\ RecvsOf(c) \cap inflight'[s] # {} => c \in open
               /\ ~(RecvsOf(c) \subseteq inflight'[s])
    <3>1. CASE c \in Receiving(s)
      BY <1>1, <1>5, <3>1 DEF IInv, RequestInv
    <3>2. CASE c \notin Receiving(s)
      BY <1>1, <1>5, <3>2 DEF IInv, RequestInv
    <3>3. QED
      BY <3>1, <3>2
  <2>2. ASSUME NEW c \in Conns
        PROVE  ~(RecvsOf(c) \subseteq PreparedSet(s)')
    BY <1>1 DEF RecvsOf
  <2>3. QED
    BY <1>1, <1>2, <2>1, <2>2 DEF IInv, RequestInv
<1>7. CompletionInv'
  <2>1. ASSUME NEW i \in UnreadAt(s)
        PROVE  LET e == cq[s][i] IN
               /\ e.data = "thread" \/ (e.data = "accept" /\ e.ok) =>
                    /\ e.conn \in open /\ RecvsOf(e.conn) \cap inflight'[s] = {}
               /\ e.data = "accept" => AcceptSqe \notin inflight'[s]
    BY <1>1, <1>5 DEF IInv, CompletionInv, TypeOK
  <2>2. QED
    BY <1>1, <1>2, <1>3, <2>1 DEF IInv, CompletionInv
<1>8. OwnerInv'
  BY <1>2, <1>3 DEF IInv, OwnerInv
<1>9. OffInv'
  <2>1. \A t \in Shards : phase'[t] = "off" => t # s /\ phase[t] = "off"
    BY DEF Submit, IInv, TypeOK
  <2>2. QED
    BY <1>1, <1>2, <2>1 DEF IInv, OffInv
<1>10. QueueInv' /\ ExitCause'
  BY <1>2 DEF IInv, QueueInv, ExitCause
<1>11. QED
  BY <1>4, <1>6, <1>7, <1>8, <1>9, <1>10 DEF IInv

LEMMA AdvanceInv ==
  ASSUME IInv, TypeOK', NEW s \in Shards, Advance(s)
  PROVE  IInv'
<1>1. UNCHANGED <<alive, cause, sq, inflight, open, queue, client>>
  BY DEF Advance, clientVars
<1>2. \A t \in Shards : PreparedSet(t)' = PreparedSet(t) /\ Receiving(t)' = Receiving(t)
  BY <1>1 DEF PreparedSet, Receiving
\* The entries that remain keep their order and are the unread ones.
<1>3. ASSUME NEW i \in UnreadAt(s)'
      PROVE  i + seen[s] \in UnreadAt(s) /\ cq'[s][i] = cq[s][i + seen[s]]
  <2>1. /\ seen'[s] = 0 /\ cq'[s] = SubSeq(cq[s], seen[s] + 1, Len(cq[s]))
        /\ seen[s] \in Nat /\ Len(cq[s]) \in Nat /\ seen[s] <= Len(cq[s])
    BY LenProperties DEF Advance, IInv, TypeOK
  <2>2. \A j \in (seen[s] + 1)..Len(cq[s]) : cq[s][j] \in CQEs
    BY <2>1, ElementOfSeq DEF IInv, TypeOK
  <2>3. seen[s] + 1 \in Int /\ Len(cq[s]) \in Int
    BY <2>1
  <2>4. /\ Len(cq'[s]) = IF seen[s] + 1 <= Len(cq[s]) THEN Len(cq[s]) - (seen[s] + 1) + 1 ELSE 0
        /\ \A j \in 1..(Len(cq[s]) - (seen[s] + 1) + 1) : cq'[s][j] = cq[s][seen[s] + 1 + j - 1]
    BY <2>1, <2>2, <2>3, SubSeqProperties
  <2>5. i \in 1..(Len(cq[s]) - seen[s])
    BY SMTT(30), <2>1, <2>4 DEF UnreadAt
  <2>6. i + seen[s] \in UnreadAt(s)
    BY <2>1, <2>5 DEF UnreadAt
  <2>7. cq'[s][i] = cq[s][seen[s] + 1 + i - 1] /\ seen[s] + 1 + i - 1 = i + seen[s]
    BY SMTT(30), <2>1, <2>4, <2>5
  <2>8. QED
    BY <2>6, <2>7
<1>4. \A t \in Shards \ {s} : UnreadAt(t)' = UnreadAt(t) /\ cq'[t] = cq[t]
  BY DEF Advance, UnreadAt, IInv, TypeOK
<1>5. RoomInv' /\ RequestInv' /\ QueueInv' /\ ExitCause'
  BY <1>1, <1>2 DEF IInv, RoomInv, RequestInv, QueueInv, ExitCause
<1>6. CompletionInv'
  BY <1>1, <1>2, <1>3, <1>4 DEF IInv, CompletionInv
<1>7. OwnerInv'
  <2>1. ASSUME NEW i \in UnreadAt(s)', NEW j \in UnreadAt(s)',
               cq'[s][i].data # "null", cq'[s][j].data # "null",
               \/ cq'[s][i].conn = cq'[s][j].conn
               \/ cq'[s][i].data = "accept" /\ cq'[s][j].data = "accept"
        PROVE  i = j
    <3>1. i + seen[s] = j + seen[s]
      BY <1>3, <2>1 DEF IInv, OwnerInv
    <3>2. i \in Int /\ j \in Int /\ seen[s] \in Int
      BY DEF UnreadAt, IInv, TypeOK
    <3>3. QED
      BY <3>1, <3>2
  <2>2. QED
    BY <1>4, <2>1 DEF IInv, OwnerInv
<1>8. OffInv'
  <2>1. \A t \in Shards : phase'[t] = "off" => t # s /\ phase[t] = "off"
    BY DEF Advance, IInv, TypeOK
  <2>2. QED
    BY <1>1, <1>4, <2>1 DEF IInv, OffInv
<1>9. QED
  BY <1>5, <1>6, <1>7, <1>8 DEF IInv

LEMMA StartInv ==
  ASSUME IInv, TypeOK', NEW s \in Shards, Start(s)
  PROVE  IInv'
<1>1. /\ sq[s] = <<>> /\ inflight[s] = {} /\ cq[s] = <<>> /\ PreparedSet(s) = {}
      /\ Receiving(s) = {} /\ UnreadAt(s) = {}
  <2>1. sq[s] = <<>> /\ inflight[s] = {} /\ cq[s] = <<>>
    BY DEF Start, IInv, OffInv
  <2>2. PreparedSet(s) = {}
    BY <2>1 DEF PreparedSet
  <2>3. UnreadAt(s) = {}
    BY <2>1 DEF UnreadAt, IInv, TypeOK
  <2>4. QED
    BY <2>1, <2>2, <2>3 DEF Receiving
<1>2. UNCHANGED <<inflight, cq, seen, open, queue, client>>
  BY DEF Start, kernelVars, clientVars
<1>3. \A t \in Shards : UnreadAt(t)' = UnreadAt(t)
  BY <1>2 DEF UnreadAt
<1>4. \A t \in Shards : phase'[t] = "off" => t # s /\ phase[t] = "off"
  BY DEF Start, IInv, TypeOK
<1>5. Cardinality(open) \in Nat
  BY OpenFinite DEF IInv
<1>6. QueueInv' /\ OwnerInv'
  BY <1>2, <1>3 DEF IInv, QueueInv, OwnerInv
<1>7. PICK e \in Seq(SQEs) : e = <<AcceptSqe>> /\ Len(e) = 1 /\ e[1] = AcceptSqe
  <2>1. <<AcceptSqe>> \in Seq(SQEs) /\ Len(<<AcceptSqe>>) = 1 /\ <<AcceptSqe>>[1] = AcceptSqe
    BY EntryTypes
  <2>2. QED
    BY <2>1, Zenon
<1>8. Prepare(s, e)
  BY <1>7 DEF Start
<1>9. CASE Len(sq[s]) + Len(e) <= SqEntries
  <2>1. sq' = [sq EXCEPT ![s] = @ \o e] /\ UNCHANGED <<alive, cause>>
    BY <1>8, <1>9 DEF Prepare
  <2>2. TypeOK
    BY DEF IInv
  <2>3. /\ PreparedSet(s)' = PreparedSet(s) \cup Entries(e)
        /\ Len(sq'[s]) = Len(sq[s]) + Len(e)
        /\ \A t \in Shards \ {s} : sq'[t] = sq[t] /\ PreparedSet(t)' = PreparedSet(t)
    BY <2>1, <2>2, AppendPrepared DEF Entries
  <2>4. /\ PreparedSet(s)' = {AcceptSqe}
        /\ Len(sq'[s]) = 1
    BY <1>1, <1>7, <2>3, EmptySeq DEF Entries
  <2>5. /\ Receiving(s)' = {}
        /\ \A t \in Shards \ {s} : Receiving(t)' = Receiving(t)
    BY <2>3, <2>4, RequestsDiffer DEF Receiving
  <2>6. RoomInv'
    <3>1. Len(sq'[s]) <= 2 * Cardinality(Receiving(s)')
                           + (IF AcceptSqe \in PreparedSet(s)' THEN 1 ELSE 0)
      BY <2>4, <2>5, FS_EmptySet
    <3>2. ASSUME NEW t \in Shards, t # s
          PROVE  Len(sq'[t]) <= 2 * Cardinality(Receiving(t)')
                           + (IF AcceptSqe \in PreparedSet(t)' THEN 1 ELSE 0)
      <4>1. sq'[t] = sq[t] /\ PreparedSet(t)' = PreparedSet(t) /\ Receiving(t)' = Receiving(t)
        BY <2>3, <2>5, <3>2
      <4>2. Len(sq[t]) <= 2 * Cardinality(Receiving(t))
                            + (IF AcceptSqe \in PreparedSet(t) THEN 1 ELSE 0)
        BY DEF IInv, RoomInv
      <4>3. QED
        BY <4>1, <4>2
    <3>3. QED
      BY <3>1, <3>2 DEF RoomInv
  <2>7. RequestInv'
    <3>1. \A c \in Conns : ~(RecvsOf(c) \subseteq PreparedSet(s)')
      BY <2>4, RequestsDiffer DEF RecvsOf
    <3>2. QED
      BY <1>1, <1>2, <2>3, <2>4, <2>5, <3>1 DEF IInv, RequestInv
  <2>8. CompletionInv'
    BY <1>1, <1>2, <1>3, <2>3, <2>5 DEF IInv, CompletionInv
  <2>9. OffInv' /\ ExitCause'
    BY <1>2, <1>4, <2>1, <2>3 DEF IInv, OffInv, ExitCause
  <2>10. QED
    BY <1>6, <2>6, <2>7, <2>8, <2>9 DEF IInv
<1>10. CASE ~(Len(sq[s]) + Len(e) <= SqEntries)
  <2>1. sq' = sq /\ Exits("full")
    BY <1>8, <1>10 DEF Prepare
  <2>2. ExitCause'
    BY <1>1, <1>2, <1>5, <1>7, <1>10, <2>1, EmptySeq, ShardAssumption DEF ExitCause, Exits
  <2>3. \A t \in Shards : PreparedSet(t)' = PreparedSet(t) /\ Receiving(t)' = Receiving(t)
    BY <2>1 DEF PreparedSet, Receiving
  <2>4. RoomInv' /\ RequestInv' /\ OffInv'
    BY <1>2, <1>4, <2>1, <2>3 DEF IInv, RoomInv, RequestInv, OffInv
  <2>5. CompletionInv'
    BY <1>2, <1>3, <2>3 DEF IInv, CompletionInv
  <2>6. QED
    BY <1>6, <2>2, <2>4, <2>5 DEF IInv
<1>11. QED
  BY <1>9, <1>10

\* A completion that is read and prepares nothing.
LEMMA SkipInv ==
  ASSUME IInv, TypeOK', NEW s \in Shards, NEW data, NextCqe(s, data),
         UNCHANGED sq, ExitCause'
  PROVE  IInv'
<1>1. /\ UNCHANGED <<cq, inflight, open, queue, phase, client>>
      /\ \A t \in Shards : UnreadAt(t)' \subseteq UnreadAt(t)
  BY ReadOne DEF IInv
<1>2. QED
  BY <1>1, FewerUnread

LEMMA HandlersInv ==
  ASSUME IInv, TypeOK', NEW s \in Shards,
         OnNull(s) \/ OnAccepted(s) \/ OnHeader(s) \/ OnMsg(s)
  PROVE  IInv'
<1> DEFINE c == Current(s).conn
<1>1. TypeOK
  BY DEF IInv
<1>2. ASSUME NEW data, NextCqe(s, data)
      PROVE  /\ Current(s) \in CQEs /\ Current(s).data = data
             /\ \A t \in Shards : UnreadAt(t)' \subseteq UnreadAt(t)
             /\ Current(s).data = "thread" \/ (Current(s).data = "accept" /\ Current(s).ok)
                  => c \in open /\ c \in Conns
             /\ Current(s).data = "accept" /\ ~Current(s).ok => Cardinality(open) >= MaxFds
             /\ open' = open
  <2>1. /\ seen[s] + 1 \in UnreadAt(s) /\ Current(s) = cq[s][seen[s] + 1]
        /\ \A t \in Shards : UnreadAt(t)' \subseteq UnreadAt(t)
        /\ open' = open
    BY <1>1, <1>2, ReadOne
  <2>2. Current(s) \in CQEs /\ Current(s).data = data
    BY <1>1, <1>2, CurrentType DEF NextCqe
  <2>3. open \subseteq Conns
    BY <1>1 DEF TypeOK
  <2>4. /\ Current(s).data = "thread" \/ (Current(s).data = "accept" /\ Current(s).ok) => c \in open
        /\ Current(s).data = "accept" /\ ~Current(s).ok => Cardinality(open) >= MaxFds
    BY <2>1 DEF IInv, CompletionInv
  <2>5. QED
    BY <2>1, <2>2, <2>3, <2>4
<1>3. ASSUME NEW data, NextCqe(s, data), sq' = sq, UNCHANGED <<alive, cause>>
      PROVE  IInv'
  <2>1. ExitCause'
    BY <1>2, <1>3 DEF IInv, ExitCause
  <2>2. QED
    BY <1>3, <2>1, SkipInv
<1>4. CASE OnNull(s)
  BY <1>3, <1>4 DEF OnNull
<1>5. CASE OnAccepted(s)
  <2>1. NextCqe(s, "accept")
    BY <1>5 DEF OnAccepted
  <2>2. CASE Current(s).ok
    <3>1. Prepare(s, <<Sqe("send_size", c), AcceptSqe, Sqe("recv_hello", c)>>)
      BY <1>5, <2>2 DEF OnAccepted
    <3>2. c \in Conns
      BY <1>2, <2>1, <2>2
    <3>3. PICK e \in Seq(SQEs) :
            /\ e = <<Sqe("send_size", c), AcceptSqe, Sqe("recv_hello", c)>>
            /\ Len(e) = 3
            /\ Entries(e) = {Sqe("send_size", c), AcceptSqe, Sqe("recv_hello", c)}
      <4> DEFINE f == <<Sqe("send_size", c), AcceptSqe, Sqe("recv_hello", c)>>
      <4>1. f \in Seq(SQEs)
        BY <3>2, EntryTypes DEF Ops
      <4>2. Len(f) = 3
        OBVIOUS
      <4>3. {f[i] : i \in 1..3} = {f[1], f[2], f[3]}
        <5>1. 1..3 = {1, 2, 3}
          OBVIOUS
        <5>2. QED
          BY <5>1, Zenon
      <4>4. f[1] = Sqe("send_size", c) /\ f[2] = AcceptSqe /\ f[3] = Sqe("recv_hello", c)
        OBVIOUS
      <4>5. QED
        BY <4>1, <4>2, <4>3, <4>4, Zenon DEF Entries
    <3>4. /\ AcceptSqe \in Entries(e)
          /\ RecvsOf(c) \cap Entries(e) = {Sqe("recv_hello", c)}
          /\ \A d \in Conns : d # c => RecvsOf(d) \cap Entries(e) = {}
          /\ Sqe("recv_hello", c) \in RecvsOf(c)
      BY <3>2, <3>3 DEF RecvsOf, Sqe, AcceptSqe
    <3>5. Prepare(s, e)
      BY <3>1, <3>3
    <3>6. QED
      BY <2>1, <2>2, <3>2, <3>3, <3>4, <3>5, HandleInv
  <2>3. CASE ~Current(s).ok
    <3>1. sq' = sq /\ Cardinality(open) >= MaxFds /\ open' = open /\ Exits("accept")
      BY <1>2, <1>5, <2>1, <2>3 DEF OnAccepted
    <3>2. ExitCause'
      BY <1>1, <3>1, OpenFinite, ShardAssumption DEF ExitCause, Exits
    <3>3. QED
      BY <2>1, <3>1, <3>2, SkipInv
  <2>4. QED
    BY <2>2, <2>3
<1>6. CASE OnHeader(s)
  <2>1. NextCqe(s, "thread")
    BY <1>6 DEF OnHeader
  <2>2. CASE Current(s).ok
    <3>1. Prepare(s, <<Sqe("recv_msg", c)>>)
      BY <1>6, <2>2 DEF OnHeader
    <3>2. c \in Conns
      BY <1>2, <2>1
    <3>3. PICK e \in Seq(SQEs) :
            /\ e = <<Sqe("recv_msg", c)>>
            /\ Len(e) <= 2
            /\ Entries(e) = {Sqe("recv_msg", c)}
      <4> DEFINE f == <<Sqe("recv_msg", c)>>
      <4>1. f \in Seq(SQEs)
        BY <3>2, EntryTypes DEF Ops
      <4>2. Len(f) = 1 /\ Len(f) <= 2
        OBVIOUS
      <4>3. {f[i] : i \in 1..1} = {f[1]}
        <5>1. 1..1 = {1}
          OBVIOUS
        <5>2. QED
          BY <5>1, Zenon
      <4>4. f[1] = Sqe("recv_msg", c)
        OBVIOUS
      <4>5. QED
        BY <4>1, <4>2, <4>3, <4>4, Zenon DEF Entries
    <3>4. /\ AcceptSqe \notin Entries(e)
          /\ RecvsOf(c) \cap Entries(e) = {Sqe("recv_msg", c)}
          /\ \A d \in Conns : d # c => RecvsOf(d) \cap Entries(e) = {}
          /\ Sqe("recv_msg", c) \in RecvsOf(c)
      BY <3>2, <3>3 DEF RecvsOf, Sqe, AcceptSqe
    <3>5. Prepare(s, e)
      BY <3>1, <3>3
    <3>6. QED
      BY <2>1, <2>2, <3>2, <3>3, <3>4, <3>5, HandleInv
  <2>3. CASE ~Current(s).ok
    BY <1>3, <1>6, <2>1, <2>3 DEF OnHeader
  <2>4. QED
    BY <2>2, <2>3
<1>7. CASE OnMsg(s)
  <2>1. NextCqe(s, "thread")
    BY <1>7 DEF OnMsg
  <2>2. CASE Current(s).ok
    <3>1. Prepare(s, <<Sqe("send_msg", c), Sqe("recv_msg", c)>>)
      BY <1>7, <2>2 DEF OnMsg
    <3>2. c \in Conns
      BY <1>2, <2>1
    <3>3. PICK e \in Seq(SQEs) :
            /\ e = <<Sqe("send_msg", c), Sqe("recv_msg", c)>>
            /\ Len(e) <= 2
            /\ Entries(e) = {Sqe("send_msg", c), Sqe("recv_msg", c)}
      <4> DEFINE f == <<Sqe("send_msg", c), Sqe("recv_msg", c)>>
      <4>1. f \in Seq(SQEs)
        BY <3>2, EntryTypes DEF Ops
      <4>2. Len(f) = 2 /\ Len(f) <= 2
        OBVIOUS
      <4>3. {f[i] : i \in 1..2} = {f[1], f[2]}
        <5>1. 1..2 = {1, 2}
          OBVIOUS
        <5>2. QED
          BY <5>1, Zenon
      <4>4. f[1] = Sqe("send_msg", c) /\ f[2] = Sqe("recv_msg", c)
        OBVIOUS
      <4>5. QED
        BY <4>1, <4>2, <4>3, <4>4, Zenon DEF Entries
    <3>4. /\ AcceptSqe \notin Entries(e)
          /\ RecvsOf(c) \cap Entries(e) = {Sqe("recv_msg", c)}
          /\ \A d \in Conns : d # c => RecvsOf(d) \cap Entries(e) = {}
          /\ Sqe("recv_msg", c) \in RecvsOf(c)
      BY <3>2, <3>3 DEF RecvsOf, Sqe, AcceptSqe
    <3>5. Prepare(s, e)
      BY <3>1, <3>3
    <3>6. QED
      BY <2>1, <2>2, <3>2, <3>3, <3>4, <3>5, HandleInv
  <2>3. CASE ~Current(s).ok
    BY <1>3, <1>7, <2>1, <2>3 DEF OnMsg
  <2>4. QED
    BY <2>2, <2>3
<1>8. QED
  BY <1>4, <1>5, <1>6, <1>7

LEMMA KernelInv ==
  ASSUME IInv, TypeOK', NEW s \in Shards, NEW c \in Conns,
         KernelStep(s, c) \/ KernelFailure(s, c)
  PROVE  IInv'
<1>1. UNCHANGED <<sq, seen, open, queue, phase, client, alive, cause>>
  BY DEF KernelStep, KernelFailure, KSendSize, KSendMsg, KRecvHello, KRecvMsg, KRecvShort,
         KSendSizeFail, KSendMsgFail, loopVars, clientVars
<1>2. inflight[s] # {}
  BY DEF KernelStep, KernelFailure, KSendSize, KSendMsg, KRecvHello, KRecvMsg, KRecvShort,
         KSendSizeFail, KSendMsgFail
<1>3. Sqe("recv_hello", c) \in RecvsOf(c) /\ Sqe("recv_msg", c) \in RecvsOf(c)
  BY DEF RecvsOf
\* Only one request of the threadlet is with the kernel.
<1>4. ASSUME NEW q \in RecvsOf(c), q \in inflight[s]
      PROVE  RecvsOf(c) \cap inflight[s] = {q}
  BY <1>4 DEF RecvsOf, IInv, RequestInv
<1>5. ASSUME NEW ok \in BOOLEAN, NEW q, Complete(s, {q}, <<Cqe("null", c, ok)>>)
      PROVE  IInv'
  <2>1. PICK e \in Seq(CQEs) :
          /\ e = <<Cqe("null", c, ok)>>
          /\ \A k \in 1..Len(e) : e[k].data = "null" /\ e[k].data # "thread"
    <3>1. <<Cqe("null", c, ok)>> \in Seq(CQEs)
      BY DEF CQEs, Cqe
    <3>2. \A k \in 1..Len(<<Cqe("null", c, ok)>>) :
            /\ <<Cqe("null", c, ok)>>[k].data = "null"
            /\ <<Cqe("null", c, ok)>>[k].data # "thread"
      BY DEF Cqe
    <3>3. QED
      BY <3>1, <3>2, Zenon
  <2>2. Complete(s, {q}, e)
    BY <1>5, <2>1
  <2>3. QED
    BY <1>1, <1>2, <2>1, <2>2, PostInv
<1>6. ASSUME NEW ok \in BOOLEAN, NEW q \in RecvsOf(c), q \in inflight[s],
             Complete(s, {q}, <<Cqe("thread", c, ok)>>)
      PROVE  IInv'
  <2>1. PICK e \in Seq(CQEs) :
          /\ e = <<Cqe("thread", c, ok)>>
          /\ \A k \in 1..Len(e) : e[k].data = "thread" /\ e[k].conn = c
          /\ \A k, l \in 1..Len(e) : k = l
    <3>1. <<Cqe("thread", c, ok)>> \in Seq(CQEs)
      BY DEF CQEs, Cqe
    <3>2. \A k \in 1..Len(<<Cqe("thread", c, ok)>>) :
            /\ <<Cqe("thread", c, ok)>>[k].data = "thread"
            /\ <<Cqe("thread", c, ok)>>[k].conn = c
      BY DEF Cqe
    <3>3. \A k, l \in 1..Len(<<Cqe("thread", c, ok)>>) : k = l
      OBVIOUS
    <3>4. QED
      BY <3>1, <3>2, <3>3, Zenon
  <2>2. Complete(s, {q}, e)
    BY <1>6, <2>1
  <2>3. RecvsOf(c) \cap inflight[s] # {} /\ RecvsOf(c) \cap inflight[s] \subseteq {q}
    BY <1>4, <1>6
  <2>4. QED
    BY ZenonT(40), <1>1, <1>2, <2>1, <2>2, <2>3, PostInv
<1>7. ASSUME UNCHANGED <<inflight, cq>>
      PROVE  IInv'
  BY <1>1, <1>7, FrameInv
<1>8. CASE KSendSize(s, c)
  BY <1>5, <1>8 DEF KSendSize
<1>9. CASE KSendMsg(s, c)
  <2>1. CASE spos[c] + 1 = MsgUnits
    BY <1>5, <1>9, <2>1 DEF KSendMsg
  <2>2. CASE spos[c] + 1 # MsgUnits
    BY <1>7, <1>9, <2>2 DEF KSendMsg
  <2>3. QED
    BY <2>1, <2>2
<1>10. CASE KRecvHello(s, c)
  BY <1>3, <1>6, <1>10 DEF KRecvHello
<1>11. CASE KRecvMsg(s, c)
  <2>1. CASE rpos[c] + 1 = MsgUnits
    BY <1>3, <1>6, <1>11, <2>1 DEF KRecvMsg
  <2>2. CASE rpos[c] + 1 # MsgUnits
    BY <1>7, <1>11, <2>2 DEF KRecvMsg
  <2>3. QED
    BY <2>1, <2>2
<1>12. CASE KRecvShort(s, c)
  <2>1. PICK q \in RecvsOf(c) : q \in inflight[s] /\ Complete(s, {q}, <<Cqe("thread", c, FALSE)>>)
    BY <1>12 DEF KRecvShort, RecvsOf
  <2>2. QED
    BY <1>6, <2>1
<1>13. CASE KSendSizeFail(s, c)
  BY <1>5, <1>13 DEF KSendSizeFail
<1>14. CASE KSendMsgFail(s, c)
  <2>1. CASE Sqe("recv_msg", c) \notin inflight[s]
    BY <1>5, <1>14, <2>1 DEF KSendMsgFail
  <2>2. CASE Sqe("recv_msg", c) \in inflight[s]
    <3>1. Complete(s, {Sqe("send_msg", c), Sqe("recv_msg", c)},
                   <<Cqe("null", c, FALSE), Cqe("thread", c, FALSE)>>)
      BY <1>14, <2>2 DEF KSendMsgFail
    <3>2. PICK e \in Seq(CQEs) :
            /\ e = <<Cqe("null", c, FALSE), Cqe("thread", c, FALSE)>>
            /\ \A k \in 1..Len(e) : \/ k = 1 /\ e[k].data = "null"
                                    \/ k = 2 /\ e[k].data = "thread" /\ e[k].conn = c
      <4> DEFINE f == <<Cqe("null", c, FALSE), Cqe("thread", c, FALSE)>>
      <4>1. f \in Seq(CQEs)
        BY PostedTypes
      <4>2. \A k \in 1..Len(f) : \/ k = 1 /\ f[k].data = "null"
                                 \/ k = 2 /\ f[k].data = "thread" /\ f[k].conn = c
        <5>1. Len(f) = 2 /\ f[1] = Cqe("null", c, FALSE) /\ f[2] = Cqe("thread", c, FALSE)
          OBVIOUS
        <5>2. QED
          BY <5>1 DEF Cqe
      <4>3. QED
        BY <4>1, <4>2, Zenon
    <3>3. Complete(s, {Sqe("send_msg", c), Sqe("recv_msg", c)}, e)
      BY <3>1, <3>2
    <3>4. /\ RecvsOf(c) \cap inflight[s] # {}
          /\ RecvsOf(c) \cap inflight[s] \subseteq {Sqe("send_msg", c), Sqe("recv_msg", c)}
      BY <1>3, <1>4, <2>2
    <3>5. \A k, l \in 1..Len(e) : e[k].data = "thread" /\ e[l].data = "thread" => k = l
      BY <3>2
    <3>6. \A k \in 1..Len(e) :
            \/ e[k].data = "null"
            \/ /\ e[k].data = "thread" /\ e[k].conn = c
               /\ RecvsOf(c) \cap inflight[s] # {}
               /\ RecvsOf(c) \cap inflight[s] \subseteq {Sqe("send_msg", c), Sqe("recv_msg", c)}
      BY <3>2, <3>4
    <3>7. QED
      BY <1>1, <1>2, <3>3, <3>5, <3>6, PostInv
  <2>3. QED
    BY <2>1, <2>2
<1>15. QED
  BY <1>8, <1>9, <1>10, <1>11, <1>12, <1>13, <1>14 DEF KernelStep, KernelFailure

LEMMA AcceptStepInv ==
  ASSUME IInv, TypeOK', NEW s \in Shards, KAccept(s) \/ KAcceptFail(s)
  PROVE  IInv'
<1>1. /\ UNCHANGED <<sq, seen, phase, client, alive, cause>>
      /\ AcceptSqe \in inflight[s]
  BY DEF KAccept, KAcceptFail, loopVars, clientVars
<1>2. CASE KAccept(s)
  <2>1. PICK c \in queue[s] :
          /\ queue' = [queue EXCEPT ![s] = @ \ {c}]
          /\ open' = open \cup {c}
          /\ Complete(s, {AcceptSqe}, <<Cqe("accept", c, TRUE)>>)
    BY <1>2 DEF KAccept
  <2>2. PICK x \in CQEs : /\ x = Cqe("accept", c, TRUE)
                          /\ x.data = "accept" /\ x.ok /\ x.conn = c
    <3>1. c \in Conns
      BY DEF IInv, TypeOK
    <3>2. /\ Cqe("accept", c, TRUE) \in CQEs
          /\ Cqe("accept", c, TRUE).data = "accept"
          /\ Cqe("accept", c, TRUE).ok
          /\ Cqe("accept", c, TRUE).conn = c
      BY <3>1 DEF CQEs, Cqe
    <3>3. QED
      BY <3>2, Zenon
  <2>3. QED
    BY <1>1, <2>1, <2>2, AcceptInv
<1>3. CASE KAcceptFail(s)
  <2>1. PICK x \in CQEs : /\ x = Cqe("accept", NoConn, FALSE)
                          /\ x.data = "accept" /\ ~x.ok /\ x.conn = NoConn
    <3>1. /\ Cqe("accept", NoConn, FALSE) \in CQEs
          /\ Cqe("accept", NoConn, FALSE).data = "accept"
          /\ ~Cqe("accept", NoConn, FALSE).ok
          /\ Cqe("accept", NoConn, FALSE).conn = NoConn
      BY DEF CQEs, Cqe
    <3>2. QED
      BY <3>1, Zenon
  <2>2. /\ Complete(s, {AcceptSqe}, <<x>>) /\ Cardinality(open) >= MaxFds
        /\ UNCHANGED <<open, queue>>
    BY <1>3, <2>1 DEF KAcceptFail
  <2>3. QED
    BY <1>1, <2>1, <2>2, AcceptInv
<1>4. QED
  BY <1>2, <1>3

LEMMA InitInv == Init => IInv
<1> SUFFICES ASSUME Init PROVE IInv
  OBVIOUS
<1>1. TypeOK
  BY TypeInit
<1>2. \A s \in Shards : /\ sq[s] = <<>> /\ inflight[s] = {} /\ cq[s] = <<>>
                        /\ PreparedSet(s) = {} /\ UnreadAt(s) = {} /\ Receiving(s) = {}
  <2>1. ASSUME NEW s \in Shards
        PROVE  /\ sq[s] = <<>> /\ inflight[s] = {} /\ cq[s] = <<>> /\ seen[s] = 0
               /\ PreparedSet(s) = {}
    BY DEF Init, PreparedSet
  <2>2. QED
    BY <2>1 DEF UnreadAt, Receiving
<1>3. RoomInv
  <2>1. ASSUME NEW s \in Shards
        PROVE  Len(sq[s]) <= 2 * Cardinality(Receiving(s))
                               + (IF AcceptSqe \in PreparedSet(s) THEN 1 ELSE 0)
    <3>1. Len(sq[s]) = 0 /\ Cardinality(Receiving(s)) = 0
      <4>1. sq[s] = <<>> /\ Receiving(s) = {}
        BY <1>2
      <4>2. Cardinality({}) = 0
        BY FS_EmptySet
      <4>3. QED
        BY <4>1, <4>2
    <3>2. AcceptSqe \notin PreparedSet(s)
      BY <1>2
    <3>3. QED
      BY <3>1, <3>2
  <2>2. QED
    BY <2>1 DEF RoomInv
<1>4. RequestInv /\ CompletionInv /\ OwnerInv /\ OffInv
  BY <1>2 DEF RequestInv, CompletionInv, OwnerInv, OffInv, RecvsOf
<1>5. QueueInv /\ ExitCause
  BY DEF Init, QueueInv, ExitCause
<1>6. QED
  BY <1>1, <1>3, <1>4, <1>5 DEF IInv

\* IInv holds in every reachable state.
THEOREM Inductive == Spec => []IInv
<1>1. Init => IInv
  BY InitInv
<1>2. IInv /\ TypeOK' /\ [Next]_vars => IInv'
  <2> SUFFICES ASSUME IInv, TypeOK', [Next]_vars PROVE IInv'
    OBVIOUS
  <2>1. ASSUME NEW s \in Shards, EndDrain(s) \/ SubmitFails(s) \/ WaitFails(s)
        PROVE  IInv'
    <3>1. /\ UNCHANGED <<sq, inflight, cq, seen, open, queue, client>>
          /\ UNCHANGED <<alive, cause>> \/ Exits("wait")
          /\ \A t \in Shards : phase'[t] = "off" => phase[t] = "off"
      BY <2>1 DEF EndDrain, SubmitFails, WaitFails, clientVars, kernelVars, IInv, TypeOK
    <3>2. QED
      BY <3>1, FrameInv
  <2>2. ASSUME NEW s \in Shards, Start(s) \/ ThreadStep(s) \/ WaitFails(s) \/ KAccept(s) \/ KAcceptFail(s)
        PROVE  IInv'
    BY <2>1, <2>2, StartInv, SubmitInv, HandlersInv, AdvanceInv, AcceptStepInv DEF ThreadStep
  <2>3. ASSUME NEW s \in Shards, NEW c \in Conns, KernelStep(s, c) \/ KernelFailure(s, c)
        PROVE  IInv'
    BY <2>3, KernelInv
  <2>4. ASSUME NEW c \in Conns, Talk(c) \/ Leave(c)
        PROVE  IInv'
    <3>1. UNCHANGED <<alive, cause, phase, sq, inflight, cq, seen, open, queue>>
      BY <2>4 DEF Talk, Leave, loopVars, kernelVars
    <3>2. \A d \in Conns : client'[d] = "idle" => client[d] = "idle"
      BY <2>4 DEF Talk, Leave, ClientStep, ClientHello, ClientSize, ClientSend, ClientRecv,
                  ClientExit, ClientMoves, IInv, TypeOK, ClientTypeOK
    <3>3. QED
      BY <3>1, <3>2, FrameInv
  <2>5. ASSUME NEW c \in Conns, Connect(c)
        PROVE  IInv'
    BY <2>5, ConnectInv
  <2>6. CASE UNCHANGED vars
    <3>1. UNCHANGED <<alive, cause, phase, sq, inflight, cq, seen, open, queue, client>>
      BY <2>6 DEF vars, loopVars, kernelVars, clientVars
    <3>2. QED
      BY <3>1, FrameInv
  <2>7. QED
    BY <2>2, <2>3, <2>4, <2>5, <2>6 DEF Next
<1>3. QED
  BY <1>1, <1>2, TypeCorrect, PTL DEF Spec

\* Whatever the number of shards and connections, the process never ends with
\* "sq is full" while the connections accepted since it started, closed ones
\* included, are at most (SqEntries - 1) / 2, nor with a failed accept while
\* they are fewer than the descriptors; an interrupted wait ends it any time.
THEOREM ExitsExplained == Spec => []ExitCause
<1>1. IInv => ExitCause
  BY DEF IInv
<1>2. QED
  BY <1>1, Inductive, PTL

-----------------------------------------------------------------------------
\* Each threadlet has exactly one request and each listener exactly one
\* accept: what IInv says of one shard is completed by what the shards hold
\* together, and by why nothing is lost.

\* A shard holds the request of a threadlet, or its completion, or an accept.
UnreadFor(s, c) == \E i \in UnreadAt(s) : cq[s][i].data # "null" /\ cq[s][i].conn = c
Owns(s, c) == c \in Receiving(s) \/ RecvsOf(c) \cap inflight[s] # {} \/ UnreadFor(s, c)

UnreadAccept(s) == \E i \in UnreadAt(s) : cq[s][i].data = "accept"
Listens(s) == AcceptSqe \in PreparedSet(s) \/ AcceptSqe \in inflight[s] \/ UnreadAccept(s)

\* No recv and no accept is prepared twice.
OnceInv ==
  \A s \in Shards : \A i, j \in 1..Len(sq[s]) :
    sq[s][i] = sq[s][j] /\ sq[s][i].op \notin {"send_size", "send_msg"} => i = j

\* Only one shard holds anything of a threadlet.
ApartInv == \A s, t \in Shards, c \in Conns : Owns(s, c) /\ Owns(t, c) => s = t

\* A threadlet's request fails only when the client has left.
LostInv ==
  \A s \in Shards : \A i \in UnreadAt(s) :
    cq[s][i].data = "thread" /\ ~cq[s][i].ok => client[cq[s][i].conn] = "gone"

\* Nothing is lost before that.
HeldInv ==
  alive => /\ \A s \in Shards : phase[s] # "off" => Listens(s)
           /\ \A c \in open : client[c] # "gone" => \E s \in Shards : Owns(s, c)

OwnInv == OnceInv /\ ApartInv /\ LostInv /\ HeldInv

LEMMA UnreadType ==
  ASSUME TypeOK, NEW s \in Shards, NEW i \in UnreadAt(s)
  PROVE  /\ cq[s][i] \in CQEs /\ cq[s][i].conn \in Conns \cup {NoConn}
         /\ cq[s][i].data \in {"accept", "thread", "null"}
<1>1. cq[s][i] \in CQEs
  BY ElementOfSeq, LenProperties DEF TypeOK, UnreadAt
<1>2. QED
  BY <1>1 DEF CQEs

LEMMA OwnsOpen ==
  ASSUME IInv, NEW s \in Shards, NEW c \in Conns, Owns(s, c)
  PROVE  c \in open
<1>1. CASE c \in Receiving(s) \/ RecvsOf(c) \cap inflight[s] # {}
  BY <1>1 DEF IInv, RequestInv
<1>2. CASE UnreadFor(s, c)
  <2>1. PICK i \in UnreadAt(s) : cq[s][i].data # "null" /\ cq[s][i].conn = c
    BY <1>2 DEF UnreadFor
  <2>2. cq[s][i].data = "thread" \/ (cq[s][i].data = "accept" /\ cq[s][i].ok)
    BY <2>1, UnreadType, ShardAssumption DEF IInv, CompletionInv
  <2>3. QED
    BY <2>1, <2>2 DEF IInv, CompletionInv
<1>3. QED
  BY <1>1, <1>2 DEF Owns

LEMMA OwnInit == Init => OwnInv
<1> SUFFICES ASSUME Init PROVE OwnInv
  OBVIOUS
<1>1. IInv
  BY InitInv
<1>2. open = {} /\ \A s \in Shards : sq[s] = <<>> /\ phase[s] = "off" /\ UnreadAt(s) = {}
  <2>1. \A s \in Shards : sq[s] = <<>> /\ cq[s] = <<>> /\ seen[s] = 0 /\ phase[s] = "off"
    BY DEF Init
  <2>2. QED
    BY <2>1 DEF Init, UnreadAt
<1>3. OnceInv
  BY <1>2 DEF OnceInv
<1>4. ApartInv
  BY <1>1, <1>2, OwnsOpen DEF ApartInv
<1>5. LostInv /\ HeldInv
  BY <1>2 DEF LostInv, HeldInv
<1>6. QED
  BY <1>3, <1>4, <1>5 DEF OwnInv

\* Clients that have left stay away.
StayGone == \A c \in Conns : client[c] = "gone" => client'[c] = "gone"

\* Steps that touch neither the requests nor the completions.
LEMMA OwnFrame ==
  ASSUME IInv, OwnInv, UNCHANGED <<sq, inflight, cq, seen, open>>, alive' => alive,
         \A t \in Shards : phase'[t] # "off" => phase[t] # "off",
         StayGone
  PROVE  OwnInv'
<1>1. \A t \in Shards : /\ PreparedSet(t)' = PreparedSet(t) /\ UnreadAt(t)' = UnreadAt(t)
                        /\ Listens(t)' = Listens(t)
                        /\ \A c \in Conns : Owns(t, c)' = Owns(t, c)
  BY DEF PreparedSet, Receiving, UnreadAt, Listens, UnreadAccept, Owns, UnreadFor
<1>2. OnceInv' /\ ApartInv'
  BY <1>1 DEF OwnInv, OnceInv, ApartInv
<1>3. open \subseteq Conns
  BY DEF IInv, TypeOK
<1>4. LostInv'
  <2>1. ASSUME NEW t \in Shards, NEW i \in UnreadAt(t), cq[t][i].data = "thread", ~cq[t][i].ok
        PROVE  client'[cq[t][i].conn] = "gone"
    <3>1. cq[t][i].conn \in Conns
      BY <1>3, <2>1 DEF IInv, CompletionInv
    <3>2. QED
      BY <2>1, <3>1 DEF OwnInv, LostInv, StayGone
  <2>2. QED
    BY <1>1, <2>1 DEF LostInv
<1>5. HeldInv'
  BY <1>1, <1>3 DEF OwnInv, HeldInv, StayGone
<1>6. QED
  BY <1>2, <1>4, <1>5 DEF OwnInv

\* A completion that is read and prepares nothing is a send's, or comes from
\* a client that has left, or ends the process.
LEMMA OwnSkip ==
  ASSUME IInv, OwnInv, NEW s \in Shards, NEW data, NextCqe(s, data), UNCHANGED sq,
         alive' => alive /\ data # "accept" /\ (data = "thread" => ~Current(s).ok)
  PROVE  OwnInv'
<1> DEFINE k == seen[s] + 1
<1>1. /\ k \in UnreadAt(s) /\ Current(s) = cq[s][k] /\ cq[s][k].data = data
      /\ UnreadAt(s)' = UnreadAt(s) \ {k}
      /\ \A t \in Shards \ {s} : UnreadAt(t)' = UnreadAt(t)
      /\ \A t \in Shards : UnreadAt(t)' \subseteq UnreadAt(t)
      /\ UNCHANGED <<cq, inflight, open, queue, phase, client>>
  BY ReadOne DEF IInv, NextCqe
<1>2. \A t \in Shards : PreparedSet(t)' = PreparedSet(t) /\ Receiving(t)' = Receiving(t)
  BY DEF PreparedSet, Receiving
<1>3. \A t \in Shards, c \in Conns : Owns(t, c)' => Owns(t, c)
  BY <1>1, <1>2 DEF Owns, UnreadFor
<1>4. OnceInv' /\ ApartInv' /\ LostInv'
  BY <1>1, <1>3 DEF OwnInv, OnceInv, ApartInv, LostInv
<1>5. HeldInv'
  <2> SUFFICES ASSUME alive' PROVE HeldInv'
    BY DEF HeldInv
  <2>1. ASSUME NEW t \in Shards, Listens(t) PROVE Listens(t)'
    BY <1>1, <1>2, <2>1 DEF Listens, UnreadAccept
  <2>2. ASSUME NEW c \in open, client[c] # "gone", NEW t \in Shards, Owns(t, c)
        PROVE  Owns(t, c)'
    <3>1. data = "thread" => client[cq[s][k].conn] = "gone"
      BY <1>1 DEF OwnInv, LostInv
    <3>2. data = "thread" \/ data = "null"
      BY <1>1, UnreadType DEF IInv
    <3>3. QED
      BY <1>1, <1>2, <2>2, <3>1, <3>2 DEF Owns, UnreadFor
  <2>3. QED
    BY <1>1, <2>1, <2>2 DEF OwnInv, HeldInv
<1>6. QED
  BY <1>4, <1>5 DEF OwnInv

\* A completion that is read prepares e, with one recv of its threadlet and
\* an accept for an accept.
LEMMA OwnHandle ==
  ASSUME IInv, OwnInv, NEW s \in Shards, NEW data \in {"thread", "accept"},
         NextCqe(s, data), data = "accept" => Current(s).ok,
         NEW c \in Conns, c = Current(s).conn,
         NEW e \in Seq(SQEs), Prepare(s, e),
         \A i, j \in 1..Len(e) : e[i] = e[j] => i = j,
         \A x \in Entries(e) : \/ x.op \in {"send_size", "send_msg"}
                               \/ x = AcceptSqe /\ data = "accept"
                               \/ x \in RecvsOf(c),
         data = "accept" => AcceptSqe \in Entries(e),
         RecvsOf(c) \cap Entries(e) # {}
  PROVE  OwnInv'
<1> DEFINE k == seen[s] + 1
<1>0. TypeOK
  BY DEF IInv
<1>1. /\ k \in UnreadAt(s) /\ Current(s) = cq[s][k] /\ cq[s][k].data = data /\ cq[s][k].conn = c
      /\ UnreadAt(s)' = UnreadAt(s) \ {k}
      /\ \A t \in Shards \ {s} : UnreadAt(t)' = UnreadAt(t)
      /\ \A t \in Shards : UnreadAt(t)' \subseteq UnreadAt(t)
      /\ UNCHANGED <<cq, inflight, open, queue, phase, client>>
  BY <1>0, ReadOne DEF NextCqe
<1>2. c \in open /\ c \notin Receiving(s)
  BY <1>1 DEF IInv, CompletionInv
<1>3. data = "accept" => AcceptSqe \notin PreparedSet(s)
  BY <1>1 DEF IInv, CompletionInv
<1>4. Owns(s, c)
  BY <1>1 DEF Owns, UnreadFor
<1>5. CASE ~(Len(sq[s]) + Len(e) <= SqEntries)
  <2>1. sq' = sq /\ ~alive'
    BY <1>5 DEF Prepare, Exits
  <2>2. QED
    BY <2>1, OwnSkip
<1>6. CASE Len(sq[s]) + Len(e) <= SqEntries
  <2>1. sq' = [sq EXCEPT ![s] = @ \o e] /\ UNCHANGED <<alive, cause>>
    BY <1>6 DEF Prepare
  <2>2. /\ PreparedSet(s)' = PreparedSet(s) \cup Entries(e)
        /\ \A t \in Shards \ {s} : sq'[t] = sq[t] /\ PreparedSet(t)' = PreparedSet(t)
    BY ZenonT(40), <1>0, <2>1, AppendPrepared DEF Entries
  <2>3. \A d \in Conns : d # c => RecvsOf(d) \cap Entries(e) = {}
    <3>1. ASSUME NEW d \in Conns, NEW x \in RecvsOf(d)
          PROVE  x.op \notin {"send_size", "send_msg"} /\ x # AcceptSqe
      BY <3>1 DEF RecvsOf, Sqe, AcceptSqe
    <3>2. \A d \in Conns : d # c => RecvsOf(d) \cap RecvsOf(c) = {}
      BY RequestsDiffer
    <3>3. QED
      BY <3>1, <3>2
  <2>4. /\ Receiving(s)' = Receiving(s) \cup {c}
        /\ \A t \in Shards \ {s} : Receiving(t)' = Receiving(t)
    BY <2>2, <2>3 DEF Receiving
  <2>5. OnceInv'
    <3>1. /\ Len(sq[s]) \in Nat /\ Len(e) \in Nat
          /\ Len(sq'[s]) = Len(sq[s]) + Len(e)
          /\ \A i \in 1..(Len(sq[s]) + Len(e)) :
               sq'[s][i] = IF i <= Len(sq[s]) THEN sq[s][i] ELSE e[i - Len(sq[s])]
      BY <1>0, <2>1, ConcatProperties, LenProperties DEF TypeOK
    <3>2. ASSUME NEW x \in PreparedSet(s), x \in Entries(e)
          PROVE  x.op \in {"send_size", "send_msg"}
      BY <1>2, <1>3, <3>2 DEF Receiving
    <3>3. ASSUME NEW i \in 1..Len(sq'[s]), NEW j \in 1..Len(sq'[s]), i < j,
                 sq'[s][i] = sq'[s][j], sq'[s][i].op \notin {"send_size", "send_msg"}
          PROVE  FALSE
      <4>1. CASE j <= Len(sq[s])
        <5>1. i \in 1..Len(sq[s]) /\ j \in 1..Len(sq[s])
          BY <3>1, <3>3, <4>1
        <5>2. sq[s][i] = sq[s][j] /\ sq[s][i].op \notin {"send_size", "send_msg"}
          BY <3>1, <3>3, <4>1
        <5>3. QED
          BY <3>3, <5>1, <5>2 DEF OwnInv, OnceInv
      <4>2. CASE ~(i <= Len(sq[s]))
        <5>1. i - Len(sq[s]) \in 1..Len(e) /\ j - Len(sq[s]) \in 1..Len(e)
          BY <3>1, <3>3, <4>2
        <5>2. e[i - Len(sq[s])] = e[j - Len(sq[s])]
          BY <3>1, <3>3, <4>2
        <5>3. i - Len(sq[s]) = j - Len(sq[s])
          BY <5>1, <5>2
        <5>4. QED
          BY <3>1, <3>3, <5>3
      <4>3. CASE i <= Len(sq[s]) /\ ~(j <= Len(sq[s]))
        <5>1. i \in 1..Len(sq[s]) /\ j - Len(sq[s]) \in 1..Len(e)
          BY <3>1, <3>3, <4>3
        <5>2. sq'[s][i] = sq[s][i] /\ sq'[s][j] = e[j - Len(sq[s])]
          BY <3>1, <3>3, <4>3
        <5>3. sq'[s][i] \in PreparedSet(s) /\ sq'[s][i] \in Entries(e)
          BY <3>3, <5>1, <5>2 DEF PreparedSet, Entries
        <5>4. QED
          BY <3>2, <3>3, <5>3
      <4>4. QED
        BY <3>1, <3>3, <4>1, <4>2, <4>3
    <3>4. \A i, j \in 1..Len(sq'[s]) :
            sq'[s][i] = sq'[s][j] /\ sq'[s][i].op \notin {"send_size", "send_msg"} => i = j
      <4>1. \A i, j \in 1..Len(sq'[s]) : i < j \/ j < i \/ i = j
        BY <3>1
      <4>2. QED
        BY <3>3, <4>1
    <3>5. QED
      BY <2>2, <3>4 DEF OwnInv, OnceInv
  <2>6. \A t \in Shards, d \in Conns : Owns(t, d)' => Owns(t, d)
    BY <1>1, <1>4, <2>4 DEF Owns, UnreadFor
  <2>7. ApartInv' /\ LostInv'
    BY <1>1, <2>6 DEF OwnInv, ApartInv, LostInv
  <2>8. \A t \in Shards, d \in Conns : Owns(t, d) => Owns(t, d)'
    BY <1>1, <2>4 DEF Owns, UnreadFor
  <2>9. \A t \in Shards : Listens(t) => Listens(t)'
    BY <1>1, <2>2 DEF Listens, UnreadAccept
  <2>10. HeldInv'
    BY <1>0, <1>1, <2>1, <2>8, <2>9 DEF OwnInv, HeldInv, TypeOK
  <2>11. QED
    BY <2>5, <2>7, <2>10 DEF OwnInv
<1>7. QED
  BY <1>5, <1>6

LEMMA OwnSubmit ==
  ASSUME IInv, OwnInv, NEW s \in Shards, Submit(s)
  PROVE  OwnInv'
<1>1. /\ inflight'[s] = inflight[s] \cup PreparedSet(s)
      /\ sq'[s] = <<>> /\ PreparedSet(s)' = {} /\ Receiving(s)' = {}
      /\ \A t \in Shards \ {s} : /\ inflight'[t] = inflight[t] /\ sq'[t] = sq[t]
                                 /\ PreparedSet(t)' = PreparedSet(t)
                                 /\ Receiving(t)' = Receiving(t)
  BY DEF Submit, PreparedSet, Receiving, IInv, TypeOK
<1>2. UNCHANGED <<alive, cause, cq, seen, open, client>>
  BY DEF Submit, clientVars
<1>3. \A t \in Shards : UnreadAt(t)' = UnreadAt(t)
  BY <1>2 DEF UnreadAt
<1>4. \A c \in Conns : c \in Receiving(s) <=> RecvsOf(c) \cap PreparedSet(s) # {}
  BY DEF Receiving
<1>5. \A t \in Shards, c \in Conns : Owns(t, c)' <=> Owns(t, c)
  <2>1. ASSUME NEW t \in Shards, NEW c \in Conns
        PROVE  UnreadFor(t, c)' <=> UnreadFor(t, c)
    BY <1>2, <1>3 DEF UnreadFor
  <2>2. ASSUME NEW t \in Shards, NEW c \in Conns
        PROVE  (c \in Receiving(t) \/ RecvsOf(c) \cap inflight[t] # {})'
                 <=> c \in Receiving(t) \/ RecvsOf(c) \cap inflight[t] # {}
    BY <1>1, <1>4
  <2>3. QED
    BY <2>1, <2>2 DEF Owns
<1>6. \A t \in Shards : Listens(t)' <=> Listens(t)
  BY <1>1, <1>2, <1>3 DEF Listens, UnreadAccept
<1>7. \A t \in Shards : phase'[t] # "off" => phase[t] # "off"
  BY DEF Submit, IInv, TypeOK
<1>8. OnceInv'
  <2>1. Len(sq'[s]) = 0
    BY <1>1
  <2>2. QED
    BY <1>1, <2>1 DEF OwnInv, OnceInv
<1>9. ApartInv' /\ LostInv' /\ HeldInv'
  BY <1>2, <1>3, <1>5, <1>6, <1>7 DEF OwnInv, ApartInv, LostInv, HeldInv, IInv, TypeOK
<1>10. QED
  BY <1>8, <1>9 DEF OwnInv

\* The entries that remain in the queue are the unread ones, moved to the front.
LEMMA FrontUnread ==
  ASSUME IInv, NEW s \in Shards, Advance(s)
  PROVE  /\ \A i \in UnreadAt(s)' : i + seen[s] \in UnreadAt(s) /\ cq'[s][i] = cq[s][i + seen[s]]
         /\ \A i \in UnreadAt(s) : i - seen[s] \in UnreadAt(s)' /\ cq'[s][i - seen[s]] = cq[s][i]
<1>1. /\ seen'[s] = 0 /\ cq'[s] = SubSeq(cq[s], seen[s] + 1, Len(cq[s]))
      /\ seen[s] \in Nat /\ Len(cq[s]) \in Nat /\ seen[s] <= Len(cq[s])
  BY LenProperties DEF Advance, IInv, TypeOK
<1>2. \A j \in (seen[s] + 1)..Len(cq[s]) : cq[s][j] \in CQEs
  BY <1>1, ElementOfSeq DEF IInv, TypeOK
<1>3. seen[s] + 1 \in Int /\ Len(cq[s]) \in Int
  BY <1>1
<1>4. /\ Len(cq'[s]) = IF seen[s] + 1 <= Len(cq[s]) THEN Len(cq[s]) - (seen[s] + 1) + 1 ELSE 0
      /\ \A j \in 1..(Len(cq[s]) - (seen[s] + 1) + 1) : cq'[s][j] = cq[s][seen[s] + 1 + j - 1]
  BY <1>1, <1>2, <1>3, SubSeqProperties
<1>5. UnreadAt(s)' = 1..(Len(cq[s]) - seen[s])
  BY <1>1, <1>4 DEF UnreadAt
<1>6. \A j \in 1..(Len(cq[s]) - seen[s]) : cq'[s][j] = cq[s][j + seen[s]]
  <2>1. ASSUME NEW j \in 1..(Len(cq[s]) - seen[s])
        PROVE  cq'[s][j] = cq[s][j + seen[s]]
    <3>1. j \in 1..(Len(cq[s]) - (seen[s] + 1) + 1) /\ seen[s] + 1 + j - 1 = j + seen[s]
      BY <1>1, <2>1
    <3>2. QED
      BY <1>4, <3>1
  <2>2. QED
    BY <2>1
<1>7. ASSUME NEW i \in UnreadAt(s)
      PROVE  i - seen[s] \in 1..(Len(cq[s]) - seen[s]) /\ (i - seen[s]) + seen[s] = i
  BY <1>1 DEF UnreadAt
<1>8. ASSUME NEW i \in 1..(Len(cq[s]) - seen[s])
      PROVE  i + seen[s] \in UnreadAt(s)
  BY <1>1 DEF UnreadAt
<1>9. QED
  BY <1>5, <1>6, <1>7, <1>8

LEMMA OwnAdvance ==
  ASSUME IInv, OwnInv, NEW s \in Shards, Advance(s)
  PROVE  OwnInv'
<1>1. UNCHANGED <<alive, cause, sq, inflight, open, client>>
  BY DEF Advance, clientVars
<1>2. \A t \in Shards : PreparedSet(t)' = PreparedSet(t) /\ Receiving(t)' = Receiving(t)
  BY <1>1 DEF PreparedSet, Receiving
<1>3. /\ \A i \in UnreadAt(s)' : i + seen[s] \in UnreadAt(s) /\ cq'[s][i] = cq[s][i + seen[s]]
      /\ \A i \in UnreadAt(s) : i - seen[s] \in UnreadAt(s)' /\ cq'[s][i - seen[s]] = cq[s][i]
  BY FrontUnread
<1>4. \A t \in Shards \ {s} : UnreadAt(t)' = UnreadAt(t) /\ cq'[t] = cq[t]
  BY DEF Advance, UnreadAt, IInv, TypeOK
<1>5. ASSUME NEW t \in Shards
      PROVE  /\ \A c \in Conns : UnreadFor(t, c)' <=> UnreadFor(t, c)
             /\ UnreadAccept(t)' <=> UnreadAccept(t)
  BY <1>3, <1>4 DEF UnreadFor, UnreadAccept
<1>6. \A t \in Shards, c \in Conns : Owns(t, c)' <=> Owns(t, c)
  BY <1>1, <1>2, <1>5 DEF Owns
<1>7. \A t \in Shards : Listens(t)' <=> Listens(t)
  BY <1>1, <1>2, <1>5 DEF Listens
<1>8. \A t \in Shards : phase'[t] # "off" => phase[t] # "off"
  BY DEF Advance, IInv, TypeOK
<1>9. OnceInv' /\ ApartInv'
  BY <1>1, <1>6 DEF OwnInv, OnceInv, ApartInv
<1>10. LostInv'
  BY <1>1, <1>3, <1>4 DEF OwnInv, LostInv
<1>11. HeldInv'
  BY <1>1, <1>6, <1>7, <1>8 DEF OwnInv, HeldInv, IInv, TypeOK
<1>12. QED
  BY <1>9, <1>10, <1>11 DEF OwnInv

LEMMA OwnStart ==
  ASSUME IInv, OwnInv, NEW s \in Shards, Start(s)
  PROVE  OwnInv'
<1>0. TypeOK
  BY DEF IInv
<1>1. UNCHANGED <<inflight, cq, seen, open, client>>
  BY DEF Start, kernelVars, clientVars
<1>2. \A t \in Shards : UnreadAt(t)' = UnreadAt(t)
  BY <1>1 DEF UnreadAt
<1>3. sq[s] = <<>> /\ \A t \in Shards : phase'[t] # "off" => t = s \/ phase[t] # "off"
  BY <1>0 DEF Start, IInv, OffInv, TypeOK
<1>4. /\ <<AcceptSqe>> \in Seq(SQEs) /\ Len(<<AcceptSqe>>) = 1
      /\ \A i \in 1..1 : <<AcceptSqe>>[i] = AcceptSqe
  BY EntryTypes
<1>5. CASE ~(Len(sq[s]) + Len(<<AcceptSqe>>) <= SqEntries)
  <2>1. sq' = sq /\ ~alive'
    BY <1>5 DEF Start, Prepare, Exits
  <2>2. \A t \in Shards, c \in Conns : Owns(t, c)' <=> Owns(t, c)
    BY <1>1, <1>2, <2>1 DEF Owns, UnreadFor, Receiving, PreparedSet
  <2>3. QED
    BY <1>1, <1>2, <2>1, <2>2 DEF OwnInv, OnceInv, ApartInv, LostInv, HeldInv
<1>6. CASE Len(sq[s]) + Len(<<AcceptSqe>>) <= SqEntries
  <2>1. sq' = [sq EXCEPT ![s] = @ \o <<AcceptSqe>>] /\ UNCHANGED <<alive, cause>>
    BY <1>6 DEF Start, Prepare
  <2>2. PICK e \in Seq(SQEs) : e = <<AcceptSqe>> /\ Len(e) = 1 /\ \A i \in 1..1 : e[i] = AcceptSqe
    BY <1>4, Zenon
  <2>3. /\ PreparedSet(s)' = PreparedSet(s) \cup {e[i] : i \in 1..Len(e)}
        /\ Len(sq'[s]) = Len(sq[s]) + Len(e)
        /\ \A t \in Shards \ {s} : sq'[t] = sq[t] /\ PreparedSet(t)' = PreparedSet(t)
    BY <1>0, <2>1, <2>2, AppendPrepared
  <2>4. PreparedSet(s)' = PreparedSet(s) \cup {AcceptSqe}
    BY <2>2, <2>3
  <2>5. Len(sq'[s]) = 1
    BY <1>3, <2>2, <2>3, EmptySeq
  <2>6. \A t \in Shards : Receiving(t)' = Receiving(t)
    BY <2>3, <2>4, RequestsDiffer DEF Receiving
  <2>7. \A t \in Shards, c \in Conns : Owns(t, c)' <=> Owns(t, c)
    BY <1>1, <1>2, <2>6 DEF Owns, UnreadFor
  <2>8. \A t \in Shards : Listens(t) \/ t = s => Listens(t)'
    BY <1>1, <1>2, <2>3, <2>4 DEF Listens, UnreadAccept
  <2>9. OnceInv'
    BY <2>3, <2>5 DEF OwnInv, OnceInv
  <2>10. ApartInv' /\ LostInv' /\ HeldInv'
    BY <1>0, <1>1, <1>2, <1>3, <2>1, <2>7, <2>8 DEF OwnInv, ApartInv, LostInv, HeldInv, TypeOK
  <2>11. QED
    BY <2>9, <2>10 DEF OwnInv
<1>7. QED
  BY <1>5, <1>6

\* What was unread stays so when completions e are posted, and e is unread too.
LEMMA StillUnread ==
  ASSUME TypeOK, NEW s \in Shards, NEW r, NEW e \in Seq(CQEs), Complete(s, r, e),
         UNCHANGED seen
  PROVE  /\ \A i \in UnreadAt(s) : i \in UnreadAt(s)' /\ cq'[s][i] = cq[s][i]
         /\ \A k \in 1..Len(e) : /\ Len(cq[s]) + k \in UnreadAt(s)'
                                 /\ cq'[s][Len(cq[s]) + k] = e[k]
<1>1. cq'[s] = cq[s] \o e
  BY DEF Complete, TypeOK
<1>2. /\ Len(cq[s]) \in Nat /\ Len(e) \in Nat /\ seen[s] \in Nat /\ seen[s] <= Len(cq[s])
      /\ Len(cq'[s]) = Len(cq[s]) + Len(e)
      /\ \A i \in 1..(Len(cq[s]) + Len(e)) :
           cq'[s][i] = IF i <= Len(cq[s]) THEN cq[s][i] ELSE e[i - Len(cq[s])]
  BY <1>1, ConcatProperties, LenProperties DEF TypeOK
<1>3. ASSUME NEW i \in UnreadAt(s)
      PROVE  i \in UnreadAt(s)' /\ cq'[s][i] = cq[s][i]
  BY <1>2 DEF UnreadAt
<1>4. ASSUME NEW k \in 1..Len(e)
      PROVE  Len(cq[s]) + k \in UnreadAt(s)' /\ cq'[s][Len(cq[s]) + k] = e[k]
  <2>1. /\ Len(cq[s]) + k \in 1..(Len(cq[s]) + Len(e)) /\ Len(cq[s]) + k >= seen[s] + 1
        /\ ~(Len(cq[s]) + k <= Len(cq[s])) /\ (Len(cq[s]) + k) - Len(cq[s]) = k
    BY <1>2
  <2>2. Len(cq[s]) + k \in UnreadAt(s)'
    BY <1>2, <2>1 DEF UnreadAt
  <2>3. QED
    BY <1>2, <2>1, <2>2
<1>5. QED
  BY <1>3, <1>4

\* The requests r of connection c complete with e: a recv among them with a
\* completion of the threadlet, which is an error only when the client left.
LEMMA OwnPost ==
  ASSUME IInv, OwnInv, NEW s \in Shards, NEW c \in Conns, NEW r, NEW e \in Seq(CQEs),
         Complete(s, r, e),
         UNCHANGED <<sq, seen, open, phase, client, alive, cause>>,
         AcceptSqe \notin r, \A d \in Conns : d # c => RecvsOf(d) \cap r = {},
         \A k \in 1..Len(e) :
           \/ e[k].data = "null"
           \/ /\ e[k].data = "thread" /\ e[k].conn = c
              /\ RecvsOf(c) \cap inflight[s] # {}
              /\ ~e[k].ok => client[c] = "gone",
         RecvsOf(c) \cap r # {} => \E k \in 1..Len(e) : e[k].data = "thread" /\ e[k].conn = c
  PROVE  OwnInv'
<1>0. TypeOK
  BY DEF IInv
<1>1. /\ inflight'[s] = inflight[s] \ r
      /\ \A t \in Shards \ {s} : /\ inflight'[t] = inflight[t] /\ cq'[t] = cq[t]
                                 /\ UnreadAt(t)' = UnreadAt(t)
      /\ \A i \in UnreadAt(s)' :
           \/ i \in UnreadAt(s) /\ cq'[s][i] = cq[s][i]
           \/ i - Len(cq[s]) \in 1..Len(e) /\ cq'[s][i] = e[i - Len(cq[s])]
  BY <1>0, AppendUnread
<1>2. /\ \A i \in UnreadAt(s) : i \in UnreadAt(s)' /\ cq'[s][i] = cq[s][i]
      /\ \A k \in 1..Len(e) : Len(cq[s]) + k \in UnreadAt(s)' /\ cq'[s][Len(cq[s]) + k] = e[k]
  BY <1>0, StillUnread
<1>3. \A t \in Shards : PreparedSet(t)' = PreparedSet(t) /\ Receiving(t)' = Receiving(t)
  BY DEF PreparedSet, Receiving
<1>4. ASSUME NEW d \in Conns, Owns(s, d)' PROVE Owns(s, d)
  <2>1. CASE d \in Receiving(s)' \/ RecvsOf(d) \cap inflight'[s] # {}
    BY <1>1, <1>3, <2>1 DEF Owns
  <2>2. CASE UnreadFor(s, d)'
    <3>1. PICK i \in UnreadAt(s)' : cq'[s][i].data # "null" /\ cq'[s][i].conn = d
      BY <2>2 DEF UnreadFor
    <3>2. CASE i \in UnreadAt(s) /\ cq'[s][i] = cq[s][i]
      BY <3>1, <3>2 DEF Owns, UnreadFor
    <3>3. CASE i - Len(cq[s]) \in 1..Len(e) /\ cq'[s][i] = e[i - Len(cq[s])]
      <4>1. d = c /\ RecvsOf(c) \cap inflight[s] # {}
        BY <3>1, <3>3
      <4>2. QED
        BY <4>1 DEF Owns
    <3>4. QED
      BY <1>1, <3>2, <3>3
  <2>3. QED
    BY <1>4, <2>1, <2>2 DEF Owns
<1>5. ASSUME NEW d \in Conns, Owns(s, d) PROVE Owns(s, d)'
  <2>1. CASE d \in Receiving(s)
    BY <1>3, <2>1 DEF Owns
  <2>2. CASE RecvsOf(d) \cap inflight[s] # {}
    <3>1. CASE RecvsOf(d) \cap r = {}
      BY <1>1, <2>2, <3>1 DEF Owns
    <3>2. CASE RecvsOf(d) \cap r # {}
      <4>1. PICK k \in 1..Len(e) : e[k].data = "thread" /\ e[k].conn = c /\ d = c
        BY <3>2
      <4>2. UnreadFor(s, d)'
        BY <1>2, <4>1 DEF UnreadFor
      <4>3. QED
        BY <4>2 DEF Owns
    <3>3. QED
      BY <3>1, <3>2
  <2>3. CASE UnreadFor(s, d)
    <3>1. UnreadFor(s, d)'
      BY <1>2, <2>3 DEF UnreadFor
    <3>2. QED
      BY <3>1 DEF Owns
  <2>4. QED
    BY <1>5, <2>1, <2>2, <2>3 DEF Owns
<1>6. ASSUME NEW t \in Shards, t # s
      PROVE  /\ \A d \in Conns : Owns(t, d)' <=> Owns(t, d)
             /\ Listens(t)' <=> Listens(t)
  BY <1>1, <1>3, <1>6 DEF Owns, UnreadFor, Listens, UnreadAccept
<1>7. Listens(s) => Listens(s)'
  BY <1>1, <1>2, <1>3 DEF Listens, UnreadAccept
<1>8. OnceInv' /\ ApartInv'
  BY <1>4, <1>6 DEF OwnInv, OnceInv, ApartInv
<1>9. LostInv'
  <2>1. ASSUME NEW i \in UnreadAt(s)', cq'[s][i].data = "thread", ~cq'[s][i].ok
        PROVE  client'[cq'[s][i].conn] = "gone"
    <3>1. CASE i \in UnreadAt(s) /\ cq'[s][i] = cq[s][i]
      BY <2>1, <3>1 DEF OwnInv, LostInv
    <3>2. CASE i - Len(cq[s]) \in 1..Len(e) /\ cq'[s][i] = e[i - Len(cq[s])]
      BY <2>1, <3>2
    <3>3. QED
      BY <1>1, <3>1, <3>2
  <2>2. QED
    BY <1>1, <2>1 DEF OwnInv, LostInv
<1>10. HeldInv'
  <2>1. \A t \in Shards : Listens(t) => Listens(t)'
    BY <1>6, <1>7
  <2>2. \A t \in Shards, d \in Conns : Owns(t, d) => Owns(t, d)'
    BY <1>5, <1>6
  <2>3. QED
    BY <1>0, <2>1, <2>2 DEF OwnInv, HeldInv, TypeOK
<1>11. QED
  BY <1>8, <1>9, <1>10 DEF OwnInv

\* The accept of s completes with x: for a connection nobody held before, or
\* for none.
LEMMA OwnAccept ==
  ASSUME IInv, OwnInv, NEW s \in Shards, NEW x \in CQEs, x.data = "accept",
         Complete(s, {AcceptSqe}, <<x>>), UNCHANGED <<sq, seen, phase, client, alive, cause>>,
         \/ x.conn \in Conns \ open /\ open' = open \cup {x.conn}
         \/ x.conn = NoConn /\ open' = open
  PROVE  OwnInv'
<1>0. TypeOK
  BY DEF IInv
<1>1. PICK e \in Seq(CQEs) : e = <<x>> /\ Len(e) = 1 /\ e[1] = x
  <2>1. <<x>> \in Seq(CQEs) /\ Len(<<x>>) = 1 /\ <<x>>[1] = x
    OBVIOUS
  <2>2. QED
    BY <2>1, Zenon
<1>2. Complete(s, {AcceptSqe}, e)
  BY <1>1
<1>3. /\ inflight'[s] = inflight[s] \ {AcceptSqe}
      /\ \A t \in Shards \ {s} : /\ inflight'[t] = inflight[t] /\ cq'[t] = cq[t]
                                 /\ UnreadAt(t)' = UnreadAt(t)
      /\ \A i \in UnreadAt(s)' : (i \in UnreadAt(s) /\ cq'[s][i] = cq[s][i]) \/ cq'[s][i] = x
  <2>1. \A k \in 1..Len(e) : e[k] = x
    BY <1>1
  <2>2. QED
    BY <1>0, <1>2, <2>1, AppendUnread
<1>4. /\ \A i \in UnreadAt(s) : i \in UnreadAt(s)' /\ cq'[s][i] = cq[s][i]
      /\ Len(cq[s]) + 1 \in UnreadAt(s)' /\ cq'[s][Len(cq[s]) + 1] = x
  <2>1. 1 \in 1..Len(e)
    BY <1>1
  <2>2. QED
    BY <1>0, <1>1, <1>2, <2>1, StillUnread
<1>5. \A t \in Shards : PreparedSet(t)' = PreparedSet(t) /\ Receiving(t)' = Receiving(t)
  BY DEF PreparedSet, Receiving
<1>6. \A d \in Conns : RecvsOf(d) \cap inflight'[s] = RecvsOf(d) \cap inflight[s]
  BY <1>3, RequestsDiffer
<1>7. \A t \in Shards \ {s}, d \in Conns : Owns(t, d)' <=> Owns(t, d)
  BY <1>3, <1>5 DEF Owns, UnreadFor
<1>8. \A d \in Conns : Owns(s, d)' <=> Owns(s, d) \/ d = x.conn
  <2>1. ASSUME NEW d \in Conns
        PROVE  UnreadFor(s, d)' <=> UnreadFor(s, d) \/ d = x.conn
    BY <1>3, <1>4 DEF UnreadFor
  <2>2. QED
    BY <1>5, <1>6, <2>1 DEF Owns
<1>9. \A t \in Shards : Listens(t) => Listens(t)'
  <2>1. Listens(s)'
    BY <1>4 DEF Listens, UnreadAccept
  <2>2. ASSUME NEW t \in Shards \ {s} PROVE Listens(t)' <=> Listens(t)
    BY <1>3, <1>5 DEF Listens, UnreadAccept
  <2>3. QED
    BY <2>1, <2>2
<1>10. ApartInv'
  <2>1. \A t \in Shards, d \in Conns : Owns(t, d) => d \in open
    BY OwnsOpen
  <2>2. \A t, u \in Shards, d \in Conns : Owns(t, d)' /\ Owns(u, d)' => t = u
    BY <1>7, <1>8, <2>1, ShardAssumption DEF OwnInv, ApartInv
  <2>3. QED
    BY <2>2 DEF ApartInv
<1>11. OnceInv' /\ LostInv'
  BY <1>3 DEF OwnInv, OnceInv, LostInv
<1>12. HeldInv'
  BY ZenonT(40), <1>0, <1>7, <1>8, <1>9 DEF OwnInv, HeldInv, TypeOK
<1>13. QED
  BY <1>10, <1>11, <1>12 DEF OwnInv

\* The requests a handler prepares, as lists and as sets.
LEMMA AcceptEntries ==
  ASSUME NEW c \in Conns
  PROVE  \E e \in Seq(SQEs) :
           /\ e = <<Sqe("send_size", c), AcceptSqe, Sqe("recv_hello", c)>>
           /\ Entries(e) = {Sqe("send_size", c), AcceptSqe, Sqe("recv_hello", c)}
           /\ \A i, j \in 1..Len(e) : e[i] = e[j] => i = j
<1> DEFINE f == <<Sqe("send_size", c), AcceptSqe, Sqe("recv_hello", c)>>
<1>1. f \in Seq(SQEs)
  BY EntryTypes DEF Ops
<1>2. Len(f) = 3 /\ 1..3 = {1, 2, 3}
  OBVIOUS
<1>3. f[1] = Sqe("send_size", c) /\ f[2] = AcceptSqe /\ f[3] = Sqe("recv_hello", c)
  OBVIOUS
<1>4. {f[i] : i \in {1, 2, 3}} = {f[1], f[2], f[3]}
  BY Zenon
<1>5. Entries(f) = {Sqe("send_size", c), AcceptSqe, Sqe("recv_hello", c)}
  BY <1>2, <1>3, <1>4, Zenon DEF Entries
<1>6. \A i, j \in {1, 2, 3} : f[i] = f[j] => i = j
  BY <1>3 DEF Sqe, AcceptSqe
<1>7. QED
  BY <1>1, <1>2, <1>5, <1>6, Zenon

LEMMA HeaderEntries ==
  ASSUME NEW c \in Conns
  PROVE  \E e \in Seq(SQEs) :
           /\ e = <<Sqe("recv_msg", c)>>
           /\ Entries(e) = {Sqe("recv_msg", c)}
           /\ \A i, j \in 1..Len(e) : e[i] = e[j] => i = j
<1> DEFINE f == <<Sqe("recv_msg", c)>>
<1>1. f \in Seq(SQEs)
  BY EntryTypes DEF Ops
<1>2. Len(f) = 1 /\ 1..1 = {1} /\ f[1] = Sqe("recv_msg", c)
  OBVIOUS
<1>3. QED
  BY <1>1, <1>2, Zenon DEF Entries

LEMMA MsgEntries ==
  ASSUME NEW c \in Conns
  PROVE  \E e \in Seq(SQEs) :
           /\ e = <<Sqe("send_msg", c), Sqe("recv_msg", c)>>
           /\ Entries(e) = {Sqe("send_msg", c), Sqe("recv_msg", c)}
           /\ \A i, j \in 1..Len(e) : e[i] = e[j] => i = j
<1> DEFINE f == <<Sqe("send_msg", c), Sqe("recv_msg", c)>>
<1>1. f \in Seq(SQEs)
  BY EntryTypes DEF Ops
<1>2. Len(f) = 2 /\ 1..2 = {1, 2}
  OBVIOUS
<1>3. f[1] = Sqe("send_msg", c) /\ f[2] = Sqe("recv_msg", c)
  OBVIOUS
<1>4. {f[i] : i \in {1, 2}} = {f[1], f[2]}
  BY Zenon
<1>5. Entries(f) = {Sqe("send_msg", c), Sqe("recv_msg", c)}
  BY <1>2, <1>3, <1>4, Zenon DEF Entries
<1>6. \A i, j \in {1, 2} : f[i] = f[j] => i = j
  BY <1>3 DEF Sqe
<1>7. QED
  BY <1>1, <1>2, <1>5, <1>6, Zenon

\* A completion that is not a failed accept is of a connection.
LEMMA CurrentConn ==
  ASSUME IInv, NEW s \in Shards, NEW data \in {"thread", "accept"}, NextCqe(s, data),
         data = "accept" => Current(s).ok
  PROVE  Current(s).conn \in Conns /\ Current(s).conn \in open
<1>1. seen[s] + 1 \in UnreadAt(s) /\ Current(s) = cq[s][seen[s] + 1]
  BY ReadOne DEF IInv
<1>2. Current(s).conn \in open
  BY <1>1 DEF IInv, CompletionInv, NextCqe
<1>3. QED
  BY <1>2 DEF IInv, TypeOK

LEMMA OwnHandlers ==
  ASSUME IInv, OwnInv, NEW s \in Shards,
         OnNull(s) \/ OnAccepted(s) \/ OnHeader(s) \/ OnMsg(s)
  PROVE  OwnInv'
<1> DEFINE c == Current(s).conn
<1>0. TypeOK
  BY DEF IInv
<1>1. ASSUME NEW data \in {"thread", "accept"}, NextCqe(s, data), data = "accept" => Current(s).ok
      PROVE  c \in Conns
  BY <1>1, CurrentConn
<1>2. CASE OnNull(s)
  BY <1>2, OwnSkip DEF OnNull
<1>3. CASE OnAccepted(s)
  <2>1. NextCqe(s, "accept")
    BY <1>3 DEF OnAccepted
  <2>2. CASE Current(s).ok
    <3>1. c \in Conns
      BY <1>1, <2>1, <2>2
    <3>2. PICK e \in Seq(SQEs) :
            /\ e = <<Sqe("send_size", c), AcceptSqe, Sqe("recv_hello", c)>>
            /\ Entries(e) = {Sqe("send_size", c), AcceptSqe, Sqe("recv_hello", c)}
            /\ \A i, j \in 1..Len(e) : e[i] = e[j] => i = j
      BY <3>1, AcceptEntries
    <3>3. Prepare(s, e)
      BY <1>3, <2>2, <3>2 DEF OnAccepted
    <3>4. /\ \A x \in Entries(e) : x.op \in {"send_size", "send_msg"} \/ x = AcceptSqe \/ x \in RecvsOf(c)
          /\ AcceptSqe \in Entries(e)
          /\ RecvsOf(c) \cap Entries(e) # {}
      BY <3>2 DEF RecvsOf, Sqe
    <3>5. QED
      BY <2>1, <2>2, <3>1, <3>2, <3>3, <3>4, OwnHandle
  <2>3. CASE ~Current(s).ok
    BY <1>3, <2>1, <2>3, OwnSkip DEF OnAccepted, Exits
  <2>4. QED
    BY <2>2, <2>3
<1>4. CASE OnHeader(s)
  <2>1. NextCqe(s, "thread")
    BY <1>4 DEF OnHeader
  <2>2. CASE Current(s).ok
    <3>1. c \in Conns
      BY <1>1, <2>1
    <3>2. PICK e \in Seq(SQEs) :
            /\ e = <<Sqe("recv_msg", c)>>
            /\ Entries(e) = {Sqe("recv_msg", c)}
            /\ \A i, j \in 1..Len(e) : e[i] = e[j] => i = j
      BY <3>1, HeaderEntries
    <3>3. Prepare(s, e)
      BY <1>4, <2>2, <3>2 DEF OnHeader
    <3>4. (\A x \in Entries(e) : x \in RecvsOf(c)) /\ RecvsOf(c) \cap Entries(e) # {}
      BY <3>2 DEF RecvsOf
    <3>5. QED
      BY <2>1, <3>1, <3>2, <3>3, <3>4, OwnHandle
  <2>3. CASE ~Current(s).ok
    BY <1>4, <2>1, <2>3, OwnSkip DEF OnHeader
  <2>4. QED
    BY <2>2, <2>3
<1>5. CASE OnMsg(s)
  <2>1. NextCqe(s, "thread")
    BY <1>5 DEF OnMsg
  <2>2. CASE Current(s).ok
    <3>1. c \in Conns
      BY <1>1, <2>1
    <3>2. PICK e \in Seq(SQEs) :
            /\ e = <<Sqe("send_msg", c), Sqe("recv_msg", c)>>
            /\ Entries(e) = {Sqe("send_msg", c), Sqe("recv_msg", c)}
            /\ \A i, j \in 1..Len(e) : e[i] = e[j] => i = j
      BY <3>1, MsgEntries
    <3>3. Prepare(s, e)
      BY <1>5, <2>2, <3>2 DEF OnMsg
    <3>4. /\ \A x \in Entries(e) : x.op \in {"send_size", "send_msg"} \/ x \in RecvsOf(c)
          /\ RecvsOf(c) \cap Entries(e) # {}
      BY <3>2 DEF RecvsOf, Sqe
    <3>5. QED
      BY <2>1, <3>1, <3>2, <3>3, <3>4, OwnHandle
  <2>3. CASE ~Current(s).ok
    BY <1>5, <2>1, <2>3, OwnSkip DEF OnMsg
  <2>4. QED
    BY <2>2, <2>3
<1>6. QED
  BY <1>2, <1>3, <1>4, <1>5

LEMMA OwnKernel ==
  ASSUME IInv, OwnInv, NEW s \in Shards, NEW c \in Conns,
         KernelStep(s, c) \/ KernelFailure(s, c)
  PROVE  OwnInv'
<1>1. UNCHANGED <<sq, seen, open, phase, client, alive, cause>>
  BY DEF KernelStep, KernelFailure, KSendSize, KSendMsg, KRecvHello, KRecvMsg, KRecvShort,
         KSendSizeFail, KSendMsgFail, loopVars, clientVars
<1>2. /\ AcceptSqe \notin RecvsOf(c) \cup {Sqe("send_size", c), Sqe("send_msg", c)}
      /\ \A d \in Conns : d # c =>
           RecvsOf(d) \cap (RecvsOf(c) \cup {Sqe("send_size", c), Sqe("send_msg", c)}) = {}
      /\ RecvsOf(c) \cap {Sqe("send_size", c), Sqe("send_msg", c)} = {}
      /\ RecvsOf(c) = {Sqe("recv_hello", c), Sqe("recv_msg", c)}
  BY RequestsDiffer DEF RecvsOf
<1>3. ASSUME NEW ok \in BOOLEAN, NEW q \in {Sqe("send_size", c), Sqe("send_msg", c)},
             Complete(s, {q}, <<Cqe("null", c, ok)>>)
      PROVE  OwnInv'
  <2>1. PICK e \in Seq(CQEs) :
          e = <<Cqe("null", c, ok)>> /\ \A k \in 1..Len(e) : e[k].data = "null"
    <3>1. <<Cqe("null", c, ok)>> \in Seq(CQEs)
      BY DEF CQEs, Cqe
    <3>2. \A k \in 1..Len(<<Cqe("null", c, ok)>>) : <<Cqe("null", c, ok)>>[k].data = "null"
      BY DEF Cqe
    <3>3. QED
      BY <3>1, <3>2, Zenon
  <2>2. Complete(s, {q}, e)
    BY <1>3, <2>1
  <2>3. /\ AcceptSqe \notin {q} /\ RecvsOf(c) \cap {q} = {}
        /\ \A d \in Conns : d # c => RecvsOf(d) \cap {q} = {}
    BY <1>2
  <2>4. QED
    BY ZenonT(40), <1>1, <2>1, <2>2, <2>3, OwnPost
<1>4. ASSUME NEW ok \in BOOLEAN, ~ok => client[c] = "gone",
             NEW q \in RecvsOf(c), q \in inflight[s], Complete(s, {q}, <<Cqe("thread", c, ok)>>)
      PROVE  OwnInv'
  <2>1. PICK e \in Seq(CQEs) :
          /\ e = <<Cqe("thread", c, ok)>>
          /\ Len(e) = 1 /\ \A k \in 1..Len(e) : e[k] = Cqe("thread", c, ok)
    <3>1. <<Cqe("thread", c, ok)>> \in Seq(CQEs)
      BY DEF CQEs, Cqe
    <3>2. /\ Len(<<Cqe("thread", c, ok)>>) = 1
          /\ \A k \in 1..Len(<<Cqe("thread", c, ok)>>) :
               <<Cqe("thread", c, ok)>>[k] = Cqe("thread", c, ok)
      OBVIOUS
    <3>3. QED
      BY <3>1, <3>2, Zenon
  <2>2. Complete(s, {q}, e)
    BY <1>4, <2>1
  <2>3. AcceptSqe \notin {q} /\ \A d \in Conns : d # c => RecvsOf(d) \cap {q} = {}
    BY <1>2
  <2>4. RecvsOf(c) \cap inflight[s] # {}
    BY <1>4
  <2>5. 1 \in 1..Len(e) /\ \A k \in 1..Len(e) : e[k].data = "thread" /\ e[k].conn = c /\ e[k].ok = ok
    BY <2>1 DEF Cqe
  <2>6. QED
    BY <1>1, <1>4, <2>2, <2>3, <2>4, <2>5, OwnPost
<1>5. ASSUME UNCHANGED <<inflight, cq>>
      PROVE  OwnInv'
  BY <1>1, <1>5, OwnFrame DEF StayGone
<1>6. CASE KSendSize(s, c) \/ KSendSizeFail(s, c)
  BY <1>3, <1>6 DEF KSendSize, KSendSizeFail
<1>7. CASE KSendMsg(s, c)
  BY <1>3, <1>5, <1>7 DEF KSendMsg
<1>8. CASE KRecvHello(s, c)
  BY <1>2, <1>4, <1>8 DEF KRecvHello
<1>9. CASE KRecvMsg(s, c)
  BY <1>2, <1>4, <1>5, <1>9 DEF KRecvMsg
<1>10. CASE KRecvShort(s, c)
  BY <1>2, <1>4, <1>10 DEF KRecvShort
<1>11. CASE KSendMsgFail(s, c)
  <2>1. CASE Sqe("recv_msg", c) \notin inflight[s]
    BY <1>3, <1>11, <2>1 DEF KSendMsgFail
  <2>2. CASE Sqe("recv_msg", c) \in inflight[s]
    <3>1. /\ client[c] = "gone"
          /\ Complete(s, {Sqe("send_msg", c), Sqe("recv_msg", c)},
                      <<Cqe("null", c, FALSE), Cqe("thread", c, FALSE)>>)
      BY <1>11, <2>2 DEF KSendMsgFail
    <3>2. PICK e \in Seq(CQEs) :
            /\ e = <<Cqe("null", c, FALSE), Cqe("thread", c, FALSE)>>
            /\ \A k \in 1..Len(e) : e[k].data = "null" \/ (e[k].data = "thread" /\ e[k].conn = c)
            /\ \E k \in 1..Len(e) : e[k].data = "thread" /\ e[k].conn = c
      <4> DEFINE f == <<Cqe("null", c, FALSE), Cqe("thread", c, FALSE)>>
      <4>1. f \in Seq(CQEs)
        BY PostedTypes
      <4>2. /\ \A k \in 1..Len(f) : f[k].data = "null" \/ (f[k].data = "thread" /\ f[k].conn = c)
            /\ \E k \in 1..Len(f) : f[k].data = "thread" /\ f[k].conn = c
        <5>1. Len(f) = 2 /\ f[1] = Cqe("null", c, FALSE) /\ f[2] = Cqe("thread", c, FALSE)
          OBVIOUS
        <5>2. QED
          BY <5>1 DEF Cqe
      <4>3. QED
        BY <4>1, <4>2, Zenon
    <3>3. Complete(s, {Sqe("send_msg", c), Sqe("recv_msg", c)}, e)
      BY <3>1, <3>2
    <3>4. RecvsOf(c) \cap inflight[s] # {}
      BY <1>2, <2>2
    <3>5. /\ AcceptSqe \notin {Sqe("send_msg", c), Sqe("recv_msg", c)}
          /\ \A d \in Conns : d # c =>
               RecvsOf(d) \cap {Sqe("send_msg", c), Sqe("recv_msg", c)} = {}
      BY <1>2
    <3>6. QED
      BY <1>1, <3>1, <3>2, <3>3, <3>4, <3>5, OwnPost
  <2>3. QED
    BY <2>1, <2>2
<1>12. QED
  BY <1>6, <1>7, <1>8, <1>9, <1>10, <1>11 DEF KernelStep, KernelFailure

LEMMA OwnAcceptStep ==
  ASSUME IInv, OwnInv, NEW s \in Shards, KAccept(s) \/ KAcceptFail(s)
  PROVE  OwnInv'
<1>1. UNCHANGED <<sq, seen, phase, client, alive, cause>>
  BY DEF KAccept, KAcceptFail, loopVars, clientVars
<1>2. CASE KAccept(s)
  <2>1. PICK c \in queue[s] :
          open' = open \cup {c} /\ Complete(s, {AcceptSqe}, <<Cqe("accept", c, TRUE)>>)
    BY <1>2 DEF KAccept
  <2>2. c \in Conns \ open
    BY DEF IInv, QueueInv, TypeOK
  <2>3. PICK x \in CQEs : x = Cqe("accept", c, TRUE) /\ x.data = "accept" /\ x.conn = c
    <3>1. /\ Cqe("accept", c, TRUE) \in CQEs /\ Cqe("accept", c, TRUE).data = "accept"
          /\ Cqe("accept", c, TRUE).conn = c
      BY <2>2 DEF CQEs, Cqe
    <3>2. QED
      BY <3>1, Zenon
  <2>4. QED
    BY <1>1, <2>1, <2>2, <2>3, OwnAccept
<1>3. CASE KAcceptFail(s)
  <2>1. PICK x \in CQEs : x = Cqe("accept", NoConn, FALSE) /\ x.data = "accept" /\ x.conn = NoConn
    <3>1. /\ Cqe("accept", NoConn, FALSE) \in CQEs
          /\ Cqe("accept", NoConn, FALSE).data = "accept"
          /\ Cqe("accept", NoConn, FALSE).conn = NoConn
      BY DEF CQEs, Cqe
    <3>2. QED
      BY <3>1, Zenon
  <2>2. Complete(s, {AcceptSqe}, <<x>>) /\ UNCHANGED open
    BY <1>3, <2>1 DEF KAcceptFail
  <2>3. QED
    BY <1>1, <2>1, <2>2, OwnAccept
<1>4. QED
  BY <1>2, <1>3

\* Together with IInv it is inductive.
LEMMA OwnAlways == Spec => [](IInv /\ OwnInv)
<1>1. IInv /\ OwnInv /\ [Next]_vars => OwnInv'
  <2> SUFFICES ASSUME IInv, OwnInv, [Next]_vars PROVE OwnInv'
    OBVIOUS
  <2>1. ASSUME NEW s \in Shards, EndDrain(s) \/ SubmitFails(s) \/ WaitFails(s)
        PROVE  OwnInv'
    <3>1. /\ UNCHANGED <<sq, inflight, cq, seen, open, client>>
          /\ alive' => alive
          /\ \A t \in Shards : phase'[t] # "off" => phase[t] # "off"
      BY <2>1 DEF EndDrain, SubmitFails, WaitFails, Exits, clientVars, kernelVars, IInv, TypeOK
    <3>2. QED
      BY <3>1, OwnFrame DEF StayGone
  <2>2. ASSUME NEW s \in Shards, Start(s) \/ ThreadStep(s) \/ WaitFails(s) \/ KAccept(s) \/ KAcceptFail(s)
        PROVE  OwnInv'
    BY <2>1, <2>2, OwnStart, OwnSubmit, OwnHandlers, OwnAdvance, OwnAcceptStep DEF ThreadStep
  <2>3. ASSUME NEW s \in Shards, NEW c \in Conns, KernelStep(s, c) \/ KernelFailure(s, c)
        PROVE  OwnInv'
    BY <2>3, OwnKernel
  <2>4. ASSUME NEW c \in Conns, Connect(c) \/ Talk(c) \/ Leave(c)
        PROVE  OwnInv'
    <3>1. UNCHANGED <<alive, phase, sq, inflight, cq, seen, open>>
      BY <2>4 DEF Connect, Talk, Leave, loopVars, kernelVars
    <3>2. StayGone
      BY <2>4 DEF StayGone, Connect, Talk, Leave, ClientStep, ClientConnect, ClientHello,
                  ClientSize, ClientSend, ClientRecv, ClientExit, ClientMoves, IInv, TypeOK,
                  ClientTypeOK
    <3>3. QED
      BY <3>1, <3>2, OwnFrame
  <2>5. CASE UNCHANGED vars
    <3>1. UNCHANGED <<alive, phase, sq, inflight, cq, seen, open, client>>
      BY <2>5 DEF vars, loopVars, kernelVars, clientVars
    <3>2. QED
      BY <3>1, OwnFrame DEF StayGone
  <2>6. QED
    BY <2>2, <2>3, <2>4, <2>5 DEF Next
<1>2. QED
  BY <1>1, OwnInit, Inductive, PTL DEF Spec

LEMMA AtMostOne ==
  ASSUME NEW S, \A x, y \in S : x = y
  PROVE  Cardinality(S) = IF S = {} THEN 0 ELSE 1
<1>1. CASE S = {}
  BY <1>1, FS_EmptySet
<1>2. CASE S # {}
  <2>1. PICK x \in S : S = {x}
    BY <1>2
  <2>2. QED
    BY <1>2, <2>1, FS_Singleton
<1>3. QED
  BY <1>1, <1>2

\* What a shard holds of a threadlet is one thing.
LEMMA OneToken ==
  ASSUME IInv, OwnInv, NEW c \in Conns
  PROVE  /\ \A x, y \in Tokens(c) : x = y
         /\ Tokens(c) # {} => c \in open
         /\ \A s \in Shards : Owns(s, c) => Tokens(c) # {}
<1> DEFINE InSq(s, i) == i \in 1..Len(sq[s]) /\ sq[s][i] \in RecvsOf(c)
<1> DEFINE InKernel(s, q) == q \in RecvsOf(c) \cap inflight[s]
<1> DEFINE InCq(s, i) == /\ i \in UnreadAt(s) /\ cq[s][i].conn = c
                         /\ cq[s][i].data = "thread" \/ cq[s][i].data = "accept"
<1> DEFINE TokenOf(s, x) ==
      \/ \E i : InSq(s, i) /\ x = <<"sq", s, i>>
      \/ \E q : InKernel(s, q) /\ x = <<"kernel", s, q.op>>
      \/ \E i : InCq(s, i) /\ x = <<"cq", s, i>>
<1>1. \A x : x \in Tokens(c) <=> \E s \in Shards : TokenOf(s, x)
  BY DEF Tokens, Prepared, UnreadOf, Unread, UnreadAt
<1>2. ASSUME NEW s \in Shards
      PROVE  /\ \A i : InSq(s, i) => c \in Receiving(s)
             /\ \A q : InKernel(s, q) => RecvsOf(c) \cap inflight[s] # {}
             /\ \A i : InCq(s, i) => UnreadFor(s, c)
             /\ c \in Receiving(s) => \E i : InSq(s, i)
             /\ RecvsOf(c) \cap inflight[s] # {} => \E q : InKernel(s, q)
             /\ UnreadFor(s, c) => \E i : InCq(s, i)
  <2>1. /\ \A i : InSq(s, i) => c \in Receiving(s)
        /\ c \in Receiving(s) => \E i : InSq(s, i)
    BY DEF Receiving, PreparedSet
  <2>2. UnreadFor(s, c) => \E i : InCq(s, i)
    BY UnreadType DEF UnreadFor, IInv
  <2>3. \A i : InCq(s, i) => UnreadFor(s, c)
    BY DEF UnreadFor
  <2>4. QED
    BY <2>1, <2>2, <2>3
<1>3. \A s \in Shards : (\E x : TokenOf(s, x)) <=> Owns(s, c)
  BY <1>2 DEF Owns
\* In one shard, by what IInv says of it.
<1>4. ASSUME NEW s \in Shards
      PROVE  /\ \A i, j : InSq(s, i) /\ InSq(s, j) => i = j
             /\ \A p, q : InKernel(s, p) /\ InKernel(s, q) => p = q
             /\ \A i, j : InCq(s, i) /\ InCq(s, j) => i = j
             /\ \A i, q : InSq(s, i) => ~InKernel(s, q)
             /\ \A i, j : InCq(s, i) => ~InSq(s, j)
             /\ \A i, q : InCq(s, i) => ~InKernel(s, q)
  <2>1. ASSUME NEW i, NEW j, InSq(s, i), InSq(s, j) PROVE i = j
    <3>1. sq[s][i] \in PreparedSet(s) /\ sq[s][j] \in PreparedSet(s)
      BY <2>1 DEF PreparedSet
    <3>2. sq[s][i] = sq[s][j]
      BY <2>1, <3>1 DEF IInv, RequestInv, RecvsOf
    <3>3. sq[s][i].op \notin {"send_size", "send_msg"}
      BY <2>1 DEF RecvsOf, Sqe
    <3>4. QED
      BY <2>1, <3>2, <3>3 DEF OwnInv, OnceInv
  <2>2. \A p, q : InKernel(s, p) /\ InKernel(s, q) => p = q
    BY DEF IInv, RequestInv, RecvsOf
  <2>3. \A i, j : InCq(s, i) /\ InCq(s, j) => i = j
    BY DEF IInv, OwnerInv
  <2>4. \A i, q : InSq(s, i) => ~InKernel(s, q)
    BY <1>2 DEF IInv, RequestInv
  <2>5. ASSUME NEW i, InCq(s, i)
        PROVE  c \notin Receiving(s) /\ RecvsOf(c) \cap inflight[s] = {}
    <3>1. cq[s][i].data = "thread" \/ (cq[s][i].data = "accept" /\ cq[s][i].ok)
      BY <2>5, ShardAssumption DEF IInv, CompletionInv
    <3>2. QED
      BY <2>5, <3>1 DEF IInv, CompletionInv
  <2>6. QED
    BY <1>2, <2>1, <2>2, <2>3, <2>4, <2>5
<1>5. ASSUME NEW x \in Tokens(c), NEW y \in Tokens(c) PROVE x = y
  <2>1. PICK s \in Shards : TokenOf(s, x)
    BY <1>1
  <2>2. PICK t \in Shards : TokenOf(t, y)
    BY <1>1
  <2>3. s = t
    BY <1>3, <2>1, <2>2 DEF OwnInv, ApartInv
  <2>4. TokenOf(s, y)
    BY <2>2, <2>3
  <2>5. CASE \E i : InSq(s, i) /\ x = <<"sq", s, i>>
    BY <1>4, <2>4, <2>5
  <2>6. CASE \E q : InKernel(s, q) /\ x = <<"kernel", s, q.op>>
    BY <1>4, <2>4, <2>6
  <2>7. CASE \E i : InCq(s, i) /\ x = <<"cq", s, i>>
    BY <1>4, <2>4, <2>7
  <2>8. QED
    BY <2>1, <2>5, <2>6, <2>7
<1>6. Tokens(c) # {} => c \in open
  BY <1>1, <1>3, OwnsOpen
<1>7. \A s \in Shards : Owns(s, c) => Tokens(c) # {}
  BY <1>1, <1>3
<1>8. QED
  BY <1>5, <1>6, <1>7

\* Whatever the number of shards and connections, whichever submissions fail
\* and clients leave: each threadlet of an accepted connection has exactly one
\* request under way or completed unread, until its client is gone (133-172).
THEOREM RequestsExact == Spec => []OneRequest
<1>1. IInv /\ OwnInv => OneRequest
  <2> SUFFICES ASSUME IInv, OwnInv, alive, NEW c \in Conns
               PROVE  /\ Cardinality(Tokens(c)) <= (IF c \in open THEN 1 ELSE 0)
                      /\ c \in open /\ client[c] # "gone" => Tokens(c) # {}
    BY DEF OneRequest
  <2>1. Cardinality(Tokens(c)) = IF Tokens(c) = {} THEN 0 ELSE 1
    BY OneToken, AtMostOne
  <2>2. Tokens(c) # {} => c \in open
    BY OneToken
  <2>3. c \in open /\ client[c] # "gone" => \E s \in Shards : Owns(s, c)
    BY DEF OwnInv, HeldInv
  <2>4. c \in open /\ client[c] # "gone" => Tokens(c) # {}
    BY <2>3, OneToken
  <2>5. QED
    BY <2>1, <2>2, <2>4
<1>2. QED
  BY <1>1, OwnAlways, PTL

\* ... and each listener exactly one accept (86, 125).
THEOREM AcceptsExact == Spec => []OneAccept
<1>1. IInv /\ OwnInv => OneAccept
  <2> SUFFICES ASSUME IInv, OwnInv, alive, NEW s \in Shards, phase[s] # "off"
               PROVE  Cardinality(Prepared(s, {AcceptSqe})) + Cardinality(Unread(s, "accept"))
                        + Cardinality({AcceptSqe} \cap inflight[s]) = 1
    BY DEF OneAccept
  <2>1. /\ \A i, j \in Prepared(s, {AcceptSqe}) : i = j
        /\ Prepared(s, {AcceptSqe}) # {} <=> AcceptSqe \in PreparedSet(s)
    BY DEF Prepared, PreparedSet, AcceptSqe, Sqe, OwnInv, OnceInv
  <2>2. /\ \A i, j \in Unread(s, "accept") : i = j
        /\ Unread(s, "accept") # {} <=> UnreadAccept(s)
    BY DEF Unread, UnreadAt, UnreadAccept, IInv, OwnerInv
  <2>3. /\ \A x, y \in {AcceptSqe} \cap inflight[s] : x = y
        /\ {AcceptSqe} \cap inflight[s] # {} <=> AcceptSqe \in inflight[s]
    OBVIOUS
  <2>4. /\ AcceptSqe \in PreparedSet(s) \/ AcceptSqe \in inflight[s] \/ UnreadAccept(s)
        /\ ~(AcceptSqe \in PreparedSet(s) /\ AcceptSqe \in inflight[s])
        /\ UnreadAccept(s) => AcceptSqe \notin PreparedSet(s) /\ AcceptSqe \notin inflight[s]
    BY DEF OwnInv, HeldInv, Listens, UnreadAccept, IInv, RequestInv, CompletionInv
  <2>5. /\ Cardinality(Prepared(s, {AcceptSqe})) = IF AcceptSqe \in PreparedSet(s) THEN 1 ELSE 0
        /\ Cardinality(Unread(s, "accept")) = IF UnreadAccept(s) THEN 1 ELSE 0
        /\ Cardinality({AcceptSqe} \cap inflight[s]) = IF AcceptSqe \in inflight[s] THEN 1 ELSE 0
    BY <2>1, <2>2, <2>3, AtMostOne
  <2>6. QED
    BY <2>4, <2>5
<1>2. QED
  BY <1>1, OwnAlways, PTL

-----------------------------------------------------------------------------
\* Streams: every unit sent is the one that is owed.  What a threadlet has
\* read, stored and sent follows from its pc and from the requests it has.

ConnOps == {"send_size", "recv_hello", "send_msg", "recv_msg"}

\* A request is prepared or with the kernel; a result is unread.
Has(op, c) == \E s \in Shards : Sqe(op, c) \in PreparedSet(s) \/ Sqe(op, c) \in inflight[s]
Done(c) == \E s \in Shards : \E i \in UnreadAt(s) :
             cq[s][i].data = "thread" /\ cq[s][i].conn = c /\ cq[s][i].ok
Accepted(c) == \E s \in Shards : \E i \in UnreadAt(s) :
                 cq[s][i].data = "accept" /\ cq[s][i].conn = c

\* A send is prepared with the recv after it, and a reply stays with it.
PairInv ==
  \A s \in Shards, c \in Conns :
    /\ Sqe("send_size", c) \in PreparedSet(s) => Sqe("recv_hello", c) \in PreparedSet(s)
    /\ Sqe("send_msg", c) \in PreparedSet(s) => Sqe("recv_msg", c) \in PreparedSet(s)
    /\ Sqe("send_msg", c) \in inflight[s] => Sqe("recv_msg", c) \in inflight[s]

\* The announcement is sent once.
SizeInv ==
  \A s, t \in Shards, c \in Conns : Sqe("send_size", c) \in inflight[s] =>
    /\ Sqe("send_size", c) \notin PreparedSet(t)
    /\ Sqe("send_size", c) \in inflight[t] => t = s

\* Slot i of a stream, and units of echoes in it.
Owed(i) == IF i <= 2 THEN 0 ELSE i - 1
Sent(c) == IF Len(down[c]) >= 2 THEN Len(down[c]) - 2 ELSE 0

\* A client sends messages only after it was told their size.
Asking(c) ==
  /\ taken[c] <= up[c]
  /\ client[c] \in {"idle", "connected"} => up[c] = 0
  /\ client[c] = "hello" => up[c] <= 1
  /\ client[c] = "running" \/ up[c] > 1 => Len(down[c]) >= 2

Stream(c) ==
  /\ Len(down[c]) # 1
  /\ \A i \in 1..Len(down[c]) : down[c][i] = Owed(i)
  /\ Accepted(c) \/ c \notin open => pc[c] = "none"
  /\ pc[c] = "none" => taken[c] = 0 /\ Len(down[c]) = 0
  /\ pc[c] = "RECEIVED_HEADER" => Len(down[c]) <= 2
  /\ Has("send_size", c) => Len(down[c]) = 0 /\ pc[c] # "none"
  /\ Has("recv_hello", c) => pc[c] = "RECEIVED_HEADER" /\ taken[c] = 0
  /\ Has("recv_msg", c) => pc[c] = "RECEIVED_MSG"

\* Message units read and not yet sent are in the buffer.
Buffer(c) ==
  /\ ~Has("recv_msg", c) => rpos[c] = 0
  /\ ~Has("send_msg", c) => spos[c] = 0
  /\ Done(c) /\ pc[c] = "RECEIVED_HEADER" => taken[c] = 1
  /\ Done(c) /\ pc[c] = "RECEIVED_MSG" =>
       /\ taken[c] = 1 + Sent(c) + MsgUnits
       /\ \A i \in 1..MsgUnits : buf[c][i] = 1 + Sent(c) + i
  /\ Has("recv_msg", c) /\ ~Has("send_msg", c) =>
       /\ taken[c] = 1 + Sent(c) + rpos[c]
       /\ \A i \in 1..rpos[c] : buf[c][i] = 1 + Sent(c) + i
  /\ Has("send_msg", c) =>
       /\ Has("recv_msg", c) /\ rpos[c] = 0
       /\ taken[c] = 1 + Sent(c) + MsgUnits - spos[c]
       /\ \A i \in 1..(MsgUnits - spos[c]) : buf[c][spos[c] + i] = 1 + Sent(c) + i

Good(c) == Asking(c) /\ Stream(c) /\ Buffer(c)

EchoInd == PairInv /\ SizeInv /\ \A c \in Conns : Good(c)

LEMMA EchoInit == Init => EchoInd
<1> SUFFICES ASSUME Init PROVE EchoInd
  OBVIOUS
<1>1. \A s \in Shards : PreparedSet(s) = {} /\ inflight[s] = {} /\ UnreadAt(s) = {}
  <2>1. \A s \in Shards : sq[s] = <<>> /\ inflight[s] = {} /\ cq[s] = <<>> /\ seen[s] = 0
    BY DEF Init
  <2>2. QED
    BY <2>1 DEF UnreadAt, PreparedSet
<1>2. PairInv /\ SizeInv
  BY <1>1 DEF PairInv, SizeInv
<1>3. \A c \in Conns : ~Done(c) /\ ~Accepted(c) /\ \A op \in ConnOps : ~Has(op, c)
  BY <1>1 DEF Done, Accepted, Has
<1>4. ASSUME NEW c \in Conns PROVE Good(c)
  <2>1. /\ taken[c] = 0 /\ up[c] = 0 /\ client[c] = "idle" /\ down[c] = <<>> /\ Len(down[c]) = 0
        /\ pc[c] = "none" /\ rpos[c] = 0 /\ spos[c] = 0
    BY DEF Init, ClientInit
  <2>2. QED
    BY <1>3, <2>1 DEF Good, Asking, Stream, Buffer, ConnOps
<1>5. QED
  BY <1>2, <1>4 DEF EchoInd

\* A recv or a reply is in one place.
LEMMA OnePlace ==
  ASSUME IInv, OwnInv, PairInv, NEW c \in Conns, NEW op \in {"recv_hello", "recv_msg", "send_msg"},
         NEW s \in Shards, Sqe(op, c) \in inflight[s], NEW t \in Shards
  PROVE  Sqe(op, c) \notin PreparedSet(t) /\ (Sqe(op, c) \in inflight[t] => t = s)
<1>1. ASSUME NEW q \in RecvsOf(c), q \in inflight[s]
      PROVE  q \notin PreparedSet(t) /\ (q \in inflight[t] => t = s)
  <2>1. Owns(s, c)
    BY <1>1 DEF Owns
  <2>2. q \in PreparedSet(t) => c \in Receiving(t) /\ Owns(t, c)
    BY <1>1 DEF Owns, Receiving
  <2>3. q \in inflight[t] => Owns(t, c)
    BY <1>1 DEF Owns
  <2>4. QED
    BY <1>1, <2>1, <2>2, <2>3 DEF OwnInv, ApartInv, IInv, RequestInv
<1>2. CASE op \in {"recv_hello", "recv_msg"}
  BY <1>1, <1>2 DEF RecvsOf
<1>3. CASE op = "send_msg"
  BY <1>1, <1>3 DEF PairInv, RecvsOf
<1>4. QED
  BY <1>2, <1>3

\* A threadlet that has a result has no request but an announcement.
LEMMA Exclusive ==
  ASSUME IInv, OwnInv, PairInv, NEW c \in Conns
  PROVE  /\ Has("recv_hello", c) => ~Has("recv_msg", c)
         /\ Has("send_msg", c) => Has("recv_msg", c)
         /\ Done(c) \/ Accepted(c) =>
              /\ ~Has("recv_hello", c) /\ ~Has("recv_msg", c)
              /\ ~(Done(c) /\ Accepted(c))
<1>1. ASSUME NEW op \in {"recv_hello", "recv_msg"}, NEW s \in Shards,
             Sqe(op, c) \in PreparedSet(s) \/ Sqe(op, c) \in inflight[s]
      PROVE  Owns(s, c)
  BY <1>1 DEF Owns, Receiving, RecvsOf
<1>2. ASSUME NEW s \in Shards, NEW i \in UnreadAt(s), cq[s][i].conn = c,
             cq[s][i].data = "thread" \/ cq[s][i].data = "accept"
      PROVE  /\ Owns(s, c) /\ c \notin Receiving(s) /\ RecvsOf(c) \cap inflight[s] = {}
  <2>1. Owns(s, c)
    BY <1>2 DEF Owns, UnreadFor
  <2>2. cq[s][i].data = "thread" \/ (cq[s][i].data = "accept" /\ cq[s][i].ok)
    BY <1>2, ShardAssumption DEF IInv, CompletionInv
  <2>3. QED
    BY <1>2, <2>1, <2>2 DEF IInv, CompletionInv
<1>3. Has("recv_hello", c) => ~Has("recv_msg", c)
  <2> SUFFICES ASSUME NEW s \in Shards, NEW t \in Shards,
                      Sqe("recv_hello", c) \in PreparedSet(s) \/ Sqe("recv_hello", c) \in inflight[s],
                      Sqe("recv_msg", c) \in PreparedSet(t) \/ Sqe("recv_msg", c) \in inflight[t]
               PROVE  FALSE
    BY DEF Has
  <2>1. s = t
    BY <1>1 DEF OwnInv, ApartInv
  <2>2. QED
    BY <2>1 DEF IInv, RequestInv, Receiving, RecvsOf
<1>4. Has("send_msg", c) => Has("recv_msg", c)
  BY DEF Has, PairInv
<1>5. ASSUME NEW s \in Shards, NEW i \in UnreadAt(s), cq[s][i].conn = c,
             cq[s][i].data = "thread" \/ cq[s][i].data = "accept"
      PROVE  /\ ~Has("recv_hello", c) /\ ~Has("recv_msg", c)
             /\ \A t \in Shards : \A j \in UnreadAt(t) :
                  cq[t][j].conn = c /\ cq[t][j].data # "null" => t = s /\ j = i
  <2>1. \A t \in Shards : Owns(t, c) => t = s
    BY <1>2, <1>5 DEF OwnInv, ApartInv
  <2>2. ~Has("recv_hello", c) /\ ~Has("recv_msg", c)
    BY <1>1, <1>2, <1>5, <2>1 DEF Has, Receiving, RecvsOf
  <2>3. \A t \in Shards : \A j \in UnreadAt(t) :
          cq[t][j].conn = c /\ cq[t][j].data # "null" => t = s /\ j = i
    BY <1>5, <2>1 DEF Owns, UnreadFor, IInv, OwnerInv
  <2>4. QED
    BY <2>2, <2>3
<1>6. Done(c) \/ Accepted(c) => ~Has("recv_hello", c) /\ ~Has("recv_msg", c)
  BY <1>5 DEF Done, Accepted
<1>7. ~(Done(c) /\ Accepted(c))
  <2> SUFFICES ASSUME Done(c), Accepted(c) PROVE FALSE
    OBVIOUS
  <2>1. PICK s \in Shards : \E i \in UnreadAt(s) : cq[s][i].data = "thread" /\ cq[s][i].conn = c
    BY DEF Done
  <2>2. PICK i \in UnreadAt(s) : cq[s][i].data = "thread" /\ cq[s][i].conn = c
    BY <2>1
  <2>3. PICK t \in Shards : \E j \in UnreadAt(t) : cq[t][j].data = "accept" /\ cq[t][j].conn = c
    BY DEF Accepted
  <2>4. PICK j \in UnreadAt(t) : cq[t][j].data = "accept" /\ cq[t][j].conn = c
    BY <2>3
  <2>5. t = s /\ j = i
    BY <1>5, <2>2, <2>4
  <2>6. QED
    BY <2>2, <2>4, <2>5
<1>8. QED
  BY <1>3, <1>4, <1>6, <1>7

\* The completion that is read was the only one of its threadlet.
LEMMA ReadLast ==
  ASSUME IInv, OwnInv, NEW s \in Shards, NEW data \in {"thread", "accept"}, NextCqe(s, data),
         NEW c \in Conns, Current(s).conn = c
  PROVE  /\ Current(s).ok /\ data = "thread" => Done(c)
         /\ data = "accept" => Accepted(c)
         /\ ~Done(c)' /\ ~Accepted(c)'
<1> DEFINE k == seen[s] + 1
<1>1. /\ k \in UnreadAt(s) /\ Current(s) = cq[s][k] /\ cq[s][k].data = data
      /\ UnreadAt(s)' = UnreadAt(s) \ {k}
      /\ \A t \in Shards \ {s} : UnreadAt(t)' = UnreadAt(t)
      /\ cq' = cq
  BY ReadOne DEF IInv, NextCqe
<1>2. Owns(s, c)
  BY <1>1 DEF Owns, UnreadFor
<1>3. ASSUME NEW t \in Shards, NEW j \in UnreadAt(t), cq[t][j].conn = c, cq[t][j].data # "null"
      PROVE  t = s /\ j = k
  <2>1. Owns(t, c)
    BY <1>3 DEF Owns, UnreadFor
  <2>2. t = s
    BY <1>2, <2>1 DEF OwnInv, ApartInv
  <2>3. QED
    BY <1>1, <1>3, <2>2 DEF IInv, OwnerInv
<1>4. \A t \in Shards : \A j \in UnreadAt(t)' : cq'[t][j].conn = c => ~(cq'[t][j].data # "null")
  BY <1>1, <1>3
<1>5. QED
  BY <1>1, <1>4 DEF Done, Accepted

\* Connections that a step does not concern.
LEMMA GoodKept ==
  ASSUME NEW c \in Conns, Good(c), Asking(c)',
         \A op \in ConnOps : Has(op, c)' <=> Has(op, c),
         Done(c)' => Done(c), Accepted(c)' => Accepted(c), c \in open => c \in open',
         taken'[c] = taken[c], down'[c] = down[c], buf'[c] = buf[c],
         rpos'[c] = rpos[c], spos'[c] = spos[c], pc'[c] = pc[c]
  PROVE  Good(c)'
<1>1. Sent(c)' = Sent(c)
  BY DEF Sent
<1>2. Stream(c)'
  BY DEF Good, Stream, ConnOps, Owed
<1>3. Buffer(c)'
  BY <1>1 DEF Good, Buffer, ConnOps
<1>4. QED
  BY <1>2, <1>3 DEF Good

LEMMA SameRequests ==
  ASSUME PairInv, SizeInv,
         \A t \in Shards, c \in Conns, op \in ConnOps :
           /\ Sqe(op, c) \in PreparedSet(t)' <=> Sqe(op, c) \in PreparedSet(t)
           /\ Sqe(op, c) \in inflight'[t] <=> Sqe(op, c) \in inflight[t]
  PROVE  /\ PairInv' /\ SizeInv'
         /\ \A c \in Conns, op \in ConnOps : Has(op, c)' <=> Has(op, c)
<1>1. PairInv' /\ SizeInv'
  BY DEF PairInv, SizeInv, ConnOps
<1>2. \A c \in Conns, op \in ConnOps : Has(op, c)' <=> Has(op, c)
  BY DEF Has
<1>3. QED
  BY <1>1, <1>2

\* Steps that change no stream, buffer or pc, and no threadlet's requests.
LEMMA EchoQuiet ==
  ASSUME EchoInd, PairInv', SizeInv',
         \A c \in Conns : /\ \A op \in ConnOps : Has(op, c)' <=> Has(op, c)
                          /\ Done(c)' => Done(c)
                          /\ Accepted(c)' => Accepted(c),
         UNCHANGED <<client, up, taken, down, buf, rpos, spos, pc, open>>
  PROVE  EchoInd'
<1>1. ASSUME NEW c \in Conns PROVE Good(c)'
  <2>1. Good(c)
    BY DEF EchoInd
  <2>2. Asking(c)'
    BY <2>1 DEF Good, Asking
  <2>3. QED
    BY <2>1, <2>2, GoodKept
<1>2. QED
  BY <1>1 DEF EchoInd

LEMMA EchoFrame ==
  ASSUME EchoInd, UNCHANGED <<sq, inflight, cq, seen>>,
         UNCHANGED <<client, up, taken, down, buf, rpos, spos, pc, open>>
  PROVE  EchoInd'
<1>1. \A t \in Shards : PreparedSet(t)' = PreparedSet(t) /\ UnreadAt(t)' = UnreadAt(t)
  BY DEF PreparedSet, UnreadAt
<1>2. /\ PairInv' /\ SizeInv'
      /\ \A c \in Conns, op \in ConnOps : Has(op, c)' <=> Has(op, c)
  BY <1>1, SameRequests DEF EchoInd
<1>3. \A c \in Conns : (Done(c)' <=> Done(c)) /\ (Accepted(c)' <=> Accepted(c))
  BY <1>1 DEF Done, Accepted
<1>4. QED
  BY <1>2, <1>3, EchoQuiet

LEMMA EchoStart ==
  ASSUME IInv, EchoInd, NEW s \in Shards, Start(s)
  PROVE  EchoInd'
<1>0. TypeOK
  BY DEF IInv
<1>1. UNCHANGED <<inflight, cq, seen, client, up, taken, down, buf, rpos, spos, pc, open>>
  BY DEF Start, kernelVars, clientVars
<1>2. \A t \in Shards : UnreadAt(t)' = UnreadAt(t)
  BY <1>1 DEF UnreadAt
<1>3. CASE sq' = sq
  BY <1>1, <1>3, EchoFrame
<1>4. CASE sq' = [sq EXCEPT ![s] = @ \o <<AcceptSqe>>]
  <2>1. PICK e \in Seq(SQEs) : e = <<AcceptSqe>> /\ Len(e) = 1 /\ \A i \in 1..1 : e[i] = AcceptSqe
    <3>1. /\ <<AcceptSqe>> \in Seq(SQEs) /\ Len(<<AcceptSqe>>) = 1
          /\ \A i \in 1..1 : <<AcceptSqe>>[i] = AcceptSqe
      BY EntryTypes
    <3>2. QED
      BY <3>1, Zenon
  <2>2. /\ PreparedSet(s)' = PreparedSet(s) \cup {e[i] : i \in 1..Len(e)}
        /\ \A t \in Shards \ {s} : PreparedSet(t)' = PreparedSet(t)
    BY <1>0, <1>4, <2>1, AppendPrepared
  <2>3. PreparedSet(s)' = PreparedSet(s) \cup {AcceptSqe}
    BY <2>1, <2>2
  <2>4. \A op \in ConnOps, c \in Conns : Sqe(op, c) # AcceptSqe
    BY DEF ConnOps, Sqe, AcceptSqe
  <2>5. /\ PairInv' /\ SizeInv'
        /\ \A c \in Conns, op \in ConnOps : Has(op, c)' <=> Has(op, c)
    BY <1>1, <2>2, <2>3, <2>4, SameRequests DEF EchoInd
  <2>6. \A c \in Conns : (Done(c)' <=> Done(c)) /\ (Accepted(c)' <=> Accepted(c))
    BY <1>1, <1>2 DEF Done, Accepted
  <2>7. QED
    BY <1>1, <2>5, <2>6, EchoQuiet
<1>5. QED
  BY <1>3, <1>4 DEF Start, Prepare

LEMMA EchoSubmit ==
  ASSUME IInv, OwnInv, EchoInd, NEW s \in Shards, Submit(s)
  PROVE  EchoInd'
<1>1. /\ inflight'[s] = inflight[s] \cup PreparedSet(s) /\ PreparedSet(s)' = {}
      /\ \A t \in Shards \ {s} : inflight'[t] = inflight[t] /\ PreparedSet(t)' = PreparedSet(t)
  BY DEF Submit, PreparedSet, IInv, TypeOK
<1>2. UNCHANGED <<cq, seen, client, up, taken, down, buf, rpos, spos, pc, open>>
  BY DEF Submit, clientVars
<1>3. \A t \in Shards : UnreadAt(t)' = UnreadAt(t)
  BY <1>2 DEF UnreadAt
<1>4. \A c \in Conns : (Done(c)' <=> Done(c)) /\ (Accepted(c)' <=> Accepted(c))
  BY <1>2, <1>3 DEF Done, Accepted
<1>5. \A c \in Conns, op \in ConnOps : Has(op, c)' <=> Has(op, c)
  <2>1. ASSUME NEW c \in Conns, NEW op \in ConnOps, NEW t \in Shards
        PROVE  (Sqe(op, c) \in PreparedSet(t) \/ Sqe(op, c) \in inflight[t])'
                 <=> Sqe(op, c) \in PreparedSet(t) \/ Sqe(op, c) \in inflight[t]
    BY <1>1
  <2>2. QED
    BY <2>1 DEF Has
<1>6. PairInv'
  BY <1>1 DEF EchoInd, PairInv
<1>7. SizeInv'
  <2>1. ASSUME NEW t \in Shards, NEW c \in Conns, Sqe("send_size", c) \in PreparedSet(t)
        PROVE  Owns(t, c)
    BY <2>1 DEF EchoInd, PairInv, Owns, Receiving, RecvsOf
  <2>2. \A t, u \in Shards, c \in Conns :
          Sqe("send_size", c) \in PreparedSet(t) /\ Sqe("send_size", c) \in PreparedSet(u) => t = u
    BY <2>1 DEF OwnInv, ApartInv
  <2>3. QED
    BY <1>1, <2>2 DEF EchoInd, SizeInv
<1>8. QED
  BY <1>2, <1>4, <1>5, <1>6, <1>7, EchoQuiet

LEMMA EchoAdvance ==
  ASSUME IInv, EchoInd, NEW s \in Shards, Advance(s)
  PROVE  EchoInd'
<1>1. UNCHANGED <<sq, inflight, client, up, taken, down, buf, rpos, spos, pc, open>>
  BY DEF Advance, clientVars
<1>2. \A i \in UnreadAt(s)' : i + seen[s] \in UnreadAt(s) /\ cq'[s][i] = cq[s][i + seen[s]]
  BY FrontUnread
<1>3. \A t \in Shards \ {s} : UnreadAt(t)' = UnreadAt(t) /\ cq'[t] = cq[t]
  BY DEF Advance, UnreadAt, IInv, TypeOK
<1>4. \A c \in Conns : (Done(c)' => Done(c)) /\ (Accepted(c)' => Accepted(c))
  BY <1>2, <1>3 DEF Done, Accepted
<1>5. \A t \in Shards : PreparedSet(t)' = PreparedSet(t)
  BY <1>1 DEF PreparedSet
<1>6. /\ PairInv' /\ SizeInv'
      /\ \A c \in Conns, op \in ConnOps : Has(op, c)' <=> Has(op, c)
  BY <1>1, <1>5, SameRequests DEF EchoInd
<1>7. QED
  BY <1>1, <1>4, <1>6, EchoQuiet

\* A completion that is read and prepares nothing.
LEMMA EchoSkip ==
  ASSUME IInv, EchoInd, NEW s \in Shards, NEW data, NextCqe(s, data), UNCHANGED <<sq, pc>>
  PROVE  EchoInd'
<1>1. /\ UNCHANGED <<cq, inflight, open>>
      /\ \A t \in Shards : UnreadAt(t)' \subseteq UnreadAt(t)
  BY ReadOne DEF IInv
<1>2. UNCHANGED <<client, up, taken, down, buf, rpos, spos>>
  BY DEF NextCqe, clientVars, kernelVars
<1>3. \A t \in Shards : PreparedSet(t)' = PreparedSet(t)
  BY DEF PreparedSet
<1>4. /\ PairInv' /\ SizeInv'
      /\ \A c \in Conns, op \in ConnOps : Has(op, c)' <=> Has(op, c)
  BY <1>1, <1>3, SameRequests DEF EchoInd
<1>5. \A c \in Conns : (Done(c)' => Done(c)) /\ (Accepted(c)' => Accepted(c))
  BY <1>1 DEF Done, Accepted
<1>6. QED
  BY <1>1, <1>2, <1>4, <1>5, EchoQuiet

\* A completion of threadlet c is read and the requests in X are prepared.
LEMMA MoreRequests ==
  ASSUME NEW s \in Shards, NEW X, UNCHANGED inflight,
         PreparedSet(s)' = PreparedSet(s) \cup X,
         \A t \in Shards \ {s} : PreparedSet(t)' = PreparedSet(t)
  PROVE  \A c \in Conns, op \in ConnOps : Has(op, c)' <=> Has(op, c) \/ Sqe(op, c) \in X
<1>1. \A c \in Conns, op \in ConnOps, t \in Shards :
        (Sqe(op, c) \in PreparedSet(t) \/ Sqe(op, c) \in inflight[t])'
          <=> \/ Sqe(op, c) \in PreparedSet(t) \/ Sqe(op, c) \in inflight[t]
              \/ (t = s /\ Sqe(op, c) \in X)
  OBVIOUS
<1>2. QED
  BY <1>1 DEF Has

LEMMA EchoRead ==
  ASSUME IInv, EchoInd, NEW s \in Shards, NEW data, NextCqe(s, data),
         NEW c \in Conns, NEW X,
         PreparedSet(s)' = PreparedSet(s) \cup X,
         \A t \in Shards \ {s} : PreparedSet(t)' = PreparedSet(t),
         \A d \in Conns, op \in ConnOps : Sqe(op, d) \in X => d = c,
         Sqe("send_size", c) \in X => Sqe("recv_hello", c) \in X /\ ~Has("send_size", c),
         Sqe("send_msg", c) \in X => Sqe("recv_msg", c) \in X,
         \A d \in Conns \ {c} : pc'[d] = pc[d],
         Good(c)'
  PROVE  EchoInd'
<1>1. /\ UNCHANGED <<cq, inflight, open>>
      /\ \A t \in Shards : UnreadAt(t)' \subseteq UnreadAt(t)
  BY ReadOne DEF IInv
<1>2. UNCHANGED <<client, up, taken, down, buf, rpos, spos>>
  BY DEF NextCqe, clientVars, kernelVars
<1>3. \A d \in Conns, op \in ConnOps : Has(op, d)' <=> Has(op, d) \/ Sqe(op, d) \in X
  BY <1>1, MoreRequests
<1>4. \A d \in Conns : (Done(d)' => Done(d)) /\ (Accepted(d)' => Accepted(d))
  BY <1>1 DEF Done, Accepted
<1>5. PairInv'
  <2>1. PairInv
    BY DEF EchoInd
  <2>2. QED
    BY <1>1, <2>1 DEF PairInv, ConnOps
<1>6. SizeInv'
  <2>1. SizeInv
    BY DEF EchoInd
  <2>2. QED
    BY <1>1, <2>1 DEF SizeInv, ConnOps, Has
<1>7. ASSUME NEW d \in Conns, d # c PROVE Good(d)'
  <2>1. Good(d)
    BY DEF EchoInd
  <2>2. Asking(d)'
    BY <1>2, <2>1 DEF Good, Asking
  <2>3. \A op \in ConnOps : Has(op, d)' <=> Has(op, d)
    BY <1>3, <1>7
  <2>4. QED
    BY <1>1, <1>2, <1>4, <1>7, <2>1, <2>2, <2>3, GoodKept
<1>8. QED
  BY <1>5, <1>6, <1>7 DEF EchoInd

\* What Prepare adds, if anything.
LEMMA Prepares ==
  ASSUME IInv, NEW s \in Shards, NEW e \in Seq(SQEs), Prepare(s, e)
  PROVE  \E X \in {{}, Entries(e)} :
           /\ PreparedSet(s)' = PreparedSet(s) \cup X
           /\ \A t \in Shards \ {s} : PreparedSet(t)' = PreparedSet(t)
<1>1. CASE sq' = sq
  BY <1>1 DEF PreparedSet
<1>2. CASE sq' = [sq EXCEPT ![s] = @ \o e]
  BY <1>2, AppendPrepared DEF IInv, Entries
<1>3. QED
  BY <1>1, <1>2 DEF Prepare

LEMMA EchoOnAccepted ==
  ASSUME IInv, OwnInv, EchoInd, NEW s \in Shards, OnAccepted(s), Current(s).ok,
         NEW c \in Conns, Current(s).conn = c
  PROVE  EchoInd'
<1>1. NextCqe(s, "accept") /\ c \in Conns /\ c \in open
  BY CurrentConn DEF OnAccepted
<1>2. Accepted(c) /\ ~Done(c)' /\ ~Accepted(c)'
  BY <1>1, ReadLast
<1>3. PICK e \in Seq(SQEs) :
        /\ e = <<Sqe("send_size", c), AcceptSqe, Sqe("recv_hello", c)>>
        /\ Entries(e) = {Sqe("send_size", c), AcceptSqe, Sqe("recv_hello", c)}
  BY <1>1, AcceptEntries
<1>4. Prepare(s, e)
  BY <1>3 DEF OnAccepted
<1>5. PICK X \in {{}, Entries(e)} :
        /\ PreparedSet(s)' = PreparedSet(s) \cup X
        /\ \A t \in Shards \ {s} : PreparedSet(t)' = PreparedSet(t)
  BY <1>4, Prepares
<1>6. /\ UNCHANGED <<inflight, open, client, up, taken, down, buf, rpos, spos>>
      /\ pc'[c] = "RECEIVED_HEADER" /\ \A d \in Conns \ {c} : pc'[d] = pc[d]
  BY <1>1 DEF OnAccepted, NextCqe, clientVars, kernelVars, IInv, TypeOK
<1>7. /\ Good(c) /\ pc[c] = "none" /\ taken[c] = 0 /\ Len(down[c]) = 0
      /\ \A op \in ConnOps : ~Has(op, c)
  <2>1. Good(c) /\ pc[c] = "none"
    BY <1>1, <1>2 DEF EchoInd, Good, Stream
  <2>2. QED
    BY <1>1, <2>1, Exclusive DEF EchoInd, Good, Stream, ConnOps
<1>8. /\ \A op \in ConnOps : Has(op, c)' => op \in {"send_size", "recv_hello"}
      /\ \A op \in ConnOps, d \in Conns : Sqe(op, d) \in X => d = c
      /\ Sqe("send_size", c) \in X => Sqe("recv_hello", c) \in X
      /\ Sqe("send_msg", c) \notin X
  <2>1. \A op \in ConnOps, d \in Conns :
          Sqe(op, d) \in X => d = c /\ op \in {"send_size", "recv_hello"}
    BY <1>3, <1>5 DEF Sqe, AcceptSqe, ConnOps
  <2>2. \A op \in ConnOps : Has(op, c)' <=> Has(op, c) \/ Sqe(op, c) \in X
    BY <1>1, <1>5, <1>6, MoreRequests
  <2>3. Sqe("send_size", c) \in X => Sqe("recv_hello", c) \in X
    BY <1>3, <1>5
  <2>4. QED
    BY <1>1, <1>7, <2>1, <2>2, <2>3 DEF ConnOps
<1>9. Good(c)'
  <2>1. Asking(c)'
    BY <1>6, <1>7 DEF Good, Asking
  <2>2. Stream(c)'
    BY <1>1, <1>2, <1>6, <1>7, <1>8 DEF Good, Stream, ConnOps, Owed
  <2>3. Buffer(c)'
    BY <1>2, <1>6, <1>7, <1>8 DEF Good, Buffer, ConnOps
  <2>4. QED
    BY <2>1, <2>2, <2>3 DEF Good
<1>10. QED
  BY <1>1, <1>5, <1>6, <1>7, <1>8, <1>9, EchoRead DEF ConnOps

LEMMA EchoOnHeader ==
  ASSUME IInv, OwnInv, EchoInd, NEW s \in Shards, OnHeader(s), Current(s).ok,
         NEW c \in Conns, Current(s).conn = c
  PROVE  EchoInd'
<1>1. NextCqe(s, "thread") /\ c \in Conns /\ c \in open /\ pc[c] = "RECEIVED_HEADER"
  BY CurrentConn DEF OnHeader
<1>2. Done(c) /\ ~Done(c)' /\ ~Accepted(c)'
  BY <1>1, ReadLast
<1>3. PICK e \in Seq(SQEs) : e = <<Sqe("recv_msg", c)>> /\ Entries(e) = {Sqe("recv_msg", c)}
  BY <1>1, HeaderEntries
<1>4. Prepare(s, e)
  BY <1>3 DEF OnHeader
<1>5. PICK X \in {{}, Entries(e)} :
        /\ PreparedSet(s)' = PreparedSet(s) \cup X
        /\ \A t \in Shards \ {s} : PreparedSet(t)' = PreparedSet(t)
  BY <1>4, Prepares
<1>6. /\ UNCHANGED <<inflight, open, client, up, taken, down, buf, rpos, spos>>
      /\ pc'[c] = "RECEIVED_MSG" /\ \A d \in Conns \ {c} : pc'[d] = pc[d]
  BY <1>1 DEF OnHeader, NextCqe, clientVars, kernelVars, IInv, TypeOK
<1>7. /\ Good(c) /\ taken[c] = 1 /\ Sent(c) = 0
      /\ ~Has("recv_hello", c) /\ ~Has("recv_msg", c) /\ ~Has("send_msg", c)
  <2>1. Good(c) /\ taken[c] = 1
    BY <1>1, <1>2 DEF EchoInd, Good, Buffer
  <2>2. Len(down[c]) <= 2 /\ Len(down[c]) # 1
    BY <1>1, <2>1 DEF Good, Stream
  <2>3. Sent(c) = 0
    <3>1. down[c] \in Seq(Nat)
      BY <1>1 DEF IInv, TypeOK, ClientTypeOK
    <3>2. Len(down[c]) \in Nat
      BY <3>1
    <3>3. \A n \in Nat : n <= 2 /\ n # 1 => n = 0 \/ n = 2
      OBVIOUS
    <3>4. Len(down[c]) = 0 \/ Len(down[c]) = 2
      BY <2>2, <3>2, <3>3, Zenon
    <3>5. QED
      BY <3>4 DEF Sent
  <2>4. QED
    BY <1>1, <1>2, <2>1, <2>3, Exclusive DEF EchoInd
<1>8. /\ ~Has("recv_hello", c)' /\ ~Has("send_msg", c)'
      /\ Has("send_size", c)' => Has("send_size", c)
      /\ \A op \in ConnOps, d \in Conns : Sqe(op, d) \in X => d = c /\ op = "recv_msg"
  <2>1. \A op \in ConnOps, d \in Conns : Sqe(op, d) \in X => d = c /\ op = "recv_msg"
    BY <1>3, <1>5 DEF Sqe
  <2>2. \A op \in ConnOps : Has(op, c)' <=> Has(op, c) \/ Sqe(op, c) \in X
    BY <1>1, <1>5, <1>6, MoreRequests
  <2>3. QED
    BY <1>1, <1>7, <2>1, <2>2 DEF ConnOps
<1>9. Good(c)'
  <2>1. Asking(c)'
    BY <1>6, <1>7 DEF Good, Asking
  <2>2. Stream(c)'
    BY <1>1, <1>2, <1>6, <1>7, <1>8 DEF Good, Stream, ConnOps, Owed
  <2>3. rpos[c] = 0 /\ spos[c] = 0
    BY <1>7 DEF Good, Buffer
  <2>4. Sent(c)' = 0
    BY <1>6, <1>7 DEF Sent
  <2>5. Buffer(c)'
    BY <1>2, <1>6, <1>7, <1>8, <2>3, <2>4 DEF Buffer
  <2>6. QED
    BY <2>1, <2>2, <2>5 DEF Good
<1>10. QED
  BY <1>1, <1>5, <1>6, <1>8, <1>9, EchoRead DEF ConnOps

LEMMA EchoOnMsg ==
  ASSUME IInv, OwnInv, EchoInd, NEW s \in Shards, OnMsg(s), Current(s).ok,
         NEW c \in Conns, Current(s).conn = c
  PROVE  EchoInd'
<1>1. NextCqe(s, "thread") /\ c \in Conns /\ c \in open /\ pc[c] = "RECEIVED_MSG"
  BY CurrentConn DEF OnMsg
<1>2. Done(c) /\ ~Done(c)' /\ ~Accepted(c)'
  BY <1>1, ReadLast
<1>3. PICK e \in Seq(SQEs) :
        /\ e = <<Sqe("send_msg", c), Sqe("recv_msg", c)>>
        /\ Entries(e) = {Sqe("send_msg", c), Sqe("recv_msg", c)}
  BY <1>1, MsgEntries
<1>4. Prepare(s, e)
  BY <1>3 DEF OnMsg
<1>5. PICK X \in {{}, Entries(e)} :
        /\ PreparedSet(s)' = PreparedSet(s) \cup X
        /\ \A t \in Shards \ {s} : PreparedSet(t)' = PreparedSet(t)
  BY <1>4, Prepares
<1>6. UNCHANGED <<inflight, open, client, up, taken, down, buf, rpos, spos, pc>>
  BY <1>1 DEF OnMsg, NextCqe, clientVars, kernelVars
<1>7. /\ Good(c) /\ taken[c] = 1 + Sent(c) + MsgUnits
      /\ \A i \in 1..MsgUnits : buf[c][i] = 1 + Sent(c) + i
      /\ ~Has("recv_hello", c) /\ ~Has("recv_msg", c) /\ ~Has("send_msg", c)
      /\ rpos[c] = 0 /\ spos[c] = 0
  <2>1. Good(c)
    BY <1>1 DEF EchoInd
  <2>2. ~Has("recv_hello", c) /\ ~Has("recv_msg", c) /\ ~Has("send_msg", c)
    BY <1>1, <1>2, Exclusive DEF EchoInd
  <2>3. QED
    BY <1>1, <1>2, <2>1, <2>2 DEF Good, Buffer
<1>8. /\ ~Has("recv_hello", c)' /\ (Has("send_msg", c)' <=> Has("recv_msg", c)')
      /\ Has("send_size", c)' => Has("send_size", c)
      /\ \A op \in ConnOps, d \in Conns : Sqe(op, d) \in X => d = c /\ op \in {"send_msg", "recv_msg"}
      /\ Sqe("send_msg", c) \in X => Sqe("recv_msg", c) \in X
  <2>1. /\ \A op \in ConnOps, d \in Conns : Sqe(op, d) \in X => d = c /\ op \in {"send_msg", "recv_msg"}
        /\ Sqe("send_msg", c) \in X <=> Sqe("recv_msg", c) \in X
    BY <1>3, <1>5 DEF Sqe
  <2>2. \A op \in ConnOps : Has(op, c)' <=> Has(op, c) \/ Sqe(op, c) \in X
    BY <1>1, <1>5, <1>6, MoreRequests
  <2>3. QED
    BY <1>1, <1>7, <2>1, <2>2 DEF ConnOps
<1>9. Good(c)'
  <2>1. Asking(c)'
    BY <1>6, <1>7 DEF Good, Asking
  <2>2. Stream(c)'
    BY <1>1, <1>2, <1>6, <1>7, <1>8 DEF Good, Stream, ConnOps, Owed
  <2>3. Sent(c)' = Sent(c)
    BY <1>6 DEF Sent
  <2>4. MsgUnits \in Nat /\ Sent(c) \in Nat
    BY <1>1, ClientAssumption, LenProperties DEF Sent, IInv, TypeOK, ClientTypeOK
  <2>5. Buffer(c)'
    BY <1>2, <1>6, <1>7, <1>8, <2>3, <2>4 DEF Buffer
  <2>6. QED
    BY <2>1, <2>2, <2>5 DEF Good
<1>10. QED
  BY <1>1, <1>5, <1>6, <1>8, <1>9, EchoRead DEF ConnOps

LEMMA EchoHandlers ==
  ASSUME IInv, OwnInv, EchoInd, NEW s \in Shards,
         OnNull(s) \/ OnAccepted(s) \/ OnHeader(s) \/ OnMsg(s)
  PROVE  EchoInd'
<1>1. CASE OnNull(s)
  BY <1>1, EchoSkip DEF OnNull
<1>2. CASE ~OnNull(s) /\ Current(s).ok
  <2>1. Current(s).conn \in Conns
    BY <1>2, CurrentConn DEF OnAccepted, OnHeader, OnMsg
  <2>2. PICK c \in Conns : Current(s).conn = c
    BY <2>1
  <2>3. QED
    BY <1>2, <2>2, EchoOnAccepted, EchoOnHeader, EchoOnMsg
<1>3. CASE ~OnNull(s) /\ ~Current(s).ok
  BY <1>3, EchoSkip DEF OnAccepted, OnHeader, OnMsg
<1>4. QED
  BY <1>1, <1>2, <1>3

-----------------------------------------------------------------------------
\* The kernel's steps.

\* A request that ends is in no other place.
LEMMA Ended ==
  ASSUME IInv, OwnInv, EchoInd, NEW s \in Shards, NEW c \in Conns, NEW op \in ConnOps,
         Sqe(op, c) \in inflight[s], Sqe(op, c) \notin inflight'[s], UNCHANGED sq,
         \A t \in Shards \ {s} : inflight'[t] = inflight[t]
  PROVE  ~Has(op, c)'
<1>1. \A t \in Shards : Sqe(op, c) \notin PreparedSet(t) /\ (Sqe(op, c) \in inflight[t] => t = s)
  BY OnePlace DEF EchoInd, SizeInv, ConnOps
<1>2. \A t \in Shards : PreparedSet(t)' = PreparedSet(t)
  BY DEF PreparedSet
<1>3. QED
  BY <1>1, <1>2 DEF Has

LEMMA Lasting ==
  ASSUME NEW c \in Conns, NEW op, UNCHANGED sq,
         \A t \in Shards : Sqe(op, c) \in inflight'[t] <=> Sqe(op, c) \in inflight[t]
  PROVE  Has(op, c)' <=> Has(op, c)
<1>1. \A t \in Shards : PreparedSet(t)' = PreparedSet(t)
  BY DEF PreparedSet
<1>2. QED
  BY <1>1 DEF Has

\* What the completions e add.
LEMMA Posted ==
  ASSUME TypeOK, NEW s \in Shards, NEW r, NEW e \in Seq(CQEs), Complete(s, r, e), UNCHANGED seen,
         NEW d
  PROVE  /\ Done(d)' => \/ Done(d)
                        \/ \E k \in 1..Len(e) : e[k].data = "thread" /\ e[k].conn = d /\ e[k].ok
         /\ Accepted(d)' => \/ Accepted(d)
                            \/ \E k \in 1..Len(e) : e[k].data = "accept" /\ e[k].conn = d
<1>1. /\ \A t \in Shards \ {s} : cq'[t] = cq[t] /\ UnreadAt(t)' = UnreadAt(t)
      /\ \A i \in UnreadAt(s)' :
           \/ i \in UnreadAt(s) /\ cq'[s][i] = cq[s][i]
           \/ i - Len(cq[s]) \in 1..Len(e) /\ cq'[s][i] = e[i - Len(cq[s])]
  BY AppendUnread
<1>2. ASSUME NEW t \in Shards, NEW i \in UnreadAt(t)'
      PROVE  \/ i \in UnreadAt(t) /\ cq'[t][i] = cq[t][i]
             \/ \E k \in 1..Len(e) : cq'[t][i] = e[k]
  BY <1>1
<1>3. QED
  BY <1>2 DEF Done, Accepted

\* A step of the kernel on a request of threadlet c.
LEMMA EchoStep ==
  ASSUME EchoInd, NEW s \in Shards, NEW c \in Conns,
         UNCHANGED <<sq, pc, open, client, up>>,
         \A t \in Shards \ {s} : inflight'[t] = inflight[t],
         inflight'[s] \subseteq inflight[s],
         \A d \in Conns \ {c} :
           /\ \A op \in ConnOps : Sqe(op, d) \in inflight'[s] <=> Sqe(op, d) \in inflight[s]
           /\ (Done(d)' => Done(d)) /\ (Accepted(d)' => Accepted(d))
           /\ taken'[d] = taken[d] /\ down'[d] = down[d] /\ buf'[d] = buf[d]
           /\ rpos'[d] = rpos[d] /\ spos'[d] = spos[d],
         Sqe("send_msg", c) \in inflight'[s] => Sqe("recv_msg", c) \in inflight'[s],
         Good(c)'
  PROVE  EchoInd'
<1>1. \A t \in Shards : PreparedSet(t)' = PreparedSet(t)
  BY DEF PreparedSet
<1>2. PairInv'
  <2>1. PairInv
    BY DEF EchoInd
  <2>2. QED
    BY <1>1, <2>1 DEF PairInv, ConnOps
<1>3. SizeInv'
  <2>1. SizeInv
    BY DEF EchoInd
  <2>2. QED
    BY <1>1, <2>1 DEF SizeInv, ConnOps
<1>4. ASSUME NEW d \in Conns, d # c PROVE Good(d)'
  <2>1. Good(d)
    BY DEF EchoInd
  <2>2. Asking(d)'
    BY <1>4, <2>1 DEF Good, Asking
  <2>3. \A op \in ConnOps : Has(op, d)' <=> Has(op, d)
    BY <1>4, Lasting
  <2>4. QED
    BY <1>4, <2>1, <2>2, <2>3, GoodKept
<1>5. QED
  BY <1>2, <1>3, <1>4 DEF EchoInd

\* The completions the kernel posts, as lists.
LEMMA OneCqe ==
  ASSUME NEW c \in Conns, NEW ok \in BOOLEAN, NEW data \in {"thread", "null"}
  PROVE  \E e \in Seq(CQEs) : /\ e = <<Cqe(data, c, ok)>>
                              /\ \A k \in 1..Len(e) : e[k] = Cqe(data, c, ok)
<1>1. <<Cqe(data, c, ok)>> \in Seq(CQEs)
  BY DEF CQEs, Cqe
<1>2. \A k \in 1..Len(<<Cqe(data, c, ok)>>) : <<Cqe(data, c, ok)>>[k] = Cqe(data, c, ok)
  OBVIOUS
<1>3. QED
  BY <1>1, <1>2, Zenon

\* The request q of c completes.
LEMMA Completed ==
  ASSUME IInv, OwnInv, EchoInd, NEW s \in Shards, NEW c \in Conns, NEW o \in ConnOps,
         NEW data \in {"thread", "null"}, NEW ok \in BOOLEAN,
         Sqe(o, c) \in inflight[s], Complete(s, {Sqe(o, c)}, <<Cqe(data, c, ok)>>),
         UNCHANGED <<sq, seen>>
  PROVE  /\ \A t \in Shards \ {s} : inflight'[t] = inflight[t]
         /\ inflight'[s] = inflight[s] \ {Sqe(o, c)}
         /\ ~Has(o, c)' /\ \A op \in ConnOps \ {o} : Has(op, c)' <=> Has(op, c)
         /\ Done(c)' => Done(c) \/ (data = "thread" /\ ok)
         /\ Accepted(c)' => Accepted(c)
         /\ \A d \in Conns \ {c} :
              /\ \A op \in ConnOps : Sqe(op, d) \in inflight'[s] <=> Sqe(op, d) \in inflight[s]
              /\ (Done(d)' => Done(d)) /\ (Accepted(d)' => Accepted(d))
<1>0. TypeOK
  BY DEF IInv
<1>1. /\ \A t \in Shards \ {s} : inflight'[t] = inflight[t]
      /\ inflight'[s] = inflight[s] \ {Sqe(o, c)}
  BY <1>0 DEF Complete, TypeOK
<1>2. ~Has(o, c)'
  BY <1>1, Ended
<1>3. \A d \in Conns, op \in ConnOps : d # c \/ op # o => Sqe(op, d) # Sqe(o, c)
  BY DEF Sqe
<1>4. \A op \in ConnOps \ {o} : Has(op, c)' <=> Has(op, c)
  <2>1. ASSUME NEW op \in ConnOps \ {o}
        PROVE  \A t \in Shards : Sqe(op, c) \in inflight'[t] <=> Sqe(op, c) \in inflight[t]
    BY <1>1, <1>3
  <2>2. QED
    BY <2>1, Lasting
<1>5. PICK e \in Seq(CQEs) : /\ e = <<Cqe(data, c, ok)>>
                             /\ \A k \in 1..Len(e) : e[k] = Cqe(data, c, ok)
  BY OneCqe
<1>6. Complete(s, {Sqe(o, c)}, e)
  BY <1>5
<1>7. \A k \in 1..Len(e) : e[k].data = data /\ e[k].conn = c /\ e[k].ok = ok
  BY <1>5 DEF Cqe
<1>8. ASSUME NEW d \in Conns
      PROVE  /\ Done(d)' => Done(d) \/ (d = c /\ data = "thread" /\ ok)
             /\ Accepted(d)' => Accepted(d)
  BY <1>0, <1>6, <1>7, Posted
<1>9. QED
  BY <1>1, <1>2, <1>3, <1>4, <1>8

\* While a recv with the kernel may proceed, its threadlet has no reply to send.
LEMMA NotBlocked ==
  ASSUME IInv, OwnInv, PairInv, NEW s \in Shards, NEW c \in Conns,
         Sqe("recv_msg", c) \in inflight[s], ~Blocked(s, c)
  PROVE  ~Has("send_msg", c)
<1> SUFFICES ASSUME NEW t \in Shards,
                    Sqe("send_msg", c) \in PreparedSet(t) \/ Sqe("send_msg", c) \in inflight[t]
             PROVE  FALSE
  BY DEF Has
<1>1. Sqe("recv_msg", c) \notin PreparedSet(t) /\ (Sqe("recv_msg", c) \in inflight[t] => t = s)
  BY OnePlace
<1>2. QED
  BY <1>1 DEF PairInv, Blocked

LEMMA EchoSendSize ==
  ASSUME IInv, OwnInv, EchoInd, NEW s \in Shards, NEW c \in Conns, KSendSize(s, c)
  PROVE  EchoInd'
<1>1. /\ Sqe("send_size", c) \in inflight[s]
      /\ Complete(s, {Sqe("send_size", c)}, <<Cqe("null", c, TRUE)>>)
      /\ UNCHANGED <<sq, seen, pc, open, client, up, taken, buf, rpos, spos>>
  BY DEF KSendSize, loopVars
<1>2. /\ \A t \in Shards \ {s} : inflight'[t] = inflight[t]
      /\ inflight'[s] = inflight[s] \ {Sqe("send_size", c)}
      /\ ~Has("send_size", c)' /\ \A op \in ConnOps \ {"send_size"} : Has(op, c)' <=> Has(op, c)
      /\ (Done(c)' => Done(c)) /\ (Accepted(c)' => Accepted(c))
      /\ \A d \in Conns \ {c} :
           /\ \A op \in ConnOps : Sqe(op, d) \in inflight'[s] <=> Sqe(op, d) \in inflight[s]
           /\ (Done(d)' => Done(d)) /\ (Accepted(d)' => Accepted(d))
  BY <1>1, Completed DEF ConnOps
<1>3. /\ down[c] \in Seq(Nat) /\ down'[c] = down[c] \o <<0, 0>>
      /\ \A d \in Conns \ {c} : down'[d] = down[d]
  BY DEF KSendSize, Announcement, IInv, TypeOK, ClientTypeOK
<1>4. Good(c) /\ Len(down[c]) = 0 /\ pc[c] # "none"
  <2>1. Has("send_size", c)
    BY <1>1 DEF Has
  <2>2. QED
    BY <2>1 DEF EchoInd, Good, Stream
<1>5. Len(down'[c]) = 2 /\ \A i \in 1..2 : down'[c][i] = 0
  BY <1>3, <1>4
<1>6. Sent(c) = 0 /\ Sent(c)' = 0
  BY <1>4, <1>5 DEF Sent
<1>7. Good(c)'
  <2>1. Asking(c)'
    BY <1>1, <1>4, <1>5 DEF Good, Asking
  <2>2. Stream(c)'
    BY <1>1, <1>2, <1>4, <1>5 DEF Good, Stream, ConnOps, Owed
  <2>3. Buffer(c)'
    BY <1>1, <1>2, <1>4, <1>6 DEF Good, Buffer, ConnOps
  <2>4. QED
    BY <2>1, <2>2, <2>3 DEF Good
<1>8. Sqe("send_msg", c) \in inflight'[s] => Sqe("recv_msg", c) \in inflight'[s]
  BY <1>2 DEF EchoInd, PairInv, Sqe
<1>9. QED
  BY <1>1, <1>2, <1>3, <1>7, <1>8, EchoStep

LEMMA EchoSendSizeFail ==
  ASSUME IInv, OwnInv, EchoInd, NEW s \in Shards, NEW c \in Conns, KSendSizeFail(s, c)
  PROVE  EchoInd'
<1>1. /\ Sqe("send_size", c) \in inflight[s]
      /\ Complete(s, {Sqe("send_size", c)}, <<Cqe("null", c, FALSE)>>)
      /\ UNCHANGED <<sq, seen, pc, open, client, up, taken, down, buf, rpos, spos>>
  BY DEF KSendSizeFail, loopVars, clientVars
<1>2. /\ \A t \in Shards \ {s} : inflight'[t] = inflight[t]
      /\ inflight'[s] = inflight[s] \ {Sqe("send_size", c)}
      /\ ~Has("send_size", c)' /\ \A op \in ConnOps \ {"send_size"} : Has(op, c)' <=> Has(op, c)
      /\ (Done(c)' => Done(c)) /\ (Accepted(c)' => Accepted(c))
      /\ \A d \in Conns \ {c} :
           /\ \A op \in ConnOps : Sqe(op, d) \in inflight'[s] <=> Sqe(op, d) \in inflight[s]
           /\ (Done(d)' => Done(d)) /\ (Accepted(d)' => Accepted(d))
  BY <1>1, Completed DEF ConnOps
<1>3. Good(c)'
  <2>1. Good(c)
    BY DEF EchoInd
  <2>2. Asking(c)'
    BY <1>1, <2>1 DEF Good, Asking
  <2>3. Stream(c)'
    BY <1>1, <1>2, <2>1 DEF Good, Stream, ConnOps, Owed
  <2>4. Sent(c)' = Sent(c)
    BY <1>1 DEF Sent
  <2>5. Buffer(c)'
    BY <1>1, <1>2, <2>1, <2>4 DEF Good, Buffer, ConnOps
  <2>6. QED
    BY <2>2, <2>3, <2>5 DEF Good
<1>4. Sqe("send_msg", c) \in inflight'[s] => Sqe("recv_msg", c) \in inflight'[s]
  BY <1>2 DEF EchoInd, PairInv, Sqe
<1>5. QED
  BY <1>1, <1>2, <1>3, <1>4, EchoStep

LEMMA EchoRecvHello ==
  ASSUME IInv, OwnInv, EchoInd, NEW s \in Shards, NEW c \in Conns, KRecvHello(s, c)
  PROVE  EchoInd'
<1>1. /\ Sqe("recv_hello", c) \in inflight[s]
      /\ Complete(s, {Sqe("recv_hello", c)}, <<Cqe("thread", c, TRUE)>>)
      /\ UNCHANGED <<sq, seen, pc, open, client, up, down, buf, rpos, spos>>
  BY DEF KRecvHello, loopVars
<1>2. /\ \A t \in Shards \ {s} : inflight'[t] = inflight[t]
      /\ inflight'[s] = inflight[s] \ {Sqe("recv_hello", c)}
      /\ ~Has("recv_hello", c)' /\ \A op \in ConnOps \ {"recv_hello"} : Has(op, c)' <=> Has(op, c)
      /\ Accepted(c)' => Accepted(c)
      /\ \A d \in Conns \ {c} :
           /\ \A op \in ConnOps : Sqe(op, d) \in inflight'[s] <=> Sqe(op, d) \in inflight[s]
           /\ (Done(d)' => Done(d)) /\ (Accepted(d)' => Accepted(d))
  BY <1>1, Completed DEF ConnOps
<1>3. Has("recv_hello", c)
  BY <1>1 DEF Has
<1>4. /\ Good(c) /\ pc[c] = "RECEIVED_HEADER" /\ taken[c] = 0 /\ ~Accepted(c)
      /\ ~Has("recv_msg", c) /\ ~Has("send_msg", c)
  BY <1>3, Exclusive DEF EchoInd, Good, Stream
<1>5. taken'[c] = 1 /\ 1 <= up[c] /\ \A d \in Conns \ {c} : taken'[d] = taken[d]
  BY <1>4 DEF KRecvHello, HelloUnits, IInv, TypeOK, ClientTypeOK
<1>6. Good(c)'
  <2>1. Asking(c)'
    BY <1>1, <1>4, <1>5 DEF Good, Asking
  <2>2. Stream(c)'
    BY <1>1, <1>2, <1>4, <1>5 DEF Good, Stream, ConnOps, Owed
  <2>3. Buffer(c)'
    BY <1>1, <1>2, <1>4, <1>5 DEF Good, Buffer, ConnOps
  <2>4. QED
    BY <2>1, <2>2, <2>3 DEF Good
<1>7. Sqe("send_msg", c) \in inflight'[s] => Sqe("recv_msg", c) \in inflight'[s]
  BY <1>2 DEF EchoInd, PairInv, Sqe
<1>8. QED
  BY <1>1, <1>2, <1>5, <1>6, <1>7, EchoStep

\* What a recv and a reply under way know of their threadlet.
LEMMA Underway ==
  ASSUME IInv, OwnInv, EchoInd, NEW c \in Conns, Has("recv_msg", c)
  PROVE  /\ Good(c) /\ pc[c] = "RECEIVED_MSG" /\ ~Has("recv_hello", c)
         /\ ~Done(c) /\ ~Accepted(c)
         /\ down[c] \in Seq(Nat) /\ Len(down[c]) \in Nat /\ Sent(c) \in Nat
         /\ MsgUnits \in Nat \ {0} /\ taken[c] \in Nat /\ up[c] \in Nat
         /\ rpos[c] \in 0..(MsgUnits - 1) /\ spos[c] \in 0..(MsgUnits - 1)
         /\ buf[c] \in [1..MsgUnits -> Nat]
<1>1. /\ down[c] \in Seq(Nat) /\ MsgUnits \in Nat \ {0} /\ taken[c] \in Nat /\ up[c] \in Nat
      /\ rpos[c] \in 0..(MsgUnits - 1) /\ spos[c] \in 0..(MsgUnits - 1)
      /\ buf[c] \in [1..MsgUnits -> Nat]
  BY ClientAssumption DEF IInv, TypeOK, ClientTypeOK, Buffers
<1>2. Len(down[c]) \in Nat
  BY <1>1
<1>3. Sent(c) \in Nat
  BY <1>2 DEF Sent
<1>4. Good(c) /\ pc[c] = "RECEIVED_MSG"
  BY DEF EchoInd, Good, Stream
<1>5. ~Has("recv_hello", c) /\ ~Done(c) /\ ~Accepted(c)
  BY Exclusive DEF EchoInd
<1>6. QED
  BY <1>1, <1>2, <1>3, <1>4, <1>5

LEMMA EchoSendMsg ==
  ASSUME IInv, OwnInv, EchoInd, NEW s \in Shards, NEW c \in Conns, KSendMsg(s, c)
  PROVE  EchoInd'
<1>1. /\ Sqe("send_msg", c) \in inflight[s] /\ Sqe("recv_msg", c) \in inflight[s]
      /\ UNCHANGED <<sq, seen, pc, open, client, up, taken, buf, rpos>>
      /\ Has("send_msg", c) /\ Has("recv_msg", c)
  BY DEF KSendMsg, loopVars, EchoInd, PairInv, Has
<1>2. /\ Good(c) /\ pc[c] = "RECEIVED_MSG" /\ ~Has("recv_hello", c) /\ ~Done(c) /\ ~Accepted(c)
      /\ down[c] \in Seq(Nat) /\ Len(down[c]) \in Nat /\ Sent(c) \in Nat
      /\ MsgUnits \in Nat \ {0} /\ spos[c] \in 0..(MsgUnits - 1)
      /\ taken[c] \in Nat /\ up[c] \in Nat /\ buf[c] \in [1..MsgUnits -> Nat]
  BY <1>1, Underway
<1>3. /\ rpos[c] = 0 /\ taken[c] = 1 + Sent(c) + MsgUnits - spos[c]
      /\ \A i \in 1..(MsgUnits - spos[c]) : buf[c][spos[c] + i] = 1 + Sent(c) + i
  BY <1>1, <1>2 DEF Good, Buffer
\* The client was told the size before it sent what is sent back.
<1>4. Len(down[c]) >= 2 /\ Sent(c) = Len(down[c]) - 2 /\ ~Has("send_size", c)
  <2>1. up[c] > 1
    BY <1>2, <1>3 DEF Good, Asking
  <2>2. Len(down[c]) >= 2
    BY <1>2, <2>1 DEF Good, Asking
  <2>3. ~Has("send_size", c)
    BY <1>2, <2>2 DEF Good, Stream
  <2>4. QED
    BY <2>2, <2>3 DEF Sent
<1>5. /\ down'[c] = Append(down[c], buf[c][spos[c] + 1])
      /\ \A d \in Conns \ {c} : down'[d] = down[d]
  BY DEF KSendMsg, IInv, TypeOK, ClientTypeOK
<1>6. /\ spos[c] + 1 \in 1..MsgUnits
      /\ buf[c][spos[c] + 1] = Owed(Len(down[c]) + 1) /\ buf[c][spos[c] + 1] \in Nat
  <2>1. 1 \in 1..(MsgUnits - spos[c]) /\ spos[c] + 1 \in 1..MsgUnits
    BY <1>2
  <2>2. buf[c][spos[c] + 1] = 1 + Sent(c) + 1
    BY <1>3, <2>1
  <2>3. QED
    BY <1>2, <1>4, <2>1, <2>2 DEF Owed
<1>7. /\ Len(down'[c]) = Len(down[c]) + 1
      /\ \A i \in 1..Len(down'[c]) : down'[c][i] = Owed(i)
  <2>1. /\ Len(down'[c]) = Len(down[c]) + 1
        /\ \A i \in 1..Len(down[c]) : down'[c][i] = down[c][i]
        /\ down'[c][Len(down[c]) + 1] = Owed(Len(down[c]) + 1)
    BY <1>2, <1>5, <1>6, AppendProperties
  <2>2. \A i \in 1..Len(down[c]) : down'[c][i] = Owed(i)
    BY <1>2, <2>1 DEF Good, Stream
  <2>3. ASSUME NEW i \in 1..Len(down'[c]) PROVE i \in 1..Len(down[c]) \/ i = Len(down[c]) + 1
    BY <1>2, <2>1
  <2>4. QED
    BY <2>1, <2>2, <2>3
<1>8. Sent(c)' = Sent(c) + 1
  BY <1>2, <1>4, <1>7 DEF Sent
<1>9. Asking(c)'
  BY <1>1, <1>2, <1>4, <1>7 DEF Good, Asking
<1>10. CASE spos[c] + 1 = MsgUnits
  <2>1. /\ Complete(s, {Sqe("send_msg", c)}, <<Cqe("null", c, TRUE)>>)
        /\ spos'[c] = 0 /\ \A d \in Conns \ {c} : spos'[d] = spos[d]
    BY <1>10 DEF KSendMsg, IInv, TypeOK
  <2>2. /\ \A t \in Shards \ {s} : inflight'[t] = inflight[t]
        /\ inflight'[s] = inflight[s] \ {Sqe("send_msg", c)}
        /\ ~Has("send_msg", c)' /\ \A op \in ConnOps \ {"send_msg"} : Has(op, c)' <=> Has(op, c)
        /\ (Done(c)' => Done(c)) /\ (Accepted(c)' => Accepted(c))
        /\ \A d \in Conns \ {c} :
             /\ \A op \in ConnOps : Sqe(op, d) \in inflight'[s] <=> Sqe(op, d) \in inflight[s]
             /\ (Done(d)' => Done(d)) /\ (Accepted(d)' => Accepted(d))
    BY <1>1, <2>1, Completed DEF ConnOps
  <2>3. Stream(c)'
    BY <1>1, <1>2, <1>4, <1>7, <2>2 DEF Good, Stream, ConnOps
  <2>4. taken'[c] = 1 + Sent(c)' + rpos'[c]
    BY <1>1, <1>2, <1>3, <1>8, <1>10
  <2>5. Buffer(c)'
    BY <1>1, <1>2, <1>3, <2>1, <2>2, <2>4 DEF Buffer, ConnOps
  <2>6. QED
    BY <1>1, <1>5, <1>9, <2>1, <2>2, <2>3, <2>5, EchoStep DEF Good
<1>11. CASE spos[c] + 1 # MsgUnits
  <2>1. /\ UNCHANGED <<inflight, cq>>
        /\ spos'[c] = spos[c] + 1 /\ \A d \in Conns \ {c} : spos'[d] = spos[d]
    BY <1>11 DEF KSendMsg, IInv, TypeOK
  <2>2. /\ \A op \in ConnOps, d \in Conns : Has(op, d)' <=> Has(op, d)
        /\ \A d \in Conns : (Done(d)' <=> Done(d)) /\ (Accepted(d)' <=> Accepted(d))
    BY <1>1, <2>1 DEF Has, PreparedSet, Done, Accepted, UnreadAt
  <2>3. Stream(c)'
    BY <1>1, <1>2, <1>4, <1>7, <2>2 DEF Good, Stream, ConnOps
  <2>4. taken'[c] = 1 + Sent(c)' + MsgUnits - spos'[c]
    <3>1. taken'[c] = taken[c] /\ taken[c] = 1 + Sent(c) + MsgUnits - spos[c]
      BY <1>1, <1>3
    <3>2. MsgUnits \in Nat /\ Sent(c) \in Nat /\ spos[c] \in Nat
      BY <1>2
    <3>3. spos'[c] = spos[c] + 1
      BY <2>1
    <3>4. QED
      BY <1>8, <3>1, <3>2, <3>3
  <2>5. \A i \in 1..(MsgUnits - spos'[c]) : buf'[c][spos'[c] + i] = 1 + Sent(c)' + i
    <3>1. ASSUME NEW i \in 1..(MsgUnits - (spos[c] + 1))
          PROVE  buf[c][spos[c] + 1 + i] = 1 + (Sent(c) + 1) + i
      <4>1. MsgUnits \in Nat /\ spos[c] \in Nat /\ Sent(c) \in Nat /\ i \in Nat
        BY <1>2
      <4>2. i + 1 \in 1..(MsgUnits - spos[c]) /\ spos[c] + (i + 1) = spos[c] + 1 + i
        BY <4>1
      <4>3. buf[c][spos[c] + 1 + i] = 1 + Sent(c) + (i + 1)
        BY <1>3, <4>2
      <4>4. QED
        BY <4>1, <4>3
    <3>2. QED
      BY <1>1, <1>8, <2>1, <3>1
  <2>6. Buffer(c)'
    BY <1>1, <1>2, <1>3, <2>2, <2>4, <2>5 DEF Buffer, ConnOps
  <2>7. QED
    BY <1>1, <1>5, <1>9, <2>1, <2>2, <2>3, <2>6, EchoStep DEF Good
<1>12. QED
  BY <1>10, <1>11

LEMMA EchoRecvMsg ==
  ASSUME IInv, OwnInv, EchoInd, NEW s \in Shards, NEW c \in Conns, KRecvMsg(s, c)
  PROVE  EchoInd'
<1>1. /\ Sqe("recv_msg", c) \in inflight[s] /\ ~Blocked(s, c)
      /\ UNCHANGED <<sq, seen, pc, open, client, up, down, spos>>
      /\ Has("recv_msg", c)
  BY DEF KRecvMsg, loopVars, Has
<1>2. /\ Good(c) /\ pc[c] = "RECEIVED_MSG" /\ ~Has("recv_hello", c) /\ ~Done(c) /\ ~Accepted(c)
      /\ Sent(c) \in Nat /\ MsgUnits \in Nat \ {0} /\ rpos[c] \in 0..(MsgUnits - 1)
      /\ taken[c] \in Nat /\ up[c] \in Nat /\ buf[c] \in [1..MsgUnits -> Nat]
  BY <1>1, Underway
<1>3. ~Has("send_msg", c)
  BY <1>1, NotBlocked DEF EchoInd
<1>4. /\ spos[c] = 0 /\ taken[c] = 1 + Sent(c) + rpos[c]
      /\ \A i \in 1..rpos[c] : buf[c][i] = 1 + Sent(c) + i
  BY <1>1, <1>2, <1>3 DEF Good, Buffer
<1>5. /\ taken[c] < up[c] /\ taken'[c] = taken[c] + 1
      /\ buf'[c] = [buf[c] EXCEPT ![rpos[c] + 1] = taken[c] + 1]
      /\ \A d \in Conns \ {c} : taken'[d] = taken[d] /\ buf'[d] = buf[d]
  BY DEF KRecvMsg, IInv, TypeOK, ClientTypeOK
<1>6. Sent(c)' = Sent(c)
  BY <1>1 DEF Sent
<1>7. \A i \in 1..(rpos[c] + 1) : buf'[c][i] = 1 + Sent(c) + i
  <2>1. ASSUME NEW i \in 1..(rpos[c] + 1) PROVE buf'[c][i] = 1 + Sent(c) + i
    <3>1. i \in 1..MsgUnits /\ (i = rpos[c] + 1 \/ i \in 1..rpos[c])
      BY <1>2
    <3>2. CASE i = rpos[c] + 1
      BY <1>2, <1>4, <1>5, <3>1, <3>2
    <3>3. CASE i \in 1..rpos[c]
      <4>1. i # rpos[c] + 1
        BY <1>2, <3>3
      <4>2. buf'[c][i] = buf[c][i]
        BY <1>2, <1>5, <3>1, <4>1
      <4>3. QED
        BY <1>4, <3>3, <4>2
    <3>4. QED
      BY <3>1, <3>2, <3>3
  <2>2. QED
    BY <2>1
<1>8. Asking(c)'
  BY <1>1, <1>2, <1>5 DEF Good, Asking
<1>9. CASE rpos[c] + 1 = MsgUnits
  <2>1. /\ Complete(s, {Sqe("recv_msg", c)}, <<Cqe("thread", c, TRUE)>>)
        /\ rpos'[c] = 0 /\ \A d \in Conns \ {c} : rpos'[d] = rpos[d]
    BY <1>9 DEF KRecvMsg, IInv, TypeOK
  <2>2. /\ \A t \in Shards \ {s} : inflight'[t] = inflight[t]
        /\ inflight'[s] = inflight[s] \ {Sqe("recv_msg", c)}
        /\ ~Has("recv_msg", c)' /\ \A op \in ConnOps \ {"recv_msg"} : Has(op, c)' <=> Has(op, c)
        /\ Accepted(c)' => Accepted(c)
        /\ \A d \in Conns \ {c} :
             /\ \A op \in ConnOps : Sqe(op, d) \in inflight'[s] <=> Sqe(op, d) \in inflight[s]
             /\ (Done(d)' => Done(d)) /\ (Accepted(d)' => Accepted(d))
    BY <1>1, <2>1, Completed DEF ConnOps
  <2>3. Stream(c)'
    BY <1>1, <1>2, <2>2 DEF Good, Stream, ConnOps, Owed
  <2>4. /\ taken'[c] = 1 + Sent(c)' + MsgUnits
        /\ \A i \in 1..MsgUnits : buf'[c][i] = 1 + Sent(c)' + i
    <3>1. taken'[c] = taken[c] + 1 /\ taken[c] = 1 + Sent(c) + rpos[c]
      BY <1>4, <1>5
    <3>2. MsgUnits \in Nat /\ Sent(c) \in Nat /\ rpos[c] \in Nat
      BY <1>2
    <3>3. taken'[c] = 1 + Sent(c)' + MsgUnits
      BY <1>6, <1>9, <3>1, <3>2
    <3>4. QED
      BY <1>6, <1>7, <1>9, <3>3
  <2>5. Buffer(c)'
    BY <1>1, <1>2, <1>3, <1>4, <2>1, <2>2, <2>4 DEF Buffer, ConnOps
  <2>6. Sqe("send_msg", c) \notin inflight'[s]
    BY <1>1, <2>2 DEF Blocked
  <2>7. QED
    BY <1>1, <1>5, <1>8, <2>1, <2>2, <2>3, <2>5, <2>6, EchoStep DEF Good
<1>10. CASE rpos[c] + 1 # MsgUnits
  <2>1. /\ UNCHANGED <<inflight, cq>>
        /\ rpos'[c] = rpos[c] + 1 /\ \A d \in Conns \ {c} : rpos'[d] = rpos[d]
    BY <1>10 DEF KRecvMsg, IInv, TypeOK
  <2>2. /\ \A op \in ConnOps, d \in Conns : Has(op, d)' <=> Has(op, d)
        /\ \A d \in Conns : (Done(d)' <=> Done(d)) /\ (Accepted(d)' <=> Accepted(d))
    BY <1>1, <2>1 DEF Has, PreparedSet, Done, Accepted, UnreadAt
  <2>3. Stream(c)'
    BY <1>1, <1>2, <2>2, <1>5 DEF Good, Stream, ConnOps, Owed
  <2>4. /\ taken'[c] = 1 + Sent(c)' + rpos'[c]
        /\ \A i \in 1..rpos'[c] : buf'[c][i] = 1 + Sent(c)' + i
    BY <1>2, <1>4, <1>5, <1>6, <1>7, <2>1
  <2>5. Buffer(c)'
    BY <1>1, <1>2, <1>3, <1>4, <2>1, <2>2, <2>4 DEF Buffer, ConnOps
  <2>6. Sqe("send_msg", c) \notin inflight'[s]
    BY <1>1, <2>1 DEF Blocked
  <2>7. QED
    BY <1>1, <1>5, <1>8, <2>1, <2>2, <2>3, <2>5, <2>6, EchoStep DEF Good
<1>11. QED
  BY <1>9, <1>10

LEMMA EchoRecvShort ==
  ASSUME IInv, OwnInv, EchoInd, NEW s \in Shards, NEW c \in Conns, KRecvShort(s, c)
  PROVE  EchoInd'
<1>1. PICK o \in {"recv_hello", "recv_msg"} :
        Sqe(o, c) \in inflight[s] /\ Complete(s, {Sqe(o, c)}, <<Cqe("thread", c, FALSE)>>)
  BY DEF KRecvShort
<1>2. /\ ~Blocked(s, c)
      /\ UNCHANGED <<sq, seen, pc, open, client, up, taken, down, buf, spos>>
      /\ rpos'[c] = 0 /\ \A d \in Conns \ {c} : rpos'[d] = rpos[d]
  BY DEF KRecvShort, loopVars, clientVars, IInv, TypeOK
<1>3. /\ \A t \in Shards \ {s} : inflight'[t] = inflight[t]
      /\ inflight'[s] = inflight[s] \ {Sqe(o, c)}
      /\ ~Has(o, c)' /\ \A op \in ConnOps \ {o} : Has(op, c)' <=> Has(op, c)
      /\ (Done(c)' => Done(c)) /\ (Accepted(c)' => Accepted(c))
      /\ \A d \in Conns \ {c} :
           /\ \A op \in ConnOps : Sqe(op, d) \in inflight'[s] <=> Sqe(op, d) \in inflight[s]
           /\ (Done(d)' => Done(d)) /\ (Accepted(d)' => Accepted(d))
  <2>1. o \in ConnOps
    BY DEF ConnOps
  <2>2. QED
    BY <1>1, <1>2, <2>1, Completed
<1>4. Has(o, c)
  BY <1>1 DEF Has
\* The threadlet is left with neither a request nor a result.
<1>5. /\ Good(c) /\ ~Done(c) /\ ~Accepted(c)
      /\ ~Has("recv_hello", c)' /\ ~Has("recv_msg", c)' /\ ~Has("send_msg", c)
  <2>1. Good(c)
    BY DEF EchoInd
  <2>2. CASE o = "recv_hello"
    BY <1>3, <1>4, <2>1, <2>2, Exclusive DEF EchoInd, ConnOps
  <2>3. CASE o = "recv_msg"
    <3>1. ~Has("send_msg", c)
      BY <1>1, <1>2, <2>3, NotBlocked DEF EchoInd
    <3>2. ~Has("recv_hello", c) /\ ~Done(c) /\ ~Accepted(c)
      BY <1>4, <2>3, Exclusive DEF EchoInd
    <3>3. QED
      BY <1>3, <2>1, <2>3, <3>1, <3>2 DEF ConnOps
  <2>4. QED
    BY <2>2, <2>3
<1>6. Good(c)'
  <2>1. Asking(c)'
    BY <1>2, <1>5 DEF Good, Asking
  <2>2. Has("send_size", c)' => Has("send_size", c)
    BY <1>1, <1>3 DEF ConnOps
  <2>3. ~Has("send_msg", c)'
    BY <1>1, <1>3, <1>5 DEF ConnOps
  <2>4. Stream(c)'
    BY <1>2, <1>3, <1>5, <2>2 DEF Good, Stream, Owed
  <2>5. Buffer(c)'
    BY <1>2, <1>3, <1>5, <2>3 DEF Good, Buffer
  <2>6. QED
    BY <2>1, <2>4, <2>5 DEF Good
<1>7. Sqe("send_msg", c) \notin inflight'[s]
  BY <1>2, <1>3 DEF Blocked
<1>8. QED
  BY <1>1, <1>2, <1>3, <1>6, <1>7, EchoStep

LEMMA EchoSendMsgFail ==
  ASSUME IInv, OwnInv, EchoInd, NEW s \in Shards, NEW c \in Conns, KSendMsgFail(s, c)
  PROVE  EchoInd'
<1>0. TypeOK
  BY DEF IInv
<1>1. Sqe("send_msg", c) \in inflight[s] /\ Sqe("recv_msg", c) \in inflight[s]
  BY DEF KSendMsgFail, EchoInd, PairInv
<1>2. /\ UNCHANGED <<sq, seen, pc, open, client, up, taken, down, buf, rpos>>
      /\ spos'[c] = 0 /\ \A d \in Conns \ {c} : spos'[d] = spos[d]
      /\ Has("send_msg", c) /\ Has("recv_msg", c)
  BY <1>1 DEF KSendMsgFail, loopVars, clientVars, IInv, TypeOK, Has
<1>3. Complete(s, {Sqe("send_msg", c), Sqe("recv_msg", c)},
               <<Cqe("null", c, FALSE), Cqe("thread", c, FALSE)>>)
  BY <1>1 DEF KSendMsgFail
<1>4. PICK e \in Seq(CQEs) :
        /\ e = <<Cqe("null", c, FALSE), Cqe("thread", c, FALSE)>>
        /\ \A k \in 1..Len(e) : e[k].data \in {"null", "thread"} /\ e[k].conn = c /\ ~e[k].ok
  <2> DEFINE f == <<Cqe("null", c, FALSE), Cqe("thread", c, FALSE)>>
  <2>1. f \in Seq(CQEs)
    BY PostedTypes
  <2>2. Len(f) = 2 /\ f[1] = Cqe("null", c, FALSE) /\ f[2] = Cqe("thread", c, FALSE)
    OBVIOUS
  <2>3. \A k \in 1..Len(f) : f[k].data \in {"null", "thread"} /\ f[k].conn = c /\ ~f[k].ok
    BY <2>2 DEF Cqe
  <2>4. QED
    BY <2>1, <2>3, Zenon
<1>5. \A d \in Conns : (Done(d)' => Done(d)) /\ (Accepted(d)' => Accepted(d))
  <2>1. Complete(s, {Sqe("send_msg", c), Sqe("recv_msg", c)}, e)
    BY <1>3, <1>4
  <2>2. \A k \in 1..Len(e) : e[k].data # "accept" /\ ~e[k].ok
    BY <1>4
  <2>3. QED
    BY <1>0, <1>2, <2>1, <2>2, Posted
<1>6. /\ \A t \in Shards \ {s} : inflight'[t] = inflight[t]
      /\ inflight'[s] = inflight[s] \ {Sqe("send_msg", c), Sqe("recv_msg", c)}
  BY <1>0, <1>3 DEF Complete, TypeOK
<1>7. \A d \in Conns, op \in ConnOps :
        Sqe(op, d) \in {Sqe("send_msg", c), Sqe("recv_msg", c)}
          <=> d = c /\ op \in {"send_msg", "recv_msg"}
  BY DEF Sqe
<1>8. ~Has("send_msg", c)' /\ ~Has("recv_msg", c)'
  BY <1>1, <1>2, <1>6, Ended DEF ConnOps
<1>9. \A op \in {"send_size", "recv_hello"} : Has(op, c)' <=> Has(op, c)
  <2>1. ASSUME NEW op \in {"send_size", "recv_hello"}
        PROVE  \A t \in Shards : Sqe(op, c) \in inflight'[t] <=> Sqe(op, c) \in inflight[t]
    BY <1>6, <1>7 DEF ConnOps
  <2>2. QED
    BY <1>2, <2>1, Lasting
<1>10. Good(c) /\ ~Done(c) /\ rpos[c] = 0
  <2>1. Good(c) /\ ~Done(c)
    BY <1>2, Underway
  <2>2. QED
    BY <1>2, <2>1 DEF Good, Buffer
<1>11. Good(c)'
  <2>1. Asking(c)'
    BY <1>2, <1>10 DEF Good, Asking
  <2>2. Stream(c)'
    BY <1>2, <1>5, <1>8, <1>9, <1>10 DEF Good, Stream, Owed
  <2>3. Buffer(c)'
    BY <1>2, <1>5, <1>8, <1>10 DEF Buffer
  <2>4. QED
    BY <2>1, <2>2, <2>3 DEF Good
<1>12. \A d \in Conns \ {c}, op \in ConnOps : Sqe(op, d) \in inflight'[s] <=> Sqe(op, d) \in inflight[s]
  BY <1>6, <1>7
<1>13. Sqe("send_msg", c) \notin inflight'[s]
  BY <1>6
<1>14. QED
  BY <1>2, <1>5, <1>6, <1>11, <1>12, <1>13, EchoStep

LEMMA EchoKernel ==
  ASSUME IInv, OwnInv, EchoInd, NEW s \in Shards, NEW c \in Conns,
         KernelStep(s, c) \/ KernelFailure(s, c)
  PROVE  EchoInd'
  BY EchoSendSize, EchoSendMsg, EchoRecvHello, EchoRecvMsg, EchoRecvShort, EchoSendSizeFail,
     EchoSendMsgFail DEF KernelStep, KernelFailure

\* An accept completes for d, which no threadlet was, or for none.
LEMMA EchoAccept ==
  ASSUME IInv, EchoInd, NEW s \in Shards, KAccept(s) \/ KAcceptFail(s)
  PROVE  EchoInd'
<1>0. TypeOK
  BY DEF IInv
<1>1. /\ UNCHANGED <<sq, seen, pc, client, up, taken, down, buf, rpos, spos>>
      /\ open \subseteq open'
  BY DEF KAccept, KAcceptFail, loopVars, clientVars
<1>2. PICK x \in CQEs :
        /\ Complete(s, {AcceptSqe}, <<x>>) /\ x.data = "accept"
        /\ x.conn \notin open
  <2>1. CASE KAccept(s)
    <3>1. PICK d \in queue[s] : Complete(s, {AcceptSqe}, <<Cqe("accept", d, TRUE)>>)
      BY <2>1 DEF KAccept
    <3>2. d \in Conns \ open
      BY <1>0 DEF IInv, QueueInv, TypeOK
    <3>3. Cqe("accept", d, TRUE) \in CQEs /\ Cqe("accept", d, TRUE).data = "accept"
          /\ Cqe("accept", d, TRUE).conn = d
      BY <3>2 DEF CQEs, Cqe
    <3>4. QED
      BY <3>1, <3>2, <3>3
  <2>2. CASE KAcceptFail(s)
    <3>1. /\ Cqe("accept", NoConn, FALSE) \in CQEs
          /\ Cqe("accept", NoConn, FALSE).data = "accept"
          /\ Cqe("accept", NoConn, FALSE).conn = NoConn
      BY DEF CQEs, Cqe
    <3>2. NoConn \notin open
      BY <1>0, ShardAssumption DEF TypeOK
    <3>3. QED
      BY <2>2, <3>1, <3>2 DEF KAcceptFail
  <2>3. QED
    BY <2>1, <2>2
<1>3. PICK e \in Seq(CQEs) : e = <<x>> /\ \A k \in 1..Len(e) : e[k] = x
  <2>1. <<x>> \in Seq(CQEs) /\ \A k \in 1..Len(<<x>>) : <<x>>[k] = x
    OBVIOUS
  <2>2. QED
    BY <2>1, Zenon
<1>4. \A d \in Conns : (Done(d)' => Done(d)) /\ (Accepted(d)' => Accepted(d) \/ d \notin open)
  <2>1. Complete(s, {AcceptSqe}, e)
    BY <1>2, <1>3
  <2>2. \A k \in 1..Len(e) : e[k].data = "accept" /\ e[k].conn \notin open
    BY <1>2, <1>3
  <2>3. QED
    BY <1>0, <1>1, <2>1, <2>2, Posted
<1>5. \A t \in Shards : inflight'[t] = inflight[t] \ {AcceptSqe} \/ inflight'[t] = inflight[t]
  BY <1>0, <1>2 DEF Complete, TypeOK
<1>6. /\ PairInv' /\ SizeInv'
      /\ \A c \in Conns, op \in ConnOps : Has(op, c)' <=> Has(op, c)
  <2>1. \A c \in Conns, op \in ConnOps : Sqe(op, c) # AcceptSqe
    BY DEF Sqe, AcceptSqe, ConnOps
  <2>2. \A t \in Shards : PreparedSet(t)' = PreparedSet(t)
    BY <1>1 DEF PreparedSet
  <2>3. \A t \in Shards, c \in Conns, op \in ConnOps :
          Sqe(op, c) \in inflight'[t] <=> Sqe(op, c) \in inflight[t]
    BY <1>5, <2>1
  <2>4. QED
    BY <2>2, <2>3, SameRequests DEF EchoInd
<1>7. ASSUME NEW c \in Conns PROVE Good(c)'
  <2>1. Good(c)
    BY DEF EchoInd
  <2>2. Asking(c)'
    BY <1>1, <2>1 DEF Good, Asking
  <2>3. Stream(c)'
    BY <1>1, <1>4, <1>6, <2>1 DEF Good, Stream, ConnOps, Owed
  <2>4. Sent(c)' = Sent(c)
    BY <1>1 DEF Sent
  <2>5. Buffer(c)'
    BY <1>1, <1>4, <1>6, <2>1, <2>4 DEF Good, Buffer, ConnOps
  <2>6. QED
    BY <2>2, <2>3, <2>5 DEF Good
<1>8. QED
  BY <1>6, <1>7 DEF EchoInd

LEMMA EchoClient ==
  ASSUME IInv, EchoInd, NEW c \in Conns, Connect(c) \/ Talk(c) \/ Leave(c)
  PROVE  EchoInd'
<1>1. UNCHANGED <<sq, inflight, cq, seen, pc, open, taken, down, buf, rpos, spos>>
  BY DEF Connect, Talk, Leave, ClientStep, ClientConnect, ClientHello, ClientSize, ClientSend,
         ClientRecv, ClientExit, loopVars, kernelVars
<1>2. \A t \in Shards : PreparedSet(t)' = PreparedSet(t) /\ UnreadAt(t)' = UnreadAt(t)
  BY <1>1 DEF PreparedSet, UnreadAt
<1>3. /\ PairInv' /\ SizeInv'
      /\ \A d \in Conns, op \in ConnOps : Has(op, d)' <=> Has(op, d)
  BY <1>1, <1>2, SameRequests DEF EchoInd
<1>4. \A d \in Conns : (Done(d)' <=> Done(d)) /\ (Accepted(d)' <=> Accepted(d))
  BY <1>1, <1>2 DEF Done, Accepted
<1>5. ASSUME NEW d \in Conns PROVE Asking(d)'
  <2>1. Asking(d)
    BY DEF EchoInd, Good
  <2>2. /\ up[d] \in Nat /\ taken[d] \in Nat /\ MsgUnits \in Nat
        /\ client \in [Conns -> Stages] /\ up \in [Conns -> Nat]
    BY ClientAssumption DEF IInv, TypeOK, ClientTypeOK
  <2>3. CASE UNCHANGED <<client, up>>
    BY <1>1, <2>1, <2>3 DEF Asking
  <2>4. CASE ClientConnect(c)
    BY <1>1, <2>1, <2>2, <2>4 DEF Asking, ClientConnect, ClientMoves
  <2>5. CASE ClientHello(c)
    BY <1>1, <2>1, <2>2, <2>5 DEF Asking, ClientHello, ClientMoves, HelloUnits
  <2>6. CASE ClientSize(c)
    BY <1>1, <2>1, <2>2, <2>6 DEF Asking, ClientSize, ClientMoves, AnnounceUnits
  <2>7. CASE ClientSend(c)
    <3>1. CASE d # c
      BY <1>1, <2>1, <2>2, <2>7, <3>1 DEF Asking, ClientSend
    <3>2. CASE d = c
      <4>1. client[d] = "running" /\ client' = client /\ up'[d] = up[d] + MsgUnits
        BY <2>2, <2>7, <3>2 DEF ClientSend
      <4>2. taken[d] <= up'[d]
        BY <2>1, <2>2, <4>1 DEF Asking
      <4>3. QED
        BY <1>1, <2>1, <4>1, <4>2 DEF Asking
    <3>3. QED
      BY <3>1, <3>2
  <2>8. CASE ClientExit(c)
    BY <1>1, <2>1, <2>2, <2>8 DEF Asking, ClientExit
  <2>9. CASE ClientRecv(c)
    BY <2>3, <2>9 DEF ClientRecv
  <2>10. QED
    BY <2>4, <2>5, <2>6, <2>7, <2>8, <2>9 DEF Connect, Talk, Leave, ClientStep
<1>6. ASSUME NEW d \in Conns PROVE Good(d)'
  <2>1. Good(d) /\ Asking(d)'
    BY <1>5 DEF EchoInd
  <2>2. QED
    BY <1>1, <1>3, <1>4, <2>1, GoodKept
<1>7. QED
  BY <1>3, <1>6 DEF EchoInd

LEMMA EchoAlways == Spec => [](IInv /\ OwnInv /\ EchoInd)
<1>1. IInv /\ OwnInv /\ EchoInd /\ [Next]_vars => EchoInd'
  <2> SUFFICES ASSUME IInv, OwnInv, EchoInd, [Next]_vars PROVE EchoInd'
    OBVIOUS
  <2>1. ASSUME NEW s \in Shards, EndDrain(s) \/ SubmitFails(s) \/ WaitFails(s)
        PROVE  EchoInd'
    <3>1. UNCHANGED <<sq, inflight, cq, seen, client, up, taken, down, buf, rpos, spos, pc, open>>
      BY <2>1 DEF EndDrain, SubmitFails, WaitFails, clientVars, kernelVars
    <3>2. QED
      BY <3>1, EchoFrame
  <2>2. ASSUME NEW s \in Shards, Start(s) \/ ThreadStep(s) \/ WaitFails(s) \/ KAccept(s) \/ KAcceptFail(s)
        PROVE  EchoInd'
    BY <2>1, <2>2, EchoStart, EchoSubmit, EchoHandlers, EchoAdvance, EchoAccept DEF ThreadStep
  <2>3. ASSUME NEW s \in Shards, NEW c \in Conns, KernelStep(s, c) \/ KernelFailure(s, c)
        PROVE  EchoInd'
    BY <2>3, EchoKernel
  <2>4. ASSUME NEW c \in Conns, Connect(c) \/ Talk(c) \/ Leave(c)
        PROVE  EchoInd'
    BY <2>4, EchoClient
  <2>5. CASE UNCHANGED vars
    BY <2>5, EchoFrame DEF vars, loopVars, kernelVars, clientVars
  <2>6. QED
    BY <2>2, <2>3, <2>4, <2>5 DEF Next
<1>2. QED
  BY <1>1, EchoInit, OwnAlways, PTL DEF Spec

\* Every unit the sharded server writes is the one owed, for any sets of
\* shards and connections: completions of one shard are handled in whatever
\* order they come, and no reply is mixed with another (104-174).
THEOREM EchoesExact == Spec => []EchoOk
<1>1. IInv /\ EchoInd => EchoOk
  <2> SUFFICES ASSUME IInv, EchoInd, NEW c \in Conns
               PROVE  down[c] = EchoOf(c, Len(down[c]))
    BY DEF EchoOk
  <2>1. down[c] \in Seq(Nat)
    BY DEF IInv, TypeOK, ClientTypeOK
  <2>2. \A i \in 1..Len(down[c]) : down[c][i] = Owed(i)
    BY DEF EchoInd, Good, Stream
  <2>3. Len(down[c]) \in Nat /\ down[c] = [i \in 1..Len(down[c]) |-> down[c][i]]
    BY <2>1
  <2>4. ASSUME NEW i \in 1..Len(down[c])
        PROVE  down[c][i] = IF i <= AnnounceUnits THEN 0 ELSE HelloUnits + i - AnnounceUnits
    BY <2>2, <2>3 DEF Owed, AnnounceUnits, HelloUnits
  <2>5. QED
    BY <2>3, <2>4 DEF EchoOf
<1>2. QED
  BY <1>1, EchoAlways, PTL

\* A reply is not overwritten while it is sent: the recv linked to it is the
\* threadlet's only one, and it waits (162-164).
THEOREM RepliesStable == Spec => ReplyStable
<1>1. ASSUME IInv, OwnInv, EchoInd, [Next]_vars, NEW s \in Shards, NEW c \in Conns,
             Sqe("send_msg", c) \in inflight[s]
      PROVE  buf'[c] = buf[c]
  <2>1. ASSUME NEW t \in Shards PROVE ~KRecvMsg(t, c)
    <3>1. SUFFICES ASSUME KRecvMsg(t, c) PROVE FALSE
      OBVIOUS
    <3>2. Sqe("recv_msg", c) \in inflight[t] /\ ~Blocked(t, c)
      BY <3>1 DEF KRecvMsg
    <3>3. ~Has("send_msg", c)
      BY <1>1, <3>2, NotBlocked DEF EchoInd
    <3>4. QED
      BY <1>1, <3>3 DEF Has
  <2>2. ASSUME NEW t \in Shards, NEW d \in Conns, d # c, KRecvMsg(t, d)
        PROVE  buf'[c] = buf[c]
    BY <2>2 DEF KRecvMsg, IInv, TypeOK
  <2>3. ASSUME NEW t \in Shards, Start(t) \/ ThreadStep(t) \/ WaitFails(t) \/ KAccept(t) \/ KAcceptFail(t)
        PROVE  buf' = buf
    BY <2>3 DEF Start, ThreadStep, Submit, SubmitFails, WaitFails, OnNull, OnAccepted, OnHeader, OnMsg, NextCqe,
                EndDrain, Advance, KAccept, KAcceptFail, kernelVars
  <2>4. ASSUME NEW t \in Shards, NEW d \in Conns, KernelStep(t, d) \/ KernelFailure(t, d)
        PROVE  buf'[c] = buf[c]
    BY <2>1, <2>2, <2>4 DEF KernelStep, KernelFailure, KSendSize, KSendMsg, KRecvHello, KRecvShort,
                            KSendSizeFail, KSendMsgFail
  <2>5. ASSUME NEW d \in Conns, Connect(d) \/ Talk(d) \/ Leave(d)
        PROVE  buf' = buf
    BY <2>5 DEF Connect, Talk, Leave, kernelVars
  <2>6. QED
    BY <1>1, <2>3, <2>4, <2>5 DEF Next, vars, kernelVars
<1>2. IInv /\ OwnInv /\ EchoInd /\ [Next]_vars
        => [\A s \in Shards, c \in Conns :
              Sqe("send_msg", c) \in inflight[s] /\ Sqe("send_msg", c) \in inflight'[s]
                => buf'[c] = buf[c]]_vars
  BY <1>1
<1>3. QED
  BY <1>2, EchoAlways, PTL DEF Spec, ReplyStable

-----------------------------------------------------------------------------
\* The service: what is sent in full was asked for, unit by unit.

\* What is sent was read, in every state and not only while a reply is under way.
Paid(c) == Len(down[c]) <= 2 \/ Len(down[c]) - 1 <= taken[c]

Serves(c) == Cut(c) /\ Paid(c)

Serving == IInv /\ OwnInv /\ EchoInd /\ EchoOk /\ \A c \in Conns : Serves(c)

LEMMA StreamTypes ==
  ASSUME TypeOK, NEW c \in Conns
  PROVE  /\ up[c] \in Nat /\ taken[c] \in Nat
         /\ down[c] \in Seq(Nat) /\ Len(down[c]) \in Nat
         /\ MsgUnits \in Nat \ {0} /\ AnnounceUnits = 2 /\ HelloUnits = 1
BY Sizes DEF TypeOK, ClientTypeOK

LEMMA ServingMapped ==
  ASSUME Serving, NEW c \in Conns
  PROVE  Mapped(c)
<1>1. /\ up[c] \in Nat /\ taken[c] \in Nat /\ down[c] \in Seq(Nat) /\ Len(down[c]) \in Nat
      /\ AnnounceUnits = 2 /\ HelloUnits = 1
  BY StreamTypes DEF Serving, IInv
<1>2. Cut(c) /\ Paid(c) /\ taken[c] <= up[c] /\ down[c] = EchoOf(c, Len(down[c]))
  BY DEF Serving, Serves, EchoInd, Good, Asking, EchoOk
<1>3. Len(down[c]) <= AnnounceUnits \/ Len(down[c]) + HelloUnits <= up[c] + AnnounceUnits
  BY <1>1, <1>2 DEF Paid
<1>4. Replied(c) \in Nat /\ Replied(c) <= Asked(c) /\ Asked(c) \in Nat
  BY <1>1, <1>2, <1>3, RepliedAsked, CutAsked
<1>5. QED
  BY <1>1, <1>2, <1>4, ExactMapped DEF Exact

\* Streams and client stay; more may have been read.
LEMMA QuietServes ==
  ASSUME TypeOK, NEW c \in Conns, Serves(c), client'[c] = client[c], up'[c] = up[c],
         down'[c] = down[c], taken'[c] \in Nat, taken[c] <= taken'[c]
  PROVE  Serves(c)' /\ SameService(c)
<1>1. Greeted(c)' = Greeted(c) /\ Replied(c)' = Replied(c)
  BY DEF Greeted, Replied
<1>2. Cut(c)' /\ StageOf(c)' = StageOf(c) /\ Asked(c)' = Asked(c)
  BY <1>1, CutKept DEF Serves
<1>3. Paid(c)'
  BY StreamTypes DEF Serves, Paid
<1>4. QED
  BY <1>1, <1>2, <1>3 DEF Serves, SameService

LEMMA SendSizeServes ==
  ASSUME Serving, NEW s \in Shards, NEW c \in Conns, KSendSize(s, c)
  PROVE  Serves(c)' /\ ServiceGreets(c)
<1>0. TypeOK /\ Serves(c) /\ Good(c)
  BY DEF Serving, IInv, EchoInd
<1>1. /\ client' = client /\ up' = up /\ taken' = taken /\ down'[c] = down[c] \o <<0, 0>>
      /\ Sqe("send_size", c) \in inflight[s]
  BY <1>0 DEF KSendSize, Announcement, TypeOK, ClientTypeOK
<1>2. Len(down[c]) = 0 /\ pc[c] # "none"
  <2>1. Has("send_size", c)
    BY <1>1 DEF Has
  <2>2. QED
    BY <1>0, <2>1 DEF Good, Stream
<1>3. client[c] # "idle"
  <2>1. c \in open
    BY <1>0, <1>2 DEF Good, Stream
  <2>2. QED
    BY <2>1 DEF Serving, IInv, QueueInv
<1>4. Cut(c)' /\ ServiceGreets(c)
  BY <1>0, <1>1, <1>2, <1>3, StreamTypes, GreetServes DEF Serves, Announcement
<1>5. Paid(c)'
  <2>1. Len(down'[c]) = 2
    BY <1>0, <1>1, <1>2, StreamTypes
  <2>2. QED
    BY <2>1 DEF Paid
<1>6. QED
  BY <1>4, <1>5 DEF Serves

\* A unit of a reply completes one slot at most, and one that was asked for.
LEMMA SendMsgServes ==
  ASSUME Serving, NEW s \in Shards, NEW c \in Conns, KSendMsg(s, c)
  PROVE  Serves(c)' /\ ServiceMove(c)
<1>0. TypeOK /\ Serves(c) /\ Good(c) /\ IInv /\ OwnInv /\ EchoInd
  BY DEF Serving, IInv, EchoInd
<1>1. /\ Sqe("send_msg", c) \in inflight[s]
      /\ client' = client /\ up' = up /\ taken' = taken
      /\ down'[c] = Append(down[c], buf[c][spos[c] + 1])
  BY <1>0 DEF KSendMsg, TypeOK, ClientTypeOK
<1>2. Has("send_msg", c) /\ Has("recv_msg", c)
  BY <1>0, <1>1 DEF EchoInd, PairInv, Has
<1>3. /\ down[c] \in Seq(Nat) /\ Len(down[c]) \in Nat /\ Sent(c) \in Nat
      /\ MsgUnits \in Nat \ {0} /\ spos[c] \in 0..(MsgUnits - 1)
      /\ taken[c] \in Nat /\ up[c] \in Nat
  BY <1>0, <1>2, Underway
<1>4. taken[c] = 1 + Sent(c) + MsgUnits - spos[c] /\ taken[c] <= up[c]
  BY <1>0, <1>2 DEF Good, Buffer, Asking
<1>5. taken[c] >= Sent(c) + 2 /\ Len(down[c]) >= 2 /\ Sent(c) = Len(down[c]) - 2
  <2>1. taken[c] >= Sent(c) + 2
    BY <1>3, <1>4
  <2>2. up[c] > 1
    BY <1>3, <1>4, <2>1
  <2>3. Len(down[c]) >= 2
    BY <1>0, <2>2 DEF Good, Asking
  <2>4. QED
    BY <2>1, <2>3 DEF Sent
<1>6. Len(down'[c]) = Len(down[c]) + 1
  BY <1>1, <1>3, AppendProperties
<1>7. Cut(c)' /\ ServiceMove(c)
  <2>1. /\ 1 \in 0..MsgUnits /\ Len(down[c]) >= AnnounceUnits
        /\ Len(down'[c]) + HelloUnits <= up[c] + AnnounceUnits
    <3>1. /\ Len(down'[c]) \in Nat /\ Len(down'[c]) = Sent(c) + 3
          /\ Sent(c) + 2 <= taken[c] /\ Sent(c) \in Nat
      BY <1>3, <1>5, <1>6
    <3>2. Len(down'[c]) + 1 <= up[c] + 2
      BY <1>3, <1>4, <3>1
    <3>3. QED
      BY <1>3, <1>5, <3>2, Sizes
  <2>2. QED
    BY <1>0, <1>1, <1>3, <1>6, <2>1, WriteServes DEF Serves, ServiceMove
<1>8. Paid(c)'
  BY <1>1, <1>3, <1>5, <1>6 DEF Paid
<1>9. QED
  BY <1>7, <1>8 DEF Serves

\* Steps that leave the clients' streams alone, except for what is read.
Reads == /\ UNCHANGED <<client, up, down>>
         /\ \A c \in Conns : taken'[c] \in Nat /\ taken[c] <= taken'[c]

LEMMA ThreadReads ==
  ASSUME TypeOK, NEW s \in Shards, Start(s) \/ ThreadStep(s) \/ WaitFails(s) \/ KAccept(s) \/ KAcceptFail(s)
  PROVE  Reads
<1>1. UNCHANGED clientVars
  BY DEF Start, ThreadStep, Submit, SubmitFails, WaitFails, OnNull, OnAccepted, OnHeader, OnMsg, NextCqe,
         EndDrain, Advance, KAccept, KAcceptFail
<1>2. \A c \in Conns : taken[c] \in Nat
  BY StreamTypes
<1>3. QED
  BY <1>1, <1>2 DEF clientVars, Reads

LEMMA KernelReads ==
  ASSUME TypeOK, NEW s \in Shards, NEW c \in Conns,
         KRecvHello(s, c) \/ KRecvMsg(s, c) \/ KernelFailure(s, c)
  PROVE  Reads
<1>1. /\ UNCHANGED <<client, up, down>>
      /\ \/ taken' = taken
         \/ taken' = [taken EXCEPT ![c] = @ + HelloUnits]
         \/ taken' = [taken EXCEPT ![c] = @ + 1]
  BY DEF KRecvHello, KRecvMsg, KernelFailure, KRecvShort, KSendSizeFail, KSendMsgFail, clientVars
<1>2. taken \in [Conns -> Nat] /\ HelloUnits = 1
  BY Sizes DEF TypeOK, ClientTypeOK
<1>3. QED
  BY <1>1, <1>2 DEF Reads

\* Every step serves one connection, or none.
LEMMA ServesStep ==
  ASSUME Serving, [Next]_vars
  PROVE  \/ \A c \in Conns : Serves(c)' /\ SameService(c)
         \/ \E k \in Conns : /\ ServiceMove(k) /\ \A c \in Conns \ {k} : SameService(c)
                             /\ \A c \in Conns : Serves(c)'
<1>0. TypeOK /\ \A c \in Conns : Serves(c) /\ taken[c] \in Nat
  BY StreamTypes DEF Serving, IInv
<1>1. CASE Reads
  BY <1>0, <1>1, QuietServes DEF Reads
<1>2. ASSUME NEW s \in Shards, NEW k \in Conns, KSendSize(s, k) \/ KSendMsg(s, k)
      PROVE  \E c \in Conns : /\ ServiceMove(c) /\ \A d \in Conns \ {c} : SameService(d)
                              /\ \A d \in Conns : Serves(d)'
  <2>1. Serves(k)' /\ ServiceMove(k)
    BY <1>2, SendSizeServes, SendMsgServes DEF ServiceMove
  <2>2. UNCHANGED <<client, up, taken>> /\ \A d \in Conns \ {k} : down'[d] = down[d]
    BY <1>0, <1>2 DEF KSendSize, KSendMsg, TypeOK, ClientTypeOK
  <2>3. \A d \in Conns \ {k} : Serves(d)' /\ SameService(d)
    BY <1>0, <2>2, QuietServes
  <2>4. QED
    BY <2>1, <2>3
<1>3. ASSUME NEW k \in Conns, Connect(k) \/ Talk(k) \/ Leave(k)
      PROVE  \E c \in Conns : /\ ServiceMove(c) /\ \A d \in Conns \ {c} : SameService(d)
                              /\ \A d \in Conns : Serves(d)'
  <2>1. ClientTypeOK /\ (ClientStep(k) \/ ClientConnect(k) \/ ClientExit(k))
    BY <1>0, <1>3 DEF TypeOK, Connect, Talk, Leave
  <2>2. Cut(k)' /\ ServiceMove(k)
    BY <1>0, <2>1, ClientServes DEF Serves
  <2>3. taken' = taken /\ down' = down /\ \A d \in Conns \ {k} : client'[d] = client[d] /\ up'[d] = up[d]
    BY <2>1 DEF ClientTypeOK, ClientStep, ClientConnect, ClientHello, ClientSize, ClientSend,
                ClientRecv, ClientExit, ClientMoves
  <2>4. Serves(k)'
    BY <1>0, <2>2, <2>3 DEF Serves, Paid
  <2>5. \A d \in Conns \ {k} : Serves(d)' /\ SameService(d)
    BY <1>0, <2>3, QuietServes
  <2>6. QED
    BY <2>2, <2>4, <2>5
<1>4. CASE UNCHANGED vars
  BY <1>0, <1>1, <1>4 DEF vars, clientVars, Reads
<1>5. QED
  BY <1>0, <1>1, <1>2, <1>3, <1>4, ThreadReads, KernelReads DEF Next, KernelStep

LEMMA ServingAlways == Spec => []Serving
<1>1. Init => \A c \in Conns : Serves(c)
  <2> SUFFICES ASSUME Init, NEW c \in Conns PROVE Serves(c)
    OBVIOUS
  <2>1. client[c] = "idle" /\ up[c] = 0 /\ Len(down[c]) = 0
    BY DEF Init, ClientInit
  <2>2. QED
    BY <2>1 DEF Serves, Cut, Paid
<1>2. /\ IInv /\ OwnInv /\ EchoInd /\ EchoOk /\ (\A c \in Conns : Serves(c)) /\ [Next]_vars
      => (\A c \in Conns : Serves(c))'
  BY ServesStep DEF Serving
<1>3. QED
  BY <1>1, <1>2, EchoAlways, EchoesExact, PTL DEF Spec, Serving

\* The sharded server does what an echo server promises, for any sets of
\* shards and connections and any sizes: it announces once, and then gives back
\* every message once, whole and in order, although completions of all
\* connections of a ring pass through one loop (104-174).
THEOREM ShardsServe == Spec => ServiceSpec
<1>1. Init => Service!Init
  BY InitMapped DEF Init
<1>2. Serving => \A c \in Conns : Mapped(c)
  BY ServingMapped
<1>3. /\ Serving /\ [Next]_vars
      /\ \A c \in Conns : Mapped(c)
      /\ (\A c \in Conns : Mapped(c))'
      => [Service!Next]_(Service!vars)
  BY ServesStep, ServiceNext
<1>4. QED
  BY <1>1, <1>2, <1>3, ServingAlways, PTL DEF Spec, ServiceSpec, Service!Spec
=============================================================================
