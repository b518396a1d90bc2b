---------------------------- MODULE UringShards ----------------------------
(***************************************************************************)
(* io_uring_sharded.c: a set of threads, each with a listening socket of   *)
(* its own (SO_REUSEPORT) and an io_uring on which it runs one "threadlet" *)
(* per connection.  A threadlet is a record whose pc says how to read its  *)
(* next completion; it always owns exactly one request that will complete  *)
(* with its user_data, while its sends complete with a NULL user_data.     *)
(*                                                                         *)
(* The thread and the kernel interleave: the kernel takes requests at      *)
(* io_uring_submit, executes them in any order (except a linked pair) and  *)
(* piece by piece, and posts completions also while the thread is reading  *)
(* the completion queue.                                                   *)
(***************************************************************************)
EXTENDS EchoClients, FiniteSets

CONSTANTS
  Shards,     \* the server threads
  NoConn,     \* stands for the absent connection of an accept
  SqEntries,  \* entries of a submission queue: 4096 in the code
  MaxFds,     \* connections the descriptor limit leaves room for
  SubmitErrors  \* io_uring_submit may fail

ASSUME ShardAssumption ==
  /\ IsFiniteSet(Conns)
  /\ NoConn \notin Conns
  /\ SqEntries \in Nat
  /\ MaxFds \in Nat
  /\ SubmitErrors \in BOOLEAN

VARIABLES
  alive,     \* the process has not called exit or errx
  cause,     \* history: why it ended, "none" while it runs
  phase,     \* where each thread is in main_loop
  sq,        \* submission queue: requests prepared but not submitted
  inflight,  \* requests the kernel is working on
  cq,        \* completion queue
  seen,      \* i: completions the thread has looked at since cq_advance
  queue,     \* connections waiting in the accept queue of each listener
  open,      \* connections that have a descriptor in the server
  pc,        \* pc of each connection's threadlet
  buf,       \* the buffer of each threadlet
  rpos,      \* units its pending recv has stored
  spos       \* units its pending reply has sent

loopVars == <<phase, sq, seen, pc, cause>>
kernelVars == <<inflight, cq, queue, open, buf, rpos, spos>>
vars == <<clientVars, alive, loopVars, kernelVars>>

Ops == {"accept", "send_size", "recv_hello", "send_msg", "recv_msg"}
Sqe(op, c) == [op |-> op, conn |-> c]
AcceptSqe == Sqe("accept", NoConn)
SQEs == [op : Ops, conn : Conns \cup {NoConn}]

\* user_data is the threadlet of an accept, of a connection, or NULL; ok
\* says that the result is a descriptor, or the whole length asked for.
Cqe(data, c, ok) == [data |-> data, conn |-> c, ok |-> ok]
CQEs == [data : {"accept", "thread", "null"}, conn : Conns \cup {NoConn}, ok : BOOLEAN]

Buffers == [1..MsgUnits -> Nat]

Causes == {"none", "full", "accept", "wait"}

TypeOK ==
  /\ ClientTypeOK
  /\ alive \in BOOLEAN
  /\ cause \in Causes
  /\ phase \in [Shards -> {"off", "submit", "drain", "advance"}]
  /\ sq \in [Shards -> Seq(SQEs)]
  /\ inflight \in [Shards -> SUBSET SQEs]
  /\ cq \in [Shards -> Seq(CQEs)]
  /\ seen \in [Shards -> Nat]
  /\ \A s \in Shards : seen[s] <= Len(cq[s])
  /\ queue \in [Shards -> SUBSET Conns]
  /\ open \in SUBSET Conns
  /\ pc \in [Conns -> {"none", "RECEIVED_HEADER", "RECEIVED_MSG"}]
  /\ buf \in [Conns -> Buffers]
  /\ rpos \in [Conns -> 0..(MsgUnits - 1)]
  /\ spos \in [Conns -> 0..(MsgUnits - 1)]

Init ==
  /\ ClientInit
  /\ alive = TRUE
  /\ cause = "none"
  /\ phase = [s \in Shards |-> "off"]
  /\ sq = [s \in Shards |-> <<>>]
  /\ inflight = [s \in Shards |-> {}]
  /\ cq = [s \in Shards |-> <<>>]
  /\ seen = [s \in Shards |-> 0]
  /\ queue = [s \in Shards |-> {}]
  /\ open = {}
  /\ pc = [c \in Conns |-> "none"]
  /\ buf = [c \in Conns |-> [i \in 1..MsgUnits |-> 0]]
  /\ rpos = [c \in Conns |-> 0]
  /\ spos = [c \in Conns |-> 0]

-----------------------------------------------------------------------------
\* The thread.

Exits(why) == alive' = FALSE /\ cause' = why

\* Prepare requests in order; the process exits when the queue has no room.
Prepare(s, entries) ==
  IF Len(sq[s]) + Len(entries) <= SqEntries
    THEN /\ sq' = [sq EXCEPT ![s] = @ \o entries]
         /\ UNCHANGED <<alive, cause>>
    ELSE Exits("full") /\ UNCHANGED sq

\* listen() and the part of main_loop before its loop.
Start(s) ==
  /\ alive /\ phase[s] = "off"
  /\ phase' = [phase EXCEPT ![s] = "submit"]
  /\ Prepare(s, <<AcceptSqe>>)
  /\ UNCHANGED <<clientVars, seen, pc, kernelVars>>

Submit(s) ==
  /\ alive /\ phase[s] = "submit"
  /\ phase' = [phase EXCEPT ![s] = "drain"]
  /\ inflight' = [inflight EXCEPT ![s] = @ \cup {sq[s][i] : i \in 1..Len(sq[s])}]
  /\ sq' = [sq EXCEPT ![s] = <<>>]
  /\ UNCHANGED <<clientVars, alive, cause, seen, pc, cq, queue, open, buf, rpos, spos>>

\* A slip: the queue is taken for submitted whatever the result.
SubmitForgets(s) ==
  /\ SubmitErrors
  /\ alive /\ phase[s] = "submit"
  /\ phase' = [phase EXCEPT ![s] = "drain"]
  /\ sq' = [sq EXCEPT ![s] = <<>>]
  /\ UNCHANGED <<clientVars, alive, cause, seen, pc, kernelVars>>

\* The result is ignored: what was prepared waits for the next submit, which
\* comes after a completion, if there is one still to come.
SubmitFails(s) ==
  /\ SubmitErrors
  /\ alive /\ phase[s] = "submit"
  /\ phase' = [phase EXCEPT ![s] = "drain"]
  /\ UNCHANGED <<clientVars, alive, cause, sq, seen, pc, kernelVars>>

\* The wait for a completion is interrupted by a signal: every thread ends.
WaitFails(s) ==
  /\ alive /\ phase[s] = "drain"
  /\ seen[s] = 0 /\ cq[s] = <<>>
  /\ Exits("wait")
  /\ UNCHANGED <<clientVars, phase, sq, seen, pc, kernelVars>>

Current(s) == cq[s][seen[s] + 1]

\* io_uring_for_each_cqe reads the tail anew for every entry.
NextCqe(s, data) ==
  /\ alive /\ phase[s] = "drain"
  /\ seen[s] < Len(cq[s])
  /\ Current(s).data = data
  /\ seen' = [seen EXCEPT ![s] = @ + 1]
  /\ UNCHANGED <<clientVars, phase, kernelVars>>

OnNull(s) ==
  /\ NextCqe(s, "null")
  /\ UNCHANGED <<alive, cause, sq, pc>>

\* Slips the properties catch: the next accept is forgotten, or added twice.
OnAcceptedOnce(s) ==
  LET c == Current(s).conn IN
  /\ NextCqe(s, "accept") /\ Current(s).ok
  /\ Prepare(s, <<Sqe("send_size", c), Sqe("recv_hello", c)>>)
  /\ pc' = [pc EXCEPT ![c] = "RECEIVED_HEADER"]

OnAcceptedTwice(s) ==
  LET c == Current(s).conn IN
  /\ NextCqe(s, "accept") /\ Current(s).ok
  /\ Prepare(s, <<Sqe("send_size", c), AcceptSqe, Sqe("recv_hello", c), AcceptSqe>>)
  /\ pc' = [pc EXCEPT ![c] = "RECEIVED_HEADER"]

OnAccepted(s) ==
  /\ NextCqe(s, "accept")
  /\ LET c == Current(s).conn IN
     IF Current(s).ok
       THEN /\ Prepare(s, <<Sqe("send_size", c), AcceptSqe, Sqe("recv_hello", c)>>)
            /\ pc' = [pc EXCEPT ![c] = "RECEIVED_HEADER"]
       ELSE Exits("accept") /\ UNCHANGED <<sq, pc>>

OnHeader(s) ==
  LET c == Current(s).conn IN
  /\ NextCqe(s, "thread")
  /\ pc[c] = "RECEIVED_HEADER"
  /\ IF Current(s).ok
       THEN /\ Prepare(s, <<Sqe("recv_msg", c)>>)
            /\ pc' = [pc EXCEPT ![c] = "RECEIVED_MSG"]
       ELSE UNCHANGED <<alive, cause, sq, pc>>

\* Slips: a short message is answered too, or no further one is received.
OnMsgUnchecked(s) ==
  LET c == Current(s).conn IN
  /\ NextCqe(s, "thread")
  /\ pc[c] = "RECEIVED_MSG"
  /\ Prepare(s, <<Sqe("send_msg", c), Sqe("recv_msg", c)>>)
  /\ UNCHANGED pc

OnMsgLast(s) ==
  LET c == Current(s).conn IN
  /\ NextCqe(s, "thread")
  /\ pc[c] = "RECEIVED_MSG"
  /\ IF Current(s).ok
       THEN Prepare(s, <<Sqe("send_msg", c)>>)
       ELSE UNCHANGED <<alive, cause, sq>>
  /\ UNCHANGED pc

OnMsg(s) ==
  LET c == Current(s).conn IN
  /\ NextCqe(s, "thread")
  /\ pc[c] = "RECEIVED_MSG"
  /\ IF Current(s).ok
       THEN Prepare(s, <<Sqe("send_msg", c), Sqe("recv_msg", c)>>)
       ELSE UNCHANGED <<alive, cause, sq>>
  /\ UNCHANGED pc

\* The loop has read the tail and found no further entry ...
EndDrain(s) ==
  /\ alive /\ phase[s] = "drain"
  /\ seen[s] > 0 /\ seen[s] = Len(cq[s])
  /\ phase' = [phase EXCEPT ![s] = "advance"]
  /\ UNCHANGED <<clientVars, alive, cause, sq, seen, pc, kernelVars>>

\* A slip: the head moves one entry too few.
AdvanceShort(s) ==
  /\ alive /\ phase[s] = "advance"
  /\ phase' = [phase EXCEPT ![s] = "submit"]
  /\ cq' = [cq EXCEPT ![s] = SubSeq(@, seen[s], Len(@))]
  /\ seen' = [seen EXCEPT ![s] = 0]
  /\ UNCHANGED <<clientVars, alive, cause, sq, pc, inflight, queue, open, buf, rpos, spos>>

\* ... but the kernel may have posted one by the time the head moves.
Advance(s) ==
  /\ alive /\ phase[s] = "advance"
  /\ phase' = [phase EXCEPT ![s] = "submit"]
  /\ cq' = [cq EXCEPT ![s] = SubSeq(@, seen[s] + 1, Len(@))]
  /\ seen' = [seen EXCEPT ![s] = 0]
  /\ UNCHANGED <<clientVars, alive, cause, sq, pc, inflight, queue, open, buf, rpos, spos>>

ThreadStep(s) ==
  Submit(s) \/ SubmitFails(s) \/ OnNull(s) \/ OnAccepted(s) \/ OnHeader(s) \/ OnMsg(s)
    \/ EndDrain(s) \/ Advance(s)

-----------------------------------------------------------------------------
\* The kernel.

Complete(s, requests, completions) ==
  /\ inflight' = [inflight EXCEPT ![s] = @ \ requests]
  /\ cq' = [cq EXCEPT ![s] = @ \o completions]

KAccept(s) ==
  /\ alive /\ AcceptSqe \in inflight[s]
  /\ Cardinality(open) < MaxFds
  /\ \E c \in queue[s] :
       /\ queue' = [queue EXCEPT ![s] = @ \ {c}]
       /\ open' = open \cup {c}
       /\ Complete(s, {AcceptSqe}, <<Cqe("accept", c, TRUE)>>)
  /\ UNCHANGED <<clientVars, alive, loopVars, buf, rpos, spos>>

\* EMFILE.  The descriptor is taken when the accept is issued or when a
\* connection arrives, so this may happen with or without one waiting.
KAcceptFail(s) ==
  /\ alive /\ AcceptSqe \in inflight[s]
  /\ Cardinality(open) >= MaxFds
  /\ Complete(s, {AcceptSqe}, <<Cqe("accept", NoConn, FALSE)>>)
  /\ UNCHANGED <<clientVars, alive, loopVars, queue, open, buf, rpos, spos>>

KSendSize(s, c) ==
  /\ alive /\ Sqe("send_size", c) \in inflight[s]
  /\ down' = [down EXCEPT ![c] = @ \o Announcement]
  /\ Complete(s, {Sqe("send_size", c)}, <<Cqe("null", c, TRUE)>>)
  /\ UNCHANGED <<client, up, taken, got, alive, loopVars, queue, open, buf, rpos, spos>>

\* A reply leaves the buffer one unit at a time.
KSendMsg(s, c) ==
  /\ alive /\ Sqe("send_msg", c) \in inflight[s]
  /\ down' = [down EXCEPT ![c] = Append(@, buf[c][spos[c] + 1])]
  /\ IF spos[c] + 1 = MsgUnits
       THEN /\ spos' = [spos EXCEPT ![c] = 0]
            /\ Complete(s, {Sqe("send_msg", c)}, <<Cqe("null", c, TRUE)>>)
       ELSE /\ spos' = [spos EXCEPT ![c] = @ + 1]
            /\ UNCHANGED <<inflight, cq>>
  /\ UNCHANGED <<client, up, taken, got, alive, loopVars, queue, open, buf, rpos>>

\* A slip: without the flag the recv runs beside the reply.
NeverBlocked(s, c) == FALSE

\* A linked recv does not start before the reply it is linked to is sent.
Blocked(s, c) == Sqe("send_msg", c) \in inflight[s]

\* MSG_WAITALL: the request completes once it has stored its whole length.
\* The content of header_buf is never read.
KRecvHello(s, c) ==
  /\ alive /\ Sqe("recv_hello", c) \in inflight[s]
  /\ taken[c] + HelloUnits <= up[c]
  /\ taken' = [taken EXCEPT ![c] = @ + HelloUnits]
  /\ Complete(s, {Sqe("recv_hello", c)}, <<Cqe("thread", c, TRUE)>>)
  /\ UNCHANGED <<client, up, down, got, alive, loopVars, queue, open, buf, rpos, spos>>

KRecvMsg(s, c) ==
  /\ alive /\ Sqe("recv_msg", c) \in inflight[s] /\ ~Blocked(s, c)
  /\ taken[c] < up[c]
  /\ taken' = [taken EXCEPT ![c] = @ + 1]
  /\ buf' = [buf EXCEPT ![c] = [@ EXCEPT ![rpos[c] + 1] = taken[c] + 1]]
  /\ IF rpos[c] + 1 = MsgUnits
       THEN /\ rpos' = [rpos EXCEPT ![c] = 0]
            /\ Complete(s, {Sqe("recv_msg", c)}, <<Cqe("thread", c, TRUE)>>)
       ELSE /\ rpos' = [rpos EXCEPT ![c] = @ + 1]
            /\ UNCHANGED <<inflight, cq>>
  /\ UNCHANGED <<client, up, down, got, alive, loopVars, queue, open, spos>>

\* The client is gone: end of file or an error ends a pending recv ...
KRecvShort(s, c) ==
  /\ alive /\ client[c] = "gone" /\ ~Blocked(s, c)
  /\ \E r \in {Sqe("recv_hello", c), Sqe("recv_msg", c)} \cap inflight[s] :
       Complete(s, {r}, <<Cqe("thread", c, FALSE)>>)
  /\ rpos' = [rpos EXCEPT ![c] = 0]
  /\ UNCHANGED <<clientVars, alive, loopVars, queue, open, buf, spos>>

KSendSizeFail(s, c) ==
  /\ alive /\ client[c] = "gone" /\ Sqe("send_size", c) \in inflight[s]
  /\ Complete(s, {Sqe("send_size", c)}, <<Cqe("null", c, FALSE)>>)
  /\ UNCHANGED <<clientVars, alive, loopVars, queue, open, buf, rpos, spos>>

\* ... and a pending reply, which cancels the recv linked to it.
KSendMsgFail(s, c) ==
  /\ alive /\ client[c] = "gone" /\ Sqe("send_msg", c) \in inflight[s]
  /\ IF Sqe("recv_msg", c) \in inflight[s]
       THEN Complete(s, {Sqe("send_msg", c), Sqe("recv_msg", c)},
                     <<Cqe("null", c, FALSE), Cqe("thread", c, FALSE)>>)
       ELSE Complete(s, {Sqe("send_msg", c)}, <<Cqe("null", c, FALSE)>>)
  /\ spos' = [spos EXCEPT ![c] = 0]
  /\ UNCHANGED <<clientVars, alive, loopVars, queue, open, buf, rpos>>

KernelStep(s, c) ==
  KSendSize(s, c) \/ KSendMsg(s, c) \/ KRecvHello(s, c) \/ KRecvMsg(s, c)

KernelFailure(s, c) ==
  KRecvShort(s, c) \/ KSendSizeFail(s, c) \/ KSendMsgFail(s, c)

-----------------------------------------------------------------------------
\* The clients.

\* SO_REUSEPORT gives the connection to any one of the listeners.
Connect(c) ==
  /\ ClientConnect(c)
  /\ alive
  /\ \E s \in Shards : /\ phase[s] # "off"
                       /\ queue' = [queue EXCEPT ![s] = @ \cup {c}]
  /\ UNCHANGED <<alive, loopVars, inflight, cq, open, buf, rpos, spos>>

Talk(c) == ClientStep(c) /\ UNCHANGED <<alive, loopVars, kernelVars>>

Leave(c) == ClientExit(c) /\ UNCHANGED <<alive, loopVars, kernelVars>>

Next ==
  \/ \E s \in Shards : \/ Start(s) \/ ThreadStep(s) \/ WaitFails(s)
                      \/ KAccept(s) \/ KAcceptFail(s)
  \/ \E s \in Shards, c \in Conns : KernelStep(s, c) \/ KernelFailure(s, c)
  \/ \E c \in Conns : Connect(c) \/ Talk(c) \/ Leave(c)

Spec == Init /\ [][Next]_vars

\* Threads run, the kernel completes what can complete, and a polite client
\* goes on.  Nothing obliges a client to connect or to leave, nor a signal to
\* come.
Fairness ==
  /\ \A s \in Shards : WF_vars(ThreadStep(s)) /\ WF_vars(KAccept(s))
  /\ \A s \in Shards, c \in Conns :
       /\ WF_vars(KSendSize(s, c)) /\ WF_vars(KSendMsg(s, c))
       /\ WF_vars(KRecvHello(s, c)) /\ WF_vars(KRecvMsg(s, c))
  /\ \A c \in Polite : WF_vars(Talk(c))

FairSpec == Spec /\ Fairness

-----------------------------------------------------------------------------
\* Properties.

RecvsOf(c) == {Sqe("recv_hello", c), Sqe("recv_msg", c)}

Prepared(s, requests) == {i \in 1..Len(sq[s]) : sq[s][i] \in requests}
Unread(s, data) == {i \in (seen[s] + 1)..Len(cq[s]) : cq[s][i].data = data}
UnreadOf(s, data, c) == {i \in Unread(s, data) : cq[s][i].conn = c}

\* What will complete, or has completed unread, with the threadlet of c.
Tokens(c) ==
  LET on(s) == {<<"sq", s, i>> : i \in Prepared(s, RecvsOf(c))}
          \cup {<<"kernel", s, r.op>> : r \in RecvsOf(c) \cap inflight[s]}
          \cup {<<"cq", s, i>> : i \in UnreadOf(s, "thread", c) \cup UnreadOf(s, "accept", c)}
  IN  UNION {on(s) : s \in Shards}

\* A threadlet owns one request at a time, so no two completions ever meet
\* its pc and buf (133-135, 147-149, 171-172), and it loses its request only
\* when its client is gone (138, 152).
OneRequest ==
  alive => \A c \in Conns :
    /\ Cardinality(Tokens(c)) <= (IF c \in open THEN 1 ELSE 0)
    /\ c \in open /\ client[c] # "gone" => Tokens(c) # {}

\* Every listener has one accept under way or completed unread, so it never
\* stops taking connections and never takes two at once (86, 125).
OneAccept ==
  alive => \A s \in Shards :
    phase[s] # "off" =>
      Cardinality(Prepared(s, {AcceptSqe})) + Cardinality(Unread(s, "accept"))
        + Cardinality({AcceptSqe} \cap inflight[s]) = 1

\* A batch of completions prepares at most two requests for each connection
\* and one accept before the next submit, so the process never reaches "sq
\* is full" (66, 119, 130, 144, 158, 169) nor a failed accept (113) while the
\* connections accepted so far, closed ones included, leave room: then only
\* an interrupted wait (97) ends it.
ExitCause ==
  /\ alive <=> cause = "none"
  /\ cause = "full" => 2 * Cardinality(open) + 1 > SqEntries
  /\ cause = "accept" => Cardinality(open) >= MaxFds

\* A reply under way is never overwritten: its buffer changes only when no
\* send of the threadlet is with the kernel (162-164).
ReplyStable ==
  [][\A s \in Shards, c \in Conns :
       Sqe("send_msg", c) \in inflight[s] /\ Sqe("send_msg", c) \in inflight'[s]
         => buf'[c] = buf[c]]_vars

\* A client that does not stall is told the message size, whatever the
\* others do that share its ring, as long as the process is up (109-135).
Announced == []alive => \A c \in Polite : AnnouncedTo(c)

\* ... and each of its messages is answered (150-173).
Answered == []alive => \A c \in Polite : AnsweredTo(c)

-----------------------------------------------------------------------------
\* The inductive invariant behind ExitCause: where the request of each
\* threadlet and the accept of each listener can be.

PreparedSet(s) == {sq[s][i] : i \in 1..Len(sq[s])}
Receiving(s) == {c \in Conns : RecvsOf(c) \cap PreparedSet(s) # {}}
UnreadAt(s) == (seen[s] + 1)..Len(cq[s])

\* Two entries for each threadlet with a recv among them, one for the accept.
RoomInv ==
  \A s \in Shards :
    Len(sq[s]) <= 2 * Cardinality(Receiving(s))
                    + (IF AcceptSqe \in PreparedSet(s) THEN 1 ELSE 0)

\* A request is prepared or with the kernel, never both.
RequestInv ==
  \A s \in Shards :
    /\ ~(AcceptSqe \in PreparedSet(s) /\ AcceptSqe \in inflight[s])
    /\ \A c \in Conns :
         /\ c \in Receiving(s) => c \in open /\ RecvsOf(c) \cap inflight[s] = {}
         /\ RecvsOf(c) \cap inflight[s] # {} => c \in open
         /\ ~(RecvsOf(c) \subseteq PreparedSet(s))
         /\ ~(RecvsOf(c) \subseteq inflight[s])

\* The owner of an unread completion has no request of its own.
CompletionInv ==
  \A s \in Shards : \A i \in UnreadAt(s) :
    LET e == cq[s][i] IN
    /\ e.data = "thread" \/ (e.data = "accept" /\ e.ok) =>
         /\ e.conn \in open
         /\ e.conn \notin Receiving(s)
         /\ RecvsOf(e.conn) \cap inflight[s] = {}
    /\ e.data = "accept" =>
         /\ AcceptSqe \notin PreparedSet(s)
         /\ AcceptSqe \notin inflight[s]
         /\ ~e.ok => e.conn = NoConn /\ Cardinality(open) >= MaxFds

\* No two unread completions have the same owner.
OwnerInv ==
  \A s \in Shards : \A i, j \in UnreadAt(s) :
    /\ cq[s][i].data # "null" /\ cq[s][j].data # "null"
    /\ \/ cq[s][i].conn = cq[s][j].conn
       \/ cq[s][i].data = "accept" /\ cq[s][j].data = "accept"
    => i = j

OffInv ==
  \A s \in Shards :
    phase[s] = "off" => sq[s] = <<>> /\ inflight[s] = {} /\ cq[s] = <<>>

\* A connection is idle, or in one accept queue, or accepted.
QueueInv ==
  /\ \A c \in open : client[c] # "idle"
  /\ \A s \in Shards : \A c \in queue[s] :
       /\ client[c] # "idle" /\ c \notin open
       /\ \A t \in Shards : c \in queue[t] => t = s

IInv ==
  /\ TypeOK
  /\ RoomInv
  /\ RequestInv
  /\ CompletionInv
  /\ OwnerInv
  /\ OffInv
  /\ QueueInv
  /\ ExitCause
=============================================================================
