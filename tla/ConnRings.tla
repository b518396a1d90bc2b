----------------------------- MODULE ConnRings -----------------------------
(***************************************************************************)
(* The io_uring of a connection's thread, as uring.c and uring2.c use it:  *)
(* two entries, at most one send and one recv at a time, submitted         *)
(* together and waited for together.  The kernel works on the requests     *)
(* piece by piece while the thread waits.                                  *)
(***************************************************************************)
EXTENDS ConnThreads

CONSTANTS
  SubmitErrors,  \* io_uring_submit may fail (-EAGAIN: no memory for a request)
  Interrupts     \* a wait may end early (-EINTR: the process was stopped and continued)

ASSUME RingAssumption == SubmitErrors \in BOOLEAN /\ Interrupts \in BOOLEAN

VARIABLES
  sq,        \* requests prepared that the kernel has not taken
  inflight,  \* requests the kernel is working on
  cq,        \* results not yet seen: the whole length was done, or not
  mem,       \* the buffers of each thread
  spos,      \* units its send has written
  rpos       \* units its recv has stored

ringVars == <<sq, inflight, cq, mem, spos, rpos>>

Requests == {"send", "recv"}

\* io_uring_queue_init(2): a send and a recv are all there ever is
RingEntries == 2

Entries(c) == Cardinality(sq[c]) + Cardinality(inflight[c]) + Len(cq[c])

RingTypes(pcs, bufs) ==
  /\ ThreadTypeOK(pcs)
  /\ sq \in [Conns -> SUBSET Requests]
  /\ inflight \in [Conns -> SUBSET Requests]
  /\ cq \in [Conns -> Seq(BOOLEAN)]
  /\ mem \in [Conns -> [bufs -> [1..MsgUnits -> Nat]]]
  /\ spos \in [Conns -> 0..(MsgUnits - 1)]
  /\ rpos \in [Conns -> 0..(MsgUnits - 1)]

RingTypeOK(pcs, bufs) ==
  /\ RingTypes(pcs, bufs)
  /\ \A c \in Conns : Entries(c) <= RingEntries

RingInit(bufs) ==
  /\ ThreadInit
  /\ sq = [c \in Conns |-> {}]
  /\ inflight = [c \in Conns |-> {}]
  /\ cq = [c \in Conns |-> <<>>]
  /\ mem = [c \in Conns |-> [b \in bufs |-> [i \in 1..MsgUnits |-> 0]]]
  /\ spos = [c \in Conns |-> 0]
  /\ rpos = [c \in Conns |-> 0]

-----------------------------------------------------------------------------
\* The thread: prepare and submit, then wait.

Submits(c, requests) ==
  \/ /\ inflight' = [inflight EXCEPT ![c] = @ \cup requests]
     /\ UNCHANGED <<clientVars, sq, cq, mem, spos, rpos>>
  \* the result is not looked at: "err" is the function of err.h, never < 0
  \/ /\ SubmitErrors
     /\ sq' = [sq EXCEPT ![c] = @ \cup requests]
     /\ UNCHANGED <<clientVars, inflight, cq, mem, spos, rpos>>

\* The head of the completion queue moves past n results.
CqAdvance(c, n) ==
  /\ cq' = [cq EXCEPT ![c] = SubSeq(@, n + 1, Len(@))]
  /\ UNCHANGED <<clientVars, sq, inflight, mem, spos, rpos>>

SomeShort(c) == \E i \in 1..Len(cq[c]) : ~cq[c][i]

\* The kernel.

Done(c, request, ok) ==
  /\ inflight' = [inflight EXCEPT ![c] = @ \ {request}]
  /\ cq' = [cq EXCEPT ![c] = Append(@, ok)]

KSend(c, b) ==
  /\ alive /\ "send" \in inflight[c]
  /\ Room(c)
  /\ down' = [down EXCEPT ![c] = Append(@, mem[c][b][spos[c] + 1])]
  /\ IF spos[c] + 1 = MsgUnits
       THEN /\ spos' = [spos EXCEPT ![c] = 0]
            /\ Done(c, "send", TRUE)
       ELSE /\ spos' = [spos EXCEPT ![c] = @ + 1]
            /\ UNCHANGED <<inflight, cq>>
  /\ UNCHANGED <<client, up, taken, got, threadVars, sq, mem, rpos>>

\* Without MSG_WAITALL a send that has written a part completes with it
\* when the rest finds no room; and any send fails on a closed connection.
KSendShort(c) ==
  /\ alive /\ "send" \in inflight[c]
  /\ (spos[c] > 0 /\ ~Room(c)) \/ client[c] = "gone"
  /\ spos' = [spos EXCEPT ![c] = 0]
  /\ Done(c, "send", FALSE)
  /\ UNCHANGED <<clientVars, threadVars, sq, mem, rpos>>

\* MSG_WAITALL
KRecv(c, b) ==
  /\ alive /\ "recv" \in inflight[c]
  /\ taken[c] < up[c]
  /\ taken' = [taken EXCEPT ![c] = @ + 1]
  /\ mem' = [mem EXCEPT ![c][b][rpos[c] + 1] = taken[c] + 1]
  /\ IF rpos[c] + 1 = MsgUnits
       THEN /\ rpos' = [rpos EXCEPT ![c] = 0]
            /\ Done(c, "recv", TRUE)
       ELSE /\ rpos' = [rpos EXCEPT ![c] = @ + 1]
            /\ UNCHANGED <<inflight, cq>>
  /\ UNCHANGED <<client, up, down, got, threadVars, sq, spos>>

KRecvShort(c) ==
  /\ alive /\ "recv" \in inflight[c]
  /\ client[c] = "gone"
  /\ rpos' = [rpos EXCEPT ![c] = 0]
  /\ Done(c, "recv", FALSE)
  /\ UNCHANGED <<clientVars, threadVars, sq, mem, spos>>

KernelFails(c) == KSendShort(c) \/ KRecvShort(c)

-----------------------------------------------------------------------------
\* The steps that leave the rings alone.

RingAccept == MainAccept /\ UNCHANGED ringVars

RingAcceptFail == MainAcceptFail /\ UNCHANGED ringVars

RingHandshake(c) == HandshakeStep(c) /\ UNCHANGED ringVars

RingConnect(c) == Enqueue(c) /\ UNCHANGED ringVars

RingTalk(c) == ClientStep(c) /\ UNCHANGED <<threadVars, ringVars>>

RingLeave(c) == ClientExit(c) /\ UNCHANGED <<threadVars, ringVars>>

-----------------------------------------------------------------------------
\* Properties.

\* A thread gives up a client that waits for its replies only when the client
\* is gone.  One that writes ahead may be given up because a send completes
\* short (uring.c:72-75, 98-101; uring2.c:85-88).
Loyal == \A c \in Conns \ Eager : pc[c] = "done" => client[c] = "gone"

\* The process is up and no submission has failed.
Submitting == alive /\ \A c \in Conns : sq[c] = {}
=============================================================================
