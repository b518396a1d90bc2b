---------------------------- MODULE UringServer ----------------------------
(***************************************************************************)
(* uring.c: the echo loop with one buffer and one request at a time, a     *)
(* recv and then a send, each submitted and waited for.                    *)
(***************************************************************************)
EXTENDS ConnRings

uringVars == <<clientVars, threadVars, ringVars>>

UringTypeOK == RingTypeOK({"recv", "wait_recv", "send", "wait_send"}, {"buf"})

UringInit == RingInit({"buf"})

UringEnds(c) == HandshakeFails(c) /\ UNCHANGED ringVars

SubmitRecv(c) == Moves(c, "recv", "wait_recv") /\ Submits(c, {"recv"})

SubmitSend(c) == Moves(c, "send", "wait_send") /\ Submits(c, {"send"})

\* io_uring_wait_cqe returns the first completion; its count is tested.
Reads(c, ok) == cq[c] # <<>> /\ Head(cq[c]) = ok

\* A slip: the count of the completion is not tested.
RecvDoneUntested(c) ==
  /\ Moves(c, "wait_recv", "send")
  /\ cq[c] # <<>>
  /\ CqAdvance(c, 1)

RecvDone(c) == Moves(c, "wait_recv", "send") /\ Reads(c, TRUE) /\ CqAdvance(c, 1)

RecvShort(c) == Moves(c, "wait_recv", "done") /\ Reads(c, FALSE) /\ CqAdvance(c, 1)

\* A slip: the thread ends after one message.
SendDoneLast(c) == Moves(c, "wait_send", "done") /\ Reads(c, TRUE) /\ CqAdvance(c, 1)

SendDone(c) == Moves(c, "wait_send", "recv") /\ Reads(c, TRUE) /\ CqAdvance(c, 1)

SendShort(c) == Moves(c, "wait_send", "done") /\ Reads(c, FALSE) /\ CqAdvance(c, 1)

\* err(-1, "io_uring_wait_cqe"): the whole process exits.
WaitFails(c) ==
  /\ Interrupts
  /\ alive /\ pc[c] \in {"wait_recv", "wait_send"} /\ cq[c] = <<>>
  /\ alive' = FALSE
  /\ UNCHANGED <<clientVars, queue, open, pc, ringVars>>

UringStep(c) ==
  RingHandshake(c) \/ SubmitRecv(c) \/ SubmitSend(c) \/ RecvDone(c) \/ SendDone(c)

UringFails(c) == UringEnds(c) \/ RecvShort(c) \/ SendShort(c) \/ WaitFails(c)

KernelStep(c) == KSend(c, "buf") \/ KRecv(c, "buf")

UringNext ==
  \/ RingAccept \/ RingAcceptFail
  \/ \E c \in Conns : \/ UringStep(c) \/ UringFails(c)
                      \/ KernelStep(c) \/ KernelFails(c)
                      \/ RingConnect(c) \/ RingTalk(c) \/ RingLeave(c)

UringSpec == UringInit /\ [][UringNext]_uringVars

UringFairness ==
  /\ WF_uringVars(RingAccept)
  /\ \A c \in Conns : WF_uringVars(UringStep(c)) /\ WF_uringVars(KernelStep(c))
  /\ \A c \in Polite : WF_uringVars(RingTalk(c))

UringFairSpec == UringSpec /\ UringFairness

-----------------------------------------------------------------------------
\* Properties.

\* A thread that waits has exactly one request, of the kind it waits for,
\* which is prepared, with the kernel, or done; any other thread has none.
OneAtATime ==
  \A c \in Conns :
    LET kind == IF pc[c] = "wait_recv" THEN {"recv"}
                ELSE IF pc[c] = "wait_send" THEN {"send"} ELSE {}
    IN  /\ sq[c] \cup inflight[c] \subseteq kind
        /\ Cardinality(sq[c]) + Cardinality(inflight[c]) + Len(cq[c]) = Cardinality(kind)

\* Requests and streams stay whole: however pieces, failed submissions,
\* interrupted waits and departures interleave, no completion is read for
\* another request than its own, and every unit sent is the one owed (39-102).
UringEchoInv == UringTypeOK /\ OneAtATime /\ EchoOk

\* While submissions succeed every message of a client that does not stall is
\* answered, whatever the other threads do (46-102).
UringAnswered == []Submitting => \A c \in Polite : AnsweredTo(c)
=============================================================================
