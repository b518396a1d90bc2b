---------------------------- MODULE Uring2Server ----------------------------
(***************************************************************************)
(* uring2.c: the echo loop with two buffers.  The first message is         *)
(* received with a blocking recv; then each round sends the last message   *)
(* and receives the next one at the same time, and waits for both.         *)
(***************************************************************************)
EXTENDS ConnRings

uring2Vars == <<clientVars, threadVars, ringVars>>

Uring2TypeOK == RingTypeOK({"recv", "submit", "wait", "copy", "copy_early", "astray"}, {"send_buf", "recv_buf"})

Uring2Init == RingInit({"send_buf", "recv_buf"})

Uring2Ends(c) ==
  /\ HandshakeFails(c) \/ Returns(c, "recv")
  /\ UNCHANGED ringVars

RecvFirst(c) ==
  /\ Moves(c, "recv", "submit")
  /\ taken[c] + MsgUnits <= up[c]
  /\ taken' = [taken EXCEPT ![c] = @ + MsgUnits]
  /\ mem' = [mem EXCEPT ![c]["send_buf"] = Incoming(c)]
  /\ UNCHANGED <<client, up, down, got, sq, inflight, cq, spos, rpos>>

SubmitBoth(c) ==
  /\ sq[c] = {}
  /\ Moves(c, "submit", "wait")
  /\ Submits(c, Requests)

\* io_uring_get_sqe finds no room beside requests that were never submitted:
\* err(-1, "io_uring_get_sqe: full sq").
SqFull(c) ==
  /\ alive /\ pc[c] = "astray"
  /\ sq[c] # {}
  /\ alive' = FALSE
  /\ UNCHANGED <<clientVars, queue, open, pc, ringVars>>

\* io_uring_wait_cqes for two completions; the counts of all are tested.
WaitBoth(c) ==
  /\ Moves(c, "wait", "copy")
  /\ Len(cq[c]) >= 2 /\ ~SomeShort(c)
  /\ CqAdvance(c, 2)

\* The result of the wait is not looked at: when it ended early, the loop
\* tests the completions there are, and the head moves by two, past the tail.
WaitInterrupted(c) ==
  /\ Interrupts
  /\ Moves(c, "wait", "copy_early")
  /\ Len(cq[c]) < 2 /\ ~SomeShort(c)
  /\ CqAdvance(c, 2)

\* A short count ends the thread, at two completions or at an early end.
WaitShort(c) ==
  /\ Moves(c, "wait", "done")
  /\ SomeShort(c)
  /\ Len(cq[c]) = 2 \/ Interrupts
  /\ UNCHANGED <<clientVars, ringVars>>

\* A slip: the loop ends after one round.
CopyOnce(c) == Moves(c, "copy", "done") /\ UNCHANGED <<clientVars, ringVars>>

\* memcpy(send_buf, recv_buf, msg_size)
Copies(c) ==
  /\ mem' = [mem EXCEPT ![c]["send_buf"] = mem[c]["recv_buf"]]
  /\ UNCHANGED <<clientVars, sq, inflight, cq, spos, rpos>>

Copy(c) == Moves(c, "copy", "submit") /\ Copies(c)

\* With the head of the completion queue past its tail, what the thread reads
\* next is not defined: the model follows it no further than a full queue.
CopyEarly(c) == Moves(c, "copy_early", "astray") /\ Copies(c)

Uring2Step(c) ==
  RingHandshake(c) \/ RecvFirst(c) \/ SubmitBoth(c) \/ WaitBoth(c) \/ Copy(c)

Uring2Fails(c) ==
  \/ Uring2Ends(c) \/ WaitInterrupted(c) \/ CopyEarly(c)
  \/ WaitShort(c) \/ SqFull(c)

SendStep(c) == KSend(c, "send_buf")

\* A slip: one buffer for the send and the recv under way beside it.
RecvStepShared(c) == KRecv(c, "send_buf")

RecvStep(c) == KRecv(c, "recv_buf")

Uring2Next ==
  \/ RingAccept \/ RingAcceptFail
  \/ \E c \in Conns : \/ Uring2Step(c) \/ Uring2Fails(c)
                      \/ SendStep(c) \/ RecvStep(c) \/ KernelFails(c)
                      \/ RingConnect(c) \/ RingTalk(c) \/ RingLeave(c)

Uring2Spec == Uring2Init /\ [][Uring2Next]_uring2Vars

Uring2Fairness ==
  /\ WF_uring2Vars(RingAccept)
  /\ \A c \in Conns :
       WF_uring2Vars(Uring2Step(c)) /\ WF_uring2Vars(SendStep(c)) /\ WF_uring2Vars(RecvStep(c))
  /\ \A c \in Polite : WF_uring2Vars(RingTalk(c))

Uring2FairSpec == Uring2Spec /\ Uring2Fairness

-----------------------------------------------------------------------------
\* Properties.

\* The stream to a client is its own, unit by unit, although the next message
\* is received while the last one is sent, until a wait that ended early
\* has let the two buffers be confused (60-94).
EchoUnlessAstray ==
  /\ Uring2TypeOK
  /\ \A c \in Conns : pc[c] # "astray" => down[c] = EchoOf(c, Len(down[c]))

Undisturbed == Submitting /\ \A c \in Conns : pc[c] \notin {"copy_early", "astray"}

\* While submissions succeed and waits last, every message of a client that
\* does not stall is answered (54-95).
Uring2Answered == []Undisturbed => \A c \in Polite : AnsweredTo(c)
=============================================================================
