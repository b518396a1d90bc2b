---------------------------- MODULE RingServers ----------------------------
(***************************************************************************)
(* uring.c and uring2.c: one of them runs.  Both hand what they do to a    *)
(* ring of their own for each connection (ConnRings).                      *)
(***************************************************************************)
EXTENDS UringServer, Uring2Server

VARIABLE program  \* which of the two runs

ringServerVars == <<program, clientVars, threadVars, ringVars>>

RingServersInit ==
  \/ program = "uring" /\ UringInit
  \/ program = "uring2" /\ Uring2Init

RingServersNext ==
  \/ program = "uring" /\ UringNext /\ UNCHANGED program
  \/ program = "uring2" /\ Uring2Next /\ UNCHANGED program

RingServersSpec == RingServersInit /\ [][RingServersNext]_ringServerVars

ThreadRuns(c) ==
  \/ program = "uring" /\ UringStep(c)
  \/ program = "uring2" /\ Uring2Step(c)

KernelSends(c) ==
  \/ program = "uring" /\ KernelStep(c)
  \/ program = "uring2" /\ SendStep(c)

KernelReceives(c) == program = "uring2" /\ RecvStep(c)

\* The main thread and the threads run, the kernel does what it can, and a
\* polite client goes on.  No submission or wait need fail.
RingServersFairness ==
  /\ WF_uringVars(RingAccept)
  /\ \A c \in Conns :
       WF_uringVars(ThreadRuns(c)) /\ WF_uringVars(KernelSends(c)) /\ WF_uringVars(KernelReceives(c))
  /\ \A c \in Polite : WF_uringVars(RingTalk(c))

RingServersFairSpec == RingServersSpec /\ RingServersFairness

-----------------------------------------------------------------------------
\* Properties.

\* With one request at a time: see UringEchoInv (uring.c 39-102).
UringIntact == program = "uring" => UringEchoInv

\* With a send and a recv at once: see EchoUnlessAstray (uring2.c 60-94).
Uring2Intact == program = "uring2" => EchoUnlessAstray

\* Every message of a client that does not stall is answered, whatever the
\* other threads do, while submissions succeed (uring.c 46-102) ...
UringAnswers == program = "uring" => UringAnswered

\* ... and, where two requests are waited for at once, no wait ends early
\* (uring2.c 54-95).
Uring2Answers == program = "uring2" => Uring2Answered
=============================================================================
