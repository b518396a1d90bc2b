---------------------------- MODULE SimpleServer ----------------------------
(***************************************************************************)
(* simple.c: the echo loop with blocking recv and send, one buffer for     *)
(* each thread.                                                            *)
(***************************************************************************)
EXTENDS ConnBuffers

VARIABLE
  late  \* the server has sent to the client since it left

handlerVars == <<buf, pos, late>>
simpleVars == <<clientVars, threadVars, handlerVars>>

SimpleTypeOK ==
  /\ ThreadTypeOK({"recv", "send"})
  /\ BufTypeOK
  /\ late \in [Conns -> BOOLEAN]

SimpleInit ==
  /\ ThreadInit
  /\ BufInit
  /\ late = [c \in Conns |-> FALSE]

SimpleAccept == MainAccept /\ UNCHANGED handlerVars

SimpleAcceptFail == MainAcceptFail /\ UNCHANGED handlerVars

Late(c) == late' = [late EXCEPT ![c] = @ \/ client[c] = "gone"]

SimpleHandshake(c) ==
  /\ HandshakeStep(c)
  /\ IF pc[c] = "send_size" THEN Late(c) ELSE UNCHANGED late
  /\ UNCHANGED <<buf, pos>>

\* A slip: without MSG_WAITALL the recv returns with the first units.
RecvSome(c) ==
  /\ Moves(c, "recv", "send")
  /\ taken[c] < up[c]
  /\ taken' = [taken EXCEPT ![c] = @ + 1]
  /\ buf' = [buf EXCEPT ![c][1] = taken[c] + 1]
  /\ UNCHANGED <<client, up, down, got, pos, late>>

\* MSG_WAITALL: recv returns once the whole message is there.
Recv(c) ==
  /\ Moves(c, "recv", "send")
  /\ taken[c] + MsgUnits <= up[c]
  /\ ReadsMessage(c)
  /\ UNCHANGED late

SendUnit(c) == WritesUnit(c) /\ Late(c)

SendPart(c) ==
  /\ pos[c] + 1 < MsgUnits
  /\ Moves(c, "send", "send")
  /\ SendUnit(c)
  /\ pos' = [pos EXCEPT ![c] = @ + 1]

\* A slip: the reply is retried instead of ended when the connection fails.
SendRetried(c) ==
  /\ pos[c] + 1 = MsgUnits
  /\ Moves(c, "send", IF client[c] = "gone" THEN "send" ELSE "recv")
  /\ SendUnit(c)
  /\ pos' = [pos EXCEPT ![c] = 0]

\* A slip: the thread stops after its first message.
SendThenStop(c) ==
  /\ pos[c] + 1 = MsgUnits
  /\ Moves(c, "send", "done")
  /\ SendUnit(c)
  /\ pos' = [pos EXCEPT ![c] = 0]

SendRest(c) ==
  /\ pos[c] + 1 = MsgUnits
  /\ Moves(c, "send", "recv")
  /\ SendUnit(c)
  /\ pos' = [pos EXCEPT ![c] = 0]

\* SIGPIPE.  What a server sends to a client that has left is answered with
\* a reset, and after it a further send() raises the signal, which ends the
\* process: it is not ignored, and no send has MSG_NOSIGNAL.
Sigpipe(c) == pc[c] = "send" /\ late[c] /\ pos[c] = 0

Killed(c) ==
  /\ alive /\ Sigpipe(c)
  /\ alive' = FALSE
  /\ UNCHANGED <<clientVars, queue, open, pc, handlerVars>>

SimpleHandlerStep(c) == SimpleHandshake(c) \/ Recv(c) \/ SendPart(c) \/ SendRest(c)

SimpleHandlerFails(c) ==
  /\ HandshakeFails(c) \/ Returns(c, "recv") \/ Returns(c, "send")
  /\ UNCHANGED handlerVars

SimpleConnect(c) == Enqueue(c) /\ UNCHANGED handlerVars

SimpleTalk(c) == ClientStep(c) /\ UNCHANGED <<threadVars, handlerVars>>

SimpleLeave(c) == ClientExit(c) /\ UNCHANGED <<threadVars, handlerVars>>

SimpleNext ==
  \/ SimpleAccept \/ SimpleAcceptFail
  \/ \E c \in Conns : \/ SimpleHandlerStep(c) \/ SimpleHandlerFails(c) \/ Killed(c)
                      \/ SimpleConnect(c) \/ SimpleTalk(c) \/ SimpleLeave(c)

SimpleSpec == SimpleInit /\ [][SimpleNext]_simpleVars

\* Every thread runs, and a polite client goes on.
SimpleFairness ==
  /\ WF_simpleVars(SimpleAccept)
  /\ \A c \in Conns : WF_simpleVars(SimpleHandlerStep(c))
  /\ \A c \in Polite : WF_simpleVars(SimpleTalk(c))

SimpleFairSpec == SimpleSpec /\ SimpleFairness

-----------------------------------------------------------------------------
\* Properties.

\* What the thread has received is what it has sent and what it holds: a
\* message is answered in full, from its own buffer, before the next is read.
Replying(c) ==
  /\ down[c] = EchoOf(c, Len(down[c]))
  /\ pc[c] \in {"none", "send_size"} => Len(down[c]) = 0 /\ taken[c] = 0
  /\ pc[c] = "recv_hello" => Len(down[c]) = AnnounceUnits /\ taken[c] = 0
  /\ pc[c] = "recv" =>
       taken[c] >= HelloUnits /\ Len(down[c]) + HelloUnits = taken[c] + AnnounceUnits
  /\ pc[c] = "send" =>
       /\ taken[c] >= HelloUnits + MsgUnits
       /\ Len(down[c]) + HelloUnits + MsgUnits = taken[c] + AnnounceUnits + pos[c]
       /\ buf[c] = [i \in 1..MsgUnits |-> taken[c] - MsgUnits + i]
  /\ pc[c] \notin {"send", "done"} => pos[c] = 0
  /\ Len(down[c]) <= AnnounceUnits \/ Len(down[c]) + HelloUnits <= taken[c] + AnnounceUnits

\* Of a client that waits for its replies nothing is left to read while one
\* is sent, nor once the server has sent to where it no longer is.
Waiting(c) ==
  /\ taken[c] <= up[c] /\ got[c] <= Len(down[c])
  /\ client[c] \in {"idle", "connected", "hello"} => up[c] <= HelloUnits /\ got[c] = 0
  /\ client[c] = "hello" => up[c] = HelloUnits
  /\ \/ up[c] <= HelloUnits /\ got[c] = 0 /\ client[c] # "running"
     \/ /\ up[c] >= HelloUnits /\ got[c] >= AnnounceUnits
        /\ \/ up[c] + AnnounceUnits = got[c] + HelloUnits
           \/ up[c] + AnnounceUnits = got[c] + HelloUnits + MsgUnits
  /\ pc[c] = "send" => up[c] = taken[c] /\ got[c] + pos[c] = Len(down[c])
  /\ late[c] =>
       /\ client[c] = "gone"
       /\ pc[c] \in {"recv_hello", "recv"} => up[c] < taken[c] + HelloUnits + MsgUnits
       /\ pc[c] = "recv" => up[c] < taken[c] + MsgUnits
       /\ pc[c] = "send" => pos[c] > 0

\* Whom the main thread has yet to accept has no thread.
Queued(c) ==
  /\ c \in queue => pc[c] = "none" /\ client[c] # "idle"
  /\ client[c] = "idle" => pc[c] = "none"

\* A client that waits for its replies never raises SIGPIPE.
NoSigpipe == \A c \in Conns \ Eager : ~Sigpipe(c)

\* Every reply is the message it answers, and a client that waits for its
\* replies costs nobody the process, at whatever point it leaves: no send
\* follows the one that a departed client resets (25-50).
ReplyInv ==
  /\ SimpleTypeOK
  /\ \A c \in Conns : Replying(c) /\ Queued(c) /\ (c \notin Eager => Waiting(c))
  /\ NoSigpipe

\* Every message of a client that does not stall is answered, as long as the
\* process is up (38-51).
SimpleAnswered == []alive => \A c \in Polite : AnsweredTo(c)
=============================================================================
