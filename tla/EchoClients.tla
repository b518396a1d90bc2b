---------------------------- MODULE EchoClients ----------------------------
(***************************************************************************)
(* The client end of the echo protocol (client.c, multiclient.c) and the   *)
(* TCP stream between it and a server.  The server modules extend this one *)
(* and add the server's own state.                                         *)
(*                                                                         *)
(* Bytes are abstracted to units of two bytes, so that "Hi" is one unit    *)
(* and the announced int32_t message size is two; a message is MsgUnits    *)
(* units.  A unit written by a client is its position in the client's      *)
(* stream, so every unit of every message is told apart, and a unit of the *)
(* announcement is 0.  TCP keeps the order of a stream and may deliver it  *)
(* in pieces of any size.                                                  *)
(***************************************************************************)
EXTENDS Naturals, Sequences

CONSTANTS
  Conns,     \* the connections, one per client thread
  MsgUnits,  \* message size, in units
  MaxMsgs,   \* bound: messages a client sends
  Eager,     \* connections whose clients write a message ahead of the replies
  Polite     \* connections whose clients never stall

ASSUME ClientAssumption ==
  /\ Eager \subseteq Conns
  /\ Polite \subseteq Conns
  /\ MsgUnits \in Nat \ {0}
  /\ MaxMsgs \in Nat

VARIABLES
  client,  \* where each client is in client()
  up,      \* units the client has written
  taken,   \* units the server has consumed
  down,    \* units the server has written
  got      \* units of down the client has consumed

clientVars == <<client, up, taken, down, got>>

HelloUnits == 1
AnnounceUnits == 2
Announcement == <<0, 0>>

Stages == {"idle", "connected", "hello", "running", "gone"}

ClientTypeOK ==
  /\ client \in [Conns -> Stages]
  /\ up \in [Conns -> Nat]
  /\ taken \in [Conns -> Nat]
  /\ down \in [Conns -> Seq(Nat)]
  /\ got \in [Conns -> Nat]

ClientInit ==
  /\ client = [c \in Conns |-> "idle"]
  /\ up = [c \in Conns |-> 0]
  /\ taken = [c \in Conns |-> 0]
  /\ down = [c \in Conns |-> <<>>]
  /\ got = [c \in Conns |-> 0]

-----------------------------------------------------------------------------
\* The client's steps.  None of them changes the server's state: a server
\* module conjoins what it leaves unchanged.

ClientMoves(c, from, to) ==
  /\ client[c] = from
  /\ client' = [client EXCEPT ![c] = to]

\* connect() succeeds: the server module says where the connection queues.
ClientConnect(c) ==
  /\ ClientMoves(c, "idle", "connected")
  /\ UNCHANGED <<up, taken, down, got>>

\* send(conn_fd, "Hi", 2, 0)
ClientHello(c) ==
  /\ ClientMoves(c, "connected", "hello")
  /\ up' = [up EXCEPT ![c] = HelloUnits]
  /\ UNCHANGED <<taken, down, got>>

\* recv(conn_fd, &msg_size, sizeof(msg_size), MSG_WAITALL)
ClientSize(c) ==
  /\ Len(down[c]) >= AnnounceUnits
  /\ ClientMoves(c, "hello", "running")
  /\ got' = [got EXCEPT ![c] = AnnounceUnits]
  /\ UNCHANGED <<up, taken, down>>

Asked(c) == IF up[c] = 0 THEN 0 ELSE (up[c] - HelloUnits) \div MsgUnits

\* Messages a client has in flight: 1 for the repository's clients.
Window(c) == IF c \in Eager THEN 2 ELSE 1

\* First half of one_operation: send a message.
ClientSend(c) ==
  /\ client[c] = "running"
  /\ up[c] < HelloUnits + MaxMsgs * MsgUnits
  /\ (up[c] - HelloUnits) < (got[c] - AnnounceUnits) + Window(c) * MsgUnits
  /\ up' = [up EXCEPT ![c] = @ + MsgUnits]
  /\ UNCHANGED <<client, taken, down, got>>

\* Second half of one_operation: wait for a whole echo.
ClientRecv(c) ==
  /\ client[c] = "running"
  /\ Len(down[c]) >= got[c] + MsgUnits
  /\ got' = [got EXCEPT ![c] = @ + MsgUnits]
  /\ UNCHANGED <<client, up, taken, down>>

\* The client process exits, at the end of a benchmark or on an error, in
\* whatever state its threads are: the kernel closes the connection.
ClientExit(c) ==
  /\ client[c] # "gone"
  /\ client' = [client EXCEPT ![c] = "gone"]
  /\ UNCHANGED <<up, taken, down, got>>

ClientStep(c) ==
  ClientHello(c) \/ ClientSize(c) \/ ClientSend(c) \/ ClientRecv(c)

-----------------------------------------------------------------------------
\* The stream of the server to c is the announcement and then c's own
\* messages, unit by unit, in order.
EchoOf(c, n) == [i \in 1..n |-> IF i <= AnnounceUnits THEN 0
                                ELSE HelloUnits + i - AnnounceUnits]

\* Refinement mapping to EchoService: message m was echoed in slot i of the
\* server's stream when the slot holds exactly the units of m.
StageOf(c) == CASE client[c] = "idle" -> "idle"
                [] client[c] = "gone" -> "closed"
                [] OTHER -> "open"

Greeted(c) == Len(down[c]) >= AnnounceUnits

SlotOf(c, i) == SubSeq(down[c], AnnounceUnits + (i - 1) * MsgUnits + 1,
                                AnnounceUnits + i * MsgUnits)

MessageIn(c, slot) ==
  LET is(m) == slot = [p \in 1..MsgUnits |-> HelloUnits + (m - 1) * MsgUnits + p]
  IN  IF \E m \in 1..Asked(c) : is(m) THEN CHOOSE m \in 1..Asked(c) : is(m) ELSE 0

Echoed(c) ==
  [i \in 1..((Len(down[c]) - AnnounceUnits) \div MsgUnits) |-> MessageIn(c, SlotOf(c, i))]

Service == INSTANCE EchoService WITH
  stage   <- [c \in Conns |-> StageOf(c)],
  greeted <- [c \in Conns |-> Greeted(c)],
  asked   <- [c \in Conns |-> Asked(c)],
  echoed  <- [c \in Conns |-> IF Greeted(c) THEN Echoed(c) ELSE <<>>]

-----------------------------------------------------------------------------
\* Properties that every server is checked for.

\* Every unit a server has written is the one the client is owed at that
\* place: the announcement, then the client's own messages, unmixed and in
\* order, however sends, receives and failures interleave on shared buffers.
EchoOk == \A c \in Conns : down[c] = EchoOf(c, Len(down[c]))

\* The server does what an echo server promises (handle_conn and main_loop).
ServiceSpec == Service!Spec

\* A client that connected is told the message size, unless it leaves.
AnnouncedTo(c) == client[c] = "connected" ~> client[c] \in {"running", "gone"}

\* Every message of a client is answered in full, unless it leaves.
AnsweredTo(c) ==
  \A n \in 1..MaxMsgs :
    Asked(c) >= n ~> \/ Len(down[c]) >= AnnounceUnits + n * MsgUnits
                     \/ client[c] = "gone"
=============================================================================
