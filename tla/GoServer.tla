------------------------------ MODULE GoServer ------------------------------
(***************************************************************************)
(* go/simple/main.go: a goroutine for each connection.  conn.Read returns  *)
(* what has arrived, conn.Write writes everything.  The announcement has   *)
(* eight bytes here, and log.Fatalf and panic end the process.             *)
(***************************************************************************)
EXTENDS ConnBuffers

CONSTANT Whole  \* connections whose messages arrive in one piece

ASSUME GoAssumption == Whole \subseteq Conns

VARIABLE
  arrived  \* units of each client's stream that have arrived

goVars == <<buf, pos, arrived>>
goServerVars == <<clientVars, threadVars, goVars>>

GoTypeOK ==
  /\ ThreadTypeOK({"recv", "send"})
  /\ BufTypeOK
  /\ arrived \in [Conns -> Nat]
  /\ \A c \in Conns : arrived[c] \in taken[c]..up[c]

GoInit ==
  /\ ThreadInit
  /\ BufInit
  /\ arrived = [c \in Conns |-> 0]

GoAccept == MainAccept /\ UNCHANGED goVars

\* panic(err)
GoAcceptFail == MainAcceptFail /\ UNCHANGED goVars

\* The goroutine of a connection has ended and the garbage collector has
\* closed the connection.
Collect(c) ==
  /\ alive /\ c \in open /\ pc[c] = "done"
  /\ open' = open \ {c}
  /\ UNCHANGED <<clientVars, alive, queue, pc, goVars>>

\* binary.BigEndian.PutUint32(buf[:8], ...), conn.Write(buf[:8])
GoAnnouncement == Announcement \o Announcement

WriteSize(c) ==
  /\ Moves(c, "send_size", "recv_hello")
  /\ down' = [down EXCEPT ![c] = @ \o GoAnnouncement]
  /\ UNCHANGED <<client, up, taken, got, goVars>>

ReadHello(c) ==
  /\ Moves(c, "recv_hello", "recv")
  /\ taken[c] + HelloUnits <= arrived[c]
  /\ taken' = [taken EXCEPT ![c] = @ + HelloUnits]
  /\ UNCHANGED <<client, up, down, got, goVars>>

\* A slip: a short read is echoed with what the buffer held before.
ReadAny(c) ==
  /\ Moves(c, "recv", "send")
  /\ taken[c] < arrived[c]
  /\ taken' = [taken EXCEPT ![c] = arrived[c]]
  /\ buf' = [buf EXCEPT ![c] =
       [i \in 1..MsgUnits |-> IF taken[c] + i <= arrived[c] THEN taken[c] + i ELSE @[i]]]
  /\ UNCHANGED <<client, up, down, got, pos, arrived>>

Read(c) ==
  /\ Moves(c, "recv", "send")
  /\ taken[c] + MsgUnits <= arrived[c]
  /\ ReadsMessage(c)
  /\ UNCHANGED arrived

\* Part of a message, or the end of the stream: the goroutine returns.
ReadShort(c) ==
  /\ Moves(c, "recv", "done")
  /\ taken[c] + MsgUnits > arrived[c]
  /\ taken[c] < arrived[c] \/ client[c] = "gone"
  /\ taken' = [taken EXCEPT ![c] = arrived[c]]
  /\ UNCHANGED <<client, up, down, got, goVars>>

\* conn.Write goes on until the whole message is written.
WritePart(c) ==
  /\ pos[c] + 1 < MsgUnits
  /\ Moves(c, "send", "send")
  /\ WritesUnit(c)
  /\ pos' = [pos EXCEPT ![c] = @ + 1]
  /\ UNCHANGED arrived

\* A slip: the goroutine returns after its first reply.
WriteLast(c) ==
  /\ pos[c] + 1 = MsgUnits
  /\ Moves(c, "send", "done")
  /\ WritesUnit(c)
  /\ pos' = [pos EXCEPT ![c] = 0]
  /\ UNCHANGED arrived

WriteRest(c) ==
  /\ pos[c] + 1 = MsgUnits
  /\ Moves(c, "send", "recv")
  /\ WritesUnit(c)
  /\ pos' = [pos EXCEPT ![c] = 0]
  /\ UNCHANGED arrived

\* log.Fatalf in the handshake, panic after a failed write.
Dies(c) ==
  /\ alive /\ pc[c] \in {"send_size", "recv_hello", "send"}
  /\ client[c] = "gone"
  /\ alive' = FALSE
  /\ UNCHANGED <<clientVars, queue, open, pc, goVars>>

GoHandlerStep(c) == WriteSize(c) \/ ReadHello(c) \/ Read(c) \/ WritePart(c) \/ WriteRest(c)

Arrive(c) ==
  /\ arrived[c] < up[c]
  /\ arrived' = [arrived EXCEPT ![c] = IF c \in Whole THEN up[c] ELSE @ + 1]
  /\ UNCHANGED <<clientVars, threadVars, buf, pos>>

GoConnect(c) == Enqueue(c) /\ UNCHANGED goVars

GoTalk(c) == ClientStep(c) /\ UNCHANGED <<threadVars, goVars>>

GoLeave(c) == ClientExit(c) /\ UNCHANGED <<threadVars, goVars>>

GoNext ==
  \/ GoAccept \/ GoAcceptFail
  \/ \E c \in Conns : \/ GoHandlerStep(c) \/ ReadShort(c) \/ Dies(c) \/ Collect(c)
                      \/ Arrive(c) \/ GoConnect(c) \/ GoTalk(c) \/ GoLeave(c)

GoSpec == GoInit /\ [][GoNext]_goServerVars

-----------------------------------------------------------------------------
\* Properties.

EchoAfterEight ==
  \A c \in Conns : \A i \in 1..Len(down[c]) :
    down[c][i] = IF i <= Len(GoAnnouncement) THEN 0
                 ELSE HelloUnits + i - Len(GoAnnouncement)

\* After an announcement of eight bytes the client's own messages follow,
\* unit by unit and in order (33-46).
GoEchoInv == GoTypeOK /\ EchoAfterEight

\* A goroutine returns before its client has left only when a message came
\* in pieces (35-39): no other connection can make it do so.
LoyalToWhole == \A c \in Whole : pc[c] = "done" => client[c] = "gone"
=============================================================================
