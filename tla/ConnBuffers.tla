---------------------------- MODULE ConnBuffers ----------------------------
(***************************************************************************)
(* The buffer that a thread of simple.c, or a goroutine of the Go server,  *)
(* reads a message into and replies from.                                  *)
(***************************************************************************)
EXTENDS ConnThreads

VARIABLES
  buf,  \* the buffer of each connection
  pos   \* units of it that the write under way has put into the socket

BufTypeOK ==
  /\ buf \in [Conns -> [1..MsgUnits -> Nat]]
  /\ pos \in [Conns -> 0..(MsgUnits - 1)]

BufInit ==
  /\ buf = [c \in Conns |-> [i \in 1..MsgUnits |-> 0]]
  /\ pos = [c \in Conns |-> 0]

\* The next message of the client is consumed into the buffer.
ReadsMessage(c) ==
  /\ taken' = [taken EXCEPT ![c] = @ + MsgUnits]
  /\ buf' = [buf EXCEPT ![c] = Incoming(c)]
  /\ UNCHANGED <<client, up, down, got, pos>>

\* A blocking write copies what fits and waits for room for the rest.
WritesUnit(c) ==
  /\ Room(c)
  /\ down' = [down EXCEPT ![c] = Append(@, buf[c][pos[c] + 1])]
  /\ UNCHANGED <<client, up, taken, got, buf>>
=============================================================================
