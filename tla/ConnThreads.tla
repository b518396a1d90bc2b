---------------------------- MODULE ConnThreads ----------------------------
(***************************************************************************)
(* What simple.c, uring.c and uring2.c have in common: a main thread that  *)
(* accepts connections for ever, a thread for each of them, and the first  *)
(* part of handle_conn, which announces the message size and receives the  *)
(* two bytes of the client with blocking calls.  The modules that extend   *)
(* this one add the echo loop, entered at pc "recv".                       *)
(***************************************************************************)
EXTENDS EchoClients, FiniteSets

CONSTANTS
  MaxFds,   \* connections the descriptor limit leaves room for
  Capacity  \* units the socket buffers towards a client hold

ASSUME ThreadAssumption ==
  /\ IsFiniteSet(Conns)
  /\ MaxFds \in Nat
  /\ Capacity \in Nat /\ Capacity >= AnnounceUnits

VARIABLES
  alive,  \* the process has not called exit or err
  queue,  \* connections waiting in the accept queue of the listener
  open,   \* connections that have a descriptor in the server
  pc      \* where the thread of each connection is in handle_conn

threadVars == <<alive, queue, open, pc>>

ThreadTypeOK(pcs) ==
  /\ ClientTypeOK
  /\ alive \in BOOLEAN
  /\ queue \in SUBSET Conns
  /\ open \in SUBSET Conns
  /\ pc \in [Conns -> {"none", "send_size", "recv_hello", "done"} \cup pcs]

ThreadInit ==
  /\ ClientInit
  /\ alive = TRUE
  /\ queue = {}
  /\ open = {}
  /\ pc = [c \in Conns |-> "none"]

-----------------------------------------------------------------------------
\* The main thread.

\* A slip: the main thread serves the connection before it accepts another.
MainAcceptIdle ==
  /\ alive /\ Cardinality(open) < MaxFds
  /\ \A c \in Conns : pc[c] \in {"none", "done"}
  /\ \E c \in queue :
       /\ queue' = queue \ {c}
       /\ open' = open \cup {c}
       /\ pc' = [pc EXCEPT ![c] = "send_size"]
  /\ UNCHANGED <<clientVars, alive>>

MainAccept ==
  /\ alive /\ Cardinality(open) < MaxFds
  /\ \E c \in queue :
       /\ queue' = queue \ {c}
       /\ open' = open \cup {c}
       /\ pc' = [pc EXCEPT ![c] = "send_size"]
  /\ UNCHANGED <<clientVars, alive>>

\* No handler closes its descriptor, so every connection ever accepted
\* counts; accept() takes its descriptor before it waits.
MainAcceptFail ==
  /\ alive /\ Cardinality(open) >= MaxFds
  /\ alive' = FALSE
  /\ UNCHANGED <<clientVars, queue, open, pc>>

-----------------------------------------------------------------------------
\* The thread of connection c.

Moves(c, from, to) ==
  /\ alive /\ pc[c] = from
  /\ pc' = [pc EXCEPT ![c] = to]
  /\ UNCHANGED <<alive, queue, open>>

SendSize(c) ==
  /\ Moves(c, "send_size", "recv_hello")
  /\ down' = [down EXCEPT ![c] = @ \o Announcement]
  /\ UNCHANGED <<client, up, taken, got>>

RecvHello(c) ==
  /\ Moves(c, "recv_hello", "recv")
  /\ taken[c] + HelloUnits <= up[c]
  /\ taken' = [taken EXCEPT ![c] = @ + HelloUnits]
  /\ UNCHANGED <<client, up, down, got>>

\* A blocking call fails, or ends short, once the client is gone.
Returns(c, from) ==
  /\ client[c] = "gone"
  /\ Moves(c, from, "done")
  /\ UNCHANGED clientVars

HandshakeStep(c) == SendSize(c) \/ RecvHello(c)

HandshakeFails(c) == Returns(c, "send_size") \/ Returns(c, "recv_hello")

\* The units of the client's stream that the next message consists of.
Incoming(c) == [i \in 1..MsgUnits |-> taken[c] + i]

Room(c) == Len(down[c]) - got[c] < Capacity

Enqueue(c) ==
  /\ ClientConnect(c)
  /\ alive
  /\ queue' = queue \cup {c}
  /\ UNCHANGED <<alive, open, pc>>

-----------------------------------------------------------------------------
\* Properties.

\* A client that does not stall is told the message size, whatever the
\* others do, as long as the process is up (main thread and handshake).
Announced == []alive => \A c \in Polite : AnnouncedTo(c)
=============================================================================
