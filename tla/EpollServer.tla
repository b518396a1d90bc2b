---------------------------- MODULE EpollServer ----------------------------
(***************************************************************************)
(* epoll_sharded.c, and with a single shard epoll_single.c: each thread    *)
(* has a listening socket and an epoll instance, takes a batch of ready    *)
(* descriptors and serves them one after the other.  A new connection is   *)
(* greeted with blocking calls; a connection in the epoll instance is not  *)
(* blocking, so a recv takes what has arrived and a send writes what fits. *)
(***************************************************************************)
EXTENDS EchoClients, FiniteSets

CONSTANTS
  Shards,     \* the server threads
  Listener,   \* stands for a thread's listen_fd in its batch
  FdLimits,   \* descriptor limits it may be started under, as connections they leave room for
  Capacity,   \* units the socket buffers towards a client hold
  Whole,      \* connections whose messages arrive in one piece
  Interrupts  \* epoll_wait may fail (EINTR: the process was stopped and continued)

ASSUME EpollAssumption ==
  /\ IsFiniteSet(Conns)
  /\ Listener \notin Conns
  /\ FdLimits \subseteq Nat
  /\ Capacity \in Nat /\ Capacity >= AnnounceUnits
  /\ Whole \subseteq Conns
  /\ Interrupts \in BOOLEAN

VARIABLES
  limit,    \* the descriptor limit of the process
  alive,    \* the process has not called exit or err
  phase,    \* where each thread is in main_loop
  batch,    \* ready descriptors of its last epoll_wait still to be served
  cur,      \* conn_fd: the connection it is serving
  buf,      \* its buffer
  queue,    \* connections waiting in the accept queue of its listener
  armed,    \* connections in its epoll instance
  open,     \* connections that have a descriptor in the server
  late,     \* connections written to after their client left
  arrived,  \* units of each client's stream that have arrived
  end       \* where the stream of a client that left ends

serverVars == <<limit, alive, phase, batch, cur, buf, queue, armed, open, late>>
networkVars == <<arrived, end>>
vars == <<clientVars, serverVars, networkVars>>

Phases == {"off", "wait", "batch", "send_size", "recv_hello", "reply"}

TypeOK ==
  /\ ClientTypeOK
  /\ limit \in FdLimits
  /\ alive \in BOOLEAN
  /\ phase \in [Shards -> Phases]
  /\ batch \in [Shards -> SUBSET (Conns \cup {Listener})]
  /\ cur \in [Shards -> Conns \cup {Listener}]
  /\ buf \in [Shards -> [1..MsgUnits -> Nat]]
  /\ queue \in [Shards -> SUBSET Conns]
  /\ armed \in [Shards -> SUBSET Conns]
  /\ open \in SUBSET Conns
  /\ late \in SUBSET Conns
  /\ arrived \in [Conns -> Nat]
  /\ end \in [Conns -> Nat]
  /\ \A c \in Conns : taken[c] <= arrived[c] /\ arrived[c] <= up[c]

Init ==
  /\ ClientInit
  /\ limit \in FdLimits
  /\ alive = TRUE
  /\ phase = [s \in Shards |-> "off"]
  /\ batch = [s \in Shards |-> {}]
  /\ cur = [s \in Shards |-> Listener]
  /\ buf = [s \in Shards |-> [i \in 1..MsgUnits |-> 0]]
  /\ queue = [s \in Shards |-> {}]
  /\ armed = [s \in Shards |-> {}]
  /\ open = {}
  /\ late = {}
  /\ arrived = [c \in Conns |-> 0]
  /\ end = [c \in Conns |-> 0]

-----------------------------------------------------------------------------
\* The thread.

Goes(s, from, to) ==
  /\ alive /\ phase[s] = from
  /\ phase' = [phase EXCEPT ![s] = to]
  /\ UNCHANGED <<limit, alive, networkVars>>

Exits(s, from) ==
  /\ alive /\ phase[s] = from
  /\ alive' = FALSE
  /\ UNCHANGED <<clientVars, limit, phase, batch, cur, buf, queue, armed, open, late, networkVars>>

\* start_server up to main_loop: the listener is in the epoll instance.
Start(s) ==
  /\ Goes(s, "off", "wait")
  /\ UNCHANGED <<clientVars, batch, cur, buf, queue, armed, open, late>>

\* The client has left and everything it sent that will arrive has arrived.
Ended(c) == client[c] = "gone" /\ arrived[c] = end[c]

\* Level triggered: readable while there is input, an end or an error to read.
Ready(s) ==
  {c \in armed[s] : arrived[c] > taken[c] \/ Ended(c)}
    \cup (IF queue[s] # {} THEN {Listener} ELSE {})

EpollWait(s) ==
  /\ Ready(s) # {}
  /\ Goes(s, "wait", "batch")
  /\ batch' = [batch EXCEPT ![s] = Ready(s)]
  /\ UNCHANGED <<clientVars, cur, buf, queue, armed, open, late>>

EpollWaitFails(s) == Interrupts /\ Exits(s, "wait")

EndBatch(s) ==
  /\ batch[s] = {}
  /\ Goes(s, "batch", "wait")
  /\ UNCHANGED <<clientVars, batch, cur, buf, queue, armed, open, late>>

Accept(s) ==
  /\ Listener \in batch[s]
  /\ Cardinality(open) < limit
  /\ Goes(s, "batch", "send_size")
  /\ \E c \in queue[s] :
       /\ cur' = [cur EXCEPT ![s] = c]
       /\ queue' = [queue EXCEPT ![s] = @ \ {c}]
       /\ open' = open \cup {c}
  /\ batch' = [batch EXCEPT ![s] = @ \ {Listener}]
  /\ UNCHANGED <<clientVars, buf, armed, late>>

AcceptFail(s) ==
  /\ Listener \in batch[s]
  /\ Cardinality(open) >= limit
  /\ Exits(s, "batch")

Late(c) == late' = IF client[c] = "gone" THEN late \cup {c} ELSE late

\* handle_new_conn: the thread serves no other connection meanwhile.
SendSize(s) ==
  /\ Goes(s, "send_size", "recv_hello")
  /\ down' = [down EXCEPT ![cur[s]] = @ \o Announcement]
  /\ Late(cur[s])
  /\ UNCHANGED <<client, up, taken, got, batch, cur, buf, queue, armed, open>>

\* A slip: the connection is not added to the epoll instance.
RegistersNot(s, from) ==
  /\ Goes(s, from, "batch")
  /\ UNCHANGED <<client, up, down, got, batch, cur, buf, queue, armed, open, late>>

Registers(s, from) ==
  /\ Goes(s, from, "batch")
  /\ armed' = [armed EXCEPT ![s] = @ \cup {cur[s]}]
  /\ UNCHANGED <<client, up, down, got, batch, cur, buf, queue, open, late>>

RecvHello(s) ==
  /\ Registers(s, "recv_hello")
  /\ taken[cur[s]] + HelloUnits <= arrived[cur[s]]
  /\ taken' = [taken EXCEPT ![cur[s]] = @ + HelloUnits]

\* A slip: the end of the stream is not noticed by the blocking recv.
GreetWaits(s) ==
  /\ Registers(s, "send_size")
  /\ client[cur[s]] = "gone"
  /\ UNCHANGED taken

\* A failure of handle_new_conn is not seen by its caller.
GreetFails(s) ==
  /\ \/ Registers(s, "send_size") /\ client[cur[s]] = "gone"
     \/ Registers(s, "recv_hello") /\ Ended(cur[s])
                                   /\ taken[cur[s]] + HelloUnits > arrived[cur[s]]
  /\ UNCHANGED taken

\* A slip: the loop does not move on from the entry.
ServesKept(s, c, to) ==
  /\ c \in batch[s]
  /\ Goes(s, "batch", to)
  /\ cur' = [cur EXCEPT ![s] = c]
  /\ UNCHANGED <<client, up, down, got, batch, queue, open, late>>

Serves(s, c, to) ==
  /\ c \in batch[s]
  /\ Goes(s, "batch", to)
  /\ batch' = [batch EXCEPT ![s] = @ \ {c}]
  /\ cur' = [cur EXCEPT ![s] = c]
  /\ UNCHANGED <<client, up, down, got, queue, open, late>>

Recv(s, c) ==
  /\ taken[c] + MsgUnits <= arrived[c]
  /\ Serves(s, c, "reply")
  /\ taken' = [taken EXCEPT ![c] = @ + MsgUnits]
  /\ buf' = [buf EXCEPT ![s] = [i \in 1..MsgUnits |-> taken[c] + i]]
  /\ UNCHANGED armed

\* A slip: a short recv is echoed as if it had been a whole message.
RecvShortEchoed(s, c) ==
  /\ taken[c] + MsgUnits > arrived[c]
  /\ Serves(s, c, "reply")
  /\ taken' = [taken EXCEPT ![c] = arrived[c]]
  /\ buf' = [buf EXCEPT ![s] =
       [i \in 1..MsgUnits |-> IF taken[c] + i <= arrived[c] THEN taken[c] + i ELSE @[i]]]
  /\ UNCHANGED armed

\* Part of a message, the end or an error: EPOLL_CTL_DEL.
RecvShort(s, c) ==
  /\ taken[c] + MsgUnits > arrived[c]
  /\ Serves(s, c, "batch")
  /\ taken' = [taken EXCEPT ![c] = arrived[c]]
  /\ armed' = [armed EXCEPT ![s] = @ \ {c}]
  /\ UNCHANGED buf

Free(c) == Capacity - (Len(down[c]) - got[c])

\* A slip: the reply is sent again while the client looks dead.
ReplyRetried(s) ==
  LET c == cur[s] IN
  /\ Goes(s, "reply", IF client[c] = "gone" THEN "reply" ELSE "batch")
  /\ Free(c) >= MsgUnits
  /\ down' = [down EXCEPT ![c] = @ \o buf[s]]
  /\ Late(c)
  /\ UNCHANGED <<client, up, taken, got, batch, cur, buf, queue, armed, open>>

Reply(s) ==
  LET c == cur[s] IN
  /\ Goes(s, "reply", "batch")
  /\ Free(c) >= MsgUnits
  /\ down' = [down EXCEPT ![c] = @ \o buf[s]]
  /\ Late(c)
  /\ UNCHANGED <<client, up, taken, got, batch, cur, buf, queue, armed, open>>

\* A short count, EAGAIN or an error: EPOLL_CTL_DEL.
ReplyShort(s) ==
  LET c == cur[s] IN
  /\ Goes(s, "reply", "batch")
  /\ Free(c) < MsgUnits \/ client[c] = "gone"
  /\ down' = [down EXCEPT ![c] = IF client[c] = "gone" THEN @
                                 ELSE @ \o SubSeq(buf[s], 1, Free(c))]
  /\ armed' = [armed EXCEPT ![s] = @ \ {c}]
  /\ UNCHANGED <<client, up, taken, got, batch, cur, buf, queue, open, late>>

\* SIGPIPE: a client that left resets what it is sent, and the next send()
\* raises the signal, which is not ignored.
Sigpipe(s) == phase[s] = "reply" /\ cur[s] \in late

Killed(s) == Sigpipe(s) /\ Exits(s, "reply")

ThreadStep(s) ==
  \/ EpollWait(s) \/ EndBatch(s) \/ Accept(s) \/ AcceptFail(s)
  \/ SendSize(s) \/ RecvHello(s) \/ GreetFails(s)
  \/ \E c \in Conns : Recv(s, c) \/ RecvShort(s, c)
  \/ Reply(s) \/ ReplyShort(s)

-----------------------------------------------------------------------------
\* The network and the clients.

Sent(c) == IF client[c] = "gone" THEN end[c] ELSE up[c]

Arrive(c) ==
  /\ arrived[c] < Sent(c)
  /\ arrived' = [arrived EXCEPT ![c] = IF c \in Whole THEN Sent(c) ELSE @ + 1]
  /\ UNCHANGED <<clientVars, serverVars, end>>

\* SO_REUSEPORT gives the connection to any one of the listeners.
Connect(c) ==
  /\ ClientConnect(c)
  /\ alive
  /\ \E s \in Shards : /\ phase[s] # "off"
                       /\ queue' = [queue EXCEPT ![s] = @ \cup {c}]
  /\ UNCHANGED <<limit, alive, phase, batch, cur, buf, armed, open, late, networkVars>>

Talk(c) == ClientStep(c) /\ UNCHANGED <<serverVars, networkVars>>

\* A reset may overtake what was on its way.
Leave(c) ==
  /\ ClientExit(c)
  /\ end' \in {[end EXCEPT ![c] = e] : e \in {arrived[c], up[c]}}
  /\ UNCHANGED <<serverVars, arrived>>

Next ==
  \/ \E s \in Shards : \/ Start(s) \/ ThreadStep(s)
                       \/ EpollWaitFails(s) \/ Killed(s)
  \/ \E c \in Conns : Arrive(c) \/ Connect(c) \/ Talk(c) \/ Leave(c)

Spec == Init /\ [][Next]_vars

Fairness ==
  /\ \A s \in Shards : WF_vars(ThreadStep(s))
  /\ \A c \in Conns : WF_vars(Arrive(c))
  /\ \A c \in Polite : WF_vars(Talk(c))

FairSpec == Spec /\ Fairness

-----------------------------------------------------------------------------
\* Properties.

\* A client that waits for its replies never raises SIGPIPE: whatever the
\* order of a batch, a thread sends to it at most once after it left (98).
NoSigpipe == \A s \in Shards : Sigpipe(s) => cur[s] \in Eager

\* The connection is in exactly one epoll instance, or about to be.
Watched(c) ==
  Cardinality({s \in Shards : \/ c \in armed[s]
                              \/ phase[s] \in {"send_size", "recv_hello"} /\ cur[s] = c}) = 1

\* A live client whose messages arrive whole and that waits for its replies
\* is never dropped: neither by its own thread (92, 101) nor because another
\* connection was mistaken for it.
StaysWatched ==
  \A c \in open \cap (Whole \ Eager) : client[c] # "gone" => Watched(c)

\* A thread only reads descriptors that are ready, however old its batch is
\* by the time it comes to them: a greeting may have kept it for long, but
\* no other thread or earlier entry has emptied or removed them (70-85).
BatchReady ==
  \A s \in Shards :
    /\ batch[s] \cap Conns \subseteq armed[s]
    /\ \A c \in batch[s] \cap Conns : arrived[c] > taken[c] \/ Ended(c)
    /\ Listener \in batch[s] => queue[s] # {}

\* See BatchReady; and no more is read than has arrived.
BatchInv == TypeOK /\ BatchReady

\* When no client stalls, so that no greeting keeps a thread for ever, every
\* client is told the message size, as long as the process is up (71-83).
Announced == []alive => \A c \in Polite : AnnouncedTo(c)

\* ... and the messages that arrive whole from a client that waits for its
\* replies are answered (84-103).
Answered == []alive => \A c \in Polite \cap (Whole \ Eager) : AnsweredTo(c)
=============================================================================
