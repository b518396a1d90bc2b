# Verification of echo-server

TLA+ models of the echo servers, the benchmark programs and the network card
drivers in this repository, checked with TLC on small instances, and theorems
about all of them that TLAPS proves for every size.

## 1. The system

The repository compares ways to write one and the same TCP echo server. Every
server follows the same protocol on a connection: it announces the message
size (an `int32_t` in network order), receives the two bytes `Hi`, and then
sends every message of that size back. The clients measure how many
operations (one message sent, its echo received) they complete.

| Component | Source | State | Operations | Hard part |
|---|---|---|---|---|
| sharded io_uring server | `io_uring_sharded.c` | per thread: a listener, a ring, one *threadlet* (pc, fd, buffer) per connection | handle a completion, prepare requests, submit | completions in any order, linked requests, one loop for many connections, bounded submission queue, submissions that fail, interrupted waits |
| blocking server | `simple.c` | per connection: a thread, a buffer | recv, send | partial sends, departures, SIGPIPE, descriptors never closed |
| io_uring per connection | `uring.c` | as above, and a ring of 2 entries | submit, wait, read a result | failed submissions, interrupted waits |
| io_uring, send and recv at once | `uring2.c` | as above, two buffers | submit both, wait for both, copy | buffer handed over while requests may be under way |
| epoll servers | `epoll_sharded.c`, `epoll_single.c` | per thread: a listener, an epoll set, one buffer | epoll_wait, accept and greet, recv, send | blocking greeting inside an event loop, batches that age, short counts |
| Go server | `go/simple/main.go` | per connection: a goroutine, a buffer | Read, Write | partial reads, errors that end the process |
| client and benchmark | `client.c` | threads, four semaphores, per-thread counts | connect, operate, measure, report | ordering by anonymous semaphores, counts shared without a lock |
| distributed benchmark | `driver.py`, `multiclient.c`, `dsync.c` | counters, flags and results in Redis; processes on hosts | claim a spot, start, measure, report | competing claims, crashes, commands that are not waited for |
| Go client | `go/client.go` | goroutines, two wait groups, two flags, per-goroutine counts | connect, operate, measure, report | flags read without waiting, short reads, a division by the measured time |
| network card drivers | `i10e.c`, `i10e.h`, `x710.c` | registers, two descriptor rings, DMA memory with its allocator | reset, hand over descriptors, send a frame or a command, poll | rings shared with hardware, order of register writes, ring indices that wrap |
| others | `setup-redis.c`, `go/pi.*`, `bench.py`, `cloudlab/`, `setup_vfio.py`, `Makefile` | none to speak of | | |

Servers and clients interact only through TCP. The threads of a server share
the process (one `exit` ends all), the descriptor table, and, in the sharded
servers, the port. The main thread and the client threads of a benchmark
share semaphores (or wait groups and flags) and an array; driver and processes
share Redis. A driver shares its descriptor rings and registers with its card.

What makes a server correct: the stream it writes to a client is the
announcement and then that client's own messages, whole and in order
(`EchoOk`, and with the place of every buffer `ReplyInv`, `UringIntact`, `Uring2Intact` and `GoEchoInv`), which is
stated abstractly as a service (`EchoService`); it gives up a connection only when
its client is gone (`Loyal`, `OneRequest`, `StaysWatched`, `LoyalToWhole`); no
client takes the process with it (`NoSigpipe`, `ExitCause`); and every client is
announced to and answered, whatever others do (`Announced`, `Answered` and its counterparts for the other servers). What
makes a benchmark correct: all load the server while one measures, and the
total is taken from final counts (`Rounds`), for which the tokens, flags or
spots must be neither lost nor doubled (`TokenInv`, `FlagInv`, `SpotInv`). What makes a driver
correct: the card reaches only memory that was allocated for what it does
there (`DmaInv`), the poll looks at what was received (`PollExact`), and the
program gets through its waits (`Completes`).

## 2. Modules

| Module | Models | Built on |
|---|---|---|
| `EchoService` | what a connection is promised | |
| `EchoClients` | the client threads (`client.c` 87-174), the TCP streams, the properties shared by all servers | `EchoService` (refined) |
| `UringShards` | `io_uring_sharded.c` | `EchoClients` |
| `ConnThreads` | accept loop and handshake of `simple.c`, `uring.c`, `uring2.c` | `EchoClients` |
| `ConnBuffers` | the buffer of a connection whose messages are read and answered one at a time | `ConnThreads` |
| `SimpleServer` | the echo loop of `simple.c` | `ConnBuffers` |
| `ConnRings` | a connection's ring, the kernel behind it, and the actions `uring.c` and `uring2.c` share | `ConnThreads` |
| `UringServer` | the echo loop of `uring.c` | `ConnRings` |
| `Uring2Server` | the echo loop of `uring2.c` | `ConnRings` |
| `RingServers` | either of the two runs | `UringServer`, `Uring2Server` |
| `EpollServer` | `epoll_sharded.c`; with one shard `epoll_single.c` | `EchoClients` |
| `GoServer` | `go/simple/main.go` | `ConnBuffers` |
| `Rounds` | what a benchmark round is | |
| `Bench` | `bench()` and `client()` of `client.c` | `Rounds` (refined) |
| `GoBench` | `bench()` and `client()` of `go/client.go` | `Rounds` (refined) |
| `DistBench` | `driver.py` with the processes of `multiclient.c` | `Rounds` (refined) |
| `NicRings` | what the drivers share: DMA allocator, VFIO set-up, a card with two descriptor rings | |
| `I10e`, `X710` | `i10e.c` with `i10e.h`; `x710.c` | `NicRings` |
| `Nics` | either driver with its card | `I10e`, `X710` |

Each `MC...` module extends one of these for TLC; the `.cfg` files give the constants
their values. The modules `...Proofs` hold the theorems (section 5): `ServiceProofs`
extends `EchoClients`; `UringShardsProofs` and `EpollProofs` extend it and their server, `ConnProofs` it and the four
servers that give each connection a thread or a goroutine (`SimpleServer`, `RingServers`, `GoServer`; their operators carry the server's
name where they would clash: `SimpleNext`, `UringNext`, `Uring2Next`, `GoNext`); `BenchProofs`,
`GoBenchProofs`, `DistProofs` and `NicProofs` extend what they are named for.
Operators called *slips* in the modules are plausible errors (a test left out,
a reset forgotten); they are not part of any specification. They serve to
see that each property fails when the code is wrong in that way.

### From code to state and actions

*Bytes.* A unit stands for two bytes: `Hi` is one unit, the announcement two,
a message `MsgUnits`. A unit a client writes is represented by its position in
the client's stream, so no two units of a connection are alike, and mixing,
reordering, repetition and loss all show in `down`. Streams of different
connections use the same positions; that they are not mixed is `OneRequest`
and the per-connection buffers, and shows in `EchoOk` through the positions
that would be repeated or skipped. `up` and `down` count or hold what each side
has written, `taken` and `got` what the other side has consumed.

*Clients.* `ClientStep` follows `client()`: hello, announcement, then an operation
at a time. A client of a connection in `Eager` writes one message ahead of the
replies, which the repository's clients do not do but the servers accept; the
properties that need a client that waits for its replies say so. A client in
`Polite` goes on until it leaves, others may stall for ever. Every client may leave
at any point (`ClientExit`), as the process does when a benchmark ends.

*UringShards.* A thread is at `submit`, `drain` (the loop over the completion
queue) or `advance`. `sq`, `inflight` and `cq` are the submission queue, the
requests the kernel has, and the completions posted. Every branch of the
`switch` on the threadlet's pc is an action (`OnNull`, `OnAccepted`, `OnHeader`, `OnMsg`),
including the requests it prepares. The kernel's actions (`K...`) do sends and
receives unit by unit, respect `IOSQE_IO_LINK` (`Blocked`), cancel the linked recv of
a failed send, and post completions also while the thread is draining. Where
`SubmitErrors` is set a submission may fail (`SubmitFails`): the code ignores the
result, so what was prepared stays in the queue for the next round. The wait that
follows may be interrupted while the completion queue is empty, which ends the process
(`WaitFails`, lines 94-98). `cause` is a history variable: why the process ended (`Exits`), for a full submission queue, a failed accept
or an interrupted wait.

*ConnThreads and its extensions.* `pc` is where a connection's thread is in
`handle_conn`. Blocking calls with `MSG_WAITALL` are one step that waits for the
whole length; a blocking send is one step for each unit that finds room in
the socket's buffers (`Capacity`). In `ConnRings` the thread submits and waits while the
kernel works in steps of its own. `SubmitErrors` lets `io_uring_submit` fail,
`Interrupts` lets waits end early. In `RingServers` the variable `program` says which of the two
servers runs, so that one run and one invariant serve both.

*EpollServer.* A thread is at `wait`, in a `batch`, in the blocking greeting
(`send_size`, `recv_hello`) of a new connection, or has received a message it
is to `reply` to. `armed` is its epoll set. `arrived` is what has come in of each stream: a
recv takes what is there. On the connections in `Whole` a message arrives in one
piece, which 64-byte messages on a local network mostly do. `limit` is the
descriptor limit the process was started under, one of `FdLimits`.

*SIGPIPE.* A send to a client that has left is answered with a reset; the next
send raises SIGPIPE, which no server ignores. `late` records the first and
`Sigpipe` describes the second, in `SimpleServer` and `EpollServer`. The io_uring
servers' sends cannot raise it.

*GoServer.* `Read` returns what has arrived, an announcement has eight bytes,
and a failure in the handshake or in a write ends the process (`Dies`). `conn.Write` of a message goes on until
all of it is written: it puts a unit into the socket's buffers whenever there is room (`WritePart`, `WriteRest`), as the
blocking send of `simple.c` does (`WritesUnit`). The announcement is one step: it is the first that is written and fits.

*Uring2Server, after an early wait.* `io_uring_wait_cqes` may return early, its result is
not looked at, and the head of the completion queue then moves past the tail. What
the thread reads from the queue afterwards is not defined by the code; the
model follows it through the copy (`CopyEarly`) to pc `astray`, where the kernel still
works on the two buffers and the thread can only find the submission queue full.

*Bench.* `main` is where the main thread is in `bench()`, `i` its loop counter, `pc`
where each client thread is. Semaphores are counters. `timed` says that
`runtime` was written. `Fail` is `exit(-1)` in any thread.

*GoBench.* `main` and `pc` are as in `Bench`. The wait groups `started` and `reported` are counters:
`Add` raises one before the goroutine starts, `Done` lowers it, `Wait` passes at zero. The two flags are
stored by the main goroutine and loaded by every goroutine before each operation
(`SeesMeasure`, `SeesReport`), so one of them may see both at once. `runtime` is -1 before it
is written and zero when two readings of the clock with no operation between
them agree; `DivideByZero` is the panic that follows. `Panic` is a short read or any
other failure of a goroutine.

*DistBench.* `driver` is where `main()` of `driver.py` is; `store` and `present` are
Redis, one action for each command; `pc` is where each process is in
`bench()` of `multiclient.c`. Processes called `old` come from an earlier round and
have yet to connect to Redis. `kills` are the `killall` commands sent
but not yet run, `dead` the processes they or an error ended. A process that
finds no spot or misses a key ends at `unclaimed` or `unflagged`.

*Rounds* is about any set of workers of which a number is `Wanted`: all threads in
`Bench` and `GoBench`; as many processes as there are hosts in `DistBench`, where processes left over
from earlier rounds compete for the spots.

*NicRings, I10e, X710.* `at` is where the program is, `next` the allocator's free address and
`mem` what it has handed out (`Allocate`, which exits when the region is used up). Addresses are
relative to the DMA region; `IovaOffset` is what `x710.c` adds so as not to use address 0. A ring
has a base, a head, a tail and a state, and the card owns the descriptors from head up to tail
(`Owned`). The card ends its reset (which clears its registers), starts a queue that was asked
for, and takes the descriptor at its head (`Take`), at any point between two steps of the program. The registers of a ring
are written one in each step (`Registers`, `SetUpQueue`; the two halves of a base address are one), in the order of the code; what
is written while the card resets is lost (`Write`), and `lost` records that it happened. `due` and `polled` are what `i10e.c` should and does look
at in its poll: its head is read first, frames go on arriving. Either queue of `x710.c` may fail
(`QueueFails`): a failed receive queue is the only other way out of the last wait, and a failed
transmit queue leaves the program there. The two bits of `GLGEN_RSTAT` that show
a reset take the values in `ResetValues`, of which no source excludes any: the runs take all three. In `i10e.c`, which looks at
all the bits, they stand for any sign that the reset goes on.

## 3. Runs

The runs of servers use two connections, unless one shows what is looked for: a server
keeps no state that relates more than two connections (a batch of completions, an accept
queue, a descriptor limit), and two suffice for one to act between any two steps of the
other. Usually the two differ: one client waits for its replies and goes on, the
other writes ahead, may stall, and may send in pieces; both may leave at any
point. Messages have two units so that each can be cut, and clients
send two messages so that one follows on the other's buffer. `Capacity` 3 lets a
client that writes ahead fill the buffers towards it in the middle of a reply.
`CHECK_DEADLOCK FALSE` is set everywhere: clients stop after `MaxMsgs` messages, leave, or the
process exits, a server that waits for a client that sends nothing more is right, and the
benchmarks and drivers end.

| Run | Checks | Bounds |
|---|---|---|
| `UringShards` | `OneAccept`: each listener has exactly one accept; `IInv`, an invariant of the proofs; `Announced`, `Answered` | one ring of 5 entries (two for each connection and one), messages of one unit, one client may stall, submissions succeed, waits may be interrupted |
| `UringService` | `OneRequest`: a threadlet has exactly one request or completion; `EchoOk`; `ExitCause`: why the process ends; `ReplyStable`: no reply is overwritten while it is sent; `ServiceSpec`: implements `EchoService` | one client writes ahead; submissions fail and waits are interrupted; the limit of two descriptors is reached, so accept fails |
| `Simple` | `ReplyInv`: replies are whole, from the thread's own buffer, and raise no SIGPIPE; `ServiceSpec`, `Announced`, `SimpleAnswered` | one client writes ahead and may stall |
| `RingServers` | `UringIntact`: replies of `uring.c` are whole and in order, a ring never holds more than its two entries; `Uring2Intact`: the same of `uring2.c` until a wait ends early; `Loyal`: a thread ends only when its client left; `UringAnswers`, `Uring2Answers` | either server; failed submissions, interrupted waits |
| `Epoll` | `EchoOk`, `BatchInv`: an entry of a batch is still right when it is served; `NoSigpipe`, `StaysWatched`, `Announced`, `Answered` | two shards; one connection in pieces and writing ahead, one whole; limits of one and two descriptors; interrupts |
| `Bench` | `TokenInv`, `RoundSpec`: implements `Rounds`; `Finishes` | three threads, two operations counted by each |
| `GoBench` | `FlagInv`, `RoundSpec`, `Finishes` | three goroutines, two operations counted by each |
| `Dist` | `SpotInv`, `TotalComplete`, `RoundSpec`, `Finishes` | two hosts, one with a leftover process; late kills and failures anywhere |
| `Go` | `GoEchoInv`, `LoyalToWhole` | one connection in pieces and writing ahead, one whole; room for the eight bytes of the announcement |
| `GoAnnounce` | fails: `EchoOk` | one connection |
| `Nics` | `DmaInv`, `PollExact`, `Completes` | both drivers; rings of 32 descriptors, of which `x710.c` posts 16; a region of 64 MB; resets that show 1, 2 or 3; queues of the X710 that fail |
| `X710Reset` | fails: `QueuesSet`, the queues of `x710.c` are enabled with their memory once their registers were written | as `Nics` |

The type invariant of a module is part of the first invariant of its run (`IInv`,
`ReplyInv`, `UringIntact`, `Uring2Intact`, `GoEchoInv`, `BatchInv`, `TokenInv`, `FlagInv`, `SpotInv`, `DmaInv`). In `ConnRings` it also says
that a ring of two entries suffices, in `EpollServer` and `GoServer` that no more is
consumed than has arrived.

The drivers' rings have 128 descriptors. They are checked with 32, enough for the 16 that
`x710.c` posts and for `i10e.c` to receive up to the last descriptor it gave; no test in the code compares an index with
anything but the ring's length and the number posted, and a ring must be a multiple of 8 long
because `i10e.c` exits otherwise (297). The run passes with 128 as well (19991
states), more slowly.

Conditions on these results that a reader should know:

- `Announced` and `Answered` hold as long as the process is up: every server may
  be ended by the descriptor limit, the io_uring and epoll servers by an interrupted wait, and
  `simple.c` and the epoll servers by SIGPIPE.
- `ExitCause` does not say that `io_uring_sharded.c` stays up: an interrupted wait ends it any time.
  It says that nothing else does while the submission queue has room for two entries a connection accepted so far
  and one more, and descriptors are left.
- The epoll servers keep a connection (`StaysWatched`) only if its messages arrive whole,
  its client waits for its replies, and a message fits the socket's buffers. They announce
  only if no client stalls in its greeting: `Polite` holds both connections in `Epoll`,
  because the greeting blocks the thread and with it the other connections.
- The epoll servers echo rightly (`EchoOk`) only if a message is longer than `Hi`. With messages of
  two bytes, a connection whose announcement failed is put in the epoll set all the same, and its
  `Hi` is taken for a message and sent back.
- `uring.c` and `uring2.c` answer only while submissions succeed, and `uring2.c` only
  while no wait ends early. They keep a waiting client (`Loyal`) only if a message fits the socket's
  buffers (`MsgUnits <= Capacity`): otherwise a send may be cut short, which the code
  takes for the end.
- In `io_uring_sharded.c` a failed submission loses and doubles nothing (`OneRequest`), but if nothing
  is with the kernel at that moment the thread waits for ever: liveness is checked where
  submissions succeed. That a submission takes a part of the queue is not modelled.
- `NoSigpipe` is about clients that wait for each reply. One that writes ahead and leaves
  can end `simple.c` and the epoll servers with SIGPIPE; the io_uring servers it cannot.
- The driver finishes only if no process it started is lost and no leftover process takes a
  spot: nothing replaces a process that is gone. It never prints a wrong total.
- `Go` says nothing of liveness: a failure of any connection ends the process (`Dies`). The Go client
  prints its total, or ends in a panic: of a goroutine, or of the division by a runtime of zero.
- `DmaInv` and `Completes` make an exception for `x710.c` after it wrote registers during a reset (`lost`), which the run
  `X710Reset` shows to happen: its queues may then be off, have no memory, or have half of what was written.
  With resets that show 1 or 3 only, `QueuesSet` holds. `Completes` also leaves out a transmit queue that has failed, for which
  the last wait of `x710.c` does not look. `i10e.c` has no such exception.

### Fairness

Threads of a server and the kernel's work are weakly fair: the scheduler runs
what can run, and a request that can make progress does. Steps are grouped
by the thread or request that takes them. Arrival of what was sent is fair
(TCP retransmits). Clients in `Polite` go on until they leave; other clients
may stall for ever, and no client is obliged to connect or to leave. No
strong fairness is needed: no action competes with another that disables it
again and again. For the benchmarks, threads are scheduled and operations
end, which is what `Answered` and its counterparts say of a server. For the drivers, the program
runs, and the card ends its reset, starts its queues and sends (`CardWork`); nothing need
ever arrive, and the VFIO set-up need not end, as its walk over the IOMMU's
capabilities may not (section 4).

## 4. What disagrees with the repository's own words

Shown by a run:

- `GoAnnounce`: eight bytes are announced where clients read four.
- `X710Reset`: `x & 0b11 != 0` (`x710.c` 260) is `x & (0b11 != 0)`, so one of the two bits that show a
  reset is looked at (`ResetSeen`). Of a card that shows 2 the program thinks that it is through, and the registers it then writes
  ("Set base and length registers for each queue. Set length.enable to 1.", 271) are lost.

In the models, without a run of their own:

- The test after `io_uring_submit` looks at the function `err` instead of the result
  (`uring.c` 60-61, 85; `uring2.c` 76): `SubmitErrors` shows in `RingServers` what a failure leads to.
- The comment at `epoll_sharded.c` 96-97 asks for the connection to be put
  on the epoll instance when a reply does not fit; the code takes it off (99-103).
- The comment "`send` and `recv` both done at this point" (`uring2.c` 91) does not hold
  after an interrupted wait (`WaitInterrupted`, `CopyEarly`).
- No server closes a connection, so `bench.py`'s ten clients in a row
  (1023 connections) run into the usual limit of 1024 descriptors, and the
  server exits (`MainAcceptFail`, `RingAcceptFail`, `KAcceptFail`).
- "ending conn" (`go/simple/main.go` 22, 29) ends the process (`Dies`).
- The walk over the IOMMU's capabilities (`i10e.c` 166, `x710.c` 131) adds an offset in bytes to a
  pointer to larger elements (`SetUp`, `SetUpFails`).

## 5. Proofs

The theorems hold for any finite sets of connections, threads, goroutines, hosts and shards, any
sizes and any limits, from the named assumptions on the constants only, unless a theorem says
otherwise. An invariant `Inv` is proved through an inductive one that implies it, with a lemma for
each group of actions and a step for each conjunct the actions can disturb.

**The sharded io_uring server** (`UringShardsProofs`).

- `TypeCorrect`: `Spec => []TypeOK`. `Inductive`: `Spec => []IInv`.
- `ExitsExplained`: `Spec => []ExitCause`. The process exits for a full submission queue only
  when 2n+1 entries do not suffice for the n connections accepted, for a failed
  accept only when no descriptor is left, and otherwise only because a wait was interrupted. With the 4096 entries of the code
  the first needs more than 2047 connections on a thread.
- `RequestsExact` (`OneRequest`), `AcceptsExact` (`OneAccept`).
- `EchoesExact` (`EchoOk`), `RepliesStable` (`ReplyStable`), `ShardsServe` (`ServiceSpec`).

`ExitCause` is not inductive: that a batch of completions prepares no more than
two entries a connection depends on no threadlet having two completions in
the batch, and that on where each threadlet's only request is. `IInv` says
that. `RoomInv` bounds the submission queue by twice the threadlets with a recv in it
(and one for the accept); `RequestInv` says that a request is prepared or
with the kernel and never both, and belongs to an accepted connection;
`CompletionInv` that the owner of an unread completion has no request of
its own, and that an accept fails only at the descriptor limit;
`OwnerInv` that no two unread completions have the same owner; `OffInv` and `QueueInv` place
what has not started and who has not been accepted. There is one lemma
for each group of actions: preparing entries (`AppendPrepared`), reading a
completion (`ReadOne`, `HandleInv`), the kernel posting one (`PostInv`, `AcceptInv`),
submitting (`SubmitInv`), advancing (`AdvanceInv`), and the rest (`FrameInv`).

Exactness needs more than `IInv`, which allows a request to be lost. `OwnInv` adds that no recv or
accept is prepared twice (`OnceInv`), that a threadlet has its request on one shard only
(`ApartInv`), that a recv fails only when the client has left (`LostInv`), and that until then
nothing is lost (`HeldInv`). The echo rests on `EchoInd`: a send to a threadlet is never there without
the recv behind it (`PairInv`), the announcement is sent once (`SizeInv`), and for each connection
how far it has asked, what its stream holds, and what its buffer holds (`Asking`, `Stream`, `Buffer`): the buffer
changes only while no send is under way. `ShardsServe` adds that a client writes whole messages (`Cut`) and that a
reply is sent only for a message that was consumed (`Paid`).

**Refinement of the service** (`ServiceProofs`), for every server but the Go server, whose announcement breaks it. `EchoClients` maps the streams to
completed slots of `EchoService`: a unit count divided by the size of a message. The proofs of `ServiceSpec` share
lemmas: division (`DivUnique` to `DivAdd`), the initial state (`InitMapped`), and that a
step which writes at most one message's units to a connection completes at most one slot, with the right echo in
it, or stutters (`ServiceMove`, `ServiceNext`); that a client asks in whole messages, and only
after it was announced to (`CutAsked`, `CutKept`, `ClientServes`, `GreetServes`, `WriteServes`).

**The blocking server** (`ConnProofs`): `RepliesWhole` (`ReplyInv`), `SimpleEchoes` (`EchoOk`), `SimpleServes`
(`ServiceSpec`). The invariant has three parts for each connection: while a reply is being sent it is
the message consumed last, cut where the stream ends; what is queued towards the thread follows on what it consumed;
and a client that waits for its replies has at most one message under way. The last
bounds the sends after a departure, which is why SIGPIPE is not raised.

**The servers with a ring for each connection** (`ConnProofs`), with failed submissions, early
waits, completions and clients interleaved in every way.

- Of both (`RingServersSpec`): `UringEchoes` (`UringIntact`) and `Uring2Echoes` (`Uring2Intact`) from the assumptions on the constants
  alone; `RingsLoyal` (`Loyal`) if a message fits the socket's buffers.
- `UringServes` (`ServiceSpec`) for `uring.c` (`UringSpec`), likewise from the assumptions alone; `Uring2Serves` (`ServiceSpec`) for `uring2.c` (`Uring2Spec`) if no
  wait is interrupted (`~Interrupts`). After an interrupted wait the two requests
  are still under way in buffers the thread reuses, and the echo may be wrong.

None of `UringIntact`, `Uring2Intact` and `Loyal` is inductive: they depend on what is with the kernel. The invariant (`RingsInv`, of the parts `UringSound` and
`Uring2Sound`) says for each connection: who waits for accept has no thread yet (`Queued`); nothing is consumed
or answered before it is written, a waiting client is at most one message ahead, and the stream so far is
its own (`Talking`); and, by where the thread is, what its ring and its buffers hold (`UringAt`, `Uring2At`). In `uring.c` there is
never more than one request or completion. In `uring2.c` the two requests are submitted together or not at
all (`Together`), and progress in one must not disturb the other: `Exchanging` gives for both, finished or not, how many units are
in the stream and in the buffer; `Owing`, which also survives an early wait, says that a send under way
sends the units the client is owed next. A completion that tells of an error needs an excuse (`Excused`): the client
left, writes ahead, or the message did not fit. The lemmas on what changes (`OneClient`,
`RingStill`) are shared by both servers.

**The epoll servers** (`EpollProofs`): `BatchesValid` (`BatchInv`), `OwnersDiffer`, and, for messages longer than
`Hi` (`MsgUnits > HelloUnits`), `EpollEchoes` (`EchoOk`), `EpollNoSigpipe` (`NoSigpipe`),
`EpollServes` (`ServiceSpec`), and, if also a message fits the buffers (`MsgUnits <= Capacity`), `EpollKeeps` (`StaysWatched`). `OwnerInv`: no connection belongs to two threads, or
to a queue and an epoll set at once. With it an entry of a batch can only be outdated by
its own thread, which serves each entry once. `EchoInd` says of each connection whether it was
greeted rightly, whose turn it is, what a failed greeting leaves behind, and what the thread's one
buffer holds while it replies. `ServiceSpec` of `EpollServer` has no run (TLC confirms it in the instance of `Epoll`, in minutes).

**The Go server** (`ConnProofs`): `GoEchoes` (`GoEchoInv`), `GoLoyal` (`LoyalToWhole`). For each connection: the
units queued follow on those consumed, the stream is framed by the
announcement, what a write has yet to write is the rest of the message consumed last, and every read began at the start of a message unless one came in pieces.

**The benchmarks.** `BenchProofs`: `TokensExact` (`TokenInv`), `BenchIsRound` (`RoundSpec`). The invariant
counts the threads at each place: a semaphore holds as many tokens as were posted by threads past the post and not
yet taken, which is inductive only together with the loop counter of the main
thread. `GoBenchProofs`: `FlagsExact` (`FlagInv`), `GoBenchIsRound` (`RoundSpec`); there the counts are those of the wait groups, and the flags
order the stages. `DistProofs`: `SpotsSuffice` (`SpotInv`), `ReportsComplete`,
`TotalsComplete` (`TotalComplete`) and `DriverRounds` (`RoundSpec`). Its invariant
relates the counters in Redis to the processes past each command, for any
number of leftover processes (`SpotsInv`, `CountersInv`, `FlagsInv`, `StartInv`). `SumsInv` adds that the list in Redis sums to
the counts of the processes that pushed to it, an equation between folds over different sets. What a fold is for every finite set
is proved from a least counterexample (`Least`, from `WFMin`), in place of an induction theorem. In all three a step moves
one worker from one set to another; the lemmas `CountMoved` and `CountPart` say what that does to
the cardinalities.

**The drivers** (`NicProofs`), for a ring of any length that is a multiple of 8 and a region of any size.

- `OnlyItsMemory` (`DmaInv`), whatever the card shows of its reset: either driver's card reaches only memory allocated for it, except
  that of `x710.c` once registers were written during a reset; `i10e.c` never does that.
- `I10eOnlyItsMemory`: so `DmaSafe` holds of `i10e.c` without exception.
- `PollsWhatArrived` (`PollExact`): the loop of `i10e.c` looks at exactly the descriptors the card had filled when RDH was read.
  Its comparison of indices is not modulo the length of the ring, and needs not be: `CardInv` says that no head passes its tail, so
  none wraps.

`DmaInv` is about addresses, the invariant about which allocation an address comes from. `IndInv` says how many allocations there are
at each step of the program (`Allocated`), that they follow each other (`Stacked`), which of them each ring and each descriptor
uses (`RingAt`, `BufferAt`, `DescInv`), and how far each queue has been set up (`RxInv`, `TxInv`). `CardInv` says that the card resets only while the program waits for it or,
in `x710.c`, shows a value the program takes for the end. `NicInv` is this invariant until a register is
written during a reset, and from then on (`LostInv`) only the types and that the program is `x710.c`.

Only model-checked:

- All liveness: fairness and ENABLED are outside what the prover handles.

## 6. Not modelled

- The byte generator (`client.c` 20-24), `go/pi.*`, scripts: no state that anything depends on.
- `setup-redis.c`: the `Makefile` does not build it and it does not compile (identifiers
  declared nowhere); an unfinished copy of what `driver.py` does.
- Of the drivers: link state, statistics, the capabilities the IOMMU reports, and the registers
  `x710.c` prints at its end. They are read or printed and nothing follows from them.
- Set-up failures of a server (`socket`, `bind`, `listen`), `pthread_create`,
  `io_uring_queue_init` and `malloc` failing. The first end the process before it
  serves; the others are not tested by the code, and what follows is undefined.
- Submissions that take a part of the queue.
- The start of Redis by `driver.py` (8-15, 78), and losing the connection to it.
- Times: how long phases last, and the arithmetic on clock readings, but for a runtime of zero in
  `go/client.go`.

## 7. What is left

In this order:

1. Submissions that take a part of the queue, and the liveness that is left when they fail.
2. The start of Redis, and a driver that loses its connection to it.
