------------------------------- MODULE Bench -------------------------------
(***************************************************************************)
(* client.c: the main thread starts the client threads, waits until each   *)
(* has done one operation, lets them warm up, and then starts and stops    *)
(* their measurement with semaphores that any thread may take from.  What  *)
(* an operation does is EchoClients; here it succeeds, or the process      *)
(* exits.                                                                  *)
(***************************************************************************)
EXTENDS Integers, FiniteSets, Functions

CONSTANTS
  Threads,
  MaxOps  \* bound: operations a thread counts

ASSUME BenchAssumption == IsFiniteSet(Threads) /\ Threads # {} /\ MaxOps \in Nat

VARIABLES
  alive,           \* the process has not called exit(-1)
  main,            \* where the main thread is in bench()
  i,               \* the counter of its loop
  pc,              \* where each thread is in client()
  started, should_measure, should_report, reported,  \* the semaphores
  num_ops,         \* args[t].num_ops
  timed,           \* args[t].runtime has been written
  printed          \* the total, or -1

sems == <<started, should_measure, should_report, reported>>
args == <<num_ops, timed>>
vars == <<alive, main, i, pc, sems, args, printed>>

N == Cardinality(Threads)

TypeOK ==
  /\ alive \in BOOLEAN
  /\ main \in {"create", "started", "warmup", "measure", "measuring", "report",
               "reported", "sum", "exit"}
  /\ i \in 0..(N - 1)
  /\ pc \in [Threads -> {"none", "connect", "warmup", "measure", "operate", "stop",
                    "post", "after"}]
  /\ started \in Nat /\ should_measure \in Nat /\ should_report \in Nat /\ reported \in Nat
  /\ num_ops \in [Threads -> Nat]
  /\ timed \in [Threads -> BOOLEAN]

Init ==
  /\ alive = TRUE
  /\ main = "create" /\ i = 0
  /\ pc = [t \in Threads |-> "none"]
  /\ started = 0 /\ should_measure = 0 /\ should_report = 0 /\ reported = 0
  /\ num_ops = [t \in Threads |-> 0]
  /\ timed = [t \in Threads |-> FALSE]
  /\ printed = -1

-----------------------------------------------------------------------------
\* The main thread: one step for each turn of a loop over i.

Turn(at, next) ==
  /\ alive /\ main = at
  /\ main' = IF i + 1 = N THEN next ELSE at
  /\ i' = (i + 1) % N
  /\ UNCHANGED <<alive, args, printed>>

Create ==
  /\ Turn("create", "started")
  /\ \E t \in Threads : pc[t] = "none" /\ pc' = [pc EXCEPT ![t] = "connect"]
  /\ UNCHANGED sems

\* A slip: the main thread waits for the first thread only.
WaitStartedShort ==
  /\ alive /\ main = "started"
  /\ started > 0 /\ started' = started - 1
  /\ main' = "warmup"
  /\ UNCHANGED <<alive, i, args, printed, pc, should_measure, should_report, reported>>

WaitStarted ==
  /\ Turn("started", "warmup")
  /\ started > 0 /\ started' = started - 1
  /\ UNCHANGED <<pc, should_measure, should_report, reported>>

Sleep(from, to) ==
  /\ alive /\ main = from
  /\ main' = to
  /\ UNCHANGED <<alive, i, pc, sems, args, printed>>

PostMeasure ==
  /\ Turn("measure", "measuring")
  /\ should_measure' = should_measure + 1
  /\ UNCHANGED <<pc, started, should_report, reported>>

\* A slip: one thread too few is told to stop.
PostReportShort ==
  /\ Turn("report", "reported")
  /\ should_report' = IF i = 0 THEN should_report ELSE should_report + 1
  /\ UNCHANGED <<pc, started, should_measure, reported>>

PostReport ==
  /\ Turn("report", "reported")
  /\ should_report' = should_report + 1
  /\ UNCHANGED <<pc, started, should_measure, reported>>

WaitReported ==
  /\ Turn("reported", "sum")
  /\ reported > 0 /\ reported' = reported - 1
  /\ UNCHANGED <<pc, started, should_measure, should_report>>

Aggregate ==
  /\ alive /\ main = "sum"
  /\ main' = "exit"
  /\ printed' = SumFunctionOnSet(num_ops, Threads)
  /\ UNCHANGED <<alive, i, pc, sems, args>>

MainStep ==
  \/ Create \/ WaitStarted \/ Sleep("warmup", "measure") \/ PostMeasure
  \/ Sleep("measuring", "report") \/ PostReport \/ WaitReported \/ Aggregate

-----------------------------------------------------------------------------
\* A client thread, until exit(0) in the main thread.

Goes(t, from, to) ==
  /\ alive /\ main # "exit"
  /\ pc[t] = from
  /\ pc' = [pc EXCEPT ![t] = to]
  /\ UNCHANGED <<alive, main, i, printed>>

\* Connected, greeted, one operation done.
FirstOperation(t) ==
  /\ Goes(t, "connect", "warmup")
  /\ started' = started + 1
  /\ UNCHANGED <<should_measure, should_report, reported, args>>

\* sem_trywait(&should_measure); an operation of the warm-up changes nothing.
TakeMeasure(t) ==
  /\ Goes(t, "warmup", "measure")
  /\ should_measure > 0 /\ should_measure' = should_measure - 1
  /\ num_ops' = [num_ops EXCEPT ![t] = 0]
  /\ UNCHANGED <<started, should_report, reported, timed>>

\* sem_trywait(&should_report) fails, and an operation begins and ends.
Operation(t) ==
  /\ Goes(t, "measure", "operate")
  /\ should_report = 0
  /\ num_ops[t] < MaxOps
  /\ UNCHANGED <<sems, args>>

Counted(t) ==
  /\ Goes(t, "operate", "measure")
  /\ num_ops' = [num_ops EXCEPT ![t] = @ + 1]
  /\ UNCHANGED <<sems, timed>>

TakeReport(t) ==
  /\ Goes(t, "measure", "stop")
  /\ should_report > 0 /\ should_report' = should_report - 1
  /\ UNCHANGED <<started, should_measure, reported, args>>

Stop(t) ==
  /\ Goes(t, "stop", "post")
  /\ timed' = [timed EXCEPT ![t] = TRUE]
  /\ UNCHANGED <<sems, num_ops>>

\* The thread then goes on with operations for ever, without counting.
PostReported(t) ==
  /\ Goes(t, "post", "after")
  /\ reported' = reported + 1
  /\ UNCHANGED <<started, should_measure, should_report, args>>

\* exit(-1) on an error, in any thread.
Fail ==
  /\ alive /\ main # "exit"
  /\ \E t \in Threads : pc[t] # "none"
  /\ alive' = FALSE
  /\ UNCHANGED <<main, i, pc, sems, args, printed>>

ThreadStep(t) ==
  \/ FirstOperation(t) \/ TakeMeasure(t) \/ Operation(t) \/ Counted(t)
  \/ TakeReport(t) \/ Stop(t) \/ PostReported(t)

Next == MainStep \/ Fail \/ \E t \in Threads : ThreadStep(t)

Spec == Init /\ [][Next]_vars

\* Threads are scheduled, and operations end (the server answers).
Fairness == WF_vars(MainStep) /\ \A t \in Threads : WF_vars(ThreadStep(t))

FairSpec == Spec /\ Fairness

-----------------------------------------------------------------------------
\* Properties.

Measuring(t) == pc[t] \in {"measure", "operate", "stop"}

At(places) == {t \in Threads : pc[t] \in places}
Late == {"post", "after"}
Measured == {"measure", "operate", "stop"} \cup Late
Greeted == {"warmup"} \cup Measured

\* Threads not created, and those past each of the four semaphores.
Fresh == Cardinality(At({"none"}))
Warm == Cardinality(At(Greeted))
Begun == Cardinality(At(Measured))
Stopped == Cardinality(At({"stop"} \cup Late))
Done == Cardinality(At({"after"}))

\* How often main has passed a point of its loop at one place: i times while
\* it is there, not at all before, N times after.
Passed(place, before) == IF main \in before THEN 0 ELSE IF main = place THEN i ELSE N

\* Every token is where it was posted, or has been taken by one thread that
\* had none of its kind before.
Tokens ==
  /\ N - Fresh = Passed("create", {})
  /\ Warm - started = Passed("started", {"create"})
  /\ should_measure + Begun = Passed("measure", {"create", "started", "warmup"})
  /\ should_report + Stopped
       = Passed("report", {"create", "started", "warmup", "measure", "measuring"})
  /\ Done - reported
       = Passed("reported", {"create", "started", "warmup", "measure", "measuring", "report"})

\* A runtime is written before it is reported, and what has been printed is
\* the sum of counts that are still the same.
Settled ==
  /\ \A t \in Threads : timed[t] <=> pc[t] \in Late
  /\ \A t \in Threads : pc[t] \in {"none", "connect", "warmup"} => num_ops[t] = 0
  /\ printed = IF main = "exit" THEN SumFunctionOnSet(num_ops, Threads) ELSE -1

\* The semaphores carry no names: a token is never lost and never taken by a
\* thread that has had its own, so each thread gets one of each kind
\* (118-172, 188-219), and what the main thread divides and adds up at the
\* end (221-230) has been written and is final.
TokenInv == TypeOK /\ Tokens /\ Settled

StageOf(t) == CASE pc[t] \in {"none", "connect"} -> "preparing"
                [] pc[t] = "warmup" -> "ready"
                [] Measuring(t) -> "measuring"
                [] OTHER -> "reported"

Round == INSTANCE Rounds WITH
  Workers <- Threads,
  Wanted <- N,
  stage <- [t \in Threads |-> StageOf(t)],
  count <- num_ops,
  total <- printed

\* A run of the client is a benchmark round (176-235).
RoundSpec == Round!Spec

\* The client prints its totals, or exits because an operation failed.
Finishes == <>(main = "exit" \/ ~alive)
=============================================================================
