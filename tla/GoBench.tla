------------------------------ MODULE GoBench ------------------------------
(***************************************************************************)
(* go/client.go: the benchmark of client.c with goroutines.  Where that    *)
(* one hands out tokens, this one waits on wait groups and sets two flags  *)
(* that every goroutine reads before each operation.  What an operation    *)
(* does is EchoClients; here it succeeds, or a panic ends the process.     *)
(***************************************************************************)
EXTENDS Integers, FiniteSets, Functions

CONSTANTS
  Goroutines,
  MaxOps  \* bound: operations a goroutine counts

ASSUME GoBenchAssumption ==
  IsFiniteSet(Goroutines) /\ Goroutines # {} /\ MaxOps \in Nat

VARIABLES
  alive,         \* no goroutine has panicked
  main,          \* where the main goroutine is in bench()
  pc,            \* where each goroutine is in client()
  started, reported,            \* the wait groups
  shouldMeasure, shouldReport,  \* the flags
  numOps,        \* args[i].numOps
  runtime,       \* args[i].runtime in some unit of time, or -1 before it is written
  printed        \* the total, or -1

groups == <<started, reported>>
flags == <<shouldMeasure, shouldReport>>
args == <<numOps, runtime>>
vars == <<alive, main, pc, groups, flags, args, printed>>

N == Cardinality(Goroutines)

TypeOK ==
  /\ alive \in BOOLEAN
  /\ main \in {"create", "started", "warmup", "measuring", "reported", "sum", "exit"}
  /\ pc \in [Goroutines -> {"none", "connect", "warmup", "measure", "operate", "stop",
                       "done", "after"}]
  /\ started \in Nat /\ reported \in Nat
  /\ shouldMeasure \in BOOLEAN /\ shouldReport \in BOOLEAN
  /\ numOps \in [Goroutines -> Nat]
  /\ runtime \in [Goroutines -> {-1, 0, 1}]

Init ==
  /\ alive = TRUE
  /\ main = "create"
  /\ pc = [g \in Goroutines |-> "none"]
  /\ started = 0 /\ reported = 0
  /\ shouldMeasure = FALSE /\ shouldReport = FALSE
  /\ numOps = [g \in Goroutines |-> 0]
  /\ runtime = [g \in Goroutines |-> -1]
  /\ printed = -1

-----------------------------------------------------------------------------
\* The main goroutine.

MainGoes(from, to) ==
  /\ alive /\ main = from
  /\ main' = to

\* One turn of the loop: Add before the goroutine that will call Done.
Create ==
  /\ alive /\ main = "create"
  /\ \E g \in Goroutines : pc[g] = "none" /\ pc' = [pc EXCEPT ![g] = "connect"]
  /\ started' = started + 1 /\ reported' = reported + 1
  /\ UNCHANGED <<alive, main, flags, args, printed>>

Created ==
  /\ MainGoes("create", "started")
  /\ \A g \in Goroutines : pc[g] # "none"
  /\ UNCHANGED <<alive, pc, groups, flags, args, printed>>

\* A slip: the warm-up begins without the wait.
WaitStartedSkipped ==
  /\ MainGoes("started", "warmup")
  /\ UNCHANGED <<alive, pc, groups, flags, args, printed>>

WaitStarted ==
  /\ MainGoes("started", "warmup")
  /\ started = 0
  /\ UNCHANGED <<alive, pc, groups, flags, args, printed>>

\* The two Stores come after a sleep each.
StoreMeasure ==
  /\ MainGoes("warmup", "measuring")
  /\ shouldMeasure' = TRUE
  /\ UNCHANGED <<alive, pc, groups, shouldReport, args, printed>>

StoreReport ==
  /\ MainGoes("measuring", "reported")
  /\ shouldReport' = TRUE
  /\ UNCHANGED <<alive, pc, groups, shouldMeasure, args, printed>>

WaitReported ==
  /\ MainGoes("reported", "sum")
  /\ reported = 0
  /\ UNCHANGED <<alive, pc, groups, flags, args, printed>>

\* An integer division by a runtime of zero panics.
Aggregate ==
  /\ \A g \in Goroutines : runtime[g] # 0
  /\ MainGoes("sum", "exit")
  /\ printed' = SumFunctionOnSet(numOps, Goroutines)
  /\ UNCHANGED <<alive, pc, groups, flags, args>>

DivideByZero ==
  /\ alive /\ main = "sum"
  /\ \E g \in Goroutines : runtime[g] = 0
  /\ alive' = FALSE
  /\ UNCHANGED <<main, pc, groups, flags, args, printed>>

MainStep ==
  \/ Create \/ Created \/ WaitStarted \/ StoreMeasure \/ StoreReport
  \/ WaitReported \/ Aggregate \/ DivideByZero

-----------------------------------------------------------------------------
\* A goroutine of client(), until bench() returns and the process exits.

Goes(g, from, to) ==
  /\ alive /\ main # "exit"
  /\ pc[g] = from
  /\ pc' = [pc EXCEPT ![g] = to]
  /\ UNCHANGED <<alive, main, flags, printed>>

\* Connected, greeted, the size read; no operation yet.
Handshake(g) ==
  /\ Goes(g, "connect", "warmup")
  /\ started' = started - 1
  /\ UNCHANGED <<reported, args>>

\* An operation of the warm-up changes nothing; the flag is seen between two.
SeesMeasure(g) ==
  /\ Goes(g, "warmup", "measure")
  /\ shouldMeasure
  /\ UNCHANGED <<groups, args>>

Operation(g) ==
  /\ Goes(g, "measure", "operate")
  /\ ~shouldReport
  /\ numOps[g] < MaxOps
  /\ UNCHANGED <<groups, args>>

Counted(g) ==
  /\ Goes(g, "operate", "measure")
  /\ numOps' = [numOps EXCEPT ![g] = @ + 1]
  /\ UNCHANGED <<groups, runtime>>

SeesReport(g) ==
  /\ Goes(g, "measure", "stop")
  /\ shouldReport
  /\ UNCHANGED <<groups, args>>

\* A slip: Done comes before the runtime is written.
StopUntimed(g) ==
  /\ Goes(g, "stop", "done")
  /\ UNCHANGED <<groups, args>>

\* Two readings of the clock with no operation between them may be equal.
Stop(g) ==
  /\ Goes(g, "stop", "done")
  /\ \E r \in (IF numOps[g] = 0 THEN {0, 1} ELSE {1}) : runtime' = [runtime EXCEPT ![g] = r]
  /\ UNCHANGED <<groups, numOps>>

\* A slip: Done is forgotten.
DoneForgotten(g) ==
  /\ Goes(g, "done", "after")
  /\ UNCHANGED <<groups, args>>

\* The goroutine then goes on with operations for ever, without counting.
Done(g) ==
  /\ Goes(g, "done", "after")
  /\ reported' = reported - 1
  /\ UNCHANGED <<started, args>>

\* panic() in a goroutine that cannot connect, write or read all it wants.
Panic ==
  /\ alive /\ main # "exit"
  /\ \E g \in Goroutines : pc[g] # "none"
  /\ alive' = FALSE
  /\ UNCHANGED <<main, pc, groups, flags, args, printed>>

GoroutineStep(g) ==
  \/ Handshake(g) \/ SeesMeasure(g) \/ Operation(g) \/ Counted(g)
  \/ SeesReport(g) \/ Stop(g) \/ Done(g)

Next == MainStep \/ Panic \/ \E g \in Goroutines : GoroutineStep(g)

Spec == Init /\ [][Next]_vars

\* Goroutines are scheduled, and operations end (the server answers).
Fairness == WF_vars(MainStep) /\ \A g \in Goroutines : WF_vars(GoroutineStep(g))

FairSpec == Spec /\ Fairness

-----------------------------------------------------------------------------
\* Properties.

At(places) == {g \in Goroutines : pc[g] \in places}
Early == {"none", "connect", "warmup"}
Measuring == {"measure", "operate", "stop"}

\* A wait group counts the goroutines that have yet to call Done.
Groups ==
  /\ started = Cardinality(At({"connect"}))
  /\ reported = Cardinality(At({"connect", "warmup", "done"} \cup Measuring))

\* What the main goroutine has waited for, and whom a flag has let on.
Ordered ==
  /\ main # "create" => At({"none"}) = {}
  /\ main \notin {"create", "started"} => At({"none", "connect"}) = {}
  /\ shouldMeasure => main \notin {"create", "started", "warmup"}
  /\ shouldReport => main \in {"reported", "sum", "exit"}
  /\ ~shouldMeasure => At(Measuring \cup {"done", "after"}) = {}
  /\ ~shouldReport => At({"stop", "done", "after"}) = {}
  /\ main \in {"sum", "exit"} => At({"after"}) = Goroutines

\* A runtime is written before it is reported, and is zero only for a
\* goroutine that was kept in one operation while the others measured; what
\* has been printed is the sum of counts that are still the same.
Settled ==
  /\ \A g \in Goroutines :
       /\ pc[g] \in {"done", "after"} <=> runtime[g] >= 0
       /\ runtime[g] = 0 => numOps[g] = 0
       /\ pc[g] \in Early => numOps[g] = 0
  /\ printed = IF main = "exit" THEN SumFunctionOnSet(numOps, Goroutines) ELSE -1

\* Wait groups and flags are enough: when the main goroutine divides and adds
\* up (103-106), every goroutine has been counted out, with its runtime
\* written and its count final (84-101, 60-77).
FlagInv == TypeOK /\ Groups /\ Ordered /\ Settled

StageOf(g) == CASE pc[g] \in {"none", "connect"} -> "preparing"
                [] pc[g] = "warmup" -> "ready"
                [] pc[g] \in Measuring -> "measuring"
                [] OTHER -> "reported"

Round == INSTANCE Rounds WITH
  Workers <- Goroutines,
  Wanted <- N,
  stage <- [g \in Goroutines |-> StageOf(g)],
  count <- numOps,
  total <- printed

\* A run of the Go client is a benchmark round (82-109).
RoundSpec == Round!Spec

\* The client prints its totals, or a goroutine has panicked.
Finishes == <>(main = "exit" \/ ~alive)
=============================================================================
