----------------------------- MODULE DistBench -----------------------------
(***************************************************************************)
(* The distributed benchmark.  driver.py starts a multiclient process on   *)
(* every host and steers them through counters and flags in Redis          *)
(* (dsync.c); the processes claim a spot, start, measure and report.       *)
(* Inside a process its threads do what Bench models; here they are its    *)
(* count of operations.  Redis runs one command at a time.                 *)
(***************************************************************************)
EXTENDS Integers, FiniteSets, Sequences, Functions

CONSTANTS
  Hosts,      \* client_addresses
  Leftovers,  \* hosts where a process of an earlier round has yet to connect
  MaxOps      \* bound: operations a process counts

ASSUME DistAssumption ==
  /\ IsFiniteSet(Hosts) /\ Hosts # {}
  /\ Leftovers \subseteq Hosts
  /\ MaxOps \in Nat

N == Cardinality(Hosts)

Procs == ({"new"} \X Hosts) \cup ({"old"} \X Leftovers)

\* The keys, in the order in which the driver sets them: "params" stands for
\* numthreads, address and port, which are read together.
Keys == <<"numclients", "params", "should_measure", "should_report", "reported", "started">>

VARIABLES
  driver,   \* where main() is in driver.py
  todo,     \* what is left of its loop: keys set so far, or hosts to go
  kills,    \* hosts where the killall it sent has not run
  store,    \* the values in Redis
  present,  \* the keys that exist in Redis
  results,  \* the list APPENDed to "results"
  pc,       \* where each process is in bench()
  dead,     \* processes that were killed or crashed
  count,    \* operations the threads of each process have counted
  total     \* the throughput printed, or -1

redisVars == <<store, present, results>>
procVars == <<pc, dead, count>>
driverVars == <<driver, todo, kills, total>>
vars == <<driverVars, redisVars, procVars>>

KeySet == {Keys[j] : j \in 1..Len(Keys)}

TypeOK ==
  /\ driver \in {"write", "kill", "start", "started", "measure", "report", "reported",
                 "total", "done"}
  /\ todo \in [keys : 1..(Len(Keys) + 1), hosts : SUBSET Hosts]
  /\ kills \subseteq Hosts
  /\ store \in [KeySet -> Int]
  /\ store["started"] \in 0..N /\ store["reported"] \in 0..N
  /\ present \subseteq KeySet
  /\ results \in Seq(Nat)
  /\ pc \in [Procs -> {"off", "claim", "load", "threads", "wait_measure", "wait_report",
                       "put", "incr", "exit", "unclaimed", "unflagged"}]
  /\ dead \subseteq Procs
  /\ count \in [Procs -> 0..MaxOps]
  /\ driver # "done" => total = -1

Init ==
  /\ driver = "write"
  /\ todo = [keys |-> 1, hosts |-> Hosts]
  /\ kills = {}
  /\ store = [k \in KeySet |-> 0]
  /\ present = {}
  /\ results = <<>>
  /\ pc = [p \in Procs |-> IF p[1] = "old" THEN "claim" ELSE "off"]
  /\ dead = {}
  /\ count = [p \in Procs |-> 0]
  /\ total = -1

-----------------------------------------------------------------------------
\* Redis commands.

Set(k, v) ==
  /\ store' = [store EXCEPT ![k] = v]
  /\ present' = present \cup {k}
  /\ UNCHANGED results

\* INCRBY and DECR: a key that does not exist counts as 0.
Incr(k, n) == Set(k, store[k] + n)

-----------------------------------------------------------------------------
\* The driver.

DriverGoes(from, to) ==
  /\ driver = from
  /\ driver' = to

WriteParam ==
  LET j == todo.keys
      value == CASE Keys[j] = "numclients" -> N [] Keys[j] = "params" -> 1 [] OTHER -> 0
  IN  /\ DriverGoes("write", IF j = Len(Keys) THEN "kill" ELSE "write")
      /\ Set(Keys[j], value)
      /\ todo' = [todo EXCEPT !.keys = j + 1]
      /\ UNCHANGED <<kills, total, procVars>>

\* One turn of a loop over client_addresses; the last one ends it.
ForHost(h, at, next) ==
  /\ h \in todo.hosts
  /\ DriverGoes(at, IF todo.hosts = {h} THEN next ELSE at)
  /\ todo' = [todo EXCEPT !.hosts = IF @ = {h} THEN Hosts ELSE @ \ {h}]

\* kill_client does not wait for its command: "killall multiclient" may run
\* when the new process has started.
KillClient(h) ==
  /\ ForHost(h, "kill", "start")
  /\ kills' = kills \cup {h}
  /\ UNCHANGED <<total, redisVars, procVars>>

StartClient(h) ==
  /\ ForHost(h, "start", "started")
  /\ pc' = [pc EXCEPT ![<<"new", h>>] = "claim"]
  /\ UNCHANGED <<kills, total, redisVars, dead, count>>

\* dcounter_wait returns.  Slip: it is satisfied with one client less.
CounterWaitShort(k, from, to) ==
  /\ DriverGoes(from, to)
  /\ store[k] >= N - 1
  /\ UNCHANGED <<todo, kills, total, redisVars, procVars>>

CounterWait(k, from, to) ==
  /\ DriverGoes(from, to)
  /\ store[k] >= N
  /\ UNCHANGED <<todo, kills, total, redisVars, procVars>>

FlagSet(k, from, to) ==
  /\ DriverGoes(from, to)
  /\ Set(k, 1)
  /\ UNCHANGED <<todo, kills, total, procVars>>

GetThroughput ==
  /\ DriverGoes("total", "done")
  /\ total' = SumFunction(results)
  /\ UNCHANGED <<todo, kills, redisVars, procVars>>

DriverStep ==
  \/ WriteParam
  \/ \E h \in Hosts : KillClient(h) \/ StartClient(h)
  \/ CounterWait("started", "started", "measure")
  \/ FlagSet("should_measure", "measure", "report")
  \/ FlagSet("should_report", "report", "reported")
  \/ CounterWait("reported", "reported", "total")
  \/ GetThroughput

Runs(p) == pc[p] \notin {"off", "exit", "unclaimed", "unflagged"}

\* "killall multiclient" runs on a host.
Kill(h) ==
  /\ h \in kills
  /\ kills' = kills \ {h}
  /\ dead' = dead \cup {p \in Procs : p[2] = h /\ Runs(p)}
  /\ UNCHANGED <<driver, todo, total, redisVars, pc, count>>

-----------------------------------------------------------------------------
\* A process.

Goes(p, from, to) ==
  /\ p \notin dead /\ pc[p] = from
  /\ pc' = [pc EXCEPT ![p] = to]
  /\ UNCHANGED <<driverVars, dead>>

\* Slips: the test after DECR is left out, or is off by one.
ClaimAlways(p) ==
  /\ Goes(p, "claim", "load")
  /\ Incr("numclients", -1)
  /\ UNCHANGED count

ClaimStrict(p) ==
  /\ Goes(p, "claim", IF store["numclients"] > 1 THEN "load" ELSE "unclaimed")
  /\ Incr("numclients", -1)
  /\ UNCHANGED count

\* try_claim_spot
Claim(p) ==
  /\ Goes(p, "claim", IF store["numclients"] > 0 THEN "load" ELSE "unclaimed")
  /\ Incr("numclients", -1)
  /\ UNCHANGED count

\* load_bench_params exits if a key is missing.
Load(p) ==
  /\ Goes(p, "load", IF "params" \in present THEN "threads" ELSE "unclaimed")
  /\ UNCHANGED <<redisVars, count>>

\* All its threads have done an operation: dcounter_incr.
ThreadsStarted(p) ==
  /\ Goes(p, "threads", "wait_measure")
  /\ Incr("started", 1)
  /\ UNCHANGED count

\* dflag_wait returns when the flag is set, and exits if the key is missing.
FlagWait(p, k, from, to) ==
  /\ Goes(p, from, to)
  /\ k \in present /\ store[k] > 0
  /\ UNCHANGED <<redisVars, count>>

FlagMissing(p) ==
  /\ \E flag \in {<<"wait_measure", "should_measure">>, <<"wait_report", "should_report">>} :
       Goes(p, flag[1], "unflagged") /\ flag[2] \notin present
  /\ UNCHANGED <<redisVars, count>>

Operation(p) ==
  /\ Goes(p, "wait_report", "wait_report")
  /\ count[p] < MaxOps
  /\ count' = [count EXCEPT ![p] = @ + 1]
  /\ UNCHANGED redisVars

\* A slip: the report of another process is overwritten.
PutReportOver(p) ==
  /\ Goes(p, "put", "incr")
  /\ results' = <<count[p]>>
  /\ UNCHANGED <<store, present, count>>

PutReport(p) ==
  /\ Goes(p, "put", "incr")
  /\ results' = Append(results, count[p])
  /\ UNCHANGED <<store, present, count>>

\* dcounter_incr, and then exit(0).
CountReport(p) ==
  /\ Goes(p, "incr", "exit")
  /\ Incr("reported", 1)
  /\ UNCHANGED count

ProcStep(p) ==
  \/ Claim(p) \/ Load(p) \/ ThreadsStarted(p)
  \/ FlagWait(p, "should_measure", "wait_measure", "wait_report")
  \/ Operation(p)
  \/ FlagWait(p, "should_report", "wait_report", "put")
  \/ FlagMissing(p) \/ PutReport(p) \/ CountReport(p)

\* An error of its client threads, or of its connection to Redis.
Crash(p) ==
  /\ p \notin dead /\ Runs(p)
  /\ dead' = dead \cup {p}
  /\ UNCHANGED <<driverVars, redisVars, pc, count>>

Next ==
  \/ DriverStep
  \/ \E h \in Hosts : Kill(h)
  \/ \E p \in Procs : ProcStep(p) \/ Crash(p)

Spec == Init /\ [][Next]_vars

\* The driver polls, the hosts run what is sent to them, operations end.
Fairness ==
  /\ WF_vars(DriverStep)
  /\ \A h \in Hosts : WF_vars(Kill(h))
  /\ \A p \in Procs : WF_vars(ProcStep(p))

FairSpec == Spec /\ Fairness

-----------------------------------------------------------------------------
\* Properties.

Taking == {p \in Procs : pc[p] \in {"load", "threads", "wait_measure", "wait_report",
                                    "put", "incr"}}

Spots == Cardinality(Taking) <= N

\* No more than numclients processes take part, whatever processes of an
\* earlier round are still around ("Enough client processes already running,
\* exiting.", multiclient.c:192).
SpotInv == TypeOK /\ Spots

\* When the driver adds up, N reports are in and nobody is still measuring.
ReportsFinal ==
  driver \in {"total", "done"} =>
    /\ Len(results) = N
    /\ \A p \in Procs : pc[p] \notin {"wait_report", "put", "incr"}

\* The driver prints the sum of one final report of each of numclients
\* processes: reports arrive before they are counted (multiclient.c:283-284).
TotalComplete ==
  /\ ReportsFinal
  /\ driver = "done" => total = SumFunction(count)

StageOf(p) == CASE pc[p] \in {"off", "claim", "load", "unclaimed", "threads"} -> "preparing"
                [] pc[p] \in {"wait_measure", "unflagged"} -> "ready"
                [] pc[p] \in {"wait_report", "put", "incr"} -> "measuring"
                [] OTHER -> "reported"

Round == INSTANCE Rounds WITH
  Workers <- Procs,
  Wanted <- N,
  stage <- [p \in Procs |-> StageOf(p)],
  count <- count,
  total <- total

\* A run of the driver is a benchmark round (driver.py:88-102).
RoundSpec == Round!Spec

Undisturbed ==
  /\ \A h \in Hosts : <<"new", h>> \notin dead
  /\ \A h \in Leftovers : pc[<<"old", h>>] \in {"claim", "unclaimed"}

\* The driver gets to print its result if no process that it started is
\* killed or fails, and none that was left over takes a spot (91-102).
Finishes == []Undisturbed => <>(driver = "done")
=============================================================================
