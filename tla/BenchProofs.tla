---------------------------- MODULE BenchProofs ----------------------------
(***************************************************************************)
(* Proofs about Bench, for any number of threads and operations: the       *)
(* semaphores hand each thread one token of each kind, and client.c        *)
(* implements Rounds.                                                      *)
(***************************************************************************)
EXTENDS Bench, Integers, FiniteSetTheorems, TLAPS

-----------------------------------------------------------------------------
\* How the size of a set changes when one element enters or leaves.

\* A and B agree on all elements of S but t, as the threads at some places
\* do before and after a step of the thread t.
LEMMA CountMoved ==
  ASSUME NEW S, IsFiniteSet(S), NEW A \in SUBSET S, NEW B \in SUBSET S, NEW t,
         A \ {t} = B \ {t}
  PROVE  /\ Cardinality(A) \in Nat /\ Cardinality(B) \in Nat
         /\ Cardinality(B) =
              Cardinality(A) + (IF t \in B THEN 1 ELSE 0) - (IF t \in A THEN 1 ELSE 0)
<1>1. IsFiniteSet(A) /\ IsFiniteSet(B) /\ Cardinality(A) \in Nat /\ Cardinality(B) \in Nat
  BY FS_Subset, FS_CardinalityType
<1>2. CASE t \in A <=> t \in B
  <2>1. A = B
    BY <1>2
  <2>2. QED
    BY <1>1, <1>2, <2>1
<1>3. CASE t \in A /\ t \notin B
  <2>1. B = A \ {t}
    BY <1>3
  <2>2. Cardinality(B) = Cardinality(A) - 1
    BY <1>1, <1>3, <2>1, FS_RemoveElement
  <2>3. QED
    BY <1>1, <1>3, <2>2
<1>4. CASE t \notin A /\ t \in B
  <2>1. B = A \cup {t}
    BY <1>4
  <2>2. Cardinality(B) = Cardinality(A) + 1
    BY <1>1, <1>4, <2>1, FS_AddElement
  <2>3. QED
    BY <1>1, <1>4, <2>2
<1>5. QED
  BY <1>2, <1>3, <1>4

\* A part of S has at most as many elements, and as many only when it is S.
LEMMA CountPart ==
  ASSUME NEW S, IsFiniteSet(S), NEW A \in SUBSET S
  PROVE  /\ Cardinality(S) \in Nat /\ Cardinality(A) \in 0..Cardinality(S)
         /\ Cardinality(A) = Cardinality(S) => A = S
         /\ Cardinality(A) = 0 <=> A = {}
BY FS_Subset, FS_CardinalityType, FS_EmptySet

-----------------------------------------------------------------------------
\* The counts of threads that Tokens speaks of.

LEMMA CountType ==
  ASSUME NEW P
  PROVE  /\ N \in Nat \ {0}
         /\ Cardinality(At(P)) \in 0..N
         /\ Cardinality(At(P)) = N => At(P) = Threads
<1>1. At(P) \in SUBSET Threads
  BY DEF At
<1>2. QED
  BY <1>1, BenchAssumption, CountPart DEF N

LEMMA CountTypes ==
  /\ N \in Nat \ {0}
  /\ Fresh \in Nat /\ Warm \in Nat /\ Begun \in Nat /\ Stopped \in Nat /\ Done \in Nat
BY CountType DEF Fresh, Warm, Begun, Stopped, Done

\* What a step of one thread does to a count.
LEMMA CountStep ==
  ASSUME TypeOK, NEW t \in Threads, NEW to, pc' = [pc EXCEPT ![t] = to], NEW P
  PROVE  Cardinality(At(P))' =
           Cardinality(At(P)) + (IF to \in P THEN 1 ELSE 0) - (IF pc[t] \in P THEN 1 ELSE 0)
<1>1. pc'[t] = to /\ \A u \in Threads \ {t} : pc'[u] = pc[u]
  BY DEF TypeOK
<1>2. /\ At(P) \in SUBSET Threads /\ At(P)' \in SUBSET Threads
      /\ At(P) \ {t} = At(P)' \ {t}
      /\ t \in At(P) <=> pc[t] \in P
      /\ t \in At(P)' <=> to \in P
  BY <1>1 DEF At
<1>3. Cardinality(At(P)') =
        Cardinality(At(P)) + (IF t \in At(P)' THEN 1 ELSE 0) - (IF t \in At(P) THEN 1 ELSE 0)
  BY <1>2, CountMoved, BenchAssumption
<1>4. QED
  BY <1>2, <1>3

\* 1 when a step enters or leaves the places P.
In(place, P) == IF place \in P THEN 1 ELSE 0

Moved(from, to) ==
  /\ Fresh' = Fresh + In(to, {"none"}) - In(from, {"none"})
  /\ Warm' = Warm + In(to, Greeted) - In(from, Greeted)
  /\ Begun' = Begun + In(to, Measured) - In(from, Measured)
  /\ Stopped' = Stopped + In(to, {"stop"} \cup Late) - In(from, {"stop"} \cup Late)
  /\ Done' = Done + In(to, {"after"}) - In(from, {"after"})

LEMMA CountSteps ==
  ASSUME TypeOK, NEW t \in Threads, NEW from, NEW to,
         pc[t] = from, pc' = [pc EXCEPT ![t] = to]
  PROVE  Moved(from, to)
<1>1. Fresh' = Fresh + In(to, {"none"}) - In(from, {"none"})
  BY CountStep DEF Fresh, In
<1>2. Warm' = Warm + In(to, Greeted) - In(from, Greeted)
  BY CountStep DEF Warm, In
<1>3. Begun' = Begun + In(to, Measured) - In(from, Measured)
  BY CountStep DEF Begun, In
<1>4. Stopped' = Stopped + In(to, {"stop"} \cup Late) - In(from, {"stop"} \cup Late)
  BY CountStep DEF Stopped, In
<1>5. Done' = Done + In(to, {"after"}) - In(from, {"after"})
  BY CountStep DEF Done, In
<1>6. QED
  BY <1>1, <1>2, <1>3, <1>4, <1>5 DEF Moved

LEMMA SameCounts ==
  pc' = pc => UNCHANGED <<Fresh, Warm, Begun, Stopped, Done>>
BY DEF Fresh, Warm, Begun, Stopped, Done, At

-----------------------------------------------------------------------------
\* Type correctness.

LEMMA TypeStep == TypeOK /\ [Next]_vars => TypeOK'
<1> SUFFICES ASSUME TypeOK, [Next]_vars PROVE TypeOK'
  OBVIOUS
<1> USE CountTypes
<1>1. ASSUME NEW at, NEW next, Turn(at, next)
      PROVE  i' \in 0..(N - 1) /\ alive' \in BOOLEAN /\ num_ops' = num_ops /\ timed' = timed
             /\ main' \in {at, next}
  <2>1. i + 1 = N \/ i + 1 \in 0..(N - 1)
    BY DEF TypeOK
  <2>2. N % N = 0 /\ \A k \in 0..(N - 1) : k % N = k
    OBVIOUS
  <2>3. QED
    BY <1>1, <2>1, <2>2 DEF Turn, TypeOK, args
<1>2. CASE MainStep
  <2>1. CASE Create
    BY <1>1, <2>1 DEF Create, Turn, sems, TypeOK
  <2>2. CASE WaitStarted
    BY <1>1, <2>2 DEF WaitStarted, Turn, TypeOK
  <2>3. CASE Sleep("warmup", "measure") \/ Sleep("measuring", "report")
    BY <2>3 DEF Sleep, sems, args, TypeOK
  <2>4. CASE PostMeasure
    BY <1>1, <2>4 DEF PostMeasure, Turn, TypeOK
  <2>5. CASE PostReport
    BY <1>1, <2>5 DEF PostReport, Turn, TypeOK
  <2>6. CASE WaitReported
    BY <1>1, <2>6 DEF WaitReported, Turn, TypeOK
  <2>7. CASE Aggregate
    BY <2>7 DEF Aggregate, sems, args, TypeOK
  <2>8. QED
    BY <1>2, <2>1, <2>2, <2>3, <2>4, <2>5, <2>6, <2>7 DEF MainStep
<1>3. CASE \E t \in Threads : ThreadStep(t)
  <2> PICK t \in Threads : ThreadStep(t)
    BY <1>3
  <2>1. CASE FirstOperation(t)
    BY <2>1 DEF FirstOperation, Goes, args, TypeOK
  <2>2. CASE TakeMeasure(t)
    BY <2>2, BenchAssumption DEF TakeMeasure, Goes, TypeOK
  <2>3. CASE Operation(t)
    BY <2>3 DEF Operation, Goes, sems, args, TypeOK
  <2>4. CASE Counted(t)
    BY <2>4, BenchAssumption DEF Counted, Goes, sems, TypeOK
  <2>5. CASE TakeReport(t)
    BY <2>5 DEF TakeReport, Goes, args, TypeOK
  <2>6. CASE Stop(t)
    BY <2>6 DEF Stop, Goes, sems, TypeOK
  <2>7. CASE PostReported(t)
    BY <2>7 DEF PostReported, Goes, args, TypeOK
  <2>8. QED
    BY <2>1, <2>2, <2>3, <2>4, <2>5, <2>6, <2>7 DEF ThreadStep
<1>4. CASE Fail
  BY <1>4 DEF Fail, sems, args, TypeOK
<1>5. CASE UNCHANGED vars
  BY <1>5 DEF vars, sems, args, TypeOK
<1>6. QED
  BY <1>2, <1>3, <1>4, <1>5 DEF Next

-----------------------------------------------------------------------------
\* The tokens.

\* A turn of a loop: the counter goes up, or back to zero with the place left.
Turned(at, next) ==
  /\ i \in Nat /\ i' \in Nat
  /\ main = at
  /\ \/ main' = at /\ i' = i + 1 /\ i' < N
     \/ main' = next /\ i' = 0 /\ i + 1 = N

LEMMA TurnCounts ==
  ASSUME TypeOK, NEW at, NEW next, Turn(at, next)
  PROVE  Turned(at, next)
<1> USE CountTypes
<1>1. i + 1 = N \/ i + 1 \in 0..(N - 1)
  BY DEF TypeOK
<1>2. N % N = 0 /\ \A k \in 0..(N - 1) : k % N = k
  OBVIOUS
<1>3. QED
  BY <1>1, <1>2 DEF Turn, Turned, TypeOK

\* The counter is zero while main is in no loop.
Between == main \in {"warmup", "measuring", "sum", "exit"} => i = 0

LEMMA TokensMain ==
  ASSUME TypeOK, Tokens, Between, MainStep
  PROVE  Tokens' /\ Between'
<1> USE CountTypes
<1>1. CASE Create
  <2>1. Moved("none", "connect")
    BY <1>1, CountSteps DEF Create
  <2>2. /\ Fresh' = Fresh - 1
        /\ UNCHANGED <<Warm, Begun, Stopped, Done>>
    BY <2>1 DEF Moved, In, Late, Measured, Greeted
  <2>3. Turned("create", "started")
    BY <1>1, TurnCounts DEF Create
  <2>4. QED
    BY <1>1, <2>2, <2>3 DEF Create, Turned, sems, Tokens, Passed, Between, TypeOK
<1>2. CASE WaitStarted
  <2>1. Turned("started", "warmup")
    BY <1>2, TurnCounts DEF WaitStarted
  <2>2. QED
    BY <1>2, <2>1, SameCounts DEF WaitStarted, Turned, Tokens, Passed, Between, TypeOK
<1>3. CASE Sleep("warmup", "measure") \/ Sleep("measuring", "report")
  BY <1>3, SameCounts DEF Sleep, sems, Tokens, Passed, Between, TypeOK
<1>4. CASE PostMeasure
  <2>1. Turned("measure", "measuring")
    BY <1>4, TurnCounts DEF PostMeasure
  <2>2. QED
    BY <1>4, <2>1, SameCounts DEF PostMeasure, Turned, Tokens, Passed, Between, TypeOK
<1>5. CASE PostReport
  <2>1. Turned("report", "reported")
    BY <1>5, TurnCounts DEF PostReport
  <2>2. QED
    BY <1>5, <2>1, SameCounts DEF PostReport, Turned, Tokens, Passed, Between, TypeOK
<1>6. CASE WaitReported
  <2>1. Turned("reported", "sum")
    BY <1>6, TurnCounts DEF WaitReported
  <2>2. QED
    BY <1>6, <2>1, SameCounts DEF WaitReported, Turned, Tokens, Passed, Between, TypeOK
<1>7. CASE Aggregate
  BY <1>7, SameCounts DEF Aggregate, sems, Tokens, Passed, Between, TypeOK
<1>8. QED
  BY <1>1, <1>2, <1>3, <1>4, <1>5, <1>6, <1>7 DEF MainStep

LEMMA TokensThread ==
  ASSUME TypeOK, Tokens, NEW t \in Threads, ThreadStep(t)
  PROVE  Tokens'
<1> USE CountTypes
<1>1. CASE FirstOperation(t)
  <2>1. Moved("connect", "warmup")
    BY <1>1, CountSteps DEF FirstOperation, Goes
  <2>2. Warm' = Warm + 1 /\ UNCHANGED <<Fresh, Begun, Stopped, Done>>
    BY <2>1 DEF Moved, In, Late, Measured, Greeted
  <2>3. QED
    BY <1>1, <2>2 DEF FirstOperation, Goes, Tokens, Passed, TypeOK
<1>2. CASE TakeMeasure(t)
  <2>1. Moved("warmup", "measure")
    BY <1>2, CountSteps DEF TakeMeasure, Goes
  <2>2. Begun' = Begun + 1 /\ UNCHANGED <<Fresh, Warm, Stopped, Done>>
    BY <2>1 DEF Moved, In, Late, Measured, Greeted
  <2>3. QED
    BY <1>2, <2>2 DEF TakeMeasure, Goes, Tokens, Passed, TypeOK
<1>3. CASE Operation(t) \/ Counted(t)
  <2>1. Moved("measure", "operate") \/ Moved("operate", "measure")
    BY <1>3, CountSteps DEF Operation, Counted, Goes
  <2>2. UNCHANGED <<Fresh, Warm, Begun, Stopped, Done>>
    BY <2>1 DEF Moved, In, Late, Measured, Greeted
  <2>3. QED
    BY <1>3, <2>2 DEF Operation, Counted, Goes, sems, Tokens, Passed
<1>4. CASE TakeReport(t)
  <2>1. Moved("measure", "stop")
    BY <1>4, CountSteps DEF TakeReport, Goes
  <2>2. Stopped' = Stopped + 1 /\ UNCHANGED <<Fresh, Warm, Begun, Done>>
    BY <2>1 DEF Moved, In, Late, Measured, Greeted
  <2>3. QED
    BY <1>4, <2>2 DEF TakeReport, Goes, Tokens, Passed, TypeOK
<1>5. CASE Stop(t)
  <2>1. Moved("stop", "post")
    BY <1>5, CountSteps DEF Stop, Goes
  <2>2. UNCHANGED <<Fresh, Warm, Begun, Stopped, Done>>
    BY <2>1 DEF Moved, In, Late, Measured, Greeted
  <2>3. QED
    BY <1>5, <2>2 DEF Stop, Goes, sems, Tokens, Passed
<1>6. CASE PostReported(t)
  <2>1. Moved("post", "after")
    BY <1>6, CountSteps DEF PostReported, Goes
  <2>2. Done' = Done + 1 /\ UNCHANGED <<Fresh, Warm, Begun, Stopped>>
    BY <2>1 DEF Moved, In, Late, Measured, Greeted
  <2>3. QED
    BY <1>6, <2>2 DEF PostReported, Goes, Tokens, Passed, TypeOK
<1>7. QED
  BY <1>1, <1>2, <1>3, <1>4, <1>5, <1>6 DEF ThreadStep

-----------------------------------------------------------------------------
\* Runtimes, counts and the total.

LEMMA SettledStep ==
  ASSUME TypeOK, Tokens, Settled, [Next]_vars
  PROVE  Settled'
<1> USE DEF Late
<1>1. CASE MainStep
  <2>1. CASE Create
    BY <1>1, <2>1 DEF Create, Turn, args, Settled, TypeOK
  <2>2. CASE WaitStarted \/ PostMeasure \/ PostReport \/ WaitReported
    BY <2>2 DEF WaitStarted, PostMeasure, PostReport, WaitReported, Turn, args, Settled
  <2>3. CASE Sleep("warmup", "measure") \/ Sleep("measuring", "report")
    BY <2>3 DEF Sleep, args, Settled
  <2>4. CASE Aggregate
    BY <2>4 DEF Aggregate, args, Settled
  <2>5. QED
    BY <1>1, <2>1, <2>2, <2>3, <2>4 DEF MainStep
<1>2. CASE \E t \in Threads : ThreadStep(t)
  <2> PICK t \in Threads : ThreadStep(t)
    BY <1>2
  <2>1. CASE FirstOperation(t) \/ TakeReport(t) \/ PostReported(t)
    BY <2>1 DEF FirstOperation, TakeReport, PostReported, Goes, args, Settled, TypeOK
  <2>2. CASE TakeMeasure(t)
    BY <2>2 DEF TakeMeasure, Goes, Settled, TypeOK
  <2>3. CASE Operation(t) \/ Counted(t)
    BY <2>3 DEF Operation, Counted, Goes, sems, args, Settled, TypeOK
  <2>4. CASE Stop(t)
    BY <2>4 DEF Stop, Goes, sems, Settled, TypeOK
  <2>5. QED
    BY <2>1, <2>2, <2>3, <2>4 DEF ThreadStep
<1>3. CASE Fail \/ UNCHANGED vars
  BY <1>3 DEF Fail, vars, args, Settled
<1>4. QED
  BY <1>1, <1>2, <1>3 DEF Next

-----------------------------------------------------------------------------
\* The invariant.

LEMMA InitInv == Init => TokenInv /\ Between
<1> SUFFICES ASSUME Init PROVE TokenInv /\ Between
  OBVIOUS
<1>1. TypeOK
  BY CountTypes DEF Init, TypeOK
<1>2. /\ At({"none"}) = Threads
      /\ At(Greeted) = {} /\ At(Measured) = {} /\ At({"stop"} \cup Late) = {} /\ At({"after"}) = {}
  BY DEF Init, At, Greeted, Measured, Late
<1>3. Fresh = N /\ Warm = 0 /\ Begun = 0 /\ Stopped = 0 /\ Done = 0
  BY <1>2, FS_EmptySet DEF Fresh, Warm, Begun, Stopped, Done, N
<1>4. Tokens /\ Between
  BY <1>3, CountTypes DEF Init, Tokens, Passed, Between
<1>5. Settled
  BY DEF Init, Settled, Late
<1>6. QED
  BY <1>1, <1>4, <1>5 DEF TokenInv

\* TokenInv is inductive up to the loop counter, which Between fixes.
THEOREM TokensKept == Spec => [](TokenInv /\ Between)
<1>1. TokenInv /\ Between /\ [Next]_vars => (TokenInv /\ Between)'
  <2> SUFFICES ASSUME TokenInv, Between, [Next]_vars PROVE (TokenInv /\ Between)'
    OBVIOUS
  <2>1. TypeOK' /\ Settled'
    BY TypeStep, SettledStep DEF TokenInv
  <2>2. Tokens' /\ Between'
    <3>1. CASE MainStep
      BY <3>1, TokensMain DEF TokenInv
    <3>2. CASE \E t \in Threads : ThreadStep(t)
      <4>1. UNCHANGED <<main, i>>
        BY <3>2 DEF ThreadStep, FirstOperation, TakeMeasure, Operation, Counted, TakeReport,
                    Stop, PostReported, Goes
      <4>2. QED
        BY <3>2, <4>1, TokensThread DEF TokenInv, Between
    <3>3. CASE Fail \/ UNCHANGED vars
      BY <3>3, SameCounts DEF Fail, vars, sems, TokenInv, Tokens, Passed, Between
    <3>4. QED
      BY <3>1, <3>2, <3>3 DEF Next
  <2>3. QED
    BY <2>1, <2>2 DEF TokenInv
<1>2. QED
  BY <1>1, InitInv, PTL DEF Spec

\* The semaphores of client.c hand each thread one token of each kind, for
\* any number of threads.
THEOREM TokensExact == Spec => []TokenInv
BY TokensKept, PTL

-----------------------------------------------------------------------------
\* client.c implements Rounds.

Stages == [t \in Threads |-> StageOf(t)]

\* Rounds and Bench count and add up with the same operators.
LEMMA SameCardinality == ASSUME NEW S PROVE Round!Cardinality(S) = Cardinality(S)
BY DEF Cardinality, Round!Cardinality

LEMMA SameSum ==
  ASSUME NEW f, NEW S PROVE Round!SumFunctionOnSet(f, S) = SumFunctionOnSet(f, S)
BY DEF SumFunctionOnSet, Round!SumFunctionOnSet, FoldFunctionOnSet, Round!FoldFunctionOnSet,
       MapThenFoldSet, Round!MapThenFoldSet

LEMMA InitRound == Init => Round!Init
<1> SUFFICES ASSUME Init PROVE Round!Init
  OBVIOUS
<1>1. \A t \in Threads : StageOf(t) = "preparing"
  BY DEF Init, StageOf, Measuring
<1>2. QED
  BY <1>1 DEF Init, Round!Init

\* A thread that starts to measure finds all others connected.
LEMMA AllReady ==
  ASSUME TokenInv, should_measure > 0
  PROVE  Cardinality({v \in Threads : Stages[v] # "preparing"}) >= N
<1>1. Warm = N + started /\ started \in Nat
  <2>1. main \notin {"create", "started", "warmup"}
    BY CountTypes DEF TokenInv, TypeOK, Tokens, Passed
  <2>2. QED
    BY <2>1, CountTypes DEF TokenInv, TypeOK, Tokens, Passed
<1>2. At(Greeted) = Threads
  BY <1>1, CountType DEF Warm
<1>3. {v \in Threads : Stages[v] # "preparing"} = Threads
  BY <1>2 DEF At, Greeted, Measured, Late, Stages, StageOf, Measuring
<1>4. QED
  BY <1>3, CountTypes DEF N

\* When the main thread adds up, all threads have reported.
LEMMA AllReported ==
  ASSUME TokenInv, main = "sum"
  PROVE  \A t \in Threads : Stages[t] = "reported"
<1>1. Done = N + reported /\ reported \in Nat
  BY CountTypes DEF TokenInv, TypeOK, Tokens, Passed
<1>2. At({"after"}) = Threads
  BY <1>1, CountType DEF Done
<1>3. QED
  BY <1>2 DEF At, Stages, StageOf, Measuring

LEMMA StepRound ==
  ASSUME TokenInv, [Next]_vars
  PROVE  [Round!Next]_(Round!vars)
<1> USE DEF TokenInv
<1>1. CASE UNCHANGED <<pc, num_ops, printed>>
  BY <1>1 DEF Round!vars, StageOf, Measuring
<1>2. CASE Aggregate
  <2>1. Stages' = Stages /\ num_ops' = num_ops /\ printed = -1
    BY <1>2 DEF Aggregate, Stages, StageOf, Measuring, args, Settled
  <2>2. {w \in Threads : Stages[w] = "reported"} = Threads
    BY <1>2, AllReported DEF Aggregate
  <2>3. Round!Reporters = Threads
    BY <2>2 DEF Round!Reporters, Stages
  <2>4. printed < 0 /\ Cardinality(Round!Reporters) = N
    BY <2>1, <2>3 DEF N
  <2>5. printed' = SumFunctionOnSet(num_ops, Round!Reporters)
    BY <1>2, <2>3 DEF Aggregate
  <2>6. Round!Total
    BY <2>1, <2>4, <2>5, SameCardinality, SameSum DEF Round!Total, Stages
  <2>7. QED
    BY <2>6 DEF Round!Next
<1>3. CASE Create
  <2>1. PICK t \in Threads : pc[t] = "none" /\ pc' = [pc EXCEPT ![t] = "connect"]
    BY <1>3 DEF Create
  <2>2. Stages' = Stages
    BY <2>1 DEF Stages, StageOf, Measuring, TypeOK
  <2>3. QED
    BY <1>3, <2>2 DEF Create, Turn, args, Round!vars, Stages
<1>4. ASSUME NEW t \in Threads, ThreadStep(t)
      PROVE  [Round!Next]_(Round!vars)
  <2>1. CASE FirstOperation(t)
    <3>1. Stages[t] = "preparing" /\ Stages' = [Stages EXCEPT ![t] = "ready"]
      BY <2>1 DEF FirstOperation, Goes, Stages, StageOf, Measuring, TypeOK
    <3>2. Round!Prepare(t)
      BY <2>1, <3>1 DEF FirstOperation, Goes, args, Stages, Round!Prepare, Round!Moves
    <3>3. QED
      BY <3>2 DEF Round!Next
  <2>2. CASE TakeMeasure(t)
    <3>1. Stages[t] = "ready" /\ Stages' = [Stages EXCEPT ![t] = "measuring"]
      BY <2>2 DEF TakeMeasure, Goes, Stages, StageOf, Measuring, TypeOK
    <3>2. num_ops' = num_ops
      BY <2>2 DEF TakeMeasure, Goes, Settled, TypeOK
    <3>3. Cardinality({v \in Threads : Stages[v] # "preparing"}) >= N
      BY <2>2, AllReady DEF TakeMeasure
    <3>4. Round!Moves(t, "ready", "measuring")
      BY <2>2, <3>1, <3>2 DEF TakeMeasure, Goes, Stages, Round!Moves
    <3>5. Round!Measure(t)
      BY <3>3, <3>4, SameCardinality DEF Stages, Round!Measure
    <3>6. QED
      BY <3>5 DEF Round!Next
  <2>3. CASE Counted(t)
    <3>1. Stages[t] = "measuring" /\ Stages' = Stages
      BY <2>3 DEF Counted, Goes, Stages, StageOf, Measuring, TypeOK
    <3>2. Round!Operate(t)
      BY <2>3, <3>1 DEF Counted, Goes, Stages, Round!Operate
    <3>3. QED
      BY <3>2 DEF Round!Next
  <2>4. CASE Stop(t)
    <3>1. Stages[t] = "measuring" /\ Stages' = [Stages EXCEPT ![t] = "reported"]
      BY <2>4 DEF Stop, Goes, Stages, StageOf, Measuring, TypeOK
    <3>2. Round!Report(t)
      BY <2>4, <3>1 DEF Stop, Goes, Stages, Round!Report, Round!Moves
    <3>3. QED
      BY <3>2 DEF Round!Next
  <2>5. CASE Operation(t) \/ TakeReport(t) \/ PostReported(t)
    <3>1. Stages' = Stages
      BY <2>5 DEF Operation, TakeReport, PostReported, Goes, Stages, StageOf, Measuring, TypeOK
    <3>2. QED
      BY <2>5, <3>1 DEF Operation, TakeReport, PostReported, Goes, args, Stages, Round!vars
  <2>6. QED
    BY <1>4, <2>1, <2>2, <2>3, <2>4, <2>5 DEF ThreadStep
<1>5. CASE WaitStarted \/ PostMeasure \/ PostReport \/ WaitReported
  BY <1>1, <1>5 DEF WaitStarted, PostMeasure, PostReport, WaitReported, Turn, args
<1>6. CASE Sleep("warmup", "measure") \/ Sleep("measuring", "report")
  BY <1>1, <1>6 DEF Sleep, args
<1>7. CASE Fail \/ UNCHANGED vars
  BY <1>1, <1>7 DEF Fail, vars, args
<1>8. QED
  BY <1>2, <1>3, <1>4, <1>5, <1>6, <1>7 DEF Next, MainStep

\* A run of the client is a benchmark round, whatever the number of threads
\* and operations: nobody measures before all are connected, and the total is
\* taken once, from counts that are final.
THEOREM BenchIsRound == Spec => RoundSpec
<1>1. TokenInv /\ [Next]_vars => [Round!Next]_(Round!vars)
  BY StepRound
<1>2. QED
  BY <1>1, InitRound, TokensExact, PTL DEF Spec, RoundSpec, Round!Spec
=============================================================================
