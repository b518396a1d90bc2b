--------------------------- MODULE GoBenchProofs ---------------------------
(***************************************************************************)
(* Proofs about GoBench, for any number of goroutines and operations: the  *)
(* wait groups and flags keep their order, and go/client.go implements     *)
(* Rounds.                                                                 *)
(***************************************************************************)
EXTENDS GoBench, Integers, FiniteSetTheorems, TLAPS

-----------------------------------------------------------------------------
\* How the size of a set changes when one element enters or leaves.

\* A and B agree on all elements of S but t, as the threads at some places
\* do before and after a step of the thread t.
LEMMA CountMoved ==
  ASSUME NEW S, IsFiniteSet(S), NEW A \in SUBSET S, NEW B \in SUBSET S, NEW t,
         A \ {t} = B \ {t}
  PROVE  /\ Cardinality(A) \in Nat /\ Cardinality(B) \in Nat
         /\ Cardinality(B) =
              Cardinality(A) + (IF t \in B THEN 1 ELSE 0) - (IF t \in A THEN 1 ELSE 0)
<1>1. IsFiniteSet(A) /\ IsFiniteSet(B) /\ Cardinality(A) \in Nat /\ Cardinality(B) \in Nat
  BY FS_Subset, FS_CardinalityType
<1>2. CASE t \in A <=> t \in B
  <2>1. A = B
    BY <1>2
  <2>2. QED
    BY <1>1, <1>2, <2>1
<1>3. CASE t \in A /\ t \notin B
  <2>1. B = A \ {t}
    BY <1>3
  <2>2. Cardinality(B) = Cardinality(A) - 1
    BY <1>1, <1>3, <2>1, FS_RemoveElement
  <2>3. QED
    BY <1>1, <1>3, <2>2
<1>4. CASE t \notin A /\ t \in B
  <2>1. B = A \cup {t}
    BY <1>4
  <2>2. Cardinality(B) = Cardinality(A) + 1
    BY <1>1, <1>4, <2>1, FS_AddElement
  <2>3. QED
    BY <1>1, <1>4, <2>2
<1>5. QED
  BY <1>2, <1>3, <1>4

\* A part of S has at most as many elements, and as many only when it is S.
LEMMA CountPart ==
  ASSUME NEW S, IsFiniteSet(S), NEW A \in SUBSET S
  PROVE  /\ Cardinality(S) \in Nat /\ Cardinality(A) \in 0..Cardinality(S)
         /\ Cardinality(A) = Cardinality(S) => A = S
         /\ Cardinality(A) = 0 <=> A = {}
BY FS_Subset, FS_CardinalityType, FS_EmptySet

-----------------------------------------------------------------------------
\* The wait groups.

Connecting == {"connect"}
Unreported == {"connect", "warmup", "done"} \cup Measuring

LEMMA CountType ==
  ASSUME NEW P
  PROVE  /\ Cardinality(At(P)) \in Nat
         /\ Cardinality(At(P)) = 0 <=> At(P) = {}
<1>1. At(P) \in SUBSET Goroutines
  BY DEF At
<1>2. QED
  BY <1>1, GoBenchAssumption, CountPart

\* What a step of one goroutine does to a count.
LEMMA CountStep ==
  ASSUME TypeOK, NEW g \in Goroutines, NEW to, pc' = [pc EXCEPT ![g] = to], NEW P
  PROVE  Cardinality(At(P))' =
           Cardinality(At(P)) + (IF to \in P THEN 1 ELSE 0) - (IF pc[g] \in P THEN 1 ELSE 0)
<1>1. pc'[g] = to /\ \A h \in Goroutines \ {g} : pc'[h] = pc[h]
  BY DEF TypeOK
<1>2. /\ At(P) \in SUBSET Goroutines /\ At(P)' \in SUBSET Goroutines
      /\ At(P) \ {g} = At(P)' \ {g}
      /\ g \in At(P) <=> pc[g] \in P
      /\ g \in At(P)' <=> to \in P
  BY <1>1 DEF At
<1>3. Cardinality(At(P)') =
        Cardinality(At(P)) + (IF g \in At(P)' THEN 1 ELSE 0) - (IF g \in At(P) THEN 1 ELSE 0)
  BY <1>2, CountMoved, GoBenchAssumption
<1>4. QED
  BY <1>2, <1>3

In(place, P) == IF place \in P THEN 1 ELSE 0

Moved(from, to) ==
  /\ Cardinality(At(Connecting))' =
       Cardinality(At(Connecting)) + In(to, Connecting) - In(from, Connecting)
  /\ Cardinality(At(Unreported))' =
       Cardinality(At(Unreported)) + In(to, Unreported) - In(from, Unreported)

LEMMA CountSteps ==
  ASSUME TypeOK, NEW g \in Goroutines, NEW from, NEW to,
         pc[g] = from, pc' = [pc EXCEPT ![g] = to]
  PROVE  Moved(from, to)
<1>1. Cardinality(At(Connecting))' =
        Cardinality(At(Connecting)) + In(to, Connecting) - In(from, Connecting)
  BY CountStep DEF In
<1>2. Cardinality(At(Unreported))' =
        Cardinality(At(Unreported)) + In(to, Unreported) - In(from, Unreported)
  BY CountStep DEF In
<1>3. QED
  BY <1>1, <1>2 DEF Moved

\* Groups in these terms, before and after a step.
LEMMA GroupsAre ==
  /\ Groups <=> /\ started = Cardinality(At(Connecting))
                /\ reported = Cardinality(At(Unreported))
  /\ Groups' <=> /\ started' = Cardinality(At(Connecting))'
                 /\ reported' = Cardinality(At(Unreported))'
BY DEF Groups, Connecting, Unreported

LEMMA GroupsStep ==
  ASSUME TypeOK, Groups, [Next]_vars
  PROVE  Groups'
<1> DEFINE c == Cardinality(At(Connecting))
           u == Cardinality(At(Unreported))
<1>1. started = c /\ reported = u /\ c \in Nat /\ u \in Nat
  BY GroupsAre, CountType
<1>2. CASE pc' = pc /\ groups' = groups
  <2>1. c' = c /\ u' = u
    BY <1>2 DEF At
  <2>2. QED
    BY <1>1, <1>2, <2>1, GroupsAre DEF groups
<1>3. CASE Create
  <2>1. Moved("none", "connect")
    BY <1>3, CountSteps DEF Create
  <2>2. c' = c + 1 /\ u' = u + 1
    BY <1>1, <2>1 DEF Moved, In, Connecting, Unreported, Measuring
  <2>3. QED
    BY <1>1, <1>3, <2>2, GroupsAre DEF Create
<1>4. CASE MainStep /\ ~Create
  <2>1. pc' = pc /\ groups' = groups
    BY <1>4 DEF MainStep, Created, WaitStarted, StoreMeasure, StoreReport, WaitReported,
                Aggregate, DivideByZero, groups
  <2>2. QED
    BY <1>2, <2>1
<1>5. ASSUME NEW g \in Goroutines, GoroutineStep(g)
      PROVE  Groups'
  <2>1. CASE Handshake(g)
    <3>1. Moved("connect", "warmup")
      BY <2>1, CountSteps DEF Handshake, Goes
    <3>2. c' = c - 1 /\ u' = u
      BY <1>1, <3>1 DEF Moved, In, Connecting, Unreported, Measuring
    <3>3. QED
      BY <1>1, <2>1, <3>2, GroupsAre DEF Handshake
  <2>2. CASE SeesMeasure(g) \/ Operation(g) \/ Counted(g) \/ SeesReport(g) \/ Stop(g)
    <3>1. \/ Moved("warmup", "measure") \/ Moved("measure", "operate")
          \/ Moved("operate", "measure") \/ Moved("measure", "stop") \/ Moved("stop", "done")
      BY <2>2, CountSteps DEF SeesMeasure, Operation, Counted, SeesReport, Stop, Goes
    <3>2. c' = c /\ u' = u
      BY <1>1, <3>1 DEF Moved, In, Connecting, Unreported, Measuring
    <3>3. groups' = groups
      BY <2>2 DEF SeesMeasure, Operation, Counted, SeesReport, Stop
    <3>4. QED
      BY <1>1, <3>2, <3>3, GroupsAre DEF groups
  <2>3. CASE Done(g)
    <3>1. Moved("done", "after")
      BY <2>3, CountSteps DEF Done, Goes
    <3>2. c' = c /\ u' = u - 1
      BY <1>1, <3>1 DEF Moved, In, Connecting, Unreported, Measuring
    <3>3. QED
      BY <1>1, <2>3, <3>2, GroupsAre DEF Done
  <2>4. QED
    BY <1>5, <2>1, <2>2, <2>3 DEF GoroutineStep
<1>6. CASE Panic \/ UNCHANGED vars
  BY <1>2, <1>6 DEF Panic, vars
<1>7. QED
  BY <1>3, <1>4, <1>5, <1>6 DEF Next

-----------------------------------------------------------------------------
\* The other parts of the invariant.

LEMMA TypeStep ==
  ASSUME TypeOK, Groups', [Next]_vars
  PROVE  TypeOK'
<1>1. started' \in Nat /\ reported' \in Nat
  <2>1. /\ At(Connecting)' \in SUBSET Goroutines
        /\ At(Unreported)' \in SUBSET Goroutines
    BY DEF At
  <2>2. QED
    BY <2>1, GroupsAre, GoBenchAssumption, CountPart
<1>2. CASE MainStep
  BY <1>1, <1>2
  DEF MainStep, Create, Created, WaitStarted, StoreMeasure, StoreReport, WaitReported,
      Aggregate, DivideByZero, MainGoes, flags, args, TypeOK
<1>3. ASSUME NEW g \in Goroutines, GoroutineStep(g)
      PROVE  TypeOK'
  <2>1. CASE Counted(g)
    <3>1. numOps' \in [Goroutines -> Nat]
      BY <2>1 DEF Counted, TypeOK
    <3>2. QED
      BY <1>1, <2>1, <3>1 DEF Counted, Goes, flags, TypeOK
  <2>2. CASE ~Counted(g)
    BY <1>1, <1>3, <2>2
    DEF GoroutineStep, Handshake, SeesMeasure, Operation, SeesReport, Stop, Done,
        Goes, flags, args, TypeOK
  <2>3. QED
    BY <2>1, <2>2
<1>4. CASE Panic \/ UNCHANGED vars
  BY <1>1, <1>4 DEF Panic, vars, flags, args, TypeOK
<1>5. QED
  BY <1>2, <1>3, <1>4 DEF Next

\* Ordered, goroutine by goroutine.
OrderedFor(g) ==
  /\ main # "create" => pc[g] # "none"
  /\ main \notin {"create", "started"} => pc[g] \notin {"none", "connect"}
  /\ ~shouldMeasure => pc[g] \notin Measuring \cup {"done", "after"}
  /\ ~shouldReport => pc[g] \notin {"stop", "done", "after"}
  /\ main \in {"sum", "exit"} => pc[g] = "after"

FlagsInOrder ==
  /\ shouldMeasure => main \notin {"create", "started", "warmup"}
  /\ shouldReport => main \in {"reported", "sum", "exit"}

LEMMA OrderedIs == Ordered <=> FlagsInOrder /\ \A g \in Goroutines : OrderedFor(g)
BY DEF Ordered, FlagsInOrder, OrderedFor, At

LEMMA OrderedMain ==
  ASSUME TypeOK, Groups, FlagsInOrder, \A g \in Goroutines : OrderedFor(g), MainStep
  PROVE  FlagsInOrder' /\ \A g \in Goroutines : OrderedFor(g)'
<1>1. CASE Create
  BY <1>1 DEF Create, flags, FlagsInOrder, OrderedFor, TypeOK, Measuring
<1>2. CASE Created
  BY <1>2 DEF Created, MainGoes, flags, FlagsInOrder, OrderedFor, TypeOK, Measuring
<1>3. CASE WaitStarted
  <2>1. \A g \in Goroutines : pc[g] # "connect"
    BY <1>3, GroupsAre, CountType DEF WaitStarted, At, Connecting
  <2>2. QED
    BY <1>3, <2>1 DEF WaitStarted, MainGoes, flags, FlagsInOrder, OrderedFor, TypeOK
<1>4. CASE StoreMeasure
  BY <1>4 DEF StoreMeasure, MainGoes, FlagsInOrder, OrderedFor, TypeOK
<1>5. CASE StoreReport
  BY <1>5 DEF StoreReport, MainGoes, FlagsInOrder, OrderedFor, TypeOK
<1>6. CASE WaitReported
  <2>1. \A g \in Goroutines : pc[g] \notin Unreported
    BY <1>6, GroupsAre, CountType DEF WaitReported, At
  <2>2. \A g \in Goroutines : pc[g] = "after"
    BY <1>6, <2>1
    DEF WaitReported, MainGoes, OrderedFor, TypeOK, Unreported, Measuring
  <2>3. QED
    BY <1>6, <2>2 DEF WaitReported, MainGoes, flags, FlagsInOrder, OrderedFor, TypeOK
<1>7. CASE Aggregate \/ DivideByZero
  BY <1>7 DEF Aggregate, DivideByZero, MainGoes, flags, FlagsInOrder, OrderedFor, TypeOK
<1>8. QED
  BY <1>1, <1>2, <1>3, <1>4, <1>5, <1>6, <1>7 DEF MainStep

LEMMA OrderedStep ==
  ASSUME TypeOK, Groups, Ordered, [Next]_vars
  PROVE  Ordered'
<1>1. FlagsInOrder /\ \A g \in Goroutines : OrderedFor(g)
  BY OrderedIs
<1>2. Ordered' <=> FlagsInOrder' /\ \A g \in Goroutines : OrderedFor(g)'
  BY DEF Ordered, FlagsInOrder, OrderedFor, At
<1>3. CASE MainStep
  BY <1>1, <1>2, <1>3, OrderedMain
<1>4. ASSUME NEW g \in Goroutines, GoroutineStep(g)
      PROVE  Ordered'
  <2>1. UNCHANGED <<main, shouldMeasure, shouldReport>>
    BY <1>4 DEF GoroutineStep, Handshake, SeesMeasure, Operation, Counted, SeesReport, Stop,
                Done, Goes, flags
  <2>2. \A h \in Goroutines \ {g} : pc'[h] = pc[h]
    BY <1>4 DEF GoroutineStep, Handshake, SeesMeasure, Operation, Counted, SeesReport, Stop,
                Done, Goes, TypeOK
  <2>3. OrderedFor(g)'
    BY <1>1, <1>4, <2>1
    DEF GoroutineStep, Handshake, SeesMeasure, Operation, Counted, SeesReport, Stop, Done,
        Goes, OrderedFor, TypeOK, Measuring
  <2>4. QED
    BY <1>1, <1>2, <2>1, <2>2, <2>3 DEF FlagsInOrder, OrderedFor
<1>5. CASE Panic \/ UNCHANGED vars
  BY <1>1, <1>2, <1>5 DEF Panic, vars, flags, FlagsInOrder, OrderedFor
<1>6. QED
  BY <1>3, <1>4, <1>5 DEF Next

LEMMA SettledStep ==
  ASSUME TypeOK, Settled, [Next]_vars
  PROVE  Settled'
<1>1. CASE Create
  BY <1>1 DEF Create, args, Settled, TypeOK, Early
<1>2. CASE MainStep /\ ~Create
  BY <1>2
  DEF MainStep, Created, WaitStarted, StoreMeasure, StoreReport, WaitReported, Aggregate,
      DivideByZero, MainGoes, args, Settled, TypeOK
<1>3. ASSUME NEW g \in Goroutines, GoroutineStep(g)
      PROVE  Settled'
  <2>1. CASE Counted(g)
    BY <2>1 DEF Counted, Goes, Settled, TypeOK, Early
  <2>2. CASE Stop(g)
    BY <2>2 DEF Stop, Goes, Settled, TypeOK, Early
  <2>3. CASE Handshake(g) \/ SeesMeasure(g) \/ Operation(g) \/ SeesReport(g) \/ Done(g)
    BY <2>3
    DEF Handshake, SeesMeasure, Operation, SeesReport, Done, Goes, args, Settled, TypeOK, Early
  <2>4. QED
    BY <1>3, <2>1, <2>2, <2>3 DEF GoroutineStep
<1>4. CASE Panic \/ UNCHANGED vars
  BY <1>4 DEF Panic, vars, args, Settled
<1>5. QED
  BY <1>1, <1>2, <1>3, <1>4 DEF Next

-----------------------------------------------------------------------------
\* The invariant.

LEMMA InitInv == Init => FlagInv
<1> SUFFICES ASSUME Init PROVE FlagInv
  OBVIOUS
<1>1. TypeOK
  BY DEF Init, TypeOK
<1>2. At(Connecting) = {} /\ At(Unreported) = {}
  BY DEF Init, At, Connecting, Unreported, Measuring
<1>3. Groups
  BY <1>2, GroupsAre, CountType DEF Init
<1>4. FlagsInOrder /\ \A g \in Goroutines : OrderedFor(g)
  BY DEF Init, FlagsInOrder, OrderedFor, Measuring
<1>5. Settled
  BY DEF Init, Settled, Early
<1>6. QED
  BY <1>1, <1>3, <1>4, <1>5, OrderedIs DEF FlagInv

\* Wait groups and flags are enough, for any number of goroutines: when the
\* main goroutine adds up, all have reported.
THEOREM FlagsExact == Spec => []FlagInv
<1>1. FlagInv /\ [Next]_vars => FlagInv'
  <2> SUFFICES ASSUME FlagInv, [Next]_vars PROVE FlagInv'
    OBVIOUS
  <2>1. Groups'
    BY GroupsStep DEF FlagInv
  <2>2. TypeOK'
    BY <2>1, TypeStep DEF FlagInv
  <2>3. Ordered'
    BY OrderedStep DEF FlagInv
  <2>4. Settled'
    BY SettledStep DEF FlagInv
  <2>5. QED
    BY <2>1, <2>2, <2>3, <2>4 DEF FlagInv
<1>2. QED
  BY <1>1, InitInv, PTL DEF Spec

-----------------------------------------------------------------------------
\* go/client.go implements Rounds.

Stages == [g \in Goroutines |-> StageOf(g)]

\* Rounds and GoBench count and add up with the same operators.
LEMMA SameCardinality == ASSUME NEW S PROVE Round!Cardinality(S) = Cardinality(S)
BY DEF Cardinality, Round!Cardinality

LEMMA SameSum ==
  ASSUME NEW f, NEW S PROVE Round!SumFunctionOnSet(f, S) = SumFunctionOnSet(f, S)
BY DEF SumFunctionOnSet, Round!SumFunctionOnSet, FoldFunctionOnSet, Round!FoldFunctionOnSet,
       MapThenFoldSet, Round!MapThenFoldSet

LEMMA CountAll == N \in Nat
BY GoBenchAssumption, FS_CardinalityType DEF N

LEMMA InitRound == Init => Round!Init
<1> SUFFICES ASSUME Init PROVE Round!Init
  OBVIOUS
<1>1. \A g \in Goroutines : StageOf(g) = "preparing"
  BY DEF Init, StageOf, Measuring
<1>2. QED
  BY <1>1 DEF Init, Round!Init

LEMMA StepRound ==
  ASSUME FlagInv, [Next]_vars
  PROVE  [Round!Next]_(Round!vars)
<1>0. TypeOK /\ FlagsInOrder /\ (\A g \in Goroutines : OrderedFor(g)) /\ Settled
  BY OrderedIs DEF FlagInv
<1>1. CASE UNCHANGED <<pc, numOps, printed>>
  BY <1>1 DEF Round!vars, StageOf
<1>2. CASE Aggregate
  <2>1. Stages' = Stages /\ numOps' = numOps /\ printed = -1
    BY <1>0, <1>2 DEF Aggregate, MainGoes, Stages, StageOf, args, Settled
  <2>2. \A g \in Goroutines : pc[g] = "after"
    BY <1>0, <1>2 DEF Aggregate, MainGoes, OrderedFor
  <2>3. {w \in Goroutines : Stages[w] = "reported"} = Goroutines
    BY <2>2 DEF Stages, StageOf, Measuring
  <2>4. Round!Reporters = Goroutines
    BY <2>3 DEF Round!Reporters, Stages
  <2>5. printed < 0 /\ Cardinality(Round!Reporters) = N
    BY <2>1, <2>4 DEF N
  <2>6. printed' = SumFunctionOnSet(numOps, Round!Reporters)
    BY <1>2, <2>4 DEF Aggregate
  <2>7. Round!Total
    BY <2>1, <2>5, <2>6, SameCardinality, SameSum DEF Round!Total, Stages
  <2>8. QED
    BY <2>7 DEF Round!Next
<1>3. CASE Create
  <2>1. PICK g \in Goroutines : pc[g] = "none" /\ pc' = [pc EXCEPT ![g] = "connect"]
    BY <1>3 DEF Create
  <2>2. Stages' = Stages
    BY <1>0, <2>1 DEF Stages, StageOf, Measuring, TypeOK
  <2>3. QED
    BY <1>3, <2>2 DEF Create, args, Round!vars, Stages
<1>4. ASSUME NEW g \in Goroutines, GoroutineStep(g)
      PROVE  [Round!Next]_(Round!vars)
  <2>1. CASE Handshake(g)
    <3>1. Stages[g] = "preparing" /\ Stages' = [Stages EXCEPT ![g] = "ready"]
      BY <1>0, <2>1 DEF Handshake, Goes, Stages, StageOf, Measuring, TypeOK
    <3>2. Round!Prepare(g)
      BY <2>1, <3>1 DEF Handshake, Goes, args, Stages, Round!Prepare, Round!Moves
    <3>3. QED
      BY <3>2 DEF Round!Next
  <2>2. CASE SeesMeasure(g)
    <3>1. Stages[g] = "ready" /\ Stages' = [Stages EXCEPT ![g] = "measuring"]
      BY <1>0, <2>2 DEF SeesMeasure, Goes, Stages, StageOf, Measuring, TypeOK
    <3>2. \A h \in Goroutines : pc[h] \notin {"none", "connect"}
      BY <1>0, <2>2 DEF SeesMeasure, FlagsInOrder, OrderedFor
    <3>3. {v \in Goroutines : Stages[v] # "preparing"} = Goroutines
      BY <3>2 DEF Stages, StageOf, Measuring
    <3>4. Cardinality({v \in Goroutines : Stages[v] # "preparing"}) >= N
      BY <3>3, CountAll DEF N
    <3>5. Round!Moves(g, "ready", "measuring")
      BY <2>2, <3>1 DEF SeesMeasure, Goes, args, Stages, Round!Moves
    <3>6. Round!Measure(g)
      BY <3>4, <3>5, SameCardinality DEF Stages, Round!Measure
    <3>7. QED
      BY <3>6 DEF Round!Next
  <2>3. CASE Counted(g)
    <3>1. Stages[g] = "measuring" /\ Stages' = Stages
      BY <1>0, <2>3 DEF Counted, Goes, Stages, StageOf, Measuring, TypeOK
    <3>2. Round!Operate(g)
      BY <2>3, <3>1 DEF Counted, Goes, Stages, Round!Operate
    <3>3. QED
      BY <3>2 DEF Round!Next
  <2>4. CASE Stop(g)
    <3>1. Stages[g] = "measuring" /\ Stages' = [Stages EXCEPT ![g] = "reported"]
      BY <1>0, <2>4 DEF Stop, Goes, Stages, StageOf, Measuring, TypeOK
    <3>2. Round!Report(g)
      BY <2>4, <3>1 DEF Stop, Goes, Stages, Round!Report, Round!Moves
    <3>3. QED
      BY <3>2 DEF Round!Next
  <2>5. CASE Operation(g) \/ SeesReport(g) \/ Done(g)
    <3>1. Stages' = Stages
      BY <1>0, <2>5 DEF Operation, SeesReport, Done, Goes, Stages, StageOf, Measuring, TypeOK
    <3>2. QED
      BY <2>5, <3>1 DEF Operation, SeesReport, Done, Goes, args, Stages, Round!vars
  <2>6. QED
    BY <1>4, <2>1, <2>2, <2>3, <2>4, <2>5 DEF GoroutineStep
<1>5. CASE \/ Created \/ WaitStarted \/ StoreMeasure \/ StoreReport \/ WaitReported
           \/ DivideByZero \/ Panic \/ UNCHANGED vars
  BY <1>1, <1>5
  DEF Created, WaitStarted, StoreMeasure, StoreReport, WaitReported, DivideByZero, Panic,
      vars, args
<1>6. QED
  BY <1>2, <1>3, <1>4, <1>5 DEF Next, MainStep

\* A run of the Go client is a benchmark round, whatever the number of
\* goroutines and operations.
THEOREM GoBenchIsRound == Spec => RoundSpec
<1>1. FlagInv /\ [Next]_vars => [Round!Next]_(Round!vars)
  BY StepRound
<1>2. QED
  BY <1>1, InitRound, FlagsExact, PTL DEF Spec, RoundSpec, Round!Spec
=============================================================================
