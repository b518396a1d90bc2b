------------------------------- MODULE Rounds -------------------------------
(***************************************************************************)
(* What a benchmark round promises, whether its workers are the threads of *)
(* client.c or the processes that driver.py starts: nobody measures before *)
(* as many workers as were asked for have started, and the total is taken  *)
(* once, from the final counts of exactly that many.                       *)
(***************************************************************************)
EXTENDS Integers, FiniteSets, Functions

CONSTANTS
  Workers,  \* all that may take part
  Wanted    \* how many of them are to

VARIABLES
  stage,  \* of each worker: "preparing", "ready", "measuring" or "reported"
  count,  \* operations each worker has measured
  total   \* the total printed, or -1

vars == <<stage, count, total>>

Init ==
  /\ stage = [w \in Workers |-> "preparing"]
  /\ count = [w \in Workers |-> 0]
  /\ total = -1

Moves(w, from, to) ==
  /\ stage[w] = from
  /\ stage' = [stage EXCEPT ![w] = to]
  /\ UNCHANGED <<count, total>>

Prepare(w) == Moves(w, "preparing", "ready")

Measure(w) ==
  /\ Cardinality({v \in Workers : stage[v] # "preparing"}) >= Wanted
  /\ Moves(w, "ready", "measuring")

Operate(w) ==
  /\ stage[w] = "measuring"
  /\ count' = [count EXCEPT ![w] = @ + 1]
  /\ UNCHANGED <<stage, total>>

Report(w) == Moves(w, "measuring", "reported")

Reporters == {w \in Workers : stage[w] = "reported"}

Total ==
  /\ total < 0
  /\ Cardinality(Reporters) = Wanted
  /\ total' = SumFunctionOnSet(count, Reporters)
  /\ UNCHANGED <<stage, count>>

Next ==
  \/ \E w \in Workers : Prepare(w) \/ Measure(w) \/ Operate(w) \/ Report(w)
  \/ Total

Spec == Init /\ [][Next]_vars
=============================================================================
