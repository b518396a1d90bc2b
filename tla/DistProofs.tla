----------------------------- MODULE DistProofs -----------------------------
(***************************************************************************)
(* Proofs about DistBench, for any number of hosts and of processes that   *)
(* earlier rounds left on them: spots are never oversold, processes        *)
(* measure only when as many as were asked for have started, and the       *)
(* driver adds up only when every report is final.                         *)
(***************************************************************************)
EXTENDS DistBench, Integers, FiniteSetTheorems, SequenceTheorems, WellFoundedInduction, TLAPS

-----------------------------------------------------------------------------
\* Sums.  SumFunctionOnSet (Functions) is a fold that takes the elements of a
\* set one by one in an order of its own; these lemmas say that it is defined
\* for every finite set and that the order does not matter.  Each is proved
\* from a least counterexample.

\* Each set of natural numbers has a least one: induction over the size of a
\* set takes this form below.
LEMMA Least ==
  ASSUME NEW T \in SUBSET Nat, T # {}
  PROVE  \E m \in T : \A n \in T : m <= n
<1>1. IsWellFoundedOn(OpToRel(<, Nat), Nat)
  BY NatLessThanWellFounded
<1>2. PICK m \in T : \A n \in T : ~(<<n, m>> \in OpToRel(<, Nat))
  BY <1>1, WFMin
<1>3. \A n \in T : m <= n
  <2> TAKE n \in T
  <2>1. n \in Nat /\ m \in Nat /\ ~(n < m)
    BY <1>2 DEF OpToRel
  <2>2. QED
    BY <2>1
<1>4. QED
  BY <1>3

\* The element that the fold takes next, and what it makes of the rest.
Chosen(s) == CHOOSE x \in s : TRUE
SumStep(g, f, s) == IF s = {} THEN 0 ELSE f[Chosen(s)] + g[s \ {Chosen(s)}]

\* g has the sum of f for each of these parts.
AddsUp(g, f, parts) == g = [s \in parts |-> SumStep(g, f, s)]

Numbers(f, S) == \A x \in S : f[x] \in Nat

Parts(S, n) == {s \in SUBSET S : Cardinality(s) <= n}

\* The fold is a function defined by recursion over the parts of S.
LEMMA SumUnfold ==
  ASSUME NEW f, NEW S
  PROVE  SumFunctionOnSet(f, S) = (CHOOSE g : AddsUp(g, f, SUBSET S))[S]
BY DEF SumFunctionOnSet, FoldFunctionOnSet, MapThenFoldSet, AddsUp, SumStep, Chosen

\* There is such a function if S is finite, ...
LEMMA SumExists ==
  ASSUME NEW f, NEW S, IsFiniteSet(S)
  PROVE  \E g : AddsUp(g, f, SUBSET S)
<1> DEFINE Bad == {n \in Nat : ~ \E g : AddsUp(g, f, Parts(S, n))}
<1>0. \A s \in SUBSET S : IsFiniteSet(s) /\ Cardinality(s) \in Nat /\ (Cardinality(s) = 0 <=> s = {})
  BY FS_Subset, FS_CardinalityType, FS_EmptySet
<1>1. Bad = {}
  <2> SUFFICES ASSUME Bad # {} PROVE FALSE
    OBVIOUS
  <2>1. PICK n \in Bad : \A m \in Bad : n <= m
    BY Least
  <2>2. n # 0
    <3> SUFFICES ASSUME n = 0 PROVE FALSE
      OBVIOUS
    <3>1. Parts(S, 0) = {{}}
      BY <1>0 DEF Parts
    <3>2. AddsUp([s \in {{}} |-> 0], f, {{}})
      BY DEF AddsUp, SumStep
    <3>3. QED
      BY <2>1, <3>1, <3>2
  <2>3. PICK m \in Nat : n = m + 1 /\ m \notin Bad
    <3>1. n - 1 \in Nat /\ n = (n - 1) + 1 /\ ~(n <= n - 1)
      BY <2>2
    <3>2. QED
      BY <2>1, <3>1
  <2>4. PICK g : AddsUp(g, f, Parts(S, m))
    BY <2>3
  <2> DEFINE h == [s \in Parts(S, n) |-> SumStep(g, f, s)]
  <2>5. \A s \in Parts(S, m) : h[s] = g[s]
    <3> TAKE s \in Parts(S, m)
    <3>1. s \in Parts(S, n)
      BY <1>0, <2>3 DEF Parts
    <3>2. QED
      BY <2>4, <3>1 DEF AddsUp
  <2>6. \A s \in Parts(S, n) : s # {} => s \ {Chosen(s)} \in Parts(S, m)
    <3> TAKE s \in Parts(S, n)
    <3> HAVE s # {}
    <3>1. Chosen(s) \in s
      BY DEF Chosen
    <3>2. IsFiniteSet(s) /\ Cardinality(s) \in Nat /\ Cardinality(s) <= m + 1
      BY <1>0, <2>3 DEF Parts
    <3>3. Cardinality(s \ {Chosen(s)}) = Cardinality(s) - 1
      BY <3>1, <3>2, FS_RemoveElement
    <3>4. QED
      BY <3>2, <3>3 DEF Parts
  <2>7. \A s \in Parts(S, n) : SumStep(g, f, s) = SumStep(h, f, s)
    BY <2>5, <2>6 DEF SumStep
  <2>8. AddsUp(h, f, Parts(S, n))
    BY <2>7 DEF AddsUp
  <2>9. QED
    BY <2>1, <2>8
<1>2. Cardinality(S) \in Nat /\ Parts(S, Cardinality(S)) = SUBSET S
  BY FS_Subset, FS_CardinalityType DEF Parts
<1>3. \E g : AddsUp(g, f, Parts(S, Cardinality(S)))
  BY <1>1, <1>2
<1>4. QED
  BY <1>2, <1>3

LEMMA SumFunctions ==
  ASSUME NEW f, NEW S, IsFiniteSet(S)
  PROVE  \E g : AddsUp(g, f, SUBSET S) /\ SumFunctionOnSet(f, S) = g[S]
<1>1. PICK g : AddsUp(g, f, SUBSET S)
  BY SumExists
<1>2. AddsUp(CHOOSE h : AddsUp(h, f, SUBSET S), f, SUBSET S)
  BY <1>1
<1>3. QED
  BY <1>2, SumUnfold

\* ... and they all give the same sums.
LEMMA SumUnique ==
  ASSUME NEW f, NEW S, NEW R, NEW g, NEW h,
         IsFiniteSet(S), R \subseteq S, AddsUp(g, f, SUBSET S), AddsUp(h, f, SUBSET R)
  PROVE  g[R] = h[R]
<1> DEFINE Bad == {Cardinality(s) : s \in {t \in SUBSET R : g[t] # h[t]}}
<1>0. \A s \in SUBSET R : s \in SUBSET S /\ IsFiniteSet(s) /\ Cardinality(s) \in Nat
  BY FS_Subset, FS_CardinalityType
<1>1. ASSUME NEW t \in SUBSET R, g[t] # h[t] PROVE FALSE
  <2>1. Bad \subseteq Nat /\ Bad # {}
    BY <1>0, <1>1
  <2>2. PICK m \in Bad : \A n \in Bad : m <= n
    BY <2>1, Least
  <2>3. PICK s \in SUBSET R : m = Cardinality(s) /\ g[s] # h[s]
    BY <2>2
  <2>4. \A r \in SUBSET R : ~(m <= Cardinality(r)) => g[r] = h[r]
    BY <2>2
  <2>5. g[s] = SumStep(g, f, s) /\ h[s] = SumStep(h, f, s)
    BY <1>0 DEF AddsUp
  <2>6. s # {}
    BY <2>3, <2>5 DEF SumStep
  <2>7. Chosen(s) \in s
    BY <2>6 DEF Chosen
  <2>8. Cardinality(s \ {Chosen(s)}) = Cardinality(s) - 1 /\ Cardinality(s) \in Nat
    BY <1>0, <2>7, FS_RemoveElement
  <2>9. g[s \ {Chosen(s)}] = h[s \ {Chosen(s)}]
    BY <2>3, <2>4, <2>8
  <2>10. QED
    BY <2>3, <2>5, <2>9 DEF SumStep
<1>2. QED
  BY <1>1

LEMMA SumChosen ==
  ASSUME NEW f, NEW S, IsFiniteSet(S)
  PROVE  SumFunctionOnSet(f, S) =
           IF S = {} THEN 0 ELSE f[Chosen(S)] + SumFunctionOnSet(f, S \ {Chosen(S)})
<1>0. PICK R : R = S \ {Chosen(S)} /\ IsFiniteSet(R) /\ R \subseteq S
  BY FS_Subset
<1>1. PICK g : AddsUp(g, f, SUBSET S) /\ SumFunctionOnSet(f, S) = g[S]
  BY SumFunctions
<1>2. PICK h : AddsUp(h, f, SUBSET R) /\ SumFunctionOnSet(f, R) = h[R]
  BY <1>0, SumFunctions
<1>3. g[R] = h[R]
  <2>1. R \subseteq S /\ AddsUp(g, f, SUBSET S) /\ AddsUp(h, f, SUBSET R)
    BY <1>0, <1>1, <1>2
  <2>2. QED
    BY <2>1, SumUnique, SMTT(30)
<1>4. g[S] = SumStep(g, f, S)
  BY <1>1 DEF AddsUp
<1>5. QED
  BY <1>0, <1>1, <1>2, <1>3, <1>4 DEF SumStep

LEMMA SumEmpty == \A f : SumFunctionOnSet(f, {}) = 0
BY SumChosen, FS_EmptySet
LEMMA SumNat ==
  ASSUME NEW f, NEW S, IsFiniteSet(S), Numbers(f, S)
  PROVE  SumFunctionOnSet(f, S) \in Nat
<1> DEFINE Bad == {Cardinality(s) : s \in {t \in SUBSET S : SumFunctionOnSet(f, t) \notin Nat}}
<1>0. \A s \in SUBSET S : IsFiniteSet(s) /\ Cardinality(s) \in Nat
  BY FS_Subset, FS_CardinalityType
<1> SUFFICES ASSUME SumFunctionOnSet(f, S) \notin Nat PROVE FALSE
  OBVIOUS
<1>1. Bad \subseteq Nat /\ Bad # {}
  BY <1>0
<1>2. PICK m \in Bad : \A n \in Bad : m <= n
  BY <1>1, Least
<1>3. PICK s \in SUBSET S : m = Cardinality(s) /\ SumFunctionOnSet(f, s) \notin Nat
  BY <1>2
<1>4. \A r \in SUBSET S : ~(m <= Cardinality(r)) => SumFunctionOnSet(f, r) \in Nat
  BY <1>2
<1>5. s # {}
  BY <1>3, SumEmpty
<1>6. Chosen(s) \in s
  BY <1>5 DEF Chosen
<1>7. Cardinality(s \ {Chosen(s)}) = Cardinality(s) - 1 /\ Cardinality(s) \in Nat
  BY <1>0, <1>6, FS_RemoveElement
<1>8. SumFunctionOnSet(f, s \ {Chosen(s)}) \in Nat /\ f[Chosen(s)] \in Nat
  BY <1>3, <1>4, <1>6, <1>7 DEF Numbers
<1>9. SumFunctionOnSet(f, s) = f[Chosen(s)] + SumFunctionOnSet(f, s \ {Chosen(s)})
  BY <1>0, <1>5, SumChosen
<1>10. QED
  BY <1>3, <1>8, <1>9

\* Any element may be taken first.
LEMMA SumRemove ==
  ASSUME NEW f, NEW S, NEW x, x \in S, IsFiniteSet(S), Numbers(f, S)
  PROVE  SumFunctionOnSet(f, S) = f[x] + SumFunctionOnSet(f, S \ {x})
<1> DEFINE Wrong(t) == \E y \in t : SumFunctionOnSet(f, t) # f[y] + SumFunctionOnSet(f, t \ {y})
           Bad == {Cardinality(s) : s \in {t \in SUBSET S : Wrong(t)}}
<1>0. \A s \in SUBSET S : /\ IsFiniteSet(s) /\ Cardinality(s) \in Nat
                          /\ SumFunctionOnSet(f, s) \in Nat
  BY FS_Subset, FS_CardinalityType, SumNat DEF Numbers
<1> SUFFICES ASSUME Wrong(S) PROVE FALSE
  OBVIOUS
<1>1. Bad \subseteq Nat /\ Bad # {}
  BY <1>0
<1>2. PICK m \in Bad : \A n \in Bad : m <= n
  BY <1>1, Least
<1>3. PICK s \in SUBSET S : m = Cardinality(s) /\ Wrong(s)
  BY <1>2
<1>4. \A r \in SUBSET S : ~(m <= Cardinality(r)) => ~Wrong(r)
  BY <1>2
<1>5. PICK y \in s : SumFunctionOnSet(f, s) # f[y] + SumFunctionOnSet(f, s \ {y})
  BY <1>3
<1> DEFINE c == Chosen(s)
<1>6. c \in s
  BY DEF Chosen
<1>7. SumFunctionOnSet(f, s) = f[c] + SumFunctionOnSet(f, s \ {c})
  BY <1>0, <1>6, SumChosen
<1> HIDE DEF c
<1>8. y # c
  BY <1>5, <1>7
<1>9. /\ Cardinality(s \ {c}) = Cardinality(s) - 1 /\ Cardinality(s \ {y}) = Cardinality(s) - 1
      /\ Cardinality(s) \in Nat
  BY <1>0, <1>6, FS_RemoveElement
<1>10. ~Wrong(s \ {c}) /\ ~Wrong(s \ {y})
  <2>1. s \ {c} \in SUBSET S /\ s \ {y} \in SUBSET S
    OBVIOUS
  <2>2. ~(m <= Cardinality(s \ {c})) /\ ~(m <= Cardinality(s \ {y}))
    BY <1>3, <1>9
  <2>3. QED
    BY <1>4, <2>1, <2>2
<1>11. SumFunctionOnSet(f, s \ {c}) = f[y] + SumFunctionOnSet(f, (s \ {c}) \ {y})
  BY <1>8, <1>10
<1>12. SumFunctionOnSet(f, s \ {y}) = f[c] + SumFunctionOnSet(f, (s \ {y}) \ {c})
  BY <1>6, <1>8, <1>10
<1>13. (s \ {y}) \ {c} = (s \ {c}) \ {y}
  OBVIOUS
<1>14. PICK a \in Nat, b \in Nat, d \in Nat :
         a = f[y] /\ b = f[c] /\ d = SumFunctionOnSet(f, (s \ {c}) \ {y})
  BY <1>0, <1>6 DEF Numbers
<1>15. SumFunctionOnSet(f, s) = b + (a + d) /\ SumFunctionOnSet(f, s) # a + (b + d)
  BY <1>5, <1>7, <1>11, <1>12, <1>13, <1>14
<1>16. QED
  BY <1>15

\* A sum depends on nothing but the values on its set.
LEMMA SumAgree ==
  ASSUME NEW S, IsFiniteSet(S), NEW f, NEW g, \A x \in S : f[x] = g[x]
  PROVE  SumFunctionOnSet(f, S) = SumFunctionOnSet(g, S)
<1>1. PICK u : AddsUp(u, f, SUBSET S) /\ SumFunctionOnSet(f, S) = u[S]
  BY SumFunctions
<1>2. PICK v : AddsUp(v, g, SUBSET S) /\ SumFunctionOnSet(g, S) = v[S]
  BY SumFunctions
<1>3. \A s \in SUBSET S : SumStep(v, f, s) = SumStep(v, g, s)
  BY DEF SumStep, Chosen
<1>4. AddsUp(v, f, SUBSET S)
  BY <1>2, <1>3 DEF AddsUp
<1>5. u[S] = v[S]
  BY <1>1, <1>4, SumUnique
<1>6. QED
  BY <1>1, <1>2, <1>5

\* Elements that have nothing add nothing.
LEMMA SumZero ==
  ASSUME NEW f, NEW S, NEW R, IsFiniteSet(S), R \subseteq S,
         Numbers(f, S), \A x \in S \ R : f[x] = 0
  PROVE  SumFunctionOnSet(f, S) = SumFunctionOnSet(f, R)
<1> DEFINE Good(t) == SumFunctionOnSet(f, t) = SumFunctionOnSet(f, R)
           Bad == {Cardinality(s) : s \in {t \in SUBSET S : R \subseteq t /\ ~Good(t)}}
<1>0. \A s \in SUBSET S : IsFiniteSet(s) /\ Cardinality(s) \in Nat
  BY FS_Subset, FS_CardinalityType
<1> SUFFICES ASSUME ~Good(S) PROVE FALSE
  OBVIOUS
<1>1. Bad \subseteq Nat /\ Bad # {}
  BY <1>0
<1>2. PICK m \in Bad : \A n \in Bad : m <= n
  BY <1>1, Least
<1>3. PICK s \in SUBSET S : m = Cardinality(s) /\ R \subseteq s /\ ~Good(s)
  BY <1>2
<1>4. PICK y \in s : y \notin R
  BY <1>3
<1>5. Cardinality(s \ {y}) = Cardinality(s) - 1 /\ Cardinality(s) \in Nat
  BY <1>0, FS_RemoveElement
<1>6. Good(s \ {y})
  <2>1. s \ {y} \in SUBSET S /\ R \subseteq s \ {y} /\ ~(m <= Cardinality(s \ {y}))
    BY <1>3, <1>4, <1>5
  <2>2. QED
    BY <1>2, <2>1
<1>7. SumFunctionOnSet(f, s) = f[y] + SumFunctionOnSet(f, s \ {y})
  <2>1. IsFiniteSet(s) /\ Numbers(f, s)
    BY <1>0 DEF Numbers
  <2>2. QED
    BY <2>1, SumRemove
<1>8. f[y] = 0 /\ SumFunctionOnSet(f, s \ {y}) \in Nat
  <2>1. IsFiniteSet(s \ {y}) /\ Numbers(f, s \ {y}) /\ f[y] = 0
    BY <1>0, <1>4 DEF Numbers
  <2>2. QED
    BY <2>1, SumNat
<1>9. QED
  BY <1>3, <1>6, <1>7, <1>8

LEMMA SumAdd ==
  ASSUME NEW f, NEW S, NEW R, NEW x, S = R \cup {x}, x \notin R, IsFiniteSet(S), Numbers(f, S)
  PROVE  SumFunctionOnSet(f, S) = f[x] + SumFunctionOnSet(f, R)
<1>1. x \in S /\ S \ {x} = R
  OBVIOUS
<1>2. SumFunctionOnSet(f, S) = f[x] + SumFunctionOnSet(f, S \ {x})
  BY <1>1, SumRemove
<1>3. QED
  BY <1>1, <1>2

\* The sum of a list that grows.
LEMMA SumAppend ==
  ASSUME NEW s \in Seq(Nat), NEW n \in Nat
  PROVE  SumFunction(Append(s, n)) = n + SumFunction(s)
<1> DEFINE r == Append(s, n)
<1>1. /\ r \in Seq(Nat) /\ Len(s) \in Nat
      /\ DOMAIN r = 1..(Len(s) + 1) /\ DOMAIN s = 1..Len(s)
      /\ r[Len(s) + 1] = n /\ \A j \in 1..Len(s) : r[j] = s[j]
  BY AppendProperties, LenProperties
<1>2. IsFiniteSet(1..(Len(s) + 1)) /\ IsFiniteSet(1..Len(s))
  BY <1>1, FS_Interval
<1> HIDE DEF r
<1>3. PICK S, R, x :
        /\ S = R \cup {x} /\ x \notin R /\ IsFiniteSet(S) /\ IsFiniteSet(R)
        /\ Numbers(r, S) /\ S = DOMAIN r /\ R = DOMAIN s
        /\ r[x] = n /\ \A j \in R : r[j] = s[j]
  <2>1. 1..(Len(s) + 1) = (1..Len(s)) \cup {Len(s) + 1} /\ Len(s) + 1 \notin 1..Len(s)
    BY <1>1
  <2>2. Numbers(r, 1..(Len(s) + 1))
    BY <1>1 DEF Numbers
  <2>3. QED
    BY <1>1, <1>2, <2>1, <2>2
<1>4. SumFunctionOnSet(r, S) = r[x] + SumFunctionOnSet(r, R)
  BY <1>3, SumAdd
<1>5. SumFunctionOnSet(r, R) = SumFunctionOnSet(s, R)
  BY <1>3, SumAgree
<1>6. QED
  BY <1>3, <1>4, <1>5 DEF SumFunction, r

-----------------------------------------------------------------------------
\* How the size of a set changes when one element enters or leaves.

\* A and B agree on all elements of S but t, as the threads at some places
\* do before and after a step of the thread t.
LEMMA CountMoved ==
  ASSUME NEW S, IsFiniteSet(S), NEW A \in SUBSET S, NEW B \in SUBSET S, NEW t,
         A \ {t} = B \ {t}
  PROVE  /\ Cardinality(A) \in Nat /\ Cardinality(B) \in Nat
         /\ Cardinality(B) =
              Cardinality(A) + (IF t \in B THEN 1 ELSE 0) - (IF t \in A THEN 1 ELSE 0)
<1>1. IsFiniteSet(A) /\ IsFiniteSet(B) /\ Cardinality(A) \in Nat /\ Cardinality(B) \in Nat
  BY FS_Subset, FS_CardinalityType
<1>2. CASE t \in A <=> t \in B
  <2>1. A = B
    BY <1>2
  <2>2. QED
    BY <1>1, <1>2, <2>1
<1>3. CASE t \in A /\ t \notin B
  <2>1. B = A \ {t}
    BY <1>3
  <2>2. Cardinality(B) = Cardinality(A) - 1
    BY <1>1, <1>3, <2>1, FS_RemoveElement
  <2>3. QED
    BY <1>1, <1>3, <2>2
<1>4. CASE t \notin A /\ t \in B
  <2>1. B = A \cup {t}
    BY <1>4
  <2>2. Cardinality(B) = Cardinality(A) + 1
    BY <1>1, <1>4, <2>1, FS_AddElement
  <2>3. QED
    BY <1>1, <1>4, <2>2
<1>5. QED
  BY <1>2, <1>3, <1>4

\* A part of S has at most as many elements, and as many only when it is S.
LEMMA CountPart ==
  ASSUME NEW S, IsFiniteSet(S), NEW A \in SUBSET S
  PROVE  /\ Cardinality(S) \in Nat /\ Cardinality(A) \in 0..Cardinality(S)
         /\ Cardinality(A) = Cardinality(S) => A = S
         /\ Cardinality(A) = 0 <=> A = {}
BY FS_Subset, FS_CardinalityType, FS_EmptySet

-----------------------------------------------------------------------------
\* Processes counted by where they are.

At(places) == {p \in Procs : pc[p] \in places}

ReportedAt == {"exit"}
ListedAt == {"incr", "exit"}
MeasuringAt == {"wait_report", "put", "incr", "exit"}
PastAt == {"wait_measure", "wait_report", "put", "incr", "exit", "unflagged"}
ClaimedAt == {"load", "threads"} \cup PastAt

Places == {"off", "claim", "unclaimed"} \cup ClaimedAt

Left == IF store["numclients"] > 0 THEN store["numclients"] ELSE 0

-----------------------------------------------------------------------------
\* The invariant.

\* Spots that are left and spots that were taken.
SpotsInv ==
  /\ Left + Cardinality(At(ClaimedAt)) <= N
  /\ driver = "write" => todo.keys \in 1..6
  /\ driver = "write" /\ todo.keys = 1 => Left = 0 /\ At(ClaimedAt) = {}

\* What the counters and the list in Redis say of the processes.
CountersInv ==
  /\ store["started"] >= 0 /\ store["started"] <= Cardinality(At(PastAt))
  /\ store["reported"] = Cardinality(At(ReportedAt))
  /\ Len(results) = Cardinality(At(ListedAt))

\* What the flags say of the driver, and the driver's waits of the processes.
FlagsInv ==
  /\ store["should_measure"] > 0 => driver \in {"report", "reported", "total", "done"}
  /\ At(MeasuringAt) # {} => store["should_measure"] > 0
  /\ driver \in {"measure", "report", "reported", "total", "done"} =>
       Cardinality(At(PastAt)) >= N
  /\ driver \in {"total", "done"} => Cardinality(At(ReportedAt)) >= N

\* The driver starts each process once.
StartInv ==
  \A h \in Hosts :
    driver \in {"write", "kill"} \/ (driver = "start" /\ h \in todo.hosts) =>
      pc[<<"new", h>>] = "off"

IndInv == TypeOK /\ SpotsInv /\ CountersInv /\ FlagsInv /\ StartInv

-----------------------------------------------------------------------------
\* Lemmas.

LEMMA KeyNames ==
  /\ Len(Keys) = 6
  /\ KeySet = {"numclients", "params", "should_measure", "should_report", "reported", "started"}
  /\ Keys[1] = "numclients"
  /\ \A j \in 2..6 : Keys[j] \in KeySet \ {"numclients"}
<1>1. Len(Keys) = 6
  BY DEF Keys
<1>2. /\ Keys[1] = "numclients" /\ Keys[2] = "params" /\ Keys[3] = "should_measure"
      /\ Keys[4] = "should_report" /\ Keys[5] = "reported" /\ Keys[6] = "started"
  BY DEF Keys
<1>3. \A j \in 1..6 : j = 1 \/ j = 2 \/ j = 3 \/ j = 4 \/ j = 5 \/ j = 6
  OBVIOUS
<1>4. KeySet = {"numclients", "params", "should_measure", "should_report", "reported", "started"}
  BY <1>1, <1>2, <1>3 DEF KeySet
<1>5. \A j \in 2..6 : Keys[j] \in KeySet \ {"numclients"}
  BY <1>2, <1>4
<1>6. QED
  BY <1>1, <1>2, <1>4, <1>5

LEMMA Finite == IsFiniteSet(Procs) /\ N \in Nat
<1>1. IsFiniteSet({"new"} \X Hosts)
  BY DistAssumption, FS_Singleton, FS_Product
<1>2. IsFiniteSet({"old"} \X Leftovers)
  BY DistAssumption, FS_Singleton, FS_Product, FS_Subset
<1>3. QED
  BY <1>1, <1>2, DistAssumption, FS_Union, FS_CardinalityType DEF Procs, N

\* The counts are numbers, and a place among others counts no more than they.
LEMMA Counts ==
  /\ \A places : At(places) \subseteq Procs /\ Cardinality(At(places)) \in Nat
  /\ Cardinality(At(ReportedAt)) <= Cardinality(At(ListedAt))
  /\ Cardinality(At(PastAt)) <= Cardinality(At(ClaimedAt))
  /\ Cardinality(At(ReportedAt)) <= Cardinality(At(ClaimedAt))
<1>1. ASSUME NEW places
      PROVE  /\ At(places) \subseteq Procs /\ IsFiniteSet(At(places))
             /\ Cardinality(At(places)) \in Nat
  BY Finite, FS_Subset, FS_CardinalityType DEF At
<1>2. /\ At(ReportedAt) \subseteq At(ListedAt)
      /\ At(PastAt) \subseteq At(ClaimedAt) /\ At(ReportedAt) \subseteq At(ClaimedAt)
  BY DEF At, ReportedAt, ListedAt, PastAt, ClaimedAt
<1>3. QED
  BY <1>1, <1>2, FS_Subset

\* ... in the next state too.
LEMMA CountsNext ==
  /\ Cardinality(At(PastAt)') <= Cardinality(At(ClaimedAt)')
  /\ Cardinality(At(ReportedAt)') <= Cardinality(At(ClaimedAt)')
<1>1. /\ At(PastAt)' \subseteq At(ClaimedAt)' /\ At(ReportedAt)' \subseteq At(ClaimedAt)'
      /\ At(ClaimedAt)' \subseteq Procs
  BY DEF At, ReportedAt, PastAt, ClaimedAt
<1>2. QED
  BY <1>1, Finite, FS_Subset

\* A process goes from one place to another.
LEMMA Moved ==
  ASSUME TypeOK, NEW p \in Procs, NEW to, pc' = [pc EXCEPT ![p] = to], NEW places
  PROVE  /\ Cardinality(At(places)) \in Nat /\ Cardinality(At(places)') \in Nat
         /\ Cardinality(At(places)') =
              Cardinality(At(places)) + (IF to \in places THEN 1 ELSE 0)
                - (IF pc[p] \in places THEN 1 ELSE 0)
         /\ At(places)' \subseteq At(places) \cup (IF to \in places THEN {p} ELSE {})
<1>1. pc'[p] = to /\ \A q \in Procs \ {p} : pc'[q] = pc[q]
  BY DEF TypeOK
<1>2. /\ At(places) \in SUBSET Procs /\ At(places)' \in SUBSET Procs
      /\ At(places) \ {p} = At(places)' \ {p}
      /\ p \in At(places) <=> pc[p] \in places
      /\ p \in At(places)' <=> to \in places
  BY <1>1 DEF At
<1>3. /\ Cardinality(At(places)) \in Nat /\ Cardinality(At(places)') \in Nat
      /\ Cardinality(At(places)') =
           Cardinality(At(places)) + (IF p \in At(places)' THEN 1 ELSE 0)
             - (IF p \in At(places) THEN 1 ELSE 0)
  BY <1>2, Finite, CountMoved
<1>4. QED
  BY <1>2, <1>3

LEMMA StoreSet ==
  ASSUME TypeOK, NEW k \in KeySet, NEW v \in Int, Set(k, v)
  PROVE  /\ store' \in [KeySet -> Int] /\ present' \subseteq KeySet
         /\ store'[k] = v /\ \A other \in KeySet \ {k} : store'[other] = store[other]
         /\ results' = results
BY DEF Set, TypeOK

LEMMA IndInit == Init => IndInv
<1> SUFFICES ASSUME Init PROVE IndInv
  OBVIOUS
<1>1. At(ClaimedAt) = {} /\ At(PastAt) = {} /\ At(ReportedAt) = {} /\ At(ListedAt) = {}
      /\ At(MeasuringAt) = {}
  BY DEF Init, At, ClaimedAt, PastAt, ReportedAt, ListedAt, MeasuringAt
<1>2. TypeOK
  BY KeyNames, Finite, DistAssumption, EmptySeq DEF Init, TypeOK
<1>3. Cardinality({}) = 0
  BY FS_EmptySet
<1>4. \A k \in KeySet : store[k] = 0
  BY DEF Init
<1>5. Len(results) = 0 /\ driver = "write" /\ todo.keys = 1
  BY DEF Init
<1>6. QED
  BY <1>1, <1>2, <1>3, <1>4, <1>5, KeyNames, Finite
  DEF IndInv, SpotsInv, CountersInv, FlagsInv, Left, Init, StartInv, Procs

-----------------------------------------------------------------------------
\* The driver.

\* What is left of a loop over the hosts.
LEMMA ForHostType ==
  ASSUME TypeOK, NEW h, NEW at, NEW next, ForHost(h, at, next), at # next
  PROVE  /\ todo' \in [keys : 1..(Len(Keys) + 1), hosts : SUBSET Hosts]
         /\ driver' = at => todo'.hosts = todo.hosts \ {h}
<1>1. todo \in [keys : 1..(Len(Keys) + 1), hosts : SUBSET Hosts]
  BY DEF TypeOK
<1>2. PICK left \in SUBSET Hosts :
        /\ todo' = [todo EXCEPT !.hosts = left]
        /\ driver' = at => left = todo.hosts \ {h}
  <2>1. todo.hosts \ {h} \in SUBSET Hosts
    BY <1>1
  <2>2. QED
    BY <2>1 DEF ForHost, DriverGoes
<1>3. QED
  BY <1>1, <1>2

LEMMA IndDriver ==
  ASSUME IndInv, DriverStep
  PROVE  IndInv'
<1>0. TypeOK /\ SpotsInv /\ CountersInv /\ FlagsInv /\ StartInv
  BY DEF IndInv
<1>1. CASE WriteParam
  <2>1. PICK v \in Int :
          /\ Set(Keys[todo.keys], v)
          /\ todo.keys = 1 => v = N
          /\ todo.keys # 1 /\ todo.keys # 2 => v = 0
    <3>1. todo.keys \in 1..6
      BY <1>0, <1>1 DEF WriteParam, DriverGoes, SpotsInv
    <3>2. /\ Keys[1] = "numclients" /\ Keys[2] = "params" /\ Keys[3] = "should_measure"
          /\ Keys[4] = "should_report" /\ Keys[5] = "reported" /\ Keys[6] = "started"
      BY DEF Keys
    <3>3. QED
      BY <1>1, <3>1, <3>2, Finite DEF WriteParam
  <2>2. /\ driver = "write" /\ driver' = IF todo.keys = 6 THEN "kill" ELSE "write"
        /\ todo' = [todo EXCEPT !.keys = todo.keys + 1]
        /\ UNCHANGED <<kills, total, procVars>> /\ todo.keys \in 1..6
    BY <1>0, <1>1, KeyNames DEF WriteParam, DriverGoes, SpotsInv
  <2>3. Keys[todo.keys] \in KeySet /\ (todo.keys = 1 <=> Keys[todo.keys] = "numclients")
    BY <2>2, KeyNames
  <2>4. /\ store' \in [KeySet -> Int] /\ present' \subseteq KeySet /\ results' = results
        /\ store'[Keys[todo.keys]] = v
        /\ \A other \in KeySet \ {Keys[todo.keys]} : store'[other] = store[other]
    BY <1>0, <2>1, <2>3, StoreSet
  <2>5. todo' \in [keys : 1..7, hosts : SUBSET Hosts] /\ todo'.keys = todo.keys + 1
    <3>1. todo \in [keys : 1..7, hosts : SUBSET Hosts] /\ todo.keys + 1 \in 1..7
      BY <1>0, <2>2, KeyNames DEF TypeOK
    <3>2. QED
      BY <2>2, <3>1
  <2>6. \A places : At(places)' = At(places)
    BY <2>2 DEF procVars, At
  <2>7. At(MeasuringAt) = {} /\ Cardinality(At(ReportedAt)) = 0 /\ store["reported"] = 0
    <3>1. At(MeasuringAt) = {}
      BY <1>0, <2>2 DEF FlagsInv
    <3>2. At(ReportedAt) = {}
      BY <3>1 DEF At, MeasuringAt, ReportedAt
    <3>3. QED
      BY <1>0, <3>1, <3>2, FS_EmptySet DEF CountersInv
  <2>8. store'["reported"] = 0 /\ store'["should_measure"] <= 0
    <3>1. store["should_measure"] <= 0
      BY <1>0, <2>2, KeyNames DEF FlagsInv, TypeOK
    <3>2. \A k \in {"reported", "should_measure"} :
            k \in KeySet /\ (store'[k] = store[k] \/ store'[k] = 0)
      <4>1. Keys[todo.keys] \in {"reported", "should_measure"} => v = 0
        <5>1. Keys[2] = "params" /\ Keys[1] = "numclients"
          BY DEF Keys
        <5>2. QED
          BY <2>1, <2>2, <5>1
      <4>2. QED
        BY <2>4, <4>1, KeyNames
    <3>3. QED
      BY <2>7, <3>1, <3>2
  <2>9. store'["started"] >= 0 /\ store'["started"] <= Cardinality(At(PastAt))
    <3>1. Keys[todo.keys] = "started" => v = 0
      <4>1. Keys[2] = "params" /\ Keys[1] = "numclients"
        BY DEF Keys
      <4>2. QED
        BY <2>1, <2>2, <4>1
    <3>2. store'["started"] = store["started"] \/ store'["started"] = 0
      BY <2>4, <3>1, KeyNames
    <3>3. QED
      BY <1>0, <3>2, Counts DEF CountersInv
  <2>10. SpotsInv'
    <3>1. CASE todo.keys = 1
      <4>1. store'["numclients"] = N /\ Cardinality(At(ClaimedAt)) = 0
        BY <1>0, <2>1, <2>2, <2>3, <2>4, <3>1, FS_EmptySet, KeyNames DEF SpotsInv
      <4>2. QED
        BY <2>2, <2>5, <2>6, <3>1, <4>1, Finite DEF SpotsInv, Left
    <3>2. CASE todo.keys # 1
      <4>1. store'["numclients"] = store["numclients"]
        BY <2>3, <2>4, <3>2, KeyNames
      <4>2. Left' = Left
        BY <4>1 DEF Left
      <4>3. todo'.keys # 1 /\ (driver' = "write" => todo'.keys \in 1..6)
        BY <2>2, <2>5, <3>2
      <4>4. QED
        BY <1>0, <2>6, <4>2, <4>3 DEF SpotsInv
    <3>3. QED
      BY <3>1, <3>2
  <2>11. CountersInv'
    BY <1>0, <2>4, <2>6, <2>7, <2>8, <2>9 DEF CountersInv
  <2>12. FlagsInv'
    <3>1. ~(store'["should_measure"] > 0)
      BY <2>4, <2>8, KeyNames
    <3>2. QED
      BY <2>2, <2>6, <2>7, <3>1 DEF FlagsInv
  <2>13. TypeOK'
    <3>1. /\ driver' \in {"kill", "write"} /\ driver # "done"
          /\ store'["started"] \in 0..N /\ store'["reported"] \in 0..N
      <4>1. Cardinality(At(PastAt)) <= N /\ Cardinality(At(PastAt)) \in Nat
        <5>1. Left \in Nat /\ N \in Nat
          BY <1>0, Finite, KeyNames DEF Left, TypeOK
        <5>2. Left + Cardinality(At(ClaimedAt)) <= N
          BY <1>0 DEF SpotsInv
        <5>3. QED
          BY <5>1, <5>2, Counts
      <4>2. store'["started"] \in Int
        BY <2>4, KeyNames
      <4>3. QED
        BY <2>2, <2>8, <2>9, <4>1, <4>2, Finite
    <3>2. todo' \in [keys : 1..(Len(Keys) + 1), hosts : SUBSET Hosts]
      BY <2>5, KeyNames
    <3>3. QED
      BY <1>0, <2>2, <2>4, <3>1, <3>2 DEF TypeOK, procVars
  <2>14. StartInv'
    BY <1>0, <2>2 DEF StartInv, procVars
  <2>15. QED
    BY <2>10, <2>11, <2>12, <2>13, <2>14 DEF IndInv
<1>2. CASE \E h \in Hosts : KillClient(h)
  <2>1. /\ UNCHANGED <<total, redisVars, procVars>>
        /\ driver = "kill" /\ driver' \in {"kill", "start"}
        /\ todo' \in [keys : 1..(Len(Keys) + 1), hosts : SUBSET Hosts]
        /\ kills' \subseteq Hosts
    <3>1. PICK h \in Hosts : KillClient(h)
      BY <1>2
    <3>2. /\ UNCHANGED <<total, redisVars, procVars>>
          /\ driver = "kill" /\ driver' \in {"kill", "start"}
          /\ kills' = kills \cup {h}
      BY <3>1 DEF KillClient, ForHost, DriverGoes
    <3>3. todo' \in [keys : 1..(Len(Keys) + 1), hosts : SUBSET Hosts]
      BY <1>0, <3>1, ForHostType DEF KillClient
    <3>4. QED
      BY <1>0, <3>2, <3>3 DEF TypeOK
  <2>2. TypeOK'
    BY <1>0, <2>1 DEF TypeOK, redisVars, procVars
  <2>3. SpotsInv' /\ CountersInv' /\ FlagsInv' /\ StartInv'
    BY <1>0, <2>1 DEF SpotsInv, CountersInv, FlagsInv, StartInv, Left, At, redisVars, procVars
  <2>4. QED
    BY <2>2, <2>3 DEF IndInv
<1>3. CASE \E h \in Hosts : StartClient(h)
  <2>1. PICK h \in Hosts : StartClient(h)
    BY <1>3
  <2>2. /\ UNCHANGED <<kills, total, redisVars, dead, count>>
        /\ driver = "start" /\ driver' \in {"start", "started"} /\ h \in todo.hosts
        /\ todo' \in [keys : 1..(Len(Keys) + 1), hosts : SUBSET Hosts]
        /\ driver' = "start" => todo'.hosts = todo.hosts \ {h}
        /\ pc' = [pc EXCEPT ![<<"new", h>>] = "claim"] /\ <<"new", h>> \in Procs
    <3>1. /\ UNCHANGED <<kills, total, redisVars, dead, count>>
          /\ driver = "start" /\ driver' \in {"start", "started"} /\ h \in todo.hosts
          /\ pc' = [pc EXCEPT ![<<"new", h>>] = "claim"] /\ <<"new", h>> \in Procs
      BY <2>1 DEF StartClient, ForHost, DriverGoes, Procs
    <3>2. /\ todo' \in [keys : 1..(Len(Keys) + 1), hosts : SUBSET Hosts]
          /\ driver' = "start" => todo'.hosts = todo.hosts \ {h}
      BY <1>0, <2>1, ForHostType DEF StartClient
    <3>3. QED
      BY <3>1, <3>2
  <2>3. pc[<<"new", h>>] = "off"
    BY <1>0, <2>2 DEF StartInv
  <2>4. \A places : "off" \notin places /\ "claim" \notin places => At(places)' = At(places)
    <3>1. \A q \in Procs : q # <<"new", h>> => pc'[q] = pc[q]
      BY <1>0, <2>2 DEF TypeOK
    <3>2. pc'[<<"new", h>>] = "claim"
      BY <1>0, <2>2 DEF TypeOK
    <3>3. QED
      BY <2>3, <3>1, <3>2 DEF At
  <2>5. /\ At(ClaimedAt)' = At(ClaimedAt) /\ At(PastAt)' = At(PastAt)
        /\ At(ReportedAt)' = At(ReportedAt) /\ At(ListedAt)' = At(ListedAt)
        /\ At(MeasuringAt)' = At(MeasuringAt)
    BY <2>4 DEF ClaimedAt, PastAt, ReportedAt, ListedAt, MeasuringAt
  <2>6. TypeOK'
    BY <1>0, <2>2 DEF TypeOK, redisVars
  <2>7. SpotsInv' /\ CountersInv' /\ FlagsInv'
    BY <1>0, <2>2, <2>5 DEF SpotsInv, CountersInv, FlagsInv, Left, redisVars
  <2>8. StartInv'
    BY <1>0, <2>2 DEF StartInv, TypeOK
  <2>9. QED
    BY <2>6, <2>7, <2>8 DEF IndInv
<1>4. CASE \/ CounterWait("started", "started", "measure")
           \/ CounterWait("reported", "reported", "total")
           \/ GetThroughput
  <2>1. /\ UNCHANGED <<todo, kills, redisVars, procVars>>
        /\ \/ driver = "started" /\ driver' = "measure" /\ store["started"] >= N /\ total' = total
           \/ driver = "reported" /\ driver' = "total" /\ store["reported"] >= N /\ total' = total
           \/ driver = "total" /\ driver' = "done"
    BY <1>4 DEF CounterWait, GetThroughput, DriverGoes
  <2>2. \A places : At(places)' = At(places)
    BY <2>1 DEF procVars, At
  <2>3. TypeOK'
    BY <1>0, <2>1 DEF TypeOK, redisVars, procVars
  <2>4. SpotsInv' /\ CountersInv' /\ StartInv'
    BY <1>0, <2>1, <2>2 DEF SpotsInv, CountersInv, StartInv, Left, redisVars, procVars
  <2>5. FlagsInv'
    <3>1. Cardinality(At(PastAt)) \in Nat /\ Cardinality(At(ReportedAt)) \in Nat /\ N \in Nat
      BY Counts, Finite
    <3>2. store["started"] \in Int
      BY <1>0, KeyNames DEF TypeOK
    <3>3. driver = "started" /\ driver' = "measure" => Cardinality(At(PastAt)) >= N
      BY <1>0, <2>1, <3>1, <3>2 DEF CountersInv
    <3>4. driver = "reported" /\ driver' = "total" => Cardinality(At(ReportedAt)) >= N
      BY <1>0, <2>1 DEF CountersInv
    <3>5. QED
      BY <1>0, <2>1, <2>2, <3>3, <3>4 DEF FlagsInv, redisVars
  <2>6. QED
    BY <2>3, <2>4, <2>5 DEF IndInv
<1>5. CASE \/ FlagSet("should_measure", "measure", "report")
           \/ FlagSet("should_report", "report", "reported")
  <2>1. PICK k \in {"should_measure", "should_report"} :
          /\ Set(k, 1) /\ UNCHANGED <<todo, kills, total, procVars>>
          /\ \/ k = "should_measure" /\ driver = "measure" /\ driver' = "report"
             \/ k = "should_report" /\ driver = "report" /\ driver' = "reported"
    BY <1>5 DEF FlagSet, DriverGoes
  <2>2. /\ store' \in [KeySet -> Int] /\ present' \subseteq KeySet /\ results' = results
        /\ \A other \in KeySet \ {k} : store'[other] = store[other]
        /\ store'[k] = 1
    BY <1>0, <2>1, StoreSet, KeyNames
  <2>3. /\ store'["numclients"] = store["numclients"] /\ store'["started"] = store["started"]
        /\ store'["reported"] = store["reported"]
        /\ store["should_measure"] > 0 => store'["should_measure"] > 0
    BY <2>1, <2>2, KeyNames
  <2>4. \A places : At(places)' = At(places)
    BY <2>1 DEF procVars, At
  <2>5. TypeOK'
    BY <1>0, <2>1, <2>2, <2>3 DEF TypeOK, procVars
  <2>6. SpotsInv' /\ CountersInv' /\ StartInv'
    BY <1>0, <2>1, <2>2, <2>3, <2>4 DEF SpotsInv, CountersInv, StartInv, Left, procVars
  <2>7. FlagsInv'
    BY <1>0, <2>1, <2>3, <2>4 DEF FlagsInv
  <2>8. QED
    BY <2>5, <2>6, <2>7 DEF IndInv
<1>6. QED
  BY <1>1, <1>2, <1>3, <1>4, <1>5 DEF DriverStep

-----------------------------------------------------------------------------
\* A process.

\* The change of a count by a process that goes from f to t.
Change(f, t, places) == (IF t \in places THEN 1 ELSE 0) - (IF f \in places THEN 1 ELSE 0)

\* What the steps of a process have in common: it goes from f to t.
LEMMA ProcMoves ==
  ASSUME IndInv, NEW p \in Procs, NEW f, NEW t, Goes(p, f, t),
         f # "off", t \in Places
  PROVE  /\ UNCHANGED <<driver, todo, kills, total, dead>>
         /\ pc[p] = f /\ pc' \in [Procs -> Places]
         /\ StartInv'
         /\ \A places : /\ Cardinality(At(places)) \in Nat /\ Cardinality(At(places)') \in Nat
                        /\ Cardinality(At(places)') = Cardinality(At(places)) + Change(f, t, places)
                        /\ t \notin places /\ At(places) = {} => At(places)' = {}
<1>0. TypeOK /\ StartInv
  BY DEF IndInv
<1>1. /\ pc[p] = f /\ pc' = [pc EXCEPT ![p] = t]
      /\ UNCHANGED <<driver, todo, kills, total, dead>>
  BY DEF Goes, driverVars
<1>2. pc' \in [Procs -> Places]
  BY <1>0, <1>1 DEF TypeOK, Places, ClaimedAt, PastAt
<1>3. StartInv'
  BY <1>0, <1>1 DEF StartInv, TypeOK, Procs
<1>4. ASSUME NEW places
      PROVE  /\ Cardinality(At(places)) \in Nat /\ Cardinality(At(places)') \in Nat
             /\ Cardinality(At(places)') = Cardinality(At(places)) + Change(f, t, places)
             /\ t \notin places /\ At(places) = {} => At(places)' = {}
  BY <1>0, <1>1, Moved DEF Change
<1>5. QED
  BY <1>1, <1>2, <1>3, <1>4

\* Redis follows a process that goes from f to t.
Follows(f, t) ==
  /\ f # "off" /\ t \in Places
  /\ store' \in [KeySet -> Int] /\ present' \subseteq KeySet /\ results' \in Seq(Nat)
  /\ count' \in [Procs -> 0..MaxOps]
  /\ Left' + Change(f, t, ClaimedAt) <= Left
  /\ Left = 0 => Left' = 0 /\ (t \in ClaimedAt => f \in ClaimedAt)
  /\ f \in PastAt => t \in PastAt
  /\ f \in ReportedAt => t \in ReportedAt
  /\ t \in MeasuringAt => f \in MeasuringAt \/ store["should_measure"] > 0
  /\ store'["should_measure"] = store["should_measure"]
  /\ store'["started"] = store["started"] + Change(f, t, PastAt)
  /\ store'["reported"] = store["reported"] + Change(f, t, ReportedAt)
  /\ Len(results') = Len(results) + Change(f, t, ListedAt)

LEMMA ProcKeeps ==
  ASSUME IndInv, NEW p \in Procs, NEW f, NEW t, Goes(p, f, t), Follows(f, t)
  PROVE  IndInv'
<1>0. TypeOK /\ SpotsInv /\ CountersInv /\ FlagsInv /\ StartInv
  BY DEF IndInv
<1>1. /\ UNCHANGED <<driver, todo, kills, total, dead>>
      /\ pc' \in [Procs -> Places] /\ StartInv'
      /\ \A places : /\ Cardinality(At(places)) \in Nat /\ Cardinality(At(places)') \in Nat
                     /\ Cardinality(At(places)') = Cardinality(At(places)) + Change(f, t, places)
                     /\ t \notin places /\ At(places) = {} => At(places)' = {}
  BY ProcMoves DEF Follows
<1>a. /\ Cardinality(At(ClaimedAt)) \in Nat /\ Cardinality(At(ClaimedAt)') \in Nat
      /\ Cardinality(At(ClaimedAt)') = Cardinality(At(ClaimedAt)) + Change(f, t, ClaimedAt)
      /\ Cardinality(At(PastAt)) \in Nat /\ Cardinality(At(PastAt)') \in Nat
      /\ Cardinality(At(PastAt)') = Cardinality(At(PastAt)) + Change(f, t, PastAt)
  BY <1>1, Zenon
<1>b. /\ Cardinality(At(ReportedAt)) \in Nat /\ Cardinality(At(ReportedAt)') \in Nat
      /\ Cardinality(At(ReportedAt)') = Cardinality(At(ReportedAt)) + Change(f, t, ReportedAt)
      /\ Cardinality(At(ListedAt)') = Cardinality(At(ListedAt)) + Change(f, t, ListedAt)
  BY <1>1, Zenon
<1>c. \A places : Change(f, t, places) \in {-1, 0, 1}
  BY DEF Change
<1>2. /\ N \in Nat /\ store["started"] \in Int /\ store["numclients"] \in Int
      /\ store'["started"] \in Int /\ store'["numclients"] \in Int
      /\ store["reported"] \in Int
  BY <1>0, Finite, KeyNames DEF TypeOK, Follows
<1>3. SpotsInv'
  <2>1. Left' + Cardinality(At(ClaimedAt)') <= N
    <3>1. Left + Cardinality(At(ClaimedAt)) <= N /\ Left' + Change(f, t, ClaimedAt) <= Left
      BY <1>0 DEF SpotsInv, Follows
    <3>2. Left \in Nat /\ Left' \in Nat
      BY <1>2 DEF Left
    <3>3. QED
      BY <1>2, <1>a, <1>c, <3>1, <3>2
  <2>2. driver = "write" /\ todo.keys = 1 => Left' = 0 /\ At(ClaimedAt)' = {}
    <3> SUFFICES ASSUME driver = "write", todo.keys = 1
                 PROVE  Left' = 0 /\ At(ClaimedAt)' = {}
      OBVIOUS
    <3>1. Left = 0 /\ At(ClaimedAt) = {} /\ Left' = 0
      BY <1>0 DEF SpotsInv, Follows
    <3>2. f \notin ClaimedAt
      BY <3>1 DEF Goes, At
    <3>3. t \notin ClaimedAt
      BY <3>1, <3>2 DEF Follows
    <3>4. QED
      BY <1>1, <3>1, <3>3
  <2>3. QED
    BY <1>0, <1>1, <2>1, <2>2 DEF SpotsInv
<1>4. CountersInv'
  <2>1. store'["started"] >= 0 /\ store'["started"] <= Cardinality(At(PastAt)')
    <3>1. store["started"] >= 0 /\ store["started"] <= Cardinality(At(PastAt))
      BY <1>0 DEF CountersInv
    <3>2. store'["started"] = store["started"] + Change(f, t, PastAt)
      BY DEF Follows
    <3>3. Change(f, t, PastAt) \in {0, 1}
      BY DEF Follows, Change
    <3>4. QED
      BY <1>2, <1>a, <3>1, <3>2, <3>3
  <2>2. store'["reported"] = Cardinality(At(ReportedAt)')
    BY <1>0, <1>b DEF CountersInv, Follows
  <2>3. Len(results') = Cardinality(At(ListedAt)')
    BY <1>0, <1>b DEF CountersInv, Follows
  <2>4. QED
    BY <2>1, <2>2, <2>3 DEF CountersInv
<1>5. FlagsInv'
  <2>1. Cardinality(At(PastAt)') >= Cardinality(At(PastAt))
    <3>1. Change(f, t, PastAt) \in {0, 1}
      BY DEF Follows, Change
    <3>2. QED
      BY <1>a, <3>1
  <2>2. Cardinality(At(ReportedAt)') >= Cardinality(At(ReportedAt))
    <3>1. Change(f, t, ReportedAt) \in {0, 1}
      BY DEF Follows, Change
    <3>2. QED
      BY <1>b, <3>1
  <2>3. At(MeasuringAt)' # {} => store["should_measure"] > 0
    <3>1. CASE f \in MeasuringAt
      <4>1. p \in At(MeasuringAt)
        BY <3>1 DEF Goes, At
      <4>2. QED
        BY <1>0, <4>1 DEF FlagsInv
    <3>2. CASE t \notin MeasuringAt
      BY <1>0, <1>1, <3>2 DEF FlagsInv
    <3>3. QED
      BY <3>1, <3>2 DEF Follows
  <2>4. /\ Cardinality(At(PastAt)) \in Nat /\ Cardinality(At(PastAt)') \in Nat
        /\ Cardinality(At(ReportedAt)) \in Nat /\ Cardinality(At(ReportedAt)') \in Nat
    BY <1>a, <1>b
  <2>5. store'["should_measure"] = store["should_measure"] /\ driver' = driver
    BY <1>1 DEF Follows
  <2>6. driver \in {"measure", "report", "reported", "total", "done"} =>
          Cardinality(At(PastAt)') >= N
    BY <1>0, <1>2, <2>1, <2>4 DEF FlagsInv
  <2>7. driver \in {"total", "done"} => Cardinality(At(ReportedAt)') >= N
    BY <1>0, <1>2, <2>2, <2>4 DEF FlagsInv
  <2>8. QED
    BY <1>0, <2>3, <2>5, <2>6, <2>7 DEF FlagsInv
<1>6. TypeOK'
  <2>1. store'["started"] \in 0..N /\ store'["reported"] \in 0..N
    <3>1. /\ Cardinality(At(PastAt)') <= Cardinality(At(ClaimedAt)')
          /\ Cardinality(At(ReportedAt)') <= Cardinality(At(ClaimedAt)')
          /\ Cardinality(At(PastAt)') \in Nat /\ Cardinality(At(ReportedAt)') \in Nat
          /\ Cardinality(At(ClaimedAt)') \in Nat
      BY <1>a, <1>b, CountsNext
    <3>2. Left' \in Nat
      BY <1>2 DEF Left
    <3>3. Cardinality(At(ClaimedAt)') <= N
      BY <1>2, <1>3, <3>1, <3>2 DEF SpotsInv
    <3>4. QED
      BY <1>2, <1>4, <3>1, <3>3 DEF CountersInv
  <2>2. QED
    BY <1>0, <1>1, <2>1 DEF TypeOK, Follows, Places, ClaimedAt, PastAt
<1>7. QED
  BY <1>1, <1>3, <1>4, <1>5, <1>6 DEF IndInv

LEMMA IndProc ==
  ASSUME IndInv, NEW p \in Procs, ProcStep(p)
  PROVE  IndInv'
<1> USE DEF Places, ClaimedAt, PastAt, MeasuringAt, ListedAt, ReportedAt
<1>0. /\ TypeOK /\ store \in [KeySet -> Int] /\ present \subseteq KeySet
      /\ results \in Seq(Nat) /\ count \in [Procs -> 0..MaxOps]
      /\ Len(results) \in Nat /\ N \in Nat /\ MaxOps \in Nat
      /\ \A k \in KeySet : store[k] \in Int
      /\ "numclients" \in KeySet /\ "started" \in KeySet /\ "reported" \in KeySet
      /\ "should_measure" \in KeySet
  BY Finite, KeyNames, LenProperties, DistAssumption DEF IndInv, TypeOK
<1>a. Left \in Nat
  BY <1>0 DEF Left
<1>1. CASE Claim(p)
  <2>1. /\ Goes(p, "claim", IF store["numclients"] > 0 THEN "load" ELSE "unclaimed")
        /\ UNCHANGED count
    BY <1>1 DEF Claim
  <2>2. /\ store' \in [KeySet -> Int] /\ present' \subseteq KeySet /\ results' = results
        /\ store'["numclients"] = store["numclients"] + (-1)
        /\ \A k \in KeySet \ {"numclients"} : store'[k] = store[k]
    BY <1>0, <1>1, StoreSet DEF Claim, Incr
  <2>3. /\ store'["should_measure"] = store["should_measure"]
        /\ store'["started"] = store["started"] /\ store'["reported"] = store["reported"]
    BY <1>0, <2>2
  <2>4. CASE store["numclients"] > 0
    <3>1. Left' + 1 = Left /\ Left # 0
      BY <1>0, <2>2, <2>4 DEF Left
    <3>2. Follows("claim", "load")
      BY <1>0, <1>a, <2>1, <2>2, <2>3, <3>1 DEF Follows, Change
    <3>3. QED
      BY <2>1, <2>4, <3>2, ProcKeeps
  <2>5. CASE ~(store["numclients"] > 0)
    <3>1. Left' = 0 /\ Left = 0
      BY <1>0, <2>2, <2>5 DEF Left
    <3>2. Follows("claim", "unclaimed")
      BY <1>0, <2>1, <2>2, <2>3, <3>1 DEF Follows, Change
    <3>3. QED
      BY <2>1, <2>5, <3>2, ProcKeeps
  <2>6. QED
    BY <2>4, <2>5
<1>2. CASE Load(p) \/ FlagMissing(p) \/ Operation(p)
  <2>1. UNCHANGED <<store, present, results>> /\ count' \in [Procs -> 0..MaxOps]
    BY <1>0, <1>2 DEF Load, FlagMissing, Operation, redisVars
  <2>2. Left' = Left
    BY <2>1 DEF Left
  <2>3. PICK f, t :
          /\ Goes(p, f, t)
          /\ \/ f = "load" /\ t \in {"threads", "unclaimed"}
             \/ f \in {"wait_measure", "wait_report"} /\ t = "unflagged"
             \/ f = "wait_report" /\ t = "wait_report"
    BY <1>2 DEF Load, FlagMissing, Operation
  <2>4. Follows(f, t)
    BY <1>0, <1>a, <2>1, <2>2, <2>3 DEF Follows, Change
  <2>5. QED
    BY <2>3, <2>4, ProcKeeps
<1>3. CASE ThreadsStarted(p)
  <2>1. /\ Goes(p, "threads", "wait_measure") /\ UNCHANGED count
        /\ store' \in [KeySet -> Int] /\ present' \subseteq KeySet /\ results' = results
        /\ store'["started"] = store["started"] + 1
        /\ \A k \in KeySet \ {"started"} : store'[k] = store[k]
    BY <1>0, <1>3, StoreSet DEF ThreadsStarted, Incr
  <2>2. /\ store'["should_measure"] = store["should_measure"]
        /\ store'["numclients"] = store["numclients"] /\ store'["reported"] = store["reported"]
    BY <1>0, <2>1
  <2>3. Left' = Left
    BY <2>2 DEF Left
  <2>4. Follows("threads", "wait_measure")
    BY <1>0, <1>a, <2>1, <2>2, <2>3 DEF Follows, Change
  <2>5. QED
    BY <2>1, <2>4, ProcKeeps
<1>4. CASE \/ FlagWait(p, "should_measure", "wait_measure", "wait_report")
           \/ FlagWait(p, "should_report", "wait_report", "put")
  <2>1. UNCHANGED <<store, present, results, count>>
    BY <1>4 DEF FlagWait, redisVars
  <2>2. Left' = Left
    BY <2>1 DEF Left
  <2>3. CASE FlagWait(p, "should_measure", "wait_measure", "wait_report")
    <3>1. Goes(p, "wait_measure", "wait_report") /\ store["should_measure"] > 0
      BY <2>3 DEF FlagWait
    <3>2. Follows("wait_measure", "wait_report")
      BY <1>0, <1>a, <2>1, <2>2, <3>1 DEF Follows, Change
    <3>3. QED
      BY <3>1, <3>2, ProcKeeps
  <2>4. CASE FlagWait(p, "should_report", "wait_report", "put")
    <3>1. Goes(p, "wait_report", "put")
      BY <2>4 DEF FlagWait
    <3>2. Follows("wait_report", "put")
      BY <1>0, <1>a, <2>1, <2>2 DEF Follows, Change
    <3>3. QED
      BY <3>1, <3>2, ProcKeeps
  <2>5. QED
    BY <1>4, <2>3, <2>4
<1>5. CASE PutReport(p)
  <2>1. Goes(p, "put", "incr") /\ UNCHANGED <<store, present, count>> /\ count[p] \in Nat
    BY <1>0, <1>5 DEF PutReport
  <2>2. results' \in Seq(Nat) /\ Len(results') = Len(results) + 1
    BY <1>0, <1>5, <2>1, AppendProperties DEF PutReport
  <2>3. Left' = Left
    BY <2>1 DEF Left
  <2>4. Follows("put", "incr")
    BY <1>0, <1>a, <2>1, <2>2, <2>3 DEF Follows, Change
  <2>5. QED
    BY <2>1, <2>4, ProcKeeps
<1>6. CASE CountReport(p)
  <2>1. /\ Goes(p, "incr", "exit") /\ UNCHANGED count
        /\ store' \in [KeySet -> Int] /\ present' \subseteq KeySet /\ results' = results
        /\ store'["reported"] = store["reported"] + 1
        /\ \A k \in KeySet \ {"reported"} : store'[k] = store[k]
    BY <1>0, <1>6, StoreSet DEF CountReport, Incr
  <2>2. /\ store'["should_measure"] = store["should_measure"]
        /\ store'["numclients"] = store["numclients"] /\ store'["started"] = store["started"]
    BY <1>0, <2>1
  <2>3. Left' = Left
    BY <2>2 DEF Left
  <2>4. Follows("incr", "exit")
    BY <1>0, <1>a, <2>1, <2>2, <2>3 DEF Follows, Change
  <2>5. QED
    BY <2>1, <2>4, ProcKeeps
<1>7. QED
  BY <1>1, <1>2, <1>3, <1>4, <1>5, <1>6 DEF ProcStep

-----------------------------------------------------------------------------

LEMMA IndStep == IndInv /\ [Next]_vars => IndInv'
<1> SUFFICES ASSUME IndInv, [Next]_vars PROVE IndInv'
  OBVIOUS
<1>1. ASSUME UNCHANGED <<driver, todo, total, redisVars, pc, count>>,
             kills' \subseteq kills, dead' \subseteq Procs
      PROVE  IndInv'
  BY <1>1 DEF IndInv, TypeOK, SpotsInv, CountersInv, FlagsInv, StartInv, Left, At, redisVars
<1>2. CASE \E h \in Hosts : Kill(h)
  BY <1>1, <1>2 DEF Kill, IndInv, TypeOK
<1>3. CASE \E p \in Procs : Crash(p)
  BY <1>1, <1>3 DEF Crash, driverVars, IndInv, TypeOK
<1>4. CASE UNCHANGED vars
  BY <1>1, <1>4 DEF vars, driverVars, procVars, IndInv, TypeOK
<1>5. QED
  BY <1>2, <1>3, <1>4, IndDriver, IndProc DEF Next

\* For any number of hosts and of processes left over on them, killed or
\* crashed anywhere, no more processes take part than the driver asked for
\* ("Enough client processes already running, exiting.", multiclient.c:192).
THEOREM SpotsSuffice == Spec => []SpotInv
<1>1. IndInv => SpotInv
  <2> SUFFICES ASSUME IndInv PROVE Spots
    BY DEF SpotInv, IndInv
  <2>1. /\ Taking \subseteq At(ClaimedAt) /\ IsFiniteSet(At(ClaimedAt))
    BY Finite, Counts, FS_Subset DEF Taking, At, ClaimedAt, PastAt
  <2>2. /\ Cardinality(Taking) <= Cardinality(At(ClaimedAt))
        /\ Cardinality(Taking) \in Nat /\ Cardinality(At(ClaimedAt)) \in Nat
    BY <2>1, FS_Subset, FS_CardinalityType
  <2>3. Left \in Nat /\ N \in Nat /\ Left + Cardinality(At(ClaimedAt)) <= N
    BY Finite, KeyNames DEF IndInv, TypeOK, SpotsInv, Left
  <2>4. QED
    BY <2>2, <2>3 DEF Spots
<1>2. QED
  BY IndInit, IndStep, <1>1, PTL DEF Spec

\* When the driver has seen as many reports as it asked for, all that were let
\* in have reported.
LEMMA AllReported ==
  ASSUME IndInv, driver \in {"total", "done"}
  PROVE  /\ At(ReportedAt) = At(ClaimedAt) /\ At(ListedAt) = At(ReportedAt)
         /\ Cardinality(At(ReportedAt)) = N /\ Len(results) = N
<1>1. /\ Left \in Nat /\ N \in Nat /\ Left + Cardinality(At(ClaimedAt)) <= N
      /\ Cardinality(At(ReportedAt)) >= N /\ Len(results) = Cardinality(At(ListedAt))
  BY Finite, KeyNames DEF IndInv, TypeOK, SpotsInv, CountersInv, FlagsInv, Left
<1>2. /\ At(ReportedAt) \subseteq At(ClaimedAt) /\ At(ReportedAt) \subseteq At(ListedAt)
      /\ At(ListedAt) \subseteq At(ClaimedAt) /\ IsFiniteSet(At(ClaimedAt))
  BY Finite, Counts, FS_Subset DEF At, ReportedAt, ListedAt, ClaimedAt, PastAt
<1>3. At(ReportedAt) = At(ClaimedAt) /\ Cardinality(At(ReportedAt)) = N
  <2>1. Cardinality(At(ReportedAt)) \in 0..Cardinality(At(ClaimedAt))
    BY <1>2, CountPart
  <2>2. Cardinality(At(ReportedAt)) = Cardinality(At(ClaimedAt)) /\ Cardinality(At(ReportedAt)) = N
    BY <1>1, <2>1, Counts
  <2>3. QED
    BY <1>2, <2>2, CountPart
<1>4. At(ListedAt) = At(ReportedAt)
  BY <1>2, <1>3
<1>5. QED
  BY <1>1, <1>3, <1>4

LEMMA IndFinal == IndInv => ReportsFinal
<1> SUFFICES ASSUME IndInv, driver \in {"total", "done"}
             PROVE  /\ Len(results) = N
                    /\ \A p \in Procs : pc[p] \notin {"wait_report", "put", "incr"}
  BY DEF ReportsFinal
<1>1. \A p \in Procs : pc[p] \in {"wait_report", "put", "incr"} => p \in At(ClaimedAt)
  BY DEF At, ClaimedAt, PastAt
<1>2. \A p \in At(ReportedAt) : pc[p] = "exit"
  BY DEF At, ReportedAt
<1>3. QED
  BY <1>1, <1>2, AllReported

\* When the driver adds up, each of the processes it asked for has reported
\* and none is measuring any more (driver.py:100-102, multiclient.c:283-284).
THEOREM ReportsComplete == Spec => []ReportsFinal
BY IndInit, IndStep, IndFinal, PTL DEF Spec

-----------------------------------------------------------------------------
\* What the driver adds up.

\* The keys the driver has set so far.
Written == IF driver = "write" THEN {Keys[j] : j \in 1..(todo.keys - 1)} ELSE KeySet

\* The list holds the counts of the processes that have put theirs on it, and
\* only processes that were let in have counted anything.
SumsInv ==
  /\ \A p \in Procs : pc[p] \notin PastAt => count[p] = 0
  /\ SumFunction(results) = SumFunctionOnSet(count, At(ListedAt))
  /\ driver = "done" => total = SumFunction(results)
  /\ Written \subseteq present

LEMMA AtFinite ==
  ASSUME TypeOK, NEW places
  PROVE  /\ IsFiniteSet(At(places)) /\ At(places) \subseteq Procs
         /\ \A p \in At(places) : count[p] \in Nat
BY Finite, FS_Subset, DistAssumption DEF At, TypeOK

LEMMA SumsInit == Init => SumsInv
<1> SUFFICES ASSUME Init PROVE SumsInv
  OBVIOUS
<1>1. At(ListedAt) = {}
  BY DEF Init, At, ListedAt
<1>2. DOMAIN results = {}
  BY DEF Init
<1>3. SumFunction(results) = 0
  BY <1>2, SumEmpty DEF SumFunction
<1>4. \A j \in 1..(todo.keys - 1) : FALSE
  BY DEF Init
<1>5. QED
  BY <1>1, <1>3, <1>4, SumEmpty DEF Init, SumsInv, Written

\* A step of a process at p from f to t that keeps list and counts in step.
LEMMA SumsMoved ==
  ASSUME IndInv, SumsInv, NEW p \in Procs, NEW f, NEW t, Goes(p, f, t),
         UNCHANGED <<results, count>>, present \subseteq present',
         f \in ListedAt <=> t \in ListedAt, f \in PastAt => t \in PastAt
  PROVE  SumsInv'
<1>1. /\ pc[p] = f /\ pc' = [pc EXCEPT ![p] = t] /\ pc \in [Procs -> Places]
      /\ UNCHANGED <<driver, todo, total>>
  BY DEF Goes, driverVars, IndInv, TypeOK, Places, ClaimedAt, PastAt
<1>2. At(ListedAt)' = At(ListedAt)
  BY <1>1 DEF At
<1>3. \A q \in Procs : pc'[q] \notin PastAt => pc[q] \notin PastAt
  BY <1>1
<1>4. QED
  BY <1>1, <1>2, <1>3 DEF SumsInv, Written

\* A process puts its count on the list.
LEMMA SumsPut ==
  ASSUME IndInv, SumsInv, NEW p \in Procs, PutReport(p)
  PROVE  SumsInv'
<1>0. /\ TypeOK /\ results \in Seq(Nat) /\ count \in [Procs -> 0..MaxOps] /\ MaxOps \in Nat
      /\ pc \in [Procs -> Places]
  BY DistAssumption DEF IndInv, TypeOK, Places, ClaimedAt, PastAt
<1>1. /\ pc[p] = "put" /\ pc' = [pc EXCEPT ![p] = "incr"]
      /\ UNCHANGED <<driver, todo, total, count, present>>
      /\ results' = Append(results, count[p])
  BY DEF PutReport, Goes, driverVars
<1>2. At(ListedAt)' = At(ListedAt) \cup {p} /\ p \notin At(ListedAt)
  BY <1>0, <1>1 DEF At, ListedAt
<1>3. SumFunctionOnSet(count, At(ListedAt)') = count[p] + SumFunctionOnSet(count, At(ListedAt))
  <2>1. /\ IsFiniteSet(At(ListedAt) \cup {p}) /\ p \in At(ListedAt) \cup {p}
        /\ Numbers(count, At(ListedAt) \cup {p})
        /\ (At(ListedAt) \cup {p}) \ {p} = At(ListedAt)
    BY <1>0, <1>2, AtFinite, FS_AddElement DEF Numbers
  <2>2. QED
    BY <1>2, <2>1, SumRemove
<1>4. SumFunction(results') = count[p] + SumFunction(results)
  <2>1. count[p] \in Nat
    BY <1>0
  <2>2. QED
    BY <1>0, <1>1, <2>1, SumAppend
<1>5. \A q \in Procs : pc'[q] \notin PastAt => pc[q] \notin PastAt
  BY <1>0, <1>1 DEF PastAt
<1>6. driver # "done"
  <2>1. ReportsFinal
    BY IndFinal
  <2>2. QED
    BY <1>1, <2>1 DEF ReportsFinal
<1>7. QED
  BY <1>1, <1>3, <1>4, <1>5, <1>6 DEF SumsInv, Written

LEMMA SumsProc ==
  ASSUME IndInv, SumsInv, NEW p \in Procs, ProcStep(p)
  PROVE  SumsInv'
<1> USE DEF PastAt, ListedAt
<1>1. CASE Claim(p) \/ ThreadsStarted(p) \/ CountReport(p)
  <2>1. PICK f, t :
          /\ Goes(p, f, t)
          /\ \/ f = "claim" /\ t \in {"load", "unclaimed"}
             \/ f = "threads" /\ t = "wait_measure"
             \/ f = "incr" /\ t = "exit"
    BY <1>1 DEF Claim, ThreadsStarted, CountReport
  <2>2. UNCHANGED <<results, count>> /\ present \subseteq present'
    BY <1>1 DEF Claim, ThreadsStarted, CountReport, Incr, Set
  <2>3. QED
    BY <2>1, <2>2, SumsMoved
<1>2. CASE \/ Load(p) \/ FlagMissing(p)
           \/ FlagWait(p, "should_measure", "wait_measure", "wait_report")
           \/ FlagWait(p, "should_report", "wait_report", "put")
  <2>1. PICK f, t :
          /\ Goes(p, f, t)
          /\ \/ f = "load" /\ t \in {"threads", "unclaimed"}
             \/ f \in {"wait_measure", "wait_report"} /\ t = "unflagged"
             \/ f = "wait_measure" /\ t = "wait_report"
             \/ f = "wait_report" /\ t = "put"
    BY <1>2 DEF Load, FlagMissing, FlagWait
  <2>2. UNCHANGED <<results, count>> /\ present \subseteq present'
    BY <1>2 DEF Load, FlagMissing, FlagWait, redisVars
  <2>3. QED
    BY <2>1, <2>2, SumsMoved
<1>3. CASE Operation(p)
  <2>1. /\ pc[p] = "wait_report" /\ UNCHANGED <<driver, todo, total, store, present, results>>
        /\ count' = [count EXCEPT ![p] = @ + 1] /\ pc' = [pc EXCEPT ![p] = "wait_report"]
        /\ TypeOK /\ pc' = pc
    BY <1>3 DEF Operation, Goes, driverVars, redisVars, IndInv, TypeOK
  <2>2. At(ListedAt)' = At(ListedAt) /\ IsFiniteSet(At(ListedAt))
    BY <2>1, AtFinite DEF At
  <2>3. SumFunctionOnSet(count', At(ListedAt)') = SumFunctionOnSet(count, At(ListedAt))
    <3>1. \A q \in At(ListedAt) : count'[q] = count[q]
      BY <2>1 DEF At, TypeOK
    <3>2. QED
      BY <2>2, <3>1, SumAgree
  <2>4. \A q \in Procs : pc'[q] \notin PastAt => count'[q] = count[q]
    BY <2>1 DEF TypeOK
  <2>5. QED
    BY <2>1, <2>3, <2>4 DEF SumsInv, Written
<1>4. CASE PutReport(p)
  BY <1>4, SumsPut
<1>5. QED
  BY <1>1, <1>2, <1>3, <1>4 DEF ProcStep

LEMMA SumsDriver ==
  ASSUME IndInv, SumsInv, DriverStep
  PROVE  SumsInv'
<1>0. TypeOK /\ SpotsInv /\ StartInv
  BY DEF IndInv
<1>1. CASE WriteParam
  <2>1. /\ driver = "write" /\ driver' = (IF todo.keys = 6 THEN "kill" ELSE "write")
        /\ present' = present \cup {Keys[todo.keys]}
        /\ todo.keys \in 1..6 /\ todo' = [todo EXCEPT !.keys = todo.keys + 1]
        /\ UNCHANGED <<total, results, pc, count>>
    BY <1>0, <1>1, KeyNames DEF WriteParam, DriverGoes, Set, SpotsInv, procVars
  <2>2. todo'.keys = todo.keys + 1
    BY <1>0, <2>1 DEF TypeOK
  <2>3. Written' \subseteq Written \cup {Keys[todo.keys]}
    <3>1. \A j \in 1..todo.keys : j \in 1..(todo.keys - 1) \/ j = todo.keys
      BY <2>1
    <3>2. CASE todo.keys = 6
      <4>1. KeySet = {Keys[j] : j \in 1..todo.keys}
        BY <3>2, KeyNames DEF KeySet
      <4>2. QED
        BY <2>1, <3>1, <3>2, <4>1 DEF Written
    <3>3. CASE todo.keys # 6
      <4>1. Written' = {Keys[j] : j \in 1..todo.keys}
        BY <2>1, <2>2, <3>3 DEF Written
      <4>2. QED
        BY <2>1, <3>1, <4>1 DEF Written
    <3>4. QED
      BY <3>2, <3>3
  <2>4. At(ListedAt)' = At(ListedAt)
    BY <2>1 DEF At
  <2>5. QED
    BY <2>1, <2>3, <2>4 DEF SumsInv
<1>2. CASE \E h \in Hosts : StartClient(h)
  <2>1. PICK h \in Hosts : StartClient(h)
    BY <1>2
  <2>2. /\ driver = "start" /\ driver' \in {"start", "started"} /\ h \in todo.hosts
        /\ pc' = [pc EXCEPT ![<<"new", h>>] = "claim"] /\ <<"new", h>> \in Procs
        /\ UNCHANGED <<present, results, count>>
    BY <2>1 DEF StartClient, ForHost, DriverGoes, Procs, redisVars
  <2>3. pc[<<"new", h>>] = "off"
    BY <1>0, <2>2 DEF StartInv
  <2>4. /\ At(ListedAt)' = At(ListedAt)
        /\ \A p \in Procs : pc'[p] \notin PastAt => pc[p] \notin PastAt
    BY <1>0, <2>2, <2>3 DEF TypeOK, At, ListedAt, PastAt
  <2>5. Written' = Written
    BY <2>2 DEF Written
  <2>6. QED
    BY <2>2, <2>4, <2>5 DEF SumsInv
<1>3. CASE GetThroughput
  <2>1. /\ driver = "total" /\ driver' = "done" /\ total' = SumFunction(results)
        /\ UNCHANGED <<present, results, pc, count>>
    BY <1>3 DEF GetThroughput, DriverGoes, redisVars, procVars
  <2>2. At(ListedAt)' = At(ListedAt) /\ Written' = Written
    BY <2>1 DEF At, Written
  <2>3. QED
    BY <2>1, <2>2 DEF SumsInv
<1>4. CASE \/ \E h \in Hosts : KillClient(h)
           \/ CounterWait("started", "started", "measure")
           \/ FlagSet("should_measure", "measure", "report")
           \/ FlagSet("should_report", "report", "reported")
           \/ CounterWait("reported", "reported", "total")
  <2>1. /\ driver # "write" /\ driver' # "write" /\ driver' # "done"
        /\ present \subseteq present' /\ UNCHANGED <<results, pc, count, total>>
    BY <1>4 DEF KillClient, CounterWait, FlagSet, ForHost, DriverGoes, Set, redisVars, procVars
  <2>2. At(ListedAt)' = At(ListedAt) /\ Written' = Written
    BY <2>1 DEF At, Written
  <2>3. QED
    BY <2>1, <2>2 DEF SumsInv
<1>5. QED
  BY <1>1, <1>2, <1>3, <1>4 DEF DriverStep

LEMMA SumsStep == IndInv /\ SumsInv /\ [Next]_vars => SumsInv'
<1> SUFFICES ASSUME IndInv, SumsInv, [Next]_vars PROVE SumsInv'
  OBVIOUS
<1>1. ASSUME UNCHANGED <<driver, todo, total, redisVars, pc, count>>
      PROVE  SumsInv'
  BY <1>1 DEF SumsInv, Written, At, redisVars
<1>2. CASE \/ \E h \in Hosts : Kill(h)
           \/ \E p \in Procs : Crash(p)
           \/ UNCHANGED vars
  BY <1>1, <1>2 DEF Kill, Crash, vars, driverVars, procVars
<1>3. QED
  BY <1>2, SumsDriver, SumsProc DEF Next

\* In the end nothing has been counted but by the processes that reported.
LEMMA DoneTotal ==
  ASSUME IndInv, SumsInv, driver \in {"total", "done"}
  PROVE  SumFunction(results) = SumFunctionOnSet(count, At(ReportedAt))
         /\ SumFunction(results) = SumFunction(count)
<1>0. TypeOK
  BY DEF IndInv
<1>1. At(ReportedAt) = At(ClaimedAt) /\ At(ListedAt) = At(ReportedAt)
  BY AllReported
<1>2. \A p \in Procs \ At(ReportedAt) : count[p] = 0
  BY <1>1 DEF SumsInv, At, ClaimedAt
<1>3. SumFunctionOnSet(count, Procs) = SumFunctionOnSet(count, At(ReportedAt))
  <2>1. /\ IsFiniteSet(Procs) /\ At(ReportedAt) \subseteq Procs
        /\ Numbers(count, Procs)
    BY <1>0, Finite, DistAssumption DEF TypeOK, At, Numbers
  <2>2. QED
    BY <1>2, <2>1, SumZero
<1>4. DOMAIN count = Procs
  BY <1>0 DEF TypeOK
<1>5. QED
  BY <1>1, <1>3, <1>4 DEF SumsInv, SumFunction

\* What the driver prints is the sum of all operations that any process has
\* counted, for any number of hosts, processes left over and failures: reports
\* arrive before they are counted (multiclient.c:283-284, driver.py:97-102).
THEOREM TotalsComplete == Spec => []TotalComplete
<1>1. IndInv /\ SumsInv => TotalComplete
  BY IndFinal, DoneTotal DEF TotalComplete, SumsInv
<1>2. QED
  BY IndInit, IndStep, SumsInit, SumsStep, <1>1, PTL DEF Spec

-----------------------------------------------------------------------------
\* A run of the driver is a benchmark round.

\* Definitions of Rounds are about the operators it takes from its own copies
\* of the standard modules; they are the same.
LEMMA SameCardinality == ASSUME NEW S PROVE Round!Cardinality(S) = Cardinality(S)
BY DEF Cardinality, Round!Cardinality

LEMMA SameSum ==
  ASSUME NEW f, NEW S PROVE Round!SumFunctionOnSet(f, S) = SumFunctionOnSet(f, S)
BY DEF SumFunctionOnSet, Round!SumFunctionOnSet, FoldFunctionOnSet, Round!FoldFunctionOnSet,
       MapThenFoldSet, Round!MapThenFoldSet

Stages == [p \in Procs |-> StageOf(p)]

LEMMA StagesValue ==
  /\ DOMAIN Stages = Procs
  /\ \A p \in Procs :
       /\ Stages[p] = StageOf(p)
       /\ pc[p] \in {"off", "claim", "load", "unclaimed", "threads"} => Stages[p] = "preparing"
       /\ pc[p] \in {"wait_measure", "unflagged"} => Stages[p] = "ready"
       /\ pc[p] \in {"wait_report", "put", "incr"} => Stages[p] = "measuring"
       /\ pc[p] = "exit" => Stages[p] = "reported"
BY DEF Stages, StageOf

LEMMA InitRound == Init => Round!Init
<1> SUFFICES ASSUME Init PROVE Round!Init
  OBVIOUS
<1>1. \A p \in Procs : StageOf(p) = "preparing"
  BY DEF Init, StageOf
<1>2. QED
  BY <1>1 DEF Init, Round!Init

\* The keys are there once there are flags to wait for, and the invariant says
\* where the processes are when a flag is up.
LEMMA Flagged ==
  ASSUME IndInv, SumsInv, NEW p \in Procs
  PROVE  /\ pc[p] = "wait_report" => "should_report" \in present
         /\ store["should_measure"] > 0 => Cardinality(At(PastAt)) >= N
<1>1. store["should_measure"] > 0 => driver \in {"report", "reported", "total", "done"}
  BY DEF IndInv, FlagsInv
<1>2. pc[p] = "wait_report" => store["should_measure"] > 0
  <2>1. pc[p] = "wait_report" => p \in At(MeasuringAt)
    BY DEF At, MeasuringAt
  <2>2. QED
    BY <2>1 DEF IndInv, FlagsInv
<1>3. driver # "write" => "should_report" \in present
  BY KeyNames DEF SumsInv, Written
<1>4. QED
  BY <1>1, <1>2, <1>3 DEF IndInv, FlagsInv

\* A step of one process is a step of one worker.
LEMMA StageMoved ==
  ASSUME TypeOK, NEW p \in Procs, NEW f, NEW t, Goes(p, f, t)
  PROVE  /\ UNCHANGED total /\ pc[p] = f /\ pc'[p] = t
         /\ StageOf(p)' = StageOf(p) => Stages' = Stages
         /\ Stages' = [Stages EXCEPT ![p] = StageOf(p)']
<1>1. /\ UNCHANGED total /\ pc[p] = f /\ pc'[p] = t
      /\ \A q \in Procs \ {p} : pc'[q] = pc[q]
  BY DEF Goes, driverVars, TypeOK
<1>2. \A q \in Procs \ {p} : StageOf(q)' = StageOf(q)
  BY <1>1 DEF StageOf
<1>3. QED
  BY <1>1, <1>2 DEF Stages

LEMMA RoundProc ==
  ASSUME IndInv, SumsInv, NEW p \in Procs, ProcStep(p)
  PROVE  [Round!Next]_(Round!vars)
<1>0. TypeOK
  BY DEF IndInv
<1>1. ASSUME NEW f, NEW t, Goes(p, f, t), UNCHANGED count, StageOf(p)' = StageOf(p)
      PROVE  [Round!Next]_(Round!vars)
  <2>1. Stages' = Stages /\ UNCHANGED total
    BY <1>0, <1>1, StageMoved
  <2>2. QED
    BY <1>1, <2>1 DEF Round!vars, Stages
<1>2. CASE \/ Claim(p) \/ Load(p) \/ PutReport(p)
           \/ FlagWait(p, "should_report", "wait_report", "put")
  <2>1. PICK f, t :
          /\ Goes(p, f, t) /\ UNCHANGED count
          /\ \/ f = "claim" /\ t \in {"load", "unclaimed"}
             \/ f = "load" /\ t \in {"threads", "unclaimed"}
             \/ f = "wait_report" /\ t = "put"
             \/ f = "put" /\ t = "incr"
    BY <1>2 DEF Claim, Load, PutReport, FlagWait
  <2>2. StageOf(p)' = StageOf(p)
    BY <1>0, <2>1, StageMoved DEF StageOf
  <2>3. QED
    BY <1>1, <2>1, <2>2
<1>3. CASE FlagMissing(p)
  <2>1. /\ Goes(p, "wait_measure", "unflagged") \/ Goes(p, "wait_report", "unflagged")
        /\ UNCHANGED count
        /\ pc[p] # "wait_measure" => "should_report" \notin present
    BY <1>3 DEF FlagMissing, Goes
  <2>2. Goes(p, "wait_measure", "unflagged")
    BY <2>1, Flagged DEF Goes
  <2>3. StageOf(p)' = StageOf(p)
    BY <1>0, <2>2, StageMoved DEF StageOf
  <2>4. QED
    BY <1>1, <2>1, <2>2, <2>3
<1>4. CASE ThreadsStarted(p)
  <2>1. Goes(p, "threads", "wait_measure") /\ UNCHANGED count
    BY <1>4 DEF ThreadsStarted
  <2>2. /\ UNCHANGED total /\ StageOf(p) = "preparing" /\ StageOf(p)' = "ready"
        /\ Stages' = [Stages EXCEPT ![p] = "ready"]
    BY <1>0, <2>1, StageMoved DEF StageOf
  <2>3. Round!Prepare(p)
    BY <2>1, <2>2 DEF Stages, Round!Prepare, Round!Moves
  <2>4. QED
    BY <2>3 DEF Round!Next
<1>5. CASE FlagWait(p, "should_measure", "wait_measure", "wait_report")
  <2>1. Goes(p, "wait_measure", "wait_report") /\ UNCHANGED count /\ store["should_measure"] > 0
    BY <1>5 DEF FlagWait
  <2>2. /\ UNCHANGED total /\ StageOf(p) = "ready" /\ StageOf(p)' = "measuring"
        /\ Stages' = [Stages EXCEPT ![p] = "measuring"]
    BY <1>0, <2>1, StageMoved DEF StageOf
  <2>3. Cardinality({q \in Procs : Stages[q] # "preparing"}) >= N
    <3>1. {q \in Procs : Stages[q] # "preparing"} = At(PastAt)
      BY <1>0 DEF Stages, StageOf, At, PastAt, TypeOK
    <3>2. QED
      BY <2>1, <3>1, Flagged
  <2>4. Round!Moves(p, "ready", "measuring")
    BY <2>1, <2>2 DEF Stages, Round!Moves
  <2>5. Round!Measure(p)
    BY <2>3, <2>4, SameCardinality DEF Stages, Round!Measure
  <2>6. QED
    BY <2>5 DEF Round!Next
<1>6. CASE Operation(p)
  <2>1. /\ Goes(p, "wait_report", "wait_report")
        /\ count' = [count EXCEPT ![p] = @ + 1]
    BY <1>6 DEF Operation
  <2>2. UNCHANGED total /\ StageOf(p) = "measuring" /\ Stages' = Stages
    BY <1>0, <2>1, StageMoved DEF StageOf
  <2>3. Round!Operate(p)
    BY <2>1, <2>2 DEF Stages, Round!Operate
  <2>4. QED
    BY <2>3 DEF Round!Next
<1>7. CASE CountReport(p)
  <2>1. Goes(p, "incr", "exit") /\ UNCHANGED count
    BY <1>7 DEF CountReport
  <2>2. /\ UNCHANGED total /\ StageOf(p) = "measuring" /\ StageOf(p)' = "reported"
        /\ Stages' = [Stages EXCEPT ![p] = "reported"]
    BY <1>0, <2>1, StageMoved DEF StageOf
  <2>3. Round!Report(p)
    BY <2>1, <2>2 DEF Stages, Round!Report, Round!Moves
  <2>4. QED
    BY <2>3 DEF Round!Next
<1>8. QED
  BY <1>2, <1>3, <1>4, <1>5, <1>6, <1>7 DEF ProcStep

LEMMA RoundStep ==
  ASSUME IndInv, SumsInv, [Next]_vars
  PROVE  [Round!Next]_(Round!vars)
<1>0. TypeOK /\ StartInv
  BY DEF IndInv
<1>1. ASSUME UNCHANGED <<pc, count, total>>
      PROVE  [Round!Next]_(Round!vars)
  BY <1>1 DEF Round!vars, StageOf
<1>2. CASE \E h \in Hosts : StartClient(h)
  <2>1. PICK h \in Hosts : StartClient(h)
    BY <1>2
  <2>2. /\ driver = "start" /\ h \in todo.hosts /\ <<"new", h>> \in Procs
        /\ pc' = [pc EXCEPT ![<<"new", h>>] = "claim"] /\ UNCHANGED <<count, total>>
    BY <2>1 DEF StartClient, ForHost, DriverGoes, Procs
  <2>3. pc[<<"new", h>>] = "off"
    BY <1>0, <2>2 DEF StartInv
  <2>4. \A p \in Procs : StageOf(p)' = StageOf(p)
    BY <1>0, <2>2, <2>3 DEF TypeOK, StageOf
  <2>5. QED
    BY <2>2, <2>4 DEF Round!vars
<1>3. CASE GetThroughput
  <2>1. /\ driver = "total" /\ total' = SumFunction(results) /\ UNCHANGED <<pc, count>>
    BY <1>3 DEF GetThroughput, DriverGoes, procVars
  <2>2. total < 0
    BY <1>0, <2>1 DEF TypeOK
  <2>3. Round!Reporters = At(ReportedAt)
    BY <1>0 DEF Round!Reporters, At, ReportedAt, StageOf, TypeOK
  <2>4. /\ Cardinality(Round!Reporters) = N
        /\ total' = SumFunctionOnSet(count, Round!Reporters)
    BY <2>1, <2>3, AllReported, DoneTotal
  <2>5. UNCHANGED <<Stages, count>>
    BY <2>1 DEF Stages, StageOf
  <2>6. Round!Total
    BY <2>2, <2>4, <2>5, SameCardinality, SameSum DEF Round!Total, Stages
  <2>7. QED
    BY <2>6 DEF Round!Next
<1>4. CASE \E p \in Procs : ProcStep(p)
  BY <1>4, RoundProc
<1>5. CASE \/ WriteParam \/ \E h \in Hosts : KillClient(h)
           \/ CounterWait("started", "started", "measure")
           \/ FlagSet("should_measure", "measure", "report")
           \/ FlagSet("should_report", "report", "reported")
           \/ CounterWait("reported", "reported", "total")
           \/ \E h \in Hosts : Kill(h)
           \/ \E p \in Procs : Crash(p)
           \/ UNCHANGED vars
  BY <1>1, <1>5 DEF WriteParam, KillClient, CounterWait, FlagSet, Kill, Crash, vars,
                    driverVars, procVars
<1>6. QED
  BY <1>2, <1>3, <1>4, <1>5 DEF Next, DriverStep

\* For any number of hosts, processes left over and failures, a run of the
\* driver is a benchmark round: no process measures before as many as were
\* asked for are ready, and the total is that of the final counts of exactly
\* that many (driver.py:88-102, multiclient.c:246-287).
THEOREM DriverRounds == Spec => RoundSpec
<1>1. IndInv /\ SumsInv /\ [Next]_vars => [Round!Next]_(Round!vars)
  BY RoundStep
<1>2. QED
  BY IndInit, IndStep, SumsInit, SumsStep, InitRound, <1>1, PTL DEF Spec, RoundSpec, Round!Spec
=============================================================================
