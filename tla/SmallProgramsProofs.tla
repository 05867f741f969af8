-------------------------- MODULE SmallProgramsProofs --------------------------
(***************************************************************************)
(* Theorems about the programs beside the exchange: both benchmarks of     *)
(* class-perf, for any number of threads, workers, items of work and       *)
(* configurations; and the sequential programs, common/histogram.h,        *)
(* util/sum.cpp, util/flip.cpp and util/traversal.cpp, for any             *)
(* measurements, numbers and trees.                                        *)
(***************************************************************************)
EXTENDS ClassPerf, Algorithms, SequenceTheorems, FiniteSetTheorems, WellFoundedInduction, TLAPS

-----------------------------------------------------------------------------
(* Sums of functions *)

Below == {p \in Nat \X Nat : p[1] < p[2]}

LEMMA BelowWellFounded == IsWellFoundedOn(Below, Nat)
  BY NatLessThanWellFounded, Zenon DEF OpToRel, Below

\* Induction, with a set for the predicate.
LEMMA SetInduction ==
  ASSUME NEW T, 0 \in T, \A n \in T \cap Nat : n + 1 \in T
  PROVE  Nat \subseteq T
  <1> SUFFICES ASSUME Nat \ T # {} PROVE FALSE
    OBVIOUS
  <1>1. PICK x \in Nat \ T : \A y \in Nat \ T : <<y, x>> \notin Below
    <2>1. Nat \ T \subseteq Nat
      OBVIOUS
    <2> QED
      BY <2>1, BelowWellFounded, WFMin
  <1>2. x # 0 /\ x - 1 \in Nat /\ x - 1 + 1 = x
    OBVIOUS
  <1>3. x - 1 \in Nat \ T
    BY <1>2
  <1>4. <<x - 1, x>> \in Below
    BY <1>2 DEF Below
  <1> QED
    BY <1>1, <1>3, <1>4

Some(s) == CHOOSE x \in s : TRUE

\* The recursion by which SumFunction adds up f, for the sets of D.
Adds(added, f, D) ==
  added = [s \in D |-> IF s = {} THEN 0 ELSE f[Some(s)] + added[s \ {Some(s)}]]

UpTo(n, S) == {s \in SUBSET S : IsFiniteSet(s) /\ Cardinality(s) <= n}

LEMMA Smaller ==
  ASSUME NEW S, NEW n \in Nat, NEW s \in UpTo(n + 1, S), s # {}
  PROVE  Some(s) \in s /\ s \ {Some(s)} \in UpTo(n, S)
  <1>1. Some(s) \in s
    BY DEF Some
  <1>2. /\ IsFiniteSet(s) /\ Cardinality(s) \in Nat /\ Cardinality(s) <= n + 1
        /\ IsFiniteSet(s \ {Some(s)}) /\ Cardinality(s \ {Some(s)}) = Cardinality(s) - 1
    BY <1>1, FS_RemoveElement, FS_CardinalityType DEF UpTo
  <1> QED
    BY <1>1, <1>2 DEF UpTo

LEMMA SumDefined ==
  ASSUME NEW S, IsFiniteSet(S), NEW f, DOMAIN f = S
  PROVE  \E added : Adds(added, f, SUBSET S) /\ SumFunction(f) = added[S]
  <1> DEFINE e(g, s) == IF s = {} THEN 0 ELSE f[Some(s)] + g[s \ {Some(s)}]
             T == {n \in Nat : \E g : g = [s \in UpTo(n, S) |-> e(g, s)]}
  <1>1. 0 \in T
    <2> DEFINE g == [s \in UpTo(0, S) |-> 0]
    <2>1. ASSUME NEW s \in UpTo(0, S) PROVE s = {}
      BY FS_EmptySet, FS_CardinalityType DEF UpTo
    <2>2. g = [s \in UpTo(0, S) |-> e(g, s)]
      BY <2>1
    <2> HIDE DEF g
    <2> QED
      BY <2>2
  <1>2. ASSUME NEW n \in T \cap Nat PROVE n + 1 \in T
    <2>1. PICK g : g = [s \in UpTo(n, S) |-> e(g, s)]
      OBVIOUS
    <2> DEFINE h == [s \in UpTo(n + 1, S) |-> IF s \in UpTo(n, S) THEN g[s] ELSE e(g, s)]
    <2>2. ASSUME NEW s \in UpTo(n, S) PROVE s \in UpTo(n + 1, S) /\ h[s] = g[s]
      <3>1. s \in UpTo(n + 1, S)
        <4>1. s \in SUBSET S /\ IsFiniteSet(s) /\ Cardinality(s) <= n
          BY DEF UpTo
        <4>2. Cardinality(s) \in Nat
          BY <4>1, FS_CardinalityType
        <4>3. n \in Nat
          OBVIOUS
        <4>4. Cardinality(s) <= n + 1
          BY <4>1, <4>2, <4>3
        <4> QED
          BY <4>1, <4>4 DEF UpTo
      <3> QED
        BY <3>1
    <2>3. ASSUME NEW s \in UpTo(n + 1, S) PROVE h[s] = e(g, s)
      BY <2>1
    <2>4. ASSUME NEW s \in UpTo(n + 1, S) PROVE e(h, s) = e(g, s)
      <3> HIDE DEF h
      <3> QED
        BY Smaller, <2>2
    <2>5. h = [s \in UpTo(n + 1, S) |-> e(h, s)]
      <3>1. \A s \in UpTo(n + 1, S) : h[s] = e(h, s)
        BY <2>3, <2>4
      <3> QED
        BY <3>1
    <2> HIDE DEF h
    <2> QED
      BY <2>5
  <1>3. Cardinality(S) \in T
    <2> HIDE DEF T
    <2> QED
      BY <1>1, <1>2, SetInduction, FS_CardinalityType
  <1>4. UpTo(Cardinality(S), S) = SUBSET S
    BY FS_Subset DEF UpTo
  <1> DEFINE added == CHOOSE g : g = [s \in SUBSET S |-> e(g, s)]
  <1>5. added = [s \in SUBSET S |-> e(added, s)]
    BY <1>3, <1>4
  <1>6. SumFunction(f) = added[S]
    BY DEF SumFunction, SumFunctionOnSet, FoldFunctionOnSet, MapThenFoldSet, Some
  <1> HIDE DEF added
  <1> QED
    BY <1>5, <1>6 DEF Adds

\* Increasing one value increases the added by as much.
LEMMA SumChanged ==
  ASSUME NEW S, IsFiniteSet(S), NEW f \in [S -> Int], NEW t \in S, NEW d \in Int,
         NEW g \in [S -> Int], g[t] = f[t] + d, \A x \in S : x # t => g[x] = f[x]
  PROVE  SumFunction(f) \in Int /\ SumFunction(g) = SumFunction(f) + d
  <1>1. PICK a : Adds(a, f, SUBSET S) /\ SumFunction(f) = a[S]
    BY SumDefined
  <1>2. PICK b : Adds(b, g, SUBSET S) /\ SumFunction(g) = b[S]
    BY SumDefined
  <1> DEFINE T == {n \in Nat : \A s \in UpTo(n, S) :
                     a[s] \in Int /\ b[s] = a[s] + (IF t \in s THEN d ELSE 0)}
  <1>3. 0 \in T
    <2>1. ASSUME NEW s \in UpTo(0, S) PROVE s = {} /\ s \in SUBSET S
      BY FS_EmptySet, FS_CardinalityType DEF UpTo
    <2> QED
      BY <1>1, <1>2, <2>1 DEF Adds
  <1>4. ASSUME NEW n \in T \cap Nat PROVE n + 1 \in T
    <2>1. ASSUME NEW s \in UpTo(n + 1, S), s # {}
          PROVE  a[s] \in Int /\ b[s] = a[s] + (IF t \in s THEN d ELSE 0)
      <3> DEFINE x == Some(s)
                 r == s \ {x}
      <3>1. x \in s /\ r \in UpTo(n, S)
        BY <2>1, Smaller
      <3>2. s \in SUBSET S /\ x \in S
        BY <3>1 DEF UpTo
      <3>3. a[s] = f[x] + a[r] /\ b[s] = g[x] + b[r]
        BY <1>1, <1>2, <2>1, <3>2 DEF Adds
      <3>4. t \in r <=> t \in s /\ t # x
        BY <3>1
      <3> HIDE DEF x, r
      <3>5. a[r] \in Int /\ b[r] = a[r] + (IF t \in r THEN d ELSE 0)
        BY <3>1
      <3>6. CASE x = t
        BY <3>1, <3>2, <3>3, <3>4, <3>5, <3>6
      <3>7. CASE x # t
        BY <3>1, <3>2, <3>3, <3>4, <3>5, <3>7
      <3> QED
        BY <3>6, <3>7
    <2>2. ASSUME NEW s \in UpTo(n + 1, S), s = {}
          PROVE  a[s] \in Int /\ b[s] = a[s] + (IF t \in s THEN d ELSE 0)
      BY <1>1, <1>2, <2>2 DEF Adds
    <2> QED
      BY <2>1, <2>2
  <1>5. Cardinality(S) \in T
    <2> HIDE DEF T
    <2> QED
      BY <1>3, <1>4, SetInduction, FS_CardinalityType
  <1>6. S \in UpTo(Cardinality(S), S)
    BY FS_CardinalityType DEF UpTo
  <1> QED
    BY <1>1, <1>2, <1>5, <1>6

LEMMA SumOfNothing ==
  ASSUME NEW S, IsFiniteSet(S), NEW f, f = [x \in S |-> 0]
  PROVE  SumFunction(f) = 0
  <1>1. PICK a : Adds(a, f, SUBSET S) /\ SumFunction(f) = a[S]
    BY SumDefined
  <1> DEFINE T == {n \in Nat : \A s \in UpTo(n, S) : a[s] = 0}
  <1>2. 0 \in T
    <2>1. ASSUME NEW s \in UpTo(0, S) PROVE s = {} /\ s \in SUBSET S
      BY FS_EmptySet, FS_CardinalityType DEF UpTo
    <2> QED
      BY <1>1, <2>1 DEF Adds
  <1>3. ASSUME NEW n \in T \cap Nat PROVE n + 1 \in T
    <2>1. ASSUME NEW s \in UpTo(n + 1, S), s # {} PROVE a[s] = 0
      <3>1. Some(s) \in s /\ s \ {Some(s)} \in UpTo(n, S)
        BY <2>1, Smaller
      <3>2. s \in SUBSET S /\ Some(s) \in S /\ a[s \ {Some(s)}] = 0
        BY <3>1 DEF UpTo
      <3>3. a[s] = f[Some(s)] + a[s \ {Some(s)}]
        BY <1>1, <2>1, <3>2 DEF Adds
      <3>4. f[Some(s)] = 0
        BY <3>2
      <3> QED
        BY <3>2, <3>3, <3>4
    <2>2. ASSUME NEW s \in UpTo(n + 1, S), s = {} PROVE a[s] = 0
      BY <1>1, <2>2 DEF Adds
    <2> QED
      BY <2>1, <2>2
  <1>4. Cardinality(S) \in T
    <2> HIDE DEF T
    <2> QED
      BY <1>2, <1>3, SetInduction, FS_CardinalityType
  <1>5. S \in UpTo(Cardinality(S), S)
    BY FS_CardinalityType DEF UpTo
  <1> QED
    BY <1>1, <1>4, <1>5

\* A added of numbers that are not negative is at least each of them.
LEMMA SumBounds ==
  ASSUME NEW S, IsFiniteSet(S), NEW f \in [S -> Nat]
  PROVE  SumFunction(f) \in Nat /\ \A t \in S : f[t] <= SumFunction(f)
  <1>1. PICK a : Adds(a, f, SUBSET S) /\ SumFunction(f) = a[S]
    BY SumDefined
  <1> DEFINE T == {n \in Nat : \A s \in UpTo(n, S) : a[s] \in Nat /\ \A t \in s : f[t] <= a[s]}
  <1>2. 0 \in T
    <2>1. ASSUME NEW s \in UpTo(0, S) PROVE s = {} /\ s \in SUBSET S
      BY FS_EmptySet, FS_CardinalityType DEF UpTo
    <2> QED
      BY <1>1, <2>1 DEF Adds
  <1>3. ASSUME NEW n \in T \cap Nat PROVE n + 1 \in T
    <2>1. ASSUME NEW s \in UpTo(n + 1, S), s # {}
          PROVE  a[s] \in Nat /\ \A t \in s : f[t] <= a[s]
      <3> DEFINE x == Some(s)
                 r == s \ {x}
      <3>1. x \in s /\ r \in UpTo(n, S)
        BY <2>1, Smaller
      <3>2. s \in SUBSET S /\ x \in S
        BY <3>1 DEF UpTo
      <3>3. a[s] = f[x] + a[r]
        BY <1>1, <2>1, <3>2 DEF Adds
      <3>4. \A t \in s : t \in S /\ (t = x \/ t \in r)
        BY <3>2
      <3> HIDE DEF x, r
      <3>5. a[r] \in Nat /\ \A t \in r : f[t] <= a[r]
        BY <3>1
      <3>6. f[x] \in Nat /\ \A t \in s : f[t] \in Nat
        BY <3>2, <3>4
      <3> QED
        BY <3>3, <3>4, <3>5, <3>6
    <2>2. ASSUME NEW s \in UpTo(n + 1, S), s = {}
          PROVE  a[s] \in Nat /\ \A t \in s : f[t] <= a[s]
      BY <1>1, <2>2 DEF Adds
    <2> QED
      BY <2>1, <2>2
  <1>4. Cardinality(S) \in T
    <2> HIDE DEF T
    <2> QED
      BY <1>2, <1>3, SetInduction, FS_CardinalityType
  <1>5. S \in UpTo(Cardinality(S), S)
    BY FS_CardinalityType DEF UpTo
  <1> QED
    BY <1>1, <1>4, <1>5
-----------------------------------------------------------------------------
(* The thread benchmark *)

\* The times at which the queue of this configuration is in use, and all items are
\* accounted for: those left, and those a thread has popped.
Measuring == mpc \in {"start", "join", "done"}

\* What a thread has popped it has spun for, or will.  A thread returns only when
\* it has been told to stop and nothing is left.
ParInv ==
  /\ mpc \in {"begin", "prime", "start", "join", "done"}
  /\ threads \in SUBSET Threads /\ started \in SUBSET threads /\ returned \in SUBSET started
  /\ g_queue \in Nat
  /\ g_count_queue \in [Threads -> Nat] /\ num_read \in [Threads -> Nat] /\ spun \in [Threads -> Nat]
  /\ \A t \in Threads : g_count_queue[t] = spun[t] + num_read[t]
  /\ \A t \in Threads : num_read[t] > 0 => t \in started \ returned
  /\ mpc = "prime" => g_queue = 0 /\ started = {} /\ g_count_queue = [t \in Threads |-> 0]
  /\ mpc \in {"prime", "start"} => g_par_continue
  /\ mpc \in {"begin", "done"} => returned = started
  /\ mpc = "done" => started = threads
  /\ Measuring => g_queue + SumFunction(g_count_queue) = Iterations
  /\ Measuring /\ returned # {} => g_queue = 0 /\ ~g_par_continue

LEMMA InitPar == Init => ParInv
  <1> SUFFICES ASSUME Init PROVE ParInv
    OBVIOUS
  <1> QED
    BY DEF Init, ParInv, None, Measuring

LEMMA ParKept == ParInv /\ [Next]_vars => ParInv'
  <1> SUFFICES ASSUME ParInv, [Next]_vars PROVE ParInv'
    OBVIOUS
  <1> USE BenchmarkAssumption DEF globals, threadVars, Measuring
  <1>1. CASE Begin
    BY <1>1 DEF Begin, ParInv, None
  <1>2. CASE Prime
    <2>1. SumFunction(g_count_queue) = 0
      BY <1>2, SumOfNothing DEF Prime, ParInv
    <2> QED
      BY <1>2, <2>1 DEF Prime, ParInv
  <1>3. ASSUME NEW t \in Threads, StartThread(t) PROVE ParInv'
    BY <1>3 DEF StartThread, ParInv
  <1>4. CASE Stop
    BY <1>4 DEF Stop, ParInv
  <1>5. CASE Join
    BY <1>5 DEF Join, ParInv
  <1>6. ASSUME NEW t \in Threads, Return(t) PROVE ParInv'
    BY <1>6 DEF Return, Running, ParInv
  <1>7. ASSUME NEW t \in Threads, Read(t) PROVE ParInv'
    <2> DEFINE n == IF MaxToRead < g_queue THEN MaxToRead ELSE g_queue
    <2>1. n \in Nat /\ n <= g_queue /\ g_queue \in Nat /\ g_queue > 0
      BY <1>7 DEF Read, MaxToRead, ParInv
    <2>2. /\ t \in started \ returned /\ num_read[t] = 0
          /\ g_queue' = g_queue - n
          /\ g_count_queue' = [g_count_queue EXCEPT ![t] = @ + n]
          /\ num_read' = [num_read EXCEPT ![t] = n]
          /\ UNCHANGED <<threads, g_par_continue, mpc, started, spun, returned>>
      BY <1>7 DEF Read, Running
    <2> HIDE DEF n
    <2>3. /\ g_queue' \in Nat /\ g_count_queue' \in [Threads -> Nat] /\ num_read' \in [Threads -> Nat]
          /\ g_count_queue'[t] = g_count_queue[t] + n /\ num_read'[t] = n
          /\ \A u \in Threads : u # t => g_count_queue'[u] = g_count_queue[u] /\ num_read'[u] = num_read[u]
      BY <2>1, <2>2 DEF ParInv
    <2>4. SumFunction(g_count_queue) \in Int
          /\ SumFunction(g_count_queue') = SumFunction(g_count_queue) + n
      <3>1. g_count_queue \in [Threads -> Int] /\ g_count_queue' \in [Threads -> Int] /\ n \in Int
        BY <2>1, <2>3 DEF ParInv
      <3> QED
        BY <2>3, <3>1, SumChanged
    <2>5. ASSUME NEW u \in Threads
          PROVE  /\ g_count_queue'[u] = spun'[u] + num_read'[u]
                 /\ num_read'[u] > 0 => u \in started' \ returned'
      BY <2>1, <2>2, <2>3 DEF ParInv
    <2> QED
      BY <2>1, <2>2, <2>3, <2>4, <2>5 DEF ParInv
  <1>8. ASSUME NEW t \in Threads, Spin(t) PROVE ParInv'
    <2>1. /\ num_read[t] > 0
          /\ num_read' = [num_read EXCEPT ![t] = @ - 1]
          /\ spun' = [spun EXCEPT ![t] = @ + 1]
          /\ UNCHANGED <<threads, globals, mpc, started, returned>>
      BY <1>8 DEF Spin
    <2>2. /\ num_read' \in [Threads -> Nat] /\ spun' \in [Threads -> Nat]
          /\ num_read'[t] = num_read[t] - 1 /\ spun'[t] = spun[t] + 1
          /\ \A u \in Threads : u # t => num_read'[u] = num_read[u] /\ spun'[u] = spun[u]
      BY <2>1 DEF ParInv
    <2>3. ASSUME NEW u \in Threads
          PROVE  /\ g_count_queue'[u] = spun'[u] + num_read'[u]
                 /\ num_read'[u] > 0 => u \in started' \ returned'
      BY <2>1, <2>2 DEF ParInv
    <2> QED
      BY <2>1, <2>2, <2>3 DEF ParInv
  <1>9. CASE UNCHANGED vars
    BY <1>9 DEF vars, ParInv
  <1> QED
    BY <1>1, <1>2, <1>3, <1>4, <1>5, <1>6, <1>7, <1>8, <1>9 DEF Next, Main, Thread

LEMMA ParInvariance == Spec => []ParInv
  <1> DEFINE Inv == ParInv /\ (pool_mpc # "begin" => mpc = "done")
  <1>1. InitPerf => Inv
    BY InitPar DEF InitPerf, Pool!Init
  <1>2. Inv /\ [NextPerf]_allVars => Inv'
    <2> SUFFICES ASSUME Inv, [NextPerf]_allVars PROVE Inv'
      OBVIOUS
    <2>1. CASE Parallel(Next)
      <3>1. ParInv' /\ UNCHANGED pool_mpc
        BY <2>1, ParKept DEF Parallel, poolVars
      <3>2. mpc = "done" => mpc' = "done"
        BY <2>1 DEF Parallel, Next, Main, Begin, Prime, Stop, Join, StartThread, Thread, Return, Read, Spin
      <3> QED
        BY <3>1, <3>2
    <2>2. CASE (mpc = "done" \/ UNCHANGED poolVars) /\ UNCHANGED vars
      <3>1. ParInv'
        BY <2>2, ParKept
      <3> QED
        BY <2>2, <3>1 DEF vars, poolVars
    <2>3. CASE NextConfiguration
      BY <2>3 DEF NextConfiguration, ParInv, Measuring, globals, threadVars
    <2> QED
      BY <2>1, <2>2, <2>3 DEF NextPerf, Pooled, allVars
  <1>3. Inv => ParInv
    OBVIOUS
  <1> QED
    BY <1>1, <1>2, <1>3, PTL DEF Spec

\* When the time is taken the threads have spun for every item of this configuration
\* exactly once, whatever the configurations before left in the globals, and however
\* the threads take turns at the queue and the flag.
THEOREM ThreadsDoAllWork == Spec => []AllWorkDone
  <1>1. ParInv => AllWorkDone
    <2> SUFFICES ASSUME ParInv, mpc = "done", threads # {}
                 PROVE  SumFunction(spun) = Iterations /\ SumFunction(g_count_queue) = Iterations
      BY DEF AllWorkDone
    <2>1. returned = threads /\ g_queue = 0
      BY DEF ParInv, Measuring
    <2>2. \A t \in Threads : num_read[t] = 0
      BY <2>1 DEF ParInv
    <2>3. g_count_queue = spun
      BY <2>2 DEF ParInv
    <2>4. SumFunction(g_count_queue) \in Nat
      BY BenchmarkAssumption, SumBounds DEF ParInv
    <2> QED
      BY <2>1, <2>3, <2>4 DEF ParInv, Measuring
  <1> QED
    BY <1>1, ParInvariance, PTL

-----------------------------------------------------------------------------
(* The actor benchmark *)

Workers == Pool!Workers

LEMMA WorkersFinite == IsFiniteSet(Workers)
  BY ConfigurationsAssumption, FS_Interval DEF Workers, Pool!Workers

LEMMA SameSum == \A f : Pool!SumFunction(f) = SumFunction(f)
  BY DEF Pool!SumFunction, Pool!SumFunctionOnSet, Pool!FoldFunctionOnSet, Pool!MapThenFoldSet,
         SumFunction, SumFunctionOnSet, FoldFunctionOnSet, MapThenFoldSet

\* Main's question has not been answered yet.
Awaited == pool_mpc = "wait" /\ answer = -1

\* The counter counts for main.
Counting == pool_mpc \in {"send", "ask", "wait", "end counter"}
Ending == pool_mpc \in {"end counter", "end pool", "await", "done"}

AllWork(q) == \A k \in DOMAIN q : q[k] = "work"
OneReport(q) == \E k \in DOMAIN q : q[k] = "report" /\ \A j \in DOMAIN q : j # k => q[j] = "work"

\* All work sent is counted, on its way to the counter, or at a worker.  What the
\* counter told main it has counted; so main ends the actors only after all work.
PoolTypes ==
  /\ Counting \/ Ending \/ pool_mpc = "begin"
  /\ send_count \in Nat /\ work_count \in Nat
  /\ box \in [Workers -> Nat]
  /\ counter_box \in Seq({"work", "report"})
  /\ counter \in Nat \cup {-1} /\ answer \in Nat \cup {-1}

PoolCounts ==
  /\ Awaited => OneReport(counter_box)
  /\ ~Awaited => AllWork(counter_box)
  /\ pool_mpc # "wait" => answer = -1
  /\ Counting => /\ counter \in Nat /\ work_count <= counter /\ answer <= counter
                 /\ send_count + (IF Awaited THEN 1 ELSE 0)
                      = counter + Len(counter_box) + SumFunction(box)
  /\ Ending => SumFunction(box) = 0 /\ counter_box = <<>> /\ work_count = send_count

PoolInv == PoolTypes /\ PoolCounts

LEMMA InitPool == Pool!Init => PoolInv
  <1> SUFFICES ASSUME Pool!Init PROVE PoolInv
    OBVIOUS
  <1> QED
    BY DEF Pool!Init, PoolInv, PoolTypes, PoolCounts, Workers, Awaited, AllWork, Counting, Ending

LEMMA BoxAppended ==
  ASSUME NEW q \in Seq({"work", "report"})
  PROVE  /\ \A m \in {"work", "report"} : /\ Append(q, m) \in Seq({"work", "report"})
                                          /\ Len(Append(q, m)) = Len(q) + 1
         /\ AllWork(q) => AllWork(Append(q, "work")) /\ OneReport(Append(q, "report"))
         /\ OneReport(q) => OneReport(Append(q, "work"))
  <1> DEFINE n == Len(q)
  <1>1. n \in Nat /\ DOMAIN q = 1 .. n
    OBVIOUS
  <1>2. ASSUME NEW m \in {"work", "report"}
        PROVE  /\ Append(q, m) \in Seq({"work", "report"}) /\ Len(Append(q, m)) = n + 1
               /\ DOMAIN Append(q, m) = 1 .. n + 1 /\ Append(q, m)[n + 1] = m
               /\ \A k \in 1 .. n : Append(q, m)[k] = q[k]
    OBVIOUS
  <1>3. \A k \in 1 .. n + 1 : k \in 1 .. n \/ k = n + 1
    BY <1>1
  <1>31. n + 1 \in 1 .. n + 1 /\ n + 1 \notin 1 .. n /\ \A k \in 1 .. n : k \in 1 .. n + 1 /\ k # n + 1
    BY <1>1
  <1>4. AllWork(q) => AllWork(Append(q, "work"))
    <2> DEFINE r == Append(q, "work")
    <2>1. DOMAIN r = 1 .. n + 1 /\ r[n + 1] = "work" /\ \A k \in 1 .. n : r[k] = q[k]
      BY <1>2
    <2> HIDE DEF r, n
    <2> QED
      BY <1>1, <1>3, <2>1 DEF AllWork, r
  <1>5. AllWork(q) => OneReport(Append(q, "report"))
    <2> DEFINE r == Append(q, "report")
    <2>1. DOMAIN r = 1 .. n + 1 /\ r[n + 1] = "report" /\ \A k \in 1 .. n : r[k] = q[k]
      BY <1>2
    <2> HIDE DEF r, n
    <2> QED
      BY <1>1, <1>3, <1>31, <2>1 DEF AllWork, OneReport, r
  <1>6. ASSUME OneReport(q) PROVE OneReport(Append(q, "work"))
    <2> DEFINE r == Append(q, "work")
    <2>1. DOMAIN r = 1 .. n + 1 /\ r[n + 1] = "work" /\ \A k \in 1 .. n : r[k] = q[k]
      BY <1>2
    <2>2. PICK k \in 1 .. n : q[k] = "report" /\ \A j \in 1 .. n : j # k => q[j] = "work"
      BY <1>1, <1>6 DEF OneReport
    <2> HIDE DEF r, n
    <2>3. k \in 1 .. n + 1 /\ r[k] = "report"
      BY <1>31, <2>1, <2>2
    <2>4. ASSUME NEW j \in 1 .. n + 1, j # k PROVE r[j] = "work"
      BY <1>3, <2>1, <2>2, <2>4
    <2> QED
      BY <2>1, <2>3, <2>4 DEF OneReport, r
  <1> QED
    BY <1>2, <1>4, <1>5, <1>6

LEMMA BoxTaken ==
  ASSUME NEW q \in Seq({"work", "report"}), q # <<>>
  PROVE  /\ Tail(q) \in Seq({"work", "report"}) /\ Len(Tail(q)) = Len(q) - 1
         /\ AllWork(q) => AllWork(Tail(q)) /\ Head(q) = "work"
         /\ OneReport(q) /\ Head(q) = "work" => OneReport(Tail(q))
         /\ OneReport(q) /\ Head(q) = "report" => AllWork(Tail(q))
  <1> DEFINE n == Len(q)
             r == Tail(q)
  <1>1. /\ n \in Nat /\ n > 0 /\ DOMAIN q = 1 .. n /\ DOMAIN r = 1 .. n - 1 /\ Head(q) = q[1]
        /\ \A k \in 1 .. n - 1 : r[k] = q[k + 1]
        /\ r \in Seq({"work", "report"}) /\ Len(r) = n - 1
    OBVIOUS
  <1>2. /\ 1 \in 1 .. n
        /\ \A k \in 1 .. n - 1 : k + 1 \in 1 .. n /\ k + 1 # 1
        /\ \A k \in 1 .. n : k = 1 \/ (k - 1 \in 1 .. n - 1 /\ k - 1 + 1 = k)
    BY <1>1
  <1>3. AllWork(q) => AllWork(r) /\ Head(q) = "work"
    <2> HIDE DEF r, n
    <2> QED
      BY <1>1, <1>2 DEF AllWork
  <1>4. ASSUME OneReport(q)
        PROVE  /\ Head(q) = "work" => OneReport(r)
               /\ Head(q) = "report" => AllWork(r)
    <2>1. PICK k \in 1 .. n : q[k] = "report" /\ \A j \in 1 .. n : j # k => q[j] = "work"
      BY <1>1, <1>4 DEF OneReport
    <2> HIDE DEF r, n
    <2>2. ASSUME Head(q) = "work" PROVE OneReport(r)
      <3>1. k - 1 \in 1 .. n - 1 /\ r[k - 1] = "report"
        BY <1>1, <1>2, <2>1, <2>2
      <3>2. ASSUME NEW j \in 1 .. n - 1, j # k - 1 PROVE r[j] = "work"
        BY <1>1, <1>2, <2>1, <3>2
      <3> QED
        BY <1>1, <3>1, <3>2 DEF OneReport
    <2>3. ASSUME Head(q) = "report" PROVE AllWork(r)
      <3>1. k = 1
        BY <1>1, <1>2, <2>1, <2>3
      <3> QED
        BY <1>1, <1>2, <2>1, <3>1 DEF AllWork
    <2> QED
      BY <2>2, <2>3
  <1> QED
    BY <1>1, <1>3, <1>4

LEMMA PoolKept == PoolInv /\ [Pool!Next]_poolVars => PoolInv'
  <1> SUFFICES ASSUME PoolTypes, PoolCounts, [Pool!Next]_poolVars PROVE PoolTypes' /\ PoolCounts'
    BY DEF PoolInv
  <1> DEFINE added == SumFunction(box)
             len == Len(counter_box)
             open == IF Awaited THEN 1 ELSE 0
             Messages == {"work", "report"}
  <1>0. /\ send_count \in Nat /\ work_count \in Nat /\ box \in [Workers -> Nat]
        /\ counter_box \in Seq(Messages) /\ counter \in Nat \cup {-1} /\ answer \in Nat \cup {-1}
    BY DEF PoolTypes
  <1>a. added \in Nat
    BY <1>0, WorkersFinite, SumBounds
  <1>b. len \in Nat /\ (len = 0 => counter_box = <<>>)
    BY <1>0
  <1>c. Counting => /\ counter \in Nat /\ work_count <= counter /\ answer <= counter
                    /\ send_count + open = counter + len + added
    BY DEF PoolCounts
  <1> HIDE DEF added, len
  <1>1. CASE Pool!Begin
    <2> DEFINE zero == [w \in Workers |-> 0]
    <2>1. /\ send_count' = 0 /\ work_count' = 0 /\ counter' = 0 /\ box' = zero
          /\ counter_box' = <<>> /\ answer' = -1 /\ pool_mpc' = "send"
      BY <1>1 DEF Pool!Begin, Workers
    <2>2. SumFunction(zero) = 0 /\ zero \in [Workers -> Nat]
      BY WorkersFinite, SumOfNothing
    <2> HIDE DEF zero
    <2>3. AllWork(<<>>) /\ <<>> \in Seq(Messages) /\ Len(<<>>) = 0
      BY DEF AllWork
    <2>4. PoolTypes'
      BY <2>1, <2>2, <2>3 DEF PoolTypes, Counting
    <2>5. ~Awaited' /\ ~Ending' /\ AllWork(counter_box')
      BY <2>1, <2>3 DEF Awaited, Ending
    <2>6. Len(counter_box') = 0 /\ SumFunction(box') = 0
      BY <2>1, <2>2, <2>3
    <2> QED
      BY <2>1, <2>4, <2>5, <2>6 DEF PoolCounts
  <1>2. CASE Pool!SendWork
    <2> DEFINE w == Pool!NextWorker
    <2>1. /\ pool_mpc = "send" /\ box' = [box EXCEPT ![w] = @ + 1] /\ send_count' = send_count + 1
          /\ UNCHANGED <<pool_mpc, work_count, counter_box, counter, answer>>
      BY <1>2 DEF Pool!SendWork
    <2>2. w \in Workers
      <3>1. PoolSize \in Nat \ {0}
        BY ConfigurationsAssumption
      <3>2. send_count % PoolSize \in 0 .. PoolSize - 1
        BY <1>0, <3>1
      <3> QED
        BY <3>1, <3>2 DEF Pool!NextWorker, Workers, Pool!Workers
    <2> HIDE DEF w
    <2>3. /\ box' \in [Workers -> Nat] /\ box'[w] = box[w] + 1
          /\ \A u \in Workers : u # w => box'[u] = box[u]
      BY <1>0, <2>1, <2>2
    <2>4. SumFunction(box') = added + 1
      <3>1. box \in [Workers -> Int] /\ box' \in [Workers -> Int]
        BY <1>0, <2>3
      <3> QED
        BY <2>2, <2>3, <3>1, WorkersFinite, SumChanged DEF added
    <2>5. PoolTypes'
      BY <1>0, <2>1, <2>3 DEF PoolTypes, Counting
    <2> QED
      BY <1>0, <1>a, <1>b, <1>c, <2>1, <2>4, <2>5 DEF PoolCounts, Counting, Ending, Awaited, len
  <1>3. CASE Pool!AllSent
    <2>1. /\ pool_mpc = "send" /\ pool_mpc' = Pool!Test
          /\ UNCHANGED <<send_count, work_count, box, counter_box, counter, answer>>
      BY <1>3 DEF Pool!AllSent, Pool!workerVars
    <2>2. send_count = counter + len + added /\ work_count <= counter /\ counter \in Nat /\ ~Awaited
      <3>1. Counting /\ ~Awaited
        BY <2>1 DEF Counting, Awaited
      <3> QED
        BY <1>0, <1>a, <1>b, <1>c, <3>1
    <2>3. ASSUME ~(work_count < send_count)
          PROVE  added = 0 /\ counter_box = <<>> /\ work_count = send_count
      BY <1>0, <1>a, <1>b, <2>2, <2>3
    <2>4. pool_mpc' \in {"ask", "end counter"} /\ (pool_mpc' = "end counter" => ~(work_count < send_count))
      BY <2>1 DEF Pool!Test
    <2> QED
      BY <1>0, <2>1, <2>3, <2>4 DEF PoolTypes, PoolCounts, Counting, Ending, Awaited, added
  <1>4. CASE Pool!Ask
    <2>1. /\ pool_mpc = "ask" /\ pool_mpc' = "wait" /\ counter_box' = Append(counter_box, "report")
          /\ UNCHANGED <<send_count, work_count, box, counter, answer>>
      BY <1>4 DEF Pool!Ask, Pool!workerVars
    <2>2. AllWork(counter_box) /\ answer = -1
      BY <2>1 DEF PoolCounts, Awaited
    <2>3. /\ counter_box' \in Seq(Messages) /\ Len(counter_box') = len + 1
          /\ OneReport(counter_box')
      BY <1>0, <2>1, <2>2, BoxAppended DEF len
    <2> QED
      BY <1>0, <1>a, <1>b, <1>c, <2>1, <2>2, <2>3 DEF PoolTypes, PoolCounts, Counting, Ending, Awaited, added
  <1>5. CASE Pool!Receive
    <2>1. /\ pool_mpc = "wait" /\ answer # -1 /\ work_count' = answer /\ answer' = -1
          /\ pool_mpc' = IF answer < send_count THEN "ask" ELSE "end counter"
          /\ UNCHANGED <<send_count, box, counter_box, counter>>
      BY <1>5 DEF Pool!Receive, Pool!workerVars
    <2>2. /\ send_count = counter + len + added /\ answer <= counter /\ answer \in Nat /\ counter \in Nat
          /\ AllWork(counter_box)
      <3>1. Counting /\ ~Awaited
        BY <2>1 DEF Counting, Awaited
      <3>2. AllWork(counter_box)
        BY <3>1 DEF PoolCounts
      <3>3. answer \in Nat
        BY <1>0, <2>1
      <3> QED
        BY <1>0, <1>a, <1>b, <1>c, <3>1, <3>2, <3>3
    <2>3. ASSUME ~(answer < send_count)
          PROVE  added = 0 /\ counter_box = <<>> /\ answer = send_count
      BY <1>0, <1>a, <1>b, <2>2, <2>3
    <2>4. pool_mpc' \in {"ask", "end counter"} /\ (pool_mpc' = "end counter" => ~(answer < send_count))
      BY <2>1
    <2>5. -1 <= counter
      BY <2>2
    <2> QED
      BY <1>0, <2>1, <2>2, <2>3, <2>4, <2>5 DEF PoolTypes, PoolCounts, Counting, Ending, Awaited, added, len
  <1>6. CASE Pool!EndCounter
    BY <1>6 DEF Pool!EndCounter, PoolTypes, PoolCounts, Counting, Ending, Awaited, Pool!workerVars
  <1>7. CASE Pool!EndPool \/ Pool!AllDone
    BY <1>7 DEF Pool!EndPool, Pool!AllDone, PoolTypes, PoolCounts, Counting, Ending, Awaited, Pool!workerVars
  <1>8. ASSUME NEW w \in Workers, Pool!Work(w) PROVE PoolTypes' /\ PoolCounts'
    <2>1. /\ box[w] > 0 /\ box' = [box EXCEPT ![w] = @ - 1]
          /\ counter_box' = Append(counter_box, "work")
          /\ UNCHANGED <<pool_mpc, send_count, work_count, counter, answer>>
      BY <1>8 DEF Pool!Work
    <2>2. /\ counter_box' \in Seq(Messages) /\ Len(counter_box') = len + 1
          /\ OneReport(counter_box) => OneReport(counter_box')
          /\ AllWork(counter_box) => AllWork(counter_box')
      BY <1>0, <2>1, BoxAppended DEF len
    <2>3. /\ box' \in [Workers -> Nat] /\ box'[w] = box[w] + (-1)
          /\ \A u \in Workers : u # w => box'[u] = box[u]
      <3>1. box[w] \in Nat
        BY <1>0
      <3> QED
        BY <1>0, <2>1, <3>1
    <2>4. SumFunction(box') = added + (-1)
      <3>1. box \in [Workers -> Int] /\ box' \in [Workers -> Int] /\ -1 \in Int
        BY <1>0, <2>3
      <3> QED
        BY <2>3, <3>1, WorkersFinite, SumChanged DEF added
    <2>5. added > 0
      <3>1. box[w] <= added /\ box[w] \in Nat
        BY <1>0, WorkersFinite, SumBounds DEF added
      <3> QED
        BY <1>a, <2>1, <3>1
    <2>6. ~Ending
      BY <2>5 DEF PoolCounts, added
    <2>7. PoolTypes'
      BY <1>0, <2>1, <2>2, <2>3 DEF PoolTypes, Counting, Ending
    <2>8. UNCHANGED <<Awaited, Counting, Ending>>
      BY <2>1 DEF Awaited, Counting, Ending
    <2>9. Counting => send_count + open = counter + (len + 1) + (added + (-1))
      BY <1>0, <1>a, <1>b, <1>c
    <2>10. OneReport(counter_box') \/ ~Awaited
      BY <2>2 DEF PoolCounts
    <2>11. AllWork(counter_box') \/ Awaited
      BY <2>2 DEF PoolCounts
    <2> QED
      BY <1>c, <2>1, <2>2, <2>4, <2>6, <2>7, <2>8, <2>9, <2>10, <2>11 DEF PoolCounts
  <1>9. ASSUME NEW w \in Workers, Pool!Spin(w) \/ Pool!WorkerExits(w) PROVE PoolTypes' /\ PoolCounts'
    BY <1>9 DEF Pool!Spin, Pool!WorkerExits, PoolTypes, PoolCounts, Counting, Ending, Awaited
  <1>10. CASE Pool!Count
    <2>1. /\ counter # -1 /\ counter_box # <<>> /\ Head(counter_box) = "work"
          /\ counter' = counter + 1 /\ counter_box' = Tail(counter_box)
          /\ UNCHANGED <<pool_mpc, send_count, work_count, box, answer>>
      BY <1>10 DEF Pool!Count, Pool!workerVars
    <2>2. /\ counter_box' \in Seq(Messages) /\ Len(counter_box') = len - 1
          /\ OneReport(counter_box) => OneReport(counter_box')
          /\ AllWork(counter_box) => AllWork(counter_box')
      BY <1>0, <2>1, BoxTaken DEF len
    <2>3. ~Ending
      BY <2>1 DEF PoolCounts
    <2>4. counter \in Nat
      BY <1>0, <2>1
    <2>5. UNCHANGED <<Awaited, Counting, Ending>>
      BY <2>1 DEF Awaited, Counting, Ending
    <2>6. PoolTypes'
      <3>1. counter' \in Nat \cup {-1}
        BY <2>1, <2>4
      <3> QED
        BY <1>0, <2>1, <2>2, <2>5, <3>1 DEF PoolTypes
    <2>7. Counting => send_count + open = (counter + 1) + (len - 1) + added
      BY <1>0, <1>a, <1>b, <1>c
    <2>8. OneReport(counter_box') \/ ~Awaited
      BY <2>2 DEF PoolCounts
    <2>9. AllWork(counter_box') \/ Awaited
      BY <2>2 DEF PoolCounts
    <2>10. Counting => counter + 1 \in Nat /\ work_count <= counter + 1 /\ answer <= counter + 1
      BY <1>0, <1>c, <2>4
    <2>11. pool_mpc' # "wait" => answer' = -1
      BY <2>1 DEF PoolCounts
    <2> QED
      BY <2>1, <2>2, <2>3, <2>5, <2>6, <2>7, <2>8, <2>9, <2>10, <2>11 DEF PoolCounts, added
  <1>11. CASE Pool!Report
    <2>1. /\ counter # -1 /\ counter_box # <<>> /\ Head(counter_box) = "report"
          /\ answer' = counter /\ counter_box' = Tail(counter_box)
          /\ UNCHANGED <<pool_mpc, send_count, work_count, box, counter>>
      BY <1>11 DEF Pool!Report, Pool!workerVars
    <2>2. /\ counter_box' \in Seq(Messages) /\ Len(counter_box') = len - 1
          /\ OneReport(counter_box) => AllWork(counter_box')
          /\ ~AllWork(counter_box)
      BY <1>0, <2>1, BoxTaken DEF len
    <2>3. Awaited /\ AllWork(counter_box')
      BY <2>2 DEF PoolCounts
    <2>4. counter \in Nat
      BY <1>0, <2>1
    <2>5. PoolTypes'
      <3>1. UNCHANGED <<Counting, Ending, pool_mpc>>
        BY <2>1 DEF Counting, Ending
      <3>2. answer' \in Nat \cup {-1} /\ counter' \in Nat \cup {-1}
        BY <2>1, <2>4
      <3> QED
        BY <1>0, <2>1, <2>2, <3>1, <3>2 DEF PoolTypes
    <2>6. ~Awaited' /\ ~Ending' /\ Counting
      <3>1. pool_mpc = "wait" /\ pool_mpc' = "wait"
        BY <2>1, <2>3 DEF Awaited
      <3>2. answer' # -1
        BY <2>1
      <3> QED
        BY <3>1, <3>2 DEF Awaited, Ending, Counting
    <2>7. send_count = counter + (len - 1) + added
      BY <1>0, <1>a, <1>b, <1>c, <2>3, <2>4, <2>6
    <2>8. pool_mpc' = "wait" /\ counter <= counter
      BY <2>1, <2>3, <2>4 DEF Awaited
    <2> QED
      BY <1>0, <1>c, <2>1, <2>2, <2>3, <2>4, <2>5, <2>6, <2>7, <2>8 DEF PoolCounts, added
  <1>12. CASE UNCHANGED poolVars
    BY <1>12 DEF poolVars, workerVars, PoolTypes, PoolCounts, Counting, Ending, Awaited
  <1> QED
    BY <1>1, <1>2, <1>3, <1>4, <1>5, <1>6, <1>7, <1>8, <1>9, <1>10, <1>11, <1>12
    DEF Pool!Next, Pool!Main, Pool!Counter, Pool!Worker, Workers

\* Main ends the counter and the workers only when no work is left anywhere: neither
\* of the exit messages, which overtake what waits, cuts off any, for any number of
\* workers, items and configurations, whatever the globals held at the start.
THEOREM PoolCutsNothingOff == Spec => []NothingCutOff
  <1>1. InitPerf => PoolInv
    BY InitPool DEF InitPerf
  <1>2. PoolInv /\ [NextPerf]_allVars => PoolInv'
    <2> SUFFICES ASSUME PoolInv, [NextPerf]_allVars PROVE PoolInv'
      OBVIOUS
    <2>1. CASE Pooled(Pool!Next) \/ UNCHANGED poolVars
      BY <2>1, PoolKept DEF Pooled
    <2>2. CASE NextConfiguration
      BY <2>2 DEF NextConfiguration, PoolInv, PoolTypes, PoolCounts, Awaited, Counting, Ending, workerVars
    <2> QED
      BY <2>1, <2>2 DEF NextPerf, Parallel, allVars
  <1>3. PoolInv => NothingCutOff
    BY SameSum DEF PoolInv, PoolCounts, Ending, NothingCutOff, Pool!NothingCutOff
  <1> QED
    BY <1>1, <1>2, <1>3, PTL DEF Spec

-----------------------------------------------------------------------------
(* Loops: a function that tells what a loop has after each of its rounds       *)

LEMMA StrongInduction ==
  ASSUME NEW T, \A n \in Nat : (\A m \in Nat : m < n => m \in T) => n \in T
  PROVE  Nat \subseteq T
  <1> DEFINE U == {n \in Nat : \A m \in Nat : m < n => m \in T}
  <1>1. 0 \in U
    OBVIOUS
  <1>2. ASSUME NEW n \in U \cap Nat PROVE n + 1 \in U
    <2>1. n \in T
      OBVIOUS
    <2> QED
      BY <2>1
  <1>3. Nat \subseteq U
    <2> HIDE DEF U
    <2> QED
      BY <1>1, <1>2, SetInduction
  <1> QED
    BY <1>3

Kept(N, T) == \A k \in 1 .. N : k - 1 \in T => k \in T

\* What holds before the first round and is kept by each holds after all.
LEMMA LoopInduction ==
  ASSUME NEW N \in Nat, NEW T, 0 \in T, Kept(N, T)
  PROVE  0 .. N \subseteq T
  <1> USE DEF Kept
  <1> DEFINE U == {k \in Nat : k <= N => k \in T}
  <1>1. 0 \in U
    OBVIOUS
  <1>2. ASSUME NEW k \in U \cap Nat PROVE k + 1 \in U
    <2>1. CASE k + 1 <= N
      <3>1. k + 1 \in 1 .. N /\ (k + 1) - 1 = k /\ k \in T
        BY <2>1
      <3> QED
        BY <3>1
    <2>2. CASE ~(k + 1 <= N)
      BY <2>2
    <2> QED
      BY <2>1, <2>2
  <1>3. Nat \subseteq U
    <2> HIDE DEF U
    <2> QED
      BY <1>1, <1>2, SetInduction
  <1> QED
    BY <1>3

Closed(N, S, step) == \A k \in 1 .. N, x \in S : step[k][x] \in S
Loop(g, N, S, base, step) ==
  g \in [0 .. N -> S] /\ g[0] = base /\ \A k \in 1 .. N : g[k] = step[k][g[k - 1]]

\* There is such a function, for any state of the loop and any way to go on.
LEMMA LoopExists ==
  ASSUME NEW N \in Nat, NEW S, NEW base \in S, NEW step, Closed(N, S, step)
  PROVE  \E g : Loop(g, N, S, base, step)
  <1> USE DEF Closed, Loop, Kept
  <1> DEFINE After(n) == \E g \in [0 .. n -> S] :
                           g[0] = base /\ \A k \in 1 .. n : g[k] = step[k][g[k - 1]]
             T == {n \in Nat : After(n)}
  <1>1. 0 \in T
    <2> DEFINE g == [k \in 0 .. 0 |-> base]
    <2>1. g \in [0 .. 0 -> S] /\ g[0] = base /\ \A k \in 1 .. 0 : g[k] = step[k][g[k - 1]]
      OBVIOUS
    <2> HIDE DEF g
    <2> QED
      BY <2>1
  <1>2. ASSUME NEW n \in 1 .. N, n - 1 \in T PROVE n \in T
    <2>1. PICK g \in [0 .. n - 1 -> S] :
            g[0] = base /\ \A k \in 1 .. n - 1 : g[k] = step[k][g[k - 1]]
      BY <1>2
    <2> DEFINE h == [k \in 0 .. n |-> IF k = n THEN step[n][g[n - 1]] ELSE g[k]]
    <2>2. h \in [0 .. n -> S]
      OBVIOUS
    <2>3. h[0] = base
      BY <2>1
    <2>4. ASSUME NEW k \in 1 .. n PROVE h[k] = step[k][h[k - 1]]
      <3>1. h[k - 1] = g[k - 1]
        OBVIOUS
      <3>2. CASE k = n
        BY <3>1, <3>2
      <3>3. CASE k # n
        BY <2>1, <3>1, <3>3
      <3> QED
        BY <3>2, <3>3
    <2> HIDE DEF h
    <2> QED
      BY <2>2, <2>3, <2>4
  <1> HIDE DEF After
  <1>3. 0 .. N \subseteq T
    <2> HIDE DEF T
    <2> QED
      BY <1>1, <1>2, LoopInduction
  <1>4. After(N)
    BY <1>3
  <1> QED
    BY <1>4 DEF After

SameSteps(N, f, g) == \A k \in 1 .. N : f[k - 1] = g[k - 1] => f[k] = g[k]

\* And only one.
LEMMA LoopUnique ==
  ASSUME NEW N \in Nat, NEW f, NEW g, f[0] = g[0], SameSteps(N, f, g)
  PROVE  \A k \in 0 .. N : f[k] = g[k]
  <1> DEFINE T == {k \in Nat : f[k] = g[k]}
  <1>1. 0 .. N \subseteq T
    <2>1. 0 \in T /\ Kept(N, T)
      BY DEF Kept, SameSteps
    <2> HIDE DEF T
    <2> QED
      BY <2>1, LoopInduction
  <1> QED
    BY <1>1

-----------------------------------------------------------------------------
(* The ascending run with the largest sum *)

Numeric(s) == s \in Seq(Int)

LEMMA Accumulated ==
  ASSUME NEW s, Numeric(s)
  PROVE  /\ accumulate(s) \in [0 .. Len(s) -> Int]
         /\ accumulate(s)[0] = 0
         /\ \A k \in 1 .. Len(s) : accumulate(s)[k] = accumulate(s)[k - 1] + s[k]
  <1>1. PICK N : N = Len(s) /\ N \in Nat /\ \A k \in 1 .. N : s[k] \in Int
    BY DEF Numeric
  <1>2. PICK step : step = [k \in 1 .. N |-> [x \in Int |-> x + s[k]]]
    OBVIOUS
  <1>2a. N \in Nat
    BY <1>1
  <1>3. \A k \in 1 .. N, x \in Int : step[k][x] = x + s[k]
    BY <1>1, <1>2
  <1>3a. Closed(N, Int, step)
    BY <1>1, <1>2 DEF Closed
  <1>4. PICK g : Loop(g, N, Int, 0, step)
    BY <1>2a, <1>3a, LoopExists
  <1>5. g \in [0 .. N -> Int] /\ g[0] = 0 /\ \A k \in 1 .. N : g[k] = g[k - 1] + s[k]
    BY <1>2a, <1>3, <1>4 DEF Loop
  <1> DEFINE Is(h) == h = [n \in 0 .. N |-> IF n = 0 THEN 0 ELSE h[n - 1] + s[n]]
  <1>6. Is(g)
    BY <1>5
  <1>7. PICK f : f = CHOOSE h : Is(h)
    OBVIOUS
  <1>8. accumulate(s) = f
    BY <1>1, <1>7 DEF accumulate
  <1>9. Is(f)
    <2> HIDE DEF Is
    <2> QED
      BY <1>6, <1>7
  <1>10. f[0] = 0 /\ \A k \in 1 .. N : f[k] = f[k - 1] + s[k]
    BY <1>1, <1>9
  <1>11. f[0] = g[0] /\ SameSteps(N, f, g)
    BY <1>5, <1>10 DEF SameSteps
  <1>12. \A k \in 0 .. N : f[k] = g[k]
    BY <1>1, <1>11, LoopUnique
  <1>13. f \in [0 .. N -> Int]
    BY <1>5, <1>9, <1>12
  <1> QED
    BY <1>1, <1>8, <1>10, <1>13

\* The sum of a part of s is a difference.
LEMMA SumOfPart ==
  ASSUME NEW s, Numeric(s), NEW a \in 1 .. Len(s) + 1, NEW b \in a - 1 .. Len(s)
  PROVE  sum(SubSeq(s, a, b)) = accumulate(s)[b] - accumulate(s)[a - 1]
  <1>1. PICK t : t = SubSeq(s, a, b)
    OBVIOUS
  <1>2. PICK n : n = Len(t) /\ n = b - a + 1 /\ n \in Nat
    BY <1>1, SMTT(60) DEF Numeric
  <1>3. Numeric(t) /\ \A i \in 1 .. n : t[i] = s[a + i - 1]
    BY <1>1, <1>2, SMTT(60) DEF Numeric
  <1>4. PICK P \in [0 .. Len(s) -> Int] :
          P = accumulate(s) /\ \A k \in 1 .. Len(s) : P[k] = P[k - 1] + s[k]
    BY Accumulated
  <1>5. PICK Q : Q = accumulate(t) /\ Q[0] = 0 /\ \A k \in 1 .. n : Q[k] = Q[k - 1] + t[k]
    BY <1>2, <1>3, Accumulated
  <1>6. Len(s) \in Nat /\ \A k \in 1 .. Len(s) : s[k] \in Int
    BY DEF Numeric
  <1> DEFINE T == {i \in Nat : Q[i] = P[a + i - 1] - P[a - 1]}
  <1>7. 0 \in T
    <2>1. a + 0 - 1 = a - 1 /\ a - 1 \in 0 .. Len(s)
      BY <1>6
    <2>2. P[a - 1] \in Int
      BY <2>1, <1>4
    <2> QED
      BY <1>5, <2>1, <2>2
  <1>8. ASSUME NEW i \in 1 .. n, i - 1 \in T PROVE i \in T
    <2>1. Q[i - 1] = P[a + (i - 1) - 1] - P[a - 1]
      BY <1>8
    <2>2. PICK j : /\ j = a + i - 1 /\ j \in 1 .. Len(s) /\ j - 1 \in 0 .. Len(s)
                   /\ a - 1 \in 0 .. Len(s) /\ j - 1 = a + (i - 1) - 1
      BY <1>2, <1>6
    <2>3. P[j] = P[j - 1] + s[j] /\ P[j - 1] \in Int /\ P[a - 1] \in Int /\ s[j] \in Int
      BY <1>4, <1>6, <2>2
    <2>4. Q[i] = Q[i - 1] + s[j]
      BY <1>3, <1>5, <2>2
    <2>5. Q[i] = P[j] - P[a - 1]
      BY <2>1, <2>2, <2>3, <2>4
    <2> QED
      BY <2>2, <2>5
  <1>9. n \in T
    <2>1. Kept(n, T)
      BY <1>8 DEF Kept
    <2> HIDE DEF T
    <2> QED
      BY <1>2, <1>7, <2>1, LoopInduction
  <1>10. a + n - 1 = b
    BY <1>2
  <1> QED
    BY <1>1, <1>2, <1>4, <1>5, <1>9, <1>10 DEF sum

LEMMA PartialSumsGrow ==
  ASSUME NEW s, Numeric(s), Len(s) \in Nat, \A k \in 1 .. Len(s) : s[k] \in Nat,
         NEW a \in 0 .. Len(s), NEW b \in a .. Len(s)
  PROVE  accumulate(s)[a] <= accumulate(s)[b]
  <1>1. PICK N : N = Len(s) /\ N \in Nat /\ \A k \in 1 .. N : s[k] \in Nat
    OBVIOUS
  <1>2. N \in Nat
    BY <1>1
  <1>3. PICK P \in [0 .. N -> Int] :
          P = accumulate(s) /\ \A k \in 1 .. N : P[k] = P[k - 1] + s[k]
    BY <1>1, Accumulated
  <1>4. a \in 0 .. N /\ b \in a .. N
    BY <1>1
  <1> DEFINE T == {k \in Nat : a <= k => P[a] <= P[k]}
  <1>5. 0 \in T
    BY <1>3, <1>4
  <1>6. ASSUME NEW k \in 1 .. N, k - 1 \in T PROVE k \in T
    <2>1. CASE a = k
      BY <1>3, <2>1
    <2>2. CASE a <= k - 1
      <3>1. P[a] <= P[k - 1] /\ P[k] = P[k - 1] + s[k] /\ s[k] \in Nat
        BY <1>1, <1>3, <1>6, <2>2
      <3>2. P[a] \in Int /\ P[k - 1] \in Int
        <4>1. k - 1 \in 0 .. N /\ a \in 0 .. N
          BY <1>2, <1>4
        <4> QED
          BY <4>1
      <3> QED
        BY <3>1, <3>2
    <2>3. CASE ~(a <= k)
      BY <2>3
    <2> QED
      BY <1>4, <2>1, <2>2, <2>3
  <1>7. 0 .. N \subseteq T
    <2>1. Kept(N, T)
      BY <1>6 DEF Kept
    <2> HIDE DEF T
    <2> QED
      BY <1>1, <1>5, <2>1, LoopInduction
  <1> QED
    BY <1>1, <1>3, <1>4, <1>7, SMTT(60)

RunStates == [prev : Int, local : Seq(Int), largest : Seq(Int)]

LEMMA VisitTyped ==
  ASSUME NEW found \in RunStates, NEW x \in Int
  PROVE  Visit(found, x) \in RunStates
  BY DEF Visit, RunStates

LEMMA RoundsDefined ==
  ASSUME NEW s, Numeric(s)
  PROVE  /\ Rounds(s)[0] = [prev |-> -1, local |-> <<>>, largest |-> <<>>]
         /\ \A k \in 1 .. Len(s) : Rounds(s)[k] = Visit(Rounds(s)[k - 1], s[k])
         /\ \A k \in 0 .. Len(s) : Rounds(s)[k] \in RunStates
  <1>1. PICK N : N = Len(s) /\ N \in Nat
    BY DEF Numeric
  <1>2. \A k \in 1 .. N : s[k] \in Int
    BY <1>1 DEF Numeric
  <1>3. PICK base : base = [prev |-> -1, local |-> <<>>, largest |-> <<>>] /\ base \in RunStates
    <2>1. PICK x \in Int : x = -1
      OBVIOUS
    <2>2. PICK e : e = <<>>
      OBVIOUS
    <2>3. e \in Seq(Int)
      BY <2>2
    <2>4. [prev |-> x, local |-> e, largest |-> e] \in RunStates
      BY <2>3 DEF RunStates
    <2> QED
      BY <2>1, <2>2, <2>4
  <1>4. PICK step : step = [k \in 1 .. N |-> [x \in RunStates |-> Visit(x, s[k])]]
    OBVIOUS
  <1>5. \A k \in 1 .. N, x \in RunStates : step[k][x] = Visit(x, s[k])
    BY <1>4
  <1>6. Closed(N, RunStates, step)
    BY <1>2, <1>5, VisitTyped DEF Closed
  <1>7. N \in Nat /\ base \in RunStates
    BY <1>1, <1>3
  <1>8. PICK g : Loop(g, N, RunStates, base, step)
    BY <1>6, <1>7, LoopExists
  <1>9. /\ g \in [0 .. N -> RunStates] /\ g[0] = base
        /\ \A k \in 1 .. N : g[k] = Visit(g[k - 1], s[k])
    BY <1>5, <1>7, <1>8 DEF Loop
  <1> DEFINE Is(h) == h = [n \in 0 .. N |-> IF n = 0 THEN base ELSE Visit(h[n - 1], s[n])]
  <1>10. Is(g)
    BY <1>9
  <1>11. PICK f : f = CHOOSE h : Is(h)
    OBVIOUS
  <1>12. Rounds(s) = f
    BY <1>1, <1>3, <1>11 DEF Rounds
  <1>13. Is(f)
    <2> HIDE DEF Is
    <2> QED
      BY <1>10, <1>11
  <1>14. f[0] = base /\ \A k \in 1 .. N : f[k] = Visit(f[k - 1], s[k])
    BY <1>7, <1>13
  <1>15. f[0] = g[0] /\ SameSteps(N, f, g)
    BY <1>9, <1>14 DEF SameSteps
  <1>16. \A k \in 0 .. N : f[k] = g[k]
    BY <1>7, <1>15, LoopUnique
  <1>17. \A k \in 0 .. N : f[k] \in RunStates
    BY <1>9, <1>16
  <1> QED
    BY <1>1, <1>3, <1>12, <1>14, <1>17

Ascending(s, a, b) == \A i \in a .. b - 1 : s[i] < s[i + 1]

\* After k rounds: local is the ascending run that ends at k and cannot be longer,
Current(s, k, found, j) ==
  /\ j \in 1 .. k + 1
  /\ found.local = SubSeq(s, j, k)
  /\ Ascending(s, j, k)
  /\ j = 1 \/ s[j] <= s[j - 1]
  /\ k = 0 => found.prev = -1
  /\ k > 0 => j <= k /\ found.prev = s[k]

\* largest is a run among the first k numbers, if anything,
Found(s, k, found) ==
  found.largest = <<>> \/ \E a \in 1 .. k : \E b \in a .. k :
                            found.largest = SubSeq(s, a, b) /\ Ascending(s, a, b)

\* and none among them has a larger sum.
NoneBetter(s, k, found) ==
  \A a \in 1 .. k : \A b \in a .. k :
    Ascending(s, a, b) => accumulate(s)[b] - accumulate(s)[a - 1] <= sum(found.largest)

LEMMA OneMore ==
  ASSUME NEW s, Numeric(s), NEW k \in 1 .. Len(s), NEW j \in 1 .. k
  PROVE  Append(SubSeq(s, j, k - 1), s[k]) = SubSeq(s, j, k)
  <1>1. /\ Append(SubSeq(s, j, k - 1), s[k]) \in Seq(Int)
        /\ Len(Append(SubSeq(s, j, k - 1), s[k])) = k - j + 1
        /\ \A i \in 1 .. k - j + 1 : Append(SubSeq(s, j, k - 1), s[k])[i] = s[j + i - 1]
    <2>1. PICK t : t = SubSeq(s, j, k - 1)
      OBVIOUS
    <2>2. s[k] \in Int
      BY DEF Numeric
    <2>3. t \in Seq(Int) /\ Len(t) = k - j /\ \A i \in 1 .. k - j : t[i] = s[j + i - 1]
      BY <2>1 DEF Numeric
    <2>4. Len(s) \in Nat
      BY DEF Numeric
    <2>5. PICK u : u = Append(t, s[k])
      OBVIOUS
    <2>6. /\ u \in Seq(Int) /\ Len(u) = Len(t) + 1 /\ u[Len(t) + 1] = s[k]
          /\ \A i \in 1 .. Len(t) : u[i] = t[i]
      BY ONLY <2>2, <2>3, <2>5, AppendProperties
    <2>7. Len(u) = k - j + 1 /\ \A i \in 1 .. k - j + 1 : u[i] = s[j + i - 1]
      BY ONLY <2>3, <2>4, <2>6, k \in 1 .. Len(s), j \in 1 .. k, SMTT(60)
    <2> QED
      BY ONLY <2>1, <2>5, <2>6, <2>7, Zenon
  <1>2. /\ SubSeq(s, j, k) \in Seq(Int)
        /\ Len(SubSeq(s, j, k)) = k - j + 1
        /\ \A i \in 1 .. k - j + 1 : SubSeq(s, j, k)[i] = s[j + i - 1]
    <2>1. s \in Seq(Int)
      BY Zenon DEF Numeric
    <2> QED
      BY ONLY <2>1, k \in 1 .. Len(s), j \in 1 .. k, SMTT(60)
  <1> QED
    BY <1>1, <1>2, SeqEqual

LEMMA SumTyped ==
  ASSUME NEW s, Numeric(s)
  PROVE  sum(s) \in Int /\ (s = <<>> => sum(s) = 0)
  <1>1. Len(s) \in Nat /\ (s = <<>> => Len(s) = 0)
    BY DEF Numeric
  <1>2. Len(s) \in 0 .. Len(s)
    BY <1>1
  <1> QED
    BY <1>1, <1>2, Accumulated DEF sum

LEMMA CurrentKept ==
  ASSUME NEW s, Numeric(s), NEW k \in 1 .. Len(s), s[k] \in Nat,
         NEW found, NEW j, Current(s, k - 1, found, j)
  PROVE  Current(s, k, Visit(found, s[k]), IF s[k] <= found.prev THEN k ELSE j)
  <1>1. PICK g : g = Visit(found, s[k])
    OBVIOUS
  <1>2. /\ g.prev = s[k]
        /\ g.local = Append(IF s[k] <= found.prev THEN <<>> ELSE found.local, s[k])
    BY <1>1 DEF Visit
  <1>3. CASE s[k] <= found.prev
    <2>1. k - 1 > 0 /\ found.prev = s[k - 1]
      BY <1>3 DEF Current
    <2>2. g.local = SubSeq(s, k, k)
      <3>1. SubSeq(s, k, k - 1) = <<>>
        BY DEF Numeric
      <3>2. Append(SubSeq(s, k, k - 1), s[k]) = SubSeq(s, k, k)
        BY OneMore
      <3> QED
        BY <1>2, <1>3, <3>1, <3>2
    <2>3. Ascending(s, k, k)
      BY DEF Ascending
    <2> QED
      BY <1>1, <1>2, <1>3, <2>1, <2>2, <2>3 DEF Current
  <1>4. CASE ~(s[k] <= found.prev)
    <2>1. j \in 1 .. k /\ found.local = SubSeq(s, j, k - 1) /\ Ascending(s, j, k - 1)
      BY DEF Current
    <2>2. g.local = SubSeq(s, j, k)
      BY <1>2, <1>4, <2>1, OneMore
    <2>3. ASSUME NEW i \in j .. k - 1 PROVE s[i] < s[i + 1]
      <3>1. CASE i = k - 1
        <4>1. found.prev = s[i] /\ i + 1 = k /\ s[i] \in Int /\ s[k] \in Int
          BY <2>1, <3>1 DEF Current, Numeric
        <4> QED
          BY <1>4, <4>1
      <3>2. CASE i # k - 1
        BY <2>1, <3>2 DEF Ascending
      <3> QED
        BY <3>1, <3>2
    <2>4. Ascending(s, j, k)
      BY <2>3 DEF Ascending
    <2>5. j = 1 \/ s[j] <= s[j - 1]
      BY DEF Current
    <2> QED
      BY <1>1, <1>2, <1>4, <2>1, <2>2, <2>4, <2>5 DEF Current
  <1> QED
    BY <1>3, <1>4

LEMMA BestKept ==
  ASSUME NEW s, Numeric(s), \A i \in 1 .. Len(s) : s[i] \in Nat, NEW k \in 1 .. Len(s),
         NEW found \in RunStates, NEW j, Current(s, k - 1, found, j),
         Found(s, k - 1, found), NoneBetter(s, k - 1, found)
  PROVE  Found(s, k, Visit(found, s[k])) /\ NoneBetter(s, k, Visit(found, s[k]))
  <1>1. PICK g : g = Visit(found, s[k])
    OBVIOUS
  <1>2. PICK m : Current(s, k, g, m)
    BY <1>1, CurrentKept
  <1>3. /\ m \in 1 .. k /\ g.local = SubSeq(s, m, k) /\ Ascending(s, m, k)
        /\ m = 1 \/ s[m] <= s[m - 1]
    BY <1>2 DEF Current
  <1>4. g.largest = IF sum(g.local) > sum(found.largest) THEN g.local ELSE found.largest
    BY <1>1 DEF Visit
  <1>5. Len(s) \in Nat /\ k <= Len(s)
    BY DEF Numeric
  <1>6. found.largest \in Seq(Int) /\ sum(found.largest) \in Int
    BY SumTyped DEF RunStates, Numeric
  <1>7. PICK P \in [0 .. Len(s) -> Int] : P = accumulate(s)
    BY Accumulated
  <1>8. sum(g.local) = P[k] - P[m - 1]
    <2>1. m \in 1 .. Len(s) + 1 /\ k \in m - 1 .. Len(s)
      BY <1>3, <1>5
    <2> QED
      BY <1>3, <1>7, <2>1, SumOfPart
  <1>9. P[k] \in Int /\ P[m - 1] \in Int
    <2>1. k \in 0 .. Len(s) /\ m - 1 \in 0 .. Len(s)
      BY <1>3, <1>5
    <2> QED
      BY <2>1
  <1>10. PICK old : old = sum(found.largest) /\ old \in Int
    BY <1>6
  <1>11. PICK new : new = sum(g.largest) /\ new \in Int /\ old <= new /\ P[k] - P[m - 1] <= new
    <2>1. CASE sum(g.local) > old
      BY <1>4, <1>8, <1>9, <1>10, <2>1
    <2>2. CASE ~(sum(g.local) > old)
      BY <1>4, <1>8, <1>9, <1>10, <2>2
    <2> QED
      BY <2>1, <2>2
  <1>12. Found(s, k, g)
    <2>1. CASE g.largest = g.local
      <3>1. m \in 1 .. k /\ k \in m .. k
        BY <1>3
      <3> QED
        BY <1>3, <2>1, <3>1 DEF Found
    <2>2. CASE g.largest = found.largest
      <3>1. CASE found.largest = <<>>
        BY <2>2, <3>1 DEF Found
      <3>2. CASE found.largest # <<>>
        <4>1. PICK a \in 1 .. k - 1 : \E b \in a .. k - 1 :
                found.largest = SubSeq(s, a, b) /\ Ascending(s, a, b)
          BY <3>2 DEF Found
        <4>3. PICK b \in a .. k - 1 : found.largest = SubSeq(s, a, b) /\ Ascending(s, a, b)
          BY <4>1
        <4>2. a \in 1 .. k /\ b \in a .. k
          BY <4>1
        <4> QED
          BY <2>2, <4>2, <4>3 DEF Found
      <3> QED
        BY <3>1, <3>2
    <2> QED
      BY <1>4, <2>1, <2>2
  <1>13. ASSUME NEW a \in 1 .. k, NEW b \in a .. k, Ascending(s, a, b)
         PROVE  P[b] - P[a - 1] <= new
    <2>1. CASE b = k
      <3>1. m <= a
        <4> SUFFICES ASSUME a < m PROVE FALSE
          BY <1>3
        <4>1. m - 1 \in a .. b - 1 /\ (m - 1) + 1 = m /\ m \in 1 .. Len(s) /\ m - 1 \in 1 .. Len(s)
          BY <1>3, <1>5, <2>1
        <4>2. s[m - 1] < s[m]
          BY <1>13, <4>1 DEF Ascending
        <4>3. s[m] <= s[m - 1] /\ s[m] \in Nat /\ s[m - 1] \in Nat
          BY <1>3, <4>1
        <4> QED
          BY <4>2, <4>3
      <3>2. m - 1 \in 0 .. Len(s) /\ a - 1 \in m - 1 .. Len(s)
        BY <1>3, <1>5, <3>1
      <3>3. P[m - 1] <= P[a - 1]
        BY <1>5, <1>7, <3>2, PartialSumsGrow
      <3>4. P[a - 1] \in Int
        BY <1>5, <1>7
      <3> QED
        BY <1>9, <1>11, <2>1, <3>3, <3>4
    <2>2. CASE b # k
      <3>1. a \in 1 .. k - 1 /\ b \in a .. k - 1
        BY <2>2
      <3>2. P[b] - P[a - 1] <= old
        BY <1>7, <1>10, <1>13, <3>1 DEF NoneBetter
      <3>3. P[b] \in Int /\ P[a - 1] \in Int
        <4>1. b \in 0 .. Len(s) /\ a - 1 \in 0 .. Len(s)
          BY <1>5
        <4> QED
          BY <4>1
      <3> QED
        BY <1>10, <1>11, <3>2, <3>3
    <2> QED
      BY <2>1, <2>2
  <1>14. NoneBetter(s, k, g)
    BY <1>7, <1>11, <1>13 DEF NoneBetter
  <1> QED
    BY <1>1, <1>12, <1>14

\* What max_ascending_sum returns, for every sequence of numbers that are not
\* negative.
LEMMA LargestAscendingRun ==
  ASSUME NEW s, Numeric(s), \A i \in 1 .. Len(s) : s[i] \in Nat
  PROVE  \E found : /\ found = Rounds(s)[Len(s)]
                    /\ Found(s, Len(s), found) /\ NoneBetter(s, Len(s), found)
  <1>1. PICK N : N = Len(s) /\ N \in Nat
    BY DEF Numeric
  <1>2. PICK R : R = Rounds(s)
    OBVIOUS
  <1>3. /\ R[0] = [prev |-> -1, local |-> <<>>, largest |-> <<>>]
        /\ \A k \in 1 .. N : R[k] = Visit(R[k - 1], s[k])
        /\ \A k \in 0 .. N : R[k] \in RunStates
    BY <1>1, <1>2, RoundsDefined
  <1> DEFINE Good(k) == /\ \E j : Current(s, k, R[k], j)
                        /\ Found(s, k, R[k]) /\ NoneBetter(s, k, R[k])
             T == {k \in Nat : Good(k)}
  <1>4. 0 \in T
    <2>1. Current(s, 0, R[0], 1)
      <3>1. SubSeq(s, 1, 0) = <<>>
        BY DEF Numeric
      <3> QED
        BY <1>3, <3>1 DEF Current, Ascending
    <2>2. Found(s, 0, R[0]) /\ NoneBetter(s, 0, R[0])
      BY <1>3 DEF Found, NoneBetter
    <2> QED
      BY <2>1, <2>2
  <1>5. ASSUME NEW k \in 1 .. N, k - 1 \in T PROVE k \in T
    <2>1. PICK j : Current(s, k - 1, R[k - 1], j)
      BY <1>5
    <2>2. Found(s, k - 1, R[k - 1]) /\ NoneBetter(s, k - 1, R[k - 1])
      BY <1>5
    <2>3. R[k] = Visit(R[k - 1], s[k]) /\ R[k - 1] \in RunStates /\ s[k] \in Nat
          /\ k \in 1 .. Len(s)
      <3>1. k - 1 \in 0 .. N
        BY <1>1
      <3> QED
        BY <1>1, <1>3, <3>1
    <2> HIDE DEF T
    <2>4. Current(s, k, R[k], IF s[k] <= R[k - 1].prev THEN k ELSE j)
      BY <2>1, <2>3, CurrentKept
    <2>5. Found(s, k, R[k]) /\ NoneBetter(s, k, R[k])
      BY <2>1, <2>2, <2>3, BestKept
    <2>6. Good(k)
      BY <2>4, <2>5
    <2> HIDE DEF Good
    <2> QED
      BY <2>6 DEF T
  <1>6. N \in T
    <2>1. Kept(N, T)
      BY <1>5 DEF Kept
    <2> HIDE DEF T
    <2> QED
      BY <1>1, <1>4, <2>1, LoopInduction
  <1> QED
    BY <1>1, <1>2, <1>6

LEMMA RunIsLargest ==
  ASSUME seq \in Seq(Numbers)
  PROVE  LargestRun
  <1>1. Numeric(seq) /\ (\A i \in 1 .. Len(seq) : seq[i] \in Nat) /\ Len(seq) \in Nat
    <2>1. Len(seq) \in Nat /\ \A i \in 1 .. Len(seq) : seq[i] \in Numbers
      OBVIOUS
    <2>2. \A i \in 1 .. Len(seq) : seq[i] \in Nat
      BY <2>1, NumbersAssumption
    <2>3. Numbers \subseteq Int
      BY NumbersAssumption
    <2>4. seq \in Seq(Int)
      BY <2>3, SeqMonotonic
    <2> QED
      BY <2>1, <2>2, <2>4 DEF Numeric
  <1>2. PICK found : /\ found = Rounds(seq)[Len(seq)]
                     /\ Found(seq, Len(seq), found) /\ NoneBetter(seq, Len(seq), found)
    BY <1>1, LargestAscendingRun
  <1>3. PICK best : best = found.largest /\ max_ascending_sum(seq) = best
    BY <1>2 DEF max_ascending_sum
  \* Ascends speaks of a run's own numbers, Ascending of their places in seq.
  <1>4. ASSUME NEW a \in 1 .. Len(seq), NEW b \in 1 .. Len(seq), NEW run, run = SubSeq(seq, a, b)
        PROVE  Ascends(run) <=> Ascending(seq, a, b)
    <2>1. /\ a <= b => Len(run) = b - a + 1
          /\ a > b => Len(run) = 0
          /\ \A i \in 1 .. Len(run) : run[i] = seq[a + i - 1]
      BY <1>1, <1>4 DEF Numeric
    <2>2. CASE a > b
      BY <2>1, <2>2 DEF Ascends, Ascending
    <2>3. CASE a <= b
      <3>1. ASSUME Ascends(run), NEW i \in a .. b - 1 PROVE seq[i] < seq[i + 1]
        <4>0. Len(run) = b - a + 1 /\ a \in Int /\ b \in Int
          BY <1>1, <2>1, <2>3
        <4>k. PICK k \in Int : k = i - a + 1
          BY <4>0
        <4>1. /\ k \in 1 .. Len(run) - 1 /\ a + k - 1 = i
              /\ k \in 1 .. Len(run) /\ k + 1 \in 1 .. Len(run)
              /\ a + (k + 1) - 1 = i + 1
          BY <4>0, <4>k
        <4>2. run[k] < run[k + 1]
          BY <3>1, <4>1 DEF Ascends
        <4>3. run[k] = seq[i] /\ run[k + 1] = seq[i + 1]
          BY <2>1, <4>1, SMTT(60)
        <4> QED
          BY <4>2, <4>3
      <3>2. ASSUME Ascending(seq, a, b), NEW k \in 1 .. Len(run) - 1 PROVE run[k] < run[k + 1]
        <4>n. PICK n \in Int : n = Len(run) /\ n = b - a + 1 /\ a \in Int /\ b \in Int
          BY <1>1, <2>1, <2>3
        <4>1. PICK i \in Int : i = a + k - 1 /\ i \in a .. b - 1 /\ k \in 1 .. Len(run)
                       /\ k + 1 \in 1 .. Len(run) /\ a + (k + 1) - 1 = i + 1
          BY ONLY <4>n, k \in 1 .. Len(run) - 1
        <4>2. seq[i] < seq[i + 1]
          BY <3>2, <4>1 DEF Ascending
        <4> QED
          BY <2>1, <4>1, <4>2
      <3> QED
        BY <3>1, <3>2 DEF Ascends, Ascending
    <2> QED
      BY <2>2, <2>3
  <1>5. best = <<>> \/ \E a, b \in 1 .. Len(seq) : best = SubSeq(seq, a, b) /\ Ascending(seq, a, b)
    <2>1. CASE best # <<>>
      <3>0. PICK a \in 1 .. Len(seq) : \E b \in a .. Len(seq) :
              best = SubSeq(seq, a, b) /\ Ascending(seq, a, b)
        BY <1>2, <1>3, <2>1 DEF Found
      <3>1. PICK b \in a .. Len(seq) : best = SubSeq(seq, a, b) /\ Ascending(seq, a, b)
        BY <3>0
      <3>2. b \in 1 .. Len(seq)
        BY <1>1
      <3> QED
        BY <3>1, <3>2
    <2> QED
      BY <2>1
  <1>6. (best = <<>> \/ best \in Runs) /\ Ascends(best)
    <2>1. CASE best = <<>>
      BY <2>1 DEF Ascends
    <2>2. CASE best # <<>>
      BY <1>4, <1>5, <2>2 DEF Runs
    <2> QED
      BY <2>1, <2>2
  <1>7. sum(best) \in Int /\ sum(best) >= 0
    <2>1. CASE best = <<>>
      <3>1. Numeric(best)
        BY <2>1 DEF Numeric
      <3> QED
        BY <2>1, <3>1, SumTyped
    <2>2. CASE best # <<>>
      <3>0. PICK a \in 1 .. Len(seq) : \E b \in a .. Len(seq) : best = SubSeq(seq, a, b)
        BY <1>2, <1>3, <2>2 DEF Found
      <3>1. PICK b \in a .. Len(seq) : best = SubSeq(seq, a, b)
        BY <3>0
      <3>2. a \in 1 .. Len(seq) + 1 /\ b \in a - 1 .. Len(seq) /\ a - 1 \in 0 .. Len(seq)
            /\ b \in 0 .. Len(seq)
        BY <1>1
      <3>3. sum(best) = accumulate(seq)[b] - accumulate(seq)[a - 1]
        BY <1>1, <3>1, <3>2, SumOfPart
      <3>4. accumulate(seq)[a - 1] <= accumulate(seq)[b]
        BY <1>1, <3>2, PartialSumsGrow
      <3>5. accumulate(seq)[a - 1] \in Int /\ accumulate(seq)[b] \in Int
        BY <1>1, <3>2, Accumulated
      <3> QED
        BY <3>3, <3>4, <3>5
    <2> QED
      BY <2>1, <2>2
  <1>8. ASSUME NEW run \in Runs, Ascends(run) PROVE sum(run) <= sum(best)
    <2>1. PICK a \in 1 .. Len(seq), b \in 1 .. Len(seq) : run = SubSeq(seq, a, b)
      BY DEF Runs
    <2>2. CASE a <= b
      <3>1. Ascending(seq, a, b)
        BY <1>4, <1>8, <2>1
      <3>2. a \in 1 .. Len(seq) /\ b \in a .. Len(seq)
            /\ a \in 1 .. Len(seq) + 1 /\ b \in a - 1 .. Len(seq)
        BY <1>1, <2>2
      <3>3. sum(run) = accumulate(seq)[b] - accumulate(seq)[a - 1]
        BY <1>1, <2>1, <3>2, SumOfPart
      <3>4. accumulate(seq)[b] - accumulate(seq)[a - 1] <= sum(best)
        BY <1>2, <1>3, <3>1, <3>2 DEF NoneBetter
      <3> QED
        BY <3>3, <3>4
    <2>3. CASE a > b
      <3>1. run = <<>> /\ Numeric(run)
        BY <1>1, <2>1, <2>3 DEF Numeric
      <3>2. sum(run) = 0
        BY <3>1, SumTyped
      <3> QED
        BY <1>7, <3>2
    <2> QED
      BY <2>2, <2>3
  <1> QED
    BY <1>3, <1>6, <1>8 DEF LargestRun

-----------------------------------------------------------------------------
(* What a traversal or a printing makes of a tree: a and b tell the nodes     *)
(* below each node                                                             *)

Lower(N, a) == \A n \in 1 .. N : a[n] \in 0 .. n - 1

NestedIs(g, N, a, b) ==
  g = [n \in 0 .. N |-> IF n = 0 THEN <<>> ELSE <<n, g[a[n]], g[b[n]]>>]

LEMMA NestedExists ==
  ASSUME NEW N \in Nat, NEW a, NEW b, Lower(N, a), Lower(N, b)
  PROVE  \E g : NestedIs(g, N, a, b)
  <1> DEFINE T == {m \in Nat : \E g : NestedIs(g, m, a, b)}
  <1>1. 0 \in T
    <2> DEFINE g == [n \in 0 .. 0 |-> <<>>]
    <2>1. NestedIs(g, 0, a, b)
      BY DEF NestedIs
    <2> HIDE DEF g
    <2> QED
      BY <2>1
  <1>2. ASSUME NEW m \in 1 .. N, m - 1 \in T PROVE m \in T
    <2>1. PICK g : NestedIs(g, m - 1, a, b)
      BY <1>2
    <2>2. PICK h : h = [n \in 0 .. m |-> IF n = m THEN <<m, g[a[m]], g[b[m]]>> ELSE g[n]]
      OBVIOUS
    <2>3. \A n \in 0 .. m - 1 : h[n] = g[n] /\ n \in 0 .. m
      BY <2>2
    <2>4. ASSUME NEW n \in 0 .. m
          PROVE  h[n] = IF n = 0 THEN <<>> ELSE <<n, h[a[n]], h[b[n]]>>
      <3>1. CASE n = 0
        <4>1. n \in 0 .. m - 1
          BY <3>1
        <4> QED
          BY <2>1, <2>3, <3>1, <4>1 DEF NestedIs
      <3>2. CASE n # 0
        <4>1. a[n] \in 0 .. m - 1 /\ b[n] \in 0 .. m - 1
          <5>1. n \in 1 .. N /\ n <= m
            BY <3>2
          <5>2. a[n] \in 0 .. n - 1 /\ b[n] \in 0 .. n - 1
            BY <5>1 DEF Lower
          <5> QED
            BY <5>1, <5>2
        <4>2. h[a[n]] = g[a[n]] /\ h[b[n]] = g[b[n]]
          BY <2>3, <4>1
        <4>3. h[n] = <<n, g[a[n]], g[b[n]]>>
          <5>1. CASE n = m
            BY <2>2, <5>1
          <5>2. CASE n # m
            <6>1. n \in 0 .. m - 1
              BY <5>2
            <6> QED
              BY <2>1, <2>3, <3>2, <6>1 DEF NestedIs
          <5> QED
            BY <5>1, <5>2
        <4> QED
          BY <3>2, <4>2, <4>3
      <3> QED
        BY <3>1, <3>2
    <2>5. NestedIs(h, m, a, b)
      BY <2>2, <2>4 DEF NestedIs
    <2> QED
      BY <2>5
  <1>3. N \in T
    <2>1. Kept(N, T)
      BY <1>2 DEF Kept
    <2> HIDE DEF T
    <2> QED
      BY <1>1, <2>1, LoopInduction
  <1> QED
    BY <1>3

LEMMA NestedUnique ==
  ASSUME NEW N \in Nat, NEW a, NEW b, Lower(N, a), Lower(N, b),
         NEW f, NestedIs(f, N, a, b), NEW g, NestedIs(g, N, a, b)
  PROVE  \A n \in 0 .. N : f[n] = g[n]
  <1> DEFINE T == {n \in Nat : n <= N => f[n] = g[n]}
  <1>1. ASSUME NEW n \in Nat, \A m \in Nat : m < n => m \in T PROVE n \in T
    <2>1. CASE n = 0
      BY <2>1 DEF NestedIs
    <2>2. CASE n \in 1 .. N
      <3>1. a[n] \in Nat /\ a[n] < n /\ b[n] \in Nat /\ b[n] < n
        BY <2>2 DEF Lower
      <3>2. f[a[n]] = g[a[n]] /\ f[b[n]] = g[b[n]]
        BY <1>1, <2>2, <3>1
      <3>3. n \in 0 .. N /\ n # 0
        BY <2>2
      <3>4. f[n] = <<n, f[a[n]], f[b[n]]>>
        BY <3>3 DEF NestedIs
      <3>5. g[n] = <<n, g[a[n]], g[b[n]]>>
        BY <3>3 DEF NestedIs
      <3> QED
        BY <3>2, <3>4, <3>5
    <2> QED
      BY <2>1, <2>2
  <1>2. Nat \subseteq T
    <2> HIDE DEF T
    <2> QED
      BY <1>1, StrongInduction
  <1> QED
    BY <1>2

InOrderIs(g, N, a, b) ==
  g = [n \in 0 .. N |-> IF n = 0 THEN <<>> ELSE g[a[n]] \o <<n>> \o g[b[n]]]

LEMMA InOrderExists ==
  ASSUME NEW N \in Nat, NEW a, NEW b, Lower(N, a), Lower(N, b)
  PROVE  \E g : InOrderIs(g, N, a, b)
  <1> DEFINE T == {m \in Nat : \E g : InOrderIs(g, m, a, b)}
  <1>1. 0 \in T
    <2> DEFINE g == [n \in 0 .. 0 |-> <<>>]
    <2>1. InOrderIs(g, 0, a, b)
      BY DEF InOrderIs
    <2> HIDE DEF g
    <2> QED
      BY <2>1
  <1>2. ASSUME NEW m \in 1 .. N, m - 1 \in T PROVE m \in T
    <2>1. PICK g : InOrderIs(g, m - 1, a, b)
      BY <1>2
    <2>2. PICK h : h = [n \in 0 .. m |-> IF n = m THEN g[a[m]] \o <<m>> \o g[b[m]] ELSE g[n]]
      OBVIOUS
    <2>3. \A n \in 0 .. m - 1 : h[n] = g[n] /\ n \in 0 .. m
      BY <2>2
    <2>4. ASSUME NEW n \in 0 .. m
          PROVE  h[n] = IF n = 0 THEN <<>> ELSE h[a[n]] \o <<n>> \o h[b[n]]
      <3>1. CASE n = 0
        <4>1. n \in 0 .. m - 1
          BY <3>1
        <4> QED
          BY <2>1, <2>3, <3>1, <4>1 DEF InOrderIs
      <3>2. CASE n # 0
        <4>1. a[n] \in 0 .. m - 1 /\ b[n] \in 0 .. m - 1
          <5>1. n \in 1 .. N /\ n <= m
            BY <3>2
          <5>2. a[n] \in 0 .. n - 1 /\ b[n] \in 0 .. n - 1
            BY <5>1 DEF Lower
          <5> QED
            BY <5>1, <5>2
        <4>2. h[a[n]] = g[a[n]] /\ h[b[n]] = g[b[n]]
          BY <2>3, <4>1
        <4>3. h[n] = g[a[n]] \o <<n>> \o g[b[n]]
          <5>1. CASE n = m
            BY <2>2, <5>1
          <5>2. CASE n # m
            <6>1. n \in 0 .. m - 1
              BY <5>2
            <6> QED
              BY <2>1, <2>3, <3>2, <6>1 DEF InOrderIs
          <5> QED
            BY <5>1, <5>2
        <4> QED
          BY <3>2, <4>2, <4>3
      <3> QED
        BY <3>1, <3>2
    <2>5. InOrderIs(h, m, a, b)
      BY <2>2, <2>4 DEF InOrderIs
    <2> QED
      BY <2>5
  <1>3. N \in T
    <2>1. Kept(N, T)
      BY <1>2 DEF Kept
    <2> HIDE DEF T
    <2> QED
      BY <1>1, <2>1, LoopInduction
  <1> QED
    BY <1>3

-----------------------------------------------------------------------------
NodeSeq(s) == s \in Seq(Nat)

LEMMA ReverseIs ==
  ASSUME NEW s, NodeSeq(s), NEW r, r = Reverse(s)
  PROVE  /\ NodeSeq(r) /\ Len(r) = Len(s) /\ Len(s) \in Nat
         /\ \A i \in 1 .. Len(s) : r[i] = s[Len(s) - i + 1]
  BY DEF Reverse, NodeSeq

Joined(u, s, t) ==
  /\ NodeSeq(u) /\ Len(u) = Len(s) + Len(t)
  /\ \A i \in 1 .. Len(u) : u[i] = IF i <= Len(s) THEN s[i] ELSE t[i - Len(s)]

LEMMA ConcatIs ==
  ASSUME NEW s, NodeSeq(s), NEW t, NodeSeq(t), NEW u, u = s \o t
  PROVE  Joined(u, s, t)
  BY ConcatProperties DEF NodeSeq, Joined

LEMMA ReverseConcat ==
  ASSUME NEW s, NodeSeq(s), NEW t, NodeSeq(t)
  PROVE  NodeSeq(s \o t) /\ NodeSeq(Reverse(s)) /\ Reverse(s \o t) = Reverse(t) \o Reverse(s)
  <1>1. PICK ls \in Nat, lt \in Nat : ls = Len(s) /\ lt = Len(t)
    BY DEF NodeSeq
  <1>2. PICK rs, rt, u : rs = Reverse(s) /\ rt = Reverse(t) /\ u = s \o t
    OBVIOUS
  <1>3. /\ NodeSeq(rs) /\ Len(rs) = Len(s)
        /\ \A i \in 1 .. Len(s) : rs[i] = s[Len(s) - i + 1]
    BY <1>2, ReverseIs
  <1>4. /\ NodeSeq(rt) /\ Len(rt) = Len(t)
        /\ \A i \in 1 .. Len(t) : rt[i] = t[Len(t) - i + 1]
    BY <1>2, ReverseIs
  <1>5. /\ NodeSeq(u) /\ Len(u) = Len(s) + Len(t)
        /\ \A i \in 1 .. Len(u) : u[i] = IF i <= Len(s) THEN s[i] ELSE t[i - Len(s)]
    <2>1. Joined(u, s, t)
      BY <1>2, ConcatIs
    <2> QED
      BY <2>1 DEF Joined
  <1>r. PICK ru, v : ru = Reverse(u) /\ v = rt \o rs
    OBVIOUS
  <1>6. /\ NodeSeq(ru) /\ Len(ru) = Len(u)
        /\ \A i \in 1 .. Len(u) : ru[i] = u[Len(u) - i + 1]
    BY <1>5, <1>r, ReverseIs
  <1>v. /\ NodeSeq(v) /\ Len(v) = Len(rt) + Len(rs)
        /\ \A i \in 1 .. Len(v) : v[i] = IF i <= Len(rt) THEN rt[i] ELSE rs[i - Len(rt)]
    <2>1. Joined(v, rt, rs)
      BY <1>3, <1>4, <1>r, ConcatIs
    <2> QED
      BY <2>1 DEF Joined
  <1>7. ASSUME NEW i \in 1 .. Len(ru) PROVE ru[i] = v[i]
    <2>0. Len(u) = ls + lt /\ Len(v) = ls + lt /\ i \in 1 .. ls + lt
          /\ i \in 1 .. Len(u) /\ i \in 1 .. Len(v)
      BY <1>1, <1>3, <1>4, <1>5, <1>6, <1>v
    <2>i. ru[i] = u[ls + lt - i + 1]
      <3>1. ru[i] = u[Len(u) - i + 1]
        BY ONLY <1>6, <2>0, Zenon
      <3> QED
        BY ONLY <2>0, <3>1, SMTT(60)
    <2>1. CASE i <= lt
      <3>1. PICK j \in Int : j = ls + lt - i + 1
        BY <2>0
      <3>2. ~(j <= ls) /\ j \in 1 .. ls + lt /\ j - ls = lt - i + 1
        BY <2>0, <2>1, <3>1
      <3>3. u[j] = t[j - ls]
        BY <1>1, <1>5, <2>0, <3>2
      <3>4. v[i] = rt[i] /\ rt[i] = t[lt - i + 1]
        BY <1>1, <1>4, <1>v, <2>0, <2>1
      <3> QED
        BY <2>i, <3>1, <3>2, <3>3, <3>4
    <2>2. CASE ~(i <= lt)
      <3>1. PICK j \in Int : j = ls + lt - i + 1
        BY <2>0
      <3>k. PICK k \in Int : k = i - lt
        BY <2>0
      <3>2. j <= ls /\ j \in 1 .. ls + lt /\ k \in 1 .. ls /\ ls - k + 1 = j
        BY <2>0, <2>2, <3>1, <3>k
      <3>3. u[j] = s[j]
        BY <1>1, <1>5, <2>0, <3>2
      <3>4. v[i] = rs[k]
        BY <1>1, <1>4, <1>v, <2>0, <2>2, <3>k
      <3>5. rs[k] = s[ls - k + 1]
        BY <1>1, <1>3, <3>2
      <3> QED
        BY <2>i, <3>1, <3>2, <3>3, <3>4, <3>5
    <2> QED
      BY <2>1, <2>2
  <1>8. ru = v
    <2>1. Len(ru) = Len(v)
      BY <1>1, <1>3, <1>4, <1>5, <1>6, <1>v
    <2> QED
      BY <1>6, <1>v, <1>7, <2>1, SeqEqual DEF NodeSeq
  <1> QED
    BY <1>2, <1>3, <1>5, <1>r, <1>8

LEMMA Single ==
  ASSUME NEW n \in Nat
  PROVE  NodeSeq(<<n>>) /\ Reverse(<<n>>) = <<n>>
  <1>1. NodeSeq(<<n>>) /\ Len(<<n>>) = 1 /\ <<n>>[1] = n
    BY DEF NodeSeq
  <1>2. PICK r : /\ r = Reverse(<<n>>) /\ NodeSeq(r) /\ Len(r) = 1
                 /\ \A i \in 1 .. 1 : r[i] = <<n>>[1 - i + 1]
    BY <1>1, ReverseIs
  <1>3. \A i \in 1 .. 1 : r[i] = <<n>>[i]
    BY <1>1, <1>2
  <1> QED
    BY <1>1, <1>2, <1>3, SeqEqual DEF NodeSeq

LEMMA ReverseNothing == NodeSeq(<<>>) /\ Reverse(<<>>) = <<>>
  BY DEF NodeSeq, Reverse

\* In order from the other side.
LEMMA InOrderReversed ==
  ASSUME NEW N \in Nat, NEW a, NEW b, Lower(N, a), Lower(N, b),
         NEW f, InOrderIs(f, N, a, b), NEW g, InOrderIs(g, N, b, a)
  PROVE  \A n \in 0 .. N : NodeSeq(f[n]) /\ g[n] = Reverse(f[n])
  <1> DEFINE T == {n \in Nat : n <= N => NodeSeq(f[n]) /\ g[n] = Reverse(f[n])}
  <1>1. ASSUME NEW n \in Nat, \A m \in Nat : m < n => m \in T PROVE n \in T
    <2>1. CASE n = 0
      <3>1. f[n] = <<>> /\ g[n] = <<>>
        BY <2>1 DEF InOrderIs
      <3> QED
        BY <3>1, ReverseNothing
    <2>2. CASE n \in 1 .. N
      <3>1. a[n] \in Nat /\ a[n] < n /\ b[n] \in Nat /\ b[n] < n
        BY <2>2 DEF Lower
      <3>2. PICK x, y : x = f[a[n]] /\ y = f[b[n]]
        OBVIOUS
      <3>3. NodeSeq(x) /\ NodeSeq(y) /\ g[a[n]] = Reverse(x) /\ g[b[n]] = Reverse(y)
        BY <1>1, <2>2, <3>1, <3>2
      <3>4. n \in 0 .. N /\ n # 0
        BY <2>2
      <3>5. f[n] = x \o <<n>> \o y
        BY <3>2, <3>4 DEF InOrderIs
      <3>6. g[n] = Reverse(y) \o <<n>> \o Reverse(x)
        BY <3>3, <3>4 DEF InOrderIs
      <3>7. Reverse((x \o <<n>>) \o y) = Reverse(y) \o Reverse(x \o <<n>>)
            /\ NodeSeq(x \o <<n>>) /\ NodeSeq((x \o <<n>>) \o y)
        BY <3>3, Single, ReverseConcat
      <3>8. Reverse(x \o <<n>>) = <<n>> \o Reverse(x)
        BY <3>3, Single, ReverseConcat
      <3>9. Reverse(y) \o (<<n>> \o Reverse(x)) = (Reverse(y) \o <<n>>) \o Reverse(x)
        <4>1. NodeSeq(Reverse(x)) /\ NodeSeq(Reverse(y)) /\ NodeSeq(<<n>>)
          BY <3>3, ReverseConcat, Single
        <4> QED
          BY <4>1, ConcatAssociative, SMTT(60) DEF NodeSeq
      <3>10. NodeSeq(f[n]) /\ g[n] = Reverse(f[n])
        BY <3>5, <3>6, <3>7, <3>8, <3>9
      <3> QED
        BY <3>10
    <2> QED
      BY <2>1, <2>2
  <1>2. Nat \subseteq T
    <2> HIDE DEF T
    <2> QED
      BY <1>1, StrongInduction
  <1> QED
    BY <1>2

LEMMA PrintDefined ==
  ASSUME NEW mem, NEW N \in Nat, N = Len(mem), NEW a, NEW b, Lower(N, a), Lower(N, b),
         \A n \in 1 .. N : mem[n].left = a[n] /\ mem[n].right = b[n]
  PROVE  NestedIs(print_node(mem), N, a, b) /\ NestedIs(immutable_flip(mem), N, b, a)
  <1> DEFINE Is(g) == g = [n \in 0 .. N |->
                        IF n = 0 THEN <<>> ELSE <<n, g[mem[n].left], g[mem[n].right]>>]
             Turn(g) == g = [n \in 0 .. N |->
                        IF n = 0 THEN <<>> ELSE <<n, g[mem[n].right], g[mem[n].left]>>]
  <1>1. ASSUME NEW g PROVE Is(g) <=> NestedIs(g, N, a, b)
    BY DEF NestedIs
  <1>2. ASSUME NEW g PROVE Turn(g) <=> NestedIs(g, N, b, a)
    BY DEF NestedIs
  <1>3. PICK f, h : f = (CHOOSE g : Is(g)) /\ h = (CHOOSE g : Turn(g))
    OBVIOUS
  <1>4. print_node(mem) = f /\ immutable_flip(mem) = h
    BY <1>3 DEF print_node, immutable_flip
  <1> HIDE DEF Is, Turn
  <1>5. Is(f) /\ Turn(h)
    <2>1. (\E g : Is(g)) /\ (\E g : Turn(g))
      BY <1>1, <1>2, NestedExists
    <2> QED
      BY <1>3, <2>1
  <1> QED
    BY <1>1, <1>2, <1>4, <1>5

LEMMA OrderDefined ==
  ASSUME NEW mem, NEW N \in Nat, N = Len(mem), NEW a, NEW b, Lower(N, a), Lower(N, b),
         \A n \in 1 .. N : mem[n].left = a[n] /\ mem[n].right = b[n]
  PROVE  InOrderIs(in_order_traversal(mem), N, a, b)
  <1> DEFINE Is(g) == g = [n \in 0 .. N |->
                        IF n = 0 THEN <<>> ELSE g[mem[n].left] \o <<n>> \o g[mem[n].right]]
  <1>1. ASSUME NEW g PROVE Is(g) <=> InOrderIs(g, N, a, b)
    <2>1. ASSUME NEW n \in 0 .. N
          PROVE  (IF n = 0 THEN <<>> ELSE g[mem[n].left] \o <<n>> \o g[mem[n].right])
                   = (IF n = 0 THEN <<>> ELSE g[a[n]] \o <<n>> \o g[b[n]])
      <3>1. n = 0 \/ n \in 1 .. N
        OBVIOUS
      <3>2. n \in 1 .. N => mem[n].left = a[n] /\ mem[n].right = b[n]
        OBVIOUS
      <3> QED
        BY <3>1, <3>2, Zenon
    <2>2. [n \in 0 .. N |-> IF n = 0 THEN <<>> ELSE g[mem[n].left] \o <<n>> \o g[mem[n].right]]
            = [n \in 0 .. N |-> IF n = 0 THEN <<>> ELSE g[a[n]] \o <<n>> \o g[b[n]]]
      BY ONLY <2>1, Zenon
    <2> QED
      BY <2>2, Zenon DEF InOrderIs
  <1>3. PICK f : f = (CHOOSE g : Is(g))
    OBVIOUS
  <1>4. in_order_traversal(mem) = f
    BY <1>3 DEF in_order_traversal
  <1> HIDE DEF Is
  <1>5. Is(f)
    <2>1. \E g : Is(g)
      BY <1>1, InOrderExists
    <2> QED
      BY <1>3, <2>1
  <1> QED
    BY <1>1, <1>4, <1>5

-----------------------------------------------------------------------------
Under(mem, n, c) == mem[n].left = c \/ mem[n].right = c

\* The nodes form trees: what hangs under a node was made before it, and hangs there
\* only.
Shape(mem) ==
  /\ mem \in Seq([left : Nat, right : Nat])
  /\ \A n \in 1 .. Len(mem) : mem[n].left < n /\ mem[n].right < n
  /\ \A n \in 1 .. Len(mem) : mem[n].left = mem[n].right => mem[n].left = 0
  /\ \A m, n \in 1 .. Len(mem), c \in Nat \ {0} : Under(mem, m, c) /\ Under(mem, n, c) => m = n

OneRoot(mem) ==
  /\ Len(mem) > 0
  /\ \A n \in 1 .. Len(mem) - 1 : \E p \in 1 .. Len(mem) : Under(mem, p, n)

Called(cs, c) == \E i \in 1 .. Len(cs) : cs[i] = c

\* The nodes of D are turned round, and flip has been called for exactly these, the
\* nodes under them and the root: once for each.
Turning(D, mem, bef, cs) ==
  /\ D \subseteq 1 .. Len(bef)
  /\ mem \in Seq([left : Nat, right : Nat]) /\ Len(mem) = Len(bef)
  /\ \A n \in 1 .. Len(bef) : mem[n] = IF n \in D THEN Swapped(bef[n]) ELSE bef[n]
  /\ cs \in Seq(0 .. Len(bef))
  /\ \A i \in 1 .. Len(cs) : cs[i] \notin D
  /\ \A i, j \in 1 .. Len(cs) : cs[i] = cs[j] /\ cs[i] # 0 => i = j
  /\ \A n \in 1 .. Len(bef) : n \in D \/ Called(cs, n)
                                <=> n = Len(bef) \/ \E p \in D : Under(bef, p, n)

LEMMA AllTurned ==
  ASSUME NEW D, NEW mem, NEW bef, Turning(D, mem, bef, <<>>), Shape(bef), OneRoot(bef)
  PROVE  D = 1 .. Len(bef)
  <1>1. PICK N \in Nat : N = Len(bef)
    BY DEF Shape
  <1>2. D \subseteq 1 .. N /\ \A n \in 1 .. N : (n \in D <=> n = N \/ \E p \in D : Under(bef, p, n))
    BY <1>1 DEF Turning, Called
  <1> DEFINE T == {k \in Nat : k < N => N - k \in D}
  <1>3. ASSUME NEW k \in Nat, \A m \in Nat : m < k => m \in T PROVE k \in T
    <2>1. CASE k = 0
      BY <1>2, <2>1
    <2>2. CASE k > 0 /\ k < N
      <3>1. PICK n \in 1 .. N - 1 : n = N - k
        BY <2>2
      <3>2. PICK p \in 1 .. N : Under(bef, p, n)
        BY <1>1 DEF OneRoot
      <3>3. n < p
        <4>1. bef[p].left < p /\ bef[p].right < p
          BY <1>1 DEF Shape
        <4> QED
          BY <3>2, <4>1 DEF Under
      <3>4. PICK m \in Nat : m = N - p /\ m < k /\ m < N /\ N - m = p
        BY <3>1, <3>3
      <3>5. p \in D
        BY <1>3, <3>4
      <3> QED
        BY <1>2, <3>1, <3>2, <3>5
    <2> QED
      BY <2>1, <2>2
  <1>4. Nat \subseteq T
    <2> HIDE DEF T
    <2> QED
      BY <1>3, StrongInduction
  <1>5. ASSUME NEW n \in 1 .. N PROVE n \in D
    <2>1. PICK k \in Nat : k = N - n /\ k < N /\ N - k = n
      OBVIOUS
    <2> QED
      BY <1>4, <2>1
  <1> QED
    BY <1>1, <1>2, <1>5

LEMMA ItemsAre ==
  ASSUME NEW S, NEW s \in Seq(S)
  PROVE  Len(s) \in Nat /\ \A i \in 1 .. Len(s) : s[i] \in S
  OBVIOUS

Changed(t, s, n, e) ==
  Len(t) = Len(s) /\ t[n] = e /\ \A m \in 1 .. Len(s) : m # n => t[m] = s[m]

LEMMA ExceptIs ==
  ASSUME NEW S, NEW s \in Seq(S), NEW n \in 1 .. Len(s), NEW e \in S
  PROVE  [s EXCEPT ![n] = e] \in Seq(S) /\ Changed([s EXCEPT ![n] = e], s, n, e)
  BY DEF Changed

LEMMA FlipNode ==
  ASSUME NEW D, NEW mem, NEW bef, NEW cs, Turning(D, mem, bef, cs), Shape(bef), OneRoot(bef),
         Len(cs) > 0, NEW n, n = cs[1], n # 0,
         NEW mem2, mem2 = [mem EXCEPT ![n] = Swapped(mem[n])],
         NEW cs2, cs2 \in Seq(0 .. Len(bef)), Len(cs2) = Len(cs) + 1,
         cs2[1] = mem2[n].left, cs2[2] = mem2[n].right,
         \A i \in 3 .. Len(cs) + 1 : cs2[i] = cs[i - 1]
  PROVE  Turning(D \cup {n}, mem2, bef, cs2)
  <1>1. PICK N \in Nat, M \in Nat : N = Len(bef) /\ M = Len(cs) /\ M > 0
    <2>1. Len(bef) \in Nat
      <3>1. bef \in Seq([left : Nat, right : Nat])
        BY Zenon DEF Shape
      <3> QED
        BY ONLY <3>1, ItemsAre
    <2>2. Len(cs) \in Nat
      <3>1. cs \in Seq(0 .. Len(bef))
        BY Zenon DEF Turning
      <3> QED
        BY ONLY <3>1, ItemsAre
    <2> QED
      BY ONLY <2>1, <2>2, Len(cs) > 0, Zenon
  <1>2. n \in 1 .. N /\ n \notin D
    <2>1. cs \in Seq(0 .. N) /\ \A i \in 1 .. M : cs[i] \notin D
      BY <1>1, Zenon DEF Turning
    <2>2. 1 \in 1 .. M
      BY ONLY <1>1
    <2>3. cs[1] \in 0 .. N
      BY ONLY <1>1, <2>1, <2>2, ItemsAre
    <2> QED
      BY ONLY <2>1, <2>2, <2>3, N \in Nat, n = cs[1], n # 0
  <1>3. mem[n] = bef[n] /\ bef[n] \in [left : Nat, right : Nat]
    <2>1. bef \in Seq([left : Nat, right : Nat])
      BY DEF Shape
    <2>2. bef[n] \in [left : Nat, right : Nat]
      BY <1>1, <1>2, <2>1, ItemsAre
    <2>3. mem[n] = bef[n]
      BY <1>1, <1>2 DEF Turning
    <2> QED
      BY <2>2, <2>3
  <1>4. PICK l, r : l = bef[n].right /\ r = bef[n].left
    OBVIOUS
  <1>5. l \in 0 .. n - 1 /\ r \in 0 .. n - 1 /\ (l = r => l = 0)
    BY <1>1, <1>2, <1>3, <1>4 DEF Shape
  <1>6. /\ mem2 \in Seq([left : Nat, right : Nat]) /\ Len(mem2) = N
        /\ mem2[n] = Swapped(bef[n])
        /\ \A m \in 1 .. N : m # n => mem2[m] = mem[m]
    <2>1. mem \in Seq([left : Nat, right : Nat]) /\ Len(mem) = N
      BY <1>1 DEF Turning
    <2>2. Swapped(mem[n]) \in [left : Nat, right : Nat]
      BY <1>3 DEF Swapped
    <2>3. mem2 \in Seq([left : Nat, right : Nat]) /\ Changed(mem2, mem, n, Swapped(mem[n]))
      BY <1>2, <2>1, <2>2, ExceptIs
    <2> QED
      BY <1>3, <2>1, <2>3, Zenon DEF Changed
  <1>7. cs2[1] = l /\ cs2[2] = r
    <2>1. mem2[n].left = bef[n].right /\ mem2[n].right = bef[n].left
      <3>1. mem2[n] = Swapped(bef[n])
        BY ONLY <1>6
      <3> QED
        BY ONLY <3>1 DEF Swapped
    <2> QED
      BY <1>4, <2>1
  <1>8. \A i \in 3 .. M + 1 : cs2[i] = cs[i - 1] /\ i - 1 \in 2 .. M
    BY <1>1
  <1>9. \A c \in 1 .. N : (c \in D \/ Called(cs, c)) <=> (c = N \/ \E p \in D : Under(bef, p, c))
    BY <1>1 DEF Turning
  \* Nothing under n has been turned or called for.
  <1>10. ASSUME NEW c \in {l, r}, c # 0 PROVE c \in 1 .. N /\ c \notin D /\ ~Called(cs, c) /\ c # n
    <2>1. c \in 1 .. N /\ c # N /\ c # n
      <3>1. c \in 0 .. n - 1
        BY ONLY <1>5, c \in {l, r}
      <3>2. PICK k \in Nat : k = c /\ k < n
        BY ONLY <3>1, <1>2
      <3> QED
        BY ONLY <1>1, <1>2, <1>10, <3>2
    <2>2. Under(bef, n, c)
      BY <1>4 DEF Under
    <2>3. ~\E p \in D : Under(bef, p, c)
      <3> SUFFICES ASSUME NEW p \in D, Under(bef, p, c) PROVE FALSE
        OBVIOUS
      <3>1. p \in 1 .. N /\ p # n
        BY <1>1, <1>2 DEF Turning
      <3>2. c \in Nat \ {0}
        BY ONLY <1>10, <2>1
      <3>3. \A m, k \in 1 .. N, x \in Nat \ {0} : Under(bef, m, x) /\ Under(bef, k, x) => m = k
        BY <1>1 DEF Shape
      <3> QED
        BY ONLY <1>2, <2>2, <3>1, <3>2, <3>3, Under(bef, p, c)
    <2> QED
      BY <1>9, <2>1, <2>3
  <1>11. \A i \in 1 .. M : cs[i] \in 0 .. N /\ cs[i] \notin D
    <2>1. cs \in Seq(0 .. N) /\ \A i \in 1 .. M : cs[i] \notin D
      BY <1>1 DEF Turning
    <2>2. \A i \in 1 .. Len(cs) : cs[i] \in 0 .. N
      <3> DEFINE S == 0 .. N
      <3>1. cs \in Seq(S)
        BY ONLY <2>1
      <3> HIDE DEF S
      <3>2. \A i \in 1 .. Len(cs) : cs[i] \in S
        BY ONLY <3>1, ItemsAre
      <3> QED
        BY ONLY <3>2 DEF S
    <2> QED
      BY <1>1, <2>1, <2>2
  <1>12. \A i, j \in 1 .. M : cs[i] = cs[j] /\ cs[i] # 0 => i = j
    BY <1>1 DEF Turning
  <1>13. \A i \in 2 .. M : cs[i] # n
    <2>1. \A i \in 2 .. M : i \in 1 .. M /\ 1 \in 1 .. M /\ i # 1
      BY <1>1
    <2> QED
      BY <1>12, <2>1
  <1>14. \A i \in 1 .. M + 1 : i = 1 \/ i = 2 \/ (i \in 3 .. M + 1 /\ i - 1 \in 1 .. M)
    BY <1>1
  <1>15. ASSUME NEW c \in 1 .. N
         PROVE  Called(cs2, c) <=> c = l \/ c = r \/ (Called(cs, c) /\ c # n)
    <2>1. ASSUME NEW i \in 1 .. M + 1, cs2[i] = c
          PROVE  c = l \/ c = r \/ (Called(cs, c) /\ c # n)
      <3>1. CASE i \in 3 .. M + 1 /\ i - 1 \in 1 .. M
        <4>1. cs[i - 1] = c /\ i - 1 \in 2 .. M
          BY <1>8, <2>1, <3>1
        <4> QED
          BY <1>1, <1>13, <3>1, <4>1 DEF Called
      <3> QED
        BY <1>7, <1>14, <2>1, <3>1
    <2>2. ASSUME c = l \/ c = r PROVE \E i \in 1 .. M + 1 : cs2[i] = c
      <3>1. 1 \in 1 .. M + 1 /\ 2 \in 1 .. M + 1
        BY <1>1
      <3> QED
        BY <1>7, <2>2, <3>1
    <2>3. ASSUME Called(cs, c), c # n PROVE \E i \in 1 .. M + 1 : cs2[i] = c
      <3>1. PICK i \in 1 .. M : cs[i] = c
        BY <1>1, <2>3 DEF Called
      <3>2. i # 1
        BY <2>3, <3>1
      <3>3. PICK j \in Int : j = i + 1
        OBVIOUS
      <3>4. j \in 3 .. M + 1 /\ j \in 1 .. M + 1 /\ j - 1 = i
        BY <3>2, <3>3
      <3> QED
        BY <1>8, <3>1, <3>4
    <2> QED
      BY <1>1, <2>1, <2>2, <2>3 DEF Called
  <1>16. ASSUME NEW i \in 1 .. M + 1 PROVE cs2[i] \notin D \cup {n}
    <2>1. 0 \notin D
      BY DEF Turning
    <2>2. CASE i = 1 \/ i = 2
      <3>1. cs2[i] \in {l, r}
        BY <1>7, <2>2
      <3> QED
        BY <1>10, <2>1, <3>1
    <2>3. CASE i \in 3 .. M + 1 /\ i - 1 \in 1 .. M
      BY <1>8, <1>11, <1>13, <2>3
    <2> QED
      BY <1>14, <2>2, <2>3
  <1>17. ASSUME NEW i \in 1 .. M + 1, NEW j \in 1 .. M + 1, cs2[i] = cs2[j], cs2[i] # 0
         PROVE  i = j
    <2>1. ASSUME NEW k \in 3 .. M + 1, k - 1 \in 1 .. M, cs2[k] # 0 PROVE cs2[k] # l /\ cs2[k] # r
      <3>1. Called(cs, cs2[k])
        BY <1>1, <1>8, <2>1 DEF Called
      <3> QED
        BY <1>10, <2>1, <3>1
    <2>2. CASE i \in 3 .. M + 1 /\ i - 1 \in 1 .. M /\ j \in 3 .. M + 1 /\ j - 1 \in 1 .. M
      <3>1. cs[i - 1] = cs[j - 1] /\ cs[i - 1] # 0
        BY <1>8, <1>17, <2>2
      <3>2. i - 1 = j - 1
        BY <1>12, <2>2, <3>1
      <3> QED
        BY <3>2
    <2>3. CASE (i = 1 \/ i = 2) /\ (j = 1 \/ j = 2)
      BY <1>5, <1>7, <1>17, <2>3
    <2>4. CASE (i = 1 \/ i = 2) /\ j \in 3 .. M + 1 /\ j - 1 \in 1 .. M
      BY <1>7, <1>17, <2>1, <2>4
    <2>5. CASE (j = 1 \/ j = 2) /\ i \in 3 .. M + 1 /\ i - 1 \in 1 .. M
      BY <1>7, <1>17, <2>1, <2>5
    <2> QED
      BY <1>14, <2>2, <2>3, <2>4, <2>5
  <1>18. ASSUME NEW c \in 1 .. N
         PROVE  (c \in D \cup {n} \/ Called(cs2, c))
                  <=> (c = N \/ \E p \in D \cup {n} : Under(bef, p, c))
    <2>1. Under(bef, n, c) <=> c = l \/ c = r
      BY <1>4 DEF Under
    <2>2. Called(cs, n)
      BY <1>1 DEF Called
    <2>3. (c \in D \cup {n} \/ Called(cs2, c)) <=> (c \in D \/ Called(cs, c) \/ c = l \/ c = r)
      BY <1>15, <2>2
    <2>4. (\E p \in D \cup {n} : Under(bef, p, c)) <=> Under(bef, n, c) \/ \E p \in D : Under(bef, p, c)
      OBVIOUS
    <2> QED
      BY <1>9, <2>1, <2>3, <2>4
  <1>19. ASSUME NEW m \in 1 .. N
         PROVE  mem2[m] = IF m \in D \cup {n} THEN Swapped(bef[m]) ELSE bef[m]
    BY <1>1, <1>6, <1>19 DEF Turning
  <1>20. D \cup {n} \subseteq 1 .. N
    BY <1>1, <1>2 DEF Turning
  <1> QED
    BY <1>1, <1>6, <1>16, <1>17, <1>18, <1>19, <1>20 DEF Turning

TreesAre(mem, bef, cs) ==
  /\ bef = <<>> => Shape(mem) /\ cs = <<>>
  /\ bef # <<>> => Shape(bef) /\ OneRoot(bef) /\ \E D : Turning(D, mem, bef, cs)

NodeOf(left, right) == [left |-> left, right |-> right]

LEMMA NodeIs ==
  ASSUME NEW left, NEW right
  PROVE  NodeOf(left, right).left = left /\ NodeOf(left, right).right = right
  BY DEF NodeOf

Longer(t, s, e) ==
  /\ Len(t) = Len(s) + 1 /\ t[Len(s) + 1] = e /\ Len(s) \in Nat
  /\ \A m \in 1 .. Len(s) : t[m] = s[m]

LEMMA AppendIs ==
  ASSUME NEW S, NEW s \in Seq(S), NEW e \in S
  PROVE  Append(s, e) \in Seq(S) /\ Longer(Append(s, e), s, e)
  BY DEF Longer

FreeRoot(mem, c) == c = 0 \/ (c \in 1 .. Len(mem) /\ \A m \in 1 .. Len(mem) : ~Under(mem, m, c))

LEMMA ShapeGrows ==
  ASSUME NEW mem, Shape(mem), NEW left, FreeRoot(mem, left), NEW right, FreeRoot(mem, right),
         left = right => left = 0
  PROVE  Shape(Append(mem, NodeOf(left, right)))
  <1>1. mem \in Seq([left : Nat, right : Nat])
    BY DEF Shape
  <1>2. PICK N \in Nat : N = Len(mem)
    BY <1>1
  <1>3. left \in 0 .. N /\ right \in 0 .. N
    BY <1>2 DEF FreeRoot
  <1>4. PICK mem2 : mem2 = Append(mem, NodeOf(left, right))
    OBVIOUS
  <1>5. NodeOf(left, right) \in [left : Nat, right : Nat]
    BY <1>3 DEF NodeOf
  <1>6. mem2 \in Seq([left : Nat, right : Nat]) /\ Longer(mem2, mem, NodeOf(left, right))
    BY <1>1, <1>4, <1>5, AppendIs
  <1>7. /\ Len(mem2) = N + 1 /\ mem2[N + 1].left = left /\ mem2[N + 1].right = right
        /\ \A m \in 1 .. N : mem2[m] = mem[m]
    <2>1. /\ Len(mem2) = N + 1 /\ mem2[N + 1] = NodeOf(left, right)
          /\ \A m \in 1 .. N : mem2[m] = mem[m]
      BY ONLY <1>2, <1>6, Zenon DEF Longer
    <2> QED
      BY ONLY <2>1 DEF NodeOf
  <1>8. \A n \in 1 .. N + 1 : n \in 1 .. N \/ n = N + 1
    OBVIOUS
  <1>9. \A n \in 1 .. N : mem[n].left < n /\ mem[n].right < n
    BY <1>2 DEF Shape
  <1>10. \A n \in 1 .. N : mem[n].left = mem[n].right => mem[n].left = 0
    BY <1>2 DEF Shape
  <1>11. \A m, n \in 1 .. N, c \in Nat \ {0} : Under(mem, m, c) /\ Under(mem, n, c) => m = n
    BY <1>2 DEF Shape
  <1>12. \A m \in 1 .. N, c \in Nat \ {0} : Under(mem2, m, c) <=> Under(mem, m, c)
    BY ONLY <1>7, Zenon DEF Under
  <1>13. \A c \in Nat \ {0} : Under(mem2, N + 1, c) <=> c = left \/ c = right
    BY ONLY <1>7, Zenon DEF Under
  <1>14. \A m \in 1 .. N, c \in Nat \ {0} : c = left \/ c = right => ~Under(mem, m, c)
    BY <1>2 DEF FreeRoot
  <1>15. \A n \in 1 .. N + 1 : mem2[n].left < n /\ mem2[n].right < n
    BY ONLY <1>3, <1>7, <1>8, <1>9, N \in Nat
  <1>16. \A n \in 1 .. N + 1 : mem2[n].left = mem2[n].right => mem2[n].left = 0
    BY ONLY <1>7, <1>8, <1>10, left = right => left = 0
  <1>17. ASSUME NEW m \in 1 .. N + 1, NEW n \in 1 .. N + 1, NEW c \in Nat \ {0},
                Under(mem2, m, c), Under(mem2, n, c)
         PROVE  m = n
    BY ONLY <1>8, <1>11, <1>12, <1>13, <1>14, <1>17, ZenonT(60)
  <1> QED
    BY ONLY <1>4, <1>6, <1>7, <1>15, <1>16, <1>17, Zenon DEF Shape

LEMMA RootsAre ==
  ASSUME Shape(memory)
  PROVE  /\ \A c \in Roots \cup {0} : FreeRoot(memory, c)
         /\ Roots = {Len(memory)} => OneRoot(memory)
  <1>1. memory \in Seq([left : Nat, right : Nat])
    BY DEF Shape
  <1>2. DOMAIN memory = 1 .. Len(memory) /\ Len(memory) \in Nat
    BY <1>1
  <1>3. \A c : c \in Roots <=> c \in 1 .. Len(memory) /\ \A m \in 1 .. Len(memory) : ~Under(memory, m, c)
    <2> DEFINE Children(n) == {memory[n].left, memory[n].right}
    <2>1. \A n, c : c \in Children(n) <=> Under(memory, n, c)
      BY Zenon DEF Under
    <2>2. Roots = (1 .. Len(memory)) \ UNION {Children(n) : n \in 1 .. Len(memory)}
      BY <1>2, Zenon DEF Roots
    <2> HIDE DEF Below
    <2> QED
      BY ONLY <2>1, <2>2
  <1>4. \A c \in Roots \cup {0} : FreeRoot(memory, c)
    BY <1>3 DEF FreeRoot
  <1>5. ASSUME Roots = {Len(memory)} PROVE OneRoot(memory)
    <2>1. PICK N \in Nat : N = Len(memory)
      BY <1>2
    <2>2. N \in 1 .. N
      BY <1>3, <1>5, <2>1
    <2>3. \A n \in 1 .. N - 1 : n \in 1 .. N /\ n # N
      OBVIOUS
    <2>4. \A n \in 1 .. N - 1 : \E p \in 1 .. N : Under(memory, p, n)
      BY <1>3, <1>5, <2>1, <2>3
    <2>5. N > 0
      BY <2>2
    <2> QED
      BY ONLY <2>1, <2>4, <2>5 DEF OneRoot
  <1> QED
    BY <1>4, <1>5

LEMMA FirstCall ==
  ASSUME NEW mem, Shape(mem), OneRoot(mem)
  PROVE  Turning({}, mem, mem, <<Len(mem)>>) /\ mem # <<>>
  <1>1. PICK N \in Nat : N = Len(mem) /\ N > 0 /\ mem \in Seq([left : Nat, right : Nat])
    BY DEF Shape, OneRoot
  <1>2. PICK cs : cs = <<N>>
    OBVIOUS
  <1>3. cs \in Seq(0 .. N) /\ Len(cs) = 1 /\ cs[1] = N
    BY <1>1, <1>2
  <1>4. \A n : Called(cs, n) <=> n = N
    BY <1>3 DEF Called
  <1>5. Turning({}, mem, mem, cs)
    BY ONLY <1>1, <1>3, <1>4 DEF Turning
  <1> QED
    BY <1>1, <1>2, <1>5

LEMMA NullCall ==
  ASSUME NEW D, NEW mem, NEW bef, NEW cs, Turning(D, mem, bef, cs),
         cs # <<>>, Head(cs) = 0, Len(bef) \in Nat
  PROVE  Turning(D, mem, bef, Tail(cs))
  <1>1. PICK N \in Nat : N = Len(bef)
    OBVIOUS
  <1>2. cs \in Seq(0 .. N)
    BY <1>1 DEF Turning
  <1>3. PICK M \in Nat : M = Len(cs) /\ M > 0 /\ cs[1] = 0
    BY <1>2
  <1>4. PICK cs2 : cs2 = Tail(cs)
    OBVIOUS
  <1>5. /\ cs2 \in Seq(0 .. N) /\ Len(cs2) = M - 1
        /\ \A i \in 1 .. M - 1 : cs2[i] = cs[i + 1]
    BY <1>2, <1>3, <1>4
  <1>6. \A i \in 1 .. M - 1 : i + 1 \in 1 .. M
    OBVIOUS
  <1>7. \A i \in 1 .. M - 1 : cs2[i] \notin D
    BY <1>1, <1>3, <1>5, <1>6 DEF Turning
  <1>8. ASSUME NEW i \in 1 .. M - 1, NEW j \in 1 .. M - 1, cs2[i] = cs2[j], cs2[i] # 0
        PROVE  i = j
    <2>1. \A k, x \in 1 .. M : cs[k] = cs[x] /\ cs[k] # 0 => k = x
      BY <1>3 DEF Turning
    <2>2. cs[i + 1] = cs[j + 1] /\ cs[i + 1] # 0
      BY ONLY <1>5, <1>8
    <2>3. i + 1 = j + 1
      BY ONLY <1>6, <2>1, <2>2
    <2> QED
      BY <2>3
  <1>9. ASSUME NEW n \in 1 .. N PROVE Called(cs2, n) <=> Called(cs, n)
    <2>1. ASSUME NEW i \in 1 .. M, cs[i] = n PROVE \E j \in 1 .. M - 1 : cs2[j] = n
      <3>1. i # 1
        BY <1>3, <2>1
      <3>2. PICK j \in 1 .. M - 1 : i = j + 1
        <4>1. i - 1 \in 1 .. M - 1 /\ i = i - 1 + 1
          BY <3>1
        <4> QED
          BY <4>1
      <3> QED
        BY <1>5, <2>1, <3>2
    <2>2. ASSUME NEW i \in 1 .. M - 1, cs2[i] = n PROVE \E j \in 1 .. M : cs[j] = n
      BY <1>5, <1>6, <2>2
    <2> QED
      BY <1>3, <1>5, <2>1, <2>2 DEF Called
  <1>10. \A n \in 1 .. N : n \in D \/ Called(cs, n) <=> n = N \/ \E p \in D : Under(bef, p, n)
    BY <1>1 DEF Turning
  <1>11. \A n \in 1 .. N : n \in D \/ Called(cs2, n) <=> n = N \/ \E p \in D : Under(bef, p, n)
    BY <1>9, <1>10
  <1>12. D \subseteq 1 .. Len(bef) /\ mem \in Seq([left : Nat, right : Nat]) /\ Len(mem) = Len(bef)
         /\ \A n \in 1 .. Len(bef) : mem[n] = IF n \in D THEN Swapped(bef[n]) ELSE bef[n]
    BY DEF Turning
  <1> QED
    BY ONLY <1>1, <1>4, <1>5, <1>7, <1>8, <1>11, <1>12, Zenon DEF Turning

LEMMA NextCall ==
  ASSUME NEW D, NEW mem, NEW bef, NEW cs, Turning(D, mem, bef, cs), Shape(bef), OneRoot(bef),
         cs # <<>>, Head(cs) # 0,
         NEW mem2, mem2 = [mem EXCEPT ![Head(cs)] = Swapped(mem[Head(cs)])],
         NEW cs2, cs2 = <<mem2[Head(cs)].left, mem2[Head(cs)].right>> \o Tail(cs)
  PROVE  Turning(D \cup {Head(cs)}, mem2, bef, cs2)
  <1>1. PICK N \in Nat : N = Len(bef) /\ cs \in Seq(0 .. N)
    <2>1. bef \in Seq([left : Nat, right : Nat]) /\ cs \in Seq(0 .. Len(bef))
      BY Zenon DEF Shape, Turning
    <2>2. Len(bef) \in Nat
      BY ONLY <2>1, ItemsAre
    <2> QED
      BY ONLY <2>1, <2>2, Zenon
  <1>2. PICK M, n : M \in Nat /\ M = Len(cs) /\ M > 0 /\ n = Head(cs) /\ n = cs[1]
    <2>1. Len(cs) \in Nat /\ Len(cs) > 0 /\ Head(cs) = cs[1]
      BY ONLY <1>1, cs # <<>>, SMTT(60)
    <2> QED
      BY ONLY <2>1, Zenon
  <1>3. n \in 1 .. N /\ n \notin D
    <2>1. \A i \in 1 .. M : cs[i] \notin D
      BY <1>2, Zenon DEF Turning
    <2>2. 1 \in 1 .. M
      BY ONLY <1>2
    <2>3. cs[1] \in 0 .. N
      BY ONLY <1>1, <1>2, <2>2, ItemsAre
    <2> QED
      BY ONLY <1>2, <2>1, <2>2, <2>3, N \in Nat, Head(cs) # 0
  <1>4. mem \in Seq([left : Nat, right : Nat]) /\ Len(mem) = N /\ bef \in Seq([left : Nat, right : Nat])
    BY <1>1 DEF Turning, Shape
  <1>5. mem[n] = bef[n]
    BY <1>1, <1>3 DEF Turning
  <1>6. Swapped(mem[n]) \in [left : Nat, right : Nat]
    BY <1>3, <1>4, ItemsAre DEF Swapped
  <1>7. Changed(mem2, mem, n, Swapped(mem[n]))
    BY <1>2, <1>3, <1>4, <1>6, ExceptIs
  <1>8. mem2[n].left = bef[n].right /\ mem2[n].right = bef[n].left
    BY ONLY <1>5, <1>7 DEF Changed, Swapped
  <1>9. mem2[n].left \in 0 .. N /\ mem2[n].right \in 0 .. N
    <2>1. bef[n] \in [left : Nat, right : Nat]
      BY <1>1, <1>3, <1>4, ItemsAre
    <2>2. bef[n].left < n /\ bef[n].right < n
      BY <1>1, <1>3 DEF Shape
    <2>3. bef[n].left \in Nat /\ bef[n].right \in Nat
      BY ONLY <2>1
    <2> QED
      BY ONLY <1>3, <1>8, <2>2, <2>3, N \in Nat
  <1>10. PICK l \in 0 .. N, r \in 0 .. N : l = mem2[n].left /\ r = mem2[n].right
    BY <1>9
  <1>11. cs2 = <<l, r>> \o Tail(cs)
    BY <1>2, <1>10
  <1>12. /\ cs2 \in Seq(0 .. N) /\ Len(cs2) = M + 1 /\ cs2[1] = l /\ cs2[2] = r
         /\ \A i \in 3 .. M + 1 : cs2[i] = cs[i - 1]
    BY ONLY <1>1, <1>2, <1>11, N \in Nat, l \in 0 .. N, r \in 0 .. N, M \in Nat
  <1> QED
    <2>1. mem2 = [mem EXCEPT ![n] = Swapped(mem[n])]
      BY ONLY <1>2, mem2 = [mem EXCEPT ![Head(cs)] = Swapped(mem[Head(cs)])], Zenon
    <2>2. cs2 \in Seq(0 .. Len(bef)) /\ Len(cs2) = Len(cs) + 1 /\ Len(cs) > 0
          /\ \A i \in 3 .. Len(cs) + 1 : cs2[i] = cs[i - 1]
      BY ONLY <1>1, <1>2, <1>12, Zenon
    <2>3. cs2[1] = mem2[n].left /\ cs2[2] = mem2[n].right /\ n # 0
      BY ONLY <1>2, <1>10, <1>12, Head(cs) # 0, Zenon
    <2>4. Turning(D \cup {n}, mem2, bef, cs2)
      BY ONLY <1>2, <2>1, <2>2, <2>3, FlipNode, Turning(D, mem, bef, cs), Shape(bef), OneRoot(bef)
    <2> QED
      BY ONLY <1>2, <2>4, Zenon

-----------------------------------------------------------------------------
LEMMA TreesStart == TreesInit => TreesAre(memory, before, calls)
  BY DEF TreesInit, TreesAre, Shape

LEMMA TreesStep ==
  ASSUME TreesAre(memory, before, calls), TreesNext
  PROVE  TreesAre(memory, before, calls)'
  <1>1. ASSUME NEW left \in Roots \cup {0}, NEW right \in Roots \cup {0}, make_shared(left, right)
        PROVE  TreesAre(memory, before, calls)'
    <2>1. Shape(memory) /\ before' = <<>> /\ calls' = <<>> /\ (left = right => left = 0)
          /\ memory' = Append(memory, NodeOf(left, right))
      BY <1>1 DEF make_shared, TreesAre, NodeOf
    <2>2. Shape(memory')
      BY <2>1, RootsAre, ShapeGrows
    <2> QED
      BY ONLY <2>1, <2>2 DEF TreesAre
  <1>2. CASE CallFlip
    <2>1. /\ Shape(memory) /\ OneRoot(memory)
          /\ before' = memory /\ memory' = memory /\ calls' = <<Len(memory)>>
      BY <1>2, RootsAre DEF CallFlip, TreesAre
    <2>2. Turning({}, memory', before', calls') /\ before' # <<>>
      BY ONLY <2>1, FirstCall
    <2> QED
      BY ONLY <2>1, <2>2 DEF TreesAre
  <1>3. CASE flip
    <2>1. before # <<>> /\ calls # <<>> /\ before' = before
      BY <1>3 DEF flip, TreesAre
    <2>2. Shape(before) /\ OneRoot(before) /\ \E D : Turning(D, memory, before, calls)
      BY <2>1 DEF TreesAre
    <2>3. PICK D : Turning(D, memory, before, calls)
      BY <2>2
    <2>4. CASE Head(calls) = 0
      <3>1. memory' = memory /\ calls' = Tail(calls)
        BY <1>3, <2>4 DEF flip
      <3>2. Len(before) \in Nat
        BY <2>2 DEF Shape
      <3>3. Turning(D, memory', before', calls')
        BY ONLY <2>1, <2>3, <2>4, <3>1, <3>2, NullCall
      <3> QED
        BY ONLY <2>1, <2>2, <3>3 DEF TreesAre
    <2>5. CASE Head(calls) # 0
      <3>1. /\ memory' = [memory EXCEPT ![Head(calls)] = Swapped(memory[Head(calls)])]
            /\ calls' = <<memory'[Head(calls)].left, memory'[Head(calls)].right>> \o Tail(calls)
        BY <1>3, <2>5, Zenon DEF flip
      <3>2. Turning(D \cup {Head(calls)}, memory', before', calls')
        BY ONLY <2>1, <2>2, <2>3, <2>5, <3>1, NextCall
      <3> QED
        BY ONLY <2>1, <2>2, <3>2 DEF TreesAre
    <2> QED
      BY <2>4, <2>5
  <1> QED
    BY <1>1, <1>2, <1>3, Zenon DEF TreesNext

LEMMA TreesTurned ==
  ASSUME TreesAre(memory, before, calls)
  PROVE  TurnedRound
  <1> SUFFICES ASSUME before # <<>>, calls = <<>> PROVE TurnedRound
    BY Zenon DEF TurnedRound
  <1>1. PICK mem, bef : mem = memory /\ bef = before
    OBVIOUS
  <1>2. Shape(bef) /\ OneRoot(bef) /\ \E D : Turning(D, mem, bef, <<>>)
    BY <1>1 DEF TreesAre
  <1>3. PICK D : Turning(D, mem, bef, <<>>)
    BY <1>2
  <1>4. PICK N \in Nat : N = Len(bef) /\ N > 0
    BY <1>2 DEF Shape, OneRoot
  <1>5. D = 1 .. N
    BY <1>2, <1>3, <1>4, AllTurned
  <1>6. Len(mem) = N /\ \A n \in 1 .. N : mem[n] = Swapped(bef[n])
    BY <1>3, <1>4, <1>5 DEF Turning
  <1>7. PICK a, b : a = [n \in 1 .. N |-> bef[n].left] /\ b = [n \in 1 .. N |-> bef[n].right]
    OBVIOUS
  <1>8. Lower(N, a) /\ Lower(N, b)
    <2> SUFFICES ASSUME NEW n \in 1 .. N PROVE a[n] \in 0 .. n - 1 /\ b[n] \in 0 .. n - 1
      BY Zenon DEF Lower
    <2>1. bef \in Seq([left : Nat, right : Nat])
      BY <1>2 DEF Shape
    <2>2. bef[n] \in [left : Nat, right : Nat]
      BY <1>4, <2>1, ItemsAre
    <2>3. bef[n].left < n /\ bef[n].right < n
      BY <1>2, <1>4 DEF Shape
    <2>4. bef[n].left \in Nat /\ bef[n].right \in Nat
      BY ONLY <2>2
    <2>5. a[n] = bef[n].left /\ b[n] = bef[n].right
      BY ONLY <1>7, n \in 1 .. N
    <2> QED
      BY ONLY <2>3, <2>4, <2>5, n \in 1 .. N
  <1>9. \A n \in 1 .. N : bef[n].left = a[n] /\ bef[n].right = b[n]
    BY ONLY <1>7
  <1>10. \A n \in 1 .. N : mem[n].left = b[n] /\ mem[n].right = a[n]
    BY ONLY <1>6, <1>9 DEF Swapped
  <1>11. PICK p, q, f, g : /\ p = print_node(mem) /\ q = immutable_flip(bef)
                           /\ f = in_order_traversal(bef) /\ g = in_order_traversal(mem)
    OBVIOUS
  <1>12. NestedIs(p, N, b, a)
    BY ONLY <1>6, <1>8, <1>10, <1>11, PrintDefined, N \in Nat
  <1>13. NestedIs(q, N, b, a)
    BY ONLY <1>4, <1>8, <1>9, <1>11, PrintDefined, N \in Nat
  <1>14. InOrderIs(f, N, a, b)
    BY ONLY <1>4, <1>8, <1>9, <1>11, OrderDefined, N \in Nat
  <1>15. InOrderIs(g, N, b, a)
    BY ONLY <1>6, <1>8, <1>10, <1>11, OrderDefined, N \in Nat
  <1>16. p[N] = q[N]
    BY <1>8, <1>12, <1>13, NestedUnique
  <1>17. \A n \in 0 .. N : NodeSeq(f[n]) /\ g[n] = Reverse(f[n])
    BY <1>8, <1>14, <1>15, InOrderReversed
  <1>18. N \in 1 .. N /\ a[N] \in 0 .. N /\ b[N] \in 0 .. N
    BY <1>4, <1>8 DEF Lower
  <1>n. N # 0 /\ N \in 1 .. N
    BY <1>4
  <1>19. PICK x, y : x = f[a[N]] /\ y = f[b[N]]
    OBVIOUS
  <1>20. NodeSeq(x) /\ NodeSeq(y) /\ g[a[N]] = Reverse(x) /\ g[b[N]] = Reverse(y)
    BY <1>17, <1>18, <1>19
  <1>21. pre_order_traversal(bef, N) = (<<N>> \o x) \o y
    BY <1>n, <1>9, <1>11, <1>19, Zenon DEF pre_order_traversal
  <1>22. post_order_traversal(mem, N) = (Reverse(y) \o Reverse(x)) \o <<N>>
    BY <1>n, <1>10, <1>11, <1>20, Zenon DEF post_order_traversal
  <1>23. Reverse((<<N>> \o x) \o y) = Reverse(y) \o (Reverse(x) \o <<N>>)
    <2>1. NodeSeq(<<N>>) /\ Reverse(<<N>>) = <<N>>
      BY Single
    <2>2. NodeSeq(<<N>> \o x) /\ Reverse(<<N>> \o x) = Reverse(x) \o <<N>>
      BY ONLY <1>20, <2>1, ReverseConcat
    <2>3. Reverse((<<N>> \o x) \o y) = Reverse(y) \o Reverse(<<N>> \o x)
      BY ONLY <1>20, <2>2, ReverseConcat
    <2> QED
      BY ONLY <2>2, <2>3, Zenon
  <1>24. (Reverse(y) \o Reverse(x)) \o <<N>> = Reverse(y) \o (Reverse(x) \o <<N>>)
    <2>1. NodeSeq(Reverse(x)) /\ NodeSeq(Reverse(y)) /\ NodeSeq(<<N>>)
      BY <1>20, ReverseConcat, Single
    <2> QED
      BY <2>1, ConcatAssociative, SMTT(60) DEF NodeSeq
  <1>25. g[N] = Reverse(f[N])
    BY <1>17, <1>18
  <1> QED
    BY ONLY <1>1, <1>6, <1>11, <1>16, <1>21, <1>22, <1>23, <1>24, <1>25, Zenon DEF TurnedRound

-----------------------------------------------------------------------------
(* write_sum_by_second and write_max_by_second                             *)

Lines == Seq([second : Nat, bin : Nat])
LoopStates == [current : Nat, bin : Nat, grand_total : Nat, lines : Lines]

\* What a measurement of second sec does before it is added to the bin.
Opened(x, w, sec) ==
  /\ x.current = sec
  /\ sec = w.current \/ w.current = 0 =>
       x.bin = w.bin /\ x.grand_total = w.grand_total /\ x.lines = w.lines
  /\ sec # w.current /\ w.current # 0 =>
       /\ x.bin = 0 /\ x.grand_total = w.grand_total + w.bin
       /\ x.lines = Append(w.lines, [second |-> sec, bin |-> w.bin])

LEMMA StateIs ==
  ASSUME NEW w \in LoopStates
  PROVE  w.current \in Nat /\ w.bin \in Nat /\ w.grand_total \in Nat /\ w.lines \in Lines
  BY DEF LoopStates

LEMMA MakeState ==
  ASSUME NEW c \in Nat, NEW b \in Nat, NEW t \in Nat, NEW l \in Lines
  PROVE  [current |-> c, bin |-> b, grand_total |-> t, lines |-> l] \in LoopStates
  BY DEF LoopStates

LEMMA StateEqual ==
  ASSUME NEW w \in LoopStates
  PROVE  w = [current |-> w.current, bin |-> w.bin, grand_total |-> w.grand_total, lines |-> w.lines]
  BY DEF LoopStates

LEMMA CloseIs ==
  ASSUME NEW w \in LoopStates, NEW sec \in Nat
  PROVE  Close(w, sec) = [current |-> sec, bin |-> 0, grand_total |-> w.grand_total + w.bin,
                          lines |-> Append(w.lines, [second |-> sec, bin |-> w.bin])]
         /\ Close(w, sec) \in LoopStates
  <1>1. w.grand_total + w.bin \in Nat /\ Append(w.lines, [second |-> sec, bin |-> w.bin]) \in Lines
    BY StateIs DEF Lines
  <1>2. Close(w, sec) = [current |-> sec, bin |-> 0, grand_total |-> w.grand_total + w.bin,
                          lines |-> Append(w.lines, [second |-> sec, bin |-> w.bin])]
    BY Zenon DEF Close
  <1> QED
    BY <1>1, <1>2, MakeState

LEMMA OpenIs ==
  ASSUME NEW w \in LoopStates, NEW sec \in Nat
  PROVE  Open(w, sec) \in LoopStates /\ Opened(Open(w, sec), w, sec)
  <1>1. CASE sec = w.current
    <2>1. Open(w, sec) = w
      BY <1>1, Zenon DEF Open
    <2> QED
      BY <1>1, <2>1 DEF Opened
  <1>2. CASE sec # w.current /\ w.current = 0
    <2>1. Open(w, sec) = [w EXCEPT !.current = sec]
      BY <1>2, Zenon DEF Open
    <2>2. Open(w, sec) = [current |-> sec, bin |-> w.bin, grand_total |-> w.grand_total, lines |-> w.lines]
      BY <2>1 DEF LoopStates
    <2>3. Open(w, sec) \in LoopStates
      BY <2>2, StateIs, MakeState
    <2> QED
      BY <1>2, <2>2, <2>3 DEF Opened
  <1>3. CASE sec # w.current /\ w.current # 0
    <2>1. Open(w, sec) = Close(w, sec)
      BY <1>3, Zenon DEF Open
    <2> QED
      BY <1>3, <2>1, CloseIs DEF Opened
  <1> QED
    BY <1>1, <1>2, <1>3

LEMMA AddIs ==
  ASSUME NEW w \in LoopStates, NEW b \in Nat
  PROVE  LET x == [w EXCEPT !.bin = b]
         IN x \in LoopStates /\ x.current = w.current /\ x.bin = b
            /\ x.grand_total = w.grand_total /\ x.lines = w.lines
  BY DEF LoopStates

\* The loop state x after a measurement of second sec, which the bin takes in by h.
Follows(x, w, sec, h) ==
  /\ x.current = sec
  /\ sec = w.current \/ w.current = 0 =>
       x.bin = h[w.bin] /\ x.grand_total = w.grand_total /\ x.lines = w.lines
  /\ sec # w.current /\ w.current # 0 =>
       /\ x.bin = h[0] /\ x.grand_total = w.grand_total + w.bin
       /\ x.lines = Append(w.lines, [second |-> sec, bin |-> w.bin])

LEMMA RoundIs ==
  ASSUME NEW w \in LoopStates, NEW sec \in Nat, NEW h \in [Nat -> Nat],
         NEW x, x = [Open(w, sec) EXCEPT !.bin = h[Open(w, sec).bin]]
  PROVE  x \in LoopStates /\ Follows(x, w, sec, h)
  <1>1. PICK o : o = Open(w, sec)
    OBVIOUS
  <1>2. o \in LoopStates /\ Opened(o, w, sec)
    BY <1>1, OpenIs
  <1>3. PICK b \in Nat : b = h[o.bin]
    BY <1>2, StateIs
  <1>4. x = [o EXCEPT !.bin = b]
    BY <1>1, <1>3
  <1>5. x \in LoopStates /\ x.current = o.current /\ x.bin = b
        /\ x.grand_total = o.grand_total /\ x.lines = o.lines
    BY ONLY <1>2, <1>4, AddIs
  <1> QED
    BY ONLY <1>2, <1>3, <1>5, Zenon DEF Opened, Follows

Taken(N, sc, vl) ==
  /\ N = Len(measurements) /\ DOMAIN measurements = 1 .. N
  /\ \A n \in 1 .. N : measurements[n].sec = sc[n] /\ measurements[n].value = vl[n]
  /\ \A n \in 1 .. N : sc[n] \in Nat /\ sc[n] # 0 /\ vl[n] \in Nat

BinLoop(f, N, sc, G) ==
  /\ f[0] = NothingYet
  /\ \A k \in 0 .. N : f[k] \in LoopStates
  /\ \A k \in 1 .. N : Follows(f[k], f[k - 1], sc[k], G[k])

Rounding(N, sc, G) == [k \in 1 .. N |-> [w \in LoopStates |->
                         [Open(w, sc[k]) EXCEPT !.bin = G[k][Open(w, sc[k]).bin]]]]

NatSteps(N, G) == \A k \in 1 .. N : G[k] \in [Nat -> Nat]

LEMMA RoundsExist ==
  ASSUME NEW N \in Nat, NEW sc, NEW vl, Taken(N, sc, vl), NEW G, NatSteps(N, G)
  PROVE  \E g : /\ Loop(g, N, LoopStates, NothingYet, Rounding(N, sc, G))
                /\ BinLoop(g, N, sc, G)
  <1>1. NothingYet \in LoopStates
    <2>1. <<>> \in Lines
      BY DEF Lines
    <2> QED
      BY <2>1, MakeState DEF NothingYet
  <1>2. \A k \in 1 .. N : sc[k] \in Nat /\ G[k] \in [Nat -> Nat]
    BY DEF Taken, NatSteps
  <1>3. PICK step : step = Rounding(N, sc, G)
    OBVIOUS
  <1>4. ASSUME NEW k \in 1 .. N, NEW w \in LoopStates
        PROVE  step[k][w] \in LoopStates /\ Follows(step[k][w], w, sc[k], G[k])
    <2>1. step[k][w] = [Open(w, sc[k]) EXCEPT !.bin = G[k][Open(w, sc[k]).bin]]
      BY <1>3 DEF Rounding
    <2> QED
      BY ONLY <1>2, <2>1, RoundIs, k \in 1 .. N, w \in LoopStates
  <1>5. Closed(N, LoopStates, step)
    BY ONLY <1>4, Zenon DEF Closed
  <1>6. PICK g : Loop(g, N, LoopStates, NothingYet, step)
    BY ONLY <1>1, <1>5, LoopExists, N \in Nat
  <1>7. /\ g[0] = NothingYet /\ \A k \in 0 .. N : g[k] \in LoopStates
        /\ \A k \in 1 .. N : g[k] = step[k][g[k - 1]]
    BY ONLY <1>6 DEF Loop
  <1>8. \A k \in 1 .. N : k - 1 \in 0 .. N
    OBVIOUS
  <1>9. \A k \in 1 .. N : Follows(g[k], g[k - 1], sc[k], G[k])
    BY ONLY <1>4, <1>7, <1>8, Zenon
  <1>10. BinLoop(g, N, sc, G)
    BY ONLY <1>7, <1>9, Zenon DEF BinLoop
  <1> QED
    BY <1>3, <1>6, <1>10

LEMMA BinLoopSame ==
  ASSUME NEW N \in Nat, NEW sc, NEW G, NEW f, NEW g, BinLoop(g, N, sc, G),
         \A k \in 0 .. N : f[k] = g[k]
  PROVE  BinLoop(f, N, sc, G)
  <1>1. \A k \in 1 .. N : k - 1 \in 0 .. N /\ k \in 0 .. N
    OBVIOUS
  <1>2. 0 \in 0 .. N
    OBVIOUS
  <1> QED
    BY <1>1, <1>2, Zenon DEF BinLoop

SumUp(N, vl) == [k \in 1 .. N |-> [x \in Nat |-> x + vl[k]]]
MaxUp(N, vl) == [k \in 1 .. N |-> [x \in Nat |-> Greater(x, vl[k])]]

LEMMA StepsAre ==
  ASSUME NEW N \in Nat, NEW vl, \A n \in 1 .. N : vl[n] \in Nat
  PROVE  NatSteps(N, SumUp(N, vl)) /\ NatSteps(N, MaxUp(N, vl))
  BY DEF NatSteps, SumUp, MaxUp, Greater

LEMMA SummingIs ==
  ASSUME NEW N \in Nat, NEW sc, NEW vl, Taken(N, sc, vl)
  PROVE  BinLoop(Summing, N, sc, SumUp(N, vl))
  <1>1. PICK G : G = SumUp(N, vl)
    OBVIOUS
  <1>2. NatSteps(N, G)
    BY <1>1, StepsAre DEF Taken
  <1>3. PICK g : Loop(g, N, LoopStates, NothingYet, Rounding(N, sc, G)) /\ BinLoop(g, N, sc, G)
    BY <1>2, RoundsExist
  <1>4. ASSUME NEW k \in 1 .. N, NEW w \in LoopStates
        PROVE  Rounding(N, sc, G)[k][w]
                 = [Open(w, measurements[k].sec) EXCEPT !.bin = @ + measurements[k].value]
    <2>1. Rounding(N, sc, G)[k][w] = [Open(w, sc[k]) EXCEPT !.bin = G[k][Open(w, sc[k]).bin]]
      BY DEF Rounding
    <2>2. sc[k] = measurements[k].sec /\ sc[k] \in Nat /\ vl[k] = measurements[k].value
      BY DEF Taken
    <2>3. Open(w, sc[k]).bin \in Nat
      BY <2>2, OpenIs, StateIs
    <2>4. G[k][Open(w, sc[k]).bin] = Open(w, sc[k]).bin + vl[k]
      BY <1>1, <2>3 DEF SumUp
    <2> QED
      BY <2>1, <2>2, <2>4, Zenon
  <1> DEFINE Is(h) == h = [n \in 0 .. N |->
                        IF n = 0 THEN NothingYet
                        ELSE [Open(h[n - 1], measurements[n].sec) EXCEPT !.bin = @ + measurements[n].value]]
  <1>5. PICK f : f = CHOOSE h : Is(h)
    OBVIOUS
  <1>6. Summing = f
    BY <1>5, Zenon DEF Summing, Taken
  <1>7. \A k \in 1 .. N : k - 1 \in 0 .. N /\ k \in 0 .. N /\ k # 0
    OBVIOUS
  <1>8. /\ g \in [0 .. N -> LoopStates] /\ g[0] = NothingYet
        /\ \A k \in 1 .. N : g[k] = Rounding(N, sc, G)[k][g[k - 1]]
    BY <1>3 DEF Loop
  <1>9. \A k \in 1 .. N :
          g[k] = [Open(g[k - 1], measurements[k].sec) EXCEPT !.bin = @ + measurements[k].value]
    BY ONLY <1>4, <1>7, <1>8
  <1>10. \A k \in 0 .. N : k = 0 \/ k \in 1 .. N
    OBVIOUS
  <1>11. Is(g)
    BY ONLY <1>8, <1>9, <1>10
  <1>12. Is(f)
    <2> HIDE DEF Is
    <2> QED
      BY <1>5, <1>11
  <1>13. f[0] = NothingYet
    BY ONLY <1>12, N \in Nat
  <1>14. \A k \in 1 .. N :
          f[k] = [Open(f[k - 1], measurements[k].sec) EXCEPT !.bin = @ + measurements[k].value]
    BY ONLY <1>7, <1>12, Zenon
  <1>15. SameSteps(N, f, g)
    BY ONLY <1>9, <1>14, Zenon DEF SameSteps
  <1>16. \A k \in 0 .. N : f[k] = g[k]
    BY ONLY <1>8, <1>13, <1>15, LoopUnique, N \in Nat
  <1> QED
    BY <1>1, <1>3, <1>6, <1>16, BinLoopSame

LEMMA MaximizingIs ==
  ASSUME NEW N \in Nat, NEW sc, NEW vl, Taken(N, sc, vl)
  PROVE  BinLoop(Maximizing, N, sc, MaxUp(N, vl))
  <1>1. PICK G : G = MaxUp(N, vl)
    OBVIOUS
  <1>2. NatSteps(N, G)
    BY <1>1, StepsAre DEF Taken
  <1>3. PICK g : Loop(g, N, LoopStates, NothingYet, Rounding(N, sc, G)) /\ BinLoop(g, N, sc, G)
    BY <1>2, RoundsExist
  <1>4. ASSUME NEW k \in 1 .. N, NEW w \in LoopStates
        PROVE  Rounding(N, sc, G)[k][w]
                 = [Open(w, measurements[k].sec) EXCEPT !.bin = Greater(@, measurements[k].value)]
    <2>1. Rounding(N, sc, G)[k][w] = [Open(w, sc[k]) EXCEPT !.bin = G[k][Open(w, sc[k]).bin]]
      BY DEF Rounding
    <2>2. sc[k] = measurements[k].sec /\ sc[k] \in Nat /\ vl[k] = measurements[k].value
      BY DEF Taken
    <2>3. Open(w, sc[k]).bin \in Nat
      BY <2>2, OpenIs, StateIs
    <2>4. G[k][Open(w, sc[k]).bin] = Greater(Open(w, sc[k]).bin, vl[k])
      BY <1>1, <2>3 DEF MaxUp
    <2> QED
      BY <2>1, <2>2, <2>4, Zenon
  <1> DEFINE Is(h) == h = [n \in 0 .. N |->
                        IF n = 0 THEN NothingYet
                        ELSE [Open(h[n - 1], measurements[n].sec) EXCEPT !.bin = Greater(@, measurements[n].value)]]
  <1>5. PICK f : f = CHOOSE h : Is(h)
    OBVIOUS
  <1>6. Maximizing = f
    BY <1>5, Zenon DEF Maximizing, Taken
  <1>7. \A k \in 1 .. N : k - 1 \in 0 .. N /\ k \in 0 .. N /\ k # 0
    OBVIOUS
  <1>8. /\ g \in [0 .. N -> LoopStates] /\ g[0] = NothingYet
        /\ \A k \in 1 .. N : g[k] = Rounding(N, sc, G)[k][g[k - 1]]
    BY <1>3 DEF Loop
  <1>9. \A k \in 1 .. N :
          g[k] = [Open(g[k - 1], measurements[k].sec) EXCEPT !.bin = Greater(@, measurements[k].value)]
    BY ONLY <1>4, <1>7, <1>8
  <1>10. \A k \in 0 .. N : k = 0 \/ k \in 1 .. N
    OBVIOUS
  <1>11. Is(g)
    BY ONLY <1>8, <1>9, <1>10
  <1>12. Is(f)
    <2> HIDE DEF Is
    <2> QED
      BY <1>5, <1>11
  <1>13. f[0] = NothingYet
    BY ONLY <1>12, N \in Nat
  <1>14. \A k \in 1 .. N :
          f[k] = [Open(f[k - 1], measurements[k].sec) EXCEPT !.bin = Greater(@, measurements[k].value)]
    BY ONLY <1>7, <1>12, Zenon
  <1>15. SameSteps(N, f, g)
    BY ONLY <1>9, <1>14, Zenon DEF SameSteps
  <1>16. \A k \in 0 .. N : f[k] = g[k]
    BY ONLY <1>8, <1>13, <1>15, LoopUnique, N \in Nat
  <1> QED
    BY <1>1, <1>3, <1>6, <1>16, BinLoopSame

RefLoop(r, s, N, sc, G) ==
  /\ r[0] = 0
  /\ \A k \in 0 .. N : r[k] \in Nat
  /\ \A k \in 1 .. N : r[k] = IF sc[k] = s THEN G[k][r[k - 1]] ELSE r[k - 1]

LEMMA SumsAre ==
  ASSUME NEW N \in Nat, NEW sc, NEW vl, Taken(N, sc, vl), NEW s
  PROVE  RefLoop(SumsIn(s), s, N, sc, SumUp(N, vl))
  <1>1. PICK G : G = SumUp(N, vl)
    OBVIOUS
  <1>2. PICK step : step = [k \in 1 .. N |-> [x \in Nat |-> IF sc[k] = s THEN G[k][x] ELSE x]]
    OBVIOUS
  <1>3. ASSUME NEW k \in 1 .. N, NEW x \in Nat
        PROVE  /\ step[k][x] \in Nat
               /\ step[k][x] = IF sc[k] = s THEN G[k][x] ELSE x
               /\ step[k][x] = x + (IF measurements[k].sec = s THEN measurements[k].value ELSE 0)
    <2>1. sc[k] = measurements[k].sec /\ vl[k] = measurements[k].value /\ vl[k] \in Nat
      BY DEF Taken
    <2>2. step[k][x] = IF sc[k] = s THEN G[k][x] ELSE x
      BY <1>2
    <2>3. G[k][x] = x + vl[k]
      BY <1>1 DEF SumUp
    <2> QED
      BY ONLY <2>1, <2>2, <2>3, x \in Nat DEF Greater
  <1>4. Closed(N, Nat, step)
    BY ONLY <1>3, Zenon DEF Closed
  <1>5. PICK g : Loop(g, N, Nat, 0, step)
    BY ONLY <1>4, LoopExists, N \in Nat, 0 \in Nat
  <1>6. /\ g \in [0 .. N -> Nat] /\ g[0] = 0 /\ \A k \in 1 .. N : g[k] = step[k][g[k - 1]]
    BY ONLY <1>5 DEF Loop
  <1>7. \A k \in 1 .. N : k - 1 \in 0 .. N /\ k \in 0 .. N /\ k # 0
    OBVIOUS
  <1>8. \A k \in 1 .. N : g[k - 1] \in Nat
    <2>1. ASSUME NEW k \in 1 .. N PROVE g[k - 1] \in Nat
      BY ONLY <1>6, <1>7, <2>1
    <2> QED
      BY ONLY <2>1
  <1>9. \A k \in 1 .. N : g[k] = g[k - 1] + (IF measurements[k].sec = s THEN measurements[k].value ELSE 0)
    BY ONLY <1>3, <1>6, <1>8, ZenonT(60)
  <1>10. \A k \in 0 .. N : k = 0 \/ k \in 1 .. N
    OBVIOUS
  <1> DEFINE Is(h) == h = [n \in 0 .. N |-> IF n = 0 THEN 0 ELSE h[n - 1] + (IF measurements[n].sec = s THEN measurements[n].value ELSE 0)]
  <1>11. Is(g)
    BY ONLY <1>6, <1>9, <1>10
  <1>12. PICK f : f = CHOOSE h : Is(h)
    OBVIOUS
  <1>13. SumsIn(s) = f
    BY <1>12, Zenon DEF SumsIn, Taken
  <1>14. Is(f)
    <2> HIDE DEF Is
    <2> QED
      BY <1>11, <1>12
  <1>15. f[0] = 0
    BY ONLY <1>14, N \in Nat
  <1>16. \A k \in 1 .. N : f[k] = f[k - 1] + (IF measurements[k].sec = s THEN measurements[k].value ELSE 0)
    BY ONLY <1>7, <1>14, Zenon
  <1>17. SameSteps(N, f, g)
    BY ONLY <1>9, <1>16, Zenon DEF SameSteps
  <1>18. \A k \in 0 .. N : f[k] = g[k]
    BY ONLY <1>6, <1>15, <1>17, LoopUnique, N \in Nat
  <1>19. \A k \in 0 .. N : f[k] \in Nat
    BY ONLY <1>6, <1>18
  <1>20. ASSUME NEW k \in 1 .. N PROVE f[k] = IF sc[k] = s THEN G[k][f[k - 1]] ELSE f[k - 1]
    <2>1. f[k] = g[k] /\ f[k - 1] = g[k - 1]
      BY ONLY <1>7, <1>18, Zenon
    <2>2. g[k] = step[k][g[k - 1]] /\ g[k - 1] \in Nat
      BY ONLY <1>6, <1>8
    <2>3. step[k][g[k - 1]] = IF sc[k] = s THEN G[k][g[k - 1]] ELSE g[k - 1]
      BY ONLY <1>3, <2>2, Zenon
    <2> QED
      BY ONLY <2>1, <2>2, <2>3, Zenon
  <1> QED
    BY ONLY <1>1, <1>13, <1>15, <1>19, <1>20, Zenon DEF RefLoop

LEMMA MaximaAre ==
  ASSUME NEW N \in Nat, NEW sc, NEW vl, Taken(N, sc, vl), NEW s
  PROVE  RefLoop(MaximaIn(s), s, N, sc, MaxUp(N, vl))
  <1>1. PICK G : G = MaxUp(N, vl)
    OBVIOUS
  <1>2. PICK step : step = [k \in 1 .. N |-> [x \in Nat |-> IF sc[k] = s THEN G[k][x] ELSE x]]
    OBVIOUS
  <1>3. ASSUME NEW k \in 1 .. N, NEW x \in Nat
        PROVE  /\ step[k][x] \in Nat
               /\ step[k][x] = IF sc[k] = s THEN G[k][x] ELSE x
               /\ step[k][x] = Greater(x, IF measurements[k].sec = s THEN measurements[k].value ELSE 0)
    <2>1. sc[k] = measurements[k].sec /\ vl[k] = measurements[k].value /\ vl[k] \in Nat
      BY DEF Taken
    <2>2. step[k][x] = IF sc[k] = s THEN G[k][x] ELSE x
      BY <1>2
    <2>3. G[k][x] = Greater(x, vl[k])
      BY <1>1 DEF MaxUp
    <2> QED
      BY ONLY <2>1, <2>2, <2>3, x \in Nat DEF Greater
  <1>4. Closed(N, Nat, step)
    BY ONLY <1>3, Zenon DEF Closed
  <1>5. PICK g : Loop(g, N, Nat, 0, step)
    BY ONLY <1>4, LoopExists, N \in Nat, 0 \in Nat
  <1>6. /\ g \in [0 .. N -> Nat] /\ g[0] = 0 /\ \A k \in 1 .. N : g[k] = step[k][g[k - 1]]
    BY ONLY <1>5 DEF Loop
  <1>7. \A k \in 1 .. N : k - 1 \in 0 .. N /\ k \in 0 .. N /\ k # 0
    OBVIOUS
  <1>8. \A k \in 1 .. N : g[k - 1] \in Nat
    <2>1. ASSUME NEW k \in 1 .. N PROVE g[k - 1] \in Nat
      BY ONLY <1>6, <1>7, <2>1
    <2> QED
      BY ONLY <2>1
  <1>9. \A k \in 1 .. N : g[k] = Greater(g[k - 1], IF measurements[k].sec = s THEN measurements[k].value ELSE 0)
    BY ONLY <1>3, <1>6, <1>8, ZenonT(60)
  <1>10. \A k \in 0 .. N : k = 0 \/ k \in 1 .. N
    OBVIOUS
  <1> DEFINE Is(h) == h = [n \in 0 .. N |-> IF n = 0 THEN 0 ELSE Greater(h[n - 1], IF measurements[n].sec = s THEN measurements[n].value ELSE 0)]
  <1>11. Is(g)
    BY ONLY <1>6, <1>9, <1>10
  <1>12. PICK f : f = CHOOSE h : Is(h)
    OBVIOUS
  <1>13. MaximaIn(s) = f
    BY <1>12, Zenon DEF MaximaIn, Taken
  <1>14. Is(f)
    <2> HIDE DEF Is
    <2> QED
      BY <1>11, <1>12
  <1>15. f[0] = 0
    BY ONLY <1>14, N \in Nat
  <1>16. \A k \in 1 .. N : f[k] = Greater(f[k - 1], IF measurements[k].sec = s THEN measurements[k].value ELSE 0)
    BY ONLY <1>7, <1>14, Zenon
  <1>17. SameSteps(N, f, g)
    BY ONLY <1>9, <1>16, Zenon DEF SameSteps
  <1>18. \A k \in 0 .. N : f[k] = g[k]
    BY ONLY <1>6, <1>15, <1>17, LoopUnique, N \in Nat
  <1>19. \A k \in 0 .. N : f[k] \in Nat
    BY ONLY <1>6, <1>18
  <1>20. ASSUME NEW k \in 1 .. N PROVE f[k] = IF sc[k] = s THEN G[k][f[k - 1]] ELSE f[k - 1]
    <2>1. f[k] = g[k] /\ f[k - 1] = g[k - 1]
      BY ONLY <1>7, <1>18, Zenon
    <2>2. g[k] = step[k][g[k - 1]] /\ g[k - 1] \in Nat
      BY ONLY <1>6, <1>8
    <2>3. step[k][g[k - 1]] = IF sc[k] = s THEN G[k][g[k - 1]] ELSE g[k - 1]
      BY ONLY <1>3, <2>2, Zenon
    <2> QED
      BY ONLY <2>1, <2>2, <2>3, Zenon
  <1> QED
    BY ONLY <1>1, <1>13, <1>15, <1>19, <1>20, Zenon DEF RefLoop

TotalLoop(t, N, vl) ==
  /\ t[0] = 0
  /\ \A k \in 0 .. N : t[k] \in Nat
  /\ \A k \in 1 .. N : t[k] = t[k - 1] + vl[k]

LEMMA TotalIs ==
  ASSUME NEW N \in Nat, NEW sc, NEW vl, Taken(N, sc, vl)
  PROVE  \E t : TotalLoop(t, N, vl) /\ Total = t[N]
  <1>2. PICK step : step = [k \in 1 .. N |-> [x \in Nat |-> x + vl[k]]]
    OBVIOUS
  <1>3. ASSUME NEW k \in 1 .. N, NEW x \in Nat
        PROVE  /\ step[k][x] \in Nat
               /\ step[k][x] = x + vl[k]
               /\ step[k][x] = x + measurements[k].value
    <2>1. vl[k] = measurements[k].value /\ vl[k] \in Nat
      BY DEF Taken
    <2>2. step[k][x] = x + vl[k]
      BY <1>2
    <2> QED
      BY ONLY <2>1, <2>2, x \in Nat
  <1>4. Closed(N, Nat, step)
    BY ONLY <1>3, Zenon DEF Closed
  <1>5. PICK g : Loop(g, N, Nat, 0, step)
    BY ONLY <1>4, LoopExists, N \in Nat, 0 \in Nat
  <1>6. /\ g \in [0 .. N -> Nat] /\ g[0] = 0 /\ \A k \in 1 .. N : g[k] = step[k][g[k - 1]]
    BY ONLY <1>5 DEF Loop
  <1>7. \A k \in 1 .. N : k - 1 \in 0 .. N /\ k \in 0 .. N /\ k # 0
    OBVIOUS
  <1>8. \A k \in 1 .. N : g[k - 1] \in Nat
    <2>1. ASSUME NEW k \in 1 .. N PROVE g[k - 1] \in Nat
      BY ONLY <1>6, <1>7, <2>1
    <2> QED
      BY ONLY <2>1
  <1>9. \A k \in 1 .. N : g[k] = g[k - 1] + measurements[k].value
    BY ONLY <1>3, <1>6, <1>8, ZenonT(60)
  <1>10. \A k \in 0 .. N : k = 0 \/ k \in 1 .. N
    OBVIOUS
  <1> DEFINE Is(h) == h = [n \in 0 .. N |-> IF n = 0 THEN 0 ELSE h[n - 1] + measurements[n].value]
  <1>11. Is(g)
    BY ONLY <1>6, <1>9, <1>10
  <1>12. PICK f : f = CHOOSE h : Is(h)
    OBVIOUS
  <1>13. Total = f[N]
    BY <1>12, Zenon DEF Total, Taken
  <1>14. Is(f)
    <2> HIDE DEF Is
    <2> QED
      BY <1>11, <1>12
  <1>15. f[0] = 0
    BY ONLY <1>14, N \in Nat
  <1>16. \A k \in 1 .. N : f[k] = f[k - 1] + measurements[k].value
    BY ONLY <1>7, <1>14, Zenon
  <1>17. SameSteps(N, f, g)
    BY ONLY <1>9, <1>16, Zenon DEF SameSteps
  <1>18. \A k \in 0 .. N : f[k] = g[k]
    BY ONLY <1>6, <1>15, <1>17, LoopUnique, N \in Nat
  <1>19. \A k \in 0 .. N : f[k] \in Nat
    BY ONLY <1>6, <1>18
  <1>20. ASSUME NEW k \in 1 .. N PROVE f[k] = f[k - 1] + vl[k]
    <2>1. f[k] = g[k] /\ f[k - 1] = g[k - 1]
      BY ONLY <1>7, <1>18, Zenon
    <2>2. g[k] = step[k][g[k - 1]] /\ g[k - 1] \in Nat
      BY ONLY <1>6, <1>8
    <2>3. step[k][g[k - 1]] = g[k - 1] + vl[k]
      BY ONLY <1>3, <2>2, Zenon
    <2> QED
      BY ONLY <2>1, <2>2, <2>3, Zenon
  <1> QED
    BY ONLY <1>13, <1>15, <1>19, <1>20, Zenon DEF TotalLoop

LEMMA FinishIs ==
  ASSUME NEW w \in LoopStates
  PROVE  /\ w.bin > 0 => Finish(w).grand_total = w.grand_total + w.bin
                         /\ Finish(w).lines = Append(w.lines, [second |-> w.current, bin |-> w.bin])
         /\ ~(w.bin > 0) => w.bin = 0 /\ Finish(w) = w
  <1>1. w.bin \in Nat /\ w.current \in Nat
    BY StateIs
  <1>2. CASE w.bin > 0
    <2>1. Finish(w) = Close(w, w.current)
      BY <1>2, Zenon DEF Finish
    <2>2. Finish(w) = [current |-> w.current, bin |-> 0, grand_total |-> w.grand_total + w.bin,
                       lines |-> Append(w.lines, [second |-> w.current, bin |-> w.bin])]
      BY <1>1, <2>1, CloseIs
    <2> QED
      BY <1>2, <2>2
  <1>3. CASE ~(w.bin > 0)
    <2>1. Finish(w) = w
      BY <1>3, Zenon DEF Finish
    <2> QED
      BY <1>1, <1>3, <2>1
  <1> QED
    BY <1>2, <1>3

LEMMA TotalWritten ==
  ASSUME NEW N \in Nat, NEW sc, NEW vl, Taken(N, sc, vl)
  PROVE  GrandTotalIsSum
  <1>1. PICK f, G : f = Summing /\ G = SumUp(N, vl)
    OBVIOUS
  <1>2. BinLoop(f, N, sc, G)
    BY <1>1, SummingIs
  <1>3. PICK t : TotalLoop(t, N, vl) /\ Total = t[N]
    BY TotalIs
  <1>4. /\ \A k \in 0 .. N : t[k] \in Nat
        /\ \A k \in 1 .. N : t[k] = t[k - 1] + vl[k]
        /\ t[0] = 0
    BY <1>3 DEF TotalLoop
  <1>5. \A k \in 0 .. N : f[k].bin \in Nat /\ f[k].grand_total \in Nat
    BY <1>2, StateIs DEF BinLoop
  <1>6. \A k \in 1 .. N : k - 1 \in 0 .. N /\ k \in 0 .. N
    OBVIOUS
  <1>7. ASSUME NEW k \in 1 .. N
        PROVE  f[k].grand_total + f[k].bin = (f[k - 1].grand_total + f[k - 1].bin) + vl[k]
    <2>1. Follows(f[k], f[k - 1], sc[k], G[k])
      BY <1>2 DEF BinLoop
    <2>2. PICK x \in Nat, y \in Nat, v \in Nat :
            x = f[k - 1].bin /\ y = f[k - 1].grand_total /\ v = vl[k]
      BY <1>5, <1>6 DEF Taken
    <2>3. G[k][x] = x + v /\ G[k][0] = 0 + v
      BY <1>1, <2>2 DEF SumUp
    <2>4. \/ f[k].bin = x + v /\ f[k].grand_total = y
          \/ f[k].bin = 0 + v /\ f[k].grand_total = y + x
      BY ONLY <2>1, <2>2, <2>3, Zenon DEF Follows
    <2> QED
      BY ONLY <2>2, <2>4
  <1> DEFINE T == {k \in 0 .. N : f[k].grand_total + f[k].bin = t[k]}
  <1>8. 0 \in T
    <2>1. f[0].grand_total = 0 /\ f[0].bin = 0
      BY <1>2 DEF BinLoop, NothingYet
    <2> QED
      BY <1>4, <2>1
  <1>9. Kept(N, T)
    BY ONLY <1>4, <1>6, <1>7 DEF Kept
  <1>10. N \in T
    <2> HIDE DEF T
    <2> QED
      BY <1>8, <1>9, LoopInduction
  <1>11. N = Len(measurements) /\ f[N] \in LoopStates /\ N \in 0 .. N
    BY <1>2 DEF Taken, BinLoop
  <1>12. SumBySecond = Finish(f[N])
    BY ONLY <1>1, <1>11, Zenon DEF SumBySecond
  <1>13. Finish(f[N]).grand_total = f[N].grand_total + f[N].bin
    <2>1. f[N].bin \in Nat /\ f[N].grand_total \in Nat
      BY ONLY <1>5, <1>11
    <2>2. CASE f[N].bin > 0
      BY ONLY <1>11, <2>2, FinishIs
    <2>3. CASE ~(f[N].bin > 0)
      <3>1. f[N].bin = 0 /\ Finish(f[N]) = f[N]
        BY ONLY <1>11, <2>3, FinishIs
      <3> QED
        BY ONLY <2>1, <3>1
    <2> QED
      BY ONLY <2>2, <2>3
  <1> QED
    BY ONLY <1>3, <1>10, <1>12, <1>13 DEF GrandTotalIsSum

SteadyTimes(N, sc) == \A i, j \in 1 .. N : i < j => sc[i] <= sc[j]
Times(N, sc) == \A n \in 1 .. N : sc[n] \in Nat /\ sc[n] # 0
RefLoops(R, N, sc, G) == \A s \in Nat : RefLoop(R[s], s, N, sc, G)

\* After k measurements: the lines are for second[1], second[2], ... and these are all
\* the seconds before that of the last measurement.
Written(k, lines, second, sc, R) ==
  /\ Len(lines) \in Nat
  /\ \A i, j \in 1 .. Len(lines) : i < j => second[i] < second[j]
  /\ \A j \in 1 .. Len(lines) : second[j] \in Nat /\ second[j] < sc[k]
                                /\ lines[j].bin = R[second[j]][k]
                                /\ \E i \in 1 .. k : sc[i] = second[j]
  /\ \A i \in 1 .. k : sc[i] = sc[k] \/ \E j \in 1 .. Len(lines) : second[j] = sc[i]

LEMMA NotRecorded ==
  ASSUME NEW N \in Nat, NEW sc, NEW G, NEW s, NEW r, RefLoop(r, s, N, sc, G),
         NEW k \in 0 .. N, \A i \in 1 .. k : sc[i] # s
  PROVE  r[k] = 0
  <1> DEFINE T == {m \in Nat : m <= k => r[m] = 0}
  <1>1. 0 \in T
    BY DEF RefLoop
  <1>2. ASSUME NEW m \in 1 .. k, m - 1 \in T PROVE m \in T
    <2>1. r[m - 1] = 0 /\ m \in 1 .. N /\ sc[m] # s
      BY <1>2
    <2>2. r[m] = r[m - 1]
      BY <2>1 DEF RefLoop
    <2> QED
      BY <2>1, <2>2
  <1>3. 0 .. k \subseteq T
    <2>1. Kept(k, T) /\ k \in Nat
      BY <1>2 DEF Kept
    <2> HIDE DEF T
    <2> QED
      BY <1>1, <2>1, LoopInduction
  <1>4. k \in 0 .. k
    OBVIOUS
  <1> QED
    BY <1>3, <1>4

LEMMA SameSecond ==
  ASSUME NEW N \in Nat, NEW sc, Times(N, sc), NEW G, NEW R, RefLoops(R, N, sc, G),
         NEW k \in 2 .. N, sc[k] = sc[k - 1],
         NEW lines, NEW second, Written(k - 1, lines, second, sc, R)
  PROVE  Written(k, lines, second, sc, R)
  <1>1. PICK L \in Nat : L = Len(lines)
    BY DEF Written
  <1>2. \A i, j \in 1 .. L : i < j => second[i] < second[j]
    BY <1>1 DEF Written
  <1>3. \A j \in 1 .. L : second[j] \in Nat /\ second[j] < sc[k] /\ lines[j].bin = R[second[j]][k - 1]
    BY <1>1 DEF Written
  <1>4. \A j \in 1 .. L : \E i \in 1 .. k : sc[i] = second[j]
    <2>1. \A i \in 1 .. k - 1 : i \in 1 .. k
      OBVIOUS
    <2> QED
      BY <1>1, <2>1 DEF Written
  <1>5. \A i \in 1 .. k : sc[i] = sc[k] \/ \E j \in 1 .. L : second[j] = sc[i]
    <2>1. \A i \in 1 .. k : i = k \/ i \in 1 .. k - 1
      OBVIOUS
    <2> QED
      BY <1>1, <2>1 DEF Written
  <1>6. ASSUME NEW j \in 1 .. L PROVE lines[j].bin = R[second[j]][k]
    <2>1. sc[k] # second[j] /\ second[j] \in Nat /\ k \in 1 .. N
      BY <1>3 DEF Times
    <2>2. R[second[j]][k] = R[second[j]][k - 1]
      BY <2>1 DEF RefLoops, RefLoop
    <2> QED
      BY <1>3, <2>2
  <1> QED
    BY ONLY <1>1, <1>2, <1>3, <1>4, <1>5, <1>6, Zenon DEF Written

LEMMA OtherSecond ==
  ASSUME NEW N \in Nat, NEW sc, Times(N, sc), SteadyTimes(N, sc), NEW G, NEW R, RefLoops(R, N, sc, G),
         NEW k \in 2 .. N, sc[k] # sc[k - 1],
         NEW lines, NEW second, Written(k - 1, lines, second, sc, R),
         NEW lines2, NEW e, Longer(lines2, lines, e), e.bin = R[sc[k - 1]][k - 1]
  PROVE  /\ \E second2 : Written(k, lines2, second2, sc, R)
         /\ R[sc[k]][k] = G[k][0]
  <1>1. PICK L \in Nat : L = Len(lines)
    BY DEF Written
  <1>2. Len(lines2) = L + 1 /\ lines2[L + 1] = e /\ \A m \in 1 .. L : lines2[m] = lines[m]
    BY <1>1 DEF Longer
  <1>3. PICK c \in Nat, d \in Nat : c = sc[k - 1] /\ d = sc[k] /\ c < d
    <2>1. k - 1 \in 1 .. N /\ k \in 1 .. N /\ k - 1 < k
      OBVIOUS
    <2>2. sc[k - 1] <= sc[k] /\ sc[k - 1] \in Nat /\ sc[k] \in Nat
      BY <2>1 DEF Times, SteadyTimes
    <2> QED
      BY <2>2
  <1>4. /\ \A i, j \in 1 .. L : i < j => second[i] < second[j]
        /\ \A j \in 1 .. L : second[j] \in Nat /\ second[j] < c /\ lines[j].bin = R[second[j]][k - 1]
        /\ \A j \in 1 .. L : \E i \in 1 .. k - 1 : sc[i] = second[j]
        /\ \A i \in 1 .. k - 1 : sc[i] = c \/ \E j \in 1 .. L : second[j] = sc[i]
    BY <1>1, <1>3 DEF Written
  <1>5. PICK next : next = [j \in 1 .. L + 1 |-> IF j = L + 1 THEN c ELSE second[j]]
    OBVIOUS
  <1>6. next[L + 1] = c /\ \A j \in 1 .. L : next[j] = second[j]
    BY <1>5
  <1>7. \A j \in 1 .. L + 1 : j = L + 1 \/ j \in 1 .. L
    OBVIOUS
  <1>8. \A i, j \in 1 .. L + 1 : i < j => next[i] < next[j]
    BY ONLY <1>3, <1>4, <1>6, <1>7, L \in Nat
  <1>9. \A s \in Nat : s # d => R[s][k] = R[s][k - 1]
    BY <1>3 DEF RefLoops, RefLoop
  <1>10. ASSUME NEW j \in 1 .. L + 1
         PROVE  next[j] \in Nat /\ next[j] < d /\ lines2[j].bin = R[next[j]][k]
    <2>1. CASE j = L + 1
      <3>1. R[c][k] = R[c][k - 1]
        BY <1>3, <1>9
      <3> QED
        BY ONLY <1>2, <1>3, <1>6, <2>1, <3>1, e.bin = R[sc[k - 1]][k - 1]
    <2>2. CASE j \in 1 .. L
      <3>1. second[j] \in Nat /\ second[j] < c /\ lines[j].bin = R[second[j]][k - 1]
        BY ONLY <1>4, <2>2
      <3>2. second[j] # d /\ second[j] < d
        BY ONLY <1>3, <3>1
      <3>3. R[second[j]][k] = R[second[j]][k - 1]
        BY ONLY <1>9, <3>1, <3>2
      <3>4. next[j] = second[j] /\ lines2[j] = lines[j]
        BY ONLY <1>2, <1>6, <2>2
      <3> QED
        BY ONLY <3>1, <3>2, <3>3, <3>4, Zenon
    <2> QED
      BY <1>7, <2>1, <2>2
  <1>11. \A j \in 1 .. L + 1 : \E i \in 1 .. k : sc[i] = next[j]
    <2>1. k - 1 \in 1 .. k /\ \A i \in 1 .. k - 1 : i \in 1 .. k
      OBVIOUS
    <2> QED
      BY ONLY <1>3, <1>4, <1>6, <1>7, <2>1, Zenon
  <1>12. \A i \in 1 .. k : sc[i] = sc[k] \/ \E j \in 1 .. L + 1 : next[j] = sc[i]
    <2>1. \A i \in 1 .. k : i = k \/ i \in 1 .. k - 1
      OBVIOUS
    <2>2. L + 1 \in 1 .. L + 1 /\ \A j \in 1 .. L : j \in 1 .. L + 1
      OBVIOUS
    <2> QED
      BY ONLY <1>4, <1>6, <2>1, <2>2, Zenon
  <1>13. Written(k, lines2, next, sc, R)
    <2>1. Len(lines2) \in Nat
      BY <1>2
    <2>2. \A j \in 1 .. L + 1 : next[j] \in Nat /\ next[j] < sc[k] /\ lines2[j].bin = R[next[j]][k]
      BY ONLY <1>3, <1>10
    <2> QED
      BY ONLY <1>2, <1>8, <1>11, <1>12, <2>1, <2>2, Zenon DEF Written
  <1>14. R[d][k - 1] = 0
    <2>1. ASSUME NEW i \in 1 .. k - 1 PROVE sc[i] # d
      <3>1. i \in 1 .. N /\ k - 1 \in 1 .. N /\ (i = k - 1 \/ i < k - 1)
        OBVIOUS
      <3>2. sc[i] = c \/ sc[i] <= c
        BY <1>3, <3>1 DEF SteadyTimes
      <3>3. sc[i] \in Nat
        BY <3>1 DEF Times
      <3> QED
        BY ONLY <1>3, <3>2, <3>3
    <2>2. RefLoop(R[d], d, N, sc, G) /\ k - 1 \in 0 .. N
      BY <1>3 DEF RefLoops
    <2> QED
      BY ONLY <2>1, <2>2, NotRecorded, N \in Nat
  <1>15. R[d][k] = G[k][R[d][k - 1]]
    BY <1>3 DEF RefLoops, RefLoop
  <1> QED
    BY ONLY <1>3, <1>13, <1>14, <1>15, Zenon

\* The loop after k measurements.
BinOpen(k, w, sc, R) ==
  /\ w.current = sc[k] /\ w.bin = R[sc[k]][k]
  /\ \E second : Written(k, w.lines, second, sc, R)

LEMMA BinsOpen ==
  ASSUME NEW N \in Nat, NEW sc, Times(N, sc), SteadyTimes(N, sc), NEW G, NEW R,
         RefLoops(R, N, sc, G), NEW f, BinLoop(f, N, sc, G)
  PROVE  \A k \in 1 .. N : BinOpen(k, f[k], sc, R)
  <1>1. ASSUME NEW k \in 1 .. N
        PROVE  /\ Follows(f[k], f[k - 1], sc[k], G[k]) /\ f[k - 1] \in LoopStates
               /\ sc[k] \in Nat /\ sc[k] # 0
    BY DEF BinLoop, Times
  <1>2. 1 \in 1 .. N => BinOpen(1, f[1], sc, R)
    <2> SUFFICES ASSUME 1 \in 1 .. N PROVE BinOpen(1, f[1], sc, R)
      OBVIOUS
    <2>1. f[0].current = 0 /\ f[0].bin = 0 /\ f[0].lines = <<>>
      BY DEF BinLoop, NothingYet
    <2>2. Follows(f[1], f[0], sc[1], G[1]) /\ sc[1] \in Nat
      BY <1>1
    <2>3. f[1].current = sc[1] /\ f[1].bin = G[1][0] /\ f[1].lines = <<>>
      BY ONLY <2>1, <2>2, Zenon DEF Follows
    <2>4. R[sc[1]][1] = G[1][R[sc[1]][0]] /\ R[sc[1]][0] = 0
      BY <2>2 DEF RefLoops, RefLoop
    <2>5. Written(1, <<>>, <<>>, sc, R)
      BY DEF Written
    <2> QED
      BY ONLY <2>3, <2>4, <2>5, Zenon DEF BinOpen
  <1>3. ASSUME NEW k \in 2 .. N, BinOpen(k - 1, f[k - 1], sc, R) PROVE BinOpen(k, f[k], sc, R)
    <2>1. PICK w : w = f[k - 1]
      OBVIOUS
    <2>2. w \in LoopStates /\ Follows(f[k], w, sc[k], G[k]) /\ sc[k] \in Nat /\ sc[k - 1] # 0
          /\ sc[k - 1] \in Nat
      BY <1>1, <2>1
    <2>3. PICK second : Written(k - 1, w.lines, second, sc, R)
      BY <1>3, <2>1 DEF BinOpen
    <2>4. w.current = sc[k - 1] /\ w.bin = R[sc[k - 1]][k - 1]
      BY <1>3, <2>1 DEF BinOpen
    <2>5. CASE sc[k] = sc[k - 1]
      <3>1. Written(k, w.lines, second, sc, R)
        BY <2>3, <2>5, SameSecond
      <3>2. f[k].current = sc[k] /\ f[k].bin = G[k][w.bin] /\ f[k].lines = w.lines
        BY ONLY <2>2, <2>4, <2>5, Zenon DEF Follows
      <3>3. R[sc[k]][k] = G[k][R[sc[k]][k - 1]]
        BY <2>2 DEF RefLoops, RefLoop
      <3> QED
        BY ONLY <2>4, <2>5, <3>1, <3>2, <3>3, Zenon DEF BinOpen
    <2>6. CASE sc[k] # sc[k - 1]
      <3>1. PICK e : e = [second |-> sc[k], bin |-> w.bin]
        OBVIOUS
      <3>2. f[k].current = sc[k] /\ f[k].bin = G[k][0] /\ f[k].lines = Append(w.lines, e)
        BY ONLY <2>2, <2>4, <2>6, <3>1, Zenon DEF Follows
      <3>3. e.bin = R[sc[k - 1]][k - 1]
        BY ONLY <2>4, <3>1
      <3>4. Longer(f[k].lines, w.lines, e)
        <4>1. w.lines \in Lines /\ w.bin \in Nat
          BY ONLY <2>2, StateIs
        <4>2. e \in [second : Nat, bin : Nat]
          BY ONLY <2>2, <3>1, <4>1
        <4> QED
          BY ONLY <3>2, <4>1, <4>2, AppendIs DEF Lines
      <3>5. (\E next : Written(k, f[k].lines, next, sc, R)) /\ R[sc[k]][k] = G[k][0]
        BY <2>3, <2>6, <3>3, <3>4, OtherSecond
      <3> QED
        BY ONLY <3>2, <3>5, Zenon DEF BinOpen
    <2> QED
      BY <2>5, <2>6
  <1> DEFINE T == {k \in 0 .. N : k = 0 \/ BinOpen(k, f[k], sc, R)}
  <1>4. 0 \in T
    OBVIOUS
  <1>5. ASSUME NEW k \in 1 .. N, k - 1 \in T PROVE k \in T
    <2>1. k = 1 \/ k \in 2 .. N
      OBVIOUS
    <2>2. BinOpen(k, f[k], sc, R)
      BY ONLY <1>2, <1>3, <1>5, <2>1
    <2> QED
      BY <2>2
  <1>6. 0 .. N \subseteq T
    <2>1. Kept(N, T)
      BY ONLY <1>5 DEF Kept
    <2> HIDE DEF T
    <2> QED
      BY <1>4, <2>1, LoopInduction
  <1> QED
    BY <1>6

\* second tells that lines is one per second.
Tells(lines, second, bin) ==
  /\ second \in [DOMAIN lines -> Recorded]
  /\ \A j, k \in DOMAIN lines : j < k => second[j] < second[k]
  /\ \A k \in DOMAIN lines : lines[k].bin = bin[second[k]]
  /\ \A sec \in Recorded :
       (\A k \in DOMAIN lines : second[k] # sec)
         <=> (bin[sec] = 0 /\ \A other \in Recorded : other <= sec)

LEMMA LinesTold ==
  ASSUME NEW N \in Nat, NEW sc, Times(N, sc), SteadyTimes(N, sc), NEW G, NEW R,
         RefLoops(R, N, sc, G), NEW f, BinLoop(f, N, sc, G), NEW bin,
         \A s : s \in Recorded <=> \E i \in 1 .. N : sc[i] = s,
         \A s \in Recorded : bin[s] = R[s][N]
  PROVE  OnePerSecond(Finish(f[N]).lines, bin)
  <1>0. SUFFICES \E second : Tells(Finish(f[N]).lines, second, bin)
    BY Zenon DEF Tells, OnePerSecond
  <1>1. PICK w : w = f[N] /\ w \in LoopStates
    BY DEF BinLoop
  <1>2. CASE N = 0
    <2>1. w.bin = 0 /\ w.lines = <<>>
      BY <1>1, <1>2 DEF BinLoop, NothingYet
    <2>2. Finish(w).lines = <<>>
      <3>1. ~(w.bin > 0)
        BY ONLY <2>1
      <3> QED
        BY ONLY <1>1, <2>1, <3>1, FinishIs
    <2>3. \A s : s \notin Recorded
      BY <1>2
    <2>4. Tells(<<>>, <<>>, bin)
      BY ONLY <2>3 DEF Tells
    <2> QED
      BY <1>1, <2>2, <2>4
  <1>3. CASE N # 0
    <2>1. BinOpen(N, w, sc, R) /\ N \in 1 .. N
      BY <1>1, <1>3, BinsOpen
    <2>2. PICK c \in Nat : c = sc[N]
      BY <2>1 DEF Times
    <2>3. w.current = c /\ w.bin = R[c][N] /\ w.bin \in Nat /\ w.lines \in Lines
      BY <1>1, <2>1, <2>2, StateIs DEF BinOpen
    <2>4. PICK second : Written(N, w.lines, second, sc, R)
      BY <2>1 DEF BinOpen
    <2>5. PICK L \in Nat : L = Len(w.lines)
      BY <2>3 DEF Lines
    <2>6. /\ \A i, j \in 1 .. L : i < j => second[i] < second[j]
          /\ \A j \in 1 .. L : second[j] \in Nat /\ second[j] < c
                               /\ w.lines[j].bin = R[second[j]][N]
                               /\ \E i \in 1 .. N : sc[i] = second[j]
          /\ \A i \in 1 .. N : sc[i] = c \/ \E j \in 1 .. L : second[j] = sc[i]
      BY <2>2, <2>4, <2>5 DEF Written
    <2>7. \A j \in 1 .. L : second[j] \in Recorded /\ w.lines[j].bin = bin[second[j]]
      BY <2>6
    <2>8. c \in Recorded /\ bin[c] = w.bin
      BY <2>1, <2>2, <2>3
    <2>9. \A s \in Recorded : s \in Nat /\ s <= c
      <3>1. ASSUME NEW i \in 1 .. N PROVE sc[i] \in Nat /\ sc[i] <= c
        <4>1. sc[i] \in Nat
          BY DEF Times
        <4>2. i = N \/ i < N
          OBVIOUS
        <4> QED
          BY <2>1, <2>2, <4>1, <4>2 DEF SteadyTimes
      <3> QED
        BY <3>1
    <2>10. \A s \in Recorded : (\A other \in Recorded : other <= s) <=> s = c
      BY ONLY <2>8, <2>9, c \in Nat
    <2>11. CASE w.bin > 0
      <3>1. PICK lines, e : /\ lines = Finish(w).lines /\ lines = Append(w.lines, e)
                            /\ e = [second |-> c, bin |-> w.bin]
        BY <1>1, <2>3, <2>11, FinishIs
      <3>2. lines \in Lines /\ Longer(lines, w.lines, e)
        <4>1. e \in [second : Nat, bin : Nat]
          BY <2>3, <3>1
        <4>2. Append(w.lines, e) \in Lines /\ Longer(Append(w.lines, e), w.lines, e)
          BY ONLY <2>3, <4>1, AppendIs DEF Lines
        <4> QED
          BY ONLY <3>1, <4>2, Zenon
      <3>3. /\ Len(lines) = L + 1 /\ lines[L + 1] = e /\ \A m \in 1 .. L : lines[m] = w.lines[m]
        BY ONLY <2>5, <3>2 DEF Longer
      <3>4. DOMAIN lines = 1 .. L + 1
        BY ONLY <3>2, <3>3, L \in Nat DEF Lines
      <3>5. PICK next : next = [j \in 1 .. L + 1 |-> IF j = L + 1 THEN c ELSE second[j]]
        OBVIOUS
      <3>6. next[L + 1] = c /\ \A j \in 1 .. L : next[j] = second[j]
        BY <3>5
      <3>7. \A j \in 1 .. L + 1 : j = L + 1 \/ j \in 1 .. L
        OBVIOUS
      <3>8. \A i, j \in 1 .. L + 1 : i < j => next[i] < next[j]
        <4>1. /\ \A i, j \in 1 .. L : i < j => second[i] < second[j]
              /\ \A j \in 1 .. L : second[j] < c
          BY ONLY <2>6, Zenon
        <4>2. ASSUME NEW i \in 1 .. L + 1, NEW j \in 1 .. L + 1, i < j
              PROVE  next[i] < next[j]
          <5>1. i \in 1 .. L
            BY ONLY <4>2, L \in Nat
          <5>2. CASE j = L + 1
            BY ONLY <3>6, <4>1, <5>1, <5>2
          <5>3. CASE j \in 1 .. L
            BY ONLY <3>6, <4>1, <4>2, <5>1, <5>3
          <5> QED
            BY ONLY <3>7, <5>2, <5>3
        <4> QED
          BY ONLY <4>2
      <3>9. \A j \in 1 .. L + 1 : next[j] \in Recorded
        BY ONLY <2>7, <2>8, <3>6, <3>7, Zenon
      <3>10. e.bin = w.bin
        BY <3>1
      <3>11. \A j \in 1 .. L + 1 : lines[j].bin = bin[next[j]]
        BY ONLY <2>7, <2>8, <3>3, <3>6, <3>7, <3>10, Zenon
      <3>12. \A s \in Recorded : \E j \in 1 .. L + 1 : next[j] = s
        <4>1. L + 1 \in 1 .. L + 1 /\ \A j \in 1 .. L : j \in 1 .. L + 1
          OBVIOUS
        <4>2. ASSUME NEW s \in Recorded PROVE \E j \in 1 .. L + 1 : next[j] = s
          <5>1. PICK i \in 1 .. N : sc[i] = s
            OBVIOUS
          <5>2. s = c \/ \E j \in 1 .. L : second[j] = s
            BY ONLY <2>6, <5>1
          <5> QED
            BY ONLY <3>6, <4>1, <5>2
        <4> QED
          BY <4>2
      <3>13. \A s \in Recorded : ~(bin[s] = 0 /\ \A other \in Recorded : other <= s)
        BY ONLY <2>8, <2>10, <2>11
      <3>14. next \in [1 .. L + 1 -> Recorded]
        BY ONLY <3>5, <3>9
      <3>15. Tells(lines, next, bin)
        BY ONLY <3>4, <3>8, <3>11, <3>12, <3>13, <3>14, Zenon DEF Tells
      <3> QED
        BY <1>1, <3>1, <3>15
    <2>12. CASE ~(w.bin > 0)
      <3>1. w.bin = 0 /\ Finish(w) = w
        BY <1>1, <2>12, FinishIs
      <3>2. DOMAIN w.lines = 1 .. L
        BY ONLY <2>3, <2>5 DEF Lines
      <3>3. PICK next : next = [j \in 1 .. L |-> second[j]]
        OBVIOUS
      <3>4. \A j \in 1 .. L : next[j] = second[j]
        BY <3>3
      <3>5. next \in [1 .. L -> Recorded]
        BY ONLY <2>7, <3>3
      <3>6. \A i, j \in 1 .. L : i < j => next[i] < next[j]
        BY ONLY <2>6, <3>4
      <3>7. \A j \in 1 .. L : w.lines[j].bin = bin[next[j]]
        BY ONLY <2>7, <3>4
      <3>8. \A s \in Recorded : (\A j \in 1 .. L : next[j] # s) <=> s = c
        <4>1. \A j \in 1 .. L : next[j] # c
          BY ONLY <2>6, <3>4, c \in Nat
        <4>2. ASSUME NEW s \in Recorded, s # c PROVE \E j \in 1 .. L : next[j] = s
          <5>1. PICK i \in 1 .. N : sc[i] = s
            OBVIOUS
          <5>2. \E j \in 1 .. L : second[j] = s
            BY ONLY <2>6, <4>2, <5>1
          <5> QED
            BY ONLY <3>4, <5>2
        <4> QED
          BY ONLY <4>1, <4>2
      <3>9. \A s \in Recorded : s = c => bin[s] = 0
        BY ONLY <2>8, <3>1
      <3>10. Tells(w.lines, next, bin)
        BY ONLY <2>10, <3>2, <3>5, <3>6, <3>7, <3>8, <3>9, Zenon DEF Tells
      <3> QED
        BY <1>1, <3>1, <3>10
    <2> QED
      BY <2>11, <2>12
  <1> QED
    BY <1>2, <1>3

LEMMA BinsWritten ==
  ASSUME NEW N \in Nat, NEW sc, NEW vl, Taken(N, sc, vl)
  PROVE  BinsComplete
  <1> SUFFICES ASSUME Steady
               PROVE  OnePerSecond(SumBySecond.lines, SumIn) /\ OnePerSecond(MaxBySecond.lines, MaxIn)
    BY Zenon DEF BinsComplete
  <1>1. /\ N = Len(measurements) /\ DOMAIN measurements = 1 .. N
        /\ \A n \in 1 .. N : measurements[n].sec = sc[n]
    BY Zenon DEF Taken
  <1>2. Times(N, sc)
    BY DEF Taken, Times
  <1>3. SteadyTimes(N, sc)
    BY ONLY <1>1, Steady, ZenonT(60) DEF Steady, SteadyTimes
  <1>4. \A s : s \in Recorded <=> \E i \in 1 .. N : sc[i] = s
    BY ONLY <1>1, Zenon DEF Recorded
  <1>5. OnePerSecond(SumBySecond.lines, SumIn)
    <2>1. PICK f, G : f = Summing /\ G = SumUp(N, vl)
      OBVIOUS
    <2>2. PICK R : R = [s \in Nat |-> SumsIn(s)]
      OBVIOUS
    <2>3. \A s \in Nat : R[s] = SumsIn(s)
      BY ONLY <2>2
    <2>4. RefLoops(R, N, sc, G)
      BY ONLY <2>1, <2>3, SumsAre, N \in Nat, Taken(N, sc, vl) DEF RefLoops
    <2>5. BinLoop(f, N, sc, G)
      BY <2>1, SummingIs
    <2>6. \A s \in Recorded : s \in Nat
      BY ONLY <1>2, <1>4 DEF Times
    <2>7. \A s \in Recorded : SumIn[s] = R[s][N]
      BY ONLY <1>1, <2>3, <2>6, Zenon DEF SumIn
    <2>8. SumBySecond = Finish(f[N])
      BY ONLY <1>1, <2>1, Zenon DEF SumBySecond
    <2> QED
      BY ONLY <1>2, <1>3, <1>4, <2>4, <2>5, <2>7, <2>8, LinesTold, N \in Nat
  <1>6. OnePerSecond(MaxBySecond.lines, MaxIn)
    <2>1. PICK f, G : f = Maximizing /\ G = MaxUp(N, vl)
      OBVIOUS
    <2>2. PICK R : R = [s \in Nat |-> MaximaIn(s)]
      OBVIOUS
    <2>3. \A s \in Nat : R[s] = MaximaIn(s)
      BY ONLY <2>2
    <2>4. RefLoops(R, N, sc, G)
      BY ONLY <2>1, <2>3, MaximaAre, N \in Nat, Taken(N, sc, vl) DEF RefLoops
    <2>5. BinLoop(f, N, sc, G)
      BY <2>1, MaximizingIs
    <2>6. \A s \in Recorded : s \in Nat
      BY ONLY <1>2, <1>4 DEF Times
    <2>7. \A s \in Recorded : MaxIn[s] = R[s][N]
      BY ONLY <1>1, <2>3, <2>6, Zenon DEF MaxIn
    <2>8. MaxBySecond = Finish(f[N])
      BY ONLY <1>1, <2>1, Zenon DEF MaxBySecond
    <2> QED
      BY ONLY <1>2, <1>3, <1>4, <2>4, <2>5, <2>7, <2>8, LinesTold, N \in Nat
  <1> QED
    BY <1>5, <1>6

-----------------------------------------------------------------------------
(* calculate_percentiles                                                   *)

Sorts(p, N, vl) ==
  /\ p \in [1 .. N -> 1 .. N]
  /\ \A i, j \in 1 .. N : p[i] = p[j] => i = j
  /\ \A i, j \in 1 .. N : i < j => vl[p[i]] <= vl[p[j]]

Upwards(x, n) == /\ \A i \in 1 .. n : x[i] \in Nat
                 /\ \A i, j \in 1 .. n : i < j => x[i] <= x[j]

Fits(x, n, j, v) == (\A i \in 1 .. j : x[i] <= v) /\ (\A i \in j + 1 .. n : v <= x[i])

LEMMA PlaceExists ==
  ASSUME NEW n \in Nat, NEW x, Upwards(x, n), NEW v \in Nat
  PROVE  \E j \in 0 .. n : Fits(x, n, j, v)
  <1> DEFINE T == {k \in Nat : \E j \in 0 .. k : Fits(x, k, j, v)}
  <1>1. 0 \in T
    BY DEF Fits
  <1>2. ASSUME NEW k \in 1 .. n, k - 1 \in T PROVE k \in T
    <2>1. PICK j \in 0 .. k - 1 : Fits(x, k - 1, j, v)
      BY <1>2
    <2>2. x[k] \in Nat /\ \A i \in 1 .. k - 1 : x[i] \in Nat /\ x[i] <= x[k]
      BY DEF Upwards
    <2>3. CASE v <= x[k]
      <3>1. Fits(x, k, j, v)
        <4>1. \A i \in j + 1 .. k : i = k \/ i \in j + 1 .. k - 1
          OBVIOUS
        <4> QED
          BY ONLY <2>1, <2>3, <4>1 DEF Fits
      <3> QED
        BY <3>1
    <2>4. CASE ~(v <= x[k])
      <3>1. Fits(x, k, k, v)
        <4>1. \A i \in 1 .. k : i = k \/ i \in 1 .. k - 1
          OBVIOUS
        <4>2. k + 1 .. k = {}
          OBVIOUS
        <4> QED
          BY ONLY <2>2, <2>4, <4>1, <4>2, v \in Nat DEF Fits
      <3> QED
        BY <3>1
    <2> QED
      BY <2>3, <2>4
  <1>3. n \in T
    <2>1. Kept(n, T)
      BY ONLY <1>2 DEF Kept
    <2> HIDE DEF T
    <2> QED
      BY <1>1, <2>1, LoopInduction
  <1> QED
    BY <1>3

LEMMA SortGrows ==
  ASSUME NEW m \in Nat \ {0}, NEW vl, \A i \in 1 .. m : vl[i] \in Nat,
         NEW p, Sorts(p, m - 1, vl)
  PROVE  \E q : Sorts(q, m, vl)
  <1>1. PICK n \in Nat : n = m - 1 /\ m = n + 1
    OBVIOUS
  <1>2. /\ p \in [1 .. n -> 1 .. n]
        /\ \A i, j \in 1 .. n : p[i] = p[j] => i = j
        /\ \A i, j \in 1 .. n : i < j => vl[p[i]] <= vl[p[j]]
    BY <1>1 DEF Sorts
  <1>3. PICK x : x = [i \in 1 .. n |-> vl[p[i]]]
    OBVIOUS
  <1>4. Upwards(x, n)
    BY <1>1, <1>2, <1>3 DEF Upwards
  <1>5. PICK v \in Nat : v = vl[m]
    BY <1>1
  <1>6. PICK j \in 0 .. n : Fits(x, n, j, v)
    BY <1>4, PlaceExists
  <1>7. /\ \A i \in 1 .. j : i \in 1 .. n /\ vl[p[i]] <= v
        /\ \A i \in j + 1 .. n : i \in 1 .. n /\ v <= vl[p[i]]
    <2>1. \A i \in 1 .. n : x[i] = vl[p[i]]
      BY ONLY <1>3
    <2>2. /\ \A i \in 1 .. j : i \in 1 .. n
          /\ \A i \in j + 1 .. n : i \in 1 .. n
      OBVIOUS
    <2>3. (\A i \in 1 .. j : x[i] <= v) /\ (\A i \in j + 1 .. n : v <= x[i])
      BY <1>6 DEF Fits
    <2> QED
      BY ONLY <2>1, <2>2, <2>3
  <1>8. PICK q : q = [i \in 1 .. m |-> IF i <= j THEN p[i] ELSE IF i = j + 1 THEN m ELSE p[i - 1]]
    OBVIOUS
  <1> DEFINE Old(i) == IF i <= j THEN i ELSE i - 1
  <1>9. ASSUME NEW i \in 1 .. m, i # j + 1 PROVE Old(i) \in 1 .. n /\ q[i] = p[Old(i)]
    <2>1. CASE i <= j
      BY <1>1, <1>8, <2>1
    <2>2. CASE ~(i <= j)
      <3>1. i - 1 \in 1 .. n
        BY <1>1, <1>9, <2>2
      <3> QED
        BY <1>8, <1>9, <2>2, <3>1
    <2> QED
      BY <2>1, <2>2
  <1>10. j + 1 \in 1 .. m /\ q[j + 1] = m
    BY <1>1, <1>8
  <1>11. \A i, k \in 1 .. m : i # j + 1 /\ k # j + 1 =>
           (Old(i) = Old(k) => i = k) /\ (i < k => Old(i) < Old(k))
    BY <1>1
  <1>12. /\ \A i \in 1 .. m : i # j + 1 /\ i < j + 1 => Old(i) \in 1 .. j
         /\ \A i \in 1 .. m : i # j + 1 /\ j + 1 < i => Old(i) \in j + 1 .. n
    BY <1>1
  <1> HIDE DEF Old
  <1>13. \A i \in 1 .. m : i # j + 1 => q[i] \in 1 .. n
    BY ONLY <1>2, <1>9
  <1>14. q \in [1 .. m -> 1 .. m]
    <2>1. \A i \in 1 .. m : q[i] \in 1 .. m
      BY ONLY <1>1, <1>10, <1>13, n \in Nat
    <2> QED
      BY ONLY <1>8, <2>1
  <1>15. ASSUME NEW i \in 1 .. m, NEW k \in 1 .. m, q[i] = q[k] PROVE i = k
    <2>1. m \notin 1 .. n
      BY <1>1
    <2>2. CASE i = j + 1 \/ k = j + 1
      BY ONLY <1>10, <1>13, <1>15, <2>1, <2>2
    <2>3. CASE i # j + 1 /\ k # j + 1
      BY ONLY <1>2, <1>9, <1>11, <1>15, <2>3
    <2> QED
      BY <2>2, <2>3
  <1>16. ASSUME NEW i \in 1 .. m, NEW k \in 1 .. m, i < k PROVE vl[q[i]] <= vl[q[k]]
    <2>1. CASE i = j + 1
      <3>1. k # j + 1 /\ j + 1 < k
        BY <1>16, <2>1
      <3>2. q[k] = p[Old(k)] /\ Old(k) \in j + 1 .. n
        BY ONLY <1>9, <1>12, <3>1, k \in 1 .. m
      <3> QED
        BY ONLY <1>5, <1>7, <1>10, <2>1, <3>2
    <2>2. CASE k = j + 1
      <3>1. i # j + 1 /\ i < j + 1
        BY <1>16, <2>2
      <3>2. q[i] = p[Old(i)] /\ Old(i) \in 1 .. j
        BY ONLY <1>9, <1>12, <3>1, i \in 1 .. m
      <3> QED
        BY ONLY <1>5, <1>7, <1>10, <2>2, <3>2
    <2>3. CASE i # j + 1 /\ k # j + 1
      <3>1. Old(i) \in 1 .. n /\ Old(k) \in 1 .. n /\ Old(i) < Old(k)
            /\ q[i] = p[Old(i)] /\ q[k] = p[Old(k)]
        BY ONLY <1>9, <1>11, <1>16, <2>3
      <3> QED
        BY ONLY <1>2, <3>1
    <2> QED
      BY <2>1, <2>2, <2>3
  <1> QED
    BY ONLY <1>14, <1>15, <1>16, Zenon DEF Sorts

LEMMA SortExists ==
  ASSUME NEW N \in Nat, NEW vl, \A i \in 1 .. N : vl[i] \in Nat
  PROVE  \E p : Sorts(p, N, vl)
  <1> DEFINE T == {m \in Nat : \E p : Sorts(p, m, vl)}
  <1>1. 0 \in T
    <2>1. Sorts(<<>>, 0, vl)
      BY DEF Sorts
    <2> QED
      BY <2>1
  <1>2. ASSUME NEW m \in 1 .. N, m - 1 \in T PROVE m \in T
    <2>1. PICK p : Sorts(p, m - 1, vl)
      BY <1>2
    <2>2. m \in Nat \ {0} /\ \A i \in 1 .. m : vl[i] \in Nat
      OBVIOUS
    <2> QED
      BY <2>1, <2>2, SortGrows
  <1>3. N \in T
    <2>1. Kept(N, T)
      BY ONLY <1>2 DEF Kept
    <2> HIDE DEF T
    <2> QED
      BY <1>1, <2>1, LoopInduction
  <1> QED
    BY <1>3

LEMMA SortedIs ==
  ASSUME NEW N \in Nat, NEW sc, NEW vl, Taken(N, sc, vl)
  PROVE  \E p : Sorts(p, N, vl) /\ Sorted = [i \in 1 .. N |-> vl[p[i]]]
  <1>1. /\ DOMAIN measurements = 1 .. N
        /\ \A n \in 1 .. N : measurements[n].value = vl[n] /\ vl[n] \in Nat
    BY Zenon DEF Taken
  <1> DEFINE D == DOMAIN measurements
             Is(p) == /\ \A i, j \in D : p[i] = p[j] => i = j
                      /\ \A i, j \in D : i < j => measurements[p[i]].value <= measurements[p[j]].value
  <1>2. ASSUME NEW p \in [1 .. N -> 1 .. N] PROVE Is(p) <=> Sorts(p, N, vl)
    <2>1. D = 1 .. N
      BY <1>1
    <2>2. \A i \in 1 .. N : measurements[p[i]].value = vl[p[i]]
      BY ONLY <1>1, p \in [1 .. N -> 1 .. N]
    <2>3. Is(p) <=> /\ \A i, j \in 1 .. N : p[i] = p[j] => i = j
                    /\ \A i, j \in 1 .. N : i < j => measurements[p[i]].value <= measurements[p[j]].value
      <3> HIDE DEF D
      <3> QED
        BY ONLY <2>1 DEF Is
    <2>4. (\A i, j \in 1 .. N : i < j => measurements[p[i]].value <= measurements[p[j]].value)
            <=> \A i, j \in 1 .. N : i < j => vl[p[i]] <= vl[p[j]]
      BY ONLY <2>2
    <2> HIDE DEF Is
    <2> QED
      BY ONLY <2>3, <2>4, p \in [1 .. N -> 1 .. N], Zenon DEF Sorts
  <1>3. PICK p : p = CHOOSE q \in [D -> D] : Is(q)
    OBVIOUS
  <1>4. Sorted = [i \in D |-> measurements[p[i]].value]
    <2>1. Sorted = [i \in D |-> measurements[(CHOOSE q \in [D -> D] : Is(q))[i]].value]
      BY DEF Sorted
    <2> HIDE DEF D, Is
    <2> QED
      BY ONLY <1>3, <2>1
  <1>5. \E q \in [D -> D] : Is(q)
    <2>1. PICK q : Sorts(q, N, vl)
      BY <1>1, SortExists
    <2>2. q \in [1 .. N -> 1 .. N]
      BY <2>1 DEF Sorts
    <2>3. D = 1 .. N
      BY <1>1
    <2> HIDE DEF Is, D
    <2> QED
      BY <1>2, <2>1, <2>2, <2>3
  <1>6. p \in [1 .. N -> 1 .. N] /\ Is(p)
    <2>1. D = 1 .. N
      BY <1>1
    <2> HIDE DEF Is, D
    <2>2. p \in [D -> D] /\ Is(p)
      BY <1>3, <1>5
    <2> QED
      BY ONLY <2>1, <2>2, Zenon
  <1>7. Sorts(p, N, vl)
    BY <1>2, <1>6
  <1>8. Sorted = [i \in 1 .. N |-> vl[p[i]]]
    BY ONLY <1>1, <1>4, <1>6
  <1> QED
    BY <1>7, <1>8

\* Nothing before place m + 1 is greater, and nothing after it smaller.
LEMMA Split ==
  ASSUME NEW N \in Nat, NEW vl, \A i \in 1 .. N : vl[i] \in Nat, NEW p, Sorts(p, N, vl),
         NEW m \in 0 .. N - 1, NEW v, v = vl[p[m + 1]]
  PROVE  /\ Cardinality({i \in 1 .. N : vl[i] < v}) \in 0 .. m
         /\ Cardinality({i \in 1 .. N : vl[i] <= v}) \in m + 1 .. N
  <1> DEFINE S == {i \in 1 .. N : vl[i] < v}
             U == {i \in 1 .. N : vl[i] <= v}
  <1>1. IsFiniteSet(1 .. N) /\ Cardinality(1 .. N) = N
    BY FS_Interval
  <1>2. IsFiniteSet(S) /\ IsFiniteSet(U) /\ Cardinality(U) <= N
    BY <1>1, FS_Subset
  <1>3. Cardinality(S) \in Nat /\ Cardinality(U) \in Nat
    BY <1>2, FS_CardinalityType
  <1>4. /\ p \in [1 .. N -> 1 .. N]
        /\ \A i, j \in 1 .. N : p[i] = p[j] => i = j
        /\ \A i, j \in 1 .. N : i < j => vl[p[i]] <= vl[p[j]]
    BY DEF Sorts
  <1>5. \A i \in 1 .. N : \E q \in 1 .. N : p[q] = i
    <2>1. p \in Injection(1 .. N, 1 .. N)
      BY <1>4 DEF Injection, IsInjective
    <2>2. p \in Surjection(1 .. N, 1 .. N)
      BY <1>1, <2>1, FS_Injection
    <2> QED
      BY <2>2 DEF Surjection
  <1>6. m + 1 \in 1 .. N /\ v \in Nat
    BY <1>4
  <1>7. Cardinality(S) <= m
    <2>1. PICK g : g = [i \in S |-> CHOOSE q \in 1 .. N : p[q] = i]
      OBVIOUS
    <2>2. ASSUME NEW i \in S PROVE g[i] \in 1 .. N /\ p[g[i]] = i
      <3>1. \E q \in 1 .. N : p[q] = i
        BY <1>5
      <3>2. g[i] = CHOOSE q \in 1 .. N : p[q] = i
        BY <2>1
      <3> QED
        BY ONLY <3>1, <3>2
    <2>3. ASSUME NEW i \in S PROVE g[i] \in 1 .. m
      <3>1. PICK q \in 1 .. N : q = g[i] /\ p[q] = i /\ vl[i] < v /\ vl[i] \in Nat
        BY <2>2
      <3>2. ~(m + 1 = q)
        BY <1>6, <3>1
      <3>3. ~(m + 1 < q)
        <4>1. m + 1 < q => v <= vl[p[q]]
          BY <1>4, <1>6
        <4> QED
          BY ONLY <1>6, <3>1, <4>1
      <3> QED
        BY <3>1, <3>2, <3>3
    <2>4. g \in Injection(S, 1 .. m)
      <3>1. g \in [S -> 1 .. m]
        BY ONLY <2>1, <2>3
      <3>2. \A i, k \in S : g[i] = g[k] => i = k
        BY ONLY <2>2
      <3> QED
        BY ONLY <3>1, <3>2 DEF Injection, IsInjective
    <2>5. IsFiniteSet(1 .. m) /\ Cardinality(1 .. m) = m
      BY FS_Interval
    <2> HIDE DEF S
    <2> QED
      BY <2>4, <2>5, FS_Injection
  <1>8. m + 1 <= Cardinality(U)
    <2>1. PICK g : g = [q \in 1 .. m + 1 |-> p[q]]
      OBVIOUS
    <2>2. ASSUME NEW q \in 1 .. m + 1 PROVE g[q] \in U
      <3>1. q \in 1 .. N /\ p[q] \in 1 .. N /\ g[q] = p[q] /\ (q = m + 1 \/ q < m + 1)
        BY <1>4, <2>1
      <3>2. vl[p[q]] <= v
        BY <1>4, <1>6, <3>1
      <3> QED
        BY <3>1, <3>2
    <2>3. g \in Injection(1 .. m + 1, U)
      <3>1. g \in [1 .. m + 1 -> U]
        BY ONLY <2>1, <2>2
      <3>2. \A i, k \in 1 .. m + 1 : g[i] = g[k] => i = k
        BY <1>4, <2>1
      <3> QED
        BY ONLY <3>1, <3>2 DEF Injection, IsInjective
    <2>4. Cardinality(1 .. m + 1) = m + 1
      BY FS_Interval
    <2>5. Cardinality(1 .. m + 1) <= Cardinality(U)
      <3> HIDE DEF U
      <3> QED
        BY <1>2, <2>3, FS_Injection
    <2> QED
      BY <2>4, <2>5
  <1> QED
    BY <1>2, <1>3, <1>7, <1>8

Shares == {999, 990, 950, 900, 750, 500, 250}

\* What PercentilesSplit says of one percentile.
SplitBy(p, n, smaller, notGreater) ==
  /\ smaller * 1000 <= p * n
  /\ IF p = 1000 THEN notGreater = n ELSE notGreater * 1000 > p * n

Splits(e, n, vl) == SplitBy(e.p, n, Cardinality({i \in 1 .. n : vl[i] < e.value}),
                                   Cardinality({i \in 1 .. n : vl[i] <= e.value}))

LEMMA ShareIndex ==
  ASSUME NEW b \in Shares, NEW n \in Nat \ {0}
  PROVE  /\ (b * n) \div 1000 \in 0 .. n - 1
         /\ ((b * n) \div 1000) * 1000 <= b * n
         /\ ((b * n) \div 1000 + 1) * 1000 > b * n
         /\ b # 1000 /\ b \in Nat /\ b * n \in Nat
  BY DEF Shares

Percentile(e, N, x) ==
  \/ e = [p |-> 1000, value |-> x[N]]
  \/ e = [p |-> 0, value |-> x[1]]
  \/ \E b \in Shares : e = [p |-> b, value |-> x[(b * N) \div 1000 + 1]]

LEMMA SplitEverywhere ==
  ASSUME NEW N \in Nat, N # 0, NEW vl, \A i \in 1 .. N : vl[i] \in Nat, NEW p, Sorts(p, N, vl),
         NEW x, x = [i \in 1 .. N |-> vl[p[i]]],
         NEW e, Percentile(e, N, x)
  PROVE  Splits(e, N, vl)
  <1>1. PICK s, g : /\ s = Cardinality({i \in 1 .. N : vl[i] < e.value})
                    /\ g = Cardinality({i \in 1 .. N : vl[i] <= e.value})
    OBVIOUS
  <1>2. ASSUME NEW m \in 0 .. N - 1, e.value = x[m + 1] PROVE s \in 0 .. m /\ g \in m + 1 .. N
    <2>1. m + 1 \in 1 .. N
      OBVIOUS
    <2>2. e.value = vl[p[m + 1]]
      BY ONLY <1>2, <2>1, x = [i \in 1 .. N |-> vl[p[i]]]
    <2>3. /\ Cardinality({i \in 1 .. N : vl[i] < e.value}) \in 0 .. m
          /\ Cardinality({i \in 1 .. N : vl[i] <= e.value}) \in m + 1 .. N
      BY <2>2, Split
    <2> QED
      BY ONLY <1>1, <2>3, Zenon
  <1>3. SUFFICES SplitBy(e.p, N, s, g)
    BY ONLY <1>1, <1>3, Zenon DEF Splits
  <1>4. CASE e = [p |-> 1000, value |-> x[N]]
    <2>1. N - 1 \in 0 .. N - 1 /\ (N - 1) + 1 = N
      OBVIOUS
    <2>2. e.value = x[N] /\ e.p = 1000
      BY <1>4
    <2>3. s \in 0 .. N - 1 /\ g \in N .. N
      BY ONLY <1>2, <2>1, <2>2
    <2> QED
      BY ONLY <2>2, <2>3, N \in Nat DEF SplitBy
  <1>5. CASE e = [p |-> 0, value |-> x[1]]
    <2>1. 0 \in 0 .. N - 1 /\ 0 + 1 = 1
      OBVIOUS
    <2>2. e.value = x[1] /\ e.p = 0
      BY <1>5
    <2>3. s \in 0 .. 0 /\ g \in 1 .. N
      BY ONLY <1>2, <2>1, <2>2
    <2> QED
      BY ONLY <2>2, <2>3, N \in Nat DEF SplitBy
  <1>6. CASE \E b \in Shares : e = [p |-> b, value |-> x[(b * N) \div 1000 + 1]]
    <2>1. PICK b \in Shares : e = [p |-> b, value |-> x[(b * N) \div 1000 + 1]]
      BY <1>6
    <2>2. PICK m, bn : m = (b * N) \div 1000 /\ bn = b * N
      OBVIOUS
    <2>3. m \in 0 .. N - 1 /\ m * 1000 <= bn /\ (m + 1) * 1000 > bn /\ b # 1000 /\ bn \in Nat
      <3>1. N \in Nat \ {0}
        OBVIOUS
      <3>2. /\ (b * N) \div 1000 \in 0 .. N - 1
            /\ ((b * N) \div 1000) * 1000 <= b * N
            /\ ((b * N) \div 1000 + 1) * 1000 > b * N
            /\ b # 1000 /\ b * N \in Nat
        BY ONLY <3>1, ShareIndex, b \in Shares
      <3> QED
        BY ONLY <2>2, <3>2
    <2>4. e.value = x[m + 1] /\ e.p = b
      BY ONLY <2>1, <2>2
    <2>5. s \in 0 .. m /\ g \in m + 1 .. N
      BY ONLY <1>2, <2>3, <2>4
    <2>6. s * 1000 <= bn /\ g * 1000 > bn
      <3>1. m \in Nat /\ s \in Nat /\ g \in Nat /\ s <= m /\ g >= m + 1
        BY ONLY <2>3, <2>5, N \in Nat
      <3>2. s * 1000 <= m * 1000 /\ (m + 1) * 1000 <= g * 1000
        BY ONLY <3>1
      <3> QED
        BY ONLY <2>3, <3>1, <3>2
    <2>7. s * 1000 <= b * N /\ g * 1000 > b * N
      BY ONLY <2>2, <2>6, ZenonT(60)
    <2>8. SplitBy(b, N, s, g)
      BY ONLY <2>3, <2>7 DEF SplitBy
    <2> QED
      BY ONLY <2>4, <2>8, Zenon
  <1> QED
    BY <1>4, <1>5, <1>6 DEF Percentile

LEMMA SplitWritten ==
  ASSUME NEW N \in Nat, NEW sc, NEW vl, Taken(N, sc, vl)
  PROVE  PercentilesSplit
  <1>1. N = Len(measurements) /\ \A i \in 1 .. N : measurements[i].value = vl[i] /\ vl[i] \in Nat
    BY Zenon DEF Taken
  <1>2. PICK p : Sorts(p, N, vl) /\ Sorted = [i \in 1 .. N |-> vl[p[i]]]
    BY SortedIs
  <1>n. Percentiles = IF Sorted = <<>> THEN <<>>
                      ELSE <<[p |-> 1000, value |-> Sorted[Len(Sorted)]]>>
                           \o [j \in DOMAIN Bins |-> [p |-> Bins[j], value |-> At(Sorted, Bins[j])]]
                           \o <<[p |-> 0, value |-> Sorted[1]]>>
    BY Zenon DEF Percentiles
  <1>3. PICK x : /\ x = Sorted
                 /\ Percentiles = IF x = <<>> THEN <<>>
                                  ELSE <<[p |-> 1000, value |-> x[Len(x)]]>>
                                       \o [j \in DOMAIN Bins |-> [p |-> Bins[j], value |-> At(x, Bins[j])]]
                                       \o <<[p |-> 0, value |-> x[1]]>>
    BY <1>n, ZenonT(60)
  <1>4. x \in Seq(Nat) /\ Len(x) = N
    <2>1. \A i \in 1 .. N : vl[p[i]] \in Nat
      BY <1>1, <1>2 DEF Sorts
    <2> QED
      BY ONLY <1>2, <1>3, <2>1, N \in Nat
  <1>5. ASSUME NEW k \in DOMAIN Percentiles PROVE Splits(Percentiles[k], N, vl)
    <2>1. CASE N = 0
      <3>1. x = <<>>
        BY ONLY <1>4, <2>1
      <3>2. Percentiles = <<>>
        BY ONLY <1>3, <3>1, ZenonT(60)
      <3> QED
        BY ONLY <1>5, <3>2
    <2>2. CASE N # 0
      <3>1. x # <<>>
        BY ONLY <1>4, <2>2
      <3>3. Percentiles = <<[p |-> 1000, value |-> x[Len(x)]]>>
                          \o [j \in DOMAIN Bins |-> [p |-> Bins[j], value |-> At(x, Bins[j])]]
                          \o <<[p |-> 0, value |-> x[1]]>>
        BY ONLY <1>3, <3>1
      <3> DEFINE t == <<[p |-> 1000, value |-> x[Len(x)]]>>
                 u == [j \in DOMAIN Bins |-> [p |-> Bins[j], value |-> At(x, Bins[j])]]
                 v == <<[p |-> 0, value |-> x[1]]>>
      <3>2. Percentiles = t \o u \o v
        BY ONLY <3>3
      <3> DEFINE P == {e \in [p : Nat, value : Nat] : Percentile(e, N, x)}
      <3>4. \A i \in 1 .. N : x[i] \in Nat
        BY ONLY <1>4
      <3>5. t \in Seq(P)
        <4>1. [p |-> 1000, value |-> x[N]] \in P
          BY ONLY <2>2, <3>4, N \in Nat DEF Percentile
        <4> HIDE DEF P
        <4> QED
          BY ONLY <1>4, <4>1
      <3>6. v \in Seq(P)
        <4>1. [p |-> 0, value |-> x[1]] \in P
          BY ONLY <2>2, <3>4, N \in Nat DEF Percentile
        <4> HIDE DEF P
        <4> QED
          BY ONLY <4>1
      <3>7. u \in Seq(P)
        <4>1. DOMAIN Bins = 1 .. 7 /\ \A j \in 1 .. 7 : Bins[j] \in Shares
          BY DEF Bins, Shares
        <4>2. ASSUME NEW b \in Shares PROVE [p |-> b, value |-> At(x, b)] \in P
          <5>1. PICK m : m = (b * N) \div 1000 /\ m \in 0 .. N - 1 /\ b \in Nat
            BY <2>2, ShareIndex
          <5>2. At(x, b) = x[m + 1] /\ x[m + 1] \in Nat
            BY ONLY <1>4, <3>4, <5>1 DEF At
          <5> QED
            BY ONLY <5>1, <5>2, b \in Shares DEF Percentile
        <4> HIDE DEF P
        <4>4. [1 .. 7 -> P] \subseteq Seq(P)
          BY SeqDef
        <4>3. u \in [1 .. 7 -> P]
          BY ONLY <4>1, <4>2
        <4> QED
          BY ONLY <4>3, <4>4, Zenon
      <3>8. \A j \in DOMAIN Percentiles : Percentiles[j] \in P
        <4> HIDE DEF P, t, u, v
        <4>1. Percentiles \in Seq(P)
          BY ONLY <3>2, <3>5, <3>6, <3>7
        <4> QED
          BY ONLY <4>1
      <3>9. PICK e \in P : e = Percentiles[k]
        BY <3>8
      <3>10. Splits(e, N, vl)
        <4>1. Percentile(e, N, x)
          BY <3>9
        <4>2. x = [i \in 1 .. N |-> vl[p[i]]] /\ \A i \in 1 .. N : vl[i] \in Nat
          BY ONLY <1>1, <1>2, <1>3
        <4> QED
          BY ONLY <1>2, <2>2, <4>1, <4>2, SplitEverywhere, N \in Nat
      <3> QED
        BY ONLY <3>9, <3>10
    <2> QED
      BY <2>1, <2>2
  <1>6. ASSUME NEW w
        PROVE  /\ {i \in 1 .. N : measurements[i].value < w} = {i \in 1 .. N : vl[i] < w}
               /\ {i \in 1 .. N : measurements[i].value <= w} = {i \in 1 .. N : vl[i] <= w}
    BY <1>1
  <1>7. ASSUME NEW k \in DOMAIN Percentiles
        PROVE  SplitBy(Percentiles[k].p, Len(measurements),
                       Cardinality({i \in 1 .. Len(measurements) : measurements[i].value < Percentiles[k].value}),
                       Cardinality({i \in 1 .. Len(measurements) : measurements[i].value <= Percentiles[k].value}))
    BY ONLY <1>1, <1>5, <1>6, Zenon DEF Splits
  <1> QED
    BY ONLY <1>7, Zenon DEF PercentilesSplit, SplitBy

-----------------------------------------------------------------------------
(* The sequential programs *)

\* What the programs work on: measurements, numbers, and a tree that is as it was
\* made or half turned round.
DataInv ==
  /\ seq \in Seq(Numbers)
  /\ measurements \in Seq([sec : Seconds, value : Values])
  /\ TreesAre(memory, before, calls)

LEMMA DataStart == InitAlgorithms => DataInv
  BY TreesStart DEF InitAlgorithms, DataInv, HistogramInit, AscendingSumInit

LEMMA DataKept == DataInv /\ [NextAlgorithms]_algorithmVars => DataInv'
  <1> SUFFICES ASSUME DataInv, [NextAlgorithms]_algorithmVars PROVE DataInv'
    OBVIOUS
  <1>1. CASE HistogramNext /\ UNCHANGED <<seq, treeVars>>
    <2>1. PICK sec \in Seconds, v \in Values : measurements' = Append(measurements, [sec |-> sec, value |-> v])
      BY <1>1 DEF HistogramNext, record_value
    <2>2. PICK m \in [sec : Seconds, value : Values] : measurements' = Append(measurements, m)
      BY <2>1
    <2>3. measurements' \in Seq([sec : Seconds, value : Values])
      BY <2>2, AppendIs DEF DataInv
    <2>4. seq' = seq /\ memory' = memory /\ before' = before /\ calls' = calls
      BY <1>1 DEF treeVars
    <2> QED
      BY ONLY DataInv, <2>3, <2>4, Zenon DEF DataInv
  <1>2. CASE AscendingSumNext /\ UNCHANGED <<measurements, treeVars>>
    <2>1. PICK x \in Numbers : seq' = Append(seq, x)
      BY <1>2 DEF AscendingSumNext, PushBack
    <2>2. seq' \in Seq(Numbers)
      BY <2>1, AppendIs DEF DataInv
    <2>3. measurements' = measurements /\ memory' = memory /\ before' = before /\ calls' = calls
      BY <1>2 DEF treeVars
    <2> QED
      BY ONLY DataInv, <2>2, <2>3, Zenon DEF DataInv
  <1>3. CASE TreesNext /\ UNCHANGED <<measurements, seq>>
    <2>1. TreesAre(memory, before, calls)'
      BY <1>3, TreesStep DEF DataInv
    <2> QED
      BY ONLY DataInv, <1>3, <2>1, Zenon DEF DataInv
  <1>4. CASE UNCHANGED algorithmVars
    <2>1. /\ seq' = seq /\ measurements' = measurements
          /\ memory' = memory /\ before' = before /\ calls' = calls
      BY <1>4 DEF algorithmVars, treeVars
    <2> QED
      BY ONLY DataInv, <2>1, Zenon DEF DataInv
  <1> QED
    BY <1>1, <1>2, <1>3, <1>4, Zenon DEF NextAlgorithms

LEMMA DataInvariance == SpecAlgorithms => []DataInv
  BY DataStart, DataKept, PTL DEF SpecAlgorithms

LEMMA MeasurementsTaken ==
  ASSUME DataInv
  PROVE  \E N, sc, vl : N \in Nat /\ Taken(N, sc, vl)
  <1>1. measurements \in Seq([sec : Seconds, value : Values])
    BY DEF DataInv
  <1>2. PICK N \in Nat : N = Len(measurements) /\ DOMAIN measurements = 1 .. N
    BY <1>1
  <1>3. \A n \in 1 .. N : measurements[n] \in [sec : Seconds, value : Values]
    BY <1>1, <1>2, ItemsAre
  <1>4. PICK sc, vl : /\ sc = [n \in 1 .. N |-> measurements[n].sec]
                      /\ vl = [n \in 1 .. N |-> measurements[n].value]
    OBVIOUS
  <1>5. ASSUME NEW n \in 1 .. N
        PROVE  /\ measurements[n].sec = sc[n] /\ measurements[n].value = vl[n]
               /\ sc[n] \in Nat /\ sc[n] # 0 /\ vl[n] \in Nat
    <2>1. measurements[n].sec \in Seconds /\ measurements[n].value \in Values
      BY ONLY <1>3, n \in 1 .. N
    <2>2. measurements[n].sec = sc[n] /\ measurements[n].value = vl[n]
      BY ONLY <1>4, n \in 1 .. N
    <2> QED
      BY ONLY <2>1, <2>2, MeasurementsAssumption
  <1>6. Taken(N, sc, vl)
    BY ONLY <1>2, <1>5, Zenon DEF Taken
  <1> QED
    BY <1>6

\* util/sum.cpp: whatever numbers are pushed, max_ascending_sum returns an ascending
\* run of them, and none has a larger sum.
THEOREM RunWithLargestSum == SpecAlgorithms => []LargestRun
  <1>1. DataInv => LargestRun
    BY RunIsLargest DEF DataInv
  <1> QED
    BY <1>1, DataInvariance, PTL

\* util/flip.cpp and util/traversal.cpp: whatever the tree, when flip returns it is the
\* tree immutable_flip would have made, seen from the other side by the traversals.
THEOREM FlipTurnsRound == SpecAlgorithms => []TurnedRound
  <1>1. DataInv => TurnedRound
    BY TreesTurned DEF DataInv
  <1> QED
    BY <1>1, DataInvariance, PTL

\* common/histogram.h: whatever is recorded, and however the clock is set, the grand
\* total written is the sum of all measurements.
THEOREM GrandTotals == SpecAlgorithms => []GrandTotalIsSum
  <1>1. DataInv => GrandTotalIsSum
    BY MeasurementsTaken, TotalWritten
  <1> QED
    BY <1>1, DataInvariance, PTL

\* common/histogram.h: if the clock is not set back, there is one line for every second
\* in which something was recorded, in order, with its sum or maximum; the last
\* second's is left out if its bin is zero.
THEOREM LinesPerSecond == SpecAlgorithms => []BinsComplete
  <1>1. DataInv => BinsComplete
    BY MeasurementsTaken, BinsWritten
  <1> QED
    BY <1>1, DataInvariance, PTL

\* common/histogram.h: every percentile written splits the measurements where it says.
THEOREM PercentilesDivide == SpecAlgorithms => []PercentilesSplit
  <1>1. DataInv => PercentilesSplit
    BY MeasurementsTaken, SplitWritten
  <1> QED
    BY <1>1, DataInvariance, PTL
=============================================================================
